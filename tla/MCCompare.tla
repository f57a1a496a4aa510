------------------------------ MODULE MCCompare ------------------------------
(* run_prompt_compare: both modes, the file of Text Mode is read first.      *)
EXTENDS CompareProgress

MCOrder == <<"text", "protocol">>
=============================================================================
