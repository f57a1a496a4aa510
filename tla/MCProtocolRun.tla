---------------------------- MODULE MCProtocolRun ----------------------------
(* One run after two stored units.                                          *)
EXTENDS ProtocolRun, TLC
=============================================================================
