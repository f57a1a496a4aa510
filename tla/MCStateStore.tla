----------------------------- MODULE MCStateStore -----------------------------
(* Two stores over one data directory.                                      *)
EXTENDS StateStore, TLC

MCSymmetry == Permutations(Ids) \cup Permutations(Stores)
=============================================================================
