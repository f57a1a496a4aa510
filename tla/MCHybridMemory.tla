--------------------------- MODULE MCHybridMemory ---------------------------
(* Two clients beside a worker (MCHybridMemory.cfg), a client beside one    *)
(* whose loop must go on (MCMaintenance.cfg), and what the program says of  *)
(* an archived unit (MCMaintenanceStale.cfg).                               *)
EXTENDS HybridMemory, TLC

Symmetric == Permutations(Clients)
=============================================================================
