----------------------------- MODULE MemoryShelf -----------------------------
(***************************************************************************)
(* What the shared memory promises of each copy of a memory unit: it is     *)
(* stored once, active and unused; every reuse adds one to its count and    *)
(* none is lost; once archived it stays archived.  HybridMemory is the      *)
(* program and implements this module.                                      *)
(***************************************************************************)
EXTENDS Naturals

CONSTANTS
    Copies, \* a copy for each memory unit and each database it may be in
    None    \* not stored

VARIABLE shelf \* for each copy None, or its status and its reuse count

On == {x \in Copies : shelf[x] # None}

Init == shelf = [x \in Copies |-> None]

Store(x) ==
    /\ x \notin On
    /\ shelf' = [shelf EXCEPT ![x] = [status |-> "active", reuse |-> 0]]

Reuse(x) ==
    /\ x \in On
    /\ shelf' = [shelf EXCEPT ![x].reuse = @ + 1]

Archive(x) ==
    /\ x \in On
    /\ shelf' = [shelf EXCEPT ![x].status = "archived"]

Next == \E x \in Copies : Store(x) \/ Reuse(x) \/ Archive(x)

Spec == Init /\ [][Next]_shelf
=============================================================================
