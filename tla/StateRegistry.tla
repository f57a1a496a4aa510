---------------------------- MODULE StateRegistry ----------------------------
(***************************************************************************)
(* What the runtime promises of its shared states: one durable table of     *)
(* state records.  A record appears once, its parents are already there,    *)
(* and from then on its lineage (the agents that consumed it, the mark      *)
(* that a memory unit holds it) only grows.  StateStore is the program and  *)
(* implements this module.                                                  *)
(***************************************************************************)

CONSTANTS
    Ids,    \* state ids
    Agents, \* consumers
    None    \* no record

VARIABLE registry \* for each id None, or its parents, consumers and memory mark

Known == {i \in Ids : registry[i] # None}

Init == registry = [i \in Ids |-> None]

\* A new record names parents that are already known.
Create(i) ==
    /\ registry[i] = None
    /\ registry'[i] # None
    /\ registry'[i].parents \subseteq Known
    /\ registry' = [registry EXCEPT ![i] =
                      [parents   |-> registry'[i].parents,
                       consumers |-> {},
                       memory    |-> FALSE]]

Consumed(i, a) ==
    /\ i \in Known
    /\ registry' = [registry EXCEPT ![i].consumers = @ \cup {a}]

Memorised(i) ==
    /\ i \in Known
    /\ registry' = [registry EXCEPT ![i].memory = TRUE]

Next ==
    \/ \E i \in Ids : Create(i)
    \/ \E i \in Ids, a \in Agents : Consumed(i, a)
    \/ \E i \in Ids : Memorised(i)

Spec == Init /\ [][Next]_registry
=============================================================================
