-------------------------- MODULE CollaborationRoute --------------------------
(***************************************************************************)
(* What Protocol Mode promises of a collaboration: the planner is asked     *)
(* first, each capability is asked for at most once (so there is at most    *)
(* one round of feedback, after the tool and before the summary), and a     *)
(* run that answers has asked the summarizer last.  ProtocolRun is the      *)
(* program and implements this module.                                      *)
(***************************************************************************)

CONSTANT Runs

VARIABLES
    asked,  \* the actions each run has invoked
    outcome \* how each run stands

Actions == {"plan.create", "memory.semantic_search", "tool.run_python",
            "plan.refine", "evidence.refine", "summary.create"}

Init ==
    /\ asked = [r \in Runs |-> {}]
    /\ outcome = [r \in Runs |-> "open"]

\* What may still be asked once the actions of a set have been.
Allowed(done) ==
    {a \in Actions \ done :
       /\ "summary.create" \notin done
       /\ a = "plan.create" <=> done = {}
       /\ a = "memory.semantic_search" => "tool.run_python" \notin done
       /\ a \in {"plan.refine", "evidence.refine"} => "tool.run_python" \in done
       /\ a = "plan.refine" => "evidence.refine" \notin done}

Ask(r, a) ==
    /\ outcome[r] = "open"
    /\ a \in Allowed(asked[r])
    /\ asked' = [asked EXCEPT ![r] = @ \cup {a}]
    /\ UNCHANGED outcome

Answer(r) ==
    /\ outcome[r] = "open"
    /\ "summary.create" \in asked[r]
    /\ outcome' = [outcome EXCEPT ![r] = "answered"]
    /\ UNCHANGED asked

Fail(r) ==
    /\ outcome[r] = "open"
    /\ outcome' = [outcome EXCEPT ![r] = "failed"]
    /\ UNCHANGED asked

Next ==
    \E r \in Runs :
       \/ \E a \in Actions : Ask(r, a)
       \/ Answer(r)
       \/ Fail(r)

Spec == Init /\ [][Next]_<<asked, outcome>>
===============================================================================
