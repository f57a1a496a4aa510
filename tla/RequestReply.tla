---------------------------- MODULE RequestReply ----------------------------
(***************************************************************************)
(* What a caller may expect of AgentTransport.send: requests are made one    *)
(* after the other, and each ends with a reply or an error.  As long as the  *)
(* connection is sound a reply is the request's own.  A call that fails may  *)
(* leave it unsound; then a reply may be late, but it is still the reply of  *)
(* a request that was made, in order, and none is given twice.               *)
(***************************************************************************)
EXTENDS Naturals

CONSTANT N \* the requests are 1 .. N

VARIABLES asked, result, sound

Nothing == 0
Failed == N + 1

vars == <<asked, result, sound>>

Init ==
    /\ asked = 0
    /\ result = [r \in 1 .. N |-> Nothing]
    /\ sound = TRUE

Open == asked > 0 /\ result[asked] = Nothing

Ask ==
    /\ ~Open
    /\ asked < N
    /\ asked' = asked + 1
    /\ UNCHANGED <<result, sound>>

Later(m) == \A r \in 1 .. asked : result[r] \notin {Nothing, Failed} => result[r] < m

Answer ==
    /\ Open
    /\ \E m \in 1 .. asked :
          /\ sound => m = asked
          /\ Later(m)
          /\ result' = [result EXCEPT ![asked] = m]
    /\ UNCHANGED <<asked, sound>>

Fail ==
    /\ Open
    /\ result' = [result EXCEPT ![asked] = Failed]
    /\ sound' \in {sound, FALSE}
    /\ UNCHANGED asked

Next == Ask \/ Answer \/ Fail

Spec == Init /\ [][Next]_vars
=============================================================================
