------------------------------- MODULE Agenda -------------------------------
(***************************************************************************)
(* What the oracle expects of its queue, and what Oracle.tla builds on: a  *)
(* set of pending events, of which Pop takes one with the least timestamp, *)
(* and whose times may be changed while they are pending.                  *)
(***************************************************************************)
EXTENDS Naturals

CONSTANTS Events, MaxTime

VARIABLES pending, timestamp

Init == pending = {} /\ timestamp = [e \in Events |-> 0]

Push(e, t) == /\ e \notin pending
              /\ pending' = pending \cup {e}
              /\ timestamp' = [timestamp EXCEPT ![e] = t]

Pop(e) == /\ e \in pending
          /\ \A f \in pending : timestamp[e] <= timestamp[f]
          /\ pending' = pending \ {e}
          /\ UNCHANGED timestamp

ChangeTime(e, t) == timestamp' = [timestamp EXCEPT ![e] = t] /\ UNCHANGED pending

Next == \E e \in Events : Pop(e) \/ \E t \in 0..MaxTime : Push(e, t) \/ ChangeTime(e, t)

Spec == Init /\ [][Next]_<<pending, timestamp>>
=============================================================================
