------------------------------- MODULE Fanout -------------------------------
(***************************************************************************)
(* What the NATS registry promises its users, without its indexes: who has *)
(* joined what, and one bounded queue per session.                         *)
(***************************************************************************)
EXTENDS Naturals, Sequences

CONSTANTS Session, Key, Msg, ChCap

VARIABLES member, queue

Init == member = {} /\ queue = [s \in Session |-> <<>>]

Join(s, k) == member' = member \cup {<<s, k>>} /\ UNCHANGED queue

Leave(s, k) == member' = member \ {<<s, k>>} /\ UNCHANGED queue

LeaveAll(s) == member' = member \ ({s} \X Key) /\ UNCHANGED queue

(* Every member of k with room gets m once, at the end of its queue; a     *)
(* full queue loses m and delays nobody.                                   *)
Publish(k, m) ==
  /\ queue' = [s \in Session |->
                 IF <<s, k>> \in member /\ Len(queue[s]) < ChCap
                 THEN Append(queue[s], m)
                 ELSE queue[s]]
  /\ UNCHANGED member

Take(s) ==
  /\ queue[s] # <<>>
  /\ queue' = [queue EXCEPT ![s] = Tail(@)]
  /\ UNCHANGED member

Next ==
  \/ \E s \in Session, k \in Key : Join(s, k) \/ Leave(s, k)
  \/ \E s \in Session : LeaveAll(s) \/ Take(s)
  \/ \E k \in Key, m \in Msg : Publish(k, m)

Spec == Init /\ [][Next]_<<member, queue>>
=============================================================================
