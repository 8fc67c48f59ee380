---------------------------- MODULE NatsRegistry ----------------------------
(***************************************************************************)
(* Package internal/nats: the process-wide registry that fans the messages *)
(* of the one NATS subscription out to the connections of this instance.   *)
(*                                                                         *)
(* The registry keeps two indexes of the same relation, both guarded by    *)
(* the package mutex mx, so every exported function is one action:         *)
(*   subjects   subject -> slice of the Subscriptions that joined it       *)
(*   sessions   sessionID -> slice of the subjects it joined               *)
(* A Subscription is identified with its sessionID: NewSub makes one per   *)
(* connection.  Ch is its buffered channel, written by handleMessage with  *)
(* a non-blocking send and drained by the connection's Read loop.          *)
(***************************************************************************)
EXTENDS GoData, FiniteSets

CONSTANTS
  Session,   \* the session IDs, one per connection
  Key,       \* the subjects, i.e. the dispatch keys
  Msg,       \* the payloads that arrive
  ChCap      \* capacity of a Subscription's channel (10 in the code)

ASSUME ChCapAssumption == ChCap \in Nat \ {0}

VARIABLES subjects, sessions, Ch

vars == <<subjects, sessions, Ch>>
index == <<subjects, sessions>>

(* Types; the maps have keys and values of the right kind and no channel   *)
(* exceeds its capacity (subscription.go:5-21).                            *)
TypeOK ==
  /\ IsMap(subjects, Key, Seq(Session))
  /\ IsMap(sessions, Session, Seq(Key))
  /\ Ch \in [Session -> Seq(Msg)]
  /\ \A s \in Session : Len(Ch[s]) <= ChCap

Init ==
  /\ subjects = EmptyMap
  /\ sessions = EmptyMap
  /\ Ch = [s \in Session |-> <<>>]
-----------------------------------------------------------------------------
isSubscribed(s, k) == s \in Range(Lookup(subjects, k))

(* Put the slice under its subject, or delete the subject if it is empty.  *)
StoreOrDelete(m, k, subs) == IF subs = <<>> THEN Delete(m, k) ELSE Put(m, k, subs)

\* mutant: the check for an earlier subscription is missing
SubscribeTwice(s, k) ==
  /\ subjects' = Put(subjects, k, Append(Lookup(subjects, k), s))
  /\ sessions' = Put(sessions, s, Append(Lookup(sessions, s), k))
  /\ UNCHANGED Ch

Subscribe(s, k) ==
  /\ IF isSubscribed(s, k)
     THEN UNCHANGED index
     ELSE /\ subjects' = Put(subjects, k, Append(Lookup(subjects, k), s))
          /\ sessions' = Put(sessions, s, Append(Lookup(sessions, s), k))
  /\ UNCHANGED Ch

(* An unknown session or a subject it did not join leaves the registry as  *)
(* it is.  The session's entry stays, possibly empty, until Close.         *)
Unsubscribe(s, k) ==
  /\ IF k \in Range(Lookup(sessions, s))
     THEN /\ sessions' = Put(sessions, s, RemoveFirst(sessions[s], k))
          /\ subjects' = IF k \in DOMAIN subjects
                         THEN StoreOrDelete(subjects, k, RemoveFirst(subjects[k], s))
                         ELSE subjects
     ELSE UNCHANGED index
  /\ UNCHANGED Ch

(* What Close leaves of the subject index: it goes through the subjects    *)
(* the session index names, and through no other.                          *)
Without(s) ==
  LET left(k) == IF k \in Range(sessions[s]) THEN RemoveFirst(subjects[k], s)
                                             ELSE subjects[k]
  IN [k \in {x \in DOMAIN subjects : x \in Range(sessions[s]) => left(x) # <<>>}
        |-> left(k)]

Close(s) ==
  /\ IF s \in DOMAIN sessions
     THEN /\ subjects' = Without(s)
          /\ sessions' = Delete(sessions, s)
     ELSE UNCHANGED index
  /\ UNCHANGED Ch

(* One select { case sub.Ch <- data: default: } per element of the slice:  *)
(* as many copies as the channel has room for, the others are dropped.     *)
Copies(k, s) ==
  Cardinality({i \in DOMAIN Lookup(subjects, k) : Lookup(subjects, k)[i] = s})

\* mutant: the channel is a list, which is never full
FillUnbounded(q, m, n) == q \o [i \in 1 .. n |-> m]

Fill(q, m, n) ==
  LET room == ChCap - Len(q)
  IN q \o [i \in 1 .. (IF n < room THEN n ELSE room) |-> m]

\* mutant: the loop gives up at the first channel that is full
handleMessageStops(k, m) ==
  LET subs == Lookup(subjects, k)
      before(s) == {i \in DOMAIN subs : \A j \in 1 .. i : subs[j] # s}
  IN /\ Ch' = [s \in Session |->
                 IF \E i \in before(s) : Len(Ch[subs[i]]) = ChCap
                 THEN Ch[s] ELSE Fill(Ch[s], m, Copies(k, s))]
     /\ UNCHANGED index

handleMessage(k, m) ==
  /\ Ch' = [s \in Session |-> Fill(Ch[s], m, Copies(k, s))]
  /\ UNCHANGED index

(* The connection's Read loop takes the oldest message.                    *)
Receive(s) ==
  /\ Ch[s] # <<>>
  /\ Ch' = [Ch EXCEPT ![s] = Tail(@)]
  /\ UNCHANGED index
-----------------------------------------------------------------------------
Next ==
  \/ \E s \in Session, k \in Key : Subscribe(s, k) \/ Unsubscribe(s, k)
  \/ \E s \in Session : Close(s) \/ Receive(s)
  \/ \E k \in Key, m \in Msg : handleMessage(k, m)

Spec == Init /\ [][Next]_vars
-----------------------------------------------------------------------------
(* The two indexes describe one relation.  Unsubscribe and Close find what *)
(* to remove from subjects by reading sessions (subscription.go:38-49 and  *)
(* 77-91): a pair that only subjects knew would never be removed again.    *)
IndexesAgree ==
  \A s \in Session, k \in Key :
    k \in Range(Lookup(sessions, s)) <=> isSubscribed(s, k)

(* No slice names anyone twice: handleMessage sends once per element, so a *)
(* duplicate would deliver every message of the subject twice, and the     *)
(* loops that stop at the first match would leave one behind.              *)
NoDuplicates ==
  /\ \A k \in DOMAIN subjects : IsInjective(subjects[k])
  /\ \A s \in DOMAIN sessions : IsInjective(sessions[s])

(* A subject nobody is subscribed to is not kept (subscription.go:65-67    *)
(* and 94-96), however its last subscriber left.                           *)
NoEmptySubject == \A k \in DOMAIN subjects : subjects[k] # <<>>

RegistryInv == IndexesAgree /\ NoDuplicates /\ NoEmptySubject

(* The registry implements a lossy fan-out: a relation between sessions    *)
(* and subjects, and one bounded FIFO per session that a message enters    *)
(* exactly once if its session joined the subject and there is room.       *)
Joined == {p \in Session \X Key : isSubscribed(p[1], p[2])}

F == INSTANCE Fanout WITH member <- Joined, queue <- Ch
FanoutSpec == F!Spec
=============================================================================
