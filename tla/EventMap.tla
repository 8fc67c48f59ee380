------------------------------ MODULE EventMap ------------------------------
(***************************************************************************)
(* connection.go: the subscriptions of ONE connection.                     *)
(*                                                                         *)
(*   m         event type -> slice of entries.  The code keeps three       *)
(*             parallel slices (ID, Conditions, Properties); the entries   *)
(*             are their zip, since every write touches all three alike.   *)
(*   joined    the dispatch keys the connection has joined in the NATS     *)
(*             registry: its part of Fanout!member.                        *)
(*   destroyed whether Destroy's sync.Once has run                         *)
(*                                                                         *)
(* Every exported method holds e.mx throughout, so each is one operator    *)
(* that callers make a step of; Subscriptions and Dispatch do.             *)
(***************************************************************************)
EXTENDS GoData, FiniteSetsExt

CONSTANTS
  Type,      \* event types
  Cond,      \* conditions, NoCond among them
  NoCond,    \* the empty condition
  Match,     \* the pairs <<c, d>> for which c.Match(d)
  Id         \* subscription IDs

ASSUME CondAssumption == NoCond \in Cond

(* EventCondition.Match and CreateDispatchKey belong to seventv/api.  Here *)
(* a condition matches itself and a key is as fine as its type and         *)
(* condition.                                                              *)
ASSUME MatchAssumption ==
  /\ Match \subseteq Cond \X Cond
  /\ \A c \in Cond : <<c, c>> \in Match

VARIABLES m, joined, destroyed

emvars == <<m, joined, destroyed>>
-----------------------------------------------------------------------------
Key == Type \X Cond

\* mutant: type and condition in the wrong order
CreateDispatchKeySwapped(t, c) == <<c, t>>

CreateDispatchKey(t, c) == <<t, c>>

(* An entry whose subscription a dispatch added is auto; ttl says whether  *)
(* that dispatch gave it a lifetime.                                       *)
Entry == [id : Id, cond : Cond, auto : BOOLEAN, ttl : BOOLEAN]

EventMapType ==
  /\ IsMap(m, Type, Seq(Entry))
  /\ joined \subseteq Key
  /\ destroyed \in BOOLEAN

EventMapInit == m = EmptyMap /\ joined = {} /\ destroyed = FALSE

IdsOf(t) == {m[t][i].id : i \in DOMAIN m[t]}
LiveIds == UNION {IdsOf(t) : t \in DOMAIN m}
Conds(t) == {Lookup(m, t)[i].cond : i \in DOMAIN Lookup(m, t)}
-----------------------------------------------------------------------------
(* The entries a loop "if c.Match(cond)" stops at, and the first of them.  *)
Matching(t, c) == {i \in DOMAIN Lookup(m, t) : <<Lookup(m, t)[i].cond, c>> \in Match}
FirstMatch(t, c) == Min(Matching(t, c))

(* Subscribe's three answers.                                              *)
IsNew(t, c) == Matching(t, c) = {}
IsCovered(t, c) == ~IsNew(t, c) /\ m[t][FirstMatch(t, c)].auto
IsAlreadySubscribed(t, c) == ~IsNew(t, c) /\ ~m[t][FirstMatch(t, c)].auto

Store(t, e) ==
  /\ m' = Put(m, t, Append(Lookup(m, t), e))
  /\ joined' = joined \cup {CreateDispatchKey(t, e.cond)}
  /\ UNCHANGED destroyed

\* mutant: a condition that matches does not end the call
SubscribeAnyway(t, e) == Store(t, e)

Subscribe(t, e) == IF IsNew(t, e.cond) THEN Store(t, e) ELSE UNCHANGED emvars

IsSubscribed(t, c) == IF c = NoCond THEN t \in DOMAIN m ELSE Matching(t, c) # {}

(* utils.SliceRemove of seventv/common, taken to remove as package nats     *)
(* does.  One that keeps the order gives the checks the same results.      *)
SliceRemove(s, i) == SwapRemove(s, i)

StoreOrDelete(t, entries) == IF entries = <<>> THEN Delete(m, t) ELSE Put(m, t, entries)

(* What m[t] holds when entry i was removed from a copy of its slices: the *)
(* arrays are shared and the shorter lengths are not stored back.          *)
StaleView(entries, i) == [entries EXCEPT ![i] = entries[Len(entries)]]

\* mutant: the shortened slices are not stored back
UnsubscribeUnstored(t, c) ==
  /\ IF ~IsSubscribed(t, c) THEN UNCHANGED <<m, joined>>
     ELSE IF c = NoCond
     THEN m' = Delete(m, t) /\ UNCHANGED joined
     ELSE LET i == FirstMatch(t, c)
          IN /\ m' = Put(m, t, StaleView(m[t], i))
             /\ joined' = joined \ {CreateDispatchKey(t, m[t][i].cond)}
  /\ UNCHANGED destroyed

(* Without a condition the type goes at once, and its NATS keys stay.      *)
Unsubscribe(t, c) ==
  /\ IF ~IsSubscribed(t, c) THEN UNCHANGED <<m, joined>>
     ELSE IF c = NoCond
     THEN m' = Delete(m, t) /\ UNCHANGED joined
     ELSE LET i == FirstMatch(t, c)
          IN /\ m' = StoreOrDelete(t, SliceRemove(m[t], i))
             /\ joined' = joined \ {CreateDispatchKey(t, m[t][i].cond)}
  /\ UNCHANGED destroyed

IndexOf(t, id) == FirstIndex([j \in DOMAIN m[t] |-> m[t][j].id], id)

\* mutant: the key is built after the slices were cut
UnsubscribeWithIDLate(id) ==
  /\ IF id \notin LiveIds THEN UNCHANGED <<m, joined>>
     ELSE \E t \in DOMAIN m :
            LET view == StaleView(m[t], IndexOf(t, id))
            IN /\ id \in IdsOf(t)
               /\ joined' = joined \ {CreateDispatchKey(t, view[IndexOf(t, id)].cond)}
               /\ m' = Put(m, t, view)
  /\ UNCHANGED destroyed

UnsubscribeWithID(id) ==
  /\ IF id \notin LiveIds THEN UNCHANGED <<m, joined>>
     ELSE \E t \in DOMAIN m :
            LET i == IndexOf(t, id)
            IN /\ id \in IdsOf(t)
               /\ joined' = joined \ {CreateDispatchKey(t, m[t][i].cond)}
               /\ m' = Put(m, t, StaleView(m[t], i))
  /\ UNCHANGED destroyed

Destroy ==
  /\ destroyed' = TRUE
  /\ IF destroyed THEN UNCHANGED <<m, joined>> ELSE m' = EmptyMap /\ joined' = {}
=============================================================================
