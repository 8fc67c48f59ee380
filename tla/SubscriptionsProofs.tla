------------------------ MODULE SubscriptionsProofs -------------------------
(***************************************************************************)
(* Subscriptions proved for any types, conditions and IDs and any          *)
(* reflexive Match: what the map claims is joined, what the client         *)
(* subscribed to stays joined, an Ack is not given for nothing and Already *)
(* Subscribed is not answered without a reason.                            *)
(*                                                                         *)
(* OwnStaysJoined is not inductive: an expiring TTL must not hit an entry  *)
(* of the client's own condition (Kept), which holds since that condition  *)
(* has an entry that no TTL goroutine waits for as long as it is own, so   *)
(* no dispatch's entry for it is ever stored.  RefusedOnlyTwice needs that *)
(* the client had, or is about to get, an Ack for each entry that is not   *)
(* automatic (Answered), AckMeansJoinedUnaged that an entry which matches  *)
(* the key to be acknowledged waits for the Ack (Awaited).                 *)
(***************************************************************************)
EXTENDS Subscriptions, EventMapProofs

(* MapAgrees, a type that is not in the map being one without entries.     *)
Agrees ==
  \A t \in Type \ aged :
    /\ \A i, j \in DOMAIN Entries(t) : Entries(t)[i].cond = Entries(t)[j].cond => i = j
    /\ \A i \in DOMAIN Entries(t) : <<t, Entries(t)[i].cond>> \in joined

Kept ==
  open => \A t \in Type, c \in Cond : <<t, c>> \in own =>
    /\ <<t, c>> \in joined
    /\ \E i \in DOMAIN Entries(t) : Entries(t)[i].cond = c
    /\ \A i \in DOMAIN Entries(t) : Entries(t)[i].id \in timers => Entries(t)[i].cond # c

Pending == IF reader = "ack" THEN {asked} ELSE {}

Answered ==
  open => \A t \in Type \ (aged \cup crossed) : \A i \in DOMAIN Entries(t) :
    ~Entries(t)[i].auto => <<t, Entries(t)[i].cond>> \in acked \cup Pending

Matched(k) == \E i \in DOMAIN Entries(k[1]) : <<Entries(k[1])[i].cond, k[2]>> \in Match

Awaited == open /\ reader = "ack" /\ ~undone /\ asked[1] \notin aged => Matched(asked)

IInv == TypeOK /\ Agrees /\ Kept /\ Answered /\ Awaited

LEMMA Implied == IInv => MapAgrees /\ OwnStaysJoined
<1>. SUFFICES ASSUME IInv PROVE MapAgrees /\ OwnStaysJoined OBVIOUS
<1>1. MapAgrees
  <2>1. \A t \in DOMAIN m : t \in Type /\ m[t] = Entries(t)
    BY DEF IInv, TypeOK, EventMapType, IsMap, Entries, Lookup
  <2>2. \A t \in DOMAIN m : \A c \in Conds(t) : \E i \in DOMAIN Entries(t) : Entries(t)[i].cond = c
    BY DEF Conds, Entries
  <2>. QED BY <2>1, <2>2 DEF IInv, Agrees, MapAgrees, CreateDispatchKey
<1>2. OwnStaysJoined
  BY DEF IInv, Kept, OwnStaysJoined, TypeOK, Key
<1>. QED BY <1>1, <1>2

LEMMA InitInv == Init => IInv
<1>. SUFFICES ASSUME Init PROVE IInv OBVIOUS
<1>1. EventMapType /\ \A t : Entries(t) = <<>>
  BY DEF Init, EventMapInit, EventMapType, IsMap, EmptyMap, Entries, Lookup
<1>2. TypeOK
  BY <1>1 DEF Init, TypeOK
<1>. QED BY <1>1, <1>2 DEF Init, IInv, Agrees, Kept, Answered, Awaited
-----------------------------------------------------------------------------
(* Types.                                                                  *)
LEMMA FreshEntry ==
  ASSUME NEW id \in FreshId, NEW c \in Cond, NEW a \in BOOLEAN, NEW ttl \in BOOLEAN
  PROVE  [id |-> id, cond |-> c, auto |-> a, ttl |-> ttl] \in Entry
BY DEF FreshId, Entry

LEMMA ForgetType ==
  ASSUME TypeOK, NEW t \in Type, NEW c \in Cond, Forget(t, c)
  PROVE  acked' \subseteq Key /\ own' \subseteq Key /\ undone' \in BOOLEAN /\ crossed' \subseteq Type
BY DEF TypeOK, Forget

LEMMA TypeInv == TypeOK /\ [Next]_vars => TypeOK'
<1>. SUFFICES ASSUME TypeOK, [Next]_vars PROVE TypeOK' OBVIOUS
<1>. USE DEF told, answering, emvars
<1>0. EventMapType
  BY DEF TypeOK
<1>1. ASSUME NEW t \in Type, NEW c \in Cond, ClientSubscribe(t, c)
      PROVE  TypeOK'
  <2>1. PICK id \in FreshId : Subscribe(t, [id |-> id, cond |-> c, auto |-> FALSE, ttl |-> FALSE])
    BY <1>1 DEF ClientSubscribe
  <2>2. EventMapType'
    BY <1>0, <2>1, FreshEntry, StoreStep DEF Subscribe, EventMapType
  <2>3. <<t, c>> \in Key
    BY DEF Key
  <2>. QED BY <1>1, <2>2, <2>3 DEF ClientSubscribe, TypeOK
<1>2. ASSUME NEW t \in Type, NEW c \in Cond, ClientUnsubscribe(t, c)
      PROVE  TypeOK'
  <2>1. EventMapType'
    BY <1>0, <1>2, UnsubscribeStep DEF ClientUnsubscribe
  <2>. QED BY <1>2, <2>1, ForgetType DEF ClientUnsubscribe, TypeOK
<1>3. ASSUME NEW t \in Type, NEW c \in Cond, EffectRemove(t, c)
      PROVE  TypeOK'
  <2>1. EventMapType'
    BY <1>0, <1>3, UnsubscribeStep DEF EffectRemove
  <2>. QED BY <1>3, <2>1, ForgetType DEF EffectRemove, TypeOK
<1>4. ASSUME NEW t \in Type, NEW c \in Cond, NEW ttl \in BOOLEAN, EffectAdd(t, c, ttl)
      PROVE  TypeOK'
  <2>1. PICK id \in FreshId :
          /\ Subscribe(t, [id |-> id, cond |-> c, auto |-> TRUE, ttl |-> ttl])
          /\ timers' = IF ttl THEN timers \cup {id} ELSE timers
    BY <1>4 DEF EffectAdd
  <2>2. EventMapType'
    BY <1>0, <2>1, FreshEntry, StoreStep DEF Subscribe, EventMapType
  <2>3. timers' \subseteq Id
    BY <2>1 DEF TypeOK, FreshId
  <2>. QED BY <1>4, <2>2, <2>3 DEF EffectAdd, TypeOK
<1>5. ASSUME NEW id \in Id, Expire(id) PROVE TypeOK'
  <2>1. EventMapType'
    BY <1>0, <1>5, UnsubscribeWithIDStep DEF Expire
  <2>2. aged' \subseteq Type
    BY <1>5 DEF Expire, TypeOK, EventMapType, IsMap
  <2>. QED BY <1>5, <2>1, <2>2 DEF Expire, TypeOK
<1>6. ASSUME NEW id \in Id, Cancelled(id) PROVE TypeOK'
  BY <1>6 DEF Cancelled, TypeOK, EventMapType
<1>7. CASE Cancel
  BY <1>7 DEF Cancel, TypeOK, EventMapType
<1>8. CASE Leave
  <2>1. EventMapType'
    BY <1>0, <1>8, DestroyStep DEF Leave
  <2>. QED BY <1>8, <2>1 DEF Leave, TypeOK
<1>9. CASE SendAck
  BY <1>9 DEF SendAck, TypeOK, EventMapType
<1>10. CASE SendClose
  BY <1>10 DEF SendClose, TypeOK, EventMapType
<1>11. CASE UNCHANGED vars
  BY <1>11 DEF vars, TypeOK, EventMapType
<1>. QED BY <1>1, <1>2, <1>3, <1>4, <1>5, <1>6, <1>7, <1>8, <1>9, <1>10, <1>11 DEF Next
-----------------------------------------------------------------------------
(* Subscribe.                                                              *)
LEMMA Appended ==
  ASSUME TypeOK, NEW t \in Type, NEW e \in Entry, Entries(t)' = Append(Entries(t), e)
  PROVE  /\ Len(Entries(t)) \in Nat /\ DOMAIN Entries(t) = 1 .. Len(Entries(t))
         /\ DOMAIN Entries(t)' = 1 .. Len(Entries(t)) + 1
         /\ \A i \in 1 .. Len(Entries(t)) : Entries(t)'[i] = Entries(t)[i]
         /\ Entries(t)'[Len(Entries(t)) + 1] = e
<1>1. Entries(t) \in Seq(Entry)
  BY EntriesType DEF TypeOK
<1>. QED BY <1>1

LEMMA StoreInv ==
  ASSUME IInv, NEW t \in Type, NEW e \in Entry, e.id \in FreshId, IsNew(t, e.cond), Store(t, e),
         UNCHANGED <<open, aged, crossed>>, timers' \subseteq timers \cup {e.id},
         \/ e.auto /\ UNCHANGED <<acked, own, answering, undone>>
         \/ /\ reader = "read" /\ reader' = "ack" /\ asked' = <<t, e.cond>>
            /\ own' = own \cup {<<t, e.cond>>} /\ UNCHANGED <<acked, timers>>
  PROVE  Agrees' /\ Kept' /\ Answered' /\ Awaited'
<1>. DEFINE n == Len(Entries(t))
<1>1. /\ joined' = joined \cup {<<t, e.cond>>} /\ Entries(t)' = Append(Entries(t), e)
      /\ \A u : u # t => Entries(u)' = Entries(u)
  BY StoreStep DEF IInv, TypeOK
<1>2. /\ n \in Nat /\ DOMAIN Entries(t) = 1 .. n /\ DOMAIN Entries(t)' = 1 .. n + 1
      /\ \A i \in 1 .. n : Entries(t)'[i] = Entries(t)[i]
      /\ Entries(t)'[n + 1] = e
  BY <1>1, Appended DEF IInv
<1>3. e.cond \in Cond /\ e.id \notin timers /\ \A i \in DOMAIN Entries(t) : Entries(t)[i].cond # e.cond
  BY NewDiffers DEF Entry, FreshId
<1>4. \A u \in Type : \A i \in DOMAIN Entries(u) : Entries(u)[i].id # e.id
  BY DEF FreshId, LiveIds, IdsOf, Entries, Lookup
<1>. HIDE DEF n
<1>5. Agrees'
  <2>1. ASSUME NEW u \in Type \ aged PROVE
          /\ \A i, j \in DOMAIN Entries(u)' : Entries(u)'[i].cond = Entries(u)'[j].cond => i = j
          /\ \A i \in DOMAIN Entries(u)' : <<u, Entries(u)'[i].cond>> \in joined'
    <3>1. CASE u # t
      BY <1>1, <3>1 DEF IInv, Agrees
    <3>2. CASE u = t
      BY <1>1, <1>2, <1>3, <3>2 DEF IInv, Agrees
    <3>. QED BY <3>1, <3>2
  <2>. QED BY <2>1 DEF Agrees
<1>6. Kept'
  <2>. SUFFICES ASSUME open, NEW u \in Type, NEW d \in Cond, <<u, d>> \in own'
                PROVE  /\ <<u, d>> \in joined'
                       /\ \E i \in DOMAIN Entries(u)' : Entries(u)'[i].cond = d
                       /\ \A i \in DOMAIN Entries(u)' : Entries(u)'[i].id \in timers' => Entries(u)'[i].cond # d
    BY DEF Kept
  <2>1. CASE u # t
    <3>1. Entries(u)' = Entries(u) /\ <<u, d>> \in own
      BY <1>1, <2>1
    <3>2. \A i \in DOMAIN Entries(u) : Entries(u)[i].id \in timers' => Entries(u)[i].id \in timers
      BY <1>4
    <3>. QED BY <3>1, <3>2, <1>1 DEF IInv, Kept
  <2>2. CASE u = t /\ d = e.cond
    <3>1. <<u, d>> \notin own
      BY <2>2, <1>3 DEF IInv, Kept
    <3>2. UNCHANGED timers
      BY <3>1
    <3>3. n + 1 \in DOMAIN Entries(t)'
      BY <1>2
    <3>. QED BY <2>2, <3>2, <3>3, <1>1, <1>2, <1>3
  <2>3. CASE u = t /\ d # e.cond
    <3>1. /\ <<u, d>> \in own /\ <<u, d>> \in joined
          /\ \E i \in DOMAIN Entries(u) : Entries(u)[i].cond = d
          /\ \A i \in DOMAIN Entries(u) : Entries(u)[i].id \in timers => Entries(u)[i].cond # d
      BY <2>3 DEF IInv, Kept
    <3>2. \A i \in 1 .. n : Entries(t)[i].id \in timers' => Entries(t)[i].id \in timers
      BY <1>2, <1>4
    <3>3. \A i \in 1 .. n + 1 : i \in 1 .. n \/ i = n + 1
      BY <1>2
    <3>. QED BY <3>1, <3>2, <3>3, <2>3, <1>1, <1>2
  <2>. QED BY <2>1, <2>2, <2>3
<1>7. Answered'
  <2>. SUFFICES ASSUME open, NEW u \in Type \ (aged \cup crossed), NEW i \in DOMAIN Entries(u)',
                       ~Entries(u)'[i].auto
                PROVE  <<u, Entries(u)'[i].cond>> \in (acked \cup Pending)'
    BY DEF Answered
  <2>0. acked \cup Pending \subseteq (acked \cup Pending)'
    BY DEF Pending, answering
  <2>1. CASE u # t
    BY <1>1, <2>0, <2>1 DEF IInv, Answered
  <2>2. CASE u = t /\ i \in 1 .. n
    BY <1>1, <1>2, <2>0, <2>2 DEF IInv, Answered
  <2>3. CASE u = t /\ i = n + 1
    BY <1>2, <2>3 DEF Pending
  <2>. QED BY <1>2, <2>1, <2>2, <2>3
<1>8. Awaited'
  <2>. SUFFICES ASSUME open, reader' = "ack", ~undone', asked'[1] \notin aged
                PROVE  Matched(asked)'
    BY DEF Awaited
  <2>1. CASE UNCHANGED <<answering, undone>>
    <3>1. PICK i \in DOMAIN Entries(asked[1]) : <<Entries(asked[1])[i].cond, asked[2]>> \in Match
      BY <2>1 DEF IInv, Awaited, Matched, answering
    <3>2. CASE asked[1] # t
      BY <1>1, <2>1, <3>1, <3>2 DEF Matched, answering
    <3>3. CASE asked[1] = t
      <4>1. i \in DOMAIN Entries(t)' /\ Entries(t)'[i] = Entries(t)[i]
        BY <1>2, <3>1, <3>3
      <4>. QED BY <2>1, <3>1, <3>3, <4>1 DEF Matched, answering
    <3>. QED BY <3>2, <3>3
  <2>2. CASE asked' = <<t, e.cond>>
    <3>1. n + 1 \in DOMAIN Entries(t)' /\ <<e.cond, e.cond>> \in Match
      BY <1>2, <1>3, MatchAssumption
    <3>. QED BY <1>2, <2>2, <3>1 DEF Matched
  <2>. QED BY <2>1, <2>2
<1>. QED BY <1>5, <1>6, <1>7, <1>8

(* A Subscribe that stores nothing; a TTL goroutine may start all the same.*)
LEMMA CoveredInv ==
  ASSUME IInv, UNCHANGED <<emvars, aged, crossed, own>>, open' => open,
         open => acked \cup Pending \subseteq (acked \cup Pending)',
         NEW id \in FreshId, timers' \subseteq timers \cup {id}
  PROVE  Agrees' /\ Kept' /\ Answered'
<1>1. UNCHANGED joined /\ \A u : Entries(u)' = Entries(u)
  BY DEF emvars, Entries
<1>2. \A u \in Type : \A i \in DOMAIN Entries(u) : Entries(u)[i].id \in timers' => Entries(u)[i].id \in timers
  BY DEF FreshId, LiveIds, IdsOf, Entries, Lookup
<1>. QED BY <1>1, <1>2 DEF IInv, Agrees, Kept, Answered
-----------------------------------------------------------------------------
LEMMA UnsubscribeAgrees ==
  ASSUME IInv, NEW t \in Type, NEW c \in Cond, Unsubscribe(t, c), UNCHANGED aged
  PROVE  Agrees'
<1>1. CASE ~IsSubscribed(t, c)
  <2>1. UNCHANGED joined /\ \A u : Entries(u)' = Entries(u)
    BY <1>1, UnsubscribeStep DEF IInv, TypeOK, Entries
  <2>. QED BY <2>1 DEF IInv, Agrees
<1>2. CASE c = NoCond
  <2>1. UNCHANGED joined /\ \A u : Entries(u)' = IF u = t THEN <<>> ELSE Entries(u)
    BY <1>2, UnsubscribeStep DEF IInv, TypeOK
  <2>. QED BY <2>1 DEF IInv, Agrees
<1>3. CASE c # NoCond /\ IsSubscribed(t, c)
  <2>1. PICK i \in DOMAIN Entries(t) : Without(t, c, i)
    BY <1>3, UnsubscribeLeaves DEF IInv, TypeOK
  <2>2. \A u : u # t => Entries(u)' = Entries(u)
    BY UnsubscribeStep DEF IInv, TypeOK
  <2>3. ASSUME NEW u \in Type \ aged PROVE
          /\ \A j, l \in DOMAIN Entries(u)' : Entries(u)'[j].cond = Entries(u)'[l].cond => j = l
          /\ \A j \in DOMAIN Entries(u)' : <<u, Entries(u)'[j].cond>> \in joined'
    <3>1. CASE u # t
      BY <2>1, <2>2, <3>1 DEF IInv, Agrees, Without
    <3>2. CASE u = t
      <4>1. ASSUME NEW j \in DOMAIN Entries(t)', NEW l \in DOMAIN Entries(t)',
                   Entries(t)'[j].cond = Entries(t)'[l].cond
            PROVE  j = l
        <5>1. PICK k \in DOMAIN Entries(t) \ {i} :
                Entries(t)'[j] = Entries(t)[k] /\ (k # j => j = i /\ k = Len(Entries(t)))
          BY <2>1 DEF Without
        <5>2. PICK o \in DOMAIN Entries(t) \ {i} :
                Entries(t)'[l] = Entries(t)[o] /\ (o # l => l = i /\ o = Len(Entries(t)))
          BY <2>1 DEF Without
        <5>3. k = o
          BY <4>1, <5>1, <5>2, <3>2 DEF IInv, Agrees
        <5>. QED BY <2>1, <5>1, <5>2, <5>3 DEF Without
      <4>2. ASSUME NEW j \in DOMAIN Entries(t)' PROVE <<t, Entries(t)'[j].cond>> \in joined'
        <5>1. PICK k \in DOMAIN Entries(t) \ {i} : Entries(t)'[j] = Entries(t)[k]
          BY <2>1 DEF Without
        <5>2. Entries(t)[k].cond # Entries(t)[i].cond /\ <<t, Entries(t)[k].cond>> \in joined
          BY <3>2, <5>1 DEF IInv, Agrees
        <5>. QED BY <5>1, <5>2, <2>1 DEF Without
      <4>. QED BY <3>2, <4>1, <4>2
    <3>. QED BY <3>1, <3>2
  <2>. QED BY <2>3 DEF Agrees
<1>. QED BY <1>1, <1>2, <1>3

LEMMA UnsubscribeKept ==
  ASSUME IInv, NEW t \in Type, NEW c \in Cond, Unsubscribe(t, c), Forget(t, c),
         UNCHANGED <<open, timers>>
  PROVE  Kept'
<1>. SUFFICES ASSUME open, NEW u \in Type, NEW d \in Cond, <<u, d>> \in own'
              PROVE  /\ <<u, d>> \in joined'
                     /\ \E i \in DOMAIN Entries(u)' : Entries(u)'[i].cond = d
                     /\ \A i \in DOMAIN Entries(u)' : Entries(u)'[i].id \in timers => Entries(u)'[i].cond # d
  BY DEF Kept
<1>1. /\ <<u, d>> \in own /\ <<u, d>> \notin Touched(t, c) /\ <<u, d>> \in joined
      /\ \E i \in DOMAIN Entries(u) : Entries(u)[i].cond = d
      /\ \A i \in DOMAIN Entries(u) : Entries(u)[i].id \in timers => Entries(u)[i].cond # d
  BY DEF Forget, IInv, Kept
<1>2. CASE ~IsSubscribed(t, c)
  <2>1. UNCHANGED joined /\ Entries(u)' = Entries(u)
    BY <1>2, UnsubscribeStep DEF IInv, TypeOK, Entries
  <2>. QED BY <1>1, <2>1
<1>3. CASE c = NoCond
  <2>1. u # t
    BY <1>1, <1>3 DEF Touched
  <2>2. UNCHANGED joined /\ Entries(u)' = Entries(u)
    BY <1>3, <2>1, UnsubscribeStep DEF IInv, TypeOK
  <2>. QED BY <1>1, <2>2
<1>4. CASE c # NoCond /\ IsSubscribed(t, c)
  <2>1. PICK i \in DOMAIN Entries(t) : Without(t, c, i)
    BY <1>4, UnsubscribeLeaves DEF IInv, TypeOK
  <2>2. CASE u # t
    <3>1. Entries(u)' = Entries(u)
      BY <2>2, UnsubscribeStep DEF IInv, TypeOK
    <3>. QED BY <1>1, <2>1, <2>2, <3>1 DEF Without
  <2>3. CASE u = t
    <3>1. d # Entries(t)[i].cond
      BY <1>1, <1>4, <2>1, <2>3 DEF Touched, Without
    <3>. QED BY <1>1, <2>1, <2>3, <3>1 DEF Without
  <2>. QED BY <2>2, <2>3
<1>. QED BY <1>2, <1>3, <1>4

LEMMA UnsubscribeAnswered ==
  ASSUME IInv, NEW t \in Type, NEW c \in Cond, Unsubscribe(t, c), Forget(t, c),
         UNCHANGED <<open, answering, aged>>
  PROVE  Answered'
<1>. SUFFICES ASSUME open, NEW u \in Type \ (aged \cup crossed'), NEW j \in DOMAIN Entries(u)',
                     ~Entries(u)'[j].auto
              PROVE  <<u, Entries(u)'[j].cond>> \in (acked \cup Pending)'
  BY DEF Answered
<1>0. crossed \subseteq crossed' /\ acked' = acked \ Named(t, c) /\ UNCHANGED Pending
  BY DEF Forget, Pending, answering
<1>1. CASE u # t
  <2>1. Entries(u)' = Entries(u)
    BY <1>1, UnsubscribeStep DEF IInv, TypeOK
  <2>. QED BY <1>0, <1>1, <2>1 DEF IInv, Answered, Named
<1>2. CASE u = t /\ c = NoCond
  <2>1. Entries(t)' = <<>>
    BY <1>2, UnsubscribeStep DEF IInv, TypeOK
  <2>. QED BY <1>2, <2>1
<1>3. CASE u = t /\ c # NoCond /\ ~IsSubscribed(t, c)
  <2>1. Entries(t)' = Entries(t)
    BY <1>3, UnsubscribeStep DEF IInv, TypeOK, Entries
  <2>2. Entries(t)[j].cond # c
    BY <1>3, <2>1, NewDiffers DEF IsSubscribed, IsNew
  <2>. QED BY <1>0, <1>3, <2>1, <2>2 DEF IInv, Answered, Named
<1>4. CASE u = t /\ c # NoCond /\ IsSubscribed(t, c)
  <2>1. PICK i \in DOMAIN Entries(t) : Without(t, c, i)
    BY <1>4, UnsubscribeLeaves DEF IInv, TypeOK
  <2>2. PICK k \in DOMAIN Entries(t) \ {i} : Entries(t)'[j] = Entries(t)[k]
    BY <1>4, <2>1 DEF Without
  <2>3. Entries(t)[i].cond = c
    BY <1>4, <2>1 DEF Forget, Without
  <2>4. Entries(t)[k].cond # c
    BY <1>0, <1>4, <2>2, <2>3 DEF IInv, Agrees
  <2>. QED BY <1>0, <1>4, <2>2, <2>4 DEF IInv, Answered, Named
<1>. QED BY <1>1, <1>2, <1>3, <1>4

LEMMA UnsubscribeAwaited ==
  ASSUME IInv, NEW t \in Type, NEW c \in Cond, Unsubscribe(t, c), Forget(t, c),
         UNCHANGED <<open, answering, aged>>
  PROVE  Awaited'
<1>. SUFFICES ASSUME open, reader = "ack", ~undone', asked[1] \notin aged,
                     NEW u, NEW d, u = asked[1], d = asked[2]
              PROVE  \E j \in DOMAIN Entries(u)' : <<Entries(u)'[j].cond, d>> \in Match
  BY DEF Awaited, Matched, answering
<1>1. PICK k \in DOMAIN Entries(u) : <<Entries(u)[k].cond, d>> \in Match
  BY DEF IInv, Awaited, Matched, Forget
<1>2. CASE u # t
  <2>1. Entries(u)' = Entries(u)
    BY <1>2, UnsubscribeStep DEF IInv, TypeOK
  <2>. QED BY <1>1, <2>1
<1>3. CASE ~IsSubscribed(t, c)
  <2>1. Entries(u)' = Entries(u)
    BY <1>3 DEF Unsubscribe, Entries
  <2>. QED BY <1>1, <2>1
<1>4. CASE u = t /\ IsSubscribed(t, c)
  <2>1. c # NoCond /\ <<m[t][FirstMatch(t, c)].cond, d>> \notin Match
    BY <1>4 DEF Forget
  <2>2. PICK i \in DOMAIN Entries(t) : Without(t, c, i)
    BY <1>4, <2>1, UnsubscribeLeaves DEF IInv, TypeOK
  <2>3. <<Entries(t)[i].cond, d>> \notin Match
    BY <2>1, <2>2 DEF Without
  <2>4. k # i
    BY <1>1, <1>4, <2>3
  <2>. QED BY <1>1, <1>4, <2>2, <2>4 DEF Without
<1>. QED BY <1>2, <1>3, <1>4

(* A step that removes nothing and starts no wait for an Ack.              *)
LEMMA StillAwaited ==
  ASSUME IInv, UNCHANGED m, aged \subseteq aged', open' => open,
         reader' = "ack" => UNCHANGED <<answering, undone>>
  PROVE  Awaited'
<1>1. \A u : Entries(u)' = Entries(u)
  BY DEF Entries
<1>. QED BY <1>1 DEF IInv, Awaited, Matched, answering
-----------------------------------------------------------------------------
(* A TTL goroutine that removes its subscription.                          *)
LEMMA ExpireInv ==
  ASSUME IInv, NEW id \in Id, Expire(id)
  PROVE  Agrees' /\ Kept' /\ Answered' /\ Awaited'
<1>. DEFINE Hit(t, i) ==
             /\ id \in IdsOf(t) /\ Entries(t)[i].id = id
             /\ joined' = joined \ {<<t, Entries(t)[i].cond>>}
             /\ Entries(t)' = StaleView(Entries(t), i)
             /\ \A u : u # t => Entries(u)' = Entries(u)
<1>1. /\ id \in timers /\ timers' = timers \ {id}
      /\ UNCHANGED <<open, reader, asked, acked, own, crossed>>
      /\ aged' = aged \cup {t \in DOMAIN m : id \in IdsOf(t)} /\ (~undone' => ~undone)
  BY DEF Expire, told, answering
<1>2. CASE id \notin LiveIds /\ UNCHANGED <<m, joined>>
  <2>1. UNCHANGED joined /\ \A u : Entries(u)' = Entries(u)
    BY <1>2 DEF Entries
  <2>. QED BY <1>1, <2>1 DEF IInv, Agrees, Kept, Answered, Pending, Awaited, Matched
<1>3. CASE \E t \in DOMAIN m : \E i \in DOMAIN Entries(t) : Hit(t, i)
  <2>0. PICK t \in DOMAIN m : \E i \in DOMAIN Entries(t) : Hit(t, i)
    BY <1>3
  <2>1. PICK i \in DOMAIN Entries(t) : Hit(t, i)
    BY <2>0
  <2>2. t \in aged' /\ aged \subseteq aged'
    BY <1>1, <2>1
  <2>3. Agrees' /\ Answered'
    BY <1>1, <2>1, <2>2 DEF IInv, Agrees, Answered, Pending
  <2>7. Awaited'
    BY <1>1, <2>1, <2>2 DEF IInv, Awaited, Matched
  <2>. DEFINE q == Entries(t)
  <2>4. q \in Seq(Entry)
    BY EntriesType DEF IInv, TypeOK
  <2>5. /\ DOMAIN q = 1 .. Len(q) /\ Len(q) \in DOMAIN q
        /\ DOMAIN Entries(t)' = DOMAIN q
        /\ \A j \in DOMAIN q : Entries(t)'[j] = IF j = i THEN q[Len(q)] ELSE q[j]
    BY <2>1, <2>4 DEF StaleView
  <2>. HIDE DEF q
  <2>6. Kept'
    <3>. SUFFICES ASSUME open, NEW u \in Type, NEW d \in Cond, <<u, d>> \in own
                  PROVE  /\ <<u, d>> \in joined'
                         /\ \E j \in DOMAIN Entries(u)' : Entries(u)'[j].cond = d
                         /\ \A j \in DOMAIN Entries(u)' :
                              Entries(u)'[j].id \in timers' => Entries(u)'[j].cond # d
      BY <1>1 DEF Kept
    <3>1. /\ <<u, d>> \in joined
          /\ \E j \in DOMAIN Entries(u) : Entries(u)[j].cond = d
          /\ \A j \in DOMAIN Entries(u) : Entries(u)[j].id \in timers => Entries(u)[j].cond # d
      BY DEF IInv, Kept
    <3>2. CASE u # t
      BY <1>1, <2>1, <3>1, <3>2
    <3>3. CASE u = t
      <4>1. q[i].cond # d
        BY <1>1, <2>1, <3>1, <3>3 DEF q
      <4>2. /\ \E j \in DOMAIN q : q[j].cond = d
            /\ \A j \in DOMAIN q : q[j].id \in timers => q[j].cond # d
        BY <3>1, <3>3 DEF q
      <4>3. <<u, d>> \in joined'
        BY <2>1, <3>1, <3>3, <4>1 DEF q
      <4>. QED BY <1>1, <2>5, <3>3, <4>1, <4>2, <4>3
    <3>. QED BY <3>2, <3>3
  <2>. QED BY <2>3, <2>6, <2>7
<1>. QED BY <1>2, <1>3, UnsubscribeWithIDStep DEF Expire, IInv, TypeOK

LEMMA LeaveInv ==
  ASSUME IInv, Leave
  PROVE  Agrees' /\ Kept' /\ Answered' /\ Awaited'
<1>1. ~open' /\ UNCHANGED aged
  BY DEF Leave
<1>2. \/ UNCHANGED <<m, joined>>
      \/ joined' = {} /\ \A u : Entries(u)' = <<>>
  BY DestroyStep DEF Leave, IInv, TypeOK
<1>3. Agrees'
  BY <1>1, <1>2 DEF IInv, Agrees, Entries
<1>. QED BY <1>1, <1>3 DEF Kept, Answered, Awaited

LEMMA StillInv ==
  ASSUME IInv, UNCHANGED <<emvars, own, aged, crossed>>, timers' \subseteq timers, open' => open,
         open' => acked \cup Pending \subseteq (acked \cup Pending)'
  PROVE  Agrees' /\ Kept' /\ Answered'
<1>1. UNCHANGED joined /\ \A u : Entries(u)' = Entries(u)
  BY DEF emvars, Entries
<1>. QED BY <1>1 DEF IInv, Agrees, Kept, Answered

LEMMA SubscribeInv ==
  ASSUME IInv, NEW t \in Type, NEW c \in Cond, ClientSubscribe(t, c)
  PROVE  Agrees' /\ Kept' /\ Answered' /\ Awaited'
<1>1. PICK id \in FreshId : Subscribe(t, [id |-> id, cond |-> c, auto |-> FALSE, ttl |-> FALSE])
  BY DEF ClientSubscribe
<1>. DEFINE e == [id |-> id, cond |-> c, auto |-> FALSE, ttl |-> FALSE]
<1>2. e \in Entry /\ e.id = id /\ e.cond = c
  BY <1>1, FreshEntry
<1>3. UNCHANGED <<open, timers, acked, aged, crossed>> /\ reader = "read" /\ Pending = {}
  BY DEF ClientSubscribe, Pending
<1>4. CASE IsNew(t, c)
  <2>1. Store(t, e)
    BY <1>1, <1>4 DEF Subscribe
  <2>2. ~IsAlreadySubscribed(t, c)
    BY <1>4 DEF IsAlreadySubscribed
  <2>3. reader' = "ack" /\ asked' = <<t, c>> /\ own' = own \cup {<<t, c>>}
    BY <1>4, <2>2 DEF ClientSubscribe
  <2>. HIDE DEF e
  <2>. QED BY <1>2, <1>3, <1>4, <2>1, <2>3, StoreInv
<1>5. CASE ~IsNew(t, c)
  <2>1. UNCHANGED emvars /\ UNCHANGED own
    BY <1>1, <1>5 DEF Subscribe, ClientSubscribe
  <2>2. Agrees' /\ Kept' /\ Answered'
    BY <1>3, <2>1, CoveredInv
  <2>3. Awaited'
    <3>1. CASE IsAlreadySubscribed(t, c)
      BY <3>1 DEF ClientSubscribe, Awaited
    <3>2. CASE ~IsAlreadySubscribed(t, c)
      <4>1. asked' = <<t, c>>
        BY <3>2 DEF ClientSubscribe
      <4>2. Entries(t)' = Entries(t)
        BY <2>1 DEF emvars, Entries
      <4>3. FirstMatch(t, c) \in DOMAIN Entries(t) /\ <<Entries(t)[FirstMatch(t, c)].cond, c>> \in Match
        BY <1>5, FirstMatchProperties DEF IInv, TypeOK
      <4>. QED BY <4>1, <4>2, <4>3 DEF Awaited, Matched
    <3>. QED BY <3>1, <3>2
  <2>. QED BY <2>2, <2>3
<1>. QED BY <1>4, <1>5

LEMMA EffectAddInv ==
  ASSUME IInv, NEW t \in Type, NEW c \in Cond, NEW ttl \in BOOLEAN, EffectAdd(t, c, ttl)
  PROVE  Agrees' /\ Kept' /\ Answered' /\ Awaited'
<1>1. PICK id \in FreshId :
        /\ Subscribe(t, [id |-> id, cond |-> c, auto |-> TRUE, ttl |-> ttl])
        /\ timers' = IF ttl THEN timers \cup {id} ELSE timers
  BY DEF EffectAdd
<1>. DEFINE e == [id |-> id, cond |-> c, auto |-> TRUE, ttl |-> ttl]
<1>2. e \in Entry /\ e.id = id /\ e.cond = c /\ e.auto
  BY <1>1, FreshEntry
<1>3. /\ UNCHANGED <<open, aged, crossed, acked, own, answering, undone>> /\ timers' \subseteq timers \cup {id}
      /\ UNCHANGED Pending
  BY <1>1 DEF EffectAdd, told, Pending, answering
<1>4. CASE IsNew(t, c)
  <2>1. Store(t, e)
    BY <1>1, <1>4 DEF Subscribe
  <2>. HIDE DEF e
  <2>. QED BY <1>2, <1>3, <1>4, <2>1, StoreInv
<1>5. CASE ~IsNew(t, c)
  <2>1. UNCHANGED emvars /\ UNCHANGED m
    BY <1>1, <1>5 DEF Subscribe, emvars
  <2>. QED BY <1>3, <2>1, CoveredInv, StillAwaited
<1>. QED BY <1>4, <1>5

LEMMA NextInv == IInv /\ [Next]_vars => IInv'
<1>. SUFFICES ASSUME IInv, [Next]_vars PROVE Agrees' /\ Kept' /\ Answered' /\ Awaited'
  BY TypeInv DEF IInv
<1>. USE DEF told, answering, Pending
<1>1. ASSUME NEW t \in Type, NEW c \in Cond, ClientUnsubscribe(t, c)
      PROVE  Agrees' /\ Kept' /\ Answered' /\ Awaited'
  <2>1. Unsubscribe(t, c) /\ UNCHANGED <<open, timers, asked, aged>> /\ reader = "read" /\ reader' # "ack"
    BY <1>1 DEF ClientUnsubscribe
  <2>2. Agrees' /\ Awaited'
    BY <2>1, UnsubscribeAgrees DEF Awaited
  <2>3. CASE IsSubscribed(t, c)
    BY <1>1, <2>1, <2>2, <2>3, UnsubscribeKept, UnsubscribeAnswered DEF ClientUnsubscribe
  <2>4. CASE ~IsSubscribed(t, c)
    <3>1. UNCHANGED emvars
      BY <2>1, <2>4 DEF Unsubscribe, emvars
    <3>. QED BY <1>1, <2>1, <2>2, <2>4, <3>1, StillInv DEF ClientUnsubscribe
  <2>. QED BY <2>3, <2>4
<1>2. ASSUME NEW t \in Type, NEW c \in Cond, EffectRemove(t, c)
      PROVE  Agrees' /\ Kept' /\ Answered' /\ Awaited'
  BY <1>2, UnsubscribeAgrees, UnsubscribeKept, UnsubscribeAnswered, UnsubscribeAwaited DEF EffectRemove
<1>3. ASSUME NEW id \in Id, Cancelled(id) PROVE Agrees' /\ Kept' /\ Answered' /\ Awaited'
  BY <1>3, StillInv, StillAwaited DEF Cancelled, emvars
<1>4. CASE SendAck
  BY <1>4, StillInv, StillAwaited DEF SendAck, emvars
<1>5. CASE SendClose
  BY <1>5, StillInv, StillAwaited DEF SendClose, emvars
<1>6. CASE Cancel \/ UNCHANGED vars
  BY <1>6, StillInv, StillAwaited DEF Cancel, vars, emvars
<1>. QED BY <1>1, <1>2, <1>3, <1>4, <1>5, <1>6, SubscribeInv, EffectAddInv, ExpireInv, LeaveInv DEF Next

LEMMA Inductive == Spec => []IInv
BY InitInv, NextInv, PTL DEF Spec

(* Every variable keeps its type, whatever the callers do and in whatever  *)
(* order.                                                                  *)
THEOREM TypeCorrect == Spec => []TypeOK
<1>1. IInv => TypeOK
  BY DEF IInv
<1>. QED BY <1>1, Inductive, PTL

(* Of a type that no TTL expiry touched, each entry has a condition of its *)
(* own and is joined in NATS (connection.go:131-148, 176-200).             *)
THEOREM ClaimsAreJoined == Spec => []MapAgrees
BY Inductive, Implied, PTL

(* What the client subscribed to itself stays joined while automatic       *)
(* subscriptions come, expire and go (connection.go:205-233).              *)
THEOREM OwnSurvives == Spec => []OwnStaysJoined
BY Inductive, Implied, PTL
-----------------------------------------------------------------------------
(* Only SendAck acknowledges a subscription, only a Subscribe is refused.  *)
LEMMA OnlySendAckAcks ==
  ASSUME [Next]_vars, NEW k \in acked' \ acked
  PROVE  SendAck /\ open /\ k = asked
<1>1. SendAck
  BY DEF Next, ClientSubscribe, ClientUnsubscribe, EffectAdd, EffectRemove, Expire, Cancelled, SendClose,
         Cancel, Leave, Forget, told, vars
<1>. QED BY <1>1 DEF SendAck

LEMMA OnlySubscribeRefuses ==
  ASSUME [Next]_vars, refused' # refused
  PROVE  \E t \in Type, c \in Cond : ClientSubscribe(t, c)
BY DEF Next, ClientUnsubscribe, EffectAdd, EffectRemove, Expire, Cancelled, SendAck, SendClose, Cancel,
       Leave, Forget, told, vars

LEMMA AckStep ==
  ASSUME IInv, [Next]_vars, NEW k \in acked' \ acked, k[1] \notin aged, ~undone
  PROVE  Receives(k)'
<1>1. SendAck /\ open /\ k = asked
  BY OnlySendAckAcks
<1>2. reader = "ack" /\ UNCHANGED <<m, joined>>
  BY <1>1 DEF SendAck, emvars
<1>3. k \in Type \X Cond
  BY <1>1, <1>2 DEF IInv, TypeOK, Key
<1>4. PICK i \in DOMAIN Entries(k[1]) : <<Entries(k[1])[i].cond, k[2]>> \in Match
  BY <1>1, <1>2 DEF IInv, Awaited, Matched
<1>5. <<k[1], Entries(k[1])[i].cond>> \in joined
  BY <1>3, <1>4 DEF IInv, Agrees
<1>6. Receives(k)
  BY <1>4, <1>5 DEF Receives, Conds, Entries, CreateDispatchKey
<1>. QED BY <1>2, <1>6 DEF Receives, Conds, Lookup

LEMMA RefuseStep ==
  ASSUME IInv, [Next]_vars, refused' # refused, refused'[1] \notin aged \cup crossed
  PROVE  \E k \in acked : k[1] = refused'[1] /\ <<k[2], refused'[2]>> \in Match
<1>1. PICK t \in Type, c \in Cond : ClientSubscribe(t, c)
  BY OnlySubscribeRefuses
<1>2. open /\ reader = "read" /\ IsAlreadySubscribed(t, c) /\ refused' = <<t, c>>
  BY <1>1 DEF ClientSubscribe
<1>3. /\ FirstMatch(t, c) \in DOMAIN Entries(t) /\ m[t] = Entries(t)
      /\ <<Entries(t)[FirstMatch(t, c)].cond, c>> \in Match
  BY <1>2, FirstMatchProperties DEF IInv, TypeOK, IsAlreadySubscribed
<1>4. ~Entries(t)[FirstMatch(t, c)].auto
  BY <1>2, <1>3 DEF IsAlreadySubscribed
<1>5. <<t, Entries(t)[FirstMatch(t, c)].cond>> \in acked
  BY <1>2, <1>3, <1>4 DEF IInv, Answered, Pending
<1>. QED BY <1>2, <1>3, <1>5

(* What a SUBSCRIBE is acknowledged for is joined in NATS as the Ack is    *)
(* sent, if no TTL expiry touched the type and no Unsubscribe took a       *)
(* matching entry after Subscribe had answered (handle.go:227-249,         *)
(* connection.go:131-150).                                                 *)
THEOREM AcksAreJoined == Spec => AckMeansJoinedUnaged
<1>1. IInv /\ [Next]_vars => [\A k \in acked' \ acked : k[1] \notin aged /\ ~undone => Receives(k)']_vars
  BY AckStep
<1>. QED BY <1>1, Inductive, PTL DEF Spec, AckMeansJoinedUnaged

(* Already Subscribed has a reason: an Ack for a condition that matches,   *)
(* or an expiry or an Unsubscribe that hit another entry before            *)
(* (handle.go:229-235, connection.go:176-193).                             *)
THEOREM RefusalsHaveReasons == Spec => RefusedOnlyTwice
<1>1. IInv /\ [Next]_vars =>
        [refused' # refused /\ refused'[1] \notin aged \cup crossed =>
           \E k \in acked : k[1] = refused'[1] /\ <<k[2], refused'[2]>> \in Match]_vars
  BY RefuseStep
<1>. QED BY <1>1, Inductive, PTL DEF Spec, RefusedOnlyTwice
=============================================================================
