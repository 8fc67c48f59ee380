--------------------------- MODULE DispatchProofs ---------------------------
(***************************************************************************)
(* Dispatch proved for any dispatches, keys, channel and bounds: types, a  *)
(* hash is written twice only after a race and recorded only for what is   *)
(* written, and, where a condition matches itself alone, at most one late  *)
(* dispatch follows the Ack of an UNSUBSCRIBE, but for types that a TTL    *)
(* expiry has touched.                                                     *)
(*                                                                         *)
(* Both of the first are one invariant about each hash that has not raced  *)
(* (Deduped): the cache, what the client has seen and the one goroutine    *)
(* that may hold the hash agree.  The last counts the stale dispatch a     *)
(* goroutine still holds as written (LateBudget).                          *)
(***************************************************************************)
EXTENDS Dispatch, EventMapProofs

LoopPlace == {"select", "filter", "has", "add", "effect", "write", "gone"}
ReaderPlace == {"read", "post", "ack", "close", "filter", "has", "add", "effect", "write", "gone"}
Place == LoopPlace \cup ReaderPlace
Outside == {"select", "read", "post", "ack", "close", "gone"}

(* A dispatch, some of whose effects may have been applied.                *)
Work == {d \in MsgType : d.hash # NoHash => ~Expires(d, d.hash)}

Control ==
  /\ Ch \in [{Self} -> Seq(Msg \cup {Garbage})]
  /\ pc \in [Proc -> Place] /\ DOMAIN cur = Proc
  /\ \A p \in Proc : pc[p] \notin Outside => cur[p] \in Work
  /\ \A p \in Proc : pc[p] \in {"has", "add"} => cur[p].hash # NoHash
  /\ ack \in {Nothing} \cup ({"subscribe", "unsubscribe"} \X SUBSET Key)
  /\ pc["reader"] = "ack" => ack # Nothing

Typed == TypeOK /\ Control

Others(p) == \A q \in Proc : q # p => pc'[q] = pc[q] /\ cur'[q] = cur[q]

LEMMA WorkIsSomething == \A d \in MsgType : d # Nothing
<1>1. ASSUME NEW d \in MsgType PROVE "type" \in DOMAIN d
  BY <1>1 DEF MsgType
<1>2. "type" \notin DOMAIN Nothing
  <2>1. DOMAIN Nothing = {}
    BY DEF Nothing
  <2>. QED BY <2>1
<1>. QED BY <1>1, <1>2

LEMMA MsgIsWork == Msg \subseteq Work
BY MsgAssumption, HashAssumption DEF Work

LEMMA HeadTail ==
  ASSUME NEW S, NEW q \in Seq(S), q # <<>>
  PROVE  /\ Head(q) \in S /\ Head(q) \in Range(q) /\ Tail(q) \in Seq(S)
         /\ Range(Tail(q)) \subseteq Range(q)
<1>1. Len(q) \in Nat \ {0} /\ DOMAIN q = 1 .. Len(q) /\ Head(q) = q[1] /\ Tail(q) \in Seq(S)
  OBVIOUS
<1>2. Len(Tail(q)) = Len(q) - 1 /\ \A i \in 1 .. Len(q) - 1 : Tail(q)[i] = q[i + 1]
  OBVIOUS
<1>3. DOMAIN Tail(q) = 1 .. Len(q) - 1
  BY <1>1, <1>2
<1>4. Range(Tail(q)) \subseteq Range(q)
  BY <1>1, <1>2, <1>3 DEF Range
<1>. QED BY <1>1, <1>4 DEF Range

(* What a goroutine does between two dispatches.                           *)
LEMMA ReturnStep ==
  ASSUME Typed, NEW p \in Proc, pc[p] \notin Outside, Return(p)
  PROVE  /\ Others(p) /\ pc' \in [Proc -> Place] /\ DOMAIN cur' = Proc /\ rest' \in Seq(Msg)
         /\ pc'[p] \in (IF p = "loop" THEN {"select"} ELSE {"read", "filter"})
         /\ pc'[p] # "filter" => cur'[p] = Nothing
         /\ pc'[p] = "filter" => cur'[p] \in Work
<1>1. CASE p = "reader" /\ rest # <<>>
  <2>1. Head(rest) \in Work /\ Tail(rest) \in Seq(Msg)
    BY <1>1, HeadTail, MsgIsWork DEF Typed, TypeOK
  <2>. QED BY <1>1, <2>1 DEF Return, Others, Typed, Control, Place, LoopPlace, ReaderPlace
<1>2. CASE ~(p = "reader" /\ rest # <<>>)
  BY <1>2 DEF Return, Others, Typed, TypeOK, Control, Place, LoopPlace, ReaderPlace, Proc
<1>. QED BY <1>1, <1>2

LEMMA GotoStep ==
  ASSUME Typed, NEW p \in Proc, NEW l \in Place, Goto(p, l)
  PROVE  Others(p) /\ pc' \in [Proc -> Place] /\ pc'[p] = l /\ UNCHANGED <<cur, rest>>
BY DEF Goto, Others, Typed, Control
-----------------------------------------------------------------------------
(* Types.                                                                  *)

(* The parts of Typed that goroutines move about in, and the rest.         *)
PlaceOf(p) == IF p = "loop" THEN LoopPlace ELSE ReaderPlace

Fit(p) ==
  /\ pc[p] \in PlaceOf(p)
  /\ \/ pc[p] \in Outside /\ cur[p] = Nothing
     \/ /\ pc[p] \notin Outside /\ cur[p] \in Work
        /\ pc[p] \in {"has", "add"} => cur[p].hash # NoHash

Placed ==
  pc \in [Proc -> Place] /\ DOMAIN cur = Proc /\ \A p \in Proc : Fit(p)

Rest ==
  /\ EventMapType /\ open \in BOOLEAN
  /\ Ch \in [{Self} -> Seq(Msg \cup {Garbage})] /\ Len(Ch[Self]) <= ChCap
  /\ matches \in [Proc -> SUBSET Key] /\ had \in [Proc -> BOOLEAN]
  /\ rest \in Seq(Msg) /\ cache \subseteq Hash /\ timers \subseteq Id /\ aged \subseteq Type
  /\ sent \in [Hash -> Nat] /\ left \subseteq Key /\ late \in Nat /\ raced \subseteq Hash
  /\ ack \in {Nothing} \cup ({"subscribe", "unsubscribe"} \X SUBSET Key)
  /\ pc["reader"] = "ack" => ack # Nothing

LEMMA Parts == (Typed <=> Placed /\ Rest) /\ (Typed <=> Placed /\ Rest)'
<1>1. Typed => Placed /\ Rest
  BY DEF Typed, TypeOK, Control, Placed, Fit, Rest, PlaceOf, LoopPlace, ReaderPlace, Outside, Proc
<1>2. Placed /\ Rest => Typed
  BY WorkIsSomething DEF Typed, TypeOK, Control, Placed, Fit, Rest, PlaceOf, LoopPlace, ReaderPlace, Outside, Proc, Work
<1>3. (Typed => Placed /\ Rest)'
  BY DEF Typed, TypeOK, Control, Placed, Fit, Rest, PlaceOf, LoopPlace, ReaderPlace, Outside, Proc
<1>4. (Placed /\ Rest => Typed)'
  BY WorkIsSomething DEF Typed, TypeOK, Control, Placed, Fit, Rest, PlaceOf, LoopPlace, ReaderPlace, Outside, Proc, Work
<1>. QED BY <1>1, <1>2, <1>3, <1>4

LEMMA PlaceInv ==
  ASSUME Placed, NEW p \in Proc, Others(p), pc' \in [Proc -> Place], DOMAIN cur' = Proc, Fit(p)'
  PROVE  Placed'
BY DEF Placed, Fit, Others

LEMMA ObserveType == Rest /\ Observe => raced' \subseteq Hash
BY DEF Rest, Observe

(* A step of OnDispatch.                                                   *)
LEMMA MoveInv ==
  ASSUME Typed, NEW p \in Proc, pc[p] \notin Outside,
         \/ Return(p)
         \/ \E l \in {"has", "add", "effect", "write"} :
              Goto(p, l) /\ (l \in {"has", "add"} => cur[p].hash # NoHash)
  PROVE  Placed' /\ rest' \in Seq(Msg) /\ (pc'["reader"] = "ack" => pc["reader"] = "ack")
<1>0. Placed /\ Rest /\ cur[p] \in Work
  BY Parts DEF Typed, Control
<1>1. CASE Return(p)
  <2>1. Fit(p)'
    BY <1>1, ReturnStep DEF Outside, Fit, PlaceOf, LoopPlace, ReaderPlace, Proc
  <2>2. Placed' /\ rest' \in Seq(Msg)
    BY <1>0, <1>1, <2>1, ReturnStep, PlaceInv
  <2>3. pc'["reader"] = "ack" => pc["reader"] = "ack"
    BY <1>1, ReturnStep DEF Others, Proc
  <2>. QED BY <2>2, <2>3
<1>2. ASSUME NEW l \in {"has", "add", "effect", "write"}, Goto(p, l),
             l \in {"has", "add"} => cur[p].hash # NoHash
      PROVE  Placed' /\ rest' \in Seq(Msg) /\ (pc'["reader"] = "ack" => pc["reader"] = "ack")
  <2>1. l \in Place
    BY DEF Place, LoopPlace
  <2>2. Fit(p)'
    BY <1>0, <1>2, <2>1, GotoStep DEF Fit, Outside, PlaceOf, LoopPlace, ReaderPlace
  <2>3. Placed' /\ UNCHANGED rest
    BY <1>0, <1>2, <2>1, <2>2, GotoStep, PlaceInv DEF Placed
  <2>4. pc'["reader"] = "ack" => pc["reader"] = "ack"
    BY <1>2, <2>1, GotoStep DEF Others, Proc
  <2>. QED BY <1>0, <2>3, <2>4 DEF Rest
<1>. QED BY <1>1, <1>2

USE DEF seen, emvars

LEMMA FilterType ==
  ASSUME Typed, NEW p \in Proc, Filter(p), Observe
  PROVE  Typed'
<1>1. cur[p] \in Work /\ pc[p] \notin Outside
  BY DEF Filter, Typed, Control, Outside
<1>2. MatchedBy(cur[p]) \subseteq Key
  BY <1>1, WildAssumption DEF MatchedBy, Get, Key, Work, MsgType
<1>3. Placed' /\ rest' \in Seq(Msg) /\ (pc'["reader"] = "ack" => pc["reader"] = "ack")
  BY <1>1, MoveInv DEF Filter
<1>4. matches' \in [Proc -> SUBSET Key]
  BY <1>2, Parts DEF Filter, Rest
<1>5. Rest'
  BY <1>3, <1>4, ObserveType, Parts DEF Filter, Rest, EventMapType
<1>. QED BY <1>3, <1>5, Parts

LEMMA HasHashType ==
  ASSUME Typed, NEW p \in Proc, HasHash(p), Observe
  PROVE  Typed'
<1>1. pc[p] \notin Outside /\ cur[p].hash # NoHash
  BY DEF HasHash, Typed, Control, Outside
<1>3. Placed' /\ rest' \in Seq(Msg) /\ (pc'["reader"] = "ack" => pc["reader"] = "ack")
  BY <1>1, MoveInv DEF HasHash
<1>4. had' \in [Proc -> BOOLEAN]
  BY Parts DEF HasHash, Rest
<1>5. Rest'
  BY <1>3, <1>4, ObserveType, Parts DEF HasHash, Rest, EventMapType
<1>. QED BY <1>3, <1>5, Parts

LEMMA AddHashType ==
  ASSUME Typed, NEW p \in Proc, AddHash(p), Observe
  PROVE  Typed'
<1>1. pc[p] \notin Outside /\ cur[p] \in Work /\ cur[p].hash # NoHash
  BY DEF AddHash, Typed, Control, Outside
<1>2. cur[p].hash \in Hash
  BY <1>1 DEF Work, MsgType
<1>3. Placed' /\ rest' \in Seq(Msg) /\ (pc'["reader"] = "ack" => pc["reader"] = "ack")
  BY <1>1, MoveInv DEF AddHash
<1>5. Rest'
  BY <1>2, <1>3, ObserveType, Parts DEF AddHash, Rest, EventMapType
<1>. QED BY <1>3, <1>5, Parts

LEMMA EffectsDoneType ==
  ASSUME Typed, NEW p \in Proc, EffectsDone(p), Observe
  PROVE  Typed'
<1>1. pc[p] \notin Outside
  BY DEF EffectsDone, Outside
<1>3. Placed' /\ rest' \in Seq(Msg) /\ (pc'["reader"] = "ack" => pc["reader"] = "ack")
  BY <1>1, MoveInv DEF EffectsDone
<1>5. Rest'
  BY <1>3, ObserveType, Parts DEF EffectsDone, Rest, EventMapType
<1>. QED BY <1>3, <1>5, Parts

LEMMA WriteType ==
  ASSUME Typed, NEW p \in Proc, Write(p), Observe
  PROVE  Typed'
<1>1. pc[p] \notin Outside /\ cur[p] \in Work
  BY DEF Write, Typed, Control, Outside
<1>2. sent' \in [Hash -> Nat] /\ late' \in Nat
  <2>1. sent \in [Hash -> Nat] /\ late \in Nat
    BY Parts DEF Rest
  <2>2. late' \in {late, late + 1}
    BY DEF Write
  <2>3. sent' = sent \/ sent' = [sent EXCEPT ![cur[p].hash] = @ + 1]
    BY DEF Write
  <2>. QED BY <2>1, <2>2, <2>3
<1>3. Placed' /\ rest' \in Seq(Msg) /\ (pc'["reader"] = "ack" => pc["reader"] = "ack")
  BY <1>1, MoveInv DEF Write
<1>5. Rest'
  BY <1>2, <1>3, ObserveType, Parts DEF Write, Rest, EventMapType
<1>. QED BY <1>3, <1>5, Parts

(* One effect less to do.                                                  *)
LEMMA EffectStep ==
  ASSUME Typed, NEW p \in Proc, ApplyEffect(p)
  PROVE  /\ Placed' /\ Others(p) /\ UNCHANGED pc /\ pc[p] = "effect"
         /\ cur[p] \in Work /\ Head(cur[p].effects) \in Effect
         /\ Head(cur[p].effects) \in Range(cur[p].effects)
         /\ cur'[p].hash = cur[p].hash /\ Range(cur'[p].effects) \subseteq Range(cur[p].effects)
<1>1. cur[p] \in Work /\ cur[p].effects \in Seq(Effect) /\ cur[p].effects # <<>>
  BY DEF ApplyEffect, Typed, Control, Outside, Work, MsgType
<1>2. /\ Head(cur[p].effects) \in Effect /\ Head(cur[p].effects) \in Range(cur[p].effects)
      /\ Tail(cur[p].effects) \in Seq(Effect)
      /\ Range(Tail(cur[p].effects)) \subseteq Range(cur[p].effects)
  BY <1>1, HeadTail
<1>. DEFINE d == [cur[p] EXCEPT !.effects = Tail(cur[p].effects)]
<1>3. UNCHANGED pc /\ pc[p] = "effect" /\ cur' = [cur EXCEPT ![p] = d]
  BY DEF ApplyEffect
<1>4. d \in MsgType /\ d.hash = cur[p].hash /\ d.effects = Tail(cur[p].effects)
  BY <1>1, <1>2 DEF Work, MsgType
<1>5. d \in Work
  BY <1>1, <1>2, <1>4 DEF Work, Expires
<1>. HIDE DEF d
<1>6. DOMAIN cur' = Proc /\ cur'[p] = d /\ Others(p)
  BY <1>3 DEF Typed, Control, Others
<1>7. Fit(p)' /\ pc' \in [Proc -> Place]
  BY <1>3, <1>5, <1>6, Parts DEF Placed, Fit, Outside
<1>8. Placed'
  BY <1>6, <1>7, PlaceInv, Parts
<1>. QED BY <1>1, <1>2, <1>3, <1>4, <1>6, <1>8

LEMMA EffectKinds ==
  ASSUME NEW e \in Effect
  PROVE  /\ e.op \in {"add", "remove"} => e.key[1] \in Type /\ e.key[2] \in Cond /\ e.key = <<e.key[1], e.key[2]>>
         /\ e.op = "add" => e.ttl \in BOOLEAN
         /\ e.op = "expire" => e.hash \in Hash /\ e = [op |-> "expire", hash |-> e.hash]
BY DEF Effect, Key

LEMMA NewEntryType ==
  ASSUME NEW c \in Cond, NEW a \in BOOLEAN, NEW b \in BOOLEAN, FreshId # {}
  PROVE  /\ NewEntry(c, a, b) \in Entry /\ NewEntry(c, a, b).cond = c /\ NewEntry(c, a, b).auto = a
         /\ NewEntry(c, a, b).id \in Id
<1>1. (CHOOSE i \in FreshId : TRUE) \in FreshId /\ FreshId \subseteq Id
  BY DEF FreshId
<1>. QED BY <1>1 DEF Entry, NewEntry

LEMMA SubscribeType ==
  ASSUME EventMapType, NEW t \in Type, NEW e \in Entry, Subscribe(t, e)
  PROVE  EventMapType'
BY StoreStep DEF Subscribe, EventMapType

LEMMA ApplyEffectType ==
  ASSUME Typed, NEW p \in Proc, ApplyEffect(p), Observe
  PROVE  Typed'
<1>. DEFINE e == Head(cur[p].effects)
<1>1. Placed' /\ UNCHANGED pc /\ e \in Effect
  BY EffectStep
<1>2. Rest /\ EventMapType
  BY Parts DEF Rest
<1>3. EventMapType'
  <2>1. CASE e.op = "add"
    <3>1. Subscribe(e.key[1], NewEntry(e.key[2], TRUE, e.ttl)) /\ FreshId # {}
      BY <2>1 DEF ApplyEffect
    <3>. QED BY <1>1, <1>2, <2>1, <3>1, NewEntryType, EffectKinds, SubscribeType
  <2>2. CASE e.op = "remove"
    BY <1>1, <1>2, <2>2, EffectKinds, UnsubscribeStep DEF ApplyEffect
  <2>3. CASE e.op = "expire"
    BY <1>2, <2>3 DEF ApplyEffect, EventMapType
  <2>. QED BY <2>1, <2>2, <2>3 DEF ApplyEffect
<1>4. cache' \subseteq Hash /\ sent' \in [Hash -> Nat] /\ left' \subseteq Key
  <2>1. /\ cache' = cache \/ cache' = cache \ {e.hash}
        /\ sent' = sent \/ sent' = [sent EXCEPT ![e.hash] = 0]
        /\ left' = left \/ left' = left \ {e.key}
    BY DEF ApplyEffect
  <2>. QED BY <1>2, <2>1 DEF Rest
<1>5. ack' \in {Nothing} \cup ({"subscribe", "unsubscribe"} \X SUBSET Key) /\ (ack # Nothing => ack' # Nothing)
  <2>1. CASE UNCHANGED ack
    BY <1>2, <2>1 DEF Rest
  <2>2. CASE ack' = IF ack = Nothing THEN ack ELSE <<ack[1], ack[2] \ {e.key}>>
    BY <1>2, <2>2 DEF Rest, Nothing
  <2>. QED BY <2>1, <2>2 DEF ApplyEffect
<1>6. UNCHANGED <<Ch, open, matches, had, rest, late, aged>>
  BY DEF ApplyEffect
<1>8. timers' \subseteq Id
  <2>1. CASE UNCHANGED timers
    BY <1>2, <2>1 DEF Rest
  <2>2. CASE e.op = "add" /\ FreshId # {}
    <3>1. e.key[2] \in Cond /\ e.ttl \in BOOLEAN
      BY <1>1, <2>2, EffectKinds
    <3>2. NewEntry(e.key[2], TRUE, e.ttl).id \in Id
      BY <2>2, <3>1, NewEntryType
    <3>3. timers' = IF e.ttl THEN timers \cup {NewEntry(e.key[2], TRUE, e.ttl).id} ELSE timers
      BY <1>1, <2>2 DEF ApplyEffect, Effect
    <3>. QED BY <1>2, <3>2, <3>3 DEF Rest
  <2>. QED BY <2>1, <2>2 DEF ApplyEffect
<1>7. Rest'
  BY <1>1, <1>2, <1>3, <1>4, <1>5, <1>6, <1>8, ObserveType DEF Rest
<1>. QED BY <1>1, <1>7, Parts

LEMMA PublishType ==
  ASSUME Typed, Publish, Observe
  PROVE  Typed'
<1>1. ASSUME NEW k, NEW d \in Msg \cup {Garbage}, N!Publish(k, d)
      PROVE  Ch' \in [{Self} -> Seq(Msg \cup {Garbage})] /\ Len(Ch'[Self]) <= ChCap
  <2>1. Ch' = [s \in {Self} |-> IF <<s, k>> \in {Self} \X joined /\ Len(Ch[s]) < ChCap
                               THEN Append(Ch[s], d) ELSE Ch[s]]
    BY <1>1 DEF N!Publish
  <2>. QED BY <2>1, Parts, DispatchAssumption DEF Rest
<1>2. Ch' \in [{Self} -> Seq(Msg \cup {Garbage})] /\ Len(Ch'[Self]) <= ChCap
  BY <1>1 DEF Publish
<1>3. UNCHANGED <<emvars, open, pc, cur, matches, had, rest, ack, cache, timers, seen>>
  BY DEF Publish
<1>4. Rest' /\ Placed'
  BY <1>2, <1>3, ObserveType, Parts DEF Rest, Placed, Fit, EventMapType
<1>. QED BY <1>4, Parts

LEMMA TakeType ==
  ASSUME Typed, Take, Observe
  PROVE  Typed'
<1>0. Placed /\ Rest /\ Ch[Self] \in Seq(Msg \cup {Garbage}) /\ Ch[Self] # <<>> /\ pc["loop"] = "select"
  BY Parts DEF Take, N!Take, Rest
<1>1. Head(Ch[Self]) \in Msg \cup {Garbage} /\ Tail(Ch[Self]) \in Seq(Msg \cup {Garbage})
      /\ Len(Tail(Ch[Self])) <= Len(Ch[Self])
  BY <1>0, HeadTail
<1>2. Ch' = [Ch EXCEPT ![Self] = Tail(Ch[Self])]
  BY DEF Take, N!Take
<1>3. Ch' \in [{Self} -> Seq(Msg \cup {Garbage})] /\ Len(Ch'[Self]) <= ChCap
  <2>1. Len(Tail(Ch[Self])) <= ChCap
    BY <1>0, <1>1, DispatchAssumption DEF Rest
  <2>. QED BY <1>0, <1>1, <1>2, <2>1 DEF Rest
<1>4. Placed' /\ (pc'["reader"] = "ack" => pc["reader"] = "ack")
  <2>1. CASE Head(Ch[Self]) = Garbage
    <3>1. UNCHANGED <<pc, cur>>
      BY <2>1 DEF Take
    <3>. QED BY <1>0, <3>1 DEF Placed, Fit
  <2>2. CASE Head(Ch[Self]) # Garbage
    <3>1. Head(Ch[Self]) \in Work
      BY <1>1, <2>2, MsgIsWork
    <3>2. pc' = [pc EXCEPT !["loop"] = "filter"] /\ cur' = [cur EXCEPT !["loop"] = Head(Ch[Self])]
      BY <2>2 DEF Take
    <3>3. Others("loop") /\ pc' \in [Proc -> Place] /\ DOMAIN cur' = Proc
          /\ pc'["loop"] = "filter" /\ cur'["loop"] = Head(Ch[Self])
      BY <1>0, <3>2 DEF Placed, Others, Place, LoopPlace, Proc
    <3>4. Fit("loop")'
      BY <3>1, <3>3 DEF Fit, PlaceOf, LoopPlace, Outside
    <3>. QED BY <1>0, <3>3, <3>4, PlaceInv DEF Others, Proc
  <2>. QED BY <2>1, <2>2
<1>5. UNCHANGED <<emvars, open, matches, had, rest, ack, cache, timers, seen>>
  BY DEF Take
<1>6. Rest'
  BY <1>0, <1>3, <1>4, <1>5, ObserveType DEF Rest, EventMapType
<1>. QED BY <1>4, <1>6, Parts

(* A goroutine that is outside of OnDispatch, and stays there.             *)
LEMMA OutsideInv ==
  ASSUME Placed, NEW p \in Proc, NEW l \in PlaceOf(p) \cap Outside, pc[p] \in Outside,
         pc' = [pc EXCEPT ![p] = l], UNCHANGED cur
  PROVE  Placed'
<1>1. Others(p) /\ pc' \in [Proc -> Place] /\ pc'[p] = l /\ DOMAIN cur' = Proc /\ cur'[p] = Nothing
  BY DEF Placed, Others, Place, PlaceOf, Fit, Proc
<1>2. Fit(p)'
  BY <1>1 DEF Fit
<1>. QED BY <1>1, <1>2, PlaceInv

LEMMA EndType ==
  ASSUME Typed, NEW p \in Proc, End(p), Observe
  PROVE  Typed'
<1>0. Placed /\ Rest /\ pc[p] \in Outside /\ pc' = [pc EXCEPT ![p] = "gone"] /\ UNCHANGED cur
  BY Parts DEF End, Outside
<1>1. Placed' /\ (pc'["reader"] = "ack" => pc["reader"] = "ack")
  <2>1. "gone" \in PlaceOf(p) \cap Outside
    BY DEF PlaceOf, Outside, LoopPlace, ReaderPlace
  <2>. QED BY <1>0, <2>1, OutsideInv DEF Placed, Proc
<1>2. EventMapType'
  BY <1>0, DestroyStep DEF End, Rest
<1>3. Rest'
  BY <1>0, <1>1, <1>2, ObserveType DEF End, Rest
<1>. QED BY <1>1, <1>3, Parts

LEMMA AnswerType ==
  ASSUME Typed, NEW ok, NEW op \in {"subscribe", "unsubscribe"}, NEW ended \in SUBSET Key,
         pc["reader"] = "read", Answer(ok, op, ended), EventMapType', left' \subseteq Key, Observe
  PROVE  Typed'
<1>0. Placed /\ Rest
  BY Parts
<1>1. CASE ok
  <2>1. pc' = [pc EXCEPT !["reader"] = "ack"] /\ ack' = <<op, ended>> /\ UNCHANGED <<open, cur>>
    BY <1>1 DEF Answer
  <2>2. Placed'
    BY <1>0, <2>1, OutsideInv DEF PlaceOf, ReaderPlace, Outside, Proc
  <2>3. ack' \in {"subscribe", "unsubscribe"} \X SUBSET Key /\ ack' # Nothing
    BY <2>1 DEF Nothing
  <2>4. Rest'
    BY <1>0, <2>1, <2>3, ObserveType DEF Answer, Rest
  <2>. QED BY <2>2, <2>4, Parts
<1>2. CASE ~ok
  <2>1. pc' = [pc EXCEPT !["reader"] = "close"] /\ UNCHANGED <<open, ack, cur>>
    BY <1>2 DEF Answer
  <2>2. Placed'
    BY <1>0, <2>1, OutsideInv DEF PlaceOf, ReaderPlace, Outside, Proc
  <2>3. pc'["reader"] # "ack"
    BY <1>0, <2>1 DEF Placed, Proc
  <2>4. Rest'
    BY <1>0, <2>1, <2>3, ObserveType DEF Answer, Rest
  <2>. QED BY <2>2, <2>4, Parts
<1>. QED BY <1>1, <1>2

LEMMA ClientType ==
  ASSUME Typed, NEW t \in Type, NEW c \in Cond, ClientSubscribe(t, c) \/ ClientUnsubscribe(t, c), Observe
  PROVE  Typed'
<1>0. Rest /\ EventMapType
  BY Parts DEF Rest
<1>1. CASE ClientSubscribe(t, c)
  <2>1. EventMapType'
    BY <1>0, <1>1, NewEntryType, SubscribeType DEF ClientSubscribe
  <2>2. left' \subseteq Key
    BY <1>0, <1>1 DEF ClientSubscribe, Rest
  <2>3. pc["reader"] = "read" /\ Answer(~IsAlreadySubscribed(t, c), "subscribe", {})
    BY <1>1 DEF ClientSubscribe
  <2>. QED BY <2>1, <2>2, <2>3, AnswerType
<1>2. CASE ClientUnsubscribe(t, c)
  <2>. DEFINE ended == {k \in {t} \X Cond : c \in {k[2], NoCond}}
  <2>1. EventMapType'
    BY <1>0, <1>2, UnsubscribeStep DEF ClientUnsubscribe
  <2>2. left' \subseteq Key
    BY <1>0, <1>2 DEF ClientUnsubscribe, Rest
  <2>3. pc["reader"] = "read" /\ Answer(IsSubscribed(t, c), "unsubscribe", ended)
    BY <1>2 DEF ClientUnsubscribe
  <2>4. ended \in SUBSET Key
    BY DEF Key
  <2>. QED BY <2>1, <2>2, <2>3, <2>4, AnswerType
<1>. QED BY <1>1, <1>2

LEMMA SendAckType ==
  ASSUME Typed, SendAck, Observe
  PROVE  Typed'
<1>0. Placed /\ Rest /\ ack \in {"subscribe", "unsubscribe"} \X SUBSET Key
  BY Parts DEF SendAck, Rest
<1>1. Placed' /\ pc'["reader"] # "ack"
  <2>1. "read" \in PlaceOf("reader") \cap Outside /\ "reader" \in Proc /\ pc["reader"] \in Outside
    BY DEF PlaceOf, ReaderPlace, Outside, Proc, SendAck
  <2>2. pc' = [pc EXCEPT !["reader"] = "read"] /\ UNCHANGED cur
    BY DEF SendAck
  <2>. QED BY <1>0, <2>1, <2>2, OutsideInv DEF Placed
<1>2. left' \subseteq Key /\ late' \in Nat
  BY <1>0 DEF SendAck, Rest
<1>3. Rest'
  BY <1>0, <1>1, <1>2, ObserveType DEF SendAck, Rest, EventMapType
<1>. QED BY <1>1, <1>3, Parts

LEMMA SendCloseType ==
  ASSUME Typed, SendClose, Observe
  PROVE  Typed'
<1>0. Placed /\ Rest
  BY Parts
<1>1. Placed' /\ pc'["reader"] # "ack" /\ UNCHANGED rest
  <2>1. "read" \in PlaceOf("reader") \cap Outside /\ "reader" \in Proc /\ pc["reader"] \in Outside
    BY DEF PlaceOf, ReaderPlace, Outside, Proc, SendClose
  <2>2. pc' = [pc EXCEPT !["reader"] = "read"] /\ UNCHANGED <<cur, rest>>
    BY DEF SendClose, Goto
  <2>. QED BY <1>0, <2>1, <2>2, OutsideInv DEF Placed
<1>3. Rest'
  BY <1>0, <1>1, ObserveType DEF SendClose, Rest, EventMapType
<1>. QED BY <1>1, <1>3, Parts

(* A TTL goroutine.                                                        *)
LEMMA TimerType ==
  ASSUME Typed, NEW id \in Id, Expire(id) \/ Cancelled(id), Observe
  PROVE  Typed'
<1>0. Placed /\ Rest /\ EventMapType
  BY Parts DEF Rest
<1>1. Placed' /\ UNCHANGED pc
  BY <1>0 DEF Expire, Cancelled, Placed, Fit
<1>2. EventMapType'
  BY <1>0, UnsubscribeWithIDStep DEF Expire, Cancelled, EventMapType
<1>3. timers' \subseteq Id /\ aged' \subseteq Type
  <2>1. DOMAIN m \subseteq Type
    BY <1>0 DEF EventMapType, IsMap
  <2>. QED BY <1>0, <2>1 DEF Expire, Cancelled, Rest
<1>4. Rest'
  BY <1>0, <1>1, <1>2, <1>3, ObserveType DEF Expire, Cancelled, Rest
<1>. QED BY <1>1, <1>4, Parts

LEMMA BridgePostType ==
  ASSUME Typed, BridgePost, Observe
  PROVE  Typed'
<1>0. Placed /\ Rest
  BY Parts
<1>1. Placed' /\ pc'["reader"] # "ack" /\ UNCHANGED rest
  <2>1. "post" \in PlaceOf("reader") \cap Outside /\ "reader" \in Proc /\ pc["reader"] \in Outside
    BY DEF PlaceOf, ReaderPlace, Outside, Proc, BridgePost
  <2>2. pc' = [pc EXCEPT !["reader"] = "post"] /\ UNCHANGED <<cur, rest>>
    BY DEF BridgePost, Goto
  <2>. QED BY <1>0, <2>1, <2>2, OutsideInv DEF Placed
<1>3. Rest'
  BY <1>0, <1>1, ObserveType DEF BridgePost, Rest, EventMapType
<1>. QED BY <1>1, <1>3, Parts

LEMMA BridgeAnswerType ==
  ASSUME Typed, BridgeAnswer, Observe
  PROVE  Typed'
<1>0. Placed /\ Rest /\ "reader" \in Proc /\ pc["reader"] = "post"
  BY Parts DEF BridgeAnswer, Proc
<1>1. Placed' /\ pc'["reader"] # "ack" /\ rest' \in Seq(Msg)
  <2>1. CASE Goto("reader", "read")
    <3>1. "read" \in PlaceOf("reader") \cap Outside /\ pc["reader"] \in Outside
      BY <1>0 DEF PlaceOf, ReaderPlace, Outside
    <3>2. pc' = [pc EXCEPT !["reader"] = "read"] /\ UNCHANGED <<cur, rest>>
      BY <2>1 DEF Goto
    <3>. QED BY <1>0, <3>1, <3>2, OutsideInv DEF Placed, Rest
  <2>2. ASSUME NEW ds \in Bridged, ds # <<>>,
               pc' = [pc EXCEPT !["reader"] = "filter"],
               cur' = [cur EXCEPT !["reader"] = Head(ds)], rest' = Tail(ds)
        PROVE  Placed' /\ pc'["reader"] # "ack" /\ rest' \in Seq(Msg)
    <3>1. Head(ds) \in Work /\ Tail(ds) \in Seq(Msg)
      <4>1. ds \in Seq(Msg)
        BY <2>2, MsgAssumption
      <4>. QED BY <2>2, <4>1, HeadTail, MsgIsWork
    <3>2. Others("reader") /\ pc' \in [Proc -> Place] /\ DOMAIN cur' = Proc
          /\ pc'["reader"] = "filter" /\ cur'["reader"] = Head(ds)
      BY <1>0, <2>2 DEF Placed, Others, Place, LoopPlace
    <3>3. Fit("reader")'
      BY <3>1, <3>2 DEF Fit, PlaceOf, ReaderPlace, Outside
    <3>. QED BY <1>0, <2>2, <3>1, <3>2, <3>3, PlaceInv
  <2>. QED BY <2>1, <2>2 DEF BridgeAnswer
<1>3. Rest'
  BY <1>0, <1>1, ObserveType DEF BridgeAnswer, Rest, EventMapType
<1>. QED BY <1>1, <1>3, Parts

LEMMA AbortType ==
  ASSUME Typed, Abort, Observe
  PROVE  Typed'
<1>0. Placed /\ Rest
  BY Parts
<1>1. Placed' /\ pc'["reader"] # "ack"
  BY DEF Abort, Placed, Fit, Place, LoopPlace, PlaceOf, ReaderPlace, Outside, Proc
<1>2. EventMapType'
  BY <1>0, DestroyStep DEF Abort, Rest
<1>3. Rest'
  BY <1>0, <1>1, <1>2, ObserveType DEF Abort, Rest
<1>. QED BY <1>1, <1>3, Parts

LEMMA TypeInv == Typed /\ [Next]_vars => Typed'
<1>. SUFFICES ASSUME Typed, [Next]_vars PROVE Typed' OBVIOUS
<1>1. CASE Next
  <2>. Observe
    BY <1>1 DEF Next
  <2>1. ASSUME NEW p \in Proc, OnDispatch(p) PROVE Typed'
    BY <2>1, FilterType, HasHashType, AddHashType, ApplyEffectType, EffectsDoneType, WriteType DEF OnDispatch
  <2>2. CASE Commands
    BY <2>2, ClientType, SendAckType, SendCloseType, BridgePostType, BridgeAnswerType DEF Commands
  <2>. QED BY <1>1, <2>1, <2>2, TimerType, PublishType, TakeType, AbortType, EndType DEF Next
<1>2. CASE UNCHANGED vars
  BY <1>2, Parts DEF vars, dvars, Placed, Fit, Rest, EventMapType
<1>. QED BY <1>1, <1>2

LEMMA InitType == Init => Typed
<1>. SUFFICES ASSUME Init PROVE Typed OBVIOUS
<1>. DEFINE e == [id |-> CHOOSE i \in Id : TRUE, cond |-> WhisperKey[2], auto |-> TRUE, ttl |-> FALSE]
<1>1. EventMapType
  <2>0. WhisperKey[1] \in Type /\ WhisperKey[2] \in Cond /\ WhisperKey \in Key
    BY DispatchAssumption DEF Key
  <2>1. e \in Entry
    BY <2>0, DispatchAssumption DEF Entry
  <2>2. IsMap(EmptyMap, Type, Seq(Entry))
    BY DEF IsMap, EmptyMap
  <2>3. m = Put(EmptyMap, WhisperKey[1], <<e>>) /\ joined = {WhisperKey} /\ destroyed = FALSE
    BY DEF Init
  <2>. HIDE DEF e
  <2>4. <<e>> \in Seq(Entry)
    BY <2>1
  <2>5. IsMap(m, Type, Seq(Entry))
    BY <2>0, <2>2, <2>3, <2>4 DEF IsMap, Put, EmptyMap
  <2>. QED BY <2>0, <2>3, <2>5 DEF EventMapType
<1>2. Placed
  BY DEF Init, Placed, Fit, Place, PlaceOf, LoopPlace, ReaderPlace, Outside, Proc
<1>3. Ch \in [{Self} -> Seq(Msg \cup {Garbage})] /\ Len(Ch[Self]) <= ChCap
  BY DispatchAssumption DEF Init
<1>4. matches \in [Proc -> SUBSET Key] /\ had \in [Proc -> BOOLEAN] /\ sent \in [Hash -> Nat]
  BY DEF Init
<1>5. /\ open \in BOOLEAN /\ rest \in Seq(Msg) /\ cache \subseteq Hash /\ left \subseteq Key
      /\ timers \subseteq Id /\ aged \subseteq Type
      /\ late \in Nat /\ raced \subseteq Hash /\ ack = Nothing /\ pc["reader"] # "ack"
  BY DEF Init, Nothing, Proc
<1>6. Rest
  BY <1>1, <1>3, <1>4, <1>5 DEF Rest
<1>. QED BY <1>2, <1>6, Parts

(* The goroutines of a connection keep their types, for any dispatches,    *)
(* hashes and bounds (handle.go:41-140, websocket_read.go:156-175).        *)
THEOREM TypeCorrect == Spec => []TypeOK
<1>1. Typed => TypeOK
  BY DEF Typed
<1>. QED BY <1>1, InitType, TypeInv, PTL DEF Spec
-----------------------------------------------------------------------------
(* Dedupe.                                                                 *)

Deduped ==
  \A h \in Hash \ raced :
    /\ sent[h] <= 1 /\ (sent[h] > 0 => h \in cache)
    /\ \A p \in Proc : pc[p] \in {"effect", "write"} /\ cur[p].hash = h => h \in cache /\ sent[h] = 0
    /\ \A p \in Proc : pc[p] = "add" /\ cur[p].hash = h => (had[p] <=> h \in cache)
    /\ open /\ h \in cache =>
         sent[h] > 0 \/ \E p \in Proc : pc[p] \in {"effect", "write"} /\ cur[p].hash = h

(* Until a hash has raced, who works with it does so alone.                *)
LEMMA Alone ==
  ASSUME Observe, NEW h \in Hash \ raced', NEW p \in Proc, Concerns(p, h), NEW q \in Proc, q # p
  PROVE  h \notin raced /\ ~Concerns(q, h)
BY DEF Observe, Proc

(* A step of p that touches neither the cache nor what was sent.           *)
Steady(p) ==
  \/ pc'[p] = pc[p] /\ had'[p] = had[p] /\ (pc[p] \notin Outside => cur'[p].hash = cur[p].hash)
  \/ {pc[p], pc'[p]} \subseteq {"effect", "write"} /\ cur'[p].hash = cur[p].hash
  \/ /\ pc[p] \notin {"effect", "write"} \/ cur[p].hash = NoHash \/ ~open'
     /\ pc'[p] \notin {"add", "effect", "write"} \/ cur'[p].hash = NoHash

LEMMA SteadyInv ==
  ASSUME Deduped, Observe, UNCHANGED <<cache, sent>>, open' => open, \A p \in Proc : Steady(p)
  PROVE  Deduped'
<1>. SUFFICES ASSUME NEW h \in Hash \ raced'
              PROVE
    /\ sent[h] <= 1 /\ (sent[h] > 0 => h \in cache)
    /\ \A p \in Proc : pc'[p] \in {"effect", "write"} /\ cur'[p].hash = h => h \in cache /\ sent[h] = 0
    /\ \A p \in Proc : pc'[p] = "add" /\ cur'[p].hash = h => (had'[p] <=> h \in cache)
    /\ open' /\ h \in cache =>
         sent[h] > 0 \/ \E p \in Proc : pc'[p] \in {"effect", "write"} /\ cur'[p].hash = h
  BY DEF Deduped
<1>1. h \in Hash \ raced /\ h # NoHash
  BY DispatchAssumption DEF Observe
<1>2. /\ sent[h] <= 1 /\ (sent[h] > 0 => h \in cache)
      /\ \A p \in Proc : pc[p] \in {"effect", "write"} /\ cur[p].hash = h => h \in cache /\ sent[h] = 0
      /\ \A p \in Proc : pc[p] = "add" /\ cur[p].hash = h => (had[p] <=> h \in cache)
      /\ open /\ h \in cache =>
           sent[h] > 0 \/ \E p \in Proc : pc[p] \in {"effect", "write"} /\ cur[p].hash = h
  BY <1>1 DEF Deduped
<1>3. ASSUME NEW p \in Proc, pc'[p] \in {"effect", "write"}, cur'[p].hash = h
      PROVE  h \in cache /\ sent[h] = 0
  <2>1. pc[p] \in {"effect", "write"} /\ cur[p].hash = h
    BY <1>1, <1>3 DEF Steady, Outside
  <2>. QED BY <1>2, <2>1
<1>4. ASSUME NEW p \in Proc, pc'[p] = "add", cur'[p].hash = h
      PROVE  had'[p] <=> h \in cache
  <2>1. pc[p] = "add" /\ cur[p].hash = h /\ had'[p] = had[p]
    BY <1>1, <1>4 DEF Steady, Outside
  <2>. QED BY <1>2, <2>1
<1>5. ASSUME NEW p \in Proc, open', pc[p] \in {"effect", "write"}, cur[p].hash = h
      PROVE  pc'[p] \in {"effect", "write"} /\ cur'[p].hash = h
  BY <1>1, <1>5 DEF Steady, Outside
<1>. QED BY <1>2, <1>3, <1>4, <1>5

LEMMA SteadyOthers ==
  ASSUME NEW p \in Proc, Others(p), UNCHANGED had
  PROVE  \A q \in Proc : q # p => Steady(q)
BY DEF Others, Steady

(* Steps after which a goroutine holds no dispatch past AddDispatch that   *)
(* it did not hold before.                                                 *)
LEMMA FilterDeduped ==
  ASSUME Typed, Deduped, NEW p \in Proc, Filter(p), Observe
  PROVE  Deduped'
<1>1. pc[p] = "filter" /\ pc[p] \notin Outside /\ UNCHANGED <<had, cache, sent, open>>
  BY DEF Filter, Outside
<1>2. CASE Return(p)
  <2>1. Others(p) /\ pc'[p] \notin {"add", "effect", "write"}
    BY <1>1, <1>2, ReturnStep
  <2>2. Steady(p)
    BY <1>1, <2>1 DEF Steady
  <2>. QED BY <1>1, <2>1, <2>2, SteadyOthers, SteadyInv
<1>3. CASE Goto(p, IF cur[p].hash = NoHash THEN "effect" ELSE "has")
  <2>1. Others(p) /\ (pc'[p] \notin {"add", "effect", "write"} \/ cur'[p].hash = NoHash)
    BY <1>3, GotoStep DEF Place, LoopPlace
  <2>2. Steady(p)
    BY <1>1, <2>1 DEF Steady
  <2>. QED BY <1>1, <2>1, <2>2, SteadyOthers, SteadyInv
<1>. QED BY <1>2, <1>3 DEF Filter

LEMMA EffectsDoneDeduped ==
  ASSUME Typed, Deduped, NEW p \in Proc, EffectsDone(p), Observe
  PROVE  Deduped'
<1>1. Others(p) /\ pc[p] = "effect" /\ pc'[p] = "write" /\ UNCHANGED <<cur, had, cache, sent, open>>
  BY GotoStep DEF EffectsDone, Place, LoopPlace
<1>2. Steady(p)
  BY <1>1 DEF Steady
<1>. QED BY <1>1, <1>2, SteadyOthers, SteadyInv

LEMMA TakeDeduped ==
  ASSUME Typed, Deduped, Take, Observe
  PROVE  Deduped'
<1>1. Others("loop") /\ pc["loop"] = "select" /\ pc'["loop"] \in {"select", "filter"}
  BY DEF Take, Others, Typed, Control, Proc
<1>2. Steady("loop") /\ UNCHANGED <<had, cache, sent, open>>
  BY <1>1 DEF Steady, Take
<1>. QED BY <1>1, <1>2, SteadyOthers, SteadyInv DEF Proc

LEMMA EndDeduped ==
  ASSUME Typed, Deduped, NEW p \in Proc, End(p), Observe
  PROVE  Deduped'
<1>1. Others(p) /\ pc[p] \in {"select", "read"} /\ pc'[p] = "gone"
  BY DEF End, Others, Typed, Control
<1>2. Steady(p) /\ UNCHANGED <<had, cache, sent>> /\ ~open'
  BY <1>1 DEF Steady, End
<1>. QED BY <1>1, <1>2, SteadyOthers, SteadyInv

LEMMA ReaderDeduped ==
  ASSUME Typed, Deduped, Commands, Observe
  PROVE  Deduped'
<1>1. UNCHANGED <<had, cache, sent>> /\ (open' => open)
  <2>1. ASSUME NEW t \in Type, NEW c \in Cond, ClientSubscribe(t, c) \/ ClientUnsubscribe(t, c)
        PROVE  UNCHANGED <<had, cache, sent>> /\ (open' => open)
    <3>1. \E ok, op, ended : Answer(ok, op, ended)
      BY <2>1 DEF ClientSubscribe, ClientUnsubscribe
    <3>. QED BY <3>1 DEF Answer
  <2>2. CASE SendAck \/ SendClose \/ BridgePost \/ BridgeAnswer
    BY <2>2 DEF SendAck, SendClose, BridgePost, BridgeAnswer
  <2>. QED BY <2>1, <2>2 DEF Commands
<1>2. /\ Others("reader") /\ pc["reader"] \in {"read", "ack", "close", "post"}
      /\ pc'["reader"] \in {"read", "ack", "close", "post", "filter"}
  BY DEF Commands, ClientSubscribe, ClientUnsubscribe, Answer, SendAck, SendClose, BridgePost, BridgeAnswer,
         Goto, Others, Typed, Control, Proc
<1>3. Steady("reader")
  BY <1>2 DEF Steady
<1>. QED BY <1>1, <1>2, <1>3, SteadyOthers, SteadyInv DEF Proc

LEMMA AbortDeduped ==
  ASSUME Typed, Deduped, Abort, Observe
  PROVE  Deduped'
<1>1. UNCHANGED <<had, cache, sent>> /\ ~open' /\ \A p \in Proc : pc'[p] = "gone"
  BY DEF Abort
<1>2. \A p \in Proc : Steady(p)
  BY <1>1 DEF Steady
<1>. QED BY <1>1, <1>2, SteadyInv
-----------------------------------------------------------------------------
(* Steps about one hash.                                                   *)
LEMMA HasHashDeduped ==
  ASSUME Typed, Deduped, NEW p \in Proc, HasHash(p), Observe
  PROVE  Deduped'
<1>1. /\ Others(p) /\ pc[p] = "has" /\ pc'[p] = "add" /\ UNCHANGED <<cur, cache, sent, open>>
      /\ had' = [had EXCEPT ![p] = cur[p].hash \in cache]
  BY GotoStep DEF HasHash, Place, LoopPlace
<1>2. (had'[p] <=> cur[p].hash \in cache) /\ \A q \in Proc : q # p => had'[q] = had[q]
  BY <1>1 DEF Typed, TypeOK
<1>. SUFFICES ASSUME NEW h \in Hash \ raced, h \notin raced'
              PROVE
    /\ sent[h] <= 1 /\ (sent[h] > 0 => h \in cache)
    /\ \A q \in Proc : pc'[q] \in {"effect", "write"} /\ cur[q].hash = h => h \in cache /\ sent[h] = 0
    /\ \A q \in Proc : pc'[q] = "add" /\ cur[q].hash = h => (had'[q] <=> h \in cache)
    /\ open /\ h \in cache =>
         sent[h] > 0 \/ \E q \in Proc : pc'[q] \in {"effect", "write"} /\ cur[q].hash = h
  BY <1>1 DEF Deduped, Observe
<1>3. \A q \in Proc : q # p => pc'[q] = pc[q]
  <2>1. Others(p)
    BY <1>1
  <2>. QED BY <2>1, Zenon DEF Others
<1>4. /\ sent[h] <= 1 /\ (sent[h] > 0 => h \in cache)
      /\ \A q \in Proc : pc[q] \in {"effect", "write"} /\ cur[q].hash = h => h \in cache /\ sent[h] = 0
      /\ \A q \in Proc : pc[q] = "add" /\ cur[q].hash = h => (had[q] <=> h \in cache)
      /\ open /\ h \in cache =>
           sent[h] > 0 \/ \E q \in Proc : pc[q] \in {"effect", "write"} /\ cur[q].hash = h
  BY Zenon DEF Deduped
<1>5. \A q \in Proc : pc'[q] \in {"effect", "write"} <=> pc[q] \in {"effect", "write"}
  BY <1>1, <1>3
<1>6. ASSUME NEW q \in Proc, pc'[q] = "add", cur[q].hash = h
      PROVE  had'[q] <=> h \in cache
  <2>1. CASE q = p
    BY <1>2, <1>6, <2>1, Zenon
  <2>2. CASE q # p
    <3>1. pc[q] = "add" /\ had'[q] = had[q]
      BY <1>2, <1>3, <1>6, <2>2
    <3>. QED BY <1>4, <1>6, <3>1, Zenon
  <2>. QED BY <2>1, <2>2
<1>. QED BY <1>4, <1>5, <1>6, Zenon

LEMMA AddHashDeduped ==
  ASSUME Typed, Deduped, NEW p \in Proc, AddHash(p), Observe
  PROVE  Deduped'
<1>. DEFINE g == cur[p].hash
<1>1. /\ pc[p] = "add" /\ pc[p] \notin Outside /\ cur[p] # Nothing /\ g # NoHash
      /\ cache' = cache \cup {g} /\ UNCHANGED <<had, sent, open>>
  BY DEF AddHash, Outside, Typed, TypeOK, Control
<1>2. /\ Others(p)
      /\ had[p] => pc'[p] \notin {"add", "effect", "write"}
      /\ ~had[p] => pc'[p] = "effect" /\ cur'[p].hash = g
  <2>1. CASE had[p] /\ Return(p)
    BY <1>1, <2>1, ReturnStep
  <2>2. CASE ~had[p] /\ Goto(p, "effect")
    BY <2>2, GotoStep DEF Place, LoopPlace
  <2>. QED BY <2>1, <2>2 DEF AddHash
<1>. SUFFICES ASSUME NEW h \in Hash \ raced'
              PROVE
    /\ sent[h] <= 1 /\ (sent[h] > 0 => h \in cache')
    /\ \A q \in Proc : pc'[q] \in {"effect", "write"} /\ cur'[q].hash = h => h \in cache' /\ sent[h] = 0
    /\ \A q \in Proc : pc'[q] = "add" /\ cur'[q].hash = h => (had[q] <=> h \in cache')
    /\ open /\ h \in cache' =>
         sent[h] > 0 \/ \E q \in Proc : pc'[q] \in {"effect", "write"} /\ cur'[q].hash = h
  BY <1>1 DEF Deduped
<1>3. h \in Hash \ raced /\ h # NoHash /\ sent[h] \in Nat
  BY DispatchAssumption DEF Observe, Typed, TypeOK
<1>4. \A q \in Proc : q # p => pc'[q] = pc[q] /\ cur'[q] = cur[q]
  BY <1>2 DEF Others
<1>5. CASE h = g
  <2>1. \A q \in Proc : q # p => ~Concerns(q, h)
    BY <1>1, <1>5, Alone DEF Concerns
  <2>2. \A q \in Proc : q # p /\ pc[q] \in {"add", "effect", "write"} => cur[q].hash # h
    BY <2>1 DEF Concerns, Typed, TypeOK
  <2>3. had[p] => h \in cache /\ (open => sent[h] > 0)
    <3>1. had[p] => h \in cache
      BY <1>1, <1>3, <1>5 DEF Deduped
    <3>2. \A q \in Proc : pc[q] \in {"effect", "write"} => cur[q].hash # h
      BY <1>1, <2>2
    <3>3. open /\ h \in cache => sent[h] > 0
      BY <1>3, <3>2 DEF Deduped
    <3>. QED BY <3>1, <3>3
  <2>4. ~had[p] => h \notin cache /\ sent[h] = 0
    BY <1>1, <1>3, <1>5 DEF Deduped
  <2>. QED BY <1>1, <1>2, <1>3, <1>4, <1>5, <2>2, <2>3, <2>4 DEF Deduped
<1>6. CASE h # g
  <2>1. h \in cache' <=> h \in cache
    BY <1>1, <1>6
  <2>2. pc'[p] \in {"add", "effect", "write"} => cur'[p].hash # h
    BY <1>2, <1>6
  <2>. QED BY <1>1, <1>3, <1>4, <1>6, <2>1, <2>2 DEF Deduped
<1>. QED BY <1>5, <1>6

LEMMA WriteDeduped ==
  ASSUME Typed, Deduped, NEW p \in Proc, Write(p), Observe
  PROVE  Deduped'
<1>. DEFINE g == cur[p].hash
<1>1. /\ pc[p] = "write" /\ pc[p] \notin Outside /\ cur[p] # Nothing /\ UNCHANGED <<had, cache, open>>
      /\ sent \in [Hash -> Nat]
  BY DEF Write, Outside, Typed, TypeOK
<1>2. Others(p) /\ pc'[p] \notin {"add", "effect", "write"}
  BY <1>1, ReturnStep DEF Write
<1>3. CASE ~open \/ g = NoHash
  <2>1. UNCHANGED sent /\ Steady(p)
    BY <1>1, <1>2, <1>3 DEF Write, Steady
  <2>. QED BY <1>1, <1>2, <2>1, SteadyOthers, SteadyInv
<1>4. CASE open /\ g # NoHash
  <2>1. sent' = [sent EXCEPT ![g] = @ + 1]
    BY <1>4 DEF Write
  <2>. SUFFICES ASSUME NEW h \in Hash \ raced'
                PROVE
      /\ sent'[h] <= 1 /\ (sent'[h] > 0 => h \in cache)
      /\ \A q \in Proc : pc'[q] \in {"effect", "write"} /\ cur'[q].hash = h => h \in cache /\ sent'[h] = 0
      /\ \A q \in Proc : pc'[q] = "add" /\ cur'[q].hash = h => (had[q] <=> h \in cache)
      /\ open /\ h \in cache =>
           sent'[h] > 0 \/ \E q \in Proc : pc'[q] \in {"effect", "write"} /\ cur'[q].hash = h
    BY <1>1 DEF Deduped
  <2>2. h \in Hash \ raced /\ sent[h] \in Nat
    BY <1>1 DEF Observe
  <2>3. \A q \in Proc : q # p => pc'[q] = pc[q] /\ cur'[q] = cur[q]
    BY <1>2 DEF Others
  <2>4. CASE h = g
    <3>1. \A q \in Proc : q # p => ~Concerns(q, h)
      BY <1>1, <2>4, Alone DEF Concerns
    <3>2. \A q \in Proc : q # p /\ pc[q] \in {"add", "effect", "write"} => cur[q].hash # h
      BY <3>1 DEF Concerns, Typed, TypeOK
    <3>3. h \in cache /\ sent'[h] = 1
      BY <1>1, <2>1, <2>2, <2>4 DEF Deduped
    <3>4. \A q \in Proc : ~(pc'[q] \in {"add", "effect", "write"} /\ cur'[q].hash = h)
      BY <1>2, <2>3, <3>2
    <3>. QED BY <3>3, <3>4
  <2>5. CASE h # g
    <3>1. sent'[h] = sent[h]
      BY <1>1, <2>1, <2>5
    <3>2. \A q \in Proc : pc'[q] \in {"add", "effect", "write"} =>
            q # p /\ pc'[q] = pc[q] /\ cur'[q] = cur[q]
      BY <1>2, <2>3
    <3>3. \A q \in Proc : pc[q] \in {"effect", "write"} /\ cur[q].hash = h =>
            pc'[q] \in {"effect", "write"} /\ cur'[q].hash = h
      BY <2>3, <2>5
    <3>. QED BY <2>2, <3>1, <3>2, <3>3 DEF Deduped
  <2>. QED BY <2>4, <2>5
<1>. QED BY <1>3, <1>4

LEMMA ApplyEffectDeduped ==
  ASSUME Typed, Deduped, NEW p \in Proc, ApplyEffect(p), Observe
  PROVE  Deduped'
<1>. DEFINE e == Head(cur[p].effects)
<1>1. /\ Others(p) /\ UNCHANGED <<pc, had, open>> /\ pc[p] = "effect" /\ cur[p] \in Work
      /\ cur'[p].hash = cur[p].hash /\ e \in Effect /\ e \in Range(cur[p].effects)
  BY EffectStep DEF ApplyEffect
<1>2. CASE e.op \in {"add", "remove"}
  <2>1. UNCHANGED <<cache, sent>> /\ Steady(p)
    BY <1>1, <1>2 DEF ApplyEffect, Steady
  <2>. QED BY <1>1, <2>1, SteadyOthers, SteadyInv
<1>3. CASE e.op = "expire"
  <2>. DEFINE g == e.hash
  <2>1. g \in Hash /\ Expires(cur[p], g)
    BY <1>1, <1>3, EffectKinds DEF Expires
  <2>2. cache' = cache \ {g} /\ sent' = [sent EXCEPT ![g] = 0] /\ sent \in [Hash -> Nat]
    BY <1>3 DEF ApplyEffect, Typed, TypeOK
  <2>3. cur[p].hash # g /\ cur[p] # Nothing
    BY <1>1, <2>1, DispatchAssumption DEF Work, Typed, TypeOK
  <2>. SUFFICES ASSUME NEW h \in Hash \ raced'
                PROVE
      /\ sent'[h] <= 1 /\ (sent'[h] > 0 => h \in cache')
      /\ \A q \in Proc : pc[q] \in {"effect", "write"} /\ cur'[q].hash = h => h \in cache' /\ sent'[h] = 0
      /\ \A q \in Proc : pc[q] = "add" /\ cur'[q].hash = h => (had[q] <=> h \in cache')
      /\ open /\ h \in cache' =>
           sent'[h] > 0 \/ \E q \in Proc : pc[q] \in {"effect", "write"} /\ cur'[q].hash = h
    BY <1>1 DEF Deduped
  <2>4. h \in Hash \ raced /\ \A q \in Proc : cur'[q] = cur[q] \/ (q = p /\ cur'[q].hash = cur[q].hash)
    BY <1>1 DEF Observe, Others
  <2>5. CASE h = g
    <3>1. \A q \in Proc : q # p => ~Concerns(q, h)
      BY <2>1, <2>3, <2>5, Alone DEF Concerns
    <3>2. \A q \in Proc : pc[q] \in {"add", "effect", "write"} => cur'[q].hash # h
      BY <2>3, <2>4, <2>5, <3>1 DEF Concerns, Typed, TypeOK
    <3>3. h \notin cache' /\ sent'[h] = 0
      BY <2>2, <2>4, <2>5
    <3>. QED BY <3>2, <3>3
  <2>6. CASE h # g
    <3>1. (h \in cache' <=> h \in cache) /\ sent'[h] = sent[h]
      BY <2>2, <2>4, <2>6
    <3>2. \A q \in Proc : cur'[q].hash = cur[q].hash
      BY <2>4
    <3>. QED BY <2>4, <3>1, <3>2 DEF Deduped
  <2>. QED BY <2>5, <2>6
<1>. QED BY <1>1, <1>2, <1>3 DEF ApplyEffect

LEMMA DedupedInv == Typed /\ Deduped /\ [Next]_vars => Deduped'
<1>. SUFFICES ASSUME Typed, Deduped, [Next]_vars PROVE Deduped' OBVIOUS
<1>1. CASE Next
  <2>. Observe
    BY <1>1 DEF Next
  <2>1. ASSUME NEW p \in Proc, OnDispatch(p) PROVE Deduped'
    BY <2>1, FilterDeduped, HasHashDeduped, AddHashDeduped, ApplyEffectDeduped, EffectsDoneDeduped, WriteDeduped
       DEF OnDispatch
  <2>2. CASE Publish \/ \E id \in Id : Expire(id) \/ Cancelled(id)
    <3>1. UNCHANGED <<pc, cur, had, cache, sent, open>>
      BY <2>2 DEF Publish, Expire, Cancelled
    <3>2. \A p \in Proc : Steady(p)
      BY <3>1 DEF Steady
    <3>. QED BY <3>1, <3>2, SteadyInv
  <2>. QED BY <1>1, <2>1, <2>2, TakeDeduped, ReaderDeduped, AbortDeduped, EndDeduped DEF Next
<1>2. CASE UNCHANGED vars
  BY <1>2 DEF vars, dvars, Deduped
<1>. QED BY <1>1, <1>2

LEMMA DedupedHolds == Spec => [](Typed /\ Deduped)
<1>1. Init => Deduped
  BY DEF Init, Deduped
<1>. QED BY <1>1, InitType, TypeInv, DedupedInv, PTL DEF Spec

(* For any dispatches, publications and BRIDGE answers, a hash is written  *)
(* twice only if both goroutines were concerned with it at once            *)
(* (cache.go:23-29, handle.go:59-66).                                      *)
THEOREM DedupesOtherwise == Spec => []TwiceNeedsRace
<1>1. Typed /\ Deduped => TwiceNeedsRace
  BY DEF Typed, TypeOK, Deduped, TwiceNeedsRace
<1>. QED BY <1>1, DedupedHolds, PTL

(* And one that has not raced is in the cache only if the client has it or *)
(* is about to get it (handle.go:44-66, cache.go:23-33).                   *)
THEOREM HashesAreSent == Spec => []HashNotBurnt
<1>1. Typed /\ Deduped => HashNotBurnt
  <2>. SUFFICES ASSUME Typed, Deduped, open, NEW h \in cache \ raced
                PROVE  sent[h] > 0 \/ \E p \in Proc : pc[p] \in {"effect", "write"} /\ cur[p].hash = h
    BY DEF HashNotBurnt
  <2>. h \in Hash
    BY DEF Typed, TypeOK
  <2>. QED BY DEF Deduped
<1>. QED BY <1>1, DedupedHolds, PTL
-----------------------------------------------------------------------------
(* Unsubscribing.                                                          *)

(* What the client is rid of, or will be with the Ack, has no entry, but   *)
(* for the types that an expiry has touched.                               *)
Gone(K) == \A k \in K : k[1] \in aged \/ k[2] \notin Conds(k[1])

Absent ==
  /\ \A t \in Type \ aged : Distinct(t)
  /\ Gone(left) /\ (ack # Nothing => Gone(ack[2]))

(* A dispatch that p still writes though only ended subscriptions match.   *)
Stale(p) ==
  /\ pc[p] \in {"has", "add", "effect", "write"}
  /\ matches[p] # {} /\ matches[p] \subseteq left \ (aged \X Cond)

LateBudget ==
  ~Stale("reader") /\ late <= 1 /\ (Stale("loop") => late = 0)

Exact == \A c, d \in Cond : <<c, d>> \in Match => c = d

LEMMA SameEntries ==
  ASSUME UNCHANGED m, NEW t
  PROVE  Conds(t)' = Conds(t) /\ (Distinct(t) => Distinct(t)')
BY DEF Conds, Distinct, Entries

LEMMA FewerInv ==
  ASSUME Absent, aged \subseteq aged', \A t \in Type \ aged' : Distinct(t)',
         \A t : t \notin aged' => Conds(t)' \subseteq Conds(t), left' \subseteq left,
         ack' = ack \/ ack' = Nothing \/ (ack # Nothing /\ ack' # Nothing /\ ack'[2] \subseteq ack[2])
  PROVE  Absent'
<1>1. ASSUME NEW K, NEW L, Gone(K), L \subseteq K PROVE \A k \in L : k[1] \in aged' \/ k[2] \notin Conds(k[1])'
  BY <1>1 DEF Gone
<1>. QED BY <1>1 DEF Absent, Gone

LEMMA SubscribeAbsent ==
  ASSUME Typed, Absent, NEW t \in Type, NEW c \in Cond, NEW auto \in BOOLEAN, NEW ttl \in BOOLEAN,
         FreshId # {}, Subscribe(t, NewEntry(c, auto, ttl)), UNCHANGED aged,
         left' = left \ {<<t, c>>},
         \/ ack' = ack /\ ack = Nothing
         \/ ack' # Nothing /\ ack'[2] = {}
         \/ ack # Nothing /\ ack' # Nothing /\ ack'[2] = ack[2] \ {<<t, c>>}
  PROVE  Absent'
<1>. DEFINE e == NewEntry(c, auto, ttl)
<1>1. e \in Entry /\ e.cond = c /\ EventMapType
  BY NewEntryType DEF Typed, TypeOK
<1>. HIDE DEF e
<1>2. /\ \A u \in Type \ aged : Distinct(u)'
      /\ \A u \in Type : \A d : u \notin aged /\ d \in Conds(u)' => d \in Conds(u) \/ (u = t /\ d = c)
  <2>1. CASE IsNew(t, c)
    <3>1. Store(t, e)
      BY <2>1, <1>1 DEF Subscribe, e
    <3>. QED BY <1>1, <2>1, <3>1, StoreDistinct DEF Absent
  <2>2. CASE ~IsNew(t, c)
    <3>1. UNCHANGED m
      BY <2>2, <1>1 DEF Subscribe, e, emvars
    <3>. QED BY <3>1, SameEntries DEF Absent
  <2>. QED BY <2>1, <2>2
<1>3. \A k \in Key : k[1] \in Type /\ k = <<k[1], k[2]>>
  BY DEF Key
<1>4. left \subseteq Key /\ (ack # Nothing => ack[2] \subseteq Key)
  BY DEF Typed, TypeOK, Control
<1>5. ASSUME NEW K \in SUBSET Key, Gone(K) PROVE Gone(K \ {<<t, c>>})'
  BY <1>2, <1>3, <1>5 DEF Gone
<1>6. Gone({})' /\ Gone(left)'
  BY <1>4, <1>5 DEF Absent, Gone
<1>7. (ack # Nothing => Gone(ack[2]))'
  <2>1. CASE ack' # Nothing /\ ack'[2] = {}
    BY <1>6, <2>1
  <2>2. CASE ack # Nothing /\ ack' # Nothing /\ ack'[2] = ack[2] \ {<<t, c>>}
    BY <1>4, <1>5, <2>2 DEF Absent
  <2>. QED BY <2>1, <2>2
<1>. QED BY <1>2, <1>6, <1>7 DEF Absent

LEMMA ApplyEffectAbsent ==
  ASSUME Typed, Absent, NEW p \in Proc, ApplyEffect(p)
  PROVE  Absent'
<1>. DEFINE e == Head(cur[p].effects)
<1>1. e \in Effect
  BY EffectStep
<1>2. CASE e.op = "add"
  <2>1. e.key[1] \in Type /\ e.key[2] \in Cond /\ e.key = <<e.key[1], e.key[2]>>
    BY <1>1, <1>2, EffectKinds
  <2>2. /\ Subscribe(e.key[1], NewEntry(e.key[2], TRUE, e.ttl)) /\ FreshId # {}
        /\ left' = left \ {e.key} /\ UNCHANGED aged /\ e.ttl \in BOOLEAN
        /\ ack' = IF ack = Nothing THEN ack ELSE <<ack[1], ack[2] \ {e.key}>>
    BY <1>1, <1>2, EffectKinds DEF ApplyEffect
  <2>3. ack # Nothing => ack' # Nothing /\ ack'[2] = ack[2] \ {e.key}
    BY <2>2 DEF Nothing
  <2>. QED BY <2>1, <2>2, <2>3, SubscribeAbsent
<1>3. CASE e.op = "remove"
  <2>1. e.key[1] \in Type /\ e.key[2] \in Cond /\ Unsubscribe(e.key[1], e.key[2]) /\ UNCHANGED <<ack, left, aged>>
    BY <1>1, <1>3, EffectKinds DEF ApplyEffect
  <2>2. \A u : Distinct(u) => Distinct(u)' /\ Conds(u)' \subseteq Conds(u)
    BY <2>1, UnsubscribeDistinct DEF Typed, TypeOK
  <2>3. \A u : u \notin Type => Conds(u)' \subseteq Conds(u)
    <3>1. \A u : u # e.key[1] => Entries(u)' = Entries(u)
      BY <2>1, UnsubscribeStep DEF Typed, TypeOK
    <3>. QED BY <2>1, <3>1 DEF Conds, Entries
  <2>. QED BY <2>1, <2>2, <2>3, FewerInv DEF Absent
<1>4. CASE e.op = "expire"
  <2>1. UNCHANGED <<m, ack, left, aged>>
    BY <1>4 DEF ApplyEffect
  <2>. QED BY <2>1, SameEntries, FewerInv DEF Absent
<1>. QED BY <1>1, <1>2, <1>3, <1>4 DEF ApplyEffect

(* A TTL goroutine disturbs only the type it touches.                      *)
LEMMA TimerAbsent ==
  ASSUME Typed, Absent, NEW id \in Id, Expire(id) \/ Cancelled(id)
  PROVE  Absent'
<1>1. CASE UNCHANGED <<m, ack, left, aged>>
  BY <1>1, SameEntries, FewerInv DEF Absent
<1>2. CASE Expire(id)
  <2>1. /\ UnsubscribeWithID(id) /\ UNCHANGED <<ack, left>>
        /\ aged' = aged \cup {t \in DOMAIN m : id \in IdsOf(t)}
    BY <1>2 DEF Expire
  <2>2. \A t : t \notin aged' => Entries(t)' = Entries(t)
    BY <2>1, UnsubscribeWithIDStep DEF Typed, TypeOK, Entries
  <2>3. \A t : t \notin aged' => Conds(t)' = Conds(t) /\ (Distinct(t) => Distinct(t)')
    BY <2>2 DEF Conds, Distinct, Entries
  <2>. QED BY <2>1, <2>3, FewerInv DEF Absent
<1>. QED BY <1>1, <1>2 DEF Cancelled

LEMMA ClientAbsent ==
  ASSUME Exact, Typed, Absent, NEW t \in Type, NEW c \in Cond,
         ClientSubscribe(t, c) \/ ClientUnsubscribe(t, c)
  PROVE  Absent'
<1>0. UNCHANGED aged
  BY DEF ClientSubscribe, ClientUnsubscribe, Answer
<1>1. CASE ClientSubscribe(t, c)
  <2>1. /\ Subscribe(t, NewEntry(c, FALSE, FALSE)) /\ FreshId # {} /\ NewEntry(c, FALSE, FALSE).cond = c
        /\ left' = left \ {<<t, c>>} /\ Answer(~IsAlreadySubscribed(t, c), "subscribe", {})
    BY <1>1, NewEntryType DEF ClientSubscribe
  <2>2. CASE IsAlreadySubscribed(t, c)
    <3>1. UNCHANGED m /\ UNCHANGED ack
      BY <2>1, <2>2 DEF Subscribe, IsAlreadySubscribed, Answer
    <3>. QED BY <1>0, <2>1, <3>1, SameEntries, FewerInv DEF Absent
  <2>3. CASE ~IsAlreadySubscribed(t, c)
    <3>1. ack' = <<"subscribe", {}>>
      BY <2>1, <2>3 DEF Answer
    <3>2. ack' # Nothing /\ ack'[2] = {}
      BY <3>1 DEF Nothing
    <3>. QED BY <1>0, <2>1, <3>2, SubscribeAbsent
  <2>. QED BY <2>2, <2>3
<1>2. CASE ClientUnsubscribe(t, c)
  <2>. DEFINE ended == {k \in {t} \X Cond : c \in {k[2], NoCond}}
  <2>1. Unsubscribe(t, c) /\ UNCHANGED left /\ Answer(IsSubscribed(t, c), "unsubscribe", ended)
    BY <1>2 DEF ClientUnsubscribe
  <2>2. CASE ~IsSubscribed(t, c)
    <3>1. UNCHANGED m /\ UNCHANGED ack
      BY <2>1, <2>2 DEF Unsubscribe, Answer
    <3>. QED BY <1>0, <2>1, <3>1, SameEntries, FewerInv DEF Absent
  <2>3. CASE IsSubscribed(t, c)
    <3>1. ack' = <<"unsubscribe", ended>>
      BY <2>1, <2>3 DEF Answer
    <3>2. ack' # Nothing /\ ack'[2] = ended
      BY <3>1 DEF Nothing
    <3>3. \A u \in Type \ aged : Distinct(u)' /\ Conds(u)' \subseteq Conds(u)
      BY <2>1, UnsubscribeDistinct DEF Typed, TypeOK, Absent
    <3>4. \A k \in ended : k[1] = t /\ (t \in aged \/ k[2] \notin Conds(t)')
      <4>1. CASE t \notin aged
        <5>1. /\ Distinct(t)
              /\ \/ c = NoCond /\ Conds(t)' = {}
                 \/ c # NoCond /\ \E d \in Cond : <<d, c>> \in Match /\ d \notin Conds(t)'
          BY <2>1, <2>3, <4>1, UnsubscribeDistinct DEF Typed, TypeOK, Absent
        <5>. QED BY <5>1 DEF Exact
      <4>2. CASE t \in aged
        BY <4>2
      <4>. QED BY <4>1, <4>2
    <3>5. \A k \in left : k[1] \in Type
      BY DEF Typed, TypeOK, Key
    <3>6. Gone(ended)' /\ Gone(left)'
      BY <1>0, <2>1, <3>3, <3>4, <3>5 DEF Absent, Gone
    <3>. QED BY <1>0, <3>2, <3>3, <3>6 DEF Absent
  <2>. QED BY <2>2, <2>3
<1>. QED BY <1>1, <1>2

LEMMA DestroyAbsent ==
  ASSUME Typed, Absent, Destroy, UNCHANGED <<left, ack, aged>>
  PROVE  Absent'
<1>1. CASE UNCHANGED m
  BY <1>1, SameEntries, FewerInv DEF Absent
<1>2. CASE \A u : Entries(u)' = <<>>
  <2>1. \A u : Conds(u)' = {} /\ Distinct(u)'
    BY <1>2 DEF Conds, Distinct, Entries
  <2>. QED BY <2>1 DEF Absent, Gone
<1>. QED BY <1>1, <1>2, DestroyStep DEF Typed, TypeOK

LEMMA AbsentInv == Exact /\ Typed /\ Absent /\ [Next]_vars => Absent'
<1>. SUFFICES ASSUME Exact, Typed, Absent, [Next]_vars PROVE Absent' OBVIOUS
<1>1. ASSUME UNCHANGED <<m, ack, left, aged>> PROVE Absent'
  BY <1>1, SameEntries, FewerInv DEF Absent
<1>2. ASSUME NEW p \in Proc, OnDispatch(p) PROVE Absent'
  <2>1. CASE ApplyEffect(p)
    BY <2>1, ApplyEffectAbsent
  <2>2. CASE Filter(p) \/ HasHash(p) \/ AddHash(p) \/ EffectsDone(p) \/ Write(p)
    <3>1. UNCHANGED <<m, ack, left, aged>>
      BY <2>2 DEF Filter, HasHash, AddHash, EffectsDone, Write
    <3>. QED BY <1>1, <3>1
  <2>. QED BY <1>2, <2>1, <2>2 DEF OnDispatch
<1>3. CASE Commands
  <2>1. CASE SendAck
    <3>1. ack' = Nothing /\ UNCHANGED <<m, aged>> /\ \A k \in left' : k \in left \/ k \in ack[2]
      BY <2>1 DEF SendAck
    <3>2. ack # Nothing
      BY <2>1 DEF SendAck, Typed, Control
    <3>. QED BY <3>1, <3>2, SameEntries DEF Absent, Gone
  <2>2. CASE SendClose \/ BridgePost \/ BridgeAnswer
    <3>1. UNCHANGED <<m, ack, left, aged>>
      BY <2>2 DEF SendClose, BridgePost, BridgeAnswer
    <3>. QED BY <1>1, <3>1
  <2>. QED BY <1>3, <2>1, <2>2, ClientAbsent DEF Commands
<1>4. CASE Publish \/ Take \/ UNCHANGED vars
  <2>1. UNCHANGED <<m, ack, left, aged>>
    BY <1>4 DEF Publish, Take, vars, dvars
  <2>. QED BY <1>1, <2>1
<1>5. CASE Abort
  BY <1>5, DestroyAbsent DEF Abort
<1>6. ASSUME NEW p \in Proc, End(p) PROVE Absent'
  BY <1>6, DestroyAbsent DEF End
<1>7. ASSUME NEW id \in Id, Expire(id) \/ Cancelled(id) PROVE Absent'
  BY <1>7, TimerAbsent
<1>. QED BY <1>2, <1>3, <1>4, <1>5, <1>6, <1>7 DEF Next
-----------------------------------------------------------------------------
(* Steps that add nothing stale and write nothing late.                    *)
LEMMA BudgetKept ==
  ASSUME LateBudget, UNCHANGED late, \A p \in Proc : Stale(p)' => Stale(p)
  PROVE  LateBudget'
BY DEF LateBudget, Proc

LEMMA StaleKept ==
  ASSUME NEW p \in Proc, UNCHANGED matches, left' \subseteq left, aged \subseteq aged',
         pc'[p] \in {"has", "add", "effect", "write"} => pc[p] \in {"has", "add", "effect", "write"}
  PROVE  Stale(p)' => Stale(p)
BY DEF Stale

LEMMA FilterBudget ==
  ASSUME Typed, Absent, LateBudget, NEW p \in Proc, Filter(p)
  PROVE  LateBudget'
<1>1. UNCHANGED <<left, late, aged>> /\ pc[p] \notin Outside
  BY DEF Filter, Outside
<1>2. Others(p)
  BY <1>1, ReturnStep, GotoStep DEF Filter, Place, LoopPlace
<1>3. /\ matches'[p] \in {MatchedBy(cur[p]), {}}
      /\ \A q \in Proc : q # p => matches'[q] = matches[q]
  BY DEF Filter, Typed, TypeOK
<1>4. \A k \in MatchedBy(cur[p]) : k \notin left \ (aged \X Cond)
  BY DEF MatchedBy, Get, Absent, Gone
<1>5. ~Stale(p)'
  BY <1>1, <1>3, <1>4 DEF Stale
<1>6. \A q \in Proc : Stale(q)' => Stale(q)
  BY <1>1, <1>2, <1>3, <1>5 DEF Stale, Others
<1>. QED BY <1>1, <1>6, BudgetKept

LEMMA WriteBudget ==
  ASSUME Typed, LateBudget, NEW p \in Proc, Write(p)
  PROVE  LateBudget'
<1>1. pc[p] = "write" /\ pc[p] \notin Outside /\ UNCHANGED <<matches, left, aged>> /\ late \in Nat
  BY DEF Write, Outside, Typed, TypeOK
<1>2. Others(p) /\ pc'[p] \notin {"has", "add", "effect", "write"}
  BY <1>1, ReturnStep DEF Write
<1>3. \A q \in Proc : Stale(q)' => q # p /\ Stale(q)
  BY <1>1, <1>2 DEF Stale, Others
<1>4. late' = late \/ (late' = late + 1 /\ Stale(p))
  BY <1>1 DEF Write, Stale
<1>5. CASE late' = late
  BY <1>3, <1>5, BudgetKept
<1>6. CASE late' = late + 1 /\ Stale(p)
  <2>1. p = "loop" /\ late = 0
    BY <1>6 DEF LateBudget, Proc
  <2>2. ~Stale("loop")' /\ ~Stale("reader")'
    BY <1>3, <2>1 DEF LateBudget, Proc
  <2>. QED BY <1>6, <2>1, <2>2 DEF LateBudget
<1>. QED BY <1>4, <1>5, <1>6

LEMMA SendAckBudget ==
  ASSUME Typed, LateBudget, SendAck
  PROVE  LateBudget'
<1>1. pc' = [pc EXCEPT !["reader"] = "read"] /\ UNCHANGED <<matches, aged>>
  BY DEF SendAck
<1>2. pc'["reader"] = "read" /\ pc'["loop"] = pc["loop"]
  BY <1>1 DEF Typed, Control, Proc
<1>3. ~Stale("reader")'
  BY <1>2 DEF Stale
<1>4. CASE late' = 0
  BY <1>3, <1>4 DEF LateBudget
<1>5. CASE UNCHANGED <<left, late>>
  BY <1>1, <1>2, <1>3, <1>5, BudgetKept DEF Stale, Proc
<1>. QED BY <1>4, <1>5 DEF SendAck

LEMMA BudgetInv == Typed /\ Absent /\ LateBudget /\ [Next]_vars => LateBudget'
<1>. SUFFICES ASSUME Typed, Absent, LateBudget, [Next]_vars PROVE LateBudget' OBVIOUS
<1>1. ASSUME UNCHANGED <<matches, late>>, left' \subseteq left, aged \subseteq aged',
             \A p \in Proc : pc'[p] \in {"has", "add", "effect", "write"} =>
                              pc[p] \in {"has", "add", "effect", "write"}
      PROVE  LateBudget'
  BY <1>1, StaleKept, BudgetKept
<1>2. ASSUME NEW p \in Proc, OnDispatch(p) PROVE LateBudget'
  <2>1. CASE HasHash(p) \/ AddHash(p) \/ EffectsDone(p)
    <3>1. UNCHANGED <<matches, late, left, aged>> /\ pc[p] \in {"has", "add", "effect"}
      BY <2>1 DEF HasHash, AddHash, EffectsDone
    <3>2. Others(p)
      <4>1. pc[p] \notin Outside
        BY <3>1 DEF Outside
      <4>2. Return(p) \/ Goto(p, "add") \/ Goto(p, "effect") \/ Goto(p, "write")
        BY <2>1 DEF HasHash, AddHash, EffectsDone
      <4>. QED BY <4>1, <4>2, ReturnStep, GotoStep DEF Place, LoopPlace
    <3>3. \A q \in Proc : q # p => pc'[q] = pc[q]
      BY <3>2, Zenon DEF Others
    <3>. QED BY <1>1, <3>1, <3>3
  <2>2. CASE ApplyEffect(p)
    <3>1. UNCHANGED <<pc, matches, late, aged>> /\ left' \subseteq left
      BY <2>2 DEF ApplyEffect
    <3>. QED BY <1>1, <3>1
  <2>. QED BY <1>2, <2>1, <2>2, FilterBudget, WriteBudget DEF OnDispatch
<1>3. CASE Commands
  <2>1. CASE SendAck
    BY <2>1, SendAckBudget
  <2>2. ASSUME NEW t \in Type, NEW c \in Cond, ClientSubscribe(t, c) \/ ClientUnsubscribe(t, c)
        PROVE  LateBudget'
    <3>1. UNCHANGED <<matches, late, aged>> /\ left' \subseteq left
      BY <2>2 DEF ClientSubscribe, ClientUnsubscribe, Answer
    <3>2. pc' = [pc EXCEPT !["reader"] = "close"] \/ pc' = [pc EXCEPT !["reader"] = "ack"]
      BY <2>2 DEF ClientSubscribe, ClientUnsubscribe, Answer
    <3>3. pc \in [Proc -> Place] /\ "reader" \in Proc
      BY DEF Typed, Control, Proc
    <3>. QED BY <1>1, <3>1, <3>2, <3>3
  <2>3. CASE SendClose \/ BridgePost \/ BridgeAnswer
    <3>1. UNCHANGED <<matches, late, left, aged>>
      BY <2>3 DEF SendClose, BridgePost, BridgeAnswer
    <3>2. \E l \in {"post", "read", "filter"} : pc' = [pc EXCEPT !["reader"] = l]
      BY <2>3 DEF SendClose, BridgePost, BridgeAnswer, Goto
    <3>3. pc \in [Proc -> Place] /\ "reader" \in Proc
      BY DEF Typed, Control, Proc
    <3>. QED BY <1>1, <3>1, <3>2, <3>3
  <2>. QED BY <1>3, <2>1, <2>2, <2>3 DEF Commands
<1>4. CASE Publish \/ UNCHANGED vars
  <2>1. UNCHANGED <<matches, late, left, aged, pc>>
    BY <1>4 DEF Publish, vars, dvars
  <2>. QED BY <1>1, <2>1
<1>5. CASE Take \/ Abort \/ \E p \in Proc : End(p)
  <2>1. UNCHANGED <<matches, late, left, aged>>
    BY <1>5 DEF Take, Abort, End
  <2>2. \A p \in Proc : pc'[p] \in {"has", "add", "effect", "write"} => pc'[p] = pc[p]
    BY <1>5 DEF Take, Abort, End, Typed, Control, Proc
  <2>. QED BY <1>1, <2>1, <2>2
<1>6. ASSUME NEW id \in Id, Expire(id) \/ Cancelled(id) PROVE LateBudget'
  <2>1. UNCHANGED <<matches, late, left, pc>> /\ aged \subseteq aged'
    BY <1>6 DEF Expire, Cancelled
  <2>. QED BY <1>1, <2>1
<1>. QED BY <1>2, <1>3, <1>4, <1>5, <1>6 DEF Next

(* If a condition matches only itself, an Ack of UNSUBSCRIBE is followed   *)
(* by at most one dispatch that only the ended subscription had matched,   *)
(* whatever effects, BRIDGE and further commands do meanwhile, and         *)
(* whatever expires: the dispatches of an event type that an expiry has    *)
(* touched are not counted, for an Unsubscribe may leave one of the two    *)
(* copies there (handle.go:44-54, 81-99, 254-279, connection.go:217-219).  *)
THEOREM UnsubscribesEnd ==
  ASSUME Exact
  PROVE  Spec => []LateAtMostOne
<1>1. Init => Absent /\ LateBudget
  <2>. SUFFICES ASSUME Init PROVE Absent /\ LateBudget OBVIOUS
  <2>. DEFINE e == [id |-> CHOOSE i \in Id : TRUE, cond |-> WhisperKey[2], auto |-> TRUE, ttl |-> FALSE]
  <2>1. m = Put(EmptyMap, WhisperKey[1], <<e>>)
    BY DEF Init
  <2>. HIDE DEF e
  <2>2. \A t : Entries(t) = IF t = WhisperKey[1] THEN <<e>> ELSE Lookup(EmptyMap, t)
    BY <2>1 DEF Entries, Lookup, Put, EmptyMap
  <2>3. \A t : Entries(t) \in {<<e>>, <<>>}
    BY <2>2 DEF EmptyMap, Lookup
  <2>4. \A t : Distinct(t)
    BY <2>3 DEF Distinct
  <2>5. left = {} /\ ack = Nothing /\ late = 0 /\ pc["reader"] = "read" /\ pc["loop"] = "select"
    BY DEF Init, Nothing, Proc
  <2>. QED BY <2>4, <2>5 DEF Absent, Gone, LateBudget, Stale
<1>2. LateBudget => LateAtMostOne
  BY DEF LateBudget, LateAtMostOne
<1>3. Typed /\ Absent /\ LateBudget /\ [Next]_vars => (Typed /\ Absent /\ LateBudget)'
  BY TypeInv, AbsentInv, BudgetInv
<1>. QED BY <1>1, <1>2, <1>3, InitType, PTL DEF Spec
-----------------------------------------------------------------------------
(* What the registry sees.                                                 *)
Fan == [N!Next]_<<{Self} \X joined, Ch>>

LEMMA FanQuiet == UNCHANGED <<joined, Ch>> => Fan
BY DEF Fan

LEMMA FanJoin ==
  ASSUME NEW k \in Key, joined' = joined \cup {k}, UNCHANGED Ch
  PROVE  Fan
<1>1. ({Self} \X joined)' = ({Self} \X joined) \cup {<<Self, k>>}
  OBVIOUS
<1>2. N!Join(Self, k)
  BY <1>1, Zenon DEF N!Join
<1>. QED BY <1>2 DEF Fan, N!Next

LEMMA FanLeave ==
  ASSUME NEW k \in Key, joined' = joined \ {k}, UNCHANGED Ch
  PROVE  Fan
<1>1. ({Self} \X joined)' = ({Self} \X joined) \ {<<Self, k>>}
  OBVIOUS
<1>2. N!Leave(Self, k)
  BY <1>1, Zenon DEF N!Leave
<1>. QED BY <1>2 DEF Fan, N!Next

LEMMA FanSubscribe ==
  ASSUME EventMapType, NEW t \in Type, NEW e \in Entry, Subscribe(t, e), UNCHANGED Ch
  PROVE  Fan
<1>1. CASE Store(t, e)
  <2>1. joined' = joined \cup {<<t, e.cond>>} /\ <<t, e.cond>> \in Key
    BY <1>1, StoreStep DEF Key, Entry
  <2>. QED BY <2>1, FanJoin
<1>2. CASE UNCHANGED joined
  BY <1>2, FanQuiet
<1>. QED BY <1>1, <1>2 DEF Subscribe

LEMMA FanUnsubscribe ==
  ASSUME EventMapType, NEW t \in Type, NEW c \in Cond, Unsubscribe(t, c), UNCHANGED Ch
  PROVE  Fan
<1>1. CASE UNCHANGED joined
  BY <1>1, FanQuiet
<1>2. CASE \E d \in Cond : joined' = joined \ {<<t, d>>}
  <2>1. \A d \in Cond : <<t, d>> \in Key
    BY DEF Key
  <2>. QED BY <1>2, <2>1, FanLeave
<1>3. c # NoCond /\ IsSubscribed(t, c) =>
        \E d \in Cond : joined' = joined \ {<<t, d>>}
  <2>. SUFFICES ASSUME c # NoCond, IsSubscribed(t, c)
                PROVE  \E d \in Cond : joined' = joined \ {<<t, d>>}
    OBVIOUS
  <2>. DEFINE i == FirstMatch(t, c)
  <2>1. ~IsNew(t, c) /\ joined' = joined \ {<<t, Entries(t)[i].cond>>}
    BY UnsubscribeStep
  <2>2. i \in DOMAIN Entries(t) /\ Entries(t) \in Seq(Entry)
    BY <2>1, FirstMatchProperties, EntriesType
  <2>. HIDE DEF i
  <2>3. Entries(t)[i] \in Entry
    BY <2>2
  <2>. QED BY <2>1, <2>3 DEF Entry
<1>. QED BY <1>1, <1>2, <1>3, UnsubscribeStep

LEMMA FanExpire ==
  ASSUME EventMapType, NEW id, UnsubscribeWithID(id), UNCHANGED Ch
  PROVE  Fan
<1>1. CASE UNCHANGED joined
  BY <1>1, FanQuiet
<1>2. ASSUME NEW t \in DOMAIN m, NEW i \in DOMAIN Entries(t), joined' = joined \ {<<t, Entries(t)[i].cond>>}
      PROVE  Fan
  <2>1. t \in Type /\ Entries(t)[i] \in Entry
    BY <1>2, EntriesType DEF EventMapType, IsMap
  <2>2. <<t, Entries(t)[i].cond>> \in Key
    BY <2>1 DEF Key, Entry
  <2>. QED BY <1>2, <2>2, FanLeave
<1>. QED BY <1>1, <1>2, UnsubscribeWithIDStep

LEMMA FanDestroy ==
  ASSUME EventMapType, Destroy, UNCHANGED Ch
  PROVE  Fan
<1>1. CASE UNCHANGED joined
  BY <1>1, FanQuiet
<1>2. CASE joined' = {}
  <2>1. ({Self} \X joined)' = ({Self} \X joined) \ ({Self} \X Key)
    BY <1>2 DEF EventMapType
  <2>2. N!LeaveAll(Self)
    BY <2>1, Zenon DEF N!LeaveAll
  <2>. QED BY <2>2 DEF Fan, N!Next
<1>. QED BY <1>1, <1>2, DestroyStep

LEMMA FanPublish == Publish => Fan
<1>. SUFFICES ASSUME Publish PROVE Fan OBVIOUS
<1>1. \A d \in Msg : KeysOf(d) \subseteq Key
  <2>. SUFFICES ASSUME NEW d \in Msg PROVE KeysOf(d) \subseteq Key OBVIOUS
  <2>1. d.type \in Type /\ Wild[d.type] \in Type /\ d.conds \subseteq Cond
    BY MsgAssumption, WildAssumption DEF MsgType
  <2>. QED BY <2>1, DispatchAssumption DEF KeysOf, Key
<1>2. \E k \in Key, d \in Msg \cup {Garbage} : N!Publish(k, d)
  BY <1>1 DEF Publish
<1>. QED BY <1>2, Zenon DEF Fan, N!Next

LEMMA FanSteps == Typed /\ [Next]_vars => Fan
<1>. SUFFICES ASSUME Typed, [Next]_vars PROVE Fan OBVIOUS
<1>0. EventMapType
  BY DEF Typed, TypeOK
<1>1. CASE Take
  <2>1. N!Take(Self)
    BY <1>1 DEF Take
  <2>. QED BY <2>1 DEF Fan, N!Next
<1>2. ASSUME NEW p \in Proc, OnDispatch(p) PROVE Fan
  <2>1. CASE ApplyEffect(p)
    <3>. DEFINE e == Head(cur[p].effects)
    <3>1. e \in Effect /\ UNCHANGED Ch
      BY <2>1, EffectStep DEF ApplyEffect
    <3>2. CASE e.op = "add"
      <4>1. Subscribe(e.key[1], NewEntry(e.key[2], TRUE, e.ttl)) /\ FreshId # {}
        BY <2>1, <3>2 DEF ApplyEffect
      <4>. QED BY <1>0, <3>1, <3>2, <4>1, NewEntryType, EffectKinds, FanSubscribe
    <3>3. CASE e.op = "remove"
      <4>1. Unsubscribe(e.key[1], e.key[2])
        BY <2>1, <3>3 DEF ApplyEffect
      <4>. QED BY <1>0, <3>1, <3>3, <4>1, EffectKinds, FanUnsubscribe
    <3>4. CASE e.op = "expire"
      BY <2>1, <3>1, <3>4, FanQuiet DEF ApplyEffect
    <3>. QED BY <3>1, <3>2, <3>3, <3>4 DEF Effect
  <2>2. CASE Filter(p) \/ HasHash(p) \/ AddHash(p) \/ EffectsDone(p) \/ Write(p)
    BY <2>2, FanQuiet DEF Filter, HasHash, AddHash, EffectsDone, Write
  <2>. QED BY <1>2, <2>1, <2>2 DEF OnDispatch
<1>3. CASE Commands
  <2>1. ASSUME NEW t \in Type, NEW c \in Cond, ClientSubscribe(t, c) PROVE Fan
    <3>1. Subscribe(t, NewEntry(c, FALSE, FALSE)) /\ FreshId # {} /\ UNCHANGED Ch
      BY <2>1 DEF ClientSubscribe, Answer
    <3>. QED BY <1>0, <3>1, NewEntryType, FanSubscribe
  <2>2. ASSUME NEW t \in Type, NEW c \in Cond, ClientUnsubscribe(t, c) PROVE Fan
    BY <1>0, <2>2, FanUnsubscribe DEF ClientUnsubscribe, Answer
  <2>3. CASE SendAck \/ SendClose \/ BridgePost \/ BridgeAnswer
    BY <2>3, FanQuiet DEF SendAck, SendClose, BridgePost, BridgeAnswer
  <2>. QED BY <1>3, <2>1, <2>2, <2>3 DEF Commands
<1>4. CASE UNCHANGED vars
  BY <1>4, FanQuiet DEF vars, dvars
<1>5. CASE Abort \/ \E p \in Proc : End(p)
  BY <1>0, <1>5, FanDestroy DEF Abort, End
<1>6. ASSUME NEW id \in Id, Expire(id) \/ Cancelled(id) PROVE Fan
  <2>1. CASE Cancelled(id)
    BY <2>1, FanQuiet DEF Cancelled
  <2>2. CASE Expire(id)
    BY <1>0, <2>2, FanExpire DEF Expire
  <2>. QED BY <1>6, <2>1, <2>2
<1>. QED BY <1>1, <1>2, <1>3, <1>4, <1>5, <1>6, FanPublish DEF Next

(* Whatever the loop and the reader do, one connection is to the registry  *)
(* a session that joins and leaves keys one at a time, or all of them at   *)
(* its end, and takes its messages in order (connection.go:148, 184, 281,  *)
(* websocket_read.go:156-175).                                             *)
THEOREM StepsOfFanout == Spec => FanoutSteps
<1>1. Typed /\ [Next]_vars => [N!Next]_<<{Self} \X joined, Ch>>
  BY FanSteps DEF Fan
<1>. QED BY <1>1, TypeInv, InitType, PTL DEF Spec, FanoutSteps
=============================================================================
