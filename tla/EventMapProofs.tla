--------------------------- MODULE EventMapProofs ---------------------------
(***************************************************************************)
(* What the operations of EventMap do to a type's entries, proved for any  *)
(* set of types, conditions and IDs and any reflexive Match.  A type that  *)
(* is not in the map is read as one without entries.                       *)
(***************************************************************************)
EXTENDS EventMap, WellFoundedInduction, TLAPS

LEMMA MinProperties ==
  ASSUME NEW S, S \subseteq Nat, S # {}
  PROVE  Min(S) \in S /\ \A y \in S : Min(S) <= y
<1>. DEFINE Less == {ss \in Nat \X Nat : ss[1] < ss[2]}
<1>1. IsWellFoundedOn(Less, Nat)
  <2>1. OpToRel(<, Nat) = Less
    BY Zenon DEF OpToRel
  <2>. QED BY <2>1, NatLessThanWellFounded, Zenon
<1>2. PICK x \in S : \A y \in S : ~(<<y, x>> \in Less)
  BY <1>1, WFMin
<1>3. ASSUME NEW y \in S PROVE x <= y
  <2>1. x \in Nat /\ y \in Nat
    OBVIOUS
  <2>2. <<y, x>> \in Nat \X Nat /\ <<y, x>>[1] = y /\ <<y, x>>[2] = x
    BY <2>1
  <2>3. ~(y < x)
    BY <1>2, <2>2
  <2>. QED BY <2>1, <2>3
<1>. QED BY <1>3 DEF Min
-----------------------------------------------------------------------------
Entries(t) == Lookup(m, t)

LEMMA EntriesType ==
  ASSUME EventMapType, NEW t
  PROVE  Entries(t) \in Seq(Entry)
BY DEF EventMapType, Entries, IsMap, Lookup

(* Storing and deleting a type's slice, as its entries show it.            *)
LEMMA PutEntries ==
  ASSUME EventMapType, NEW t \in Type, NEW q \in Seq(Entry), m' = Put(m, t, q)
  PROVE  /\ IsMap(m, Type, Seq(Entry))'
         /\ \A u : Entries(u)' = IF u = t THEN q ELSE Entries(u)
BY DEF EventMapType, IsMap, Put, Entries, Lookup

LEMMA DeleteEntries ==
  ASSUME EventMapType, NEW t, m' = Delete(m, t)
  PROVE  /\ IsMap(m, Type, Seq(Entry))'
         /\ \A u : Entries(u)' = IF u = t THEN <<>> ELSE Entries(u)
BY DEF EventMapType, IsMap, Delete, Restrict, Entries, Lookup

LEMMA FirstMatchProperties ==
  ASSUME EventMapType, NEW t, NEW c, ~IsNew(t, c)
  PROVE  /\ t \in DOMAIN m /\ m[t] = Entries(t)
         /\ FirstMatch(t, c) \in DOMAIN Entries(t)
         /\ <<Entries(t)[FirstMatch(t, c)].cond, c>> \in Match
<1>1. Matching(t, c) # {} /\ Matching(t, c) \subseteq Nat
  <2>1. DOMAIN Entries(t) \subseteq Nat
    BY EntriesType
  <2>. QED BY <2>1 DEF IsNew, Matching, Entries
<1>2. FirstMatch(t, c) \in Matching(t, c)
  BY <1>1, MinProperties DEF FirstMatch
<1>3. t \in DOMAIN m
  BY <1>2 DEF Matching, Lookup
<1>. QED BY <1>2, <1>3 DEF Matching, Entries, Lookup

(* A condition that is new matches no entry's, and differs from them all.  *)
LEMMA NewDiffers ==
  ASSUME NEW t, NEW c \in Cond, IsNew(t, c)
  PROVE  \A i \in DOMAIN Entries(t) : Entries(t)[i].cond # c
BY MatchAssumption DEF IsNew, Matching, Entries

LEMMA IndexOfProperties ==
  ASSUME EventMapType, NEW t \in DOMAIN m, NEW id \in IdsOf(t)
  PROVE  /\ m[t] = Entries(t) /\ IndexOf(t, id) \in DOMAIN Entries(t)
         /\ Entries(t)[IndexOf(t, id)].id = id
<1>. DEFINE q == [j \in DOMAIN m[t] |-> m[t][j].id]
            S == {i \in DOMAIN m[t] : q[i] = id}
<1>0. m[t] = Entries(t) /\ m[t] \in Seq(Entry)
  BY EntriesType DEF Entries, Lookup
<1>1. DOMAIN m[t] = 1 .. Len(m[t]) /\ Len(m[t]) \in Nat
  BY <1>0
<1>2. S # {} /\ S \subseteq Nat
  BY <1>1 DEF IdsOf
<1>3. PICK i \in S : \A j \in S : i <= j
  BY <1>2, MinProperties
<1>4. i \in DOMAIN q /\ q[i] = id /\ \A j \in 1 .. i - 1 : q[j] # id
  BY <1>1, <1>3
<1>5. FirstIndex(q, id) \in DOMAIN q /\ q[FirstIndex(q, id)] = id
  BY <1>4 DEF FirstIndex
<1>. QED BY <1>0, <1>5 DEF IndexOf
-----------------------------------------------------------------------------
(* The operations.                                                         *)

LEMMA StoreStep ==
  ASSUME EventMapType, NEW t \in Type, NEW e \in Entry, Store(t, e)
  PROVE  /\ EventMapType' /\ joined' = joined \cup {<<t, e.cond>>}
         /\ Entries(t)' = Append(Entries(t), e)
         /\ \A u : u # t => Entries(u)' = Entries(u)
<1>. DEFINE q == Append(Entries(t), e)
<1>1. q \in Seq(Entry)
  BY EntriesType
<1>2. m' = Put(m, t, q) /\ joined' = joined \cup {<<t, e.cond>>} /\ UNCHANGED destroyed
  BY DEF Store, Entries, CreateDispatchKey
<1>3. <<t, e.cond>> \in Key
  BY DEF Entry, Key
<1>4. EventMapType'
  BY <1>1, <1>2, <1>3, PutEntries DEF EventMapType
<1>5. \A u : Entries(u)' = IF u = t THEN q ELSE Entries(u)
  <2>. HIDE DEF q
  <2>. QED BY <1>1, <1>2, PutEntries
<1>. QED BY <1>2, <1>4, <1>5

(* One entry of a slice less, the last in its place.                       *)
LEMMA Shorter ==
  ASSUME NEW S, NEW q \in Seq(S), NEW i \in DOMAIN q
  PROVE  /\ SwapRemove(q, i) \in Seq(S)
         /\ \A j \in DOMAIN SwapRemove(q, i) : SwapRemove(q, i)[j] = IF j = i THEN q[Len(q)] ELSE q[j]
         /\ DOMAIN SwapRemove(q, i) = 1 .. Len(q) - 1
<1>1. Len(q) \in Nat \ {0} /\ DOMAIN q = 1 .. Len(q) /\ \A j \in DOMAIN q : q[j] \in S
  OBVIOUS
<1>. QED BY <1>1 DEF SwapRemove

LEMMA UnsubscribeStep ==
  ASSUME EventMapType, NEW t \in Type, NEW c \in Cond, Unsubscribe(t, c)
  PROVE  /\ EventMapType' /\ \A u : u # t => Entries(u)' = Entries(u)
         /\ ~IsSubscribed(t, c) => UNCHANGED <<m, joined>>
         /\ c = NoCond => UNCHANGED joined /\ Entries(t)' = <<>>
         /\ c # NoCond /\ IsSubscribed(t, c) =>
              /\ ~IsNew(t, c)
              /\ Entries(t)' = SwapRemove(Entries(t), FirstMatch(t, c))
              /\ joined' = joined \ {<<t, Entries(t)[FirstMatch(t, c)].cond>>}
<1>0. UNCHANGED destroyed
  BY DEF Unsubscribe
<1>1. CASE ~IsSubscribed(t, c)
  <2>1. UNCHANGED <<m, joined>>
    BY <1>1 DEF Unsubscribe
  <2>2. c = NoCond => Entries(t) = <<>>
    BY <1>1 DEF IsSubscribed, Entries, Lookup
  <2>. QED BY <1>0, <1>1, <2>1, <2>2 DEF EventMapType, Entries
<1>2. CASE IsSubscribed(t, c) /\ c = NoCond
  <2>1. m' = Delete(m, t) /\ UNCHANGED joined
    BY <1>2 DEF Unsubscribe
  <2>2. EventMapType'
    BY <1>0, <2>1, DeleteEntries DEF EventMapType
  <2>3. \A u : Entries(u)' = IF u = t THEN <<>> ELSE Entries(u)
    BY <2>1, DeleteEntries
  <2>. QED BY <1>2, <2>1, <2>2, <2>3
<1>3. CASE IsSubscribed(t, c) /\ c # NoCond
  <2>. DEFINE i == FirstMatch(t, c)
              q == SwapRemove(Entries(t), i)
  <2>1. ~IsNew(t, c)
    BY <1>3 DEF IsSubscribed, IsNew
  <2>2. m[t] = Entries(t) /\ i \in DOMAIN Entries(t)
    BY <2>1, FirstMatchProperties
  <2>3. m' = StoreOrDelete(t, q) /\ joined' = joined \ {<<t, Entries(t)[i].cond>>}
    BY <1>3, <2>2 DEF Unsubscribe, SliceRemove, CreateDispatchKey
  <2>4. q \in Seq(Entry)
    BY <2>2, Shorter, EntriesType
  <2>5. EventMapType'
    BY <1>0, <2>3, <2>4, PutEntries, DeleteEntries DEF EventMapType, StoreOrDelete
  <2>6. \A u : Entries(u)' = IF u = t THEN q ELSE Entries(u)
    BY <2>3, <2>4, PutEntries, DeleteEntries DEF StoreOrDelete
  <2>. QED BY <1>3, <2>1, <2>3, <2>5, <2>6
<1>. QED BY <1>1, <1>2, <1>3

(* What an Unsubscribe that stops at entry i of a type leaves of it.       *)
Without(t, c, i) ==
  /\ <<Entries(t)[i].cond, c>> \in Match /\ Entries(t)[i].cond \in Cond
  /\ t \in DOMAIN m /\ i = FirstMatch(t, c) /\ m[t] = Entries(t)
  /\ joined' = joined \ {<<t, Entries(t)[i].cond>>}
  /\ Len(Entries(t)) \in Nat /\ DOMAIN Entries(t)' = 1 .. Len(Entries(t)) - 1
  /\ \A j \in DOMAIN Entries(t)' :
       \E k \in DOMAIN Entries(t) \ {i} :
         Entries(t)'[j] = Entries(t)[k] /\ (k # j => j = i /\ k = Len(Entries(t)))
  /\ \A k \in DOMAIN Entries(t) \ {i} :
       \E j \in DOMAIN Entries(t)' : Entries(t)'[j] = Entries(t)[k]

LEMMA UnsubscribeLeaves ==
  ASSUME EventMapType, NEW t \in Type, NEW c \in Cond, c # NoCond, IsSubscribed(t, c), Unsubscribe(t, c)
  PROVE  \E i \in DOMAIN Entries(t) : Without(t, c, i)
<1>. DEFINE q == Entries(t)
            i == FirstMatch(t, c)
            r == SwapRemove(q, i)
<1>1. ~IsNew(t, c) /\ Entries(t)' = r /\ joined' = joined \ {<<t, q[i].cond>>}
  BY UnsubscribeStep
<1>2. t \in DOMAIN m /\ m[t] = q /\ i \in DOMAIN q /\ <<q[i].cond, c>> \in Match
  BY <1>1, FirstMatchProperties
<1>3. q \in Seq(Entry)
  BY EntriesType
<1>4. Len(q) \in Nat /\ DOMAIN q = 1 .. Len(q) /\ q[i] \in Entry
  BY <1>2, <1>3
<1>5. /\ DOMAIN r = 1 .. Len(q) - 1
      /\ \A j \in DOMAIN r : r[j] = IF j = i THEN q[Len(q)] ELSE q[j]
  BY <1>2, <1>3, Shorter
<1>6. q[i].cond \in Cond
  BY <1>4 DEF Entry
<1>. HIDE DEF q, i, r
<1>7. ASSUME NEW j \in DOMAIN r
      PROVE  \E k \in DOMAIN q \ {i} : r[j] = q[k] /\ (k # j => j = i /\ k = Len(q))
  <2>1. CASE j = i
    <3>1. Len(q) \in DOMAIN q \ {i} /\ r[j] = q[Len(q)]
      BY <1>4, <1>5, <2>1
    <3>. QED BY <3>1, <2>1
  <2>2. CASE j # i
    BY <1>4, <1>5, <2>2
  <2>. QED BY <2>1, <2>2
<1>8. ASSUME NEW k \in DOMAIN q \ {i}
      PROVE  \E j \in DOMAIN r : r[j] = q[k]
  <2>1. CASE k = Len(q)
    <3>1. i \in DOMAIN r /\ r[i] = q[k]
      BY <1>2, <1>4, <1>5, <2>1
    <3>. QED BY <3>1
  <2>2. CASE k # Len(q)
    BY <1>4, <1>5, <2>2
  <2>. QED BY <2>1, <2>2
<1>. QED BY <1>1, <1>2, <1>4, <1>5, <1>6, <1>7, <1>8 DEF q, i, r, Without

(* Without repeated conditions, in t's slice at least.                     *)
Distinct(t) ==
  \A i, j \in DOMAIN Entries(t) : Entries(t)[i].cond = Entries(t)[j].cond => i = j

LEMMA StoreDistinct ==
  ASSUME EventMapType, NEW t \in Type, NEW e \in Entry, IsNew(t, e.cond), Store(t, e), NEW u, Distinct(u)
  PROVE  Distinct(u)' /\ \A c : c \in Conds(u)' => c \in Conds(u) \/ (u = t /\ c = e.cond)
<1>1. Entries(t)' = Append(Entries(t), e) /\ \A v : v # t => Entries(v)' = Entries(v)
  BY StoreStep
<1>2. CASE u # t
  BY <1>1, <1>2 DEF Distinct, Conds, Entries
<1>3. CASE u = t
  <2>. DEFINE n == Len(Entries(t))
  <2>1. Entries(t) \in Seq(Entry)
    BY EntriesType
  <2>2. /\ n \in Nat /\ DOMAIN Entries(t) = 1 .. n /\ DOMAIN Entries(t)' = 1 .. n + 1
        /\ \A i \in 1 .. n : Entries(t)'[i] = Entries(t)[i]
        /\ Entries(t)'[n + 1] = e
    BY <1>1, <2>1
  <2>3. \A i \in DOMAIN Entries(t) : Entries(t)[i].cond # e.cond
    BY NewDiffers DEF Entry
  <2>. HIDE DEF n
  <2>4. Distinct(t)'
    BY <1>3, <2>2, <2>3 DEF Distinct
  <2>5. \A c \in Conds(t)' : c \in Conds(t) \/ c = e.cond
    BY <2>2 DEF Conds, Entries
  <2>. QED BY <1>3, <2>4, <2>5
<1>. QED BY <1>2, <1>3

LEMMA UnsubscribeDistinct ==
  ASSUME EventMapType, NEW t \in Type, NEW c \in Cond, Unsubscribe(t, c), NEW u, Distinct(u)
  PROVE  /\ Distinct(u)' /\ Conds(u)' \subseteq Conds(u)
         /\ u = t /\ IsSubscribed(t, c) =>
              \/ c = NoCond /\ Conds(t)' = {}
              \/ c # NoCond /\ \E d \in Cond : <<d, c>> \in Match /\ d \notin Conds(t)'
<1>0. \A v : v # t => Entries(v)' = Entries(v)
  BY UnsubscribeStep
<1>1. CASE u # t
  BY <1>0, <1>1 DEF Distinct, Conds, Entries
<1>2. CASE ~IsSubscribed(t, c)
  <2>1. UNCHANGED <<m, joined>>
    BY <1>2, UnsubscribeStep
  <2>. QED BY <1>2, <2>1 DEF Distinct, Conds, Entries, Lookup
<1>3. CASE u = t /\ c = NoCond
  <2>1. Entries(t)' = <<>>
    BY <1>3, UnsubscribeStep
  <2>. QED BY <1>3, <2>1 DEF Distinct, Conds, Entries
<1>4. CASE u = t /\ c # NoCond /\ IsSubscribed(t, c)
  <2>1. PICK i \in DOMAIN Entries(t) : Without(t, c, i)
    BY <1>4, UnsubscribeLeaves
  <2>2. Distinct(t)'
    <3>. SUFFICES ASSUME NEW j \in DOMAIN Entries(t)', NEW l \in DOMAIN Entries(t)',
                         Entries(t)'[j].cond = Entries(t)'[l].cond
                  PROVE  j = l
      BY DEF Distinct
    <3>1. PICK k \in DOMAIN Entries(t) \ {i} :
            Entries(t)'[j] = Entries(t)[k] /\ (k # j => j = i /\ k = Len(Entries(t)))
      BY <2>1 DEF Without
    <3>2. PICK o \in DOMAIN Entries(t) \ {i} :
            Entries(t)'[l] = Entries(t)[o] /\ (o # l => l = i /\ o = Len(Entries(t)))
      BY <2>1 DEF Without
    <3>3. k = o
      BY <1>4, <3>1, <3>2 DEF Distinct
    <3>. QED BY <2>1, <3>1, <3>2, <3>3 DEF Without
  <2>3. \A x : x \in Conds(t)' => x \in Conds(t) /\ x # Entries(t)[i].cond
    <3>. SUFFICES ASSUME NEW j \in DOMAIN Entries(t)'
                  PROVE  Entries(t)'[j].cond \in Conds(t) /\ Entries(t)'[j].cond # Entries(t)[i].cond
      BY DEF Conds, Entries
    <3>1. PICK k \in DOMAIN Entries(t) \ {i} : Entries(t)'[j] = Entries(t)[k]
      BY <2>1 DEF Without
    <3>. QED BY <1>4, <3>1 DEF Distinct, Conds, Entries
  <2>. QED BY <1>4, <2>1, <2>2, <2>3 DEF Without
<1>. QED BY <1>1, <1>2, <1>3, <1>4

LEMMA UnsubscribeWithIDStep ==
  ASSUME EventMapType, NEW id, UnsubscribeWithID(id)
  PROVE  /\ EventMapType'
         /\ \/ id \notin LiveIds /\ UNCHANGED <<m, joined>>
            \/ \E t \in DOMAIN m : \E i \in DOMAIN Entries(t) :
                 /\ id \in IdsOf(t) /\ Entries(t)[i].id = id
                 /\ joined' = joined \ {<<t, Entries(t)[i].cond>>}
                 /\ Entries(t)' = StaleView(Entries(t), i)
                 /\ \A u : u # t => Entries(u)' = Entries(u)
<1>0. UNCHANGED destroyed
  BY DEF UnsubscribeWithID
<1>1. CASE id \notin LiveIds
  BY <1>0, <1>1 DEF UnsubscribeWithID, EventMapType
<1>2. CASE id \in LiveIds
  <2>1. PICK t \in DOMAIN m :
          /\ id \in IdsOf(t)
          /\ joined' = joined \ {CreateDispatchKey(t, m[t][IndexOf(t, id)].cond)}
          /\ m' = Put(m, t, StaleView(m[t], IndexOf(t, id)))
    BY <1>2 DEF UnsubscribeWithID
  <2>. DEFINE i == IndexOf(t, id)
  <2>2. m[t] = Entries(t) /\ i \in DOMAIN Entries(t) /\ Entries(t)[i].id = id
    BY <2>1, IndexOfProperties
  <2>3. StaleView(Entries(t), i) \in Seq(Entry)
    BY <2>2, EntriesType DEF StaleView
  <2>4. t \in Type
    BY DEF EventMapType, IsMap
  <2>5. EventMapType'
    BY <1>0, <2>1, <2>2, <2>3, <2>4, PutEntries DEF EventMapType
  <2>6. \A u : Entries(u)' = IF u = t THEN StaleView(Entries(t), i) ELSE Entries(u)
    BY <2>1, <2>2, <2>3, <2>4, PutEntries
  <2>. QED BY <2>1, <2>2, <2>5, <2>6 DEF CreateDispatchKey
<1>. QED BY <1>1, <1>2

LEMMA DestroyStep ==
  ASSUME EventMapType, Destroy
  PROVE  /\ EventMapType'
         /\ \/ UNCHANGED <<m, joined>>
            \/ joined' = {} /\ \A u : Entries(u)' = <<>>
BY DEF Destroy, EventMapType, IsMap, EmptyMap, Entries, Lookup
=============================================================================
