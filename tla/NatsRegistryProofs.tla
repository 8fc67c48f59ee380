------------------------- MODULE NatsRegistryProofs -------------------------
(***************************************************************************)
(* NatsRegistry proved for every set of sessions, subjects and payloads    *)
(* and every channel capacity: its two indexes stay typed, in agreement    *)
(* and free of repetitions, and it implements Fanout.                      *)
(*                                                                         *)
(* The indexes are inductive together and in no other way: IndexesAgree    *)
(* needs NoDuplicates, since the removal loops stop at the first match,    *)
(* and NoDuplicates needs IndexesAgree, since Subscribe tests subjects     *)
(* only before it appends to both.                                         *)
(***************************************************************************)
EXTENDS NatsRegistry, FiniteSetTheorems, TLAPS

(* Go's slices and maps.                                                   *)

(* Appending to a slice adds one element to what it contains.              *)
LEMMA RangeAppend ==
  ASSUME NEW S, NEW q \in Seq(S), NEW x \in S
  PROVE  /\ Append(q, x) \in Seq(S)
         /\ Append(q, x) # <<>>
         /\ Range(Append(q, x)) = Range(q) \cup {x}
<1>. DEFINE r == Append(q, x)
<1>1. /\ Len(q) \in Nat
      /\ DOMAIN q = 1 .. Len(q)
      /\ Len(r) = Len(q) + 1
      /\ DOMAIN r = 1 .. Len(q) + 1
      /\ \A i \in 1 .. Len(q) : r[i] = q[i]
      /\ r[Len(q) + 1] = x
  OBVIOUS
<1>2. r \in Seq(S)
  OBVIOUS
<1>. HIDE DEF r
<1>5. r # <<>>
  BY <1>1
<1>3. Range(r) \subseteq Range(q) \cup {x}
  BY <1>1 DEF Range
<1>4. Range(q) \cup {x} \subseteq Range(r)
  BY <1>1 DEF Range
<1>. QED BY <1>2, <1>3, <1>4, <1>5 DEF r

(* Appending an element a slice without repetitions lacks repeats nothing. *)
LEMMA InjectiveAppend ==
  ASSUME NEW S, NEW q \in Seq(S), NEW x \in S, IsInjective(q), x \notin Range(q)
  PROVE  IsInjective(Append(q, x))
<1>1. Len(q) \in Nat /\ DOMAIN q = 1 .. Len(q)
  OBVIOUS
<1>2. \A i \in 1 .. Len(q) : q[i] # x
  BY <1>1 DEF Range
<1>3. DOMAIN Append(q, x) = 1 .. Len(q) + 1
  OBVIOUS
<1>4. \A i \in 1 .. Len(q) + 1 :
        Append(q, x)[i] = IF i = Len(q) + 1 THEN x ELSE q[i]
  OBVIOUS
<1>. QED BY <1>1, <1>2, <1>3, <1>4 DEF IsInjective

(* Removing position i of a slice without repetitions removes exactly the  *)
(* element at i.                                                           *)
LEMMA SwapRemoveProperties ==
  ASSUME NEW S, NEW q \in Seq(S), NEW i \in DOMAIN q, IsInjective(q)
  PROVE  /\ SwapRemove(q, i) \in Seq(S)
         /\ Len(SwapRemove(q, i)) = Len(q) - 1
         /\ Range(SwapRemove(q, i)) = Range(q) \ {q[i]}
         /\ IsInjective(SwapRemove(q, i))
<1>. DEFINE n == Len(q)
            r == SwapRemove(q, i)
<1>1. n \in Nat \ {0} /\ DOMAIN q = 1 .. n /\ i \in 1 .. n
  OBVIOUS
<1>2. \A j \in 1 .. n : q[j] \in S
  OBVIOUS
<1>3. r \in Seq(S) /\ Len(r) = n - 1 /\ DOMAIN r = 1 .. n - 1
  BY <1>1, <1>2 DEF SwapRemove
<1>4. \A j \in 1 .. n - 1 : r[j] = IF j = i THEN q[n] ELSE q[j]
  BY DEF SwapRemove
<1>. HIDE DEF r, n
<1>5. \A j, k \in 1 .. n : q[j] = q[k] => j = k
  BY <1>1 DEF IsInjective
<1>6. Range(r) \subseteq Range(q) \ {q[i]}
  BY <1>1, <1>3, <1>4, <1>5 DEF Range
<1>7. Range(q) \ {q[i]} \subseteq Range(r)
  <2>. SUFFICES ASSUME NEW j \in 1 .. n, j # i
                PROVE  q[j] \in Range(r)
    BY <1>1 DEF Range
  <2>1. CASE j = n
    <3>1. i \in 1 .. n - 1 /\ r[i] = q[j]
      BY <1>1, <1>4, <2>1
    <3>. QED BY <3>1, <1>3 DEF Range
  <2>2. CASE j # n
    <3>1. j \in 1 .. n - 1 /\ r[j] = q[j]
      BY <1>1, <1>4, <2>2
    <3>. QED BY <3>1, <1>3 DEF Range
  <2>. QED BY <2>1, <2>2
<1>8. IsInjective(r)
  <2>. SUFFICES ASSUME NEW j \in 1 .. n - 1, NEW k \in 1 .. n - 1, r[j] = r[k]
                PROVE  j = k
    BY <1>3 DEF IsInjective
  <2>. QED BY <1>1, <1>4, <1>5
<1>. QED BY <1>3, <1>6, <1>7, <1>8 DEF n, r

(* The loop that stops at the first match finds one, if there is one.      *)
LEMMA FirstIndexProperties ==
  ASSUME NEW S, NEW q \in Seq(S), NEW x \in Range(q), IsInjective(q)
  PROVE  FirstIndex(q, x) \in DOMAIN q /\ q[FirstIndex(q, x)] = x
<1>1. PICK i \in DOMAIN q : q[i] = x
  BY DEF Range
<1>2. Len(q) \in Nat /\ DOMAIN q = 1 .. Len(q)
  OBVIOUS
<1>3. \A j \in 1 .. i - 1 : q[j] # x
  BY <1>1, <1>2 DEF IsInjective
<1>. QED BY <1>1, <1>3 DEF FirstIndex

(* RemoveFirst of a slice without repetitions is set difference.           *)
LEMMA RemoveFirstProperties ==
  ASSUME NEW S, NEW q \in Seq(S), NEW x, IsInjective(q)
  PROVE  /\ RemoveFirst(q, x) \in Seq(S)
         /\ Range(RemoveFirst(q, x)) = Range(q) \ {x}
         /\ IsInjective(RemoveFirst(q, x))
<1>1. CASE x \in Range(q)
  BY <1>1, FirstIndexProperties, SwapRemoveProperties DEF RemoveFirst
<1>2. CASE x \notin Range(q)
  BY <1>2 DEF RemoveFirst
<1>. QED BY <1>1, <1>2

(* A slice is empty exactly when it contains nothing.                      *)
LEMMA EmptyRange ==
  ASSUME NEW S, NEW q \in Seq(S)
  PROVE  q = <<>> <=> Range(q) = {}
<1>1. Len(q) \in Nat /\ DOMAIN q = 1 .. Len(q)
  OBVIOUS
<1>2. CASE q = <<>>
  BY <1>2 DEF Range
<1>3. CASE q # <<>>
  <2>1. 1 \in DOMAIN q
    BY <1>1, <1>3
  <2>2. q[1] \in Range(q)
    BY <2>1 DEF Range
  <2>. QED BY <2>2, <1>3
<1>. QED BY <1>2, <1>3

LEMMA EmptySlice ==
  /\ IsInjective(<<>>)
  /\ Range(<<>>) = {}
BY DEF IsInjective, Range

(* Storing and deleting, seen through a read.                              *)
LEMMA LookupPut ==
  ASSUME NEW m, NEW k, NEW v, NEW x
  PROVE  Lookup(Put(m, k, v), x) = IF x = k THEN v ELSE Lookup(m, x)
BY DEF Lookup, Put

LEMMA LookupDelete ==
  ASSUME NEW m, NEW k, NEW x
  PROVE  Lookup(Delete(m, k), x) = IF x = k THEN <<>> ELSE Lookup(m, x)
BY DEF Lookup, Delete, Restrict

LEMMA LookupType ==
  ASSUME NEW K, NEW S, NEW m, IsMap(m, K, Seq(S)), NEW k
  PROVE  Lookup(m, k) \in Seq(S)
BY DEF IsMap, Lookup

(* Storing and deleting keep the type of a map.                            *)
LEMMA PutType ==
  ASSUME NEW K, NEW V, NEW m, IsMap(m, K, V), NEW k \in K, NEW v \in V
  PROVE  IsMap(Put(m, k, v), K, V) /\ DOMAIN Put(m, k, v) = DOMAIN m \cup {k}
BY DEF IsMap, Put

LEMMA DeleteType ==
  ASSUME NEW K, NEW V, NEW m, IsMap(m, K, V), NEW k
  PROVE  IsMap(Delete(m, k), K, V) /\ DOMAIN Delete(m, k) = DOMAIN m \ {k}
BY DEF IsMap, Delete, Restrict
-----------------------------------------------------------------------------

(* The part of TypeOK that is about the two indexes.                       *)
IndexType ==
  /\ IsMap(subjects, Key, Seq(Session))
  /\ IsMap(sessions, Session, Seq(Key))

IndexInv == IndexType /\ RegistryInv

(* The slices of both maps as a read sees them.                            *)
LEMMA SliceFacts ==
  ASSUME IndexInv
  PROVE  /\ \A k : Lookup(subjects, k) \in Seq(Session)
         /\ \A s : Lookup(sessions, s) \in Seq(Key)
         /\ \A k : IsInjective(Lookup(subjects, k))
         /\ \A s : IsInjective(Lookup(sessions, s))
BY LookupType, EmptySlice DEF IndexInv, IndexType, RegistryInv, NoDuplicates, Lookup

-----------------------------------------------------------------------------
LEMMA SubscribeKeepsIndex ==
  ASSUME IndexInv, NEW s \in Session, NEW k \in Key, Subscribe(s, k)
  PROVE  IndexInv'
<1>1. CASE isSubscribed(s, k)
  <2>1. UNCHANGED index
    BY <1>1 DEF Subscribe
  <2>. QED BY <2>1 DEF index, IndexInv, IndexType, RegistryInv, IndexesAgree,
              NoDuplicates, NoEmptySubject, isSubscribed
<1>2. CASE ~isSubscribed(s, k)
  <2>. DEFINE q == Append(Lookup(subjects, k), s)
              r == Append(Lookup(sessions, s), k)
  <2>1. subjects' = Put(subjects, k, q) /\ sessions' = Put(sessions, s, r)
    BY <1>2 DEF Subscribe
  <2>2. s \notin Range(Lookup(subjects, k)) /\ k \notin Range(Lookup(sessions, s))
    BY <1>2 DEF isSubscribed, IndexInv, RegistryInv, IndexesAgree
  <2>3. /\ q \in Seq(Session) /\ q # <<>> /\ IsInjective(q)
        /\ Range(q) = Range(Lookup(subjects, k)) \cup {s}
    BY <2>2, SliceFacts, RangeAppend, InjectiveAppend
  <2>4. /\ r \in Seq(Key) /\ r # <<>> /\ IsInjective(r)
        /\ Range(r) = Range(Lookup(sessions, s)) \cup {k}
    BY <2>2, SliceFacts, RangeAppend, InjectiveAppend
  <2>. HIDE DEF q, r
  <2>5. IndexType'
    BY <2>1, <2>3, <2>4, PutType DEF IndexInv, IndexType
  <2>6. /\ \A j : Lookup(subjects', j) = IF j = k THEN q ELSE Lookup(subjects, j)
        /\ \A t : Lookup(sessions', t) = IF t = s THEN r ELSE Lookup(sessions, t)
    BY <2>1, LookupPut
  <2>7. IndexesAgree'
    <3>. SUFFICES ASSUME NEW t \in Session, NEW j \in Key
                  PROVE  j \in Range(Lookup(sessions', t)) <=> t \in Range(Lookup(subjects', j))
      BY DEF IndexesAgree, isSubscribed
    <3>1. j \in Range(Lookup(sessions, t)) <=> t \in Range(Lookup(subjects, j))
      BY DEF IndexInv, RegistryInv, IndexesAgree, isSubscribed
    <3>. QED BY <3>1, <2>3, <2>4, <2>6
  <2>8. NoDuplicates' /\ NoEmptySubject'
    BY <2>1, <2>3, <2>4
       DEF Put, NoDuplicates, NoEmptySubject, IndexInv, RegistryInv
  <2>. QED BY <2>5, <2>7, <2>8 DEF IndexInv, RegistryInv
<1>. QED BY <1>1, <1>2

LEMMA UnsubscribeKeepsIndex ==
  ASSUME IndexInv, NEW s \in Session, NEW k \in Key, Unsubscribe(s, k)
  PROVE  IndexInv'
<1>1. CASE k \notin Range(Lookup(sessions, s))
  <2>1. UNCHANGED index
    BY <1>1 DEF Unsubscribe
  <2>. QED BY <2>1 DEF index, IndexInv, IndexType, RegistryInv, IndexesAgree,
              NoDuplicates, NoEmptySubject, isSubscribed
<1>2. CASE k \in Range(Lookup(sessions, s))
  <2>. DEFINE q == RemoveFirst(Lookup(subjects, k), s)
              r == RemoveFirst(Lookup(sessions, s), k)
  <2>1. s \in Range(Lookup(subjects, k))
    BY <1>2 DEF isSubscribed, IndexInv, RegistryInv, IndexesAgree
  <2>2. /\ k \in DOMAIN subjects /\ Lookup(subjects, k) = subjects[k]
        /\ s \in DOMAIN sessions /\ Lookup(sessions, s) = sessions[s]
    BY <1>2, <2>1, EmptySlice DEF Lookup
  <2>3. /\ subjects' = StoreOrDelete(subjects, k, q)
        /\ sessions' = Put(sessions, s, r)
    BY <1>2, <2>2 DEF Unsubscribe
  <2>4. /\ q \in Seq(Session) /\ IsInjective(q)
        /\ Range(q) = Range(Lookup(subjects, k)) \ {s}
    BY SliceFacts, RemoveFirstProperties
  <2>5. /\ r \in Seq(Key) /\ IsInjective(r)
        /\ Range(r) = Range(Lookup(sessions, s)) \ {k}
    BY SliceFacts, RemoveFirstProperties
  <2>. HIDE DEF q, r
  <2>6. IndexType'
    <3>1. IsMap(subjects, Key, Seq(Session)) /\ IsMap(sessions, Session, Seq(Key))
      BY DEF IndexInv, IndexType
    <3>2. IsMap(subjects', Key, Seq(Session))
      BY <2>3, <2>4, <3>1, PutType, DeleteType DEF StoreOrDelete
    <3>3. IsMap(sessions', Session, Seq(Key))
      BY <2>3, <2>5, <3>1, PutType
    <3>. QED BY <3>2, <3>3 DEF IndexType
  <2>7. /\ \A j : Lookup(subjects', j) = IF j = k THEN q ELSE Lookup(subjects, j)
        /\ \A t : Lookup(sessions', t) = IF t = s THEN r ELSE Lookup(sessions, t)
    BY <2>3, LookupPut, LookupDelete DEF StoreOrDelete
  <2>8. IndexesAgree'
    <3>. SUFFICES ASSUME NEW t \in Session, NEW j \in Key
                  PROVE  j \in Range(Lookup(sessions', t)) <=> t \in Range(Lookup(subjects', j))
      BY DEF IndexesAgree, isSubscribed
    <3>1. j \in Range(Lookup(sessions, t)) <=> t \in Range(Lookup(subjects, j))
      BY DEF IndexInv, RegistryInv, IndexesAgree, isSubscribed
    <3>. QED BY <3>1, <2>4, <2>5, <2>7
  <2>9. NoDuplicates' /\ NoEmptySubject'
    <3>1. CASE q = <<>>
      <4>1. subjects' = [x \in DOMAIN subjects \ {k} |-> subjects[x]]
        BY <3>1, <2>3 DEF StoreOrDelete, Delete, Restrict
      <4>. QED BY <4>1, <2>3, <2>5
               DEF Put, NoDuplicates, NoEmptySubject, IndexInv, RegistryInv
    <3>2. CASE q # <<>>
      <4>1. subjects' = Put(subjects, k, q)
        BY <3>2, <2>3 DEF StoreOrDelete
      <4>. QED BY <3>2, <4>1, <2>3, <2>4, <2>5
               DEF Put, NoDuplicates, NoEmptySubject, IndexInv, RegistryInv
    <3>. QED BY <3>1, <3>2
  <2>. QED BY <2>6, <2>8, <2>9 DEF IndexInv, RegistryInv
<1>. QED BY <1>1, <1>2

(* Close takes the session out of exactly the slices that name it, because *)
(* the session index names all of them.                                    *)
LEMMA CloseLookup ==
  ASSUME IndexInv, NEW s \in Session, s \in DOMAIN sessions, Close(s)
  PROVE  /\ \A k \in Key : Range(Lookup(subjects', k)) = Range(Lookup(subjects, k)) \ {s}
         /\ \A t : Lookup(sessions', t) = IF t = s THEN <<>> ELSE Lookup(sessions, t)
<1>1. subjects' = Without(s) /\ sessions' = Delete(sessions, s)
  BY DEF Close
<1>2. ASSUME NEW k \in Key
      PROVE  Range(Lookup(subjects', k)) = Range(Lookup(subjects, k)) \ {s}
  <2>1. k \in Range(sessions[s]) <=> s \in Range(Lookup(subjects, k))
    BY DEF Lookup, isSubscribed, IndexInv, RegistryInv, IndexesAgree
  <2>2. CASE k \notin DOMAIN subjects
    BY <1>1, <2>2, EmptySlice DEF Without, Lookup
  <2>3. CASE k \in DOMAIN subjects /\ k \notin Range(sessions[s])
    BY <1>1, <2>1, <2>3 DEF Without, Lookup
  <2>4. CASE k \in DOMAIN subjects /\ k \in Range(sessions[s])
    <3>. DEFINE q == RemoveFirst(subjects[k], s)
    <3>1. q \in Seq(Session) /\ Range(q) = Range(Lookup(subjects, k)) \ {s}
      BY <2>4, SliceFacts, RemoveFirstProperties DEF Lookup
    <3>2. Lookup(subjects', k) = q
      BY <1>1, <2>4 DEF Without, Lookup
    <3>. QED BY <3>1, <3>2
  <2>. QED BY <2>2, <2>3, <2>4
<1>. QED BY <1>1, <1>2, LookupDelete

LEMMA CloseKeepsIndex ==
  ASSUME IndexInv, NEW s \in Session, Close(s)
  PROVE  IndexInv'
<1>1. CASE s \notin DOMAIN sessions
  <2>1. UNCHANGED index
    BY <1>1 DEF Close
  <2>. QED BY <2>1 DEF index, IndexInv, IndexType, RegistryInv, IndexesAgree,
              NoDuplicates, NoEmptySubject, isSubscribed
<1>2. CASE s \in DOMAIN sessions
  <2>. DEFINE rest(k) == RemoveFirst(subjects[k], s)
  <2>1. subjects' = Without(s) /\ sessions' = Delete(sessions, s)
    BY <1>2 DEF Close
  <2>2. \A k \in DOMAIN subjects : /\ k \in Key
                                   /\ rest(k) \in Seq(Session)
                                   /\ IsInjective(rest(k))
                                   /\ subjects[k] \in Seq(Session)
                                   /\ IsInjective(subjects[k])
                                   /\ subjects[k] # <<>>
    BY RemoveFirstProperties
       DEF IndexInv, IndexType, IsMap, RegistryInv, NoDuplicates, NoEmptySubject
  <2>. HIDE DEF rest
  <2>3. /\ DOMAIN subjects' \subseteq DOMAIN subjects
        /\ subjects' = [k \in DOMAIN subjects' |-> subjects'[k]]
        /\ \A k \in DOMAIN subjects' :
             /\ subjects'[k] \in {subjects[k], rest(k)}
             /\ subjects'[k] # <<>>
    BY <2>1, <2>2 DEF Without, rest
  <2>4. IndexType'
    <3>1. IsMap(subjects', Key, Seq(Session))
      <4>1. \A k \in DOMAIN subjects' : k \in Key /\ subjects'[k] \in Seq(Session)
        BY <2>2, <2>3
      <4>. QED BY <2>3, <4>1 DEF IsMap
    <3>2. IsMap(sessions', Session, Seq(Key))
      BY <2>1, DeleteType DEF IndexInv, IndexType
    <3>. QED BY <3>1, <3>2 DEF IndexType
  <2>5. NoDuplicates' /\ NoEmptySubject'
    <3>1. \A t \in DOMAIN sessions' : t \in DOMAIN sessions /\ sessions'[t] = sessions[t]
      BY <2>1 DEF Delete, Restrict
    <3>. QED BY <3>1, <2>2, <2>3 DEF NoDuplicates, NoEmptySubject, IndexInv, RegistryInv
  <2>6. IndexesAgree'
    <3>. SUFFICES ASSUME NEW t \in Session, NEW k \in Key
                  PROVE  k \in Range(Lookup(sessions', t)) <=> t \in Range(Lookup(subjects', k))
      BY DEF IndexesAgree, isSubscribed
    <3>1. k \in Range(Lookup(sessions, t)) <=> t \in Range(Lookup(subjects, k))
      BY DEF IndexInv, RegistryInv, IndexesAgree, isSubscribed
    <3>. QED BY <3>1, <1>2, CloseLookup, EmptySlice
  <2>. QED BY <2>4, <2>5, <2>6 DEF IndexInv, RegistryInv
<1>. QED BY <1>1, <1>2
-----------------------------------------------------------------------------
(* A slice without repetitions makes handleMessage send once or not at all. *)
LEMMA CopiesAtMostOne ==
  ASSUME IndexInv, NEW s \in Session, NEW k \in Key
  PROVE  Copies(k, s) = IF isSubscribed(s, k) THEN 1 ELSE 0
<1>. DEFINE q == Lookup(subjects, k)
            at == {i \in DOMAIN q : q[i] = s}
<1>1. IsInjective(q)
  BY SliceFacts
<1>2. CASE isSubscribed(s, k)
  <2>1. PICK i \in DOMAIN q : q[i] = s
    BY <1>2 DEF isSubscribed, Range
  <2>2. at = {i}
    BY <1>1, <2>1 DEF IsInjective
  <2>. QED BY <1>2, <2>2, FS_Singleton DEF Copies
<1>3. CASE ~isSubscribed(s, k)
  <2>1. at = {}
    BY <1>3 DEF isSubscribed, Range
  <2>. QED BY <1>3, <2>1, FS_EmptySet DEF Copies
<1>. QED BY <1>2, <1>3

(* Filling with one copy appends it if there is room; with none, nothing.  *)
LEMMA FillProperties ==
  ASSUME NEW q \in Seq(Msg), Len(q) <= ChCap, NEW m \in Msg
  PROVE  /\ Fill(q, m, 0) = q
         /\ Fill(q, m, 1) = IF Len(q) < ChCap THEN Append(q, m) ELSE q
         /\ \A n \in {0, 1} : Fill(q, m, n) \in Seq(Msg) /\ Len(Fill(q, m, n)) <= ChCap
<1>1. ChCap \in Nat \ {0} /\ Len(q) \in Nat
  BY ChCapAssumption
<1>2. Fill(q, m, 0) = q
  <2>1. (IF 0 < ChCap - Len(q) THEN 0 ELSE ChCap - Len(q)) = 0
    BY <1>1
  <2>2. Fill(q, m, 0) = q \o [i \in 1 .. 0 |-> m]
    BY <2>1 DEF Fill
  <2>3. [i \in 1 .. 0 |-> m] = <<>>
    OBVIOUS
  <2>. QED BY <2>2, <2>3
<1>3. Fill(q, m, 1) = IF Len(q) < ChCap THEN Append(q, m) ELSE q
  <2>1. CASE Len(q) < ChCap
    <3>1. (IF 1 < ChCap - Len(q) THEN 1 ELSE ChCap - Len(q)) = 1
      BY <1>1, <2>1
    <3>2. Fill(q, m, 1) = q \o [i \in 1 .. 1 |-> m]
      BY <3>1 DEF Fill
    <3>3. [i \in 1 .. 1 |-> m] = <<m>>
      OBVIOUS
    <3>4. q \o <<m>> = Append(q, m)
      OBVIOUS
    <3>. QED BY <2>1, <3>2, <3>3, <3>4
  <2>2. CASE ~(Len(q) < ChCap)
    <3>1. (IF 1 < ChCap - Len(q) THEN 1 ELSE ChCap - Len(q)) = 0
      BY <1>1, <2>2
    <3>2. Fill(q, m, 1) = q \o [i \in 1 .. 0 |-> m]
      BY <3>1 DEF Fill
    <3>3. [i \in 1 .. 0 |-> m] = <<>>
      OBVIOUS
    <3>. QED BY <2>2, <3>2, <3>3
  <2>. QED BY <2>1, <2>2
<1>. QED BY <1>1, <1>2, <1>3

-----------------------------------------------------------------------------
(* The inductive invariant of the registry.                                *)
IInv == TypeOK /\ RegistryInv

LEMMA IInvIndex == IInv <=> IndexInv /\ /\ Ch \in [Session -> Seq(Msg)]
                                        /\ \A s \in Session : Len(Ch[s]) <= ChCap
BY DEF IInv, TypeOK, IndexInv, IndexType

LEMMA InitIInv == Init => IInv
<1>. SUFFICES ASSUME Init PROVE IInv
  OBVIOUS
<1>1. TypeOK
  BY ChCapAssumption DEF Init, TypeOK, IsMap, EmptyMap
<1>2. RegistryInv
  BY EmptySlice DEF Init, RegistryInv, IndexesAgree, NoDuplicates, NoEmptySubject,
     isSubscribed, Lookup, EmptyMap
<1>. QED BY <1>1, <1>2 DEF IInv

LEMMA NextIInv == IInv /\ [Next]_vars => IInv'
<1>. SUFFICES ASSUME IInv, [Next]_vars PROVE IInv'
  OBVIOUS
<1>1. /\ IndexInv
      /\ Ch \in [Session -> Seq(Msg)]
      /\ \A s \in Session : Len(Ch[s]) <= ChCap
  BY IInvIndex
<1>2. ASSUME UNCHANGED index
      PROVE  IndexInv'
  BY <1>1, <1>2 DEF index, IndexInv, IndexType, RegistryInv, IndexesAgree,
     NoDuplicates, NoEmptySubject, isSubscribed
<1>3. ASSUME NEW s \in Session, NEW k \in Key, Subscribe(s, k) \/ Unsubscribe(s, k)
      PROVE  IInv'
  <2>1. IndexInv' /\ Ch' = Ch
    BY <1>1, <1>3, SubscribeKeepsIndex, UnsubscribeKeepsIndex DEF Subscribe, Unsubscribe
  <2>. QED BY <1>1, <2>1 DEF IInv, TypeOK, IndexInv, IndexType
<1>4. ASSUME NEW s \in Session, Close(s)
      PROVE  IInv'
  <2>1. IndexInv' /\ Ch' = Ch
    BY <1>1, <1>4, CloseKeepsIndex DEF Close
  <2>. QED BY <1>1, <2>1 DEF IInv, TypeOK, IndexInv, IndexType
<1>5. ASSUME NEW s \in Session, Receive(s)
      PROVE  IInv'
  <2>1. UNCHANGED index /\ Ch[s] # <<>> /\ Ch' = [Ch EXCEPT ![s] = Tail(@)]
    BY <1>5 DEF Receive
  <2>2. Tail(Ch[s]) \in Seq(Msg) /\ Len(Tail(Ch[s])) <= ChCap
    BY <1>1, <2>1, ChCapAssumption
  <2>3. /\ Ch' \in [Session -> Seq(Msg)]
        /\ \A t \in Session : Len(Ch'[t]) <= ChCap
    BY <1>1, <2>1, <2>2
  <2>. QED BY <1>2, <2>1, <2>3 DEF IInv, TypeOK, IndexInv, IndexType
<1>6. ASSUME NEW k \in Key, NEW m \in Msg, handleMessage(k, m)
      PROVE  IInv'
  <2>1. UNCHANGED index /\ Ch' = [s \in Session |-> Fill(Ch[s], m, Copies(k, s))]
    BY <1>6 DEF handleMessage
  <2>2. \A s \in Session : Copies(k, s) \in {0, 1}
    BY <1>1, CopiesAtMostOne
  <2>3. \A s \in Session : /\ Fill(Ch[s], m, Copies(k, s)) \in Seq(Msg)
                           /\ Len(Fill(Ch[s], m, Copies(k, s))) <= ChCap
    BY <1>1, <2>2, FillProperties
  <2>4. /\ Ch' \in [Session -> Seq(Msg)]
        /\ \A s \in Session : Len(Ch'[s]) <= ChCap
    BY <2>1, <2>3
  <2>. QED BY <1>2, <2>1, <2>4 DEF IInv, TypeOK, IndexInv, IndexType
<1>7. CASE UNCHANGED vars
  BY <1>7, <1>1, <1>2 DEF vars, index, IInv, TypeOK, IndexInv, IndexType
<1>. QED BY <1>3, <1>4, <1>5, <1>6, <1>7 DEF Next

(* The maps and channels keep their types, and no channel holds more than  *)
(* its capacity, however many messages arrive.                             *)
THEOREM TypeCorrect == Spec => []TypeOK
BY InitIInv, NextIInv, PTL DEF Spec, IInv

(* Whatever the connections do, the two indexes agree, name nobody twice   *)
(* and hold no empty subject (subscription.go:23-100).                     *)
THEOREM RegistryCorrect == Spec => []RegistryInv
BY InitIInv, NextIInv, PTL DEF Spec, IInv
-----------------------------------------------------------------------------
(* How each action changes the relation the subject index stands for.      *)
LEMMA JoinedAfterSubscribe ==
  ASSUME IndexInv, NEW s \in Session, NEW k \in Key, Subscribe(s, k)
  PROVE  Joined' = Joined \cup {<<s, k>>}
<1>1. CASE isSubscribed(s, k)
  BY <1>1 DEF Subscribe, index, Joined, isSubscribed
<1>2. CASE ~isSubscribed(s, k)
  <2>. DEFINE q == Append(Lookup(subjects, k), s)
  <2>1. subjects' = Put(subjects, k, q)
    BY <1>2 DEF Subscribe
  <2>2. Range(q) = Range(Lookup(subjects, k)) \cup {s}
    BY SliceFacts, RangeAppend
  <2>. HIDE DEF q
  <2>3. \A j : Lookup(subjects', j) = IF j = k THEN q ELSE Lookup(subjects, j)
    BY <2>1, LookupPut
  <2>. QED BY <2>2, <2>3 DEF Joined, isSubscribed
<1>. QED BY <1>1, <1>2

LEMMA JoinedAfterUnsubscribe ==
  ASSUME IndexInv, NEW s \in Session, NEW k \in Key, Unsubscribe(s, k)
  PROVE  Joined' = Joined \ {<<s, k>>}
<1>0. k \in Range(Lookup(sessions, s)) <=> s \in Range(Lookup(subjects, k))
  BY DEF IndexInv, RegistryInv, IndexesAgree, isSubscribed
<1>1. CASE k \notin Range(Lookup(sessions, s))
  BY <1>0, <1>1 DEF Unsubscribe, index, Joined, isSubscribed
<1>2. CASE k \in Range(Lookup(sessions, s))
  <2>. DEFINE q == RemoveFirst(Lookup(subjects, k), s)
  <2>1. k \in DOMAIN subjects
    BY <1>0, <1>2, EmptySlice DEF Lookup
  <2>2. subjects' = StoreOrDelete(subjects, k, q)
    BY <1>2, <2>1 DEF Unsubscribe, Lookup
  <2>3. Range(q) = Range(Lookup(subjects, k)) \ {s}
    BY SliceFacts, RemoveFirstProperties
  <2>. HIDE DEF q
  <2>4. \A j : Lookup(subjects', j) = IF j = k THEN q ELSE Lookup(subjects, j)
    BY <2>2, LookupPut, LookupDelete DEF StoreOrDelete
  <2>. QED BY <2>3, <2>4 DEF Joined, isSubscribed
<1>. QED BY <1>1, <1>2

LEMMA JoinedAfterClose ==
  ASSUME IndexInv, NEW s \in Session, Close(s)
  PROVE  Joined' = Joined \ ({s} \X Key)
<1>1. CASE s \in DOMAIN sessions
  <2>1. \A k \in Key : Range(Lookup(subjects', k)) = Range(Lookup(subjects, k)) \ {s}
    BY <1>1, CloseLookup
  <2>. QED BY <2>1 DEF Joined, isSubscribed
<1>2. CASE s \notin DOMAIN sessions
  <2>1. \A k \in Key : k \notin Range(Lookup(sessions, s))
    BY <1>2, EmptySlice DEF Lookup
  <2>2. \A k \in Key : ~isSubscribed(s, k)
    BY <2>1 DEF IndexInv, RegistryInv, IndexesAgree
  <2>. QED BY <1>2, <2>2 DEF Close, index, Joined, isSubscribed
<1>. QED BY <1>1, <1>2

LEMMA PublishMaps ==
  ASSUME IInv, NEW k \in Key, NEW m \in Msg, handleMessage(k, m)
  PROVE  F!Publish(k, m)
<1>1. /\ IndexInv
      /\ Ch \in [Session -> Seq(Msg)]
      /\ \A s \in Session : Len(Ch[s]) <= ChCap
  BY IInvIndex
<1>2. UNCHANGED Joined
  BY DEF handleMessage, index, Joined, isSubscribed
<1>3. ASSUME NEW s \in Session
      PROVE  Fill(Ch[s], m, Copies(k, s))
               = IF <<s, k>> \in Joined /\ Len(Ch[s]) < ChCap
                 THEN Append(Ch[s], m) ELSE Ch[s]
  <2>1. <<s, k>> \in Joined <=> isSubscribed(s, k)
    BY DEF Joined
  <2>2. Ch[s] \in Seq(Msg) /\ Len(Ch[s]) <= ChCap
    BY <1>1
  <2>3. CASE isSubscribed(s, k)
    BY <1>1, <2>1, <2>2, <2>3, CopiesAtMostOne, FillProperties
  <2>4. CASE ~isSubscribed(s, k)
    BY <1>1, <2>1, <2>2, <2>4, CopiesAtMostOne, FillProperties
  <2>. QED BY <2>3, <2>4
<1>4. Ch' = [s \in Session |-> IF <<s, k>> \in Joined /\ Len(Ch[s]) < ChCap
                               THEN Append(Ch[s], m) ELSE Ch[s]]
  BY <1>3 DEF handleMessage
<1>. QED BY <1>2, <1>4 DEF F!Publish

LEMMA InitMaps == Init => F!Init
BY EmptySlice DEF Init, F!Init, Joined, isSubscribed, Lookup, EmptyMap

LEMMA NextMaps == IInv /\ [Next]_vars => [F!Next]_<<Joined, Ch>>
<1>. SUFFICES ASSUME IInv, [Next]_vars PROVE [F!Next]_<<Joined, Ch>>
  OBVIOUS
<1>0. IndexInv
  BY IInvIndex
<1>1. ASSUME NEW s \in Session, NEW k \in Key, Subscribe(s, k) \/ Unsubscribe(s, k)
      PROVE  F!Join(s, k) \/ F!Leave(s, k)
  BY <1>0, <1>1, JoinedAfterSubscribe, JoinedAfterUnsubscribe
     DEF Subscribe, Unsubscribe, F!Join, F!Leave
<1>2. ASSUME NEW s \in Session, Close(s)
      PROVE  F!LeaveAll(s)
  BY <1>0, <1>2, JoinedAfterClose DEF Close, F!LeaveAll
<1>3. ASSUME NEW s \in Session, Receive(s)
      PROVE  F!Take(s)
  BY <1>3 DEF Receive, F!Take, index, Joined, isSubscribed
<1>4. CASE UNCHANGED vars
  BY <1>4 DEF vars, Joined, isSubscribed
<1>. QED BY <1>1, <1>2, <1>3, <1>4, PublishMaps DEF Next, F!Next

(* Two indexes, swap removal and non-blocking sends implement one relation *)
(* and one lossy bounded queue per session: a member with room gets every  *)
(* message exactly once, and a full queue neither delays nor starves the   *)
(* others (message.go:11-22, subscription.go:23-110).                      *)
THEOREM ImplementsFanout == Spec => FanoutSpec
<1>. QED
  BY InitIInv, NextIInv, InitMaps, NextMaps, PTL DEF Spec, FanoutSpec, F!Spec
=============================================================================
