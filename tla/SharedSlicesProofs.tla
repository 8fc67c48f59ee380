------------------------- MODULE SharedSlicesProofs -------------------------
(***************************************************************************)
(* SharedSlices proved for any conditions and any number of subscriptions: *)
(* types, Match's indexes included; which IDs a dispatch may be marked     *)
(* with; and what Match finds when the map changes under it.               *)
(***************************************************************************)
EXTENDS SharedSlices, TLAPS

Matching == pc \in {"cond", "id"}

Ids == Id \cup {None}      \* what the arrays hold
Conds == Cond \cup {None}

Pair == [id : Id, cond : Cond]
Ops ==
  {Idle} \cup [call : {"subscribe"}, cond : Cond]
         \cup [call : {"unsubscribe"}, at : Nat, keepsOrder : BOOLEAN, stored : BOOLEAN]

(* The map's arrays; the entries below n are real ones.                    *)
Arrays ==
  /\ ids \in Seq(Ids) /\ conds \in Seq(Conds) /\ n \in Nat /\ n <= Len(ids) /\ n <= Len(conds)
  /\ \A i \in 1 .. n : ids[i] \in Id /\ conds[i] \in Cond

(* A call that holds e.mx finds the places it has still to write.          *)
Call ==
  /\ op \in Ops
  /\ op # Idle /\ op.call = "subscribe" => n < Len(ids) /\ ids[n + 1] \in Id
  /\ op # Idle /\ op.call = "unsubscribe" => op.at \in 1 .. n

(* Match's copy.                                                           *)
Reading ==
  /\ view.n \in Nat
  /\ Matching => /\ view.n > 0 /\ view.ids \in Seq(Ids) /\ view.conds \in Seq(Conds)
                 /\ view.n <= Len(ViewIds) /\ view.n <= Len(ViewConds)

Rest ==
  /\ wild \in Seq(Pair) /\ next \in 1 .. MaxId + 1
  /\ then \subseteq [id : Id, cond : Cond, wild : BOOLEAN]
  /\ pc \in {"idle", "cond", "id", "done"} /\ pos \in Nat \ {0} /\ out \subseteq Ids
  /\ pc = "id" => pos <= view.n

Typed == Arrays /\ Call /\ Reading /\ Rest

(* No ID comes into the map, nor by Get into the arrays, that is not known.*)
Marked ==
  /\ out \subseteq known
  /\ Matching => /\ \A j \in 1 .. view.n : ViewIds[j] \in known
                 /\ \A j \in 1 .. n : ids[j] \in known
                 /\ op # Idle /\ op.call = "subscribe" => ids[n + 1] \in known

(* What Match has found of what its view holds.                            *)
Found ==
  Matching => /\ out = {ViewIds[j] : j \in {k \in 1 .. pos - 1 : ViewConds[k] \in Hits}}
              /\ pos <= view.n + 1
              /\ pc = "id" => ViewConds[pos] \in Hits

(* Undisturbed, Match reads what Get saw.                                  *)
Seen == {[id |-> e.id, cond |-> e.cond] : e \in then}
Copied == {[id |-> ViewIds[j], cond |-> ViewConds[j]] : j \in 1 .. view.n}

Quiet ==
  ~added /\ ~removed =>
    /\ Matching => op = Idle /\ Found /\ Seen = Copied
    /\ ExactIfQuiet

(* Without removals, an entry that stays keeps its place in the arrays     *)
(* that Match reads; where they are the map's, below n.                    *)
At(e, j) ==
  /\ ViewIds[j] = e.id /\ ViewConds[j] = e.cond
  /\ (view.ids = Shared \/ view.conds = Shared) => j <= n
  /\ j < pos => e.id \in out

Held ==
  ~removed =>
    /\ Matching => /\ op # Idle => op.call = "subscribe"
                   /\ \A e \in Wanted \ gone : ~e.wild => \E j \in 1 .. view.n : At(e, j)
    /\ pc = "done" => \A e \in Wanted \ gone : ~e.wild => e.id \in out

IInv == Typed /\ Marked /\ Quiet /\ Held
-----------------------------------------------------------------------------
(* The operators.                                                          *)

LEMMA AppendedProperties ==
  ASSUME NEW S, NEW arr \in Seq(S), NEW x \in S, None \in S, NEW smallest \in Nat \ {0},
         n \in Nat, n <= Len(arr), NEW r, r = Appended(arr, x, smallest)
  PROVE  /\ r \in Seq(S) /\ n < Len(r) /\ r[n + 1] = x
         /\ \A j \in 1 .. n : r[j] = arr[j]
         /\ Fits(arr) => Len(r) = Len(arr) /\ \A j \in 1 .. Len(arr) : j # n + 1 => r[j] = arr[j]
<1>0. Len(arr) \in Nat /\ DOMAIN arr = 1 .. Len(arr) /\ \A j \in 1 .. Len(arr) : arr[j] \in S
  OBVIOUS
<1>1. CASE Fits(arr)
  <2>1. r = [arr EXCEPT ![n + 1] = x] /\ n + 1 \in 1 .. Len(arr)
    BY <1>0, <1>1 DEF Appended, Fits
  <2>2. r \in Seq(S) /\ Len(r) = Len(arr)
    BY <2>1
  <2>3. r[n + 1] = x /\ \A j \in 1 .. Len(arr) : j # n + 1 => r[j] = arr[j]
    BY <1>0, <2>1
  <2>. QED BY <1>0, <1>1, <2>1, <2>2, <2>3
<1>2. CASE ~Fits(arr)
  <2>1. n = Len(arr)
    <3>1. ~(n < Len(arr))
      BY <1>2 DEF Fits
    <3>2. Len(arr) \in Nat
      OBVIOUS
    <3>3. \A a, b \in Nat : a <= b /\ ~(a < b) => a = b
      OBVIOUS
    <3>. QED BY <3>1, <3>2, <3>3
  <2>. DEFINE g == Grown(arr, smallest)
  <2>2. g \in Nat /\ n < g
    <3>1. CASE arr = <<>>
      BY <2>1, <3>1 DEF Grown
    <3>2. CASE arr # <<>>
      BY <1>0, <2>1, <3>2 DEF Grown
    <3>. QED BY <3>1, <3>2
  <2>3. r = [j \in 1 .. g |-> IF j <= n THEN arr[j] ELSE IF j = n + 1 THEN x ELSE None]
    BY <1>2 DEF Appended
  <2>. HIDE DEF g
  <2>4. /\ r = [j \in 1 .. g |-> r[j]]
        /\ \A j \in 1 .. g : r[j] = IF j <= n THEN arr[j] ELSE IF j = n + 1 THEN x ELSE None
    BY <2>3
  <2>5. \A j \in 1 .. g : r[j] \in S
    BY <1>0, <2>1, <2>4
  <2>6. r \in Seq(S) /\ Len(r) = g
    BY <2>2, <2>4, <2>5
  <2>. QED BY <1>0, <1>2, <2>1, <2>2, <2>4, <2>6
<1>. QED BY <1>1, <1>2

(* What the map's part of an array holds.                                 *)
Below(arr) == {arr[k] : k \in 1 .. n}

LEMMA SliceRemoveProperties ==
  ASSUME NEW S, NEW arr \in Seq(S), NEW i \in 1 .. n, NEW keepsOrder,
         n \in Nat, n <= Len(arr), NEW r, r = SliceRemove(arr, i, keepsOrder)
  PROVE  /\ r \in Seq(S) /\ Len(r) = Len(arr)
         /\ \A j \in 1 .. n : r[j] \in Below(arr)
         /\ \A j \in 1 .. Len(arr) : j > n => r[j] = arr[j]
<1>0. Len(arr) \in Nat /\ DOMAIN arr = 1 .. Len(arr) /\ \A j \in 1 .. Len(arr) : arr[j] \in S
  OBVIOUS
<1>1. \A j \in 1 .. Len(arr) :
        r[j] = IF ~(i <= j /\ j < n) THEN arr[j]
               ELSE IF keepsOrder THEN arr[j + 1]
               ELSE IF j = i THEN arr[n] ELSE arr[j]
  BY <1>0 DEF SliceRemove
<1>2. DOMAIN r = 1 .. Len(arr)
  BY <1>0 DEF SliceRemove
<1>3. r = [j \in 1 .. Len(arr) |-> r[j]]
  BY <1>0 DEF SliceRemove
<1>4. \A j \in 1 .. Len(arr) : r[j] \in S
  BY <1>0, <1>1
<1>5. r \in Seq(S) /\ Len(r) = Len(arr)
  BY <1>0, <1>3, <1>4
<1>6. \A j \in 1 .. n : r[j] \in Below(arr)
  BY <1>0, <1>1 DEF Below
<1>. QED BY <1>0, <1>1, <1>5, <1>6

(* What an array holds after Get, and what Get's copy reads.               *)
After(arr, elems) == IF CopyOf(arr, elems) = Shared THEN WithWild(arr, elems) ELSE arr
Read(arr, elems) == IF CopyOf(arr, elems) = Shared THEN After(arr, elems) ELSE CopyOf(arr, elems)

LEMMA WithWildProperties ==
  ASSUME NEW S, NEW arr \in Seq(S), NEW elems \in Seq(S), n \in Nat, n <= Len(arr),
         NEW w, w = WithWild(arr, elems)
  PROVE  /\ w \in Seq(S) /\ Len(w) = Len(arr)
         /\ \A j \in 1 .. Len(arr) : w[j] = IF n < j /\ j <= n + Len(elems) THEN elems[j - n] ELSE arr[j]
<1>0. /\ Len(arr) \in Nat /\ DOMAIN arr = 1 .. Len(arr) /\ \A j \in 1 .. Len(arr) : arr[j] \in S
      /\ Len(elems) \in Nat /\ DOMAIN elems = 1 .. Len(elems) /\ \A j \in 1 .. Len(elems) : elems[j] \in S
  OBVIOUS
<1>1. /\ w = [j \in 1 .. Len(arr) |-> w[j]]
      /\ \A j \in 1 .. Len(arr) : w[j] = IF n < j /\ j <= n + Len(elems) THEN elems[j - n] ELSE arr[j]
  BY <1>0 DEF WithWild
<1>2. \A j \in 1 .. Len(arr) : w[j] \in S
  BY <1>0, <1>1
<1>3. w \in Seq(S) /\ Len(w) = Len(arr)
  BY <1>0, <1>1, <1>2
<1>. QED BY <1>1, <1>3

LEMMA AfterProperties ==
  ASSUME NEW S, NEW arr \in Seq(S), NEW elems \in Seq(S), n \in Nat, n <= Len(arr),
         NEW a, a = After(arr, elems)
  PROVE  /\ a \in Seq(S) /\ Len(a) = Len(arr)
         /\ \A j \in 1 .. n : a[j] = arr[j]
         /\ \A j \in 1 .. Len(arr) : a[j] = arr[j] \/ \E k \in 1 .. Len(elems) : a[j] = elems[k]
<1>0. Len(arr) \in Nat /\ Len(elems) \in Nat
  OBVIOUS
<1>1. CASE a = arr
  BY <1>0, <1>1
<1>2. CASE a = WithWild(arr, elems)
  <2>1. /\ a \in Seq(S) /\ Len(a) = Len(arr)
        /\ \A j \in 1 .. Len(arr) : a[j] = IF n < j /\ j <= n + Len(elems) THEN elems[j - n] ELSE arr[j]
    BY <1>2, WithWildProperties
  <2>2. \A j \in 1 .. Len(arr) : n < j /\ j <= n + Len(elems) => j - n \in 1 .. Len(elems)
    BY <1>0
  <2>. QED BY <1>0, <2>1, <2>2
<1>. QED BY <1>1, <1>2 DEF After

LEMMA ReadProperties ==
  ASSUME NEW S, NEW arr \in Seq(S), NEW elems \in Seq(S), n \in Nat, n <= Len(arr), n + Len(elems) > 0,
         NEW r, r = Read(arr, elems)
  PROVE  /\ CopyOf(arr, elems) \in Seq(S)
         /\ r \in Seq(S) /\ n + Len(elems) <= Len(r)
         /\ \A j \in 1 .. n + Len(elems) : r[j] = IF j <= n THEN arr[j] ELSE elems[j - n]
         /\ CopyOf(arr, elems) = Shared => n > 0
<1>. DEFINE b == SubSeq(arr, 1, n)
            c == b \o elems
<1>0. Len(arr) \in Nat /\ Len(elems) \in Nat
  OBVIOUS
<1>1. b \in Seq(S) /\ Len(b) = n /\ \A j \in 1 .. n : b[j] = arr[j]
  BY <1>0
<1>. HIDE DEF b
<1>2. c \in Seq(S) /\ Len(c) = Len(b) + Len(elems)
      /\ \A j \in 1 .. Len(b) + Len(elems) : c[j] = IF j <= Len(b) THEN b[j] ELSE elems[j - Len(b)]
  <2>1. c \in Seq(S) /\ Len(c) = Len(b) + Len(elems)
    BY <1>1
  <2>2. \A j \in 1 .. Len(b) + Len(elems) : c[j] = IF j <= Len(b) THEN b[j] ELSE elems[j - Len(b)]
    BY <1>1
  <2>. QED BY <2>1, <2>2
<1>3. c # <<>>
  BY <1>1, <1>2
<1>. HIDE DEF c
<1>4. CASE n > 0 /\ n + Len(elems) <= Len(arr)
  <2>1. CopyOf(arr, elems) = Shared /\ r = WithWild(arr, elems)
    BY <1>4 DEF CopyOf, After, Read
  <2>2. /\ r \in Seq(S) /\ Len(r) = Len(arr)
        /\ \A j \in 1 .. Len(arr) : r[j] = IF n < j /\ j <= n + Len(elems) THEN elems[j - n] ELSE arr[j]
    BY <2>1, WithWildProperties
  <2>3. Shared \in Seq(S)
    BY DEF Shared
  <2>. QED BY <1>0, <1>4, <2>1, <2>2, <2>3
<1>5. CASE ~(n > 0 /\ n + Len(elems) <= Len(arr))
  <2>1. CopyOf(arr, elems) = c
    BY <1>5 DEF CopyOf, c, b
  <2>2. c # Shared
    BY <1>3 DEF Shared
  <2>3. r = c
    BY <2>1, <2>2 DEF Read
  <2>. QED BY <1>0, <1>1, <1>2, <2>1, <2>2, <2>3
<1>. QED BY <1>4, <1>5
-----------------------------------------------------------------------------
(* Match's view.                                                           *)

LEMMA ViewType ==
  ASSUME Typed, Matching
  PROVE  /\ ViewIds \in Seq(Ids) /\ view.n <= Len(ViewIds) /\ Len(ViewIds) \in Nat
         /\ ViewConds \in Seq(Conds) /\ view.n <= Len(ViewConds) /\ Len(ViewConds) \in Nat
         /\ view.n \in Nat /\ view.n > 0
         /\ ViewIds # Shared /\ ViewConds # Shared
<1>1. /\ ViewIds \in Seq(Ids) /\ view.n <= Len(ViewIds)
      /\ ViewConds \in Seq(Conds) /\ view.n <= Len(ViewConds)
      /\ view.n \in Nat /\ view.n > 0
  BY DEF Typed, Arrays, Call, Reading, Rest, ViewIds, ViewConds, Ids, Conds
<1>. HIDE DEF ViewIds, ViewConds
<1>2. Len(ViewIds) \in Nat /\ Len(ViewConds) \in Nat
  BY <1>1
<1>3. Len(ViewIds) > 0 /\ Len(ViewConds) > 0
  BY <1>1, <1>2
<1>. QED BY <1>1, <1>2, <1>3 DEF Shared

(* What the map gives up is not empty, so that no view mistakes it for the *)
(* map's own array.                                                        *)
LEMMA DetachedKeeps ==
  ASSUME Typed, Matching, NEW dropIds \in BOOLEAN, NEW dropConds \in BOOLEAN,
         view' = Detached(dropIds, dropConds)
  PROVE  /\ view'.n = view.n
         /\ view'.ids \in Seq(Ids) /\ view'.conds \in Seq(Conds)
         /\ IF dropIds \/ view.ids # Shared THEN view'.ids # Shared /\ ViewIds' = ViewIds
            ELSE view'.ids = Shared /\ ViewIds' = ids'
         /\ IF dropConds \/ view.conds # Shared THEN view'.conds # Shared /\ ViewConds' = ViewConds
            ELSE view'.conds = Shared /\ ViewConds' = conds'
<1>1. view' = [ids |-> IF dropIds THEN ViewIds ELSE view.ids,
               conds |-> IF dropConds THEN ViewConds ELSE view.conds,
               n |-> view.n]
  BY DEF Detached, Matching
<1>2. /\ view'.n = view.n /\ view'.ids = IF dropIds THEN ViewIds ELSE view.ids
      /\ view'.conds = IF dropConds THEN ViewConds ELSE view.conds
  BY <1>1
<1>3. view.ids \in Seq(Ids) /\ view.conds \in Seq(Conds)
  BY DEF Typed, Arrays, Reading, Rest
<1>4. IF dropIds \/ view.ids # Shared THEN view'.ids # Shared /\ ViewIds' = ViewIds
      ELSE view'.ids = Shared /\ ViewIds' = ids'
  <2>1. ViewIds # Shared
    BY ViewType
  <2>. QED BY <1>2, <2>1 DEF ViewIds
<1>5. IF dropConds \/ view.conds # Shared THEN view'.conds # Shared /\ ViewConds' = ViewConds
      ELSE view'.conds = Shared /\ ViewConds' = conds'
  <2>1. ViewConds # Shared
    BY ViewType
  <2>. QED BY <1>2, <2>1 DEF ViewConds
<1>. QED BY <1>2, <1>3, <1>4, <1>5, ViewType

(* An action that leaves arrays and view alone.                            *)
LEMMA ViewStays ==
  UNCHANGED <<ids, conds, view>> => ViewIds' = ViewIds /\ ViewConds' = ViewConds
BY DEF ViewIds, ViewConds
-----------------------------------------------------------------------------
(* What each call does to the arrays and to what Match reads.              *)

LEMMA SubscribeEffect ==
  ASSUME Typed, NEW c \in Cond, Subscribe(c)
  PROVE  /\ ids' \in Seq(Ids) /\ n < Len(ids') /\ ids'[n + 1] = next
         /\ \A j \in 1 .. n : ids'[j] = ids[j]
         /\ Matching =>
              /\ view'.n = view.n /\ view'.ids \in Seq(Ids) /\ view'.conds \in Seq(Conds)
              /\ ViewConds' = ViewConds /\ Len(ViewIds') = Len(ViewIds)
              /\ view'.ids = Shared => view.ids = Shared
              /\ view'.conds = Shared => view.conds = Shared
              /\ \A j \in 1 .. Len(ViewIds) :
                   \/ ViewIds'[j] = ViewIds[j]
                   \/ view.ids = Shared /\ j = n + 1 /\ ViewIds'[j] = next
<1>1. next \in Id /\ ids \in Seq(Ids) /\ n \in Nat /\ n <= Len(ids)
  BY SharedAssumption DEF Subscribe, Typed, Arrays, Rest, Id, Ids, Conds
<1>2. /\ ids' \in Seq(Ids) /\ n < Len(ids') /\ ids'[n + 1] = next
      /\ \A j \in 1 .. n : ids'[j] = ids[j]
      /\ Fits(ids) => Len(ids') = Len(ids) /\ \A j \in 1 .. Len(ids) : j # n + 1 => ids'[j] = ids[j]
  <2>1. ids' = Appended(ids, next, 2) /\ next \in Ids /\ None \in Ids
    BY <1>1 DEF Subscribe, Ids
  <2>. QED BY <1>1, <2>1, AppendedProperties
<1>3. ASSUME Matching
      PROVE  /\ view'.n = view.n /\ view'.ids \in Seq(Ids) /\ view'.conds \in Seq(Conds)
             /\ ViewConds' = ViewConds /\ Len(ViewIds') = Len(ViewIds)
             /\ view'.ids = Shared => view.ids = Shared
             /\ view'.conds = Shared => view.conds = Shared
             /\ \A j \in 1 .. Len(ViewIds) :
                   \/ ViewIds'[j] = ViewIds[j]
                   \/ view.ids = Shared /\ j = n + 1 /\ ViewIds'[j] = next
  <2>1. /\ view' = IF Fits(ids) THEN Detached(FALSE, FALSE) ELSE Detached(TRUE, FALSE)
        /\ conds' = conds
    BY DEF Subscribe, Fits, Detached
  <2>2. /\ view'.n = view.n
        /\ view'.ids \in Seq(Ids) /\ view'.conds \in Seq(Conds)
        /\ IF ~Fits(ids) \/ view.ids # Shared THEN view'.ids # Shared /\ ViewIds' = ViewIds
           ELSE view'.ids = Shared /\ ViewIds' = ids'
        /\ IF view.conds # Shared THEN view'.conds # Shared /\ ViewConds' = ViewConds
           ELSE view'.conds = Shared /\ ViewConds' = conds'
    BY <1>3, <2>1, DetachedKeeps
  <2>3. ViewConds' = ViewConds
    BY <2>1, <2>2 DEF ViewConds
  <2>4. CASE ~Fits(ids) \/ view.ids # Shared
    BY <2>2, <2>3, <2>4
  <2>5. CASE Fits(ids) /\ view.ids = Shared
    <3>1. ViewIds = ids /\ ViewIds' = ids'
      BY <2>2, <2>5 DEF ViewIds
    <3>. QED BY <1>2, <2>2, <2>3, <2>5, <3>1
  <2>. QED BY <2>4, <2>5
<1>. QED BY <1>2, <1>3

LEMMA SubscribeStoreEffect ==
  ASSUME Typed, SubscribeStore
  PROVE  /\ conds' \in Seq(Conds) /\ n < Len(conds') /\ conds'[n + 1] \in Cond
         /\ \A j \in 1 .. n : conds'[j] = conds[j]
         /\ Matching =>
              /\ view'.n = view.n /\ view'.ids \in Seq(Ids) /\ view'.conds \in Seq(Conds)
              /\ ViewIds' = ViewIds /\ Len(ViewConds') = Len(ViewConds)
              /\ view'.ids = Shared => view.ids = Shared
              /\ view'.conds = Shared => view.conds = Shared
              /\ \A j \in 1 .. Len(ViewConds) :
                   ViewConds'[j] = ViewConds[j] \/ (view.conds = Shared /\ j = n + 1)
<1>1. op.cond \in Cond /\ conds \in Seq(Conds) /\ n \in Nat /\ n <= Len(conds)
  BY DEF SubscribeStore, Typed, Arrays, Call, Reading, Rest, Ops, Ids, Conds
<1>2. /\ conds' \in Seq(Conds) /\ n < Len(conds') /\ conds'[n + 1] = op.cond
      /\ \A j \in 1 .. n : conds'[j] = conds[j]
      /\ Fits(conds) => Len(conds') = Len(conds) /\ \A j \in 1 .. Len(conds) : j # n + 1 => conds'[j] = conds[j]
  <2>1. conds' = Appended(conds, op.cond, 1) /\ op.cond \in Conds /\ None \in Conds
    BY <1>1 DEF SubscribeStore, Conds
  <2>. QED BY <1>1, <2>1, AppendedProperties
<1>3. ASSUME Matching
      PROVE  /\ view'.n = view.n /\ view'.ids \in Seq(Ids) /\ view'.conds \in Seq(Conds)
             /\ ViewIds' = ViewIds /\ Len(ViewConds') = Len(ViewConds)
             /\ view'.ids = Shared => view.ids = Shared
             /\ view'.conds = Shared => view.conds = Shared
             /\ \A j \in 1 .. Len(ViewConds) :
                  ViewConds'[j] = ViewConds[j] \/ (view.conds = Shared /\ j = n + 1)
  <2>1. /\ view' = IF Fits(conds) THEN Detached(FALSE, FALSE) ELSE Detached(FALSE, TRUE)
        /\ ids' = ids
    BY DEF SubscribeStore, Fits, Detached
  <2>2. /\ view'.n = view.n
        /\ view'.ids \in Seq(Ids) /\ view'.conds \in Seq(Conds)
        /\ IF view.ids # Shared THEN view'.ids # Shared /\ ViewIds' = ViewIds
           ELSE view'.ids = Shared /\ ViewIds' = ids'
        /\ IF ~Fits(conds) \/ view.conds # Shared THEN view'.conds # Shared /\ ViewConds' = ViewConds
           ELSE view'.conds = Shared /\ ViewConds' = conds'
    BY <1>3, <2>1, DetachedKeeps
  <2>3. ViewIds' = ViewIds
    BY <2>1, <2>2 DEF ViewIds
  <2>4. CASE ~Fits(conds) \/ view.conds # Shared
    BY <2>2, <2>3, <2>4
  <2>5. CASE Fits(conds) /\ view.conds = Shared
    <3>1. ViewConds = conds /\ ViewConds' = conds'
      BY <2>2, <2>5 DEF ViewConds
    <3>. QED BY <1>2, <2>2, <2>3, <2>5, <3>1
  <2>. QED BY <2>4, <2>5
<1>. QED BY <1>1, <1>2, <1>3

LEMMA UnsubscribeEffect ==
  ASSUME Typed, NEW i, NEW keepsOrder \in BOOLEAN, NEW stored \in BOOLEAN, Unsubscribe(i, keepsOrder, stored)
  PROVE  /\ ids' \in Seq(Ids) /\ Len(ids') = Len(ids)
         /\ \A j \in 1 .. n : ids'[j] \in Below(ids)
         /\ Matching =>
              /\ ViewConds' = ViewConds /\ Len(ViewIds') = Len(ViewIds)
              /\ \A j \in 1 .. Len(ViewIds) :
                   ViewIds'[j] = ViewIds[j] \/ ViewIds'[j] \in Below(ids)
<1>1. ids \in Seq(Ids) /\ n \in Nat /\ n <= Len(ids) /\ i \in 1 .. n
  BY DEF Unsubscribe, Typed, Arrays, Rest, Ids
<1>2. ids' = SliceRemove(ids, i, keepsOrder)
  BY DEF Unsubscribe
<1>3. UNCHANGED <<conds, view>>
  BY DEF Unsubscribe
<1>4. /\ ids' \in Seq(Ids) /\ Len(ids') = Len(ids)
      /\ \A j \in 1 .. n : ids'[j] \in Below(ids)
      /\ \A j \in 1 .. Len(ids) : j > n => ids'[j] = ids[j]
  <2>1. ids' \in Seq(Ids) /\ Len(ids') = Len(ids)
    BY <1>1, <1>2, SliceRemoveProperties
  <2>2. \A j \in 1 .. n : ids'[j] \in Below(ids)
    BY <1>1, <1>2, SliceRemoveProperties
  <2>3. \A j \in 1 .. Len(ids) : j > n => ids'[j] = ids[j]
    BY <1>1, <1>2, SliceRemoveProperties
  <2>. QED BY <2>1, <2>2, <2>3
<1>5. ViewConds' = ViewConds
  BY <1>3 DEF ViewConds
<1>6. CASE view.ids = Shared
  <2>1. ViewIds = ids /\ ViewIds' = ids'
    BY <1>3, <1>6 DEF ViewIds
  <2>2. Len(ids) \in Nat
    BY <1>1
  <2>. QED BY <1>1, <1>4, <1>5, <2>1, <2>2
<1>7. CASE view.ids # Shared
  <2>1. ViewIds' = ViewIds
    BY <1>3, <1>7 DEF ViewIds
  <2>. QED BY <1>4, <1>5, <2>1
<1>. QED BY <1>6, <1>7

LEMMA UnsubscribeStoreEffect ==
  ASSUME Typed, UnsubscribeStore
  PROVE  /\ ids' \in Seq(Ids) /\ conds' \in Seq(Conds)
         /\ n' \in Nat /\ n' <= n /\ n' <= Len(ids') /\ n' <= Len(conds')
         /\ \A j \in 1 .. n' : ids'[j] = ids[j] /\ conds'[j] \in Cond
         /\ Matching =>
              /\ view'.n = view.n /\ view'.ids \in Seq(Ids) /\ view'.conds \in Seq(Conds)
              /\ ViewIds' = ViewIds /\ Len(ViewConds') = Len(ViewConds)
<1>1. /\ ids \in Seq(Ids) /\ conds \in Seq(Conds) /\ n \in Nat /\ n <= Len(ids) /\ n <= Len(conds)
      /\ Len(ids) \in Nat /\ Len(conds) \in Nat /\ \A j \in 1 .. n : conds[j] \in Cond
      /\ op.at \in 1 .. n /\ op.keepsOrder \in BOOLEAN
  BY DEF UnsubscribeStore, Typed, Arrays, Call, Reading, Rest, Ops, Ids, Conds
<1>2. CASE op.stored /\ n = 1
  <2>1. n' = 0 /\ ids' = <<>> /\ conds' = <<>> /\ view' = Detached(TRUE, TRUE)
    BY <1>2 DEF UnsubscribeStore
  <2>2. ids' \in Seq(Ids) /\ conds' \in Seq(Conds) /\ Len(ids') = 0 /\ Len(conds') = 0
    BY <2>1
  <2>3. view' = Detached(TRUE, TRUE)
    BY <2>1
  <2>4. ASSUME Matching
        PROVE  /\ view'.n = view.n /\ view'.ids \in Seq(Ids) /\ view'.conds \in Seq(Conds)
               /\ ViewIds' = ViewIds /\ ViewConds' = ViewConds
    BY <2>3, <2>4, DetachedKeeps
  <2>5. n \in Nat /\ n' \in Nat /\ n' <= n /\ n' <= Len(ids') /\ n' <= Len(conds')
    BY <1>1, <2>1, <2>2
  <2>6. \A j \in 1 .. n' : FALSE
    BY <2>1
  <2>. QED BY <2>2, <2>4, <2>5, <2>6
<1>3. CASE ~(op.stored /\ n = 1)
  <2>1. conds' = SliceRemove(conds, op.at, op.keepsOrder) /\ UNCHANGED <<ids, view>>
        /\ n' = IF op.stored THEN n - 1 ELSE n
    BY <1>3 DEF UnsubscribeStore
  <2>2. /\ conds' \in Seq(Conds) /\ Len(conds') = Len(conds)
        /\ \A j \in 1 .. n : conds'[j] \in Below(conds)
    <3>1. conds' = SliceRemove(conds, op.at, op.keepsOrder)
      BY <2>1
    <3>2. conds \in Seq(Conds) /\ n \in Nat /\ n <= Len(conds) /\ op.at \in 1 .. n
      BY <1>1
    <3>3. conds' \in Seq(Conds) /\ Len(conds') = Len(conds)
      BY <3>1, <3>2, SliceRemoveProperties
    <3>4. \A j \in 1 .. n : conds'[j] \in Below(conds)
      BY <3>1, <3>2, SliceRemoveProperties
    <3>. QED BY <3>3, <3>4
  <2>3. n' \in Nat /\ n' <= n
    BY <1>1, <2>1
  <2>4. \A j \in 1 .. n' : ids'[j] = ids[j] /\ conds'[j] \in Cond
    BY <1>1, <2>1, <2>2, <2>3 DEF Below
  <2>5. ViewIds' = ViewIds
    BY <2>1 DEF ViewIds
  <2>6. Len(ViewConds') = Len(ViewConds)
    BY <2>1, <2>2 DEF ViewConds
  <2>7. Matching => view.ids \in Seq(Ids) /\ view.conds \in Seq(Conds)
    BY DEF Typed, Arrays, Reading, Rest
  <2>. QED BY <1>1, <2>1, <2>2, <2>3, <2>4, <2>5, <2>6, <2>7
<1>. QED BY <1>2, <1>3

LEMMA UnsubscribeAllEffect ==
  ASSUME Typed, UnsubscribeAll, Matching
  PROVE  /\ view'.n = view.n /\ view'.ids \in Seq(Ids) /\ view'.conds \in Seq(Conds)
         /\ ViewIds' = ViewIds /\ ViewConds' = ViewConds
BY DetachedKeeps DEF UnsubscribeAll

LEMMA WildTypes ==
  ASSUME Typed
  PROVE  /\ WildIds \in Seq(Ids) /\ WildConds \in Seq(Conds) /\ Len(wild) \in Nat
         /\ Len(WildIds) = Len(wild) /\ Len(WildConds) = Len(wild)
         /\ \A k \in 1 .. Len(wild) : /\ WildIds[k] = wild[k].id /\ WildConds[k] = wild[k].cond
                                      /\ wild[k].id \in Id /\ wild[k].cond \in Cond
<1>1. wild \in Seq(Pair) /\ Len(wild) \in Nat /\ DOMAIN wild = 1 .. Len(wild)
  BY DEF Typed, Arrays, Reading, Rest
<1>2. \A k \in 1 .. Len(wild) : wild[k] \in Pair
  BY <1>1
<1>3. \A k \in 1 .. Len(wild) : wild[k].id \in Id /\ wild[k].cond \in Cond
  BY <1>2 DEF Pair
<1>4. WildIds = [k \in 1 .. Len(wild) |-> wild[k].id] /\ WildConds = [k \in 1 .. Len(wild) |-> wild[k].cond]
  BY <1>1 DEF WildIds, WildConds
<1>5. WildIds \in Seq(Ids) /\ Len(WildIds) = Len(wild)
  BY <1>1, <1>3, <1>4 DEF Ids
<1>6. WildConds \in Seq(Conds) /\ Len(WildConds) = Len(wild)
  BY <1>1, <1>3, <1>4 DEF Conds
<1>. QED BY <1>1, <1>3, <1>4, <1>5, <1>6

LEMMA GetAppendsEffect ==
  ASSUME Typed, GetAppends
  PROVE  /\ ids' \in Seq(Ids) /\ Len(ids') = Len(ids) /\ conds' \in Seq(Conds) /\ Len(conds') = Len(conds)
         /\ \A j \in 1 .. n : ids'[j] = ids[j] /\ conds'[j] = conds[j]
         /\ \A j \in 1 .. Len(ids) : ids'[j] = ids[j] \/ \E k \in 1 .. Len(wild) : ids'[j] = wild[k].id
<1>1. ids \in Seq(Ids) /\ conds \in Seq(Conds) /\ n \in Nat /\ n <= Len(ids) /\ n <= Len(conds)
  BY DEF Typed, Arrays, Rest, Ids, Conds
<1>2. ids' = After(ids, WildIds) /\ conds' = After(conds, WildConds)
  BY DEF GetAppends, After
<1>3. /\ ids' \in Seq(Ids) /\ Len(ids') = Len(ids)
      /\ \A j \in 1 .. n : ids'[j] = ids[j]
      /\ \A j \in 1 .. Len(ids) : ids'[j] = ids[j] \/ \E k \in 1 .. Len(WildIds) : ids'[j] = WildIds[k]
  <2>1. /\ ids' \in Seq(Ids) /\ Len(ids') = Len(ids)
        /\ \A j \in 1 .. n : ids'[j] = ids[j]
    BY <1>1, <1>2, WildTypes, AfterProperties
  <2>2. \A j \in 1 .. Len(ids) : ids'[j] = ids[j] \/ \E k \in 1 .. Len(WildIds) : ids'[j] = WildIds[k]
    BY <1>1, <1>2, WildTypes, AfterProperties
  <2>. QED BY <2>1, <2>2
<1>4. /\ conds' \in Seq(Conds) /\ Len(conds') = Len(conds)
      /\ \A j \in 1 .. n : conds'[j] = conds[j]
  BY <1>1, <1>2, WildTypes, AfterProperties
<1>. QED BY <1>3, <1>4, WildTypes
-----------------------------------------------------------------------------
(* Types.                                                                  *)

LEMMA TypedIsType == Typed => TypeOK
<1>. SUFFICES ASSUME Typed PROVE TypeOK
  OBVIOUS
<1>1. Matching => view.n <= Len(ViewIds) /\ view.n <= Len(ViewConds)
  BY DEF Typed, Reading
<1>. QED BY <1>1 DEF Typed, TypeOK, Arrays, Reading, Rest, Matching, Ids, Conds, Pair

LEMMA InitTyped == Init => Typed
<1>. SUFFICES ASSUME Init PROVE Typed
  OBVIOUS
<1>1. ~Matching
  BY DEF Init, Matching
<1>2. <<>> \in Seq(Ids) /\ <<>> \in Seq(Conds) /\ <<>> \in Seq(Pair) /\ Len(<<>>) = 0
  OBVIOUS
<1>. QED BY <1>1, <1>2, SharedAssumption DEF Init, NoView, Typed, Arrays, Call, Reading, Rest, Ops

(* An action that leaves Match where it is.                                *)
LEMMA MatchStays == UNCHANGED match => Matching' = Matching
BY DEF match, Matching

LEMMA SubscribeType ==
  ASSUME Typed, NEW c \in Cond, Subscribe(c)
  PROVE  Typed'
<1>1. UNCHANGED <<conds, n, wild, pc, pos, out, then>>
      /\ next \in Id /\ next' \in 1 .. MaxId + 1 /\ op' = [call |-> "subscribe", cond |-> c]
  BY SharedAssumption DEF Subscribe, match, Typed, Rest, Id
<1>2. /\ ids' \in Seq(Ids) /\ n < Len(ids') /\ ids'[n + 1] = next
      /\ \A j \in 1 .. n : ids'[j] = ids[j]
  BY SubscribeEffect
<1>3. Arrays'
  BY <1>1, <1>2 DEF Typed, Arrays
<1>4. Call'
  BY <1>1, <1>2 DEF Call, Ops
<1>5. CASE Matching
  <2>1. /\ view'.n = view.n /\ view'.ids \in Seq(Ids) /\ view'.conds \in Seq(Conds)
        /\ ViewConds' = ViewConds /\ Len(ViewIds') = Len(ViewIds)
    BY <1>5, SubscribeEffect
  <2>. QED BY <1>1, <1>3, <1>4, <1>5, <2>1 DEF Typed, Reading, Rest, Matching
<1>6. CASE ~Matching
  <2>1. view' = view
    BY <1>6 DEF Subscribe, Detached, Matching
  <2>. QED BY <1>1, <1>3, <1>4, <1>6, <2>1 DEF Typed, Reading, Rest, Matching
<1>. QED BY <1>5, <1>6

LEMMA SubscribeStoreType == Typed /\ SubscribeStore => Typed'
<1>. SUFFICES ASSUME Typed, SubscribeStore PROVE Typed'
  OBVIOUS
<1>1. UNCHANGED <<ids, wild, next, pc, pos, out, then>> /\ n' = n + 1 /\ op' = Idle
      /\ n < Len(ids) /\ ids[n + 1] \in Id
  BY DEF SubscribeStore, match, hist, Typed, Call
<1>2. /\ conds' \in Seq(Conds) /\ n < Len(conds') /\ conds'[n + 1] \in Cond
      /\ \A j \in 1 .. n : conds'[j] = conds[j]
  BY SubscribeStoreEffect
<1>3. Arrays'
  BY <1>1, <1>2 DEF Typed, Arrays
<1>4. Call'
  BY <1>1 DEF Call, Ops
<1>5. CASE Matching
  <2>1. /\ view'.n = view.n /\ view'.ids \in Seq(Ids) /\ view'.conds \in Seq(Conds)
        /\ ViewIds' = ViewIds /\ Len(ViewConds') = Len(ViewConds)
    BY <1>5, SubscribeStoreEffect
  <2>. QED BY <1>1, <1>3, <1>4, <1>5, <2>1 DEF Typed, Reading, Rest, Matching
<1>6. CASE ~Matching
  <2>1. view' = view
    BY <1>6 DEF SubscribeStore, Detached, Matching
  <2>. QED BY <1>1, <1>3, <1>4, <1>6, <2>1 DEF Typed, Reading, Rest, Matching
<1>. QED BY <1>5, <1>6

LEMMA UnsubscribeType ==
  ASSUME Typed, NEW i, NEW keepsOrder \in BOOLEAN, NEW stored \in BOOLEAN, Unsubscribe(i, keepsOrder, stored)
  PROVE  Typed'
<1>1. UNCHANGED <<conds, n, wild, next, view, pc, pos, out, then>> /\ i \in 1 .. n
      /\ op' = [call |-> "unsubscribe", at |-> i, keepsOrder |-> keepsOrder, stored |-> stored]
  BY DEF Unsubscribe, match
<1>2. ids' \in Seq(Ids) /\ Len(ids') = Len(ids) /\ \A j \in 1 .. n : ids'[j] \in Below(ids)
  BY UnsubscribeEffect
<1>3. Arrays'
  BY <1>1, <1>2 DEF Typed, Arrays, Below
<1>4. Call'
  <2>1. i \in Nat
    BY <1>1 DEF Typed, Arrays
  <2>. QED BY <1>1, <2>1 DEF Call, Ops
<1>5. CASE Matching
  <2>1. ViewConds' = ViewConds /\ Len(ViewIds') = Len(ViewIds)
    BY <1>5, UnsubscribeEffect
  <2>. QED BY <1>1, <1>3, <1>4, <1>5, <2>1 DEF Typed, Reading, Rest, Matching
<1>6. CASE ~Matching
  BY <1>1, <1>3, <1>4, <1>6 DEF Typed, Reading, Rest, Matching
<1>. QED BY <1>5, <1>6

LEMMA UnsubscribeStoreType == Typed /\ UnsubscribeStore => Typed'
<1>. SUFFICES ASSUME Typed, UnsubscribeStore PROVE Typed'
  OBVIOUS
<1>1. UNCHANGED <<wild, next, pc, pos, out, then>> /\ op' = Idle
  BY DEF UnsubscribeStore, match, hist
<1>2. /\ ids' \in Seq(Ids) /\ conds' \in Seq(Conds)
      /\ n' \in Nat /\ n' <= n /\ n' <= Len(ids') /\ n' <= Len(conds')
      /\ \A j \in 1 .. n' : ids'[j] = ids[j] /\ conds'[j] \in Cond
  BY UnsubscribeStoreEffect
<1>3. Arrays'
  BY <1>1, <1>2 DEF Typed, Arrays
<1>4. Call'
  BY <1>1 DEF Call, Ops
<1>5. CASE Matching
  <2>1. /\ view'.n = view.n /\ view'.ids \in Seq(Ids) /\ view'.conds \in Seq(Conds)
        /\ ViewIds' = ViewIds /\ Len(ViewConds') = Len(ViewConds)
    BY <1>5, UnsubscribeStoreEffect
  <2>. QED BY <1>1, <1>3, <1>4, <1>5, <2>1 DEF Typed, Reading, Rest, Matching
<1>6. CASE ~Matching
  <2>1. view' = view
    BY <1>6 DEF UnsubscribeStore, Detached, Matching
  <2>. QED BY <1>1, <1>3, <1>4, <1>6, <2>1 DEF Typed, Reading, Rest, Matching
<1>. QED BY <1>5, <1>6

LEMMA UnsubscribeAllType == Typed /\ UnsubscribeAll => Typed'
<1>. SUFFICES ASSUME Typed, UnsubscribeAll PROVE Typed'
  OBVIOUS
<1>1. UNCHANGED <<wild, next, pc, pos, out, then>> /\ op = Idle /\ op' = op
      /\ n' = 0 /\ ids' = <<>> /\ conds' = <<>>
  BY DEF UnsubscribeAll, match
<1>2. <<>> \in Seq(Ids) /\ <<>> \in Seq(Conds) /\ Len(<<>>) = 0
  OBVIOUS
<1>3. Arrays'
  BY <1>1, <1>2 DEF Arrays
<1>4. Call'
  BY <1>1 DEF Call, Ops
<1>5. CASE Matching
  <2>1. /\ view'.n = view.n /\ view'.ids \in Seq(Ids) /\ view'.conds \in Seq(Conds)
        /\ ViewIds' = ViewIds /\ ViewConds' = ViewConds
    BY <1>5, UnsubscribeAllEffect
  <2>. QED BY <1>1, <1>3, <1>4, <1>5, <2>1 DEF Typed, Reading, Rest, Matching
<1>6. CASE ~Matching
  <2>1. view' = view
    BY <1>6 DEF UnsubscribeAll, Detached, Matching
  <2>. QED BY <1>1, <1>3, <1>4, <1>6, <2>1 DEF Typed, Reading, Rest, Matching
<1>. QED BY <1>5, <1>6

(* What only changes the wildcard's entries.                               *)
LEMMA WildChangeType ==
  ASSUME Typed, UNCHANGED <<ids, conds, n, op, view, match, then>>,
         wild' \in Seq(Pair), next' \in 1 .. MaxId + 1
  PROVE  Typed'
<1>1. ViewIds' = ViewIds /\ ViewConds' = ViewConds
  BY ViewStays
<1>. QED BY <1>1 DEF Typed, Arrays, Call, Reading, Rest, Matching, match

LEMMA SubscribeWildType ==
  ASSUME Typed, NEW c \in Cond, SubscribeWild(c)
  PROVE  Typed'
<1>1. next \in Id /\ next' \in 1 .. MaxId + 1 /\ wild \in Seq(Pair)
  BY SharedAssumption DEF SubscribeWild, Typed, Rest, Id
<1>2. [id |-> next, cond |-> c] \in Pair
  BY <1>1 DEF Pair
<1>3. wild' \in Seq(Pair)
  BY <1>1, <1>2 DEF SubscribeWild
<1>. QED BY <1>1, <1>3, WildChangeType DEF SubscribeWild, hist

LEMMA UnsubscribeWildType ==
  ASSUME Typed, NEW i, UnsubscribeWild(i)
  PROVE  Typed'
<1>1. wild \in Seq(Pair) /\ i \in 1 .. Len(wild) /\ Len(wild) \in Nat
  BY DEF UnsubscribeWild, Typed, Rest
<1>2. RemoveAt(wild, i) \in Seq(Pair)
  <2>1. SubSeq(wild, 1, i - 1) \in Seq(Pair)
    BY <1>1
  <2>2. SubSeq(wild, i + 1, Len(wild)) \in Seq(Pair)
    BY <1>1
  <2>. QED BY <2>1, <2>2 DEF RemoveAt
<1>3. next' \in 1 .. MaxId + 1
  BY DEF UnsubscribeWild, Typed, Rest
<1>. QED BY <1>2, <1>3, WildChangeType DEF UnsubscribeWild

(* What Get saw, and what its copy holds.                                  *)
LEMMA GetEffect ==
  ASSUME Typed, Get
  PROVE  /\ view'.n = n + Len(wild) /\ view'.n \in Nat \ {0}
         /\ view'.ids \in Seq(Ids) /\ view'.conds \in Seq(Conds)
         /\ view'.n <= Len(ViewIds') /\ view'.n <= Len(ViewConds')
         /\ \A j \in 1 .. n : ViewIds'[j] = ids[j] /\ ViewConds'[j] = conds[j]
         /\ \A k \in 1 .. Len(wild) : ViewIds'[n + k] = wild[k].id /\ ViewConds'[n + k] = wild[k].cond
<1>1. /\ ids \in Seq(Ids) /\ conds \in Seq(Conds) /\ n \in Nat /\ n <= Len(ids) /\ n <= Len(conds)
      /\ wild \in Seq(Pair)
  BY DEF Typed, Arrays, Rest
<1>2. n + Len(wild) \in Nat \ {0}
  <2>1. Len(wild) \in Nat /\ (wild # <<>> => Len(wild) > 0)
    BY <1>1
  <2>. QED BY <1>1, <2>1 DEF Get
<1>3. /\ view'.ids = CopyOf(ids, WildIds) /\ view'.conds = CopyOf(conds, WildConds)
      /\ view'.n = n + Len(wild) /\ GetAppends
  BY DEF Get
<1>4. ViewIds' = Read(ids, WildIds) /\ ViewConds' = Read(conds, WildConds)
  BY <1>3 DEF ViewIds, ViewConds, GetAppends, Read, After
<1>5. n + Len(WildIds) > 0 /\ n + Len(WildConds) > 0
  BY <1>1, <1>2, WildTypes
<1>6. /\ CopyOf(ids, WildIds) \in Seq(Ids) /\ n + Len(wild) <= Len(ViewIds')
      /\ \A j \in 1 .. n + Len(wild) : ViewIds'[j] = IF j <= n THEN ids[j] ELSE WildIds[j - n]
  <2>1. CopyOf(ids, WildIds) \in Seq(Ids) /\ n + Len(WildIds) <= Len(ViewIds')
    BY <1>1, <1>4, <1>5, WildTypes, ReadProperties
  <2>2. \A j \in 1 .. n + Len(WildIds) : ViewIds'[j] = IF j <= n THEN ids[j] ELSE WildIds[j - n]
    BY <1>1, <1>4, <1>5, WildTypes, ReadProperties
  <2>. QED BY <2>1, <2>2, WildTypes
<1>7. /\ CopyOf(conds, WildConds) \in Seq(Conds) /\ n + Len(wild) <= Len(ViewConds')
      /\ \A j \in 1 .. n + Len(wild) : ViewConds'[j] = IF j <= n THEN conds[j] ELSE WildConds[j - n]
  <2>1. CopyOf(conds, WildConds) \in Seq(Conds) /\ n + Len(WildConds) <= Len(ViewConds')
    BY <1>1, <1>4, <1>5, WildTypes, ReadProperties
  <2>2. \A j \in 1 .. n + Len(WildConds) : ViewConds'[j] = IF j <= n THEN conds[j] ELSE WildConds[j - n]
    BY <1>1, <1>4, <1>5, WildTypes, ReadProperties
  <2>. QED BY <2>1, <2>2, WildTypes
<1>8. \A j \in 1 .. n : ViewIds'[j] = ids[j] /\ ViewConds'[j] = conds[j]
  <2>. TAKE j \in 1 .. n
  <2>1. j \in 1 .. n + Len(wild) /\ j <= n
    BY <1>1, WildTypes
  <2>. QED BY <2>1, <1>6, <1>7
<1>9. \A k \in 1 .. Len(wild) : ViewIds'[n + k] = wild[k].id /\ ViewConds'[n + k] = wild[k].cond
  <2>. TAKE k \in 1 .. Len(wild)
  <2>1. n + k \in 1 .. n + Len(wild) /\ ~(n + k <= n) /\ (n + k) - n = k
    BY <1>1, WildTypes
  <2>. QED BY <2>1, <1>6, <1>7, WildTypes
<1>. QED BY <1>2, <1>3, <1>6, <1>7, <1>8, <1>9

LEMMA EntriesType == Typed => Entries \cup Wilds \subseteq [id : Id, cond : Cond, wild : BOOLEAN]
<1>. SUFFICES ASSUME Typed PROVE Entries \cup Wilds \subseteq [id : Id, cond : Cond, wild : BOOLEAN]
  OBVIOUS
<1>1. \A i \in 1 .. n : ids[i] \in Id /\ conds[i] \in Cond
  BY DEF Typed, Arrays
<1>2. DOMAIN wild = 1 .. Len(wild)
  BY DEF Typed, Rest
<1>3. Entries \subseteq [id : Id, cond : Cond, wild : BOOLEAN]
  <2>1. \A i \in 1 .. n : [id |-> ids[i], cond |-> conds[i], wild |-> FALSE] \in [id : Id, cond : Cond, wild : BOOLEAN]
    BY <1>1
  <2>. QED BY <2>1 DEF Entries
<1>4. Wilds \subseteq [id : Id, cond : Cond, wild : BOOLEAN]
  <2>1. \A i \in 1 .. Len(wild) :
          [id |-> wild[i].id, cond |-> wild[i].cond, wild |-> TRUE] \in [id : Id, cond : Cond, wild : BOOLEAN]
    BY WildTypes
  <2>. QED BY <1>2, <2>1 DEF Wilds
<1>. QED BY <1>3, <1>4

LEMMA GetType == Typed /\ Get => Typed'
<1>. SUFFICES ASSUME Typed, Get PROVE Typed'
  OBVIOUS
<1>1. UNCHANGED <<n, wild, op, next>> /\ op = Idle /\ GetAppends
      /\ pc' = "cond" /\ pos' = 1 /\ out' = {} /\ then' = Entries \cup Wilds
  BY DEF Get
<1>2. /\ ids' \in Seq(Ids) /\ Len(ids') = Len(ids) /\ conds' \in Seq(Conds) /\ Len(conds') = Len(conds)
      /\ \A j \in 1 .. n : ids'[j] = ids[j] /\ conds'[j] = conds[j]
  BY <1>1, GetAppendsEffect
<1>3. Arrays'
  BY <1>1, <1>2 DEF Typed, Arrays
<1>4. Call'
  BY <1>1 DEF Call, Ops
<1>5. Reading'
  BY GetEffect DEF Reading
<1>6. Rest'
  BY <1>1, EntriesType DEF Typed, Rest
<1>. QED BY <1>3, <1>4, <1>5, <1>6 DEF Typed

LEMMA GetElsewhereType == Typed /\ GetElsewhere => Typed'
<1>. SUFFICES ASSUME Typed, GetElsewhere PROVE Typed'
  OBVIOUS
<1>1. UNCHANGED <<n, wild, op, next, view, pc, pos, out, then>> /\ op = Idle /\ GetAppends
  BY DEF GetElsewhere, match
<1>2. /\ ids' \in Seq(Ids) /\ Len(ids') = Len(ids) /\ conds' \in Seq(Conds) /\ Len(conds') = Len(conds)
      /\ \A j \in 1 .. n : ids'[j] = ids[j] /\ conds'[j] = conds[j]
  BY <1>1, GetAppendsEffect
<1>3. Arrays'
  BY <1>1, <1>2 DEF Typed, Arrays
<1>4. Call'
  BY <1>1 DEF Call, Ops
<1>5. Len(ViewIds') = Len(ViewIds) /\ Len(ViewConds') = Len(ViewConds)
  BY <1>1, <1>2 DEF ViewIds, ViewConds
<1>6. Reading'
  BY <1>1, <1>5 DEF Typed, Reading, Matching
<1>. QED BY <1>1, <1>3, <1>4, <1>6 DEF Typed, Rest

LEMMA MatchCondType == Typed /\ MatchCond => Typed'
<1>. SUFFICES ASSUME Typed, MatchCond PROVE Typed'
  OBVIOUS
<1>1. UNCHANGED <<ids, conds, n, wild, op, next, view, out, then>> /\ pc = "cond" /\ Matching
      /\ pc' \in {"cond", "id", "done"} /\ pos' \in {pos, pos + 1} /\ (pc' = "id" => pos' = pos /\ ~(pos > view.n))
  BY DEF MatchCond, map, hist, Matching
<1>2. ViewIds' = ViewIds /\ ViewConds' = ViewConds
  BY <1>1, ViewStays
<1>. QED BY <1>1, <1>2 DEF Typed, Arrays, Call, Reading, Rest, Matching

LEMMA MatchIdType == Typed /\ MatchId => Typed'
<1>. SUFFICES ASSUME Typed, MatchId PROVE Typed'
  OBVIOUS
<1>1. UNCHANGED <<ids, conds, n, wild, op, next, view, then>> /\ pc = "id" /\ Matching
      /\ pc' = "cond" /\ pos' = pos + 1 /\ out' = out \cup {ViewIds[pos]}
  BY DEF MatchId, map, hist, Matching
<1>2. ViewIds' = ViewIds /\ ViewConds' = ViewConds
  BY <1>1, ViewStays
<1>3. pos \in 1 .. Len(ViewIds)
  BY <1>1, ViewType DEF Typed, Rest, Reading
<1>4. ViewIds[pos] \in Ids
  BY <1>1, <1>3, ViewType
<1>. QED BY <1>1, <1>2, <1>4 DEF Typed, Arrays, Call, Reading, Rest, Matching

LEMMA DoneType == Typed /\ Done => Typed'
BY DEF Done, map, NoView, Typed, Arrays, Call, Reading, Rest, Matching

LEMMA StutterType == Typed /\ UNCHANGED vars => Typed'
<1>. SUFFICES ASSUME Typed, UNCHANGED vars PROVE Typed'
  OBVIOUS
<1>1. ViewIds' = ViewIds /\ ViewConds' = ViewConds
  BY ViewStays DEF vars, map
<1>. QED BY <1>1 DEF vars, map, match, hist, Typed, Arrays, Call, Reading, Rest, Matching

(* The cases of a step.                                                    *)
LEMMA Steps ==
  [Next]_vars <=>
    \/ \E c \in Cond : Subscribe(c) \/ SubscribeWild(c)
    \/ \E i \in Id, keepsOrder, stored \in BOOLEAN : Unsubscribe(i, keepsOrder, stored)
    \/ \E i \in Id : UnsubscribeWild(i)
    \/ SubscribeStore \/ UnsubscribeStore \/ UnsubscribeAll
    \/ Get \/ GetElsewhere \/ MatchCond \/ MatchId \/ Done \/ UNCHANGED vars
BY DEF Next, Calls

LEMMA NextTyped == Typed /\ [Next]_vars => Typed'
BY Steps, SubscribeType, SubscribeStoreType, UnsubscribeType, UnsubscribeStoreType, UnsubscribeAllType,
   SubscribeWildType, UnsubscribeWildType, GetType, GetElsewhereType, MatchCondType, MatchIdType,
   DoneType, StutterType

(* Every Match stays inside both arrays of its copy, whatever calls run    *)
(* meanwhile (connection.go:299-305).                                      *)
THEOREM TypeCorrect == Spec => []TypeOK
<1>1. Spec => []Typed
  BY InitTyped, NextTyped, PTL DEF Spec
<1>. QED BY <1>1, TypedIsType, PTL
-----------------------------------------------------------------------------
(* Known IDs.                                                              *)

LEMMA SubscribeMarked ==
  ASSUME Typed, Marked, NEW c \in Cond, Subscribe(c)
  PROVE  Marked'
<1>1. UNCHANGED <<n, pc, out>> /\ known' = known \cup {next} /\ n \in Nat
  BY DEF Subscribe, match, Typed, Arrays
<1>2. out' \subseteq known'
  BY <1>1 DEF Marked
<1>3. ASSUME Matching
      PROVE  /\ \A j \in 1 .. view'.n : ViewIds'[j] \in known'
             /\ \A j \in 1 .. n : ids'[j] \in known'
             /\ ids'[n + 1] \in known'
  <2>1. \A j \in 1 .. view'.n : ViewIds'[j] \in known'
    <3>1. /\ view'.n = view.n
          /\ \A j \in 1 .. Len(ViewIds) : ViewIds'[j] = ViewIds[j] \/ ViewIds'[j] = next
      BY <1>3, SubscribeEffect
    <3>2. \A j \in 1 .. view.n : j \in 1 .. Len(ViewIds) /\ ViewIds[j] \in known
      BY <1>3, ViewType DEF Marked
    <3>. QED BY <1>1, <3>1, <3>2
  <2>2. \A j \in 1 .. n : ids'[j] \in known'
    BY <1>1, <1>3, SubscribeEffect DEF Marked
  <2>3. ids'[n + 1] \in known'
    BY <1>1, <1>3, SubscribeEffect
  <2>. QED BY <2>1, <2>2, <2>3
<1>. QED BY <1>1, <1>2, <1>3 DEF Marked, Matching

LEMMA SubscribeStoreMarked == Typed /\ Marked /\ SubscribeStore => Marked'
<1>. SUFFICES ASSUME Typed, Marked, SubscribeStore PROVE Marked'
  OBVIOUS
<1>1. UNCHANGED <<ids, pc, out, known>> /\ n' = n + 1 /\ op' = Idle /\ n \in Nat
      /\ (Matching => ids[n + 1] \in known)
  BY DEF SubscribeStore, match, hist, Typed, Arrays, Marked
<1>2. CASE Matching
  <2>1. view'.n = view.n /\ ViewIds' = ViewIds
    BY <1>2, SubscribeStoreEffect
  <2>. QED BY <1>1, <1>2, <2>1 DEF Marked, Matching
<1>3. CASE ~Matching
  BY <1>1, <1>3 DEF Marked, Matching
<1>. QED BY <1>2, <1>3

LEMMA UnsubscribeMarked ==
  ASSUME Typed, Marked, NEW i, NEW keepsOrder \in BOOLEAN, NEW stored \in BOOLEAN, Unsubscribe(i, keepsOrder, stored)
  PROVE  Marked'
<1>1. UNCHANGED <<n, view, pc, out, known>> /\ n \in Nat
      /\ op' = [call |-> "unsubscribe", at |-> i, keepsOrder |-> keepsOrder, stored |-> stored]
  BY DEF Unsubscribe, match, Typed, Arrays
<1>2. CASE Matching
  <2>1. Below(ids) \subseteq known
    BY <1>2 DEF Marked, Below
  <2>2. \A j \in 1 .. n : ids'[j] \in known
    BY <2>1, UnsubscribeEffect
  <2>3. \A j \in 1 .. view.n : ViewIds'[j] \in known
    <3>1. \A j \in 1 .. Len(ViewIds) : ViewIds'[j] = ViewIds[j] \/ ViewIds'[j] \in known
      BY <1>2, <2>1, UnsubscribeEffect
    <3>2. \A j \in 1 .. view.n : j \in 1 .. Len(ViewIds) /\ ViewIds[j] \in known
      BY <1>2, ViewType DEF Marked
    <3>. QED BY <3>1, <3>2
  <2>4. op'.call # "subscribe"
    BY <1>1
  <2>. QED BY <1>1, <2>2, <2>3, <2>4 DEF Marked
<1>3. CASE ~Matching
  BY <1>1, <1>3 DEF Marked, Matching
<1>. QED BY <1>2, <1>3

LEMMA UnsubscribeStoreMarked == Typed /\ Marked /\ UnsubscribeStore => Marked'
<1>. SUFFICES ASSUME Typed, Marked, UnsubscribeStore PROVE Marked'
  OBVIOUS
<1>1. UNCHANGED <<pc, out, known>> /\ op' = Idle
  BY DEF UnsubscribeStore, match, hist
<1>2. n \in Nat /\ n' \in Nat /\ n' <= n /\ \A j \in 1 .. n' : ids'[j] = ids[j]
  BY UnsubscribeStoreEffect DEF Typed, Arrays
<1>3. CASE Matching
  <2>1. view'.n = view.n /\ ViewIds' = ViewIds
    BY <1>3, UnsubscribeStoreEffect
  <2>. QED BY <1>1, <1>2, <1>3, <2>1 DEF Marked, Matching
<1>4. CASE ~Matching
  BY <1>1, <1>4 DEF Marked, Matching
<1>. QED BY <1>3, <1>4

LEMMA UnsubscribeAllMarked == Typed /\ Marked /\ UnsubscribeAll => Marked'
<1>. SUFFICES ASSUME Typed, Marked, UnsubscribeAll PROVE Marked'
  OBVIOUS
<1>1. UNCHANGED <<pc, out, known>> /\ op' = Idle /\ n' = 0
  BY DEF UnsubscribeAll, match
<1>2. CASE Matching
  <2>1. view'.n = view.n /\ ViewIds' = ViewIds
    BY <1>2, UnsubscribeAllEffect
  <2>. QED BY <1>1, <1>2, <2>1 DEF Marked, Matching
<1>3. CASE ~Matching
  BY <1>1, <1>3 DEF Marked, Matching
<1>. QED BY <1>2, <1>3

LEMMA GetMarked == Typed /\ Marked /\ Get => Marked'
<1>. SUFFICES ASSUME Typed, Marked, Get PROVE Marked'
  OBVIOUS
<1>1. UNCHANGED <<n, op>> /\ op = Idle /\ GetAppends /\ out' = {}
      /\ known' = {e.id : e \in Entries \cup Wilds}
  BY DEF Get
<1>2. \A j \in 1 .. n : ids[j] \in known'
  <2>. TAKE j \in 1 .. n
  <2>. DEFINE e == [id |-> ids[j], cond |-> conds[j], wild |-> FALSE]
  <2>1. e \in Entries /\ e.id = ids[j]
    BY DEF Entries
  <2>. QED BY <1>1, <2>1
<1>3. \A k \in 1 .. Len(wild) : wild[k].id \in known'
  <2>. TAKE k \in 1 .. Len(wild)
  <2>. DEFINE e == [id |-> wild[k].id, cond |-> wild[k].cond, wild |-> TRUE]
  <2>1. DOMAIN wild = 1 .. Len(wild)
    BY DEF Typed, Rest
  <2>2. e \in Wilds /\ e.id = wild[k].id
    BY <2>1 DEF Wilds
  <2>. QED BY <1>1, <2>2
<1>4. \A j \in 1 .. n : ids'[j] \in known'
  BY <1>1, <1>2, GetAppendsEffect
<1>5. \A j \in 1 .. view'.n : ViewIds'[j] \in known'
  <2>. SUFFICES ASSUME NEW j \in 1 .. n + Len(wild) PROVE ViewIds'[j] \in known'
    BY GetEffect
  <2>1. n \in Nat /\ Len(wild) \in Nat
    BY WildTypes DEF Typed, Arrays
  <2>2. CASE j <= n
    BY <1>2, <2>1, <2>2, GetEffect
  <2>3. CASE ~(j <= n)
    <3>1. j - n \in 1 .. Len(wild) /\ n + (j - n) = j
      BY <2>1, <2>3
    <3>2. ViewIds'[n + (j - n)] = wild[j - n].id
      BY <3>1, GetEffect
    <3>. QED BY <1>3, <3>1, <3>2
  <2>. QED BY <2>2, <2>3
<1>. QED BY <1>1, <1>4, <1>5 DEF Marked

LEMMA GetElsewhereMarked == Typed /\ Marked /\ GetElsewhere => Marked'
<1>. SUFFICES ASSUME Typed, Marked, GetElsewhere PROVE Marked'
  OBVIOUS
<1>1. UNCHANGED <<n, op, view, pc, out>> /\ op = Idle /\ GetAppends /\ Matching
      /\ known' = known \cup {e.id : e \in Wilds}
  BY DEF GetElsewhere, match, Matching
<1>2. \A k \in 1 .. Len(wild) : wild[k].id \in known'
  <2>. TAKE k \in 1 .. Len(wild)
  <2>. DEFINE e == [id |-> wild[k].id, cond |-> wild[k].cond, wild |-> TRUE]
  <2>1. DOMAIN wild = 1 .. Len(wild)
    BY DEF Typed, Rest
  <2>2. e \in Wilds /\ e.id = wild[k].id
    BY <2>1 DEF Wilds
  <2>. QED BY <1>1, <2>2
<1>3. \A j \in 1 .. n : ids'[j] \in known'
  BY <1>1, GetAppendsEffect DEF Marked
<1>4. \A j \in 1 .. view.n : ViewIds'[j] \in known'
  <2>1. \A j \in 1 .. view.n : ViewIds[j] \in known'
    BY <1>1 DEF Marked
  <2>2. CASE view.ids = Shared
    <3>1. ViewIds = ids /\ ViewIds' = ids'
      BY <1>1, <2>2 DEF ViewIds
    <3>2. \A j \in 1 .. view.n : j \in 1 .. Len(ids)
      BY <1>1, <3>1, ViewType
    <3>. QED BY <1>1, <1>2, <2>1, <3>1, <3>2, GetAppendsEffect
  <2>3. CASE view.ids # Shared
    BY <1>1, <2>1, <2>3 DEF ViewIds
  <2>. QED BY <2>2, <2>3
<1>. QED BY <1>1, <1>3, <1>4 DEF Marked

LEMMA MatchIdMarked == Typed /\ Marked /\ MatchId => Marked'
<1>. SUFFICES ASSUME Typed, Marked, MatchId PROVE Marked'
  OBVIOUS
<1>1. UNCHANGED <<ids, conds, n, op, view, known>> /\ pc = "id" /\ Matching /\ out' = out \cup {ViewIds[pos]}
  BY DEF MatchId, map, hist, Matching
<1>2. ViewIds' = ViewIds
  BY <1>1, ViewStays
<1>3. pos \in 1 .. view.n
  BY <1>1 DEF Typed, Rest, Reading
<1>. QED BY <1>1, <1>2, <1>3 DEF Marked

LEMMA NextMarked == Typed /\ Marked /\ [Next]_vars => Marked'
<1>1. ASSUME Typed, Marked, UNCHANGED <<ids, n, op, view, known, out>>, pc' = pc \/ pc = "cond"
      PROVE  Marked'
  <2>1. ViewIds' = ViewIds
    BY <1>1 DEF ViewIds
  <2>2. Matching' => Matching
    BY <1>1 DEF Matching
  <2>. QED BY <1>1, <2>1, <2>2 DEF Marked
<1>2. Typed /\ Marked /\ (\E c \in Cond : SubscribeWild(c)) => Marked'
  BY <1>1 DEF SubscribeWild, match, hist
<1>3. Typed /\ Marked /\ (\E i \in Id : UnsubscribeWild(i)) => Marked'
  BY <1>1 DEF UnsubscribeWild, match, hist
<1>4. Typed /\ Marked /\ MatchCond => Marked'
  BY <1>1 DEF MatchCond, map, hist
<1>5. Typed /\ Marked /\ UNCHANGED vars => Marked'
  BY <1>1 DEF vars, map, match, hist
<1>6. Typed /\ Marked /\ Done => Marked'
  BY DEF Done, Marked, Matching
<1>. QED
  BY Steps, <1>2, <1>3, <1>4, <1>5, <1>6, SubscribeMarked, SubscribeStoreMarked, UnsubscribeMarked,
     UnsubscribeStoreMarked, UnsubscribeAllMarked, GetMarked, GetElsewhereMarked, MatchIdMarked

(* A dispatch is only marked with IDs of subscriptions that were in the    *)
(* map since Get, whatever calls run meanwhile (connection.go:307).        *)
THEOREM MarksOnlyKnown == Spec => []MarksKnown
<1>1. Init => Typed /\ Marked
  BY InitTyped DEF Init, Marked, Matching
<1>2. Typed /\ Marked /\ [Next]_vars => Typed' /\ Marked'
  BY NextTyped, NextMarked
<1>3. Typed /\ Marked => MarksKnown
  BY DEF Marked, MarksKnown
<1>. QED BY <1>1, <1>2, <1>3, PTL DEF Spec
-----------------------------------------------------------------------------
(* An undisturbed Match.                                                   *)

LEMMA QuietStays ==
  ASSUME Quiet, UNCHANGED <<match, then>>, ~added' /\ ~removed' => ~added /\ ~removed,
         Matching /\ ~added /\ ~removed =>
           ViewIds' = ViewIds /\ ViewConds' = ViewConds /\ view'.n = view.n /\ op' = op
  PROVE  Quiet'
<1>1. UNCHANGED <<pc, pos, out>>
  BY DEF match
<1>2. ExactIfQuiet => ExactIfQuiet'
  BY <1>1 DEF ExactIfQuiet, Wanted
<1>3. ASSUME Matching', ~added', ~removed'
      PROVE  op' = Idle /\ Found' /\ Seen' = Copied'
  <2>1. Matching /\ ~added /\ ~removed /\ op = Idle /\ Found /\ Seen = Copied
    BY <1>1, <1>3 DEF Quiet, Matching
  <2>. QED BY <1>1, <2>1 DEF Found, Seen, Copied, Matching
<1>. QED BY <1>2, <1>3 DEF Quiet

LEMMA StoresQuiet == Typed /\ Quiet /\ (SubscribeStore \/ UnsubscribeStore) => Quiet'
<1>1. ASSUME Quiet, SubscribeStore \/ UnsubscribeStore
      PROVE  UNCHANGED <<match, then, added, removed>> /\ (Matching => added \/ removed)
  BY <1>1 DEF SubscribeStore, UnsubscribeStore, hist, Quiet
<1>. QED BY <1>1, QuietStays

LEMMA UnsubscribeAllQuiet == Typed /\ Quiet /\ UnsubscribeAll => Quiet'
<1>. SUFFICES ASSUME Typed, Quiet, UnsubscribeAll PROVE Quiet'
  OBVIOUS
<1>1. UNCHANGED <<op, match, then, added, removed>>
  BY DEF UnsubscribeAll
<1>2. Matching => ViewIds' = ViewIds /\ ViewConds' = ViewConds /\ view'.n = view.n
  BY UnsubscribeAllEffect
<1>. QED BY <1>1, <1>2, QuietStays

LEMMA WildQuiet ==
  ASSUME Quiet, UNCHANGED <<ids, conds, op, view, match, then, added, removed>>
  PROVE  Quiet'
BY QuietStays, ViewStays

LEMMA GetElsewhereQuiet == Quiet /\ GetElsewhere => Quiet'
<1>. SUFFICES ASSUME Quiet, GetElsewhere PROVE Quiet'
  OBVIOUS
<1>1. UNCHANGED <<op, view, match, then, removed>> /\ pc \in {"cond", "id"}
  BY DEF GetElsewhere
<1>2. CASE ids' = ids /\ conds' = conds
  <2>1. added' = (added \/ FALSE)
    BY <1>2 DEF GetElsewhere
  <2>. QED BY <1>1, <1>2, <2>1, QuietStays, ViewStays
<1>3. CASE ~(ids' = ids /\ conds' = conds)
  <2>1. added' = TRUE
    BY <1>3 DEF GetElsewhere
  <2>. QED BY <2>1 DEF Quiet
<1>. QED BY <1>2, <1>3

LEMMA GetQuiet == Typed /\ Get => Quiet'
<1>. SUFFICES ASSUME Typed, Get PROVE Quiet'
  OBVIOUS
<1>1. /\ op' = Idle /\ pc' = "cond" /\ pos' = 1 /\ out' = {} /\ then' = Entries \cup Wilds
      /\ n \in Nat /\ Len(wild) \in Nat /\ DOMAIN wild = 1 .. Len(wild)
  BY DEF Get, Typed, Arrays, Rest
<1>2. Found'
  BY <1>1, GetEffect DEF Found, Matching
<1>3. Seen' \subseteq Copied'
  <2>. SUFFICES ASSUME NEW e \in Entries \cup Wilds
                PROVE  [id |-> e.id, cond |-> e.cond] \in Copied'
    BY <1>1 DEF Seen
  <2>1. CASE e \in Entries
    <3>1. PICK i \in 1 .. n : e = [id |-> ids[i], cond |-> conds[i], wild |-> FALSE]
      BY <2>1 DEF Entries
    <3>2. i \in 1 .. n + Len(wild) /\ ViewIds'[i] = ids[i] /\ ViewConds'[i] = conds[i]
      BY <1>1, GetEffect
    <3>3. e.id = ids[i] /\ e.cond = conds[i]
      BY <3>1
    <3>. QED BY <3>2, <3>3, GetEffect DEF Copied
  <2>2. CASE e \in Wilds
    <3>1. PICK k \in 1 .. Len(wild) : e = [id |-> wild[k].id, cond |-> wild[k].cond, wild |-> TRUE]
      BY <1>1, <2>2 DEF Wilds
    <3>2. n + k \in 1 .. n + Len(wild) /\ ViewIds'[n + k] = e.id /\ ViewConds'[n + k] = e.cond
      BY <1>1, <3>1, GetEffect
    <3>. QED BY <3>2, GetEffect DEF Copied
  <2>. QED BY <2>1, <2>2
<1>4. Copied' \subseteq Seen'
  <2>. SUFFICES ASSUME NEW j \in 1 .. n + Len(wild)
                PROVE  [id |-> ViewIds'[j], cond |-> ViewConds'[j]] \in Seen'
    BY GetEffect DEF Copied
  <2>1. \A e \in Entries \cup Wilds : [id |-> e.id, cond |-> e.cond] \in Seen'
    BY <1>1 DEF Seen
  <2>2. CASE j <= n
    <3>. DEFINE e == [id |-> ids[j], cond |-> conds[j], wild |-> FALSE]
    <3>1. j \in 1 .. n
      BY <1>1, <2>2
    <3>2. e \in Entries
      BY <3>1 DEF Entries
    <3>3. e.id = ViewIds'[j] /\ e.cond = ViewConds'[j]
      BY <3>1, GetEffect
    <3>. HIDE DEF e
    <3>. QED BY <2>1, <3>2, <3>3
  <2>3. CASE ~(j <= n)
    <3>. DEFINE k == j - n
                e == [id |-> wild[k].id, cond |-> wild[k].cond, wild |-> TRUE]
    <3>1. k \in 1 .. Len(wild) /\ n + k = j
      BY <1>1, <2>3
    <3>2. e \in Wilds
      BY <1>1, <3>1 DEF Wilds
    <3>. HIDE DEF k
    <3>3. e.id = ViewIds'[j] /\ e.cond = ViewConds'[j]
      BY <3>1, GetEffect
    <3>. HIDE DEF e
    <3>. QED BY <2>1, <3>2, <3>3
  <2>. QED BY <2>2, <2>3
<1>. QED BY <1>1, <1>2, <1>3, <1>4 DEF Quiet, ExactIfQuiet

LEMMA MatchCondQuiet == Typed /\ Quiet /\ MatchCond => Quiet'
<1>. SUFFICES ASSUME Typed, Quiet, MatchCond, ~added, ~removed PROVE Quiet'
  BY DEF MatchCond, hist, Quiet
<1>1. /\ UNCHANGED <<ids, conds, n, op, view, out, then, added, removed>> /\ pc = "cond" /\ Matching
      /\ pos \in Nat \ {0} /\ view.n \in Nat
  BY DEF MatchCond, map, hist, Matching, Typed, Reading, Rest
<1>2. ViewIds' = ViewIds /\ ViewConds' = ViewConds
  BY <1>1, ViewStays
<1>3. op = Idle /\ Seen = Copied /\ Found
  BY <1>1 DEF Quiet
<1>4. pos <= view.n + 1 /\ out = {ViewIds[j] : j \in {k \in 1 .. pos - 1 : ViewConds[k] \in Hits}}
  BY <1>1, <1>3 DEF Found
<1>5. Seen' = Seen /\ Copied' = Copied
  BY <1>1, <1>2 DEF Seen, Copied
<1>6. CASE pos > view.n
  <2>1. pc' = "done"
    BY <1>6 DEF MatchCond
  <2>2. pos - 1 = view.n
    BY <1>1, <1>4, <1>6
  <2>3. out = {ViewIds[j] : j \in {k \in 1 .. view.n : ViewConds[k] \in Hits}}
    BY <1>4, <2>2
  <2>4. \A e \in then : \E j \in 1 .. view.n : ViewIds[j] = e.id /\ ViewConds[j] = e.cond
    <3>. TAKE e \in then
    <3>1. [id |-> e.id, cond |-> e.cond] \in Copied
      BY <1>3 DEF Seen
    <3>. QED BY <3>1 DEF Copied
  <2>5. \A j \in 1 .. view.n : \E e \in then : ViewIds[j] = e.id /\ ViewConds[j] = e.cond
    <3>. TAKE j \in 1 .. view.n
    <3>1. [id |-> ViewIds[j], cond |-> ViewConds[j]] \in Seen
      BY <1>3 DEF Copied
    <3>. QED BY <3>1 DEF Seen
  <2>6. out = {e.id : e \in Wanted}
    BY <2>3, <2>4, <2>5 DEF Wanted
  <2>7. ExactIfQuiet'
    BY <1>1, <2>6 DEF ExactIfQuiet, Wanted
  <2>. QED BY <2>1, <2>7 DEF Quiet, Matching
<1>7. CASE ~(pos > view.n) /\ ViewConds[pos] \in Hits
  <2>1. pc' = "id" /\ pos' = pos
    BY <1>7 DEF MatchCond
  <2>2. Found'
    BY <1>1, <1>2, <1>4, <1>7, <2>1 DEF Found
  <2>. QED BY <1>1, <1>3, <1>5, <2>1, <2>2 DEF Quiet, ExactIfQuiet
<1>8. CASE ~(pos > view.n) /\ ViewConds[pos] \notin Hits
  <2>1. pc' = "cond" /\ pos' = pos + 1
    BY <1>1, <1>8 DEF MatchCond
  <2>2. {k \in 1 .. pos' - 1 : ViewConds[k] \in Hits} = {k \in 1 .. pos - 1 : ViewConds[k] \in Hits}
    BY <1>1, <1>8, <2>1
  <2>3. Found'
    BY <1>1, <1>2, <1>4, <1>8, <2>1, <2>2 DEF Found
  <2>. QED BY <1>1, <1>3, <1>5, <2>1, <2>3 DEF Quiet, ExactIfQuiet
<1>. QED BY <1>6, <1>7, <1>8

LEMMA MatchIdQuiet == Typed /\ Quiet /\ MatchId => Quiet'
<1>. SUFFICES ASSUME Typed, Quiet, MatchId, ~added, ~removed PROVE Quiet'
  BY DEF MatchId, hist, Quiet
<1>1. /\ UNCHANGED <<ids, conds, n, op, view, then, added, removed>> /\ pc = "id" /\ Matching
      /\ out' = out \cup {ViewIds[pos]} /\ pos' = pos + 1 /\ pc' = "cond"
      /\ pos \in Nat \ {0} /\ view.n \in Nat /\ pos <= view.n
  BY DEF MatchId, map, hist, Matching, Typed, Reading, Rest
<1>2. ViewIds' = ViewIds /\ ViewConds' = ViewConds
  BY <1>1, ViewStays
<1>3. op = Idle /\ Seen = Copied /\ Found
  BY <1>1 DEF Quiet
<1>4. ViewConds[pos] \in Hits /\ out = {ViewIds[j] : j \in {k \in 1 .. pos - 1 : ViewConds[k] \in Hits}}
  BY <1>1, <1>3 DEF Found
<1>5. Seen' = Seen /\ Copied' = Copied
  BY <1>1, <1>2 DEF Seen, Copied
<1>6. {k \in 1 .. pos' - 1 : ViewConds[k] \in Hits} = {k \in 1 .. pos - 1 : ViewConds[k] \in Hits} \cup {pos}
  BY <1>1, <1>4
<1>7. Found'
  BY <1>1, <1>2, <1>4, <1>6 DEF Found
<1>. QED BY <1>1, <1>3, <1>5, <1>7 DEF Quiet, ExactIfQuiet

LEMMA NextQuiet == Typed /\ Quiet /\ [Next]_vars => Quiet'
<1>1. \A c \in Cond : Subscribe(c) => Quiet'
  BY DEF Subscribe, Quiet
<1>2. \A i \in Id, keepsOrder, stored \in BOOLEAN : Unsubscribe(i, keepsOrder, stored) => Quiet'
  BY DEF Unsubscribe, Quiet
<1>3. Quiet /\ (\E c \in Cond : SubscribeWild(c)) => Quiet'
  BY WildQuiet DEF SubscribeWild, hist
<1>4. Quiet /\ (\E i \in Id : UnsubscribeWild(i)) => Quiet'
  BY WildQuiet DEF UnsubscribeWild
<1>5. Quiet /\ UNCHANGED vars => Quiet'
  BY WildQuiet DEF vars, map, hist
<1>6. Done => Quiet'
  BY DEF Done, Quiet, ExactIfQuiet, Matching
<1>. QED
  BY Steps, <1>1, <1>2, <1>3, <1>4, <1>5, <1>6, StoresQuiet, UnsubscribeAllQuiet, GetQuiet,
     GetElsewhereQuiet, MatchCondQuiet, MatchIdQuiet

(* A Match during which no call writes to its type's arrays finds exactly  *)
(* what matches of what Get saw (connection.go:239-265, 298-314).          *)
THEOREM ExactUndisturbed == Spec => []ExactIfQuiet
<1>1. Init => Typed /\ Quiet
  BY InitTyped DEF Init, Quiet, ExactIfQuiet, Matching
<1>2. Typed /\ Quiet /\ [Next]_vars => Typed' /\ Quiet'
  BY NextTyped, NextQuiet
<1>3. Typed /\ Quiet => ExactIfQuiet
  BY DEF Quiet, ExactIfQuiet
<1>. QED BY <1>1, <1>2, <1>3, PTL DEF Spec
-----------------------------------------------------------------------------
(* What stays keeps its place.                                             *)

(* Held of one entry that Get saw of the type itself.                      *)
Kept(e) == e \in Wanted \ gone /\ ~e.wild

LEMMA HeldStays ==
  ASSUME Held, UNCHANGED <<match, then, removed>>, gone \subseteq gone',
         Matching /\ ~removed => op' = op \/ op' = Idle \/ op'.call = "subscribe",
         ASSUME Matching, ~removed, NEW e, Kept(e), Kept(e)', NEW j \in 1 .. view.n, At(e, j)
         PROVE  j \in 1 .. view'.n /\ At(e, j)'
  PROVE  Held'
<1>1. UNCHANGED <<pc, pos, out>>
  BY DEF match
<1>2. Wanted' = Wanted /\ Wanted' \ gone' \subseteq Wanted \ gone
  BY DEF Wanted
<1>3. \A e : Kept(e)' => Kept(e)
  BY <1>2 DEF Kept
<1>4. ASSUME Matching', ~removed'
      PROVE  /\ op' # Idle => op'.call = "subscribe"
             /\ \A e \in Wanted' \ gone' : ~e.wild => \E j \in 1 .. view'.n : At(e, j)'
  <2>1. Matching /\ ~removed
    BY <1>1, <1>4 DEF Matching
  <2>2. op' # Idle => op'.call = "subscribe"
    BY <2>1 DEF Held
  <2>3. ASSUME NEW e \in Wanted' \ gone', ~e.wild
        PROVE  \E j \in 1 .. view'.n : At(e, j)'
    <3>1. Kept(e)' /\ Kept(e)
      BY <1>3, <2>3 DEF Kept
    <3>2. PICK j \in 1 .. view.n : At(e, j)
      BY <2>1, <3>1 DEF Held, Kept
    <3>. QED BY <2>1, <3>1, <3>2
  <2>. QED BY <2>2, <2>3
<1>5. ASSUME pc' = "done", ~removed'
      PROVE  \A e \in Wanted' \ gone' : ~e.wild => e.id \in out'
  BY <1>1, <1>2, <1>5 DEF Held
<1>. QED BY <1>4, <1>5 DEF Held

LEMMA SubscribeHeld ==
  ASSUME Typed, Held, NEW c \in Cond, Subscribe(c)
  PROVE  Held'
<1>1. UNCHANGED <<n, pos, out, match, then, gone, removed>> /\ op'.call = "subscribe"
      /\ n \in Nat /\ view.n \in Nat
  BY DEF Subscribe, match, Typed, Arrays, Reading
<1>2. ASSUME Matching, ~removed, NEW e, Kept(e), Kept(e)', NEW j \in 1 .. view.n, At(e, j)
      PROVE  j \in 1 .. view'.n /\ At(e, j)'
  <2>1. /\ view'.n = view.n /\ ViewConds' = ViewConds
        /\ (view'.ids = Shared => view.ids = Shared) /\ (view'.conds = Shared => view.conds = Shared)
    BY <1>2, SubscribeEffect
  <2>2. ViewIds'[j] = ViewIds[j] \/ (view.ids = Shared /\ j = n + 1)
    <3>1. j \in 1 .. Len(ViewIds)
      BY <1>1, <1>2, ViewType
    <3>. QED BY <1>2, <3>1, SubscribeEffect
  <2>3. ViewIds'[j] = ViewIds[j]
    BY <1>1, <1>2, <2>2 DEF At
  <2>. QED BY <1>1, <1>2, <2>1, <2>3 DEF At
<1>. QED BY <1>1, <1>2, HeldStays

LEMMA SubscribeStoreHeld == Typed /\ Held /\ SubscribeStore => Held'
<1>. SUFFICES ASSUME Typed, Held, SubscribeStore PROVE Held'
  OBVIOUS
<1>1. UNCHANGED <<pos, out, match, then, gone, removed>> /\ op' = Idle /\ n' = n + 1
      /\ n \in Nat /\ view.n \in Nat
  BY DEF SubscribeStore, match, hist, Typed, Arrays, Reading
<1>2. ASSUME Matching, ~removed, NEW e, Kept(e), Kept(e)', NEW j \in 1 .. view.n, At(e, j)
      PROVE  j \in 1 .. view'.n /\ At(e, j)'
  <2>1. /\ view'.n = view.n /\ ViewIds' = ViewIds
        /\ (view'.ids = Shared => view.ids = Shared) /\ (view'.conds = Shared => view.conds = Shared)
    BY <1>2, SubscribeStoreEffect
  <2>2. ViewConds'[j] = ViewConds[j] \/ (view.conds = Shared /\ j = n + 1)
    <3>1. j \in 1 .. Len(ViewConds)
      BY <1>1, <1>2, ViewType
    <3>. QED BY <1>2, <3>1, SubscribeStoreEffect
  <2>3. ViewConds'[j] = ViewConds[j]
    BY <1>1, <1>2, <2>2 DEF At
  <2>4. (view.ids = Shared \/ view.conds = Shared) => j <= n'
    BY <1>1, <1>2 DEF At
  <2>. QED BY <1>1, <1>2, <2>1, <2>3, <2>4 DEF At
<1>. QED BY <1>1, <1>2, HeldStays

LEMMA UnsubscribeStoreHeld == Held /\ UnsubscribeStore => Held'
<1>. SUFFICES ASSUME Held, UnsubscribeStore PROVE Held'
  OBVIOUS
<1>1. UNCHANGED <<match, then, gone, removed>> /\ op # Idle /\ op.call = "unsubscribe" /\ op' = Idle
  BY DEF UnsubscribeStore, hist
<1>2. Matching => removed
  BY <1>1 DEF Held
<1>. QED BY <1>1, <1>2, HeldStays

LEMMA UnsubscribeAllHeld == Held /\ UnsubscribeAll => Held'
<1>. SUFFICES ASSUME Held, UnsubscribeAll PROVE Held'
  OBVIOUS
<1>1. UNCHANGED <<op, match, then, removed>> /\ gone' = gone \cup {e \in then : ~e.wild}
  BY DEF UnsubscribeAll
<1>2. \A e : ~Kept(e)'
  BY <1>1 DEF Kept, Wanted
<1>. QED BY <1>1, <1>2, HeldStays

LEMMA WildHeld ==
  ASSUME Held, UNCHANGED <<ids, conds, n, op, view, match, then, removed>>, gone \subseteq gone'
  PROVE  Held'
<1>1. \A e, j : At(e, j) => At(e, j)'
  BY ViewStays DEF At, match
<1>. QED BY <1>1, HeldStays

LEMMA GetElsewhereHeld == Typed /\ Held /\ GetElsewhere => Held'
<1>. SUFFICES ASSUME Typed, Held, GetElsewhere PROVE Held'
  OBVIOUS
<1>1. UNCHANGED <<n, op, view, pos, out, match, then, gone, removed>> /\ n \in Nat /\ view.n \in Nat
  BY DEF GetElsewhere, match, Typed, Arrays, Reading
<1>2. \A j \in 1 .. n : ids'[j] = ids[j] /\ conds'[j] = conds[j]
  BY GetAppendsEffect DEF GetElsewhere
<1>3. ASSUME Matching, ~removed, NEW e, Kept(e), Kept(e)', NEW j \in 1 .. view.n, At(e, j)
      PROVE  j \in 1 .. view'.n /\ At(e, j)'
  <2>1. ViewIds'[j] = ViewIds[j] /\ ViewConds'[j] = ViewConds[j]
    BY <1>1, <1>2, <1>3 DEF At, ViewIds, ViewConds
  <2>. QED BY <1>1, <1>3, <2>1 DEF At
<1>. QED BY <1>1, <1>3, HeldStays

LEMMA GetHeld == Typed /\ Get => Held'
<1>. SUFFICES ASSUME Typed, Get PROVE Held'
  OBVIOUS
<1>1. /\ op' = Idle /\ pc' = "cond" /\ pos' = 1 /\ then' = Entries \cup Wilds /\ n' = n
      /\ n \in Nat /\ Len(wild) \in Nat
  BY WildTypes DEF Get, Typed, Arrays
<1>2. ASSUME NEW e \in Entries \cup Wilds, ~e.wild
      PROVE  \E j \in 1 .. view'.n : At(e, j)'
  <2>1. e \in Entries
    BY <1>2 DEF Wilds
  <2>2. PICK i \in 1 .. n : e = [id |-> ids[i], cond |-> conds[i], wild |-> FALSE]
    BY <2>1 DEF Entries
  <2>3. ViewIds'[i] = ids[i] /\ ViewConds'[i] = conds[i] /\ i \in 1 .. view'.n
    BY <1>1, GetEffect
  <2>4. e.id = ids[i] /\ e.cond = conds[i]
    BY <2>2
  <2>. QED BY <1>1, <2>3, <2>4 DEF At
<1>3. \A e \in Wanted' \ gone' : e \in Entries \cup Wilds
  BY <1>1 DEF Wanted
<1>. QED BY <1>1, <1>2, <1>3 DEF Held

LEMMA MatchCondHeld == Typed /\ Held /\ MatchCond => Held'
<1>. SUFFICES ASSUME Typed, Held, MatchCond, ~removed PROVE Held'
  BY DEF MatchCond, hist, Held
<1>1. /\ UNCHANGED <<ids, conds, n, op, view, out, then, gone, removed>> /\ pc = "cond" /\ Matching
      /\ pos \in Nat \ {0} /\ view.n \in Nat
  BY DEF MatchCond, map, hist, Matching, Typed, Reading, Rest
<1>2. ViewIds' = ViewIds /\ ViewConds' = ViewConds /\ Wanted' = Wanted
  BY <1>1, ViewStays DEF Wanted
<1>3. /\ op # Idle => op.call = "subscribe"
      /\ \A e \in Wanted \ gone : ~e.wild => \E j \in 1 .. view.n : At(e, j)
  BY <1>1 DEF Held
<1>4. CASE pos > view.n
  <2>1. pc' = "done"
    BY <1>4 DEF MatchCond
  <2>2. \A e \in Wanted \ gone : ~e.wild => e.id \in out
    BY <1>1, <1>3, <1>4 DEF At
  <2>. QED BY <1>1, <1>2, <2>1, <2>2 DEF Held, Matching
<1>5. CASE ~(pos > view.n) /\ ViewConds[pos] \in Hits
  <2>1. pc' = "id" /\ pos' = pos
    BY <1>5 DEF MatchCond
  <2>2. \A e, j : At(e, j) => At(e, j)'
    BY <1>1, <1>2, <2>1 DEF At
  <2>. QED BY <1>1, <1>2, <1>3, <2>1, <2>2 DEF Held
<1>6. CASE ~(pos > view.n) /\ ViewConds[pos] \notin Hits
  <2>1. pc' = "cond" /\ pos' = pos + 1
    BY <1>1, <1>6 DEF MatchCond
  <2>2. ASSUME NEW e \in Wanted, NEW j \in 1 .. view.n, At(e, j)
        PROVE  At(e, j)'
    <3>1. j # pos
      BY <1>6, <2>2 DEF At, Wanted
    <3>2. j < pos' => j < pos
      BY <1>1, <2>1, <3>1
    <3>. QED BY <1>1, <1>2, <2>2, <3>2 DEF At
  <2>. QED BY <1>1, <1>2, <1>3, <2>1, <2>2 DEF Held
<1>. QED BY <1>4, <1>5, <1>6

LEMMA MatchIdHeld == Typed /\ Held /\ MatchId => Held'
<1>. SUFFICES ASSUME Typed, Held, MatchId, ~removed PROVE Held'
  BY DEF MatchId, hist, Held
<1>1. /\ UNCHANGED <<ids, conds, n, op, view, then, gone, removed>> /\ pc = "id" /\ Matching
      /\ out' = out \cup {ViewIds[pos]} /\ pos' = pos + 1 /\ pc' = "cond"
      /\ pos \in Nat \ {0} /\ view.n \in Nat
  BY DEF MatchId, map, hist, Matching, Typed, Reading, Rest
<1>2. ViewIds' = ViewIds /\ ViewConds' = ViewConds /\ Wanted' = Wanted
  BY <1>1, ViewStays DEF Wanted
<1>3. /\ op # Idle => op.call = "subscribe"
      /\ \A e \in Wanted \ gone : ~e.wild => \E j \in 1 .. view.n : At(e, j)
  BY <1>1 DEF Held
<1>4. ASSUME NEW e, NEW j \in 1 .. view.n, At(e, j)
      PROVE  At(e, j)'
  <2>1. j < pos' => e.id \in out'
    <3>1. CASE j = pos
      BY <1>1, <1>4, <3>1 DEF At
    <3>2. CASE j # pos
      BY <1>1, <1>4, <3>2 DEF At
    <3>. QED BY <3>1, <3>2
  <2>. QED BY <1>1, <1>2, <1>4, <2>1 DEF At
<1>. QED BY <1>1, <1>2, <1>3, <1>4 DEF Held

LEMMA NextHeld == Typed /\ Held /\ [Next]_vars => Held'
<1>1. \A i \in Id, keepsOrder, stored \in BOOLEAN : Unsubscribe(i, keepsOrder, stored) => Held'
  BY DEF Unsubscribe, Held
<1>2. Held /\ (\E c \in Cond : SubscribeWild(c)) => Held'
  BY WildHeld DEF SubscribeWild, hist
<1>3. Held /\ (\E i \in Id : UnsubscribeWild(i)) => Held'
  BY WildHeld DEF UnsubscribeWild
<1>4. Held /\ UNCHANGED vars => Held'
  BY WildHeld DEF vars, map, hist
<1>5. Done => Held'
  BY DEF Done, Held, Matching
<1>. QED
  BY Steps, <1>1, <1>2, <1>3, <1>4, <1>5, SubscribeHeld, SubscribeStoreHeld, UnsubscribeStoreHeld,
     UnsubscribeAllHeld, GetHeld, GetElsewhereHeld, MatchCondHeld, MatchIdHeld

(* New subscriptions alone never hide one of the type that stays; a        *)
(* wildcard's is missed only after a write to the arrays                   *)
(* (connection.go:141-143, 259-261).                                       *)
THEOREM MissesNothingElse == Spec => []NothingMissed
<1>1. Init => IInv
  BY InitTyped DEF Init, IInv, Marked, Quiet, ExactIfQuiet, Held, Matching
<1>2. IInv /\ [Next]_vars => IInv'
  BY NextTyped, NextMarked, NextQuiet, NextHeld DEF IInv
<1>3. IInv => NothingMissed
  <2>. SUFFICES ASSUME IInv, pc = "done", NEW e \in Wanted \ gone, ~removed, ~(added /\ e.wild)
                PROVE  e.id \in out
    BY DEF NothingMissed
  <2>1. CASE ~e.wild
    BY <2>1 DEF IInv, Held
  <2>2. CASE ~added
    BY <2>2 DEF IInv, Quiet, ExactIfQuiet
  <2>. QED BY <2>1, <2>2
<1>. QED BY <1>1, <1>2, <1>3, PTL DEF Spec
=============================================================================
