---------------------------- MODULE SharedSlices ----------------------------
(***************************************************************************)
(* connection.go: what Match reads while the map changes.                  *)
(*                                                                         *)
(* Get copies the slice headers of an event type under e.mx and appends    *)
(* those of its wildcard type; Match then ranges over the copy with no     *)
(* lock.  The copy shares its arrays with the map, so Subscribe and the    *)
(* unsubscribing calls of other goroutines, which write the ID array and   *)
(* then the Conditions array, show through, and so does a Subscribe that   *)
(* appends where Get put the wildcard's elements.                          *)
(*                                                                         *)
(*   ids, conds  the arrays behind m[t].ID and m[t].Conditions, with their *)
(*               spare capacity; n their common length in the map          *)
(*   wild        the entries of the wildcard type, which Get only copies   *)
(*   op          the call that holds e.mx between its two writes           *)
(*   view        Get's copy: for each slice Shared, or an array that the   *)
(*               map does not use (any more); and their length             *)
(*   pc, pos     where Match is; out the IDs it has found                  *)
(*   next        the next subscription ID                                  *)
(*                                                                         *)
(* History since Get: then, the entries Get saw; gone, those unsubscribed; *)
(* known, IDs that were in the map; added and removed, whether a call      *)
(* wrote to the arrays to subscribe (or to get) or to unsubscribe.         *)
(***************************************************************************)
EXTENDS Integers, Sequences, SequencesExt

CONSTANTS
  Cond,      \* conditions; each matches itself alone
  Hits,      \* those that match the dispatch
  MaxId,     \* bound: subscriptions ever made
  MaxWild    \* bound: subscriptions of the wildcard type at once

ASSUME SharedAssumption == Hits \subseteq Cond /\ MaxId \in Nat /\ MaxWild \in Nat

VARIABLES ids, conds, n, wild, op, view, pc, pos, out, next,
          then, gone, known, added, removed

map == <<ids, conds, n, wild, op, next>>
match == <<pc, pos, out>>
hist == <<then, gone, known, added, removed>>

vars == <<map, view, match, hist>>

None == 0        \* what an array holds where nothing was written yet
Shared == <<>>   \* of a view's slice: the map's own array
Idle == <<>>     \* of op: e.mx is free

Id == 1 .. MaxId
Entries == {[id |-> ids[i], cond |-> conds[i], wild |-> FALSE] : i \in 1 .. n}
Wilds == {[id |-> wild[i].id, cond |-> wild[i].cond, wild |-> TRUE] : i \in DOMAIN wild}

(* The arrays a view reads.                                                *)
ViewIds == IF view.ids = Shared THEN ids ELSE view.ids
ViewConds == IF view.conds = Shared THEN conds ELSE view.conds

(* Types; Match finds every index of its copy inside both arrays.          *)
TypeOK ==
  /\ ids \in Seq(Id \cup {None}) /\ conds \in Seq(Cond \cup {None})
  /\ n \in Nat /\ n <= Len(ids) /\ n <= Len(conds)
  /\ wild \in Seq([id : Id, cond : Cond]) /\ next \in 1 .. MaxId + 1
  /\ pc \in {"idle", "cond", "id", "done"} /\ out \subseteq Id \cup {None}
  /\ pc \in {"cond", "id"} => view.n <= Len(ViewIds) /\ view.n <= Len(ViewConds)
  /\ pc = "id" => pos \in 1 .. view.n

NoView == [ids |-> Shared, conds |-> Shared, n |-> 0]

Init ==
  /\ ids = <<>> /\ conds = <<>> /\ n = 0 /\ wild = <<>> /\ op = Idle /\ next = 1
  /\ view = NoView /\ pc = "idle" /\ pos = 1 /\ out = {}
  /\ then = {} /\ gone = {} /\ known = {} /\ added = FALSE /\ removed = FALSE
-----------------------------------------------------------------------------
Fits(arr) == n < Len(arr)

\* mutant: the new array is no larger than the old one
GrownTooLittle(arr, smallest) == IF arr = <<>> THEN smallest ELSE Len(arr)

Grown(arr, smallest) == IF arr = <<>> THEN smallest ELSE 2 * Len(arr)

\* mutant: the new element goes to the front
Prepended(arr, x, smallest) ==
  [j \in 1 .. (IF Fits(arr) THEN Len(arr) ELSE Grown(arr, smallest)) |->
     IF j = 1 THEN x ELSE IF j <= n + 1 THEN arr[j - 1] ELSE None]

(* append of Go: into the spare capacity, or into a new array of twice the *)
(* size; the smallest array holds two IDs, or one condition, which is      *)
(* larger.                                                                 *)
Appended(arr, x, smallest) ==
  IF Fits(arr) THEN [arr EXCEPT ![n + 1] = x]
  ELSE [j \in 1 .. Grown(arr, smallest) |->
          IF j <= n THEN arr[j] ELSE IF j = n + 1 THEN x ELSE None]

(* A view keeps the arrays that the map gives up.                          *)
Detached(dropIds, dropConds) ==
  IF pc \notin {"cond", "id"} THEN view
  ELSE [ids |-> IF dropIds THEN ViewIds ELSE view.ids,
        conds |-> IF dropConds THEN ViewConds ELSE view.conds,
        n |-> view.n]

(* utils.SliceRemove of seventv/common, in place: the last element moves   *)
(* into the gap, or all behind the gap move down.                          *)
SliceRemove(arr, i, keepsOrder) ==
  [j \in DOMAIN arr |->
     IF ~(i <= j /\ j < n) THEN arr[j]
     ELSE IF keepsOrder THEN arr[j + 1]
     ELSE IF j = i THEN arr[n] ELSE arr[j]]
-----------------------------------------------------------------------------
(* The calls that hold e.mx.                                               *)

Subscribe(c) ==
  /\ op = Idle /\ next <= MaxId
  /\ \A i \in 1 .. n : conds[i] # c
  /\ ids' = Appended(ids, next, 2)
  /\ view' = Detached(~Fits(ids), FALSE)
  /\ op' = [call |-> "subscribe", cond |-> c] /\ next' = next + 1
  /\ known' = known \cup {next} /\ added' = TRUE
  /\ UNCHANGED <<conds, n, wild, match, then, gone, removed>>

SubscribeStore ==
  /\ op # Idle /\ op.call = "subscribe"
  /\ conds' = Appended(conds, op.cond, 1) /\ n' = n + 1
  /\ view' = Detached(FALSE, ~Fits(conds))
  /\ op' = Idle
  /\ UNCHANGED <<ids, wild, next, match, hist>>

\* mutant: the place that becomes free is cleared, as slices.Delete does
UnsubscribeClears(i, keepsOrder, stored) ==
  /\ op = Idle /\ i \in 1 .. n
  /\ ids' = [SliceRemove(ids, i, keepsOrder) EXCEPT ![n] = None]
  /\ op' = [call |-> "unsubscribe", at |-> i, keepsOrder |-> keepsOrder, stored |-> stored]
  /\ gone' = gone \cup {e \in then : ~e.wild /\ e.id = ids[i]} /\ removed' = TRUE
  /\ UNCHANGED <<conds, n, wild, next, view, match, then, known, added>>

(* Unsubscribe of entry i, and UnsubscribeWithID, which stores no shorter  *)
(* slice.                                                                  *)
Unsubscribe(i, keepsOrder, stored) ==
  /\ op = Idle /\ i \in 1 .. n
  /\ ids' = SliceRemove(ids, i, keepsOrder)
  /\ op' = [call |-> "unsubscribe", at |-> i, keepsOrder |-> keepsOrder, stored |-> stored]
  /\ gone' = gone \cup {e \in then : ~e.wild /\ e.id = ids[i]} /\ removed' = TRUE
  /\ UNCHANGED <<conds, n, wild, next, view, match, then, known, added>>

(* The last entry goes with its type.                                      *)
UnsubscribeStore ==
  /\ op # Idle /\ op.call = "unsubscribe" /\ op' = Idle
  /\ LET cut == SliceRemove(conds, op.at, op.keepsOrder)
     IN IF op.stored /\ n = 1
        THEN /\ n' = 0 /\ ids' = <<>> /\ conds' = <<>>
             /\ view' = Detached(TRUE, TRUE)
        ELSE /\ n' = IF op.stored THEN n - 1 ELSE n
             /\ conds' = cut /\ UNCHANGED <<ids, view>>
  /\ UNCHANGED <<wild, next, match, hist>>

(* Unsubscribe without a condition: the type goes, its arrays stay.        *)
UnsubscribeAll ==
  /\ op = Idle /\ n > 0
  /\ n' = 0 /\ ids' = <<>> /\ conds' = <<>>
  /\ view' = Detached(TRUE, TRUE)
  /\ gone' = gone \cup {e \in then : ~e.wild}
  /\ UNCHANGED <<wild, op, next, match, then, known, added, removed>>

(* The same calls for the wildcard type.                                   *)
SubscribeWild(c) ==
  /\ op = Idle /\ next <= MaxId /\ Len(wild) < MaxWild
  /\ \A i \in DOMAIN wild : wild[i].cond # c
  /\ wild' = Append(wild, [id |-> next, cond |-> c]) /\ next' = next + 1
  /\ UNCHANGED <<ids, conds, n, op, view, match, hist>>

UnsubscribeWild(i) ==
  /\ op = Idle /\ i \in DOMAIN wild
  /\ wild' = RemoveAt(wild, i)
  /\ gone' = gone \cup {e \in then : e.wild /\ e.id = wild[i].id}
  /\ UNCHANGED <<ids, conds, n, op, next, view, match, then, known, added, removed>>
-----------------------------------------------------------------------------
\* mutant: the wildcard's elements go where there is room, also before n
WithWildFirst(arr, elems) == elems \o SubSeq(arr, Len(elems) + 1, Len(arr))

(* Get appends the wildcard's elements behind those of the type: in place  *)
(* where they fit, that is in the map's own array.                         *)
WithWild(arr, elems) ==
  [j \in DOMAIN arr |-> IF n < j /\ j <= n + Len(elems) THEN elems[j - n] ELSE arr[j]]

CopyOf(arr, elems) ==
  IF n > 0 /\ n + Len(elems) <= Len(arr) THEN Shared ELSE SubSeq(arr, 1, n) \o elems

WildIds == [i \in DOMAIN wild |-> wild[i].id]
WildConds == [i \in DOMAIN wild |-> wild[i].cond]

(* What Get leaves in the map's arrays.                                    *)
GetAppends ==
  /\ ids' = IF CopyOf(ids, WildIds) = Shared THEN WithWild(ids, WildIds) ELSE ids
  /\ conds' = IF CopyOf(conds, WildConds) = Shared THEN WithWild(conds, WildConds) ELSE conds

Get ==
  /\ pc = "idle" /\ op = Idle /\ (n > 0 \/ wild # <<>>)
  /\ GetAppends
  /\ view' = [ids |-> CopyOf(ids, WildIds), conds |-> CopyOf(conds, WildConds), n |-> n + Len(wild)]
  /\ pc' = "cond" /\ pos' = 1 /\ out' = {}
  /\ then' = Entries \cup Wilds /\ known' = {e.id : e \in Entries \cup Wilds}
  /\ gone' = {} /\ added' = FALSE /\ removed' = FALSE
  /\ UNCHANGED <<n, wild, op, next>>

(* The Get of another goroutine of the connection, a command's dispatch    *)
(* beside the loop's: its copy is its own, the arrays are not.             *)
GetElsewhere ==
  /\ pc \in {"cond", "id"} /\ op = Idle
  /\ GetAppends
  /\ known' = known \cup {e.id : e \in Wilds}
  /\ added' = (added \/ ids' # ids \/ conds' # conds)
  /\ UNCHANGED <<n, wild, op, next, view, match, then, gone, removed>>

(* Match looks at a condition and, if it matches the dispatch's, at the ID.*)
MatchCond ==
  /\ pc = "cond"
  /\ IF pos > view.n THEN pc' = "done" /\ UNCHANGED pos
     ELSE IF ViewConds[pos] \in Hits THEN pc' = "id" /\ UNCHANGED pos
     ELSE pos' = pos + 1 /\ UNCHANGED pc
  /\ UNCHANGED <<map, view, out, hist>>

MatchId ==
  /\ pc = "id"
  /\ out' = out \cup {ViewIds[pos]}
  /\ pos' = pos + 1 /\ pc' = "cond"
  /\ UNCHANGED <<map, view, hist>>

(* The dispatch goes on; the next one comes.                               *)
Done ==
  /\ pc = "done"
  /\ pc' = "idle" /\ pos' = 1 /\ out' = {} /\ view' = NoView
  /\ then' = {} /\ gone' = {} /\ known' = {} /\ added' = FALSE /\ removed' = FALSE
  /\ UNCHANGED map

Calls ==
  \/ \E c \in Cond : Subscribe(c) \/ SubscribeWild(c)
  \/ \E i \in Id, keepsOrder, stored \in BOOLEAN : Unsubscribe(i, keepsOrder, stored)
  \/ \E i \in Id : UnsubscribeWild(i)
  \/ SubscribeStore \/ UnsubscribeStore \/ UnsubscribeAll

Next == Calls \/ Get \/ GetElsewhere \/ MatchCond \/ MatchId \/ Done

Spec == Init /\ [][Next]_vars
-----------------------------------------------------------------------------
Wanted == {e \in then : e.cond \in Hits}

(* A Match during which no call writes to its type's arrays finds exactly  *)
(* the subscriptions that Get saw and that match the dispatch, also if the *)
(* type or its wildcard is unsubscribed as a whole meanwhile               *)
(* (connection.go:239-265, 298-314).                                       *)
ExactIfQuiet ==
  pc = "done" /\ ~added /\ ~removed => out = {e.id : e \in Wanted}

(* Whatever changes meanwhile, a dispatch is only marked with IDs of       *)
(* subscriptions that were in the map since Get (connection.go:307).       *)
MarksKnown == out \subseteq known

(* A subscription that matches and stays is missed only if an unsubscribe  *)
(* moved others about under Match, or if a new subscription overwrote what *)
(* Get had appended of the wildcard type: new subscriptions alone never    *)
(* hide those of the type itself (connection.go:141-143, 259-261).         *)
NothingMissed ==
  pc = "done" => \A e \in Wanted \ gone : e.id \in out \/ removed \/ (added /\ e.wild)
=============================================================================
