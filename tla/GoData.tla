------------------------------- MODULE GoData -------------------------------
(***************************************************************************)
(* The two data structures the repository's bookkeeping is built from: a   *)
(* Go map, here a function whose DOMAIN is the set of keys present, and a  *)
(* Go slice, here a sequence.  Element order is kept because the code      *)
(* removes from a slice by moving its last element into the gap.           *)
(***************************************************************************)
EXTENDS Naturals, Sequences, Functions

(* m maps some of the keys in K to values in V.                            *)
IsMap(m, K, V) == DOMAIN m \subseteq K /\ m \in [DOMAIN m -> V]

EmptyMap == [x \in {} |-> <<>>]

(* m[k] of a map of slices: a missing key reads as the nil slice.          *)
Lookup(m, k) == IF k \in DOMAIN m THEN m[k] ELSE <<>>

(* m[k] = v                                                                *)
Put(m, k, v) == [x \in DOMAIN m \cup {k} |-> IF x = k THEN v ELSE m[x]]

(* delete(m, k)                                                            *)
Delete(m, k) == Restrict(m, DOMAIN m \ {k})

(* s[i] = s[len(s)-1]; s = s[:len(s)-1]                                    *)
SwapRemove(s, i) ==
  [j \in 1 .. Len(s) - 1 |-> IF j = i THEN s[Len(s)] ELSE s[j]]

(* The position at which a loop over s that stops at the first x stops.    *)
FirstIndex(s, x) ==
  CHOOSE i \in DOMAIN s : s[i] = x /\ \A j \in 1 .. i - 1 : s[j] # x

(* Remove the first x of s, as such a loop does; s without an x stays.     *)
RemoveFirst(s, x) ==
  IF x \in Range(s) THEN SwapRemove(s, FirstIndex(s, x)) ELSE s
=============================================================================
