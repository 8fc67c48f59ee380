----------------------------- MODULE MCDispatch -----------------------------
(* Model checking of Dispatch on small instances.                          *)
EXTENDS Dispatch, TLC

CONSTANTS tUpdate, tAny, tWhisper, c1, c2, h1

WildOf == [t \in Type |-> IF t = tUpdate THEN tAny ELSE t]
WhisperTo == <<tWhisper, c1>>
Equality == {<<c, c>> : c \in Cond}

(* An update, published under its type and under the wildcard; and one     *)
(* without a hash, each copy of which is written.                          *)
Update == [type |-> tUpdate, conds |-> {c1}, whisper |-> "", hash |-> h1, effects |-> <<>>]
Plain == [Update EXCEPT !.hash = NoHash]

(* Whispers: one that subscribes the session to something else for a       *)
(* while; one that subscribes it to the updates for good and then makes h1 *)
(* welcome again; one that takes that back; and one for somebody else.     *)
Whisper(to, effects) ==
  [type |-> tWhisper, conds |-> {}, whisper |-> to, hash |-> NoHash, effects |-> effects]
Add(c, ttl) == [op |-> "add", key |-> <<tAny, c>>, ttl |-> ttl]
Lend == Whisper("mine", <<Add(c2, TRUE)>>)
Grant == Whisper("mine", <<Add(c1, FALSE), [op |-> "expire", hash |-> h1]>>)
Revoke == Whisper("mine", <<[op |-> "remove", key |-> <<tAny, c1>>]>>)
Other == Whisper("other", <<>>)

Msgs == {Update, Plain, Lend, Grant, Revoke, Other}

(* What follows Lend in the slices has a copy there when Lend has expired. *)
Answers == {<<>>, <<Update, Grant>>, <<Lend, Grant>>}
=============================================================================
