-------------------------- MODULE MCSubscriptions ---------------------------
(* Model checking of Subscriptions on small instances.                     *)
EXTENDS Subscriptions, TLC

CONSTANTS c1, c2

(* c1 asks for less than c2 does, so an entry for c1 matches both, and the *)
(* empty condition matches everything.                                     *)
Subsuming == {<<c, c>> : c \in Cond} \cup {<<c1, c2>>, <<NoCond, c1>>, <<NoCond, c2>>}

(* Every condition matches itself alone.                                   *)
Equality == {<<c, c>> : c \in Cond}

Symmetry == Permutations(Id) \cup Permutations(Type)
=============================================================================
