--------------------------- MODULE MCNatsRegistry ---------------------------
(* Model checking of NatsRegistry on a small instance.                     *)
EXTENDS NatsRegistry, TLC

Symmetry == Permutations(Session) \cup Permutations(Key) \cup Permutations(Msg)
=============================================================================
