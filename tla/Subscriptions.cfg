CONSTANTS
  Type = {t1}
  c1 = c1
  c2 = c2
  NoCond = NoCond
  Cond = {NoCond, c1, c2}
  Id = {i1, i2, i3}
  Match <- Subsuming
  MaxTimer = 2
SPECIFICATION Spec
INVARIANTS TypeOK MapAgrees OwnStaysJoined
PROPERTIES AckMeansJoinedUnaged RefusedOnlyTwice
SYMMETRY Symmetry
