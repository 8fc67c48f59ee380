CONSTANTS
  Type = {t1}
  c1 = c1
  c2 = c2
  NoCond = NoCond
  Cond = {NoCond, c1, c2}
  Id = {i1, i2, i3}
  Match <- Equality
  MaxTimer = 1
SPECIFICATION Spec
PROPERTY AckMeansJoined
