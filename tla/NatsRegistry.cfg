CONSTANTS
  Session = {s1, s2, s3}
  Key = {k1, k2}
  Msg = {m1, m2}
  ChCap = 2
SPECIFICATION Spec
INVARIANTS TypeOK RegistryInv
PROPERTY FanoutSpec
SYMMETRY Symmetry
