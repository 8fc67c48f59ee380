CONSTANTS
  Cond = {c1,c2}
  Hits = {c1}
  MaxId = 4
  MaxWild = 1
SPECIFICATION Spec
INVARIANTS TypeOK ExactIfQuiet MarksKnown NothingMissed
CHECK_DEADLOCK FALSE
