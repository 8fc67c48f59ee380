CONSTANTS
  Conn = {ws1, ws2, es1}
  WS = {ws1, ws2}
  ConnectionLimit = 1
SPECIFICATION Spec
INVARIANTS TypeOK OvershootNeedsRace Drained GraceGiven
PROPERTY Exits
CHECK_DEADLOCK FALSE
