CONSTANTS
  tUpdate = tUpdate
  tAny = tAny
  tWhisper = tWhisper
  c1 = c1
  c2 = c2
  h1 = h1
  Type = {tUpdate, tAny, tWhisper}
  NoCond = NoCond
  Cond = {NoCond, c1, c2}
  Match <- Equality
  Id = {i1, i2, i3, i4, i5}
  Self = self
  Wild <- WildOf
  WhisperKey <- WhisperTo
  Hash = {h1}
  NoHash = NoHash
  Garbage = Garbage
  Msg <- Msgs
  Bridged <- Answers
  ChCap = 2
  MaxPublish = 2
  MaxBridge = 1
  MaxCommand = 1
SPECIFICATION Spec
INVARIANTS TypeOK TwiceNeedsRace HashNotBurnt LateAtMostOne
PROPERTIES Drains FanoutSteps
CHECK_DEADLOCK FALSE
