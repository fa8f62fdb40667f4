SPECIFICATION EitherSpec
CONSTANTS
  Req = {r1, r2}
  None = None
  Dropper = {d1}
  Kinds = {"utterance", "token"}
  MaxPresses = 1
  MaxSentences = 1
INVARIANTS  OneLateSentence
PROPERTIES OldReplyIsMute
SYMMETRY Symmetry
CHECK_DEADLOCK FALSE
