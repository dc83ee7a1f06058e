SPECIFICATION Spec
CONSTANTS
  Agents = {a1, a2}
  PerAgent = 1
  PerDay = 1
  MaxSkip = 0
  LengthPerAgent = 1
  BaseLength = 0
  MentionLength = 1
  PerTalk <- NoLimit
  CountMode = "characters"
  TagLength = 2
  Texts <- Utterances
INVARIANTS NeverPanics
CHECK_DEADLOCK FALSE
