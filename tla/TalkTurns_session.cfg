SPECIFICATION FairSpec
CONSTANTS
  Agents = {a1, a2}
  PerAgent = 3
  PerDay = 4
  MaxSkip = 1
  LengthPerAgent = 3
  BaseLength = 1
  MentionLength = 1
  PerTalk = 3
  CountMode = "characters"
  TagLength = 2
  Texts <- Utterances
INVARIANTS CountersTruthful EndsInSilence LimitsHold
PROPERTIES Discusses
CHECK_DEADLOCK FALSE
