SPECIFICATION FairSpec
CONSTANTS
  a1 = a1
  a2 = a2
  Agents <- Pair
  PerAgent = 1
  MaxSkip = 0
  LengthPerAgent = 1
  BaseLength = 0
  MentionLength = 0
  PerTalk <- NoLimit
  CountMode = "characters"
  TagLength = 2
  Texts <- Remarks
  Capacity = 1
  MaxSent <- Sent
INVARIANTS OneTranscript
PROPERTIES TranscriptCloses Discusses SessionEnds
CHECK_DEADLOCK FALSE
