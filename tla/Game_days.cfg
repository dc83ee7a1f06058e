SPECIFICATION FairSpec
CONSTANTS
  N = 4
  Role <- Cast
  DayPhases <- DayTalk
  NightPhases <- NightHunt
  MaxDay = 1
  ErrorLimit = 2
  VoteMaxCount = 2
  VoteAllowSelfVote = FALSE
  AttackVoteMaxCount = 2
  AttackVoteAllowSelfVote = TRUE
  AttackVoteAllowNoTarget = TRUE
  Nil = Nil
INVARIANTS StatusesSound GuardHolds VictimsProper WinSideAccurate
PROPERTIES DeathIsFinal FailedAgentFrozen GameEnds
CHECK_DEADLOCK FALSE
