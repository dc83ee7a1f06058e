SPECIFICATION LateSpec
CONSTANTS
  a1 = a1 a2 = a2 b1 = b1 b2 = b2
  a = a b = b W = W V = V
  Connections <- Four
  Teams <- Four
  TeamOf <- Own
  AgentCount = 2
  Roles <- Sole
  RoleNum <- Num
  TeamCount = 4
  GameCount = 2
  NoTeam = NoTeam
  InfiniteLoop = FALSE
  Free = Free
  MaxStops = 0
INVARIANT StartsWhenReady
CHECK_DEADLOCK FALSE
