CONSTANTS
  a1 = a1 a2 = a2 b1 = b1 b2 = b2
  a = a b = b W = W V = V
  Connections <- Three
  Teams <- Pair
  TeamOf <- Of
  AgentCount = 2
  Roles <- Both
  RoleNum <- Num
  TeamCount = 2
  GameCount = 1
  NoTeam = NoTeam
  InfiniteLoop = TRUE
  Free = Free
  MaxStops = 0
CHECK_DEADLOCK FALSE
SPECIFICATION FairSpec
PROPERTY AddsMore
