SPECIFICATION MCSpec
CONSTANTS
  a1 = a1 a2 = a2 b1 = b1 b2 = b2
  a = a b = b W = W V = V
  Connections <- Four
  Teams <- Pair
  TeamOf <- Of
  AgentCount = 2
  Roles <- Sole
  RoleNum <- Num
  TeamCount = 3
  GameCount = 2
  NoTeam = NoTeam
  InfiniteLoop = TRUE
  Free = Free
  MaxStops = 1
INVARIANTS ScheduleSound NobodyForgotten
PROPERTIES RestartsKeep HandlersReturn
CHECK_DEADLOCK FALSE
