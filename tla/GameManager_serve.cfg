SPECIFICATION MCSpec
CONSTANTS
  Connections <- Some
  Teams = {"a", "b", "c"}
  TeamOf <- Of
  AgentCount = 2
  Roles = {"WEREWOLF", "VILLAGER"}
  Villager = "VILLAGER"
  RoleNum <- Num
  Names = {"x", "y"}
  ProfileLists <- Lists
  Attempts = 2
INVARIANTS RoomSound NoGroupStranded RegistryExact CastProper
PROPERTIES InOrder Exits
CHECK_DEADLOCK FALSE
