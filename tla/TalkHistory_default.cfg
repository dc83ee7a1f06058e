SPECIFICATION Spec
CONSTANTS
  Agents = {w1, w2, v}
  Werewolves = {w1, w2}
  Modes = {"turns", "chat"}
  FirstDay <- DefaultFirst
  OtherDays <- DefaultOthers
  MaxTalks = 3
  MaxDays = 1
INVARIANTS IndexInBounds HistoriesOnce TalksComplete
CHECK_DEADLOCK FALSE
