SPECIFICATION Spec
CONSTANTS
  Agents = {w1, w2, v}
  Werewolves = {w1, w2}
  Modes = {"turns"}
  FirstDay <- DefaultFirst
  OtherDays <- DefaultOthers
  MaxTalks = 2
  MaxDays = 1
INVARIANTS WhispersComplete
CHECK_DEADLOCK FALSE
