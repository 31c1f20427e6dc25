SPECIFICATION Spec
CONSTANTS
  Facts = {"cat", "game"}
  Words <- WordsMC
  Messages = {"tell cat", "name it", "ask game"}
  Contains <- ContainsMC
  Questions = {"ask game"}
  Stable = {"cat"}
  Turns = {1, 2}
  MaxSaid = 2
  MaxScans = 2
CHECK_DEADLOCK FALSE
INVARIANTS
  SpokenIsKept
