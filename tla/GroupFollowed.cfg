SPECIFICATION Spec
CONSTANTS
  A = A
  B = B
  C = C
  Page = {A, B, C}
  Setups <- GroupedSetups
  MaxMoves = 4
INVARIANTS
  FollowersShowMaster
CHECK_DEADLOCK FALSE
