SPECIFICATION FairSpec
CONSTANTS
  A = A
  B = B
  C = C
  Page = {A, B, C}
  Setups <- MCSetups
  MaxMoves = 4
INVARIANTS
  TypeOK
  FollowersShowMaster
PROPERTIES
  TrafficSettles
CHECK_DEADLOCK FALSE
