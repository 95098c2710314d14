SPECIFICATION Spec
CONSTANTS
  P = P
  Q = Q
  Player = {P, Q}
  Known = {"hero", "monster"}
  Commands = {"monster", "nothing"}
  MaxActs = 3
SYMMETRY Alike
INVARIANTS
  PagesAgree
  GoneStayGone
  ServerForgets
CHECK_DEADLOCK FALSE
