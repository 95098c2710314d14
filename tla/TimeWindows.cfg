SPECIFICATION TimeSpec
CONSTANTS
    Window = {"w"}
    ClockKind = "wall"
    Interval = 2
    MaxNow = 4
    MaxEvents = 3
    Pair = {"u", "v"}
    PairEvents = 3
INVARIANTS TypeOK EmitsWhenDue AllEmittedOnce SharedLateBehindAnother
