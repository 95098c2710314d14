SPECIFICATION CountSpec
CONSTANTS
    Size = 3
    CountEvents = 20
    CountDepth = 1
INVARIANTS CountTypeOK EmitsLastSize TumblingCuts
CHECK_DEADLOCK FALSE
