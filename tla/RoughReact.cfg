SPECIFICATION FairSpec
CONSTANTS
    NoTask = NoTask
    Task <- RoughTask
    Kind <- RoughKind
    Subs <- RoughSubs
    HowMany <- RoughHowMany
    Times <- RoughTimes
    Yields <- RoughYields
    Deeds <- RoughDeeds
    Stillborn = {"h"}
    Wrapped <- RoughWrapped
    Core <- RoughCore
    ClientDeeds <- RoughReactClient
    MaxChains = 1
INVARIANTS TypeOK PolledHasTimer
PROPERTIES KeepsContract ResumedWhileRunning
