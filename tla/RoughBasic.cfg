SPECIFICATION FairSpec
CONSTANTS
    NoTask = NoTask
    Task <- RoughTask
    Kind <- RoughKind
    Subs <- RoughSubs
    HowMany <- RoughHowMany
    Times <- RoughTimes
    Yields <- RoughYields
    Deeds <- RoughDeeds
    Stillborn = {"h"}
    Wrapped <- RoughWrapped
    Core <- RoughCore
    ClientDeeds <- RoughBasicClient
INVARIANTS BooksAreTrue
PROPERTIES VerdictReached StopEndsRun ResumedWhileRunning RunReturns
