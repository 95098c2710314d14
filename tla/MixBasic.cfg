SPECIFICATION Spec
CONSTANTS
    NoTask = NoTask
    Task <- MixTask
    Kind <- MixKind
    Subs <- MixSubs
    HowMany <- MixHowMany
    Times <- MixTimes
    Yields <- MixYields
    Deeds <- MixDeeds
    Stillborn = {}
    Wrapped <- Unwrapped
    Core <- Unwrapped
    ClientDeeds <- MixClient
INVARIANTS TypeOK BooksAreTrue OneVerdict NoMoreThanHowMany WaitedForIsPending TickedOnceARound BodyInStep
PROPERTIES CompletionIsFinal KeepsContract
