---------------------------- MODULE MCTimeWindows ----------------------------
(* A periodic window with a wall clock of its own, and two windows that     *)
(* share a counting clock, in one program.                                  *)
EXTENDS Monotonic

CONSTANTS Pair, PairEvents

VARIABLES pAt, pMark, pOpened, pArrived, pHeld, pTimes, pCalls

P == INSTANCE Monotonic
    WITH Window <- Pair, ClockKind <- "counting", MaxEvents <- PairEvents,
         at <- pAt, mark <- pMark, opened <- pOpened, arrived <- pArrived,
         held <- pHeld, times <- pTimes, calls <- pCalls

pairVars == <<pAt, pMark, pOpened, pArrived, pHeld, pTimes, pCalls>>

TimeInit == Init /\ P!Init

TimeNext ==
    \/ Time /\ UNCHANGED pairVars
    \/ Close /\ UNCHANGED pairVars
    \/ \E w \in Window : Construct(w) /\ UNCHANGED pairVars
    \/ \E w \in Window : Enqueue(w) /\ UNCHANGED pairVars
    \/ \E w \in Window : TickEmit(w) /\ UNCHANGED pairVars
    \/ P!Close /\ UNCHANGED vars
    \/ \E w \in Pair : P!Construct(w) /\ UNCHANGED vars
    \/ \E w \in Pair : P!Enqueue(w) /\ UNCHANGED vars
    \/ \E w \in Pair : P!TickEmit(w) /\ UNCHANGED vars

TimeSpec == TimeInit /\ [][TimeNext]_<<vars, pairVars>>

\* Monotonic!EmittedOnce of the window with a clock of its own, and of the two
\* that share one, the handlers of each of which may call the other.
AllEmittedOnce == EmittedOnce /\ P!EmittedOnce

\* Monotonic!LateBehindAnother of the two that share a clock: whatever one does to
\* the clock, in construction, in its handlers or between, the other is late only
\* because of a window opened at the very same count.
SharedLateBehindAnother == P!LateBehindAnother
=============================================================================
