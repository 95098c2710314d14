------------------------------ MODULE Monotonic ------------------------------
(***************************************************************************)
(* React\EEP\Window\Monotonic and Periodic over the two clocks: windows    *)
(* that close when tick() finds that an interval has passed.  Windows may  *)
(* share a clock; each has an aggregate of its own.  An event is named by  *)
(* its number of arrival and the aggregate is the set of events it covers. *)
(* emit() calls its handlers before tick() goes on, and a handler may call *)
(* any other window, whose emit() then runs inside of this one.            *)
(***************************************************************************)
EXTENDS Integers, Sequences, Functions

CONSTANTS
    Window,     \* the windows on one clock
    ClockKind,  \* "wall" or "counting"
    Interval,   \* $interval of the wall clock, in milliseconds
    MaxNow,     \* bound: the time of day
    MaxEvents   \* bound: events that arrive

ASSUME MonotonicAssumption ==
    /\ ClockKind \in {"wall", "counting"} /\ Interval \in Nat
    /\ MaxNow \in Nat /\ MaxEvents \in Nat

Null == -1

VARIABLES
    now,      \* microtime(), in milliseconds
    at,       \* the clock's $at
    mark,     \* the clock's $mark
    opened,   \* at() of each window's aggregator; Null before its constructor
    arrived,  \* events passed to enqueue()
    held,     \* events each window's aggregate covers
    times,    \* emissions that covered each event
    calls     \* windows in their emit(), innermost first

vars == <<now, at, mark, opened, arrived, held, times, calls>>

Wall == ClockKind = "wall"
Events == 0..(MaxEvents - 1)

Init ==
    /\ now \in 0..MaxNow
    /\ at = Null
    /\ mark = Null
    /\ opened = [w \in Window |-> Null]
    /\ arrived = 0
    /\ held = [w \in Window |-> {}]
    /\ times = [e \in Events |-> 0]
    /\ calls = <<>>

-----------------------------------------------------------------------------
(* The clocks. *)

\* Clock::init.
InitAt == IF Wall THEN now ELSE 0
InitMark == IF Wall THEN now + Interval ELSE 0

\* Clock::inc.  Mutant: a wall clock that counts.
IncCounted == at + 1
Inc == IF Wall THEN now ELSE at + 1

\* Clock::tick, after an init().  Mutant: it asks for one moment more.
TicksLate == at - mark >= IF Wall THEN 1 ELSE 2
Ticks == at - mark >= IF Wall THEN 0 ELSE 1

\* Clock::tock and the mark it leaves when it returns true.
Tocks(time) == at - time >= IF Wall THEN Interval ELSE 1
TockedMark ==
    IF Wall THEN IF Ticks THEN mark + Interval ELSE mark
            ELSE mark + 1

-----------------------------------------------------------------------------
(* The window. *)

\* No handler calls the window whose emit() called it.
Free(w) == w \notin Range(calls)
Made(w) == opened[w] # Null

\* A window is constructed; it starts the clock, again if others share it.
Construct(w) ==
    /\ Free(w) /\ ~Made(w)
    /\ at' = InitAt
    /\ mark' = InitMark
    /\ opened' = [opened EXCEPT ![w] = InitAt]
    /\ UNCHANGED <<now, arrived, held, times, calls>>

Enqueue(w) ==
    /\ Free(w) /\ Made(w) /\ arrived < MaxEvents
    /\ at' = Inc
    /\ arrived' = arrived + 1
    /\ held' = [held EXCEPT ![w] = @ \cup {arrived}]
    /\ UNCHANGED <<now, mark, opened, times, calls>>

\* tick() up to its emit(); one that returns before changes nothing.
TickEmit(w) ==
    /\ Free(w) /\ Made(w)
    /\ Ticks /\ Tocks(opened[w])
    /\ mark' = TockedMark
    /\ times' = [e \in Events |-> times[e] + IF e \in held[w] THEN 1 ELSE 0]
    /\ calls' = <<w>> \o calls
    /\ UNCHANGED <<now, at, opened, arrived, held>>

\* Mutant: the aggregate is not started afresh.
KeepHeld(w) == held[w]
FreshHeld(w) == {}

\* The handlers of the innermost emit() return: update() and init().
Close ==
    /\ calls # <<>>
    /\ LET w == Head(calls)
       IN  /\ opened' = [opened EXCEPT ![w] = at]
           /\ held' = [held EXCEPT ![w] = FreshHeld(w)]
    /\ calls' = Tail(calls)
    /\ UNCHANGED <<now, at, mark, arrived, times>>

\* The time of day moves on, or is set back.
Time ==
    /\ Wall
    /\ now' \in 0..MaxNow \ {now}
    /\ UNCHANGED <<at, mark, opened, arrived, held, times, calls>>

Next ==
    \/ Time
    \/ Close
    \/ \E w \in Window : Construct(w) \/ Enqueue(w) \/ TickEmit(w)

Spec == Init /\ [][Next]_vars

-----------------------------------------------------------------------------
\* Types and ranges.  "Ensure we don't race the clock forwards" (Wall): the mark
\* is never more than an interval past the latest time of day.
TypeOK ==
    /\ now \in 0..MaxNow
    /\ LET Latest == IF Wall THEN MaxNow ELSE MaxEvents
       IN  /\ at \in Null..Latest
           /\ mark \in Null..(Latest + IF Wall THEN Interval ELSE 0)
           /\ opened \in [Window -> Null..Latest]
    /\ arrived \in 0..MaxEvents
    /\ held \in [Window -> SUBSET (0..(arrived - 1))]
    /\ times \in [Events -> Nat]
    /\ calls \in Seq(Window)

\* "Emit if an interval worth of time has passed" (Monotonic::tick): whenever the
\* clock would tock for a window, the tick() asked before does not stand in its
\* way, wherever the time of day has gone meanwhile.
EmitsWhenDue ==
    calls = <<>> => \A w \in Window : Made(w) /\ Tocks(opened[w]) => Ticks

\* Between calls an event waits in one window or was part of one emission:
\* closing a window neither loses an event nor emits it again, though other
\* windows take events, emit and close between its emission and its closing.
EmittedOnce ==
    calls = <<>> =>
        \A e \in 0..(arrived - 1) :
            times[e] = IF \E w \in Window : e \in held[w] THEN 0 ELSE 1

\* "Emit if an interval worth of time has passed" (Monotonic::tick), where windows
\* share a counting clock: tick() turns a window away whose turn has come only
\* when another has used up the present count, by opening at it, as it does when
\* it is constructed and when it closes.  So the first to tick is never late.
LateBehindAnother ==
    calls = <<>> =>
        \A w \in Window : Made(w) /\ Tocks(opened[w]) =>
            Ticks \/ \E u \in Window \ {w} : opened[u] = at

\* "Stream operators call tock with a time x.  If x happened now or before,
\* returns true" (Clock).
TocksNowOrBefore == \A x \in 0..at : Tocks(x)
=============================================================================
