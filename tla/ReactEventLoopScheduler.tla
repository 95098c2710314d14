----------------------- MODULE ReactEventLoopScheduler -----------------------
(***************************************************************************)
(* Async\Scheduler\ReactEventLoopScheduler: every schedule() starts a      *)
(* chain of one-shot timers on the React loop, each of which ticks the     *)
(* task and arms the next one while the task is incomplete.  Nothing       *)
(* removes duplicates: a task scheduled twice has two chains.              *)
(*                                                                         *)
(* Time is abstracted: an armed timer may fire at any moment, in any order *)
(* (delays and intervals only ever postpone a timer).  After stop() the    *)
(* loop fires what is due already and returns; here it may fire any armed  *)
(* timer before it returns.                                                *)
(***************************************************************************)
EXTENDS AsyncTask

CONSTANTS
    ClientDeeds,  \* what runs outside of ticks: the script, other callbacks
    MaxChains     \* bound: chains of one task when the client schedules it

ASSUME ClientAssumption ==
    ClientDeeds \subseteq DeedType /\ MaxChains \in Nat

VARIABLES
    timers,   \* armed timers, counted by the task they tick
    running,  \* the loop's $running
    inRun     \* run() is on the stack

vars == <<taskVars, timers, running, inRun>>

Init ==
    /\ TaskInit
    /\ timers = [t \in Task |-> 0]
    /\ running = FALSE
    /\ inRun = FALSE

TypeOK ==
    /\ TaskTypeOK
    /\ timers \in [Task -> Nat]
    /\ running \in BOOLEAN
    /\ inRun \in BOOLEAN

Pending == {t \in Task : timers[t] > 0}

-----------------------------------------------------------------------------
\* addTimer for each of the tasks S, after the timers of gone are spent.
Armed(S, gone) ==
    [u \in Task |-> timers[u] - (IF u \in gone THEN 1 ELSE 0)
                              + (IF u \in S THEN 1 ELSE 0)]

\* $tickTask for t after a tick that called schedule() on the tasks S: a timer
\* for the next tick while the task is incomplete.
\* Mutant: spends the timer that fired twice.
AfterTickSpent(t, S, stops) ==
    /\ timers' = [Armed(S, {t}) EXCEPT ![t] =
                     IF IsComplete(t)' THEN @ - 1 ELSE @ + 1]
    /\ running' = (running /\ ~stops)
    /\ inRun' = inRun

AfterTick(t, S, stops) ==
    /\ timers' = [Armed(S, {t}) EXCEPT ![t] =
                     IF IsComplete(t)' THEN @ ELSE @ + 1]
    /\ running' = (running /\ ~stops)
    /\ inRun' = inRun

\* An exception left the tick after schedule() on the tasks S: the loop drops
\* the timer that fired and keeps all others.
Escape(t, S) ==
    /\ timers' = Armed(S, {t})
    /\ inRun' = FALSE
    /\ UNCHANGED running

DoComplete(t) == TickComplete(t) /\ AfterTick(t, {}, FALSE)

DoCallable(t) ==
    \E d \in Deeds[t], ok \in BOOLEAN :
        TickCallable(t, d, ok) /\ AfterTick(t, Asks(d), d.op = "stop")

DoRecurring(t) ==
    \E d \in Deeds[t], ok \in BOOLEAN :
        TickRecurring(t, d, ok) /\ AfterTick(t, Asks(d), d.op = "stop")

DoPromise(t) == TickPromise(t) /\ AfterTick(t, {}, FALSE)

DoBeginWait(t) ==
    BeginWait(t) /\ AfterTick(t, {Yields[t][gen[t]]}, FALSE)

DoWaitOn(t) == WaitOn(t) /\ AfterTick(t, {}, FALSE)

DoSome(t) ==
    \E k \in 0..Len(Subs[t]) :
        /\ TickSome(t, k)
        /\ IF LoopThrows(t, k) THEN Escape(t, {})
           ELSE AfterTick(t, SomeCalls(t, k), FALSE)

\* Mutant: the wrapper remembers that it has scheduled, and has not.
DoWrapperOnly(t) ==
    /\ TickWrapper(t)
    /\ IF Throws(t) THEN Escape(t, {}) ELSE AfterTick(t, {}, FALSE)

DoWrapper(t) ==
    /\ TickWrapper(t)
    /\ IF Throws(t) THEN Escape(t, WrapperCalls(t))
       ELSE AfterTick(t, WrapperCalls(t), FALSE)

DoThrowing(t) == (TickDoomed(t) \/ WaitThrows(t)) /\ Escape(t, {})

\* The deed of the body may schedule the very task it yields next, which then
\* has two new chains.
DoResume(t) ==
    \E d \in Deeds[t], how \in {"yield", "return", "throw"} :
        LET u == IF how = "yield" THEN {Yields[t][gen[t] + 1]} ELSE {}
        IN  /\ Resume(t, d, how)
            /\ running' = (running /\ d.op # "stop")
            /\ inRun' = inRun
            /\ timers' = [v \in Task |->
                  Armed(u, {t})[v] + Cardinality(Asks(d) \cap {v})
                  + (IF v = t /\ ~IsComplete(t)' THEN 1 ELSE 0)]

Fire(t) ==
    /\ inRun /\ timers[t] > 0
    /\ \/ DoComplete(t)
       \/ DoCallable(t)
       \/ DoRecurring(t)
       \/ DoPromise(t)
       \/ DoBeginWait(t)
       \/ DoWaitOn(t)
       \/ DoResume(t)
       \/ DoSome(t)
       \/ DoWrapper(t)
       \/ DoThrowing(t)

-----------------------------------------------------------------------------
\* run() and stop() are the loop's; it returns when stopped or out of timers.
Run ==
    /\ ~inRun
    /\ inRun' = TRUE
    /\ running' = TRUE
    /\ UNCHANGED <<taskVars, timers>>

\* Mutant: returns with timers armed.
ReturnEarly ==
    /\ inRun
    /\ inRun' = FALSE
    /\ UNCHANGED <<taskVars, timers, running>>

Return ==
    /\ inRun /\ (~running \/ Pending = {})
    /\ inRun' = FALSE
    /\ UNCHANGED <<taskVars, timers, running>>

\* The script before and after run(), and the loop's other callbacks.
Client ==
    \E d \in ClientDeeds :
        /\ \A u \in Asks(d) : timers[u] < MaxChains
        /\ Outside(d)
        /\ timers' = Armed(Asks(d), {})
        /\ running' = (running /\ d.op # "stop")
        /\ UNCHANGED inRun

Next == (\E t \in Task : Fire(t)) \/ Run \/ Return \/ Client

Spec == Init /\ [][Next]_vars

\* Every armed timer comes due as time passes, and the loop keeps turning.
Fairness == WF_vars(Return) /\ \A t \in Task : WF_vars(Fire(t))

FairSpec == Spec /\ Fairness

-----------------------------------------------------------------------------
Contract == INSTANCE SchedulerContract
    WITH pending <- Pending,
         complete <- {t \in Task : IsComplete(t)},
         active <- inRun,
         stopped <- ~running

\* The scheduler keeps the contract of the Scheduler interface: whatever is
\* scheduled, from wherever and however often, is ticked until it is complete,
\* and run() ends with work left only after a stop() or an exception, which costs
\* no task its timers but the one that threw.
KeepsContract == Contract!Spec

\* Whose tick may throw, and lose its timer: one that polls a task which throws
\* out of isComplete().
PollsStillborn(u) ==
    \/ u \in Generators /\ \E x \in Range(Yields[u]) : Core[x] \in Stillborn
    \/ Kind[u] = "some" /\ \E x \in Range(Subs[u]) : Core[x] \in Stillborn

\* A task that an incomplete generator, SomeTask or wrapper polls is one whose
\* timers run, though it was scheduled once and its status is asked through the
\* wrapper: else it would be polled for ever.  Only an exception takes a timer
\* away (GeneratorTask::doTick, SomeTask::doTick, DelayedTask::tick).
PolledHasTimer ==
    \A t \in Task : ~IsComplete(t) =>
        \A u \in Awaits(t) :
            IsComplete(u) \/ u \in Pending \/ PollsStillborn(u)

\* A generator whose awaited task completed moves on while run() lasts: neither
\* the other tasks nor those scheduled meanwhile keep its tick from coming.
ResumedWhileRunning ==
    \A g \in Generators :
        (inRun /\ g \in Pending /\ AwaitOver(g))
            ~> (~inRun \/ IsComplete(g) \/ ~AwaitOver(g))
=============================================================================
