--------------------------- MODULE BasicScheduler ---------------------------
(***************************************************************************)
(* Async\Scheduler\BasicScheduler: rounds of ticks over a queue without    *)
(* timers.  $next is an SplObjectStorage, so attaching a task that is in   *)
(* it keeps its place; the round being ticked is the storage $next held    *)
(* when the round began.  An exception that leaves a tick() leaves run()   *)
(* too, and the rest of the round, a local variable, goes with it.         *)
(***************************************************************************)
EXTENDS AsyncTask

CONSTANT ClientDeeds  \* what the script does before run() and between runs

ASSUME ClientAssumption == ClientDeeds \subseteq DeedType

VARIABLES
    running,  \* $running
    next,     \* $next, in insertion order
    round,    \* $tasks of tick(): the tasks this round has still to tick
    inRun     \* run() is on the stack

schedulerVars == <<running, next, round, inRun>>
vars == <<taskVars, schedulerVars>>

Init ==
    /\ TaskInit
    /\ running = FALSE
    /\ next = <<>>
    /\ round = <<>>
    /\ inRun = FALSE

TypeOK ==
    /\ TaskTypeOK
    /\ running \in BOOLEAN
    /\ next \in Seq(Task)
    /\ round \in Seq(Task)
    /\ inRun \in BOOLEAN

Pending == Range(round) \cup Range(next)

-----------------------------------------------------------------------------
\* The one sequence of the elements of S in the order of the sequence order.
InOrder(S, order) ==
    {s \in [1..Cardinality(S) -> S] :
        /\ Range(s) = S
        /\ \A i, j \in DOMAIN s : i < j =>
              \E a, b \in DOMAIN order :
                  a < b /\ order[a] = s[i] /\ order[b] = s[j]}

\* The rest of the loop body for task t after a tick that called schedule() on
\* the tasks S, in the order of order, and stop() if stops.
\* Mutants: schedule() appends without looking whether the task is queued; the
\* task is queued again whether it is complete or not.
AfterTickTwice(t, S, order, stops) ==
    /\ round' = Tail(round)
    /\ running' = (running /\ ~stops)
    /\ inRun' = inRun
    /\ \E s \in InOrder(S, order) :
          next' = IF IsComplete(t)' THEN next \o s ELSE Append(next \o s, t)

AfterTickAlways(t, S, order, stops) ==
    /\ round' = Tail(round)
    /\ running' = (running /\ ~stops)
    /\ inRun' = inRun
    /\ \E s \in InOrder(S \ Range(next), order) :
          next' = IF t \in Range(next \o s) THEN next \o s
                  ELSE Append(next \o s, t)

AfterTick(t, S, order, stops) ==
    /\ round' = Tail(round)
    /\ running' = (running /\ ~stops)
    /\ inRun' = inRun
    /\ \E s \in InOrder(S \ Range(next), order) :
          LET q == next \o s
          IN  next' = IF IsComplete(t)' \/ t \in Range(q) THEN q
                      ELSE Append(q, t)

\* An exception left the tick.
Escape ==
    /\ round' = <<>>
    /\ inRun' = FALSE
    /\ UNCHANGED <<running, next>>

-----------------------------------------------------------------------------
(* One iteration of the foreach in tick(), one action per kind of tick.     *)

Turn(t) == inRun /\ round # <<>> /\ t = Head(round)

DoComplete(t) == TickComplete(t) /\ AfterTick(t, {}, <<>>, FALSE)

DoCallable(t) ==
    \E d \in Deeds[t], ok \in BOOLEAN :
        /\ TickCallable(t, d, ok)
        /\ AfterTick(t, Asks(d), <<d.on>>, d.op = "stop")

DoRecurring(t) ==
    \E d \in Deeds[t], ok \in BOOLEAN :
        /\ TickRecurring(t, d, ok)
        /\ AfterTick(t, Asks(d), <<d.on>>, d.op = "stop")

DoPromise(t) == TickPromise(t) /\ AfterTick(t, {}, <<>>, FALSE)

\* Mutant: waits for a task without scheduling it.
DoBeginWaitOnly(t) == BeginWait(t) /\ AfterTick(t, {}, <<>>, FALSE)

DoBeginWait(t) ==
    LET u == Yields[t][gen[t]]
    IN  BeginWait(t) /\ AfterTick(t, {u}, <<u>>, FALSE)

DoWaitOn(t) == WaitOn(t) /\ AfterTick(t, {}, <<>>, FALSE)

DoResume(t) ==
    \E d \in Deeds[t], how \in {"yield", "return", "throw"} :
        LET u == IF how = "yield" THEN {Yields[t][gen[t] + 1]} ELSE {}
        IN  /\ Resume(t, d, how)
            /\ AfterTick(t, Asks(d) \cup u,
                         IF how = "yield"
                         THEN <<d.on, Yields[t][gen[t] + 1]>> ELSE <<d.on>>,
                         d.op = "stop")

DoSome(t) ==
    \E k \in 0..Len(Subs[t]) :
        /\ TickSome(t, k)
        /\ IF LoopThrows(t, k) THEN Escape
           ELSE AfterTick(t, SomeCalls(t, k), Subs[t], FALSE)

DoThrowing(t) ==
    /\ \/ TickDoomed(t)
       \/ WaitThrows(t)
       \/ t \in Wrapper /\ UNCHANGED taskVars  \* schedule() refuses a delay
    /\ Escape

TickTask ==
    \E t \in Task :
        /\ Turn(t)
        /\ \/ DoComplete(t)
           \/ DoCallable(t)
           \/ DoRecurring(t)
           \/ DoPromise(t)
           \/ DoBeginWait(t)
           \/ DoWaitOn(t)
           \/ DoResume(t)
           \/ DoSome(t)
           \/ DoThrowing(t)

-----------------------------------------------------------------------------
\* run(): its loop ticks once before it looks at $running or $next.
Run ==
    /\ ~inRun
    /\ inRun' = TRUE
    /\ running' = TRUE
    /\ round' = next
    /\ next' = <<>>
    /\ UNCHANGED taskVars

\* Mutant: ignores stop().
NextRoundAnyway ==
    /\ inRun /\ round = <<>> /\ next # <<>>
    /\ round' = next
    /\ next' = <<>>
    /\ UNCHANGED <<taskVars, running, inRun>>

NextRound ==
    /\ inRun /\ round = <<>> /\ running /\ next # <<>>
    /\ round' = next
    /\ next' = <<>>
    /\ UNCHANGED <<taskVars, running, inRun>>

\* Mutant: returns after a single round.
ReturnEarly ==
    /\ inRun /\ round = <<>>
    /\ inRun' = FALSE
    /\ UNCHANGED <<taskVars, running, next, round>>

Return ==
    /\ inRun /\ round = <<>> /\ (~running \/ next = <<>>)
    /\ inRun' = FALSE
    /\ UNCHANGED <<taskVars, running, next, round>>

\* The script, while run() is not on the stack.
Client ==
    /\ ~inRun
    /\ \E d \in ClientDeeds :
          /\ Outside(d)
          /\ running' = (running /\ d.op # "stop")
          /\ \E s \in InOrder(Asks(d) \ Range(next), <<d.on>>) :
                next' = next \o s
          /\ UNCHANGED <<round, inRun>>

Next == TickTask \/ Run \/ NextRound \/ Return \/ Client

Spec == Init /\ [][Next]_vars

\* run() does not return before its loop ends.
Fairness == WF_vars(TickTask \/ NextRound \/ Return)

FairSpec == Spec /\ Fairness

-----------------------------------------------------------------------------
Contract == INSTANCE SchedulerContract
    WITH pending <- Pending,
         complete <- {t \in Task : IsComplete(t)},
         active <- inRun,
         stopped <- ~running

\* The scheduler keeps the contract of the Scheduler interface when no tick
\* throws: whatever is scheduled, from wherever and however often, is ticked
\* until it is complete, and run() ends with work left only after a stop().
KeepsContract == Contract!Spec

\* A task that an incomplete generator, SomeTask or wrapper waits for is never one that
\* nobody will tick: the waiting side would poll it for ever.
WaitedForIsPending ==
    \A t \in Pending : ~IsComplete(t) =>
        \A u \in Awaits(t) : IsComplete(u) \/ u \in Pending

\* "Run until there is no more work to do, or until stop is called": once
\* stop() was called run() returns, with tasks left that never complete.
StopEndsRun == (inRun /\ ~running) ~> ~inRun

\* A generator whose awaited task completed moves on while run() lasts: neither
\* the other tasks nor those scheduled meanwhile keep its tick from coming.
ResumedWhileRunning ==
    \A g \in Generators :
        (inRun /\ g \in Pending /\ AwaitOver(g))
            ~> (~inRun \/ IsComplete(g) \/ ~AwaitOver(g))

\* run() comes to an end unless work is left that never does: a task that recurs
\* for ever, a promise that is not settled, or a task that polls one which an
\* exception has dropped from the scheduler.
NeverEnds(t) ==
    /\ ~IsComplete(t)
    /\ \/ Kind[t] = "recurring" /\ Times[t] < 0
       \/ Kind[t] = "promise"
       \/ \E u \in Awaits(t) : ~IsComplete(u) /\ u \notin Pending
RunReturns == inRun ~> (~inRun \/ \E t \in Pending : NeverEnds(t))

\* A SomeTask that enough of its children have completed for is decided while
\* run() lasts, also when an exception left its loop half-way in an earlier run().
VerdictReached ==
    \A t \in Task : Kind[t] = "some" =>
        ((inRun /\ t \in Pending /\ Decidable(t)) ~> (~inRun \/ IsComplete(t)))

\* The storage holds an object once: no task is ticked twice in a round.
TickedOnceARound ==
    /\ Cardinality(Range(round)) = Len(round)
    /\ Cardinality(Range(next)) = Len(next)

\* "a scheduled task has it's tick method invoked repeatedly until it is
\* complete" (AbstractSchedulerTest): the scheduler lets go of no task whose
\* turn it is not before the task is complete.
TickedUntilComplete ==
    [][\A t \in Pending :
          \/ t \in Pending' \/ IsComplete(t)'
          \/ round # <<>> /\ t = Head(round)]_vars
=============================================================================
