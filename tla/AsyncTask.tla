----------------------------- MODULE AsyncTask -----------------------------
(***************************************************************************)
(* The task half of the Async library: the state of every Task object and  *)
(* what one call of its tick() does to it.  A scheduler module EXTENDS     *)
(* this one, decides which task is ticked next, and reacts to what the     *)
(* tick asked of it: the tasks passed to schedule(), a stop(), or an       *)
(* exception that left tick().                                             *)
(*                                                                         *)
(* Results and exceptions carry no data here: only whether there is one.   *)
(* PHP runs one tick at a time, so one tick is one atomic action; what a   *)
(* callable or a generator body may do to other objects while it runs is   *)
(* a deed, chosen from Deeds.                                              *)
(***************************************************************************)
EXTENDS Integers, Sequences, FiniteSets, Functions

CONSTANTS
    Task,       \* the Task objects of the program
    NoTask,     \* null
    Kind,       \* the class of each task
    Subs,       \* SomeTask::$tasks, in array order
    HowMany,    \* SomeTask::$howMany (AllTask: Len(Subs[t]); AnyTask: 1)
    Times,      \* RecurringTask::$times; negative is for ever
    Yields,     \* the tasks a generator body yields, in order
    Stillborn,  \* generators that throw before their first yield
    Wrapped,    \* DelayedTask::$wrapped, ThrottledTask::$wrapped
    Core,       \* the task under all the wrappers of a task
    Deeds       \* what the callable or the generator body of a task may do

Kinds == {"callable", "recurring", "promise", "generator", "some",
          "delayed", "throttled"}

Wrapper == {t \in Task : Kind[t] \in {"delayed", "throttled"}}
Generators == {t \in Task : Kind[t] = "generator"}

\* User code does at most one of these per call: nothing, stop the scheduler,
\* cancel or schedule a task, settle the promise a PromiseTask was built on.
DeedType == [op : {"none", "stop"}, on : {NoTask}] \cup
            [op : {"cancel", "schedule", "resolve", "reject"}, on : Task]

\* A body cannot cancel its own GeneratorTask: isComplete() would call
\* valid() on a generator that is running, which PHP refuses.
ASSUME ProgramAssumption ==
    /\ NoTask \notin Task
    /\ Kind \in [Task -> Kinds]
    /\ Subs \in [Task -> Seq(Task)]
    /\ \A t \in Task : \A i, j \in DOMAIN Subs[t] :
          Subs[t][i] = Subs[t][j] => i = j
    /\ HowMany \in [Task -> Int]
    /\ Times \in [Task -> Int]
    /\ Yields \in [Task -> Seq(Task)]
    /\ Stillborn \subseteq Generators
    /\ Wrapped \in [Task -> Task]
    /\ Core \in [Task -> Task \ Wrapper]
    /\ \A t \in Task : Core[t] = IF t \in Wrapper THEN Core[Wrapped[t]] ELSE t
    /\ Deeds \in [Task -> (SUBSET DeedType) \ {{}}]
    /\ \A t \in Generators : \A d \in Deeds[t] :
          d.op = "cancel" => Core[d.on] # t

VARIABLES
    successful,  \* tasks with $successful set (callable, promise)
    exception,   \* tasks with an $exception (all but SomeTask)
    cancelled,   \* tasks with $cancelled set
    ticks,       \* RecurringTask::$ticks; never read, and kept 0, if times < 0
    gen,         \* the yield a generator is suspended at; past the last: ended
    doomed,      \* generators not started yet that will throw when they are
    waiting,     \* GeneratorTask::$waiting
    results,     \* keys of SomeTask::$results
    exceptions,  \* keys of SomeTask::$exceptions
    scheduled    \* SomeTask::$scheduled, $wrappedTaskScheduled of the wrappers

taskVars == <<successful, exception, cancelled, ticks, gen, doomed, waiting,
              results, exceptions, scheduled>>

TaskInit ==
    /\ successful = {}
    /\ exception = {}
    /\ cancelled = {}
    /\ ticks = [t \in Task |-> 0]
    /\ gen = [t \in Task |-> 1]
    /\ doomed = Stillborn
    /\ waiting = [t \in Task |-> NoTask]
    /\ results = [t \in Task |-> {}]
    /\ exceptions = [t \in Task |-> {}]
    /\ scheduled = {}

TaskTypeOK ==
    /\ successful \subseteq Task
    /\ exception \subseteq Task
    /\ cancelled \subseteq Task
    /\ ticks \in [Task -> Nat]
    /\ \A t \in Task : ticks[t] = 0 \/ ticks[t] <= Times[t]
    /\ gen \in [Task -> Nat]
    /\ \A t \in Task : gen[t] \in 1..(Len(Yields[t]) + 1)
    /\ doomed \subseteq Generators
    /\ waiting \in [Task -> Task \cup {NoTask}]
    /\ results \in [Task -> SUBSET Nat]
    /\ exceptions \in [Task -> SUBSET Nat]
    /\ \A t \in Task : results[t] \cup exceptions[t] \subseteq 1..Len(Subs[t])
    /\ scheduled \subseteq Task

-----------------------------------------------------------------------------
(* Status queries.  The wrappers delegate every one to the wrapped task.    *)

Ended(g) == gen[g] > Len(Yields[g])

\* Mutants: one run too many; one child too many.
OwnSuccessLate(c) ==
    \/ Kind[c] \in {"callable", "promise"} /\ c \in successful
    \/ Kind[c] = "recurring" /\ Times[c] >= 0 /\ ticks[c] > Times[c]
    \/ Kind[c] = "generator" /\ Ended(c)
    \/ Kind[c] = "some" /\ Cardinality(results[c]) >= HowMany[c]

OwnSuccessAbove(c) ==
    \/ Kind[c] \in {"callable", "promise"} /\ c \in successful
    \/ Kind[c] = "recurring" /\ Times[c] >= 0 /\ ticks[c] >= Times[c]
    \/ Kind[c] = "generator" /\ Ended(c)
    \/ Kind[c] = "some" /\ Cardinality(results[c]) > HowMany[c]

OwnSuccess(c) ==
    \/ Kind[c] \in {"callable", "promise"} /\ c \in successful
    \/ Kind[c] = "recurring" /\ Times[c] >= 0 /\ ticks[c] >= Times[c]
    \/ Kind[c] = "generator" /\ Ended(c)
    \/ Kind[c] = "some" /\ Cardinality(results[c]) >= HowMany[c]

OwnFault(c) ==
    \/ Kind[c] # "some" /\ c \in exception
    \/ /\ Kind[c] = "some"
       /\ Cardinality(exceptions[c]) > Len(Subs[c]) - HowMany[c]

IsSuccessful(t) == OwnSuccess(Core[t])
IsFaulted(t) == OwnFault(Core[t])
IsCancelled(t) == Core[t] \in cancelled
IsComplete(t) == IsSuccessful(t) \/ IsFaulted(t) \/ IsCancelled(t)

\* What a parent that looks at a complete child books it as.
Won(t) == IsSuccessful(t) /\ ~IsFaulted(t) /\ ~IsCancelled(t)
Failed(t) == IsFaulted(t) \/ IsCancelled(t)

\* Generator::valid() starts the body, so the first isComplete() on a doomed
\* generator throws; the body has then ended.
Throws(t) == Core[t] \in doomed

EndedBy(S) ==
    [g \in Task |-> IF g \in S THEN Len(Yields[g]) + 1 ELSE gen[g]]

-----------------------------------------------------------------------------
(* Deeds of user code.                                                      *)

Asks(d) == {u \in {d.on} : d.op = "schedule"}
Starts(d) == {c \in doomed : d.op = "cancel" /\ c = Core[d.on]}
Settles(d, op) == {p \in {d.on} : /\ d.op = op
                                  /\ Kind[p] = "promise"
                                  /\ p \notin successful \cup exception}
\* Mutant: cancel() without the isComplete() check.
CancelsComplete(d) == {c \in Task \ doomed : d.op = "cancel" /\ c = Core[d.on]}
Cancels(d) == {c \in Task : /\ d.op = "cancel"
                            /\ c = Core[d.on]
                            /\ c \notin doomed
                            /\ ~IsComplete(c)}

\* The deed d by code whose task then succeeds (won) or fails (failed).
Perform(d, won, failed) ==
    /\ successful' = successful \cup won \cup Settles(d, "resolve")
    /\ exception' = exception \cup failed \cup Settles(d, "reject")
    /\ cancelled' = cancelled \cup Cancels(d)
    /\ doomed' = doomed \ Starts(d)

\* Code outside every task: the script before or after run(), a promise.
Outside(d) ==
    /\ Perform(d, {}, {})
    /\ gen' = EndedBy(Starts(d))
    /\ UNCHANGED <<ticks, waiting, results, exceptions, scheduled>>

-----------------------------------------------------------------------------
(* tick() on a task that has nothing to do or whose isComplete() throws.    *)

TickComplete(t) ==
    /\ t \notin Wrapper /\ t \notin doomed /\ IsComplete(t)
    /\ UNCHANGED taskVars

TickDoomed(t) ==
    /\ t \in doomed
    /\ doomed' = doomed \ {t}
    /\ gen' = EndedBy({t})
    /\ UNCHANGED <<successful, exception, cancelled, ticks, waiting, results,
                   exceptions, scheduled>>

\* A tick that reaches doTick().
Live(t, kind) == Kind[t] = kind /\ t \notin doomed /\ ~IsComplete(t)

TickCallable(t, d, ok) ==
    /\ Live(t, "callable")
    /\ Perform(d, IF ok THEN {t} ELSE {}, IF ok THEN {} ELSE {t})
    /\ gen' = EndedBy(Starts(d))
    /\ UNCHANGED <<ticks, waiting, results, exceptions, scheduled>>

\* Mutant: the callable runs again though the task is complete.
TickRecurringAgain(t, d, ok) ==
    /\ Kind[t] = "recurring"
    /\ ticks' = IF Times[t] < 0 THEN ticks
                ELSE [ticks EXCEPT ![t] = @ + 1]
    /\ Perform(d, {}, IF ok THEN {} ELSE {t})
    /\ gen' = EndedBy(Starts(d))
    /\ UNCHANGED <<waiting, results, exceptions, scheduled>>

\* The run is counted before it starts: a callable that cancels its own task
\* during the last run finds it complete already.
InLastRun(t, d) ==
    IF d.op = "cancel" /\ Core[d.on] = t /\ ticks[t] + 1 = Times[t]
    THEN [op |-> "none", on |-> NoTask] ELSE d

TickRecurring(t, d, ok) ==
    /\ Live(t, "recurring")
    /\ ticks' = IF Times[t] < 0 THEN ticks
                ELSE [ticks EXCEPT ![t] = @ + 1]
    /\ Perform(InLastRun(t, d), {}, IF ok THEN {} ELSE {t})
    /\ gen' = EndedBy(Starts(InLastRun(t, d)))
    /\ UNCHANGED <<waiting, results, exceptions, scheduled>>

TickPromise(t) ==
    /\ Live(t, "promise")
    /\ UNCHANGED taskVars

-----------------------------------------------------------------------------
(* GeneratorTask::doTick                                                    *)

\* Not waiting: take the task the body is suspended at and schedule it.
BeginWait(t) ==
    /\ Live(t, "generator") /\ waiting[t] = NoTask
    /\ waiting' = [waiting EXCEPT ![t] = Yields[t][gen[t]]]
    /\ UNCHANGED <<successful, exception, cancelled, ticks, gen, doomed,
                   results, exceptions, scheduled>>

\* Mutant: never looks whether the awaited task is complete.
WaitOnForever(t) ==
    /\ Live(t, "generator") /\ waiting[t] # NoTask
    /\ UNCHANGED taskVars

WaitOn(t) ==
    /\ Live(t, "generator") /\ waiting[t] # NoTask
    /\ ~Throws(waiting[t]) /\ ~IsComplete(waiting[t])
    /\ UNCHANGED taskVars

WaitThrows(t) ==
    /\ Live(t, "generator") /\ waiting[t] # NoTask /\ Throws(waiting[t])
    /\ doomed' = doomed \ {Core[waiting[t]]}
    /\ gen' = EndedBy({Core[waiting[t]]})
    /\ UNCHANGED <<successful, exception, cancelled, ticks, waiting, results,
                   exceptions, scheduled>>

\* send() or throw() runs the body from its yield, during which it may do the
\* deed d, to its next yield (when it has one) or to its end, by a return or by
\* an exception it does not catch.  After a yield the same tick goes on to wait.
GoOn(t, d, how) ==
    /\ Live(t, "generator") /\ waiting[t] # NoTask
    /\ how = "yield" => gen[t] < Len(Yields[t])
    /\ Perform(d, {}, IF how = "throw" THEN {t} ELSE {})
    /\ gen' = [EndedBy(Starts(d)) EXCEPT ![t] =
                  IF how = "yield" THEN gen[t] + 1 ELSE Len(Yields[t]) + 1]
    /\ waiting' = [waiting EXCEPT ![t] =
                  IF how = "yield" THEN Yields[t][gen[t] + 1] ELSE NoTask]
    /\ UNCHANGED <<ticks, results, exceptions, scheduled>>

\* Mutants: sends whatever the awaited task holds, complete or not; looks for
\* its success where it should look for its completion.
ResumeEarly(t, d, how) ==
    waiting[t] # NoTask /\ ~Throws(waiting[t]) /\ GoOn(t, d, how)
ResumeOnSuccess(t, d, how) ==
    /\ waiting[t] # NoTask
    /\ ~Throws(waiting[t]) /\ IsSuccessful(waiting[t])
    /\ GoOn(t, d, how)

Resume(t, d, how) ==
    /\ waiting[t] # NoTask
    /\ ~Throws(waiting[t]) /\ IsComplete(waiting[t])
    /\ GoOn(t, d, how)

-----------------------------------------------------------------------------
(* SomeTask::doTick                                                         *)

\* Mutant: asks isSuccessful() before isFaulted().
ResultsAfterHasty(t, k) ==
    results[t] \cup {i \in 1..k : IsSuccessful(Subs[t][i])}
ResultsAfter(t, k) ==
    results[t] \cup {i \in 1..k : Won(Subs[t][i])}
ExceptionsAfter(t, k) ==
    exceptions[t] \cup {i \in 1..k : Failed(Subs[t][i])}

\* isComplete() at the top of the loop, when k children have been looked at.
Decided(t, k) ==
    \/ Cardinality(ResultsAfter(t, k)) >= HowMany[t]
    \/ Cardinality(ExceptionsAfter(t, k)) > Len(Subs[t]) - HowMany[t]

\* The loop ends after k children: decided, thrown out of, or run to its end.
\* Mutant: no isComplete() at the top of the loop.
LoopStopsLate(t, k) ==
    \/ k = Len(Subs[t])
    \/ k < Len(Subs[t]) /\ Throws(Subs[t][k + 1])

LoopStops(t, k) ==
    \/ k = Len(Subs[t])
    \/ Decided(t, k)
    \/ k < Len(Subs[t]) /\ Throws(Subs[t][k + 1])

LoopLength(t, k) ==
    LoopStops(t, k) /\ \A j \in 0..(k - 1) : ~LoopStops(t, j)

LoopThrows(t, k) == k < Len(Subs[t]) /\ ~Decided(t, k)

\* The children the tick passes to schedule(): all incomplete ones, once, when
\* the loop was not left early.
SomeCalls(t, k) ==
    {u \in Range(Subs[t]) :
        k = Len(Subs[t]) /\ t \notin scheduled /\ ~IsComplete(u)}

TickSome(t, k) ==
    /\ Live(t, "some")
    /\ LoopLength(t, k)
    /\ results' = [results EXCEPT ![t] = ResultsAfter(t, k)]
    /\ exceptions' = [exceptions EXCEPT ![t] = ExceptionsAfter(t, k)]
    /\ scheduled' = IF k = Len(Subs[t]) THEN scheduled \cup {t} ELSE scheduled
    /\ LET started == IF LoopThrows(t, k) THEN {Core[Subs[t][k + 1]]} ELSE {}
       IN  doomed' = doomed \ started /\ gen' = EndedBy(started)
    /\ UNCHANGED <<successful, exception, cancelled, ticks, waiting>>

-----------------------------------------------------------------------------
(* DelayedTask::tick and ThrottledTask::tick, on a scheduler that has       *)
(* timers (one that has none throws from schedule() and nothing changes),   *)
(* with the isComplete() its scheduler calls after every tick.              *)

TickWrapper(t) ==
    /\ t \in Wrapper
    /\ scheduled' = scheduled \cup {t}
    /\ doomed' = doomed \ {Core[t]}
    /\ gen' = EndedBy({Core[t]} \cap doomed)
    /\ UNCHANGED <<successful, exception, cancelled, ticks, waiting, results,
                   exceptions>>

WrapperCalls(t) == {u \in {Wrapped[t]} : t \notin scheduled}

-----------------------------------------------------------------------------
AwaitOver(g) == \E u \in Task : waiting[g] = u /\ IsComplete(u)

\* Enough children of t are complete for a verdict, booked or not.
Decidable(t) ==
    LET won == {i \in DOMAIN Subs[t] : Won(Subs[t][i])}
        failed == {i \in DOMAIN Subs[t] : Failed(Subs[t][i])}
    IN  \/ Cardinality(won) >= HowMany[t]
        \/ Cardinality(failed) > Len(Subs[t]) - HowMany[t]

\* The tasks that t polls because it has scheduled them.
Awaits(t) ==
    CASE t \in Generators -> {waiting[t]} \ {NoTask}
      [] t \in scheduled /\ Kind[t] = "some" -> Range(Subs[t])
      [] t \in scheduled /\ t \in Wrapper -> {Wrapped[t]}
      [] OTHER -> {}

(* What the tasks promise, whatever scheduler ticks them.                   *)

\* SomeTask books the truth: a child under a key of $results has succeeded and
\* one under a key of $exceptions has failed or was cancelled, and neither is
\* taken back by anything that happens to the child later (a late settlement
\* of its promise, a cancel(), a further tick).  SomeTask::doTick.
BooksAreTrue ==
    \A t \in Task : Kind[t] = "some" =>
        /\ \A i \in results[t] : Won(Subs[t][i])
        /\ \A i \in exceptions[t] : Failed(Subs[t][i])

\* A SomeTask never holds both verdicts: $howMany successes and so many
\* failures that $howMany successes are impossible.  isSuccessful and isFaulted
\* of SomeTask count two arrays that the loop fills separately.
OneVerdict ==
    \A t \in Task : Kind[t] = "some" => ~(OwnSuccess(t) /\ OwnFault(t))

\* "The task result will be an array containing the results of the first
\* $howMany tasks": the isComplete() at the top of the loop keeps a tick that
\* finds more complete children than it needs from booking them all.
NoMoreThanHowMany ==
    \A t \in Task : Kind[t] = "some" =>
        \/ results[t] = {}
        \/ Cardinality(results[t]) <= HowMany[t]

\* A complete task stays complete and does nothing more, though it may still be
\* queued (it was cancelled, or scheduled twice): its callable or body does not
\* run again, and children that complete later do not reach a SomeTask's arrays.
CompletionStep ==
    \A t \in Task : IsComplete(t) =>
        /\ IsComplete(t)'
        /\ results'[t] = results[t] /\ exceptions'[t] = exceptions[t]
        /\ ticks'[t] = ticks[t] /\ gen'[t] = gen[t]
        /\ waiting'[t] = waiting[t]
CompletionIsFinal == [][CompletionStep]_taskVars

\* A suspended body and its GeneratorTask keep in step, however often and by
\* whomever the task is ticked: what is waited for is the yield the body stands
\* at, and whatever it has gone past is complete and stays so, though it was
\* cancelled or settled from elsewhere.  GeneratorTask::doTick.
BodyInStep ==
    \A g \in Generators : ~Ended(g) =>
        /\ \/ waiting[g] = Yields[g][gen[g]]
           \/ waiting[g] = NoTask /\ gen[g] = 1
        /\ \A i \in 1..(gen[g] - 1) : IsComplete(Yields[g][i])

-----------------------------------------------------------------------------
(* What the interface says and this code does not do.                       *)

\* "Indicates if there was an error running the task" (Task::isFaulted): a
\* generator whose body threw does not count as a success without an error.
NoSilentFailure == \A g \in Stillborn : g \notin doomed => ~Won(g)
=============================================================================
