-------------------------- MODULE SchedulerContract --------------------------
(***************************************************************************)
(* What the Scheduler interface promises of a scheduler, without saying    *)
(* how tasks are queued: a scheduled task is ticked until it is complete,  *)
(* and run() runs until there is no more work or stop() is called.  The    *)
(* interface does not speak of exceptions: here one may end run() and cost *)
(* the scheduler the task that threw, and no other.                        *)
(***************************************************************************)
CONSTANT Task

VARIABLES
    pending,   \* tasks the scheduler has accepted and not let go of
    complete,  \* tasks that are complete
    active,    \* run() is on the stack
    stopped    \* stop() was called during this run()

vars == <<pending, complete, active, stopped>>

Init ==
    /\ pending = {}
    /\ complete \subseteq Task
    /\ active = FALSE
    /\ stopped \in BOOLEAN

\* Tasks are scheduled, completed and cancelled; those of kept are not let go of.
Progress(kept) ==
    /\ kept \subseteq pending' /\ pending' \subseteq Task
    /\ complete \subseteq complete' /\ complete' \subseteq Task
    /\ stopped' \in BOOLEAN /\ (stopped => stopped')

\* Outside of ticks.
Events == Progress(pending) /\ UNCHANGED active

\* A pending task is ticked; it is let go of only when it is complete.
Tick(t) ==
    /\ active /\ t \in pending
    /\ Progress(pending \ {t})
    /\ t \in complete' \cup pending'
    /\ UNCHANGED active

\* The tick of t throws: it is the end of a body, or the scheduler loses t.
Throw(t) ==
    /\ active /\ t \in pending
    /\ Progress(pending \ {t})
    /\ t \notin pending' \/ complete' # complete
    /\ active' = FALSE

Begin ==
    /\ ~active
    /\ active' = TRUE /\ stopped' = FALSE
    /\ UNCHANGED <<pending, complete>>

Return ==
    /\ active /\ (stopped \/ pending = {})
    /\ active' = FALSE
    /\ UNCHANGED <<pending, complete, stopped>>

Next ==
    \/ Events
    \/ \E t \in Task : Tick(t) \/ Throw(t)
    \/ Begin
    \/ Return

Spec == Init /\ [][Next]_vars
=============================================================================
