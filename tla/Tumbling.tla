------------------------------- MODULE Tumbling -------------------------------
(***************************************************************************)
(* React\EEP\Window\Tumbling: emits and starts afresh every $size events.  *)
(* An event is named by its number of arrival and the aggregate is the set *)
(* of events it covers.  emit() calls its handlers before enqueue() goes   *)
(* on, and a handler may call enqueue() again.                             *)
(***************************************************************************)
EXTENDS Integers

CONSTANTS
    Size,       \* $size, at least 1
    MaxEvents,  \* bound: events that arrive
    MaxDepth    \* calls of enqueue() on the stack; 1 when no handler enqueues

VARIABLES
    arrived,   \* events passed to enqueue()
    index,     \* $index
    held,      \* events the aggregate covers
    emitting,  \* calls of enqueue() in their emit()
    emitted    \* the emissions, sets of events

vars == <<arrived, index, held, emitting, emitted>>

Init ==
    /\ arrived = 0
    /\ index = 0
    /\ held = {}
    /\ emitting = 0
    /\ emitted = {}

\* accumulate() and the count.
Accumulate ==
    /\ arrived < MaxEvents /\ emitting < MaxDepth
    /\ arrived' = arrived + 1
    /\ held' = held \cup {arrived}
    /\ index' = index + 1

Full == index + 1 = Size

\* enqueue() of an event that does not fill the window.
Fill ==
    /\ ~Full
    /\ Accumulate
    /\ UNCHANGED <<emitting, emitted>>

\* enqueue() of the event that does, up to its emit().
Emit ==
    /\ Full
    /\ Accumulate
    /\ emitting' = emitting + 1
    /\ emitted' = emitted \cup {held'}

\* Mutant: the count is left as it is.
KeepIndex == index
NewIndex == 0
NewHeld == {}

\* The handlers of an emit() return: init(), the count starts again.
Close ==
    /\ emitting > 0
    /\ emitting' = emitting - 1
    /\ index' = NewIndex
    /\ held' = NewHeld
    /\ UNCHANGED <<arrived, emitted>>

Next == Fill \/ Emit \/ Close

Spec == Init /\ [][Next]_vars

-----------------------------------------------------------------------------
TypeOK ==
    /\ arrived \in 0..MaxEvents
    /\ index \in 0..Size
    /\ held \subseteq 0..(arrived - 1)
    /\ emitting \in 0..MaxDepth
    /\ emitted \subseteq SUBSET (0..(arrived - 1))

\* "Wrong count on emit", "Failed to tumble" (TumblingTest): between calls the
\* emissions are the stream cut into pieces of $size events, without overlap or
\* gap, and the window holds what is left.
CutsTheStream ==
    emitting = 0 =>
        /\ \E n \in 0..arrived :
              /\ emitted = {(Size * i)..(Size * i + Size - 1) : i \in 0..(n - 1)}
              /\ held = (Size * n)..(arrived - 1)
        /\ index < Size
=============================================================================
