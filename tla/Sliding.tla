------------------------------- MODULE Sliding -------------------------------
(***************************************************************************)
(* React\EEP\Window\Sliding: a ring buffer of $size events over an         *)
(* aggregate that can be compensated.  An event is named by its number of  *)
(* arrival; the aggregate is what it holds, the events accumulated and not *)
(* compensated, which every aggregate with an exact compensate() is a      *)
(* function of.  emit() calls its handlers before enqueue() goes on, and a *)
(* handler may call enqueue() again.                                       *)
(***************************************************************************)
EXTENDS Integers, Sequences

CONSTANTS
    Size,       \* $size, at least 1
    MaxEvents,  \* bound: events that arrive
    MaxDepth    \* calls of enqueue() on the stack; 1 when no handler enqueues

Null == -1  \* a slot of $buffer that was not written yet
NoEmission == [last |-> Null, held |-> {}, excess |-> {}]

VARIABLES
    arrived,  \* events passed to enqueue()
    index,    \* $index
    buffer,   \* $buffer
    held,     \* events the aggregate covers
    excess,   \* what was compensated without being covered
    calls,    \* enqueue() calls in their emit(), innermost first
    emission  \* what the last emit() passed on, and its event

vars == <<arrived, index, buffer, held, excess, calls, emission>>

Slots == 0..(Size - 1)

Init ==
    /\ arrived = 0
    /\ index = 0
    /\ buffer = [i \in Slots |-> Null]
    /\ held = {}
    /\ excess = {}
    /\ calls = <<>>
    /\ emission = NoEmission

\* The last two lines of enqueue().
Store(event) ==
    /\ buffer' = [buffer EXCEPT ![index % Size] = event]
    /\ index' = index + 1

\* Mutants: the slot of the event that arrives instead of the oldest one's; an
\* index that does not wrap.
OldestSlotLate == index % Size
OldestSlotUnbounded == index + 1

OldestSlot == (index + 1) % Size
Full == index >= Size - 1

\* enqueue() while the window fills.
Fill ==
    /\ arrived < MaxEvents /\ ~Full
    /\ arrived' = arrived + 1
    /\ held' = held \cup {arrived}
    /\ Store(arrived)
    /\ UNCHANGED <<excess, calls, emission>>

\* enqueue() up to its emit().
Emit ==
    /\ arrived < MaxEvents /\ Full /\ Len(calls) < MaxDepth
    /\ arrived' = arrived + 1
    /\ held' = held \cup {arrived}
    /\ emission' = [last |-> arrived, held |-> held', excess |-> excess]
    /\ calls' = <<[event |-> arrived, po |-> OldestSlot]>> \o calls
    /\ UNCHANGED <<index, buffer, excess>>

\* The handlers of the innermost emit() return: compensate, store, return.
Resume ==
    /\ calls # <<>>
    /\ LET old == buffer[Head(calls).po]
       IN  /\ held' = held \ {old}
           /\ excess' = excess \cup ({old} \ held)
    /\ Store(Head(calls).event)
    /\ calls' = Tail(calls)
    /\ UNCHANGED <<arrived, emission>>

Next == Fill \/ Emit \/ Resume

Spec == Init /\ [][Next]_vars

-----------------------------------------------------------------------------
TypeOK ==
    /\ arrived \in 0..MaxEvents
    /\ index \in Nat
    /\ buffer \in [Slots -> Int]
    /\ held \subseteq 0..(arrived - 1)
    /\ excess \subseteq Int
    /\ calls \in Seq([event : Nat, po : Slots])
    /\ emission \in [last : Int, held : SUBSET Int, excess : SUBSET Int]

\* "Wrong count on emit", "Failed to slide" (SlidingTest): from the event that
\* fills the window on, every event emits the aggregate of the last $size
\* events, of all of them and of nothing else.
EmitsLastSize ==
    /\ arrived >= Size => emission.last = arrived - 1
    /\ emission.last # Null =>
          /\ emission.held = (emission.last - Size + 1)..emission.last
          /\ emission.excess = {}
=============================================================================
