--------------------------- MODULE MCCountWindows ---------------------------
(* A sliding and a tumbling window of the same size in one program, each   *)
(* with an aggregate of its own.                                           *)
EXTENDS Integers

CONSTANTS
    Size,         \* $size of both
    CountEvents,  \* bound: events that arrive at each
    CountDepth    \* calls of one enqueue() on the stack

ASSUME CountAssumption ==
    Size \in Nat \ {0} /\ CountEvents \in Nat /\ CountDepth \in Nat \ {0}

VARIABLES sArrived, sIndex, sBuffer, sHeld, sExcess, sCalls, sEmission,
          tArrived, tIndex, tHeld, tEmitting, tEmitted

S == INSTANCE Sliding
    WITH MaxEvents <- CountEvents, MaxDepth <- CountDepth,
         arrived <- sArrived, index <- sIndex, buffer <- sBuffer, held <- sHeld,
         excess <- sExcess, calls <- sCalls, emission <- sEmission

T == INSTANCE Tumbling
    WITH MaxEvents <- CountEvents, MaxDepth <- CountDepth,
         arrived <- tArrived, index <- tIndex, held <- tHeld,
         emitting <- tEmitting, emitted <- tEmitted

sVars == <<sArrived, sIndex, sBuffer, sHeld, sExcess, sCalls, sEmission>>
tVars == <<tArrived, tIndex, tHeld, tEmitting, tEmitted>>

CountInit == S!Init /\ T!Init

CountNext ==
    \/ S!Fill /\ UNCHANGED tVars
    \/ S!Emit /\ UNCHANGED tVars
    \/ S!Resume /\ UNCHANGED tVars
    \/ T!Fill /\ UNCHANGED sVars
    \/ T!Emit /\ UNCHANGED sVars
    \/ T!Close /\ UNCHANGED sVars

CountSpec == CountInit /\ [][CountNext]_<<sVars, tVars>>

\* The type invariant of both windows.
CountTypeOK == S!TypeOK /\ T!TypeOK

\* "Wrong count on emit", "Failed to slide": see Sliding!EmitsLastSize.
EmitsLastSize == S!EmitsLastSize

\* "Wrong count on emit", "Failed to tumble": see Tumbling!CutsTheStream.
TumblingCuts == T!CutsTheStream
=============================================================================
