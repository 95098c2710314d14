-------------------------- MODULE AsyncTaskProofs --------------------------
(***************************************************************************)
(* What every step on the tasks preserves, whichever scheduler takes it.   *)
(* TaskStep is the union of the actions of AsyncTask; the proofs about a   *)
(* scheduler only have to show that its steps are TaskSteps.               *)
(***************************************************************************)
EXTENDS AsyncTask, FiniteSetTheorems, TLAPS

DeedStep(t) ==
    \E d \in DeedType :
        \/ \E ok \in BOOLEAN : TickCallable(t, d, ok) \/ TickRecurring(t, d, ok)
        \/ \E how \in {"yield", "return", "throw"} : Resume(t, d, how)

TaskStep ==
    \/ UNCHANGED taskVars
    \/ \E d \in DeedType : Outside(d)
    \/ \E t \in Task :
          \/ DeedStep(t)
          \/ TickDoomed(t)
          \/ BeginWait(t)
          \/ WaitThrows(t)
          \/ \E k \in 0..Len(Subs[t]) : TickSome(t, k)
          \/ TickWrapper(t)

-----------------------------------------------------------------------------
(* Constants.                                                               *)

LEMMA YieldsType ==
  ASSUME NEW t \in Task
  PROVE  /\ Len(Yields[t]) \in Nat
         /\ \A i \in 1..Len(Yields[t]) : Yields[t][i] \in Task
<1>1. Yields[t] \in Seq(Task)
  BY ProgramAssumption
<1> QED
  BY <1>1

LEMMA SubsType ==
  ASSUME NEW t \in Task
  PROVE  /\ Len(Subs[t]) \in Nat
         /\ \A i \in 1..Len(Subs[t]) : Subs[t][i] \in Task
<1>1. Subs[t] \in Seq(Task)
  BY ProgramAssumption
<1> QED
  BY <1>1

LEMMA CoreOfPlain ==
  ASSUME NEW t \in Task, Kind[t] \notin {"delayed", "throttled"}
  PROVE  Core[t] = t /\ t \notin Wrapper
<1>1. t \notin Wrapper
  BY DEF Wrapper
<1> QED
  BY <1>1, ProgramAssumption

\* A task whose doTick() runs is not complete.
LEMMA LiveIsIncomplete ==
  ASSUME NEW t \in Task, NEW kind \in Kinds \ {"delayed", "throttled"},
         Live(t, kind)
  PROVE  /\ Core[t] = t /\ Kind[t] = kind /\ t \notin doomed
         /\ ~OwnSuccess(t) /\ ~OwnFault(t) /\ t \notin cancelled
<1>1. Core[t] = t
  BY CoreOfPlain DEF Live
<1> QED
  BY <1>1 DEF Live, IsComplete, IsSuccessful, IsFaulted, IsCancelled

-----------------------------------------------------------------------------
(* Finite sets of keys.                                                     *)

LEMMA KeysAreFinite ==
  ASSUME NEW n \in Nat, NEW S \in SUBSET (1..n)
  PROVE  IsFiniteSet(S) /\ Cardinality(S) \in Nat /\ Cardinality(S) <= n
<1>1. IsFiniteSet(1..n) /\ Cardinality(1..n) = n
  BY FS_Interval, 1 \in Int, n \in Int
<1>2. IsFiniteSet(S) /\ Cardinality(S) <= Cardinality(1..n)
  BY <1>1, FS_Subset
<1> QED
  BY <1>1, <1>2, FS_CardinalityType

LEMMA DisjointKeys ==
  ASSUME NEW n \in Nat, NEW R \in SUBSET (1..n), NEW E \in SUBSET (1..n),
         R \cap E = {}
  PROVE  Cardinality(R) + Cardinality(E) <= n
<1>1. IsFiniteSet(R) /\ IsFiniteSet(E)
  BY KeysAreFinite
<1>2. Cardinality(R \cup E) =
        Cardinality(R) + Cardinality(E) - Cardinality(R \cap E)
  BY <1>1, FS_Union
<1>3. Cardinality(R \cap E) = 0
  BY FS_EmptySet
<1>4. R \cup E \in SUBSET (1..n)
  OBVIOUS
<1>5. Cardinality(R \cup E) <= n
  BY <1>4, KeysAreFinite
<1>6. Cardinality(R) \in Nat /\ Cardinality(E) \in Nat
  BY KeysAreFinite
<1> QED
  BY <1>2, <1>3, <1>5, <1>6

LEMMA OneMoreKey ==
  ASSUME NEW n \in Nat, NEW R \in SUBSET (1..n), NEW k, NEW S \in SUBSET (R \cup {k})
  PROVE  Cardinality(S) \in Nat /\ Cardinality(S) <= Cardinality(R) + 1
<1>1. IsFiniteSet(R) /\ Cardinality(R) \in Nat
  BY KeysAreFinite
<1>2. /\ IsFiniteSet(R \cup {k})
      /\ Cardinality(R \cup {k}) =
            IF k \in R THEN Cardinality(R) ELSE Cardinality(R) + 1
  BY <1>1, FS_AddElement
<1>3. IsFiniteSet(S) /\ Cardinality(S) <= Cardinality(R \cup {k})
  BY <1>2, FS_Subset
<1>4. Cardinality(S) \in Nat
  BY <1>3, FS_CardinalityType
<1> QED
  BY <1>1, <1>2, <1>3, <1>4

-----------------------------------------------------------------------------
(* Types.                                                                   *)

LEMMA TaskInitTypes == TaskInit => TaskTypeOK
  BY ProgramAssumption DEF TaskInit, TaskTypeOK, Generators

LEMMA EndedByType ==
  ASSUME TaskTypeOK, NEW S
  PROVE  /\ EndedBy(S) \in [Task -> Nat]
         /\ \A g \in Task : EndedBy(S)[g] \in 1..(Len(Yields[g]) + 1)
  BY YieldsType DEF TaskTypeOK, EndedBy

LEMMA PerformTypes ==
  ASSUME TaskTypeOK, NEW d \in DeedType, NEW won \in SUBSET Task,
         NEW failed \in SUBSET Task, Perform(d, won, failed)
  PROVE  /\ successful' \subseteq Task
         /\ exception' \subseteq Task
         /\ cancelled' \subseteq Task
         /\ doomed' \subseteq Generators
<1>1. Settles(d, "resolve") \subseteq Task /\ Settles(d, "reject") \subseteq Task
  BY DEF Settles, DeedType
<1>2. Cancels(d) \subseteq Task
  BY DEF Cancels
<1> QED
  BY <1>1, <1>2 DEF Perform, TaskTypeOK

\* A run of a RecurringTask performs the deed d or, its last one, none.
LEMMA RunPerforms ==
  ASSUME NEW t \in Task, NEW d \in DeedType, NEW ok \in BOOLEAN,
         TickRecurring(t, d, ok)
  PROVE  \E e \in DeedType : /\ Perform(e, {}, IF ok THEN {} ELSE {t})
                            /\ gen' = EndedBy(Starts(e))
<1>1. InLastRun(t, d) \in DeedType
  BY DEF InLastRun, DeedType
<1> QED
  BY <1>1 DEF TickRecurring

LEMMA TaskStepTypes ==
  ASSUME TaskTypeOK, TaskStep
  PROVE  TaskTypeOK'
<1>1. CASE UNCHANGED taskVars
  BY <1>1 DEF TaskTypeOK, taskVars
<1>2. ASSUME NEW d \in DeedType, Outside(d)
      PROVE  TaskTypeOK'
  BY <1>2, PerformTypes, EndedByType DEF Outside, TaskTypeOK
<1>3. ASSUME NEW t \in Task, NEW d \in DeedType, NEW ok \in BOOLEAN,
             TickCallable(t, d, ok)
      PROVE  TaskTypeOK'
  <2>1. Perform(d, IF ok THEN {t} ELSE {}, IF ok THEN {} ELSE {t})
    BY <1>3 DEF TickCallable
  <2>2. /\ successful' \subseteq Task /\ exception' \subseteq Task
        /\ cancelled' \subseteq Task /\ doomed' \subseteq Generators
    BY <2>1, PerformTypes, (IF ok THEN {t} ELSE {}) \in SUBSET Task,
       (IF ok THEN {} ELSE {t}) \in SUBSET Task
  <2> QED
    BY <1>3, <2>2, EndedByType DEF TickCallable, TaskTypeOK
<1>4. ASSUME NEW t \in Task, NEW d \in DeedType, NEW ok \in BOOLEAN,
             TickRecurring(t, d, ok)
      PROVE  TaskTypeOK'
  <2>1. PICK e \in DeedType : /\ Perform(e, {}, IF ok THEN {} ELSE {t})
                              /\ gen' = EndedBy(Starts(e))
    BY <1>4, RunPerforms
  <2>2. /\ successful' \subseteq Task /\ exception' \subseteq Task
        /\ cancelled' \subseteq Task /\ doomed' \subseteq Generators
    BY <2>1, PerformTypes, (IF ok THEN {} ELSE {t}) \in SUBSET Task
  <2>3. ~OwnSuccess(t) /\ Kind[t] = "recurring"
    BY <1>4, LiveIsIncomplete DEF TickRecurring, Kinds
  <2>4. ticks' \in [Task -> Nat]
    BY <1>4 DEF TickRecurring, TaskTypeOK
  <2>5. ASSUME NEW u \in Task
        PROVE  ticks'[u] = 0 \/ ticks'[u] <= Times[u]
    BY <1>4, <2>3, ProgramAssumption DEF TickRecurring, TaskTypeOK, OwnSuccess
  <2> QED
    BY <1>4, <2>1, <2>2, <2>4, <2>5, EndedByType DEF TickRecurring, TaskTypeOK
<1>5. ASSUME NEW t \in Task, NEW d \in DeedType,
             NEW how \in {"yield", "return", "throw"}, Resume(t, d, how)
      PROVE  TaskTypeOK'
  <2>1. Perform(d, {}, IF how = "throw" THEN {t} ELSE {})
    BY <1>5 DEF Resume, GoOn
  <2>2. /\ successful' \subseteq Task /\ exception' \subseteq Task
        /\ cancelled' \subseteq Task /\ doomed' \subseteq Generators
    BY <2>1, PerformTypes, (IF how = "throw" THEN {t} ELSE {}) \in SUBSET Task
  <2>3. how = "yield" => gen[t] + 1 \in 1..Len(Yields[t])
    <3>1. how = "yield" => gen[t] < Len(Yields[t])
      BY <1>5 DEF Resume, GoOn
    <3>2. gen[t] \in 1..(Len(Yields[t]) + 1)
      BY DEF TaskTypeOK
    <3> QED
      BY <3>1, <3>2, YieldsType
  <2>4. /\ gen' \in [Task -> Nat]
        /\ \A g \in Task : gen'[g] \in 1..(Len(Yields[g]) + 1)
    <3> DEFINE E == EndedBy(Starts(d))
               n == IF how = "yield" THEN gen[t] + 1 ELSE Len(Yields[t]) + 1
    <3>1. gen' = [E EXCEPT ![t] = n]
      BY <1>5 DEF Resume, GoOn
    <3>2. n \in 1..(Len(Yields[t]) + 1)
      BY <2>3, YieldsType
    <3>3. E \in [Task -> Nat] /\ \A g \in Task : E[g] \in 1..(Len(Yields[g]) + 1)
      BY EndedByType
    <3> HIDE DEF E, n
    <3> QED
      BY <3>1, <3>2, <3>3, YieldsType
  <2>5. waiting' \in [Task -> Task \cup {NoTask}]
    BY <1>5, <2>3, YieldsType DEF Resume, GoOn, TaskTypeOK
  <2> QED
    BY <1>5, <2>2, <2>4, <2>5 DEF Resume, GoOn, TaskTypeOK
<1>6. ASSUME NEW t \in Task, TickDoomed(t)
      PROVE  TaskTypeOK'
  BY <1>6, EndedByType DEF TickDoomed, TaskTypeOK
<1>7. ASSUME NEW t \in Task, BeginWait(t)
      PROVE  TaskTypeOK'
  <2>1. ~OwnSuccess(t) /\ Kind[t] = "generator"
    BY <1>7, LiveIsIncomplete DEF BeginWait, Kinds
  <2>2. gen[t] \in 1..Len(Yields[t])
    BY <2>1, YieldsType DEF OwnSuccess, Ended, TaskTypeOK
  <2> QED
    BY <1>7, <2>2, YieldsType DEF BeginWait, TaskTypeOK
<1>8. ASSUME NEW t \in Task, WaitThrows(t)
      PROVE  TaskTypeOK'
  BY <1>8, EndedByType DEF WaitThrows, TaskTypeOK
<1>9. ASSUME NEW t \in Task, NEW k \in 0..Len(Subs[t]), TickSome(t, k)
      PROVE  TaskTypeOK'
  <2>1. ResultsAfter(t, k) \cup ExceptionsAfter(t, k) \subseteq 1..Len(Subs[t])
    <3>1. results[t] \cup exceptions[t] \subseteq 1..Len(Subs[t])
      BY DEF TaskTypeOK
    <3>2. k \in Nat /\ Len(Subs[t]) \in Nat /\ k <= Len(Subs[t])
      BY SubsType
    <3> QED
      BY <3>1, <3>2 DEF ResultsAfter, ExceptionsAfter
  <2>2. /\ results' \in [Task -> SUBSET Nat]
        /\ exceptions' \in [Task -> SUBSET Nat]
        /\ \A u \in Task : results'[u] \cup exceptions'[u] \subseteq 1..Len(Subs[u])
    <3> DEFINE R == ResultsAfter(t, k)
               E == ExceptionsAfter(t, k)
    <3>1. /\ results' = [results EXCEPT ![t] = R]
          /\ exceptions' = [exceptions EXCEPT ![t] = E]
      BY <1>9 DEF TickSome
    <3>2. R \cup E \subseteq 1..Len(Subs[t]) /\ R \subseteq Nat /\ E \subseteq Nat
      BY <2>1, SubsType
    <3> HIDE DEF R, E
    <3> QED
      BY <3>1, <3>2 DEF TaskTypeOK
  <2>3. scheduled' \subseteq Task
    BY <1>9 DEF TickSome, TaskTypeOK
  <2>4. PICK S : doomed' = doomed \ S /\ gen' = EndedBy(S)
    BY <1>9 DEF TickSome
  <2>5. /\ gen' \in [Task -> Nat]
        /\ \A g \in Task : gen'[g] \in 1..(Len(Yields[g]) + 1)
    BY <2>4, EndedByType
  <2>6. doomed' \subseteq Generators
    BY <2>4 DEF TaskTypeOK
  <2> QED
    BY <1>9, <2>2, <2>3, <2>5, <2>6 DEF TickSome, TaskTypeOK
<1>10. ASSUME NEW t \in Task, TickWrapper(t)
       PROVE  TaskTypeOK'
  BY <1>10, EndedByType DEF TickWrapper, TaskTypeOK
<1> QED
  BY <1>1, <1>2, <1>3, <1>4, <1>5, <1>6, <1>7, <1>8, <1>9, <1>10
     DEF TaskStep, DeedStep

-----------------------------------------------------------------------------
(* What a step leaves alone.                                                *)

\* The flags are only ever set.
LEMMA FlagsGrow ==
  ASSUME TaskTypeOK, TaskStep
  PROVE  /\ successful \subseteq successful'
         /\ exception \subseteq exception'
         /\ cancelled \subseteq cancelled'
         /\ doomed' \subseteq doomed
<1> DEFINE Grow == /\ successful \subseteq successful'
                   /\ exception \subseteq exception'
                   /\ cancelled \subseteq cancelled'
                   /\ doomed' \subseteq doomed
<1>1. ASSUME NEW d, NEW won, NEW failed, Perform(d, won, failed)
      PROVE  Grow
  BY <1>1 DEF Perform
<1>2. ASSUME NEW t \in Task, DeedStep(t)
      PROVE  Grow
  BY <1>1, <1>2, RunPerforms DEF DeedStep, TickCallable, Resume, GoOn
<1>3. ASSUME NEW d \in DeedType, Outside(d)
      PROVE  Grow
  BY <1>1, <1>3 DEF Outside
<1>4. ASSUME NEW t \in Task,
             \/ TickDoomed(t) \/ BeginWait(t) \/ WaitThrows(t)
             \/ TickWrapper(t) \/ \E k \in 0..Len(Subs[t]) : TickSome(t, k)
      PROVE  Grow
  BY <1>4 DEF TickDoomed, BeginWait, WaitThrows, TickWrapper, TickSome
<1> QED
  BY <1>2, <1>3, <1>4 DEF TaskStep, taskVars

\* Only a generator that was doomed changes its position by EndedBy.
LEMMA EndedByIdle ==
  ASSUME TaskTypeOK, NEW S \in SUBSET doomed, NEW c \in Task
  PROVE  \/ EndedBy(S)[c] = gen[c]
         \/ c \in doomed /\ EndedBy(S)[c] = Len(Yields[c]) + 1
  BY DEF EndedBy

Inert(c) == c \in Wrapper \/ IsComplete(c)

LEMMA LiveIsNotInert ==
  ASSUME NEW t \in Task, NEW kind \in Kinds \ {"delayed", "throttled"},
         Live(t, kind)
  PROVE  ~Inert(t)
  BY LiveIsIncomplete, CoreOfPlain
     DEF Inert, IsComplete, IsSuccessful, IsFaulted, IsCancelled, Live

LEMMA InertUntouched ==
  ASSUME TaskTypeOK, TaskStep, NEW c \in Task, Inert(c)
  PROVE  /\ ticks'[c] = ticks[c]
         /\ results'[c] = results[c]
         /\ exceptions'[c] = exceptions[c]
         /\ waiting'[c] = waiting[c]
         /\ \/ gen'[c] = gen[c]
            \/ c \in doomed /\ gen'[c] = Len(Yields[c]) + 1
<1> DEFINE Same == /\ ticks'[c] = ticks[c]
                   /\ results'[c] = results[c]
                   /\ exceptions'[c] = exceptions[c]
                   /\ waiting'[c] = waiting[c]
           Gen == \/ gen'[c] = gen[c]
                  \/ c \in doomed /\ gen'[c] = Len(Yields[c]) + 1
<1>0. \A d \in DeedType : Starts(d) \in SUBSET doomed
  BY DEF Starts
<1>1. CASE UNCHANGED taskVars
  BY <1>1 DEF taskVars
<1>2. ASSUME NEW d \in DeedType, Outside(d)
      PROVE  Same /\ Gen
  BY <1>0, <1>2, EndedByIdle DEF Outside
<1>3. ASSUME NEW t \in Task, NEW d \in DeedType, NEW ok \in BOOLEAN,
             TickCallable(t, d, ok)
      PROVE  Same /\ Gen
  BY <1>0, <1>3, EndedByIdle DEF TickCallable
<1>4. ASSUME NEW t \in Task, NEW d \in DeedType, NEW ok \in BOOLEAN,
             TickRecurring(t, d, ok)
      PROVE  Same /\ Gen
  <2>1. t # c
    BY <1>4, LiveIsNotInert DEF TickRecurring, Kinds
  <2>2. Same
    BY <1>4, <2>1 DEF TickRecurring, TaskTypeOK
  <2>3. Gen
    BY <1>0, <1>4, RunPerforms, EndedByIdle
  <2> QED
    BY <2>2, <2>3
<1>5. ASSUME NEW t \in Task, NEW d \in DeedType,
             NEW how \in {"yield", "return", "throw"}, Resume(t, d, how)
      PROVE  Same /\ Gen
  <2>1. t # c
    BY <1>5, LiveIsNotInert DEF Resume, GoOn, Kinds
  <2>2. Same
    BY <1>5, <2>1 DEF Resume, GoOn, TaskTypeOK
  <2>3. gen'[c] = EndedBy(Starts(d))[c]
    BY <1>5, <2>1 DEF Resume, GoOn, EndedBy
  <2>4. Gen
    BY <1>0, <2>3, EndedByIdle
  <2> QED
    BY <2>2, <2>4
<1>6. ASSUME NEW t \in Task, TickDoomed(t)
      PROVE  Same /\ Gen
  BY <1>6, EndedByIdle DEF TickDoomed
<1>7. ASSUME NEW t \in Task, BeginWait(t)
      PROVE  Same /\ Gen
  <2>1. t # c
    BY <1>7, LiveIsNotInert DEF BeginWait, Kinds
  <2> QED
    BY <1>7, <2>1 DEF BeginWait, TaskTypeOK
<1>8. ASSUME NEW t \in Task, WaitThrows(t)
      PROVE  Same /\ Gen
  BY <1>8, EndedByIdle DEF WaitThrows, Throws
<1>9. ASSUME NEW t \in Task, NEW k \in 0..Len(Subs[t]), TickSome(t, k)
      PROVE  Same /\ Gen
  <2>1. t # c
    BY <1>9, LiveIsNotInert DEF TickSome, Kinds
  <2>2. Same
    BY <1>9, <2>1 DEF TickSome, TaskTypeOK
  <2>3. PICK S \in SUBSET doomed : gen' = EndedBy(S)
    <3> DEFINE S == IF LoopThrows(t, k) THEN {Core[Subs[t][k + 1]]} ELSE {}
    <3>1. gen' = EndedBy(S)
      BY <1>9 DEF TickSome
    <3>2. S \subseteq doomed
      BY <1>9, SubsType
         DEF TickSome, LoopThrows, LoopLength, LoopStops, Throws
    <3> QED
      BY <3>1, <3>2
  <2>4. Gen
    BY <2>3, EndedByIdle
  <2> QED
    BY <2>2, <2>4
<1>10. ASSUME NEW t \in Task, TickWrapper(t)
       PROVE  Same /\ Gen
  BY <1>10, EndedByIdle DEF TickWrapper
<1> QED
  BY <1>1, <1>2, <1>3, <1>4, <1>5, <1>6, <1>7, <1>8, <1>9, <1>10
     DEF TaskStep, DeedStep

\* A task that has only succeeded gets no exception and no cancellation: a
\* promise settles once, and neither tick() nor cancel() touches it any more.
LEMMA SuccessStays ==
  ASSUME TaskTypeOK, TaskStep, NEW c \in Task, Core[c] = c, OwnSuccess(c)
  PROVE  /\ c \in exception' => c \in exception
         /\ c \in cancelled' => c \in cancelled
<1>1. IsComplete(c) /\ Inert(c)
  BY DEF IsComplete, IsSuccessful, Inert
<1>2. \A d \in DeedType : c \notin Cancels(d)
  BY <1>1 DEF Cancels
<1>3. \A d \in DeedType : c \notin Settles(d, "reject")
  BY DEF Settles, OwnSuccess
<1>4. ASSUME NEW d \in DeedType, NEW won, NEW failed, c \notin failed,
             Perform(d, won, failed)
      PROVE  /\ c \in exception' => c \in exception
             /\ c \in cancelled' => c \in cancelled
  BY <1>2, <1>3, <1>4 DEF Perform
<1>5. ASSUME NEW d \in DeedType, Outside(d)
      PROVE  /\ c \in exception' => c \in exception
             /\ c \in cancelled' => c \in cancelled
  BY <1>4, <1>5 DEF Outside
<1>6. ASSUME NEW t \in Task, NEW d \in DeedType, NEW ok \in BOOLEAN,
             TickCallable(t, d, ok)
      PROVE  /\ c \in exception' => c \in exception
             /\ c \in cancelled' => c \in cancelled
  <2>1. t # c
    BY <1>1, <1>6, LiveIsNotInert DEF TickCallable, Kinds
  <2> QED
    BY <1>4, <1>6, <2>1 DEF TickCallable
<1>7. ASSUME NEW t \in Task, NEW d \in DeedType, NEW ok \in BOOLEAN,
             TickRecurring(t, d, ok)
      PROVE  /\ c \in exception' => c \in exception
             /\ c \in cancelled' => c \in cancelled
  <2>1. t # c
    BY <1>1, <1>7, LiveIsNotInert DEF TickRecurring, Kinds
  <2> QED
    BY <1>4, <1>7, <2>1, RunPerforms
<1>8. ASSUME NEW t \in Task, NEW d \in DeedType,
             NEW how \in {"yield", "return", "throw"}, Resume(t, d, how)
      PROVE  /\ c \in exception' => c \in exception
             /\ c \in cancelled' => c \in cancelled
  <2>1. t # c
    BY <1>1, <1>8, LiveIsNotInert DEF Resume, GoOn, Kinds
  <2> QED
    BY <1>4, <1>8, <2>1 DEF Resume, GoOn
<1> QED
  BY <1>5, <1>6, <1>7, <1>8
     DEF TaskStep, DeedStep, taskVars, TickDoomed, BeginWait, WaitThrows,
         TickSome, TickWrapper

-----------------------------------------------------------------------------
(* Outcomes are final.                                                      *)

LEMMA CoreType ==
  ASSUME NEW u \in Task
  PROVE  Core[u] \in Task /\ Core[Core[u]] = Core[u]
BY ProgramAssumption

LEMMA OwnSuccessStays ==
  ASSUME TaskTypeOK, TaskStep, NEW c \in Task, Core[c] = c, OwnSuccess(c)
  PROVE  OwnSuccess(c)'
<1>1. Inert(c)
  BY DEF IsComplete, IsSuccessful, Inert
<1>2. gen'[c] = gen[c] \/ gen'[c] = Len(Yields[c]) + 1
  BY <1>1, InertUntouched
<1>3. CASE Kind[c] = "generator" /\ Ended(c)
  BY <1>2, <1>3, YieldsType DEF OwnSuccess, Ended, TaskTypeOK
<1>4. CASE ~(Kind[c] = "generator" /\ Ended(c))
  BY <1>1, <1>4, InertUntouched, FlagsGrow DEF OwnSuccess
<1> QED
  BY <1>3, <1>4

LEMMA OwnFaultStays ==
  ASSUME TaskTypeOK, TaskStep, NEW c \in Task, Core[c] = c, OwnFault(c)
  PROVE  OwnFault(c)'
<1>1. Inert(c)
  BY DEF IsComplete, IsFaulted, Inert
<1> QED
  BY <1>1, InertUntouched, FlagsGrow DEF OwnFault

LEMMA OwnFaultIsNotNew ==
  ASSUME TaskTypeOK, TaskStep, NEW c \in Task, Core[c] = c,
         OwnSuccess(c), OwnFault(c)'
  PROVE  OwnFault(c)
<1>1. Inert(c)
  BY DEF IsComplete, IsSuccessful, Inert
<1> QED
  BY <1>1, InertUntouched, SuccessStays DEF OwnFault

\* The two ways a SomeTask books a complete child, and completeness itself.
LEMMA StatusStays ==
  ASSUME TaskTypeOK, TaskStep, NEW u \in Task
  PROVE  /\ Won(u) => Won(u)'
         /\ Failed(u) => Failed(u)'
         /\ IsComplete(u) => IsComplete(u)'
<1>1. Core[u] \in Task /\ Core[Core[u]] = Core[u]
  BY CoreType
<1>2. ASSUME Won(u)
      PROVE  Won(u)'
  BY <1>1, <1>2, OwnSuccessStays, OwnFaultIsNotNew, SuccessStays
     DEF Won, IsSuccessful, IsFaulted, IsCancelled
<1>3. ASSUME Failed(u)
      PROVE  Failed(u)'
  BY <1>1, <1>3, OwnFaultStays, FlagsGrow DEF Failed, IsFaulted, IsCancelled
<1>4. ASSUME IsComplete(u)
      PROVE  IsComplete(u)'
  BY <1>1, <1>3, <1>4, OwnSuccessStays
     DEF IsComplete, Failed, IsSuccessful, IsFaulted, IsCancelled
<1> QED
  BY <1>2, <1>3, <1>4

-----------------------------------------------------------------------------
(* SomeTask.                                                                *)

\* A step books a child only as what it is.
LEMMA NewEntries ==
  ASSUME TaskTypeOK, TaskStep, NEW t \in Task, Kind[t] = "some"
  PROVE  /\ \A i \in results'[t] : i \in results[t] \/ Won(Subs[t][i])
         /\ \A i \in exceptions'[t] : i \in exceptions[t] \/ Failed(Subs[t][i])
<1>1. ASSUME NEW k \in 0..Len(Subs[t]), TickSome(t, k)
      PROVE  /\ results'[t] = ResultsAfter(t, k)
             /\ exceptions'[t] = ExceptionsAfter(t, k)
  BY <1>1 DEF TickSome, TaskTypeOK
<1>2. CASE \E k \in 0..Len(Subs[t]) : TickSome(t, k)
  BY <1>1, <1>2 DEF ResultsAfter, ExceptionsAfter
<1>3. ASSUME NEW u \in Task, u # t, NEW k \in 0..Len(Subs[u]), TickSome(u, k)
      PROVE  results'[t] = results[t] /\ exceptions'[t] = exceptions[t]
  BY <1>3 DEF TickSome, TaskTypeOK
<1>4. CASE ~\E u \in Task : \E k \in 0..Len(Subs[u]) : TickSome(u, k)
  BY <1>4 DEF TaskStep, DeedStep, taskVars, Outside, TickCallable,
     TickRecurring, Resume, GoOn, TickDoomed, BeginWait, WaitThrows, TickWrapper
<1> QED
  BY <1>2, <1>3, <1>4

THEOREM BooksStayTrue ==
  ASSUME TaskTypeOK, BooksAreTrue, TaskStep
  PROVE  BooksAreTrue'
<1> SUFFICES ASSUME NEW t \in Task, Kind[t] = "some"
             PROVE  /\ \A i \in results'[t] : Won(Subs[t][i])'
                    /\ \A i \in exceptions'[t] : Failed(Subs[t][i])'
  BY DEF BooksAreTrue
<1>1. /\ \A i \in results'[t] : Won(Subs[t][i])
      /\ \A i \in exceptions'[t] : Failed(Subs[t][i])
  BY NewEntries DEF BooksAreTrue
<1>2. \A i \in results'[t] \cup exceptions'[t] : Subs[t][i] \in Task
  BY TaskStepTypes, SubsType DEF TaskTypeOK
<1> QED
  BY <1>1, <1>2, StatusStays

\* What is booked truly leaves no room for both verdicts.
LEMMA TrueBooksOneVerdict ==
  ASSUME TaskTypeOK, BooksAreTrue
  PROVE  OneVerdict
<1> SUFFICES ASSUME NEW t \in Task, Kind[t] = "some", OwnSuccess(t), OwnFault(t)
             PROVE  FALSE
  BY DEF OneVerdict
<1> DEFINE R == results[t]
           E == exceptions[t]
           n == Len(Subs[t])
<1>1. R \cap E = {}
  BY DEF BooksAreTrue, Won, Failed
<1>2. R \cup E \subseteq 1..n /\ n \in Nat
  BY SubsType DEF TaskTypeOK
<1>3. Cardinality(R) + Cardinality(E) <= n
  BY <1>1, <1>2, DisjointKeys
<1>4. Cardinality(R) \in Nat /\ Cardinality(E) \in Nat
  BY <1>2, KeysAreFinite
<1>5. Cardinality(R) >= HowMany[t] /\ Cardinality(E) > n - HowMany[t]
  BY DEF OwnSuccess, OwnFault
<1>6. HowMany[t] \in Int
  BY ProgramAssumption
<1> HIDE DEF R, E, n
<1> QED
  BY <1>2, <1>3, <1>4, <1>5, <1>6

\* The loop stops at the child that makes $howMany, so a tick adds no more.
THEOREM BooksStayShort ==
  ASSUME TaskTypeOK, NoMoreThanHowMany, TaskStep
  PROVE  NoMoreThanHowMany'
<1> SUFFICES ASSUME NEW t \in Task, Kind[t] = "some", results'[t] # results[t]
             PROVE  Cardinality(results'[t]) <= HowMany[t]
  BY DEF NoMoreThanHowMany
<1>1. PICK k \in 0..Len(Subs[t]) : TickSome(t, k)
  <2>1. ASSUME NEW u \in Task, u # t, NEW k \in 0..Len(Subs[u]), TickSome(u, k)
        PROVE  results'[t] = results[t]
    BY <2>1 DEF TickSome, TaskTypeOK
  <2>2. CASE ~\E u \in Task : \E k \in 0..Len(Subs[u]) : TickSome(u, k)
    BY <2>2 DEF TaskStep, DeedStep, taskVars, Outside, TickCallable,
       TickRecurring, Resume, GoOn, TickDoomed, BeginWait, WaitThrows, TickWrapper
  <2> QED
    BY <2>1, <2>2
<1>2. results'[t] = ResultsAfter(t, k)
  BY <1>1 DEF TickSome, TaskTypeOK
<1>3. k \in Nat /\ k <= Len(Subs[t]) /\ Len(Subs[t]) \in Nat
  BY SubsType
<1>4. k # 0
  BY <1>2 DEF ResultsAfter
<1>5. k - 1 \in 0..(k - 1) /\ ~LoopStops(t, k - 1)
  BY <1>1, <1>3, <1>4 DEF TickSome, LoopLength
<1> DEFINE R == ResultsAfter(t, k - 1)
           h == HowMany[t]
<1>6. ~(Cardinality(R) >= h)
  BY <1>5 DEF LoopStops, Decided
<1>7. results'[t] \subseteq R \cup {k}
  BY <1>2, <1>3, <1>4 DEF ResultsAfter
<1>8. R \subseteq 1..Len(Subs[t])
  BY <1>3, <1>4 DEF ResultsAfter, TaskTypeOK
<1>9. Cardinality(R) \in Nat
  BY <1>3, <1>8, KeysAreFinite
<1>10. /\ Cardinality(results'[t]) <= Cardinality(R) + 1
       /\ Cardinality(results'[t]) \in Nat
  BY <1>3, <1>7, <1>8, OneMoreKey
<1>11. h \in Int
  BY ProgramAssumption
<1> HIDE DEF R
<1> QED
  BY <1>6, <1>9, <1>10, <1>11

-----------------------------------------------------------------------------
(* Completion.                                                              *)

\* A generator that has not started has no outcome.
DoomedIdle == doomed \cap (cancelled \cup exception) = {}

LEMMA DoomedStaysIdle ==
  ASSUME TaskTypeOK, DoomedIdle, TaskStep
  PROVE  DoomedIdle'
<1>1. ASSUME NEW d \in DeedType, NEW won, NEW failed, failed \cap doomed = {},
             Perform(d, won, failed)
      PROVE  DoomedIdle'
  BY <1>1 DEF Perform, DoomedIdle, Cancels, Settles, TaskTypeOK, Generators
<1>2. ASSUME NEW d \in DeedType, Outside(d)
      PROVE  DoomedIdle'
  BY <1>1, <1>2 DEF Outside
<1>3. ASSUME NEW t \in Task, DeedStep(t)
      PROVE  DoomedIdle'
  <2>1. ASSUME NEW d \in DeedType, NEW ok \in BOOLEAN, TickRecurring(t, d, ok)
        PROVE  DoomedIdle'
    BY <1>1, <2>1, RunPerforms DEF TickRecurring, Live
  <2> QED
    BY <1>1, <1>3, <2>1 DEF DeedStep, TickCallable, Resume, GoOn, Live
<1>4. ASSUME UNCHANGED <<cancelled, exception>>
      PROVE  DoomedIdle'
  BY <1>4, FlagsGrow DEF DoomedIdle
<1> QED
  BY <1>2, <1>3, <1>4
     DEF TaskStep, taskVars, TickDoomed, BeginWait, WaitThrows, TickSome,
         TickWrapper

THEOREM CompletionStays ==
  ASSUME TaskTypeOK, DoomedIdle, TaskStep
  PROVE  CompletionStep
<1> SUFFICES ASSUME NEW t \in Task, IsComplete(t)
             PROVE  /\ IsComplete(t)'
                    /\ results'[t] = results[t] /\ exceptions'[t] = exceptions[t]
                    /\ ticks'[t] = ticks[t] /\ gen'[t] = gen[t]
                    /\ waiting'[t] = waiting[t]
  BY DEF CompletionStep
<1>1. Inert(t)
  BY DEF Inert
<1>2. gen'[t] = gen[t]
  <2> SUFFICES ASSUME t \in doomed, gen'[t] = Len(Yields[t]) + 1
               PROVE  gen[t] = Len(Yields[t]) + 1
    BY <1>1, InertUntouched
  <2>1. Kind[t] = "generator" /\ t \notin cancelled /\ t \notin exception
    BY DEF DoomedIdle, TaskTypeOK, Generators
  <2>2. Core[t] = t
    BY <2>1, CoreOfPlain
  <2>3. Ended(t)
    BY <2>1, <2>2 DEF IsComplete, IsSuccessful, IsFaulted, IsCancelled,
       OwnSuccess, OwnFault
  <2> QED
    BY <2>3, YieldsType DEF Ended, TaskTypeOK
<1> QED
  BY <1>1, <1>2, InertUntouched, StatusStays

\* A body that has not ended moves on in one way only.
LEMMA MovedBySelf ==
  ASSUME TaskTypeOK, TaskStep, NEW g \in Task, gen'[g] # gen[g],
         g \notin doomed \/ gen'[g] # Len(Yields[g]) + 1
  PROVE  \E d \in DeedType, how \in {"yield", "return", "throw"} : Resume(g, d, how)
<1>0. \A d \in DeedType : Starts(d) \in SUBSET doomed
  BY DEF Starts
<1>1. ASSUME NEW S \in SUBSET doomed, gen' = EndedBy(S)
      PROVE  FALSE
  BY <1>1, EndedByIdle
<1>2. CASE UNCHANGED taskVars
  BY <1>2 DEF taskVars
<1>3. ASSUME NEW d \in DeedType, Outside(d)
      PROVE  FALSE
  BY <1>0, <1>1, <1>3 DEF Outside
<1>4. ASSUME NEW t \in Task, NEW d \in DeedType, NEW ok \in BOOLEAN,
             TickCallable(t, d, ok) \/ TickRecurring(t, d, ok)
      PROVE  FALSE
  BY <1>0, <1>1, <1>4, RunPerforms DEF TickCallable
<1>5. ASSUME NEW t \in Task, TickDoomed(t)
      PROVE  FALSE
  BY <1>1, <1>5 DEF TickDoomed
<1>6. ASSUME NEW t \in Task, BeginWait(t)
      PROVE  FALSE
  BY <1>6 DEF BeginWait
<1>7. ASSUME NEW t \in Task, WaitThrows(t)
      PROVE  FALSE
  BY <1>1, <1>7 DEF WaitThrows, Throws
<1>8. ASSUME NEW t \in Task, NEW k \in 0..Len(Subs[t]), TickSome(t, k)
      PROVE  FALSE
  <2> DEFINE S == IF LoopThrows(t, k) THEN {Core[Subs[t][k + 1]]} ELSE {}
  <2>1. gen' = EndedBy(S)
    BY <1>8 DEF TickSome
  <2>2. S \subseteq doomed
    BY <1>8, SubsType DEF TickSome, LoopThrows, LoopLength, LoopStops, Throws
  <2> QED
    BY <1>1, <2>1, <2>2
<1>9. ASSUME NEW t \in Task, TickWrapper(t)
      PROVE  FALSE
  <2>1. {Core[t]} \cap doomed \in SUBSET doomed
    OBVIOUS
  <2> QED
    BY <1>1, <1>9, <2>1 DEF TickWrapper
<1>10. ASSUME NEW t \in Task, NEW d \in DeedType,
              NEW how \in {"yield", "return", "throw"}, Resume(t, d, how)
       PROVE  t = g
  <2> SUFFICES ASSUME t # g
               PROVE  FALSE
    OBVIOUS
  <2>1. gen'[g] = EndedBy(Starts(d))[g]
    BY <1>10 DEF Resume, GoOn, EndedBy
  <2> QED
    BY <1>0, <2>1, EndedByIdle
<1> QED
  BY <1>2, <1>3, <1>4, <1>5, <1>6, <1>7, <1>8, <1>9, <1>10
     DEF TaskStep, DeedStep

\* What it waits for is taken up when it is suspended.
LEMMA WaitsBySelf ==
  ASSUME TaskTypeOK, TaskStep, NEW g \in Task, waiting'[g] # waiting[g]
  PROVE  \/ BeginWait(g)
         \/ \E d \in DeedType, how \in {"yield", "return", "throw"} :
                Resume(g, d, how)
<1>1. ASSUME NEW t \in Task, BeginWait(t)
      PROVE  t = g
  BY <1>1 DEF BeginWait, TaskTypeOK
<1>2. ASSUME NEW t \in Task, NEW d \in DeedType,
             NEW how \in {"yield", "return", "throw"}, Resume(t, d, how)
      PROVE  t = g
  BY <1>2 DEF Resume, GoOn, TaskTypeOK
<1> QED
  BY <1>1, <1>2 DEF TaskStep, DeedStep, taskVars, Outside, TickCallable,
     TickRecurring, TickDoomed, WaitThrows, TickSome, TickWrapper

\* Both keep the body in step with its task: what is sent into the body is the
\* outcome of the yield it stands at, which is complete and stays so.
THEOREM BodyStaysInStep ==
  ASSUME TaskTypeOK, BodyInStep, TaskStep
  PROVE  BodyInStep'
<1> SUFFICES ASSUME NEW g \in Generators, ~Ended(g)'
             PROVE  /\ \/ waiting'[g] = Yields[g][gen'[g]]
                       \/ waiting'[g] = NoTask /\ gen'[g] = 1
                    /\ \A i \in 1..(gen'[g] - 1) : IsComplete(Yields[g][i])'
  BY DEF BodyInStep
<1>1. g \in Task /\ Kind[g] = "generator"
  BY DEF Generators
<1>2. /\ gen[g] \in 1..(Len(Yields[g]) + 1) /\ Len(Yields[g]) \in Nat
      /\ gen'[g] # Len(Yields[g]) + 1
  BY <1>1, YieldsType DEF TaskTypeOK, Ended
<1>3. ASSUME NEW i \in 1..Len(Yields[g]), IsComplete(Yields[g][i])
      PROVE  IsComplete(Yields[g][i])'
  BY <1>1, <1>3, YieldsType, StatusStays
<1>4. CASE gen'[g] = gen[g]
  <2>1. ~Ended(g)
    BY <1>4 DEF Ended
  <2>2. /\ \/ waiting[g] = Yields[g][gen[g]]
           \/ waiting[g] = NoTask /\ gen[g] = 1
        /\ \A i \in 1..(gen[g] - 1) : IsComplete(Yields[g][i])
    BY <2>1 DEF BodyInStep
  <2>3. \A i \in 1..(gen'[g] - 1) : IsComplete(Yields[g][i])'
    BY <1>2, <1>3, <1>4, <2>2
  <2>4. CASE waiting'[g] = waiting[g]
    BY <1>4, <2>2, <2>3, <2>4
  <2>5. CASE BeginWait(g)
    BY <1>1, <1>4, <2>3, <2>5 DEF BeginWait, TaskTypeOK
  <2>6. ASSUME NEW d \in DeedType, NEW how \in {"yield", "return", "throw"},
               Resume(g, d, how)
        PROVE  FALSE
    <3>1. gen'[g] = IF how = "yield" THEN gen[g] + 1 ELSE Len(Yields[g]) + 1
      BY <1>1, <2>6 DEF Resume, GoOn, EndedBy
    <3> QED
      BY <1>2, <1>4, <3>1
  <2> QED
    BY <1>1, <2>4, <2>5, <2>6, WaitsBySelf
<1>5. CASE gen'[g] # gen[g]
  <2>1. PICK d \in DeedType, how \in {"yield", "return", "throw"} : Resume(g, d, how)
    BY <1>1, <1>2, <1>5, MovedBySelf
  <2>2. gen'[g] = IF how = "yield" THEN gen[g] + 1 ELSE Len(Yields[g]) + 1
    BY <1>1, <2>1 DEF Resume, GoOn, EndedBy
  <2>3. how = "yield"
    BY <1>2, <2>2
  <2>4. waiting'[g] = Yields[g][gen[g] + 1]
    BY <1>1, <2>1, <2>3 DEF Resume, GoOn, TaskTypeOK
  <2>5. waiting[g] # NoTask /\ IsComplete(waiting[g]) /\ gen[g] < Len(Yields[g])
    BY <2>1, <2>3 DEF Resume, GoOn
  <2>6. ~Ended(g)
    BY <1>2, <2>5 DEF Ended
  <2>7. /\ waiting[g] = Yields[g][gen[g]]
        /\ \A i \in 1..(gen[g] - 1) : IsComplete(Yields[g][i])
    BY <2>5, <2>6 DEF BodyInStep
  <2>8. \A i \in 1..gen[g] : IsComplete(Yields[g][i])
    BY <1>2, <2>5, <2>7
  <2>9. \A i \in 1..gen[g] : IsComplete(Yields[g][i])'
    BY <1>2, <1>3, <2>5, <2>8
  <2> QED
    BY <1>2, <2>2, <2>3, <2>4, <2>9
<1> QED
  BY <1>4, <1>5
=============================================================================
