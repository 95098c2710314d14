------------------------ MODULE BasicSchedulerProofs ------------------------
(* What BasicScheduler keeps for every program, and, for programs whose     *)
(* ticks do not throw, that it implements SchedulerContract.                *)
EXTENDS BasicScheduler, AsyncTaskProofs

LEMMA DeedsType ==
  ASSUME NEW t \in Task
  PROVE  Deeds[t] \subseteq DeedType
BY ProgramAssumption

\* Whatever the scheduler does is, for the tasks, one of their steps.
LEMMA NextIsTaskStep == Next => TaskStep
<1>1. ASSUME NEW t \in Task,
             DoCallable(t) \/ DoRecurring(t) \/ DoResume(t)
      PROVE  DeedStep(t)
  BY <1>1, DeedsType DEF DoCallable, DoRecurring, DoResume, DeedStep
<1>2. ASSUME NEW t \in Task,
             DoComplete(t) \/ DoPromise(t) \/ DoWaitOn(t)
      PROVE  UNCHANGED taskVars
  BY <1>2 DEF DoComplete, DoPromise, DoWaitOn, TickComplete, TickPromise, WaitOn
<1>3. ASSUME NEW t \in Task, DoBeginWait(t) \/ DoSome(t) \/ DoThrowing(t)
      PROVE  TaskStep
  BY <1>3 DEF DoBeginWait, DoSome, DoThrowing, TaskStep
<1>4. TickTask => TaskStep
  BY <1>1, <1>2, <1>3 DEF TickTask, TaskStep
<1>5. Client => TaskStep
  BY ClientAssumption DEF Client, TaskStep
<1>6. Run \/ NextRound \/ Return => TaskStep
  BY DEF Run, NextRound, Return, TaskStep
<1> QED
  BY <1>4, <1>5, <1>6 DEF Next

LEMMA StutterIsTaskStep == UNCHANGED vars => TaskStep
BY DEF vars, TaskStep

-----------------------------------------------------------------------------
(* The queues hold tasks.                                                   *)

LEMMA EmptyQueue == <<>> \in Seq(Task)
OBVIOUS

LEMMA SubsRangeFinite ==
  ASSUME NEW t \in Task
  PROVE  Range(Subs[t]) \subseteq Task /\ IsFiniteSet(Range(Subs[t]))
<1> DEFINE f == Subs[t]
<1>1. f \in Seq(Task) /\ Len(f) \in Nat /\ DOMAIN f = 1..Len(f)
  BY ProgramAssumption
<1>2. IsFiniteSet(1..Len(f))
  BY <1>1, KeysAreFinite
<1>3. f \in Surjection(1..Len(f), Range(f))
  BY <1>1 DEF Range, Surjection
<1>4. IsFiniteSet(Range(f))
  BY <1>2, <1>3, FS_Surjection
<1>5. Range(f) \subseteq Task
  BY <1>1 DEF Range
<1> QED
  BY <1>4, <1>5

LEMMA InOrderType ==
  ASSUME NEW S \in SUBSET Task, IsFiniteSet(S), NEW order,
         NEW s \in InOrder(S, order)
  PROVE  s \in Seq(Task)
<1>1. Cardinality(S) \in Nat
  BY FS_CardinalityType
<1>2. s \in [1..Cardinality(S) -> Task]
  BY DEF InOrder
<1> QED
  BY <1>1, <1>2

LEMMA AfterTickTypes ==
  ASSUME TypeOK, NEW t \in Task, round # <<>>,
         NEW S \in SUBSET Task, IsFiniteSet(S), NEW order,
         NEW stops \in BOOLEAN, AfterTick(t, S, order, stops)
  PROVE  /\ running' \in BOOLEAN /\ inRun' \in BOOLEAN
         /\ next' \in Seq(Task) /\ round' \in Seq(Task)
<1>1. S \ Range(next) \in SUBSET Task /\ IsFiniteSet(S \ Range(next))
  BY FS_Subset
<1>2. PICK s \in InOrder(S \ Range(next), order) :
         next' = IF IsComplete(t)' \/ t \in Range(next \o s) THEN next \o s
                 ELSE Append(next \o s, t)
  BY DEF AfterTick
<1>3. s \in Seq(Task)
  BY <1>1, InOrderType
<1>4. next \o s \in Seq(Task) /\ Append(next \o s, t) \in Seq(Task)
  BY <1>3 DEF TypeOK
<1>5. round' \in Seq(Task)
  BY DEF AfterTick, TypeOK
<1> QED
  BY <1>2, <1>4, <1>5 DEF AfterTick, TypeOK

LEMMA AsksFinite ==
  ASSUME NEW d \in DeedType
  PROVE  Asks(d) \in SUBSET Task /\ IsFiniteSet(Asks(d))
<1>1. Asks(d) \subseteq {d.on}
  BY DEF Asks
<1>2. IsFiniteSet(Asks(d))
  BY <1>1, FS_Singleton, FS_Subset
<1> QED
  BY <1>2 DEF Asks, DeedType

\* The tick of t called schedule() on the tasks S, and no task awaits anything
\* new but these and what is complete.
Attached(t, S) ==
    /\ IsFiniteSet(S)
    /\ \E order : \E stops \in BOOLEAN : AfterTick(t, S, order, stops)
    /\ \A w \in Task :
          Awaits(w)' \subseteq Awaits(w) \cup S \cup {u \in Task : IsComplete(u)}

LEMMA AwaitsSame ==
  ASSUME waiting' = waiting, scheduled' = scheduled, NEW w
  PROVE  Awaits(w)' = Awaits(w)
BY DEF Awaits

\* A tick ends in one of two ways.
LEMMA TurnEnds ==
  ASSUME TypeOK, TickTask
  PROVE  \/ Escape /\ (doomed # {} \/ Wrapper # {})
         \/ \E t \in Task, S \in SUBSET Task : Turn(t) /\ Attached(t, S)
<1>1. PICK t \in Task :
        /\ Turn(t)
        /\ \/ DoComplete(t) \/ DoCallable(t) \/ DoRecurring(t)
           \/ DoPromise(t) \/ DoBeginWait(t) \/ DoWaitOn(t)
           \/ DoResume(t) \/ DoSome(t) \/ DoThrowing(t)
  BY DEF TickTask
<1>2. IsFiniteSet({}) /\ \A u : IsFiniteSet({u})
  BY FS_EmptySet, FS_Singleton
<1>3. CASE DoComplete(t) \/ DoPromise(t) \/ DoWaitOn(t)
  <2>1. AfterTick(t, {}, <<>>, FALSE) /\ waiting' = waiting /\ scheduled' = scheduled
    BY <1>3 DEF DoComplete, DoPromise, DoWaitOn, TickComplete, TickPromise,
                WaitOn, taskVars
  <2>2. Attached(t, {})
    BY <1>2, <2>1, AwaitsSame DEF Attached
  <2> QED
    BY <1>1, <1>2, <2>2
<1>4. CASE DoCallable(t) \/ DoRecurring(t)
  <2>1. PICK d \in Deeds[t] :
          /\ AfterTick(t, Asks(d), <<d.on>>, d.op = "stop")
          /\ waiting' = waiting /\ scheduled' = scheduled
    BY <1>4 DEF DoCallable, DoRecurring, TickCallable, TickRecurring
  <2>2. d \in DeedType /\ (d.op = "stop") \in BOOLEAN
    BY DeedsType
  <2>3. Attached(t, Asks(d))
    BY <2>1, <2>2, AsksFinite, AwaitsSame DEF Attached
  <2> QED
    BY <1>1, <2>2, <2>3, AsksFinite
<1>5. CASE DoBeginWait(t)
  <2> DEFINE u == Yields[t][gen[t]]
  <2>1. BeginWait(t) /\ AfterTick(t, {u}, <<u>>, FALSE)
    BY <1>5 DEF DoBeginWait
  <2>2. u \in Task
    BY <2>1, LiveIsIncomplete, YieldsType
       DEF BeginWait, Kinds, OwnSuccess, Ended, TypeOK, TaskTypeOK
  <2>3. waiting' = [waiting EXCEPT ![t] = u] /\ scheduled' = scheduled
    BY <2>1 DEF BeginWait
  <2> HIDE DEF u
  <2>4. \A w \in Task : waiting'[w] \in {waiting[w], u}
    BY <2>3 DEF TypeOK, TaskTypeOK
  <2>5. \A w \in Task : Awaits(w)' \subseteq Awaits(w) \cup {u}
    BY <2>3, <2>4 DEF Awaits
  <2>6. Attached(t, {u})
    BY <1>2, <2>1, <2>5 DEF Attached, u
  <2> QED
    BY <1>1, <1>2, <2>2, <2>6
<1>6. CASE DoResume(t)
  <2>1. PICK d \in Deeds[t], how \in {"yield", "return", "throw"} :
          /\ Resume(t, d, how)
          /\ AfterTick(t, Asks(d) \cup (IF how = "yield"
                                        THEN {Yields[t][gen[t] + 1]} ELSE {}),
                       IF how = "yield" THEN <<d.on, Yields[t][gen[t] + 1]>>
                       ELSE <<d.on>>,
                       d.op = "stop")
    BY <1>6 DEF DoResume
  <2> DEFINE u == IF how = "yield" THEN {Yields[t][gen[t] + 1]} ELSE {}
             S == Asks(d) \cup u
  <2>2. d \in DeedType /\ (d.op = "stop") \in BOOLEAN
    BY DeedsType
  <2>3. u \in SUBSET Task /\ IsFiniteSet(u)
    <3>1. how = "yield" => gen[t] < Len(Yields[t])
      BY <2>1 DEF Resume, GoOn
    <3>2. gen[t] \in 1..(Len(Yields[t]) + 1)
      BY DEF TypeOK, TaskTypeOK
    <3>3. u \subseteq Task
      BY <3>1, <3>2, YieldsType
    <3>4. IsFiniteSet(u)
      BY <1>2
    <3> QED
      BY <3>3, <3>4
  <2>4. S \in SUBSET Task /\ IsFiniteSet(S)
    BY <2>2, <2>3, AsksFinite, FS_Union
  <2>5. scheduled' = scheduled
    BY <2>1 DEF Resume, GoOn
  <2>6. \A w \in Task : waiting'[w] \in {waiting[w], NoTask} \cup u
    BY <2>1 DEF Resume, GoOn, TypeOK, TaskTypeOK
  <2>7. \A w \in Task : Awaits(w)' \subseteq Awaits(w) \cup u
    <3> HIDE DEF u
    <3>1. ASSUME NEW w \in Generators
          PROVE  Awaits(w)' \subseteq Awaits(w) \cup u
      <4>1. /\ Awaits(w) = {waiting[w]} \ {NoTask}
            /\ Awaits(w)' = {waiting'[w]} \ {NoTask}
        BY <3>1 DEF Awaits, Generators, Wrapper
      <4>2. w \in Task
        BY <3>1 DEF Generators
      <4> QED
        BY <2>6, <4>1, <4>2
    <3>2. ASSUME NEW w \in Task \ Generators
          PROVE  Awaits(w)' = Awaits(w)
      BY <2>5, <3>2 DEF Awaits
    <3> QED
      BY <3>1, <3>2
  <2>8. \E order : \E stops \in BOOLEAN : AfterTick(t, S, order, stops)
    BY <2>1, <2>2
  <2>9. Attached(t, S)
    <3> HIDE DEF u
    <3> QED
      BY <2>4, <2>7, <2>8 DEF Attached
  <2> QED
    BY <1>1, <2>4, <2>9
<1>7. CASE DoSome(t)
  <2>1. PICK k \in 0..Len(Subs[t]) :
          /\ TickSome(t, k)
          /\ IF LoopThrows(t, k) THEN Escape
             ELSE AfterTick(t, SomeCalls(t, k), Subs[t], FALSE)
    BY <1>7 DEF DoSome
  <2> DEFINE S == SomeCalls(t, k)
  <2>2. CASE LoopThrows(t, k)
    <3>1. doomed # {}
      BY <2>1, <2>2 DEF TickSome, LoopLength, LoopStops, LoopThrows, Throws
    <3> QED
      BY <2>1, <2>2, <3>1
  <2> SUFFICES ASSUME ~LoopThrows(t, k)
               PROVE  \E R \in SUBSET Task : Turn(t) /\ Attached(t, R)
    BY <2>2
  <2>3. S \subseteq Range(Subs[t])
    BY DEF SomeCalls
  <2>4. S \in SUBSET Task /\ IsFiniteSet(S)
    BY <2>3, SubsRangeFinite, FS_Subset
  <2>5. ASSUME NEW w \in Task, NEW u \in Awaits(w)', u \notin Awaits(w)
        PROVE  u \in S \/ (u \in Task /\ IsComplete(u))
    <3>1. /\ waiting' = waiting
          /\ scheduled' = IF k = Len(Subs[t]) THEN scheduled \cup {t}
                          ELSE scheduled
          /\ Kind[t] = "some"
      BY <2>1 DEF TickSome, Live
    <3>2. w = t /\ k = Len(Subs[t]) /\ t \notin scheduled /\ u \in Range(Subs[t])
      <4>1. CASE w \in scheduled' <=> w \in scheduled
        <5>1. Awaits(w)' = Awaits(w)
          BY <3>1, <4>1 DEF Awaits
        <5> QED
          BY <2>5, <5>1
      <4>2. CASE ~(w \in scheduled' <=> w \in scheduled)
        <5>1. w = t /\ k = Len(Subs[t]) /\ t \notin scheduled /\ t \in scheduled'
          BY <3>1, <4>2
        <5>2. t \notin Generators /\ t \notin Wrapper
          BY <3>1 DEF Generators, Wrapper
        <5>3. Awaits(t)' = Range(Subs[t])
          BY <3>1, <5>1, <5>2 DEF Awaits
        <5> QED
          BY <2>5, <5>1, <5>3
      <4> QED
        BY <4>1, <4>2
    <3>3. u \in Task
      BY <3>2, SubsRangeFinite
    <3> QED
      BY <3>2, <3>3 DEF SomeCalls
  <2>6. Attached(t, S)
    <3>1. \E order : \E stops \in BOOLEAN : AfterTick(t, S, order, stops)
      BY <2>1
    <3> HIDE DEF S
    <3> QED
      BY <2>4, <2>5, <3>1 DEF Attached
  <2> QED
    BY <1>1, <2>4, <2>6
<1>8. CASE DoThrowing(t)
  BY <1>8 DEF DoThrowing, TickDoomed, WaitThrows, Throws
<1> QED
  BY <1>1, <1>3, <1>4, <1>5, <1>6, <1>7, <1>8

LEMMA TurnTypes ==
  ASSUME TypeOK, TickTask
  PROVE  /\ running' \in BOOLEAN /\ inRun' \in BOOLEAN
         /\ next' \in Seq(Task) /\ round' \in Seq(Task)
<1>1. CASE Escape
  BY <1>1, EmptyQueue DEF Escape, TypeOK
<1>2. ASSUME NEW t \in Task, NEW S \in SUBSET Task, Turn(t), Attached(t, S)
      PROVE  /\ running' \in BOOLEAN /\ inRun' \in BOOLEAN
             /\ next' \in Seq(Task) /\ round' \in Seq(Task)
  <2>1. PICK order : \E stops \in BOOLEAN : AfterTick(t, S, order, stops)
    BY <1>2 DEF Attached
  <2>2. IsFiniteSet(S) /\ round # <<>>
    BY <1>2 DEF Attached, Turn
  <2> QED
    BY <2>1, <2>2, AfterTickTypes
<1> QED
  BY <1>1, <1>2, TurnEnds

LEMMA NextTypes ==
  ASSUME TypeOK, [Next]_vars
  PROVE  TypeOK'
<1>1. TaskTypeOK'
  BY NextIsTaskStep, StutterIsTaskStep, TaskStepTypes DEF TypeOK
<1> DEFINE Queues == /\ running' \in BOOLEAN /\ inRun' \in BOOLEAN
                     /\ next' \in Seq(Task) /\ round' \in Seq(Task)
<1>2. CASE TickTask
  BY <1>1, <1>2, TurnTypes DEF TypeOK
<1>3. CASE Run \/ NextRound \/ Return \/ UNCHANGED vars
  BY <1>1, <1>3, EmptyQueue DEF Run, NextRound, Return, vars, schedulerVars, TypeOK
<1>4. CASE Client
  <2>1. PICK d \in ClientDeeds :
          /\ running' = (running /\ d.op # "stop")
          /\ \E s \in InOrder(Asks(d) \ Range(next), <<d.on>>) :
                next' = next \o s
          /\ UNCHANGED <<round, inRun>>
    BY <1>4 DEF Client
  <2>2. d \in DeedType
    BY ClientAssumption
  <2>3. Asks(d) \ Range(next) \subseteq {d.on} /\ Asks(d) \subseteq Task
    BY <2>2 DEF Asks, DeedType
  <2>4. IsFiniteSet(Asks(d) \ Range(next))
    BY <2>3, FS_Singleton, FS_Subset
  <2>5. PICK s \in InOrder(Asks(d) \ Range(next), <<d.on>>) : next' = next \o s
    BY <2>1
  <2>6. s \in Seq(Task)
    BY <2>3, <2>4, InOrderType
  <2>7. next' \in Seq(Task)
    BY <2>5, <2>6 DEF TypeOK
  <2> QED
    BY <1>1, <2>1, <2>7 DEF TypeOK
<1> QED
  BY <1>2, <1>3, <1>4 DEF Next

-----------------------------------------------------------------------------
(* The theorems.                                                            *)

\* Every reachable state is well-typed: no tick runs a RecurringTask past its
\* count, a generator past its end, or books a key a SomeTask does not have.
THEOREM TypeCorrect == Spec => []TypeOK
<1>1. Init => TypeOK
  BY TaskInitTypes, EmptyQueue DEF Init, TypeOK
<1>2. TypeOK /\ [Next]_vars => TypeOK'
  BY NextTypes
<1> QED
  BY <1>1, <1>2, PTL DEF Spec

\* The arrays of every SomeTask tell the truth about its children for ever.
THEOREM TrueBooks == Spec => []BooksAreTrue
<1>1. Init => BooksAreTrue
  BY DEF Init, TaskInit, BooksAreTrue
<1>2. TypeOK /\ BooksAreTrue /\ [Next]_vars => BooksAreTrue'
  BY NextIsTaskStep, StutterIsTaskStep, BooksStayTrue DEF TypeOK
<1> QED
  BY <1>1, <1>2, TypeCorrect, PTL DEF Spec

\* No SomeTask is both successful and faulted.
THEOREM SingleVerdict == Spec => []OneVerdict
<1>1. TypeOK /\ BooksAreTrue => OneVerdict
  BY TrueBooksOneVerdict DEF TypeOK
<1> QED
  BY <1>1, TypeCorrect, TrueBooks, PTL

\* A SomeTask never holds more than $howMany results.
THEOREM ShortBooks == Spec => []NoMoreThanHowMany
<1>1. Init => NoMoreThanHowMany
  BY DEF Init, TaskInit, NoMoreThanHowMany
<1>2. TypeOK /\ NoMoreThanHowMany /\ [Next]_vars => NoMoreThanHowMany'
  BY NextIsTaskStep, StutterIsTaskStep, BooksStayShort DEF TypeOK
<1> QED
  BY <1>1, <1>2, TypeCorrect, PTL DEF Spec

\* A complete task stays complete and does nothing more.
THEOREM FinalCompletion == Spec => CompletionIsFinal
<1>1. Init => DoomedIdle
  BY DEF Init, TaskInit, DoomedIdle
<1>2. TypeOK /\ DoomedIdle /\ [Next]_vars => DoomedIdle'
  BY NextIsTaskStep, StutterIsTaskStep, DoomedStaysIdle DEF TypeOK
<1>3. TypeOK /\ DoomedIdle /\ [Next]_vars => [CompletionStep]_taskVars
  BY NextIsTaskStep, StutterIsTaskStep, CompletionStays DEF TypeOK
<1> QED
  BY <1>1, <1>2, <1>3, TypeCorrect, PTL DEF Spec, CompletionIsFinal
-----------------------------------------------------------------------------
(* Programs whose ticks do not throw: no body throws before its first yield *)
(* and no task asks for a delay.                                            *)

Gentle == Stillborn = {} /\ Wrapper = {}

\* What is attached to the queue, and what leaves it.
LEMMA InOrderRange ==
  ASSUME NEW S, NEW order, NEW s \in InOrder(S, order)
  PROVE  Range(s) = S
BY DEF InOrder

LEMMA RangeOfConcat ==
  ASSUME NEW p \in Seq(Task), NEW q \in Seq(Task)
  PROVE  Range(p \o q) = Range(p) \cup Range(q)
<1>1. /\ Len(p) \in Nat /\ Len(q) \in Nat
      /\ DOMAIN p = 1..Len(p) /\ DOMAIN q = 1..Len(q)
      /\ DOMAIN (p \o q) = 1..(Len(p) + Len(q))
      /\ \A i \in 1..Len(p) : (p \o q)[i] = p[i]
      /\ \A i \in 1..Len(q) : (p \o q)[Len(p) + i] = q[i]
  OBVIOUS
<1>2. ASSUME NEW i \in 1..(Len(p) + Len(q))
      PROVE  (p \o q)[i] \in Range(p) \cup Range(q)
  <2>1. CASE i <= Len(p)
    BY <1>1, <2>1 DEF Range
  <2>2. CASE i > Len(p)
    <3>1. i - Len(p) \in 1..Len(q) /\ i = Len(p) + (i - Len(p))
      BY <1>1, <2>2
    <3> QED
      BY <1>1, <3>1 DEF Range
  <2> QED
    BY <1>1, <2>1, <2>2
<1>3. \A i \in 1..Len(p) : p[i] \in Range(p \o q)
  BY <1>1 DEF Range
<1>4. \A i \in 1..Len(q) : q[i] \in Range(p \o q)
  <2> TAKE i \in 1..Len(q)
  <2>1. Len(p) + i \in 1..(Len(p) + Len(q))
    BY <1>1
  <2> QED
    BY <1>1, <2>1 DEF Range
<1>5. /\ \A x \in Range(p \o q) : x \in Range(p) \cup Range(q)
      /\ \A x \in Range(p) \cup Range(q) : x \in Range(p \o q)
  BY <1>1, <1>2, <1>3, <1>4 DEF Range
<1> QED
  BY <1>5

LEMMA RangeOfAppend ==
  ASSUME NEW p \in Seq(Task), NEW t \in Task
  PROVE  Range(Append(p, t)) = Range(p) \cup {t}
<1>1. <<t>> \in Seq(Task) /\ Append(p, t) = p \o <<t>>
  OBVIOUS
<1>2. Range(<<t>>) = {t}
  BY DEF Range
<1> QED
  BY <1>1, <1>2, RangeOfConcat

LEMMA RangeOfTail ==
  ASSUME NEW p \in Seq(Task), p # <<>>
  PROVE  Range(p) = {Head(p)} \cup Range(Tail(p))
<1>1. <<Head(p)>> \in Seq(Task) /\ Tail(p) \in Seq(Task)
      /\ p = <<Head(p)>> \o Tail(p)
  OBVIOUS
<1>2. Range(<<Head(p)>>) = {Head(p)}
  BY DEF Range
<1> QED
  BY <1>1, <1>2, RangeOfConcat

LEMMA AttachedIsQueued ==
  ASSUME TypeOK, NEW t \in Task, NEW S \in SUBSET Task, Attached(t, S)
  PROVE  /\ Range(next) \cup S \subseteq Range(next')
         /\ t \in Range(next') \/ IsComplete(t)'
<1>1. PICK order, stops : AfterTick(t, S, order, stops)
  BY DEF Attached
<1>2. PICK s \in InOrder(S \ Range(next), order) :
        next' = IF IsComplete(t)' \/ t \in Range(next \o s) THEN next \o s
                ELSE Append(next \o s, t)
  BY <1>1 DEF AfterTick
<1>3. S \ Range(next) \in SUBSET Task /\ IsFiniteSet(S \ Range(next))
  BY FS_Subset DEF Attached
<1>4. s \in Seq(Task) /\ Range(s) = S \ Range(next)
  BY <1>3, InOrderType, InOrderRange
<1>5. next \o s \in Seq(Task) /\ Range(next \o s) = Range(next) \cup S
  BY <1>4, RangeOfConcat DEF TypeOK
<1>6. Range(Append(next \o s, t)) = Range(next \o s) \cup {t}
  BY <1>5, RangeOfAppend
<1> QED
  BY <1>2, <1>5, <1>6

LEMMA AttachedIsPending ==
  ASSUME TypeOK, NEW t \in Task, Turn(t), NEW S \in SUBSET Task,
         Attached(t, S)
  PROVE  /\ (Pending \ {t}) \cup S \subseteq Pending'
         /\ t \in Pending' \/ IsComplete(t)'
         /\ running' \in {running, FALSE} /\ inRun' = inRun /\ inRun
<1>1. PICK order, stops : stops \in BOOLEAN /\ AfterTick(t, S, order, stops)
  BY DEF Attached
<1>2. round' = Tail(round) /\ round # <<>> /\ t = Head(round)
  BY <1>1 DEF AfterTick, Turn
<1>3. Range(round) = {t} \cup Range(round')
  BY <1>2, RangeOfTail DEF TypeOK
<1>4. running' \in {running, FALSE} /\ inRun' = inRun /\ inRun
  BY <1>1 DEF AfterTick, Turn, TypeOK
<1> QED
  BY <1>3, <1>4, AttachedIsQueued DEF Pending

LEMMA ClientAttaches ==
  ASSUME TypeOK, Client
  PROVE  /\ Pending \subseteq Pending' /\ Range(next) \subseteq Range(next')
         /\ running' \in {running, FALSE} /\ inRun' = inRun
         /\ waiting' = waiting /\ scheduled' = scheduled
<1>1. PICK d \in ClientDeeds :
        /\ Outside(d)
        /\ running' = (running /\ d.op # "stop")
        /\ \E s \in InOrder(Asks(d) \ Range(next), <<d.on>>) : next' = next \o s
        /\ UNCHANGED <<round, inRun>>
  BY DEF Client
<1>2. d \in DeedType
  BY ClientAssumption
<1>3. Asks(d) \ Range(next) \in SUBSET Task /\ IsFiniteSet(Asks(d) \ Range(next))
  BY <1>2, AsksFinite, FS_Subset
<1>4. PICK s \in InOrder(Asks(d) \ Range(next), <<d.on>>) : next' = next \o s
  BY <1>1
<1>5. s \in Seq(Task)
  BY <1>3, InOrderType
<1>6. Range(next) \subseteq Range(next')
  BY <1>4, <1>5, RangeOfConcat DEF TypeOK
<1>7. Pending \subseteq Pending'
  BY <1>1, <1>6 DEF Pending
<1>8. waiting' = waiting /\ scheduled' = scheduled
  BY <1>1 DEF Outside
<1>9. running' \in {running, FALSE}
  BY <1>1 DEF TypeOK
<1> QED
  BY <1>1, <1>6, <1>7, <1>8, <1>9

\* A round exists only inside run().
Idle == ~inRun => round = <<>>

\* Whatever a task awaits is complete or pending, whether the task is pending
\* itself or not: it will be ticked again, or nobody looks at it any more.
AwaitedIsPending ==
    \A t \in Task : ~IsComplete(t) =>
        \A u \in Awaits(t) : IsComplete(u) \/ u \in Pending

GentleInv == TypeOK /\ doomed = {} /\ Idle /\ AwaitedIsPending

LEMMA EmptyRange == Range(<<>>) = {}
BY DEF Range

LEMMA RoundsKeepPending ==
  ASSUME TypeOK, Idle, Run \/ NextRound \/ Return \/ UNCHANGED vars
  PROVE  /\ Pending' = Pending
         /\ UNCHANGED taskVars
<1>1. CASE Run \/ NextRound
  <2>1. round = <<>> /\ round' = next /\ next' = <<>>
    BY <1>1 DEF Run, NextRound, Idle
  <2>2. Pending' = Pending
    BY <2>1, EmptyRange DEF Pending
  <2> QED
    BY <1>1, <2>2 DEF Run, NextRound
<1>2. CASE Return \/ UNCHANGED vars
  BY <1>2 DEF Return, vars, schedulerVars, Pending
<1> QED
  BY <1>1, <1>2

LEMMA AwaitsType ==
  ASSUME TypeOK, NEW t \in Task
  PROVE  Awaits(t) \subseteq Task
<1>1. Range(Subs[t]) \subseteq Task
  BY SubsRangeFinite
<1>2. Wrapped[t] \in Task
  BY ProgramAssumption
<1>3. {waiting[t]} \ {NoTask} \subseteq Task
  BY DEF TypeOK, TaskTypeOK
<1> QED
  BY <1>1, <1>2, <1>3 DEF Awaits

LEMMA StatusesSame ==
  ASSUME UNCHANGED taskVars
  PROVE  \A t : IsComplete(t)' = IsComplete(t)
BY DEF taskVars, IsComplete, IsSuccessful, IsFaulted, IsCancelled,
   OwnSuccess, OwnFault, Ended

LEMMA GentleStep ==
  ASSUME Gentle, GentleInv, [Next]_vars
  PROVE  GentleInv'
<1>1. TypeOK'
  BY NextTypes DEF GentleInv
<1>2. TaskStep /\ TaskTypeOK
  BY NextIsTaskStep, StutterIsTaskStep DEF GentleInv, TypeOK
<1>3. doomed' = {}
  BY <1>2, FlagsGrow DEF GentleInv
<1>4. ASSUME NEW u \in Task
      PROVE  IsComplete(u) => IsComplete(u)'
  BY <1>2, <1>4, StatusStays
<1>5. CASE TickTask
  <2>1. PICK t \in Task, S \in SUBSET Task :
          Turn(t) /\ Attached(t, S)
    BY <1>5, TurnEnds DEF GentleInv, Gentle
  <2>2. /\ (Pending \ {t}) \cup S \subseteq Pending'
        /\ t \in Pending' \/ IsComplete(t)'
        /\ inRun'
    BY <2>1, AttachedIsPending DEF GentleInv
  <2>3. ASSUME NEW w \in Task, ~IsComplete(w)', NEW u \in Awaits(w)'
        PROVE  IsComplete(u)' \/ u \in Pending'
    <3>1. ~IsComplete(w)
      BY <1>4, <2>3
    <3>2. u \in Awaits(w) \/ u \in S \/ (u \in Task /\ IsComplete(u))
      BY <2>1, <2>3 DEF Attached
    <3>3. CASE u \in Awaits(w)
      <4>1. u \in Task
        BY <3>3, AwaitsType DEF GentleInv
      <4>2. IsComplete(u) \/ u \in Pending
        BY <3>1, <3>3 DEF GentleInv, AwaitedIsPending
      <4> QED
        BY <1>4, <2>2, <4>1, <4>2
    <3> QED
      BY <1>4, <2>2, <3>2, <3>3
  <2>4. AwaitedIsPending'
    BY <2>3 DEF AwaitedIsPending
  <2>5. Idle'
    BY <2>2 DEF Idle
  <2> QED
    BY <1>1, <1>3, <2>4, <2>5 DEF GentleInv
<1>6. CASE Client
  <2>1. /\ Pending \subseteq Pending' /\ inRun' = inRun
        /\ \A w : Awaits(w)' = Awaits(w)
    BY <1>6, ClientAttaches, AwaitsSame DEF GentleInv
  <2>2. ASSUME NEW w \in Task, ~IsComplete(w)', NEW u \in Awaits(w)'
        PROVE  IsComplete(u)' \/ u \in Pending'
    <3>1. ~IsComplete(w) /\ u \in Awaits(w)
      BY <1>4, <2>1, <2>2
    <3>2. u \in Task
      BY <3>1, AwaitsType DEF GentleInv
    <3>3. IsComplete(u) \/ u \in Pending
      BY <3>1 DEF GentleInv, AwaitedIsPending
    <3> QED
      BY <1>4, <2>1, <3>2, <3>3
  <2>3. AwaitedIsPending'
    BY <2>2 DEF AwaitedIsPending
  <2>4. Idle'
    BY <1>6, <2>1 DEF Client, Idle, GentleInv
  <2> QED
    BY <1>1, <1>3, <2>3, <2>4 DEF GentleInv
<1>7. CASE Run \/ NextRound \/ Return \/ UNCHANGED vars
  <2>1. Pending' = Pending /\ UNCHANGED taskVars
    BY <1>7, RoundsKeepPending DEF GentleInv
  <2>2. \A w : Awaits(w)' = Awaits(w) /\ IsComplete(w)' = IsComplete(w)
    BY <2>1, AwaitsSame, StatusesSame DEF taskVars
  <2>3. AwaitedIsPending'
    BY <2>1, <2>2 DEF GentleInv, AwaitedIsPending
  <2>4. Idle'
    BY <1>7 DEF Run, NextRound, Return, vars, schedulerVars, Idle, GentleInv
  <2> QED
    BY <1>1, <1>3, <2>3, <2>4 DEF GentleInv
<1> QED
  BY <1>5, <1>6, <1>7 DEF Next

LEMMA GentleInit ==
  ASSUME Gentle, Init
  PROVE  GentleInv
<1>1. TypeOK
  BY TaskInitTypes, EmptyQueue DEF Init, TypeOK
<1>2. doomed = {} /\ Idle
  BY DEF Gentle, Init, TaskInit, Idle
<1>3. \A t \in Task : Awaits(t) = {}
  <2>1. \A t \in Task : waiting[t] = NoTask /\ scheduled = {}
    BY DEF Init, TaskInit
  <2> QED
    BY <2>1 DEF Awaits
<1> QED
  BY <1>1, <1>2, <1>3 DEF GentleInv, AwaitedIsPending

\* In a program whose ticks do not throw, what a pending task waits for is
\* complete or will be ticked: whoever schedules the awaited task, cancels or
\* settles it, and however the two come to be queued (GeneratorTask::doTick,
\* SomeTask::doTick, BasicScheduler::tick).
THEOREM WaitedForStaysPending ==
  ASSUME Gentle
  PROVE  Spec => []WaitedForIsPending
<1>1. Init => GentleInv
  BY GentleInit
<1>2. GentleInv /\ [Next]_vars => GentleInv'
  BY GentleStep
<1>3. GentleInv => WaitedForIsPending
  <2>1. TypeOK => Pending \subseteq Task
    BY DEF Pending, TypeOK, Range
  <2> QED
    BY <2>1 DEF GentleInv, AwaitedIsPending, WaitedForIsPending
<1> QED
  BY <1>1, <1>2, <1>3, PTL DEF Spec

LEMMA ProgressMade ==
  ASSUME TypeOK, [Next]_vars, NEW kept \in SUBSET Task, kept \subseteq Pending',
         running' \in {running, FALSE}
  PROVE  Contract!Progress(kept)
<1>1. \A u \in Task : IsComplete(u) => IsComplete(u)'
  BY NextIsTaskStep, StutterIsTaskStep, StatusStays DEF TypeOK
<1>2. ~running => ~running'
  BY DEF TypeOK
<1>3. Pending' \subseteq Task
  BY NextTypes DEF TypeOK, Pending, Range
<1> QED
  BY <1>1, <1>2, <1>3 DEF Contract!Progress

LEMMA StepKeepsContract ==
  ASSUME Gentle, GentleInv, [Next]_vars
  PROVE  [Contract!Next]_Contract!vars
<1>0. TypeOK /\ doomed = {} /\ Idle /\ Pending \in SUBSET Task
  BY DEF GentleInv, TypeOK, Pending, Range
<1>1. CASE TickTask
  <2>1. PICK t \in Task, S \in SUBSET Task :
          Turn(t) /\ Attached(t, S)
    BY <1>0, <1>1, TurnEnds DEF Gentle
  <2>2. /\ (Pending \ {t}) \cup S \subseteq Pending'
        /\ t \in Pending' \/ IsComplete(t)'
        /\ running' \in {running, FALSE} /\ inRun' = inRun /\ inRun
    BY <1>0, <2>1, AttachedIsPending
  <2>3. Contract!Progress(Pending \ {t})
    BY <1>0, <2>2, ProgressMade
  <2>4. t \in Pending
    BY <1>0, <2>1, RangeOfTail DEF Turn, Pending, TypeOK
  <2>5. t \in {u \in Task : IsComplete(u)}' \cup Pending'
    BY <2>2
  <2> QED
    BY <2>2, <2>3, <2>4, <2>5 DEF Contract!Next, Contract!Tick
<1>2. CASE Client
  <2>1. /\ Pending \subseteq Pending' /\ inRun' = inRun
        /\ running' \in {running, FALSE}
    BY <1>0, <1>2, ClientAttaches
  <2>2. Contract!Progress(Pending)
    BY <1>0, <2>1, ProgressMade
  <2> QED
    BY <2>1, <2>2 DEF Contract!Next, Contract!Events
<1>3. ASSUME UNCHANGED taskVars
      PROVE  {u \in Task : IsComplete(u)}' = {u \in Task : IsComplete(u)}
  BY <1>3, StatusesSame
<1>4. CASE Run
  BY <1>0, <1>3, <1>4, RoundsKeepPending DEF Run, Contract!Next, Contract!Begin
<1>5. CASE Return
  <2>1. ~running \/ Pending = {}
    BY <1>5, EmptyRange DEF Return, Pending
  <2> QED
    BY <1>0, <1>3, <1>5, <2>1, RoundsKeepPending
       DEF Return, Contract!Next, Contract!Return
<1>6. CASE NextRound \/ UNCHANGED vars
  <2>1. UNCHANGED <<running, inRun>>
    BY <1>6 DEF NextRound, vars, schedulerVars
  <2> QED
    BY <1>0, <1>3, <1>6, <2>1, RoundsKeepPending DEF Contract!vars
<1> QED
  BY <1>1, <1>2, <1>4, <1>5, <1>6 DEF Next

\* In a program whose ticks do not throw, the scheduler implements the contract:
\* a task that was scheduled, from a tick or from outside, once or several times,
\* stays in the queue or the round until it is complete, and run() returns
\* stopped or with nothing left.
THEOREM ContractKept ==
  ASSUME Gentle
  PROVE  Spec => KeepsContract
<1>1. Init => GentleInv
  BY GentleInit
<1>2. GentleInv /\ [Next]_vars => GentleInv'
  BY GentleStep
<1>3. Init => Contract!Init
  BY EmptyRange DEF Init, Contract!Init, Pending
<1>4. GentleInv /\ [Next]_vars => [Contract!Next]_Contract!vars
  BY StepKeepsContract
<1> QED
  BY <1>1, <1>2, <1>3, <1>4, PTL DEF Spec, KeepsContract, Contract!Spec

-----------------------------------------------------------------------------
(* No task twice in a round.                                                *)

Distinct(p) == \A i, j \in 1..Len(p) : p[i] = p[j] => i = j

LEMMA DistinctCount ==
  ASSUME NEW p \in Seq(Task), Distinct(p)
  PROVE  Cardinality(Range(p)) = Len(p)
<1>1. Len(p) \in Nat /\ DOMAIN p = 1..Len(p) /\ p \in [1..Len(p) -> Task]
  OBVIOUS
<1>2. p \in Bijection(1..Len(p), Range(p))
  BY <1>1 DEF Bijection, Injection, IsInjective, Surjection, Distinct, Range
<1>3. ExistsBijection(1..Len(p), Range(p))
  BY <1>2 DEF ExistsBijection
<1> QED
  BY <1>1, <1>3, FS_CountingElements

LEMMA InOrderDistinct ==
  ASSUME NEW S \in SUBSET Task, IsFiniteSet(S), NEW order,
         NEW s \in InOrder(S, order)
  PROVE  Distinct(s)
<1> DEFINE n == Cardinality(S)
<1>1. n \in Nat /\ s \in [1..n -> S] /\ Range(s) = S
  BY FS_CardinalityType DEF InOrder
<1>2. IsFiniteSet(1..n) /\ Cardinality(1..n) = n
  BY <1>1, FS_Interval, 1 \in Int, n \in Int
<1>3. s \in Surjection(1..n, S)
  BY <1>1 DEF Surjection, Range
<1>4. s \in Injection(1..n, S)
  BY <1>2, <1>3, FS_SurjSameCardinalityImpliesInj
<1>5. Len(s) = n
  BY <1>1
<1> QED
  BY <1>4, <1>5 DEF Injection, IsInjective, Distinct

LEMMA ConcatDistinct ==
  ASSUME NEW p \in Seq(Task), NEW q \in Seq(Task), Distinct(p), Distinct(q),
         Range(p) \cap Range(q) = {}
  PROVE  Distinct(p \o q)
<1>1. /\ Len(p) \in Nat /\ Len(q) \in Nat /\ Len(p \o q) = Len(p) + Len(q)
      /\ DOMAIN p = 1..Len(p) /\ DOMAIN q = 1..Len(q)
      /\ \A i \in 1..(Len(p) + Len(q)) :
            /\ i <= Len(p) => (p \o q)[i] = p[i]
            /\ i > Len(p) => (p \o q)[i] = q[i - Len(p)]
  OBVIOUS
<1>2. \A i \in 1..Len(p), j \in 1..Len(q) : p[i] # q[j]
  BY <1>1 DEF Range
<1> SUFFICES ASSUME NEW i \in 1..(Len(p) + Len(q)), NEW j \in 1..(Len(p) + Len(q)),
                    (p \o q)[i] = (p \o q)[j]
             PROVE  i = j
  BY <1>1 DEF Distinct
<1>3. \A k \in 1..(Len(p) + Len(q)) : k > Len(p) => k - Len(p) \in 1..Len(q)
  BY <1>1
<1>4. CASE i <= Len(p) /\ j <= Len(p)
  BY <1>1, <1>4 DEF Distinct
<1>5. CASE i > Len(p) /\ j > Len(p)
  <2>1. i - Len(p) = j - Len(p)
    BY <1>1, <1>3, <1>5 DEF Distinct
  <2> QED
    BY <1>1, <2>1
<1>6. CASE i <= Len(p) /\ j > Len(p)
  <2>1. i \in 1..Len(p)
    BY <1>1, <1>6
  <2> QED
    BY <1>1, <1>2, <1>3, <1>6, <2>1
<1>7. CASE i > Len(p) /\ j <= Len(p)
  <2>1. j \in 1..Len(p)
    BY <1>1, <1>7
  <2> QED
    BY <1>1, <1>2, <1>3, <1>7, <2>1
<1> QED
  BY <1>1, <1>4, <1>5, <1>6, <1>7

LEMMA AppendDistinct ==
  ASSUME NEW p \in Seq(Task), NEW t \in Task, Distinct(p), t \notin Range(p)
  PROVE  Distinct(Append(p, t))
<1>1. <<t>> \in Seq(Task) /\ Append(p, t) = p \o <<t>> /\ Distinct(<<t>>)
  BY DEF Distinct
<1>2. Range(<<t>>) = {t}
  BY DEF Range
<1> QED
  BY <1>1, <1>2, ConcatDistinct

LEMMA TailDistinct ==
  ASSUME NEW p \in Seq(Task), p # <<>>, Distinct(p)
  PROVE  Distinct(Tail(p))
<1>1. /\ Len(p) \in Nat /\ Len(Tail(p)) = Len(p) - 1
      /\ \A i \in 1..(Len(p) - 1) : Tail(p)[i] = p[i + 1] /\ i + 1 \in 1..Len(p)
  OBVIOUS
<1> SUFFICES ASSUME NEW i \in 1..(Len(p) - 1), NEW j \in 1..(Len(p) - 1),
                    Tail(p)[i] = Tail(p)[j]
             PROVE  i = j
  BY <1>1 DEF Distinct
<1>2. i + 1 = j + 1
  BY <1>1 DEF Distinct
<1> QED
  BY <1>2

LEMMA EmptyDistinct == Distinct(<<>>)
BY DEF Distinct

Unique == Distinct(round) /\ Distinct(next)

\* The tasks of S that are not queued yet are attached behind the queue.
LEMMA QueueStaysDistinct ==
  ASSUME TypeOK, Unique, NEW S \in SUBSET Task, IsFiniteSet(S), NEW order,
         NEW s \in InOrder(S \ Range(next), order)
  PROVE  next \o s \in Seq(Task) /\ Distinct(next \o s)
<1>1. S \ Range(next) \in SUBSET Task /\ IsFiniteSet(S \ Range(next))
  BY FS_Subset
<1>2. s \in Seq(Task) /\ Range(s) = S \ Range(next) /\ Distinct(s)
  BY <1>1, InOrderType, InOrderRange, InOrderDistinct
<1>3. next \in Seq(Task) /\ Distinct(next)
  BY DEF TypeOK, Unique
<1> QED
  BY <1>2, <1>3, ConcatDistinct

LEMMA UniqueStep ==
  ASSUME TypeOK, Unique, [Next]_vars
  PROVE  Unique'
<1>1. CASE Escape
  BY <1>1, EmptyDistinct DEF Escape, Unique
<1>2. ASSUME NEW t \in Task, NEW S \in SUBSET Task, Turn(t), Attached(t, S)
      PROVE  Unique'
  <2>1. PICK order, stops : AfterTick(t, S, order, stops)
    BY <1>2 DEF Attached
  <2>2. PICK s \in InOrder(S \ Range(next), order) :
          next' = IF IsComplete(t)' \/ t \in Range(next \o s) THEN next \o s
                  ELSE Append(next \o s, t)
    BY <2>1 DEF AfterTick
  <2>3. next \o s \in Seq(Task) /\ Distinct(next \o s)
    BY <1>2, QueueStaysDistinct DEF Attached
  <2>4. Distinct(next')
    BY <2>2, <2>3, AppendDistinct
  <2>5. Distinct(round')
    BY <1>2, <2>1, TailDistinct DEF AfterTick, Turn, TypeOK, Unique
  <2> QED
    BY <2>4, <2>5 DEF Unique
<1>3. CASE TickTask
  BY <1>1, <1>2, <1>3, TurnEnds
<1>4. CASE Client
  <2>1. PICK d \in ClientDeeds :
          /\ \E s \in InOrder(Asks(d) \ Range(next), <<d.on>>) : next' = next \o s
          /\ round' = round
    BY <1>4 DEF Client
  <2>2. PICK s \in InOrder(Asks(d) \ Range(next), <<d.on>>) : next' = next \o s
    BY <2>1
  <2>3. Asks(d) \in SUBSET Task /\ IsFiniteSet(Asks(d))
    BY ClientAssumption, AsksFinite
  <2>4. Distinct(next')
    BY <2>2, <2>3, QueueStaysDistinct
  <2> QED
    BY <2>1, <2>4 DEF Unique
<1>5. CASE Run \/ NextRound \/ Return \/ UNCHANGED vars
  BY <1>5, EmptyDistinct DEF Run, NextRound, Return, vars, schedulerVars, Unique
<1> QED
  BY <1>3, <1>4, <1>5 DEF Next

\* No task is ticked twice in a round or waits twice for the next, for any
\* program: schedule() during a tick, the scheduler's own re-scheduling after it
\* and the script's calls all go through a storage that holds an object once.
THEOREM TickedOnce == Spec => []TickedOnceARound
<1>1. Init => Unique
  BY EmptyDistinct DEF Init, Unique
<1>2. TypeOK /\ Unique /\ [Next]_vars => Unique'
  BY UniqueStep
<1>3. TypeOK /\ Unique => TickedOnceARound
  BY DistinctCount DEF TypeOK, Unique, TickedOnceARound
<1> QED
  BY <1>1, <1>2, <1>3, TypeCorrect, PTL DEF Spec

\* A suspended body and its GeneratorTask keep in step, whoever else is ticked,
\* cancelled or settled meanwhile and however often the generator was scheduled
\* (GeneratorTask::doTick).
THEOREM InStep == Spec => []BodyInStep
<1>1. Init => BodyInStep
  BY DEF Init, TaskInit, BodyInStep, Generators
<1>2. TypeOK /\ BodyInStep /\ [Next]_vars => BodyInStep'
  BY NextIsTaskStep, StutterIsTaskStep, BodyStaysInStep DEF TypeOK
<1> QED
  BY <1>1, <1>2, TypeCorrect, PTL DEF Spec

-----------------------------------------------------------------------------
(* The order of the ticks.                                                  *)

\* Who is to be ticked, in order, when whose turn it is has had it.
Line == round \o next
Rest == IF round = <<>> THEN next ELSE Tail(round) \o next

\* One step of run() lets the next in line have its turn and moves all others up
\* by one place; whoever is scheduled meanwhile joins behind them.
LineStep ==
    inRun /\ inRun' =>
        \A i \in DOMAIN Rest : i \in DOMAIN Line' /\ Line'[i] = Rest[i]

\* After a stop() run() does no more than tick the rest of its round.
StopStep ==
    inRun /\ ~running =>
        ~inRun' \/ (~running' /\ Len(round') < Len(round))

LEMMA PrefixStays ==
  ASSUME NEW p \in Seq(Task), NEW q \in Seq(Task), NEW s \in Seq(Task)
  PROVE  \A i \in DOMAIN (p \o q) : /\ i \in DOMAIN (p \o (q \o s))
                                    /\ (p \o (q \o s))[i] = (p \o q)[i]
<1>1. /\ Len(p) \in Nat /\ Len(q) \in Nat /\ Len(s) \in Nat
      /\ p \o q \in Seq(Task) /\ q \o s \in Seq(Task)
  OBVIOUS
<1>2. /\ Len(p \o q) = Len(p) + Len(q) /\ DOMAIN (p \o q) = 1..(Len(p) + Len(q))
      /\ DOMAIN (p \o (q \o s)) = 1..(Len(p) + (Len(q) + Len(s)))
  OBVIOUS
<1> SUFFICES ASSUME NEW i \in 1..(Len(p) + Len(q))
             PROVE  (p \o (q \o s))[i] = (p \o q)[i]
  BY <1>1, <1>2
<1>3. CASE i <= Len(p)
  BY <1>1, <1>3
<1>4. CASE i > Len(p)
  <2>1. i - Len(p) \in 1..Len(q)
    BY <1>1, <1>4
  <2>2. (q \o s)[i - Len(p)] = q[i - Len(p)]
    BY <1>1, <2>1
  <2>3. (p \o q)[i] = q[i - Len(p)] /\ (p \o (q \o s))[i] = (q \o s)[i - Len(p)]
    BY <1>1, <1>4
  <2> QED
    BY <2>2, <2>3
<1> QED
  BY <1>3, <1>4

LEMMA AttachedMovesUp ==
  ASSUME TypeOK, NEW t \in Task, Turn(t), NEW S \in SUBSET Task, Attached(t, S)
  PROVE  /\ \A i \in DOMAIN Rest : i \in DOMAIN Line' /\ Line'[i] = Rest[i]
         /\ Len(round') < Len(round)
         /\ ~running => ~running'
<1>1. PICK order, stops : stops \in BOOLEAN /\ AfterTick(t, S, order, stops)
  BY DEF Attached
<1>2. round # <<>> /\ round' = Tail(round) /\ round' \in Seq(Task) /\ next \in Seq(Task)
  BY <1>1 DEF AfterTick, Turn, TypeOK
<1>3. PICK s \in InOrder(S \ Range(next), order) :
        next' = IF IsComplete(t)' \/ t \in Range(next \o s) THEN next \o s
                ELSE Append(next \o s, t)
  BY <1>1 DEF AfterTick
<1>4. S \ Range(next) \in SUBSET Task /\ IsFiniteSet(S \ Range(next))
  BY FS_Subset DEF Attached
<1>5. s \in Seq(Task) /\ Append(s, t) \in Seq(Task)
  BY <1>4, InOrderType
<1>6. next' = next \o s \/ next' = next \o Append(s, t)
  <2>1. Append(next \o s, t) = next \o Append(s, t)
    BY <1>2, <1>5
  <2> QED
    BY <1>3, <2>1
<1>7. PICK u \in Seq(Task) : next' = next \o u
  BY <1>5, <1>6
<1>8. Rest = round' \o next /\ Line' = round' \o (next \o u)
  BY <1>2, <1>7 DEF Rest, Line
<1>9. \A i \in DOMAIN Rest : i \in DOMAIN Line' /\ Line'[i] = Rest[i]
  BY <1>2, <1>7, <1>8, PrefixStays
<1>10. Len(round') < Len(round)
  BY <1>2 DEF TypeOK
<1>11. ~running => ~running'
  BY <1>1 DEF AfterTick
<1> QED
  BY <1>9, <1>10, <1>11

LEMMA LineStepHolds ==
  ASSUME TypeOK, Next
  PROVE  LineStep /\ StopStep
<1>1. CASE TickTask
  <2>1. CASE Escape
    BY <2>1 DEF Escape, LineStep, StopStep
  <2>2. ASSUME NEW t \in Task, NEW S \in SUBSET Task, Turn(t), Attached(t, S)
        PROVE  LineStep /\ StopStep
    BY <2>2, AttachedMovesUp DEF LineStep, StopStep
  <2> QED
    BY <1>1, <2>1, <2>2, TurnEnds
<1>2. CASE NextRound
  <2>1. round = <<>> /\ round' = next /\ next' = <<>> /\ running /\ next \in Seq(Task)
    BY <1>2 DEF NextRound, TypeOK
  <2>2. Rest = next /\ Line' = next
    BY <2>1 DEF Rest, Line
  <2> QED
    BY <2>1, <2>2 DEF LineStep, StopStep
<1>3. CASE Run \/ Return \/ Client
  BY <1>3 DEF Run, Return, Client, LineStep, StopStep
<1> QED
  BY <1>1, <1>2, <1>3 DEF Next

\* Tasks are ticked first come, first served, for every program: inside run() no
\* task, and nothing that a tick schedules, overtakes one that is queued, so each
\* has its turn after as many ticks as there are tasks before it.  It is what
\* keeps one task from starving another (BasicScheduler::tick, schedule).
THEOREM FirstComeFirstServed == Spec => [][LineStep]_vars
<1>1. TypeOK /\ [Next]_vars => [LineStep]_vars
  BY LineStepHolds
<1> QED
  BY <1>1, TypeCorrect, PTL DEF Spec

\* Once stop() was called, every step of run() shortens the round, takes up no
\* new one, and leaves the scheduler stopped: run() is at most as many ticks from
\* its end as the round has tasks left.
THEOREM StopShortensRun == Spec => [][StopStep]_vars
<1>1. TypeOK /\ [Next]_vars => [StopStep]_vars
  BY LineStepHolds
<1> QED
  BY <1>1, TypeCorrect, PTL DEF Spec
=============================================================================
