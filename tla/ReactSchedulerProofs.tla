------------------------ MODULE ReactSchedulerProofs ------------------------
(***************************************************************************)
(* ReactEventLoopScheduler, for every program and any number of timers:    *)
(* what holds of its tasks, and that it implements SchedulerContract.      *)
(***************************************************************************)
EXTENDS ReactEventLoopScheduler, AsyncTaskProofs

LEMMA DeedsType ==
  ASSUME NEW t \in Task
  PROVE  Deeds[t] \subseteq DeedType
BY ProgramAssumption

\* Whatever the scheduler does is, for the tasks, one of their steps.
LEMMA FireIsTaskStep ==
  ASSUME NEW t \in Task, Fire(t)
  PROVE  TaskStep
<1>1. CASE DoCallable(t) \/ DoRecurring(t) \/ DoResume(t)
  <2>1. DeedStep(t)
    BY <1>1, DeedsType DEF DoCallable, DoRecurring, DoResume, DeedStep
  <2> QED
    BY <2>1 DEF TaskStep
<1>2. CASE DoComplete(t) \/ DoPromise(t) \/ DoWaitOn(t)
  BY <1>2 DEF DoComplete, DoPromise, DoWaitOn, TickComplete, TickPromise,
              WaitOn, TaskStep
<1>3. CASE DoBeginWait(t) \/ DoSome(t) \/ DoThrowing(t) \/ DoWrapper(t)
  BY <1>3 DEF DoBeginWait, DoSome, DoThrowing, DoWrapper, TaskStep
<1> QED
  BY <1>1, <1>2, <1>3 DEF Fire

LEMMA NextIsTaskStep == [Next]_vars => TaskStep
<1>1. Client => TaskStep
  BY ClientAssumption DEF Client, TaskStep
<1>2. Run \/ Return \/ UNCHANGED vars => TaskStep
  BY DEF Run, Return, vars, TaskStep
<1> QED
  BY <1>1, <1>2, FireIsTaskStep DEF Next

-----------------------------------------------------------------------------
(* The timers.                                                              *)

LEMMA AsksType ==
  ASSUME NEW d \in DeedType
  PROVE  Asks(d) \subseteq Task
BY DEF Asks, DeedType

\* Whoever has a timer before the tick of t has one after it, t excepted.
OthersKept(t) == \A u \in Task \ {t} : timers[u] > 0 => timers'[u] > 0

\* What a tick that does not throw leaves behind.
Rearmed(t) ==
    /\ timers' \in [Task -> Nat]
    /\ OthersKept(t)
    /\ IsComplete(t)' \/ timers'[t] > 0
    /\ running' \in {running, FALSE}
    /\ inRun' = inRun

\* What one that throws leaves behind.
Dropped(t) ==
    /\ timers' \in [Task -> Nat]
    /\ OthersKept(t)
    /\ running' = running
    /\ inRun' = FALSE

LEMMA AfterTickRearms ==
  ASSUME TypeOK, NEW t \in Task, timers[t] > 0, NEW S, NEW stops \in BOOLEAN,
         AfterTick(t, S, stops)
  PROVE  Rearmed(t)
<1>1. timers \in [Task -> Nat]
  BY DEF TypeOK
<1>2. \A u \in Task : /\ Armed(S, {t})[u] \in Nat
                      /\ u # t /\ timers[u] > 0 => Armed(S, {t})[u] > 0
  BY <1>1 DEF Armed
<1>3. Armed(S, {t}) \in [Task -> Nat]
  BY <1>2 DEF Armed
<1>4. /\ timers' \in [Task -> Nat]
      /\ \A u \in Task \ {t} : timers'[u] = Armed(S, {t})[u]
      /\ ~IsComplete(t)' => timers'[t] = Armed(S, {t})[t] + 1
  <2> DEFINE a == Armed(S, {t})
             done == IsComplete(t)'
  <2>1. timers' = [a EXCEPT ![t] = IF done THEN @ ELSE @ + 1]
    BY DEF AfterTick
  <2>2. a \in [Task -> Nat]
    BY <1>3
  <2> HIDE DEF a, done
  <2>3. /\ timers' \in [Task -> Nat]
        /\ \A u \in Task \ {t} : timers'[u] = a[u]
        /\ ~done => timers'[t] = a[t] + 1
    BY <2>1, <2>2
  <2> QED
    BY <2>3 DEF a, done
<1>5. OthersKept(t)
  BY <1>2, <1>4 DEF OthersKept
<1>6. IsComplete(t)' \/ timers'[t] > 0
  BY <1>2, <1>4
<1>7. running' \in {running, FALSE} /\ inRun' = inRun
  BY DEF AfterTick, TypeOK
<1> QED
  BY <1>4, <1>5, <1>6, <1>7 DEF Rearmed

LEMMA EscapeDrops ==
  ASSUME TypeOK, NEW t \in Task, timers[t] > 0, NEW S, Escape(t, S)
  PROVE  Dropped(t)
<1>1. timers \in [Task -> Nat]
  BY DEF TypeOK
<1>2. \A u \in Task : /\ Armed(S, {t})[u] \in Nat
                      /\ u # t /\ timers[u] > 0 => Armed(S, {t})[u] > 0
  BY <1>1 DEF Armed
<1>3. Armed(S, {t}) \in [Task -> Nat]
  BY <1>2 DEF Armed
<1> QED
  BY <1>2, <1>3 DEF Escape, Dropped, OthersKept

LEMMA ResumeRearms ==
  ASSUME TypeOK, NEW t \in Task, timers[t] > 0, DoResume(t)
  PROVE  Rearmed(t)
<1>1. PICK d \in Deeds[t], how \in {"yield", "return", "throw"} :
        LET u == IF how = "yield" THEN {Yields[t][gen[t] + 1]} ELSE {}
        IN  /\ running' = (running /\ d.op # "stop")
            /\ inRun' = inRun
            /\ timers' = [v \in Task |->
                  Armed(u, {t})[v] + Cardinality(Asks(d) \cap {v})
                  + (IF v = t /\ ~IsComplete(t)' THEN 1 ELSE 0)]
  BY DEF DoResume
<1> DEFINE u == IF how = "yield" THEN {Yields[t][gen[t] + 1]} ELSE {}
           a(v) == Armed(u, {t})[v]
           c(v) == Cardinality(Asks(d) \cap {v})
<1> HIDE DEF u
<1>2. \A v \in Task : a(v) \in Nat /\ (v # t /\ timers[v] > 0 => a(v) > 0)
  BY DEF Armed, TypeOK
<1>3. \A v : c(v) \in Nat
  BY FS_Singleton, FS_Subset, FS_CardinalityType
<1>4. timers' = [v \in Task |->
                  a(v) + c(v) + (IF v = t /\ ~IsComplete(t)' THEN 1 ELSE 0)]
  BY <1>1 DEF u
<1> HIDE DEF a, c
<1>5. /\ timers' \in [Task -> Nat]
      /\ \A v \in Task : timers'[v] =
            a(v) + c(v) + (IF v = t /\ ~IsComplete(t)' THEN 1 ELSE 0)
  BY <1>2, <1>3, <1>4
<1>6. OthersKept(t)
  BY <1>2, <1>3, <1>5 DEF OthersKept
<1>7. IsComplete(t)' \/ timers'[t] > 0
  BY <1>2, <1>3, <1>5
<1>8. running' \in {running, FALSE} /\ inRun' = inRun
  BY <1>1 DEF TypeOK
<1> QED
  BY <1>5, <1>6, <1>7, <1>8 DEF Rearmed

\* A tick that throws starts a generator of Stillborn.
StartsDoomed ==
    \E c \in doomed : gen'[c] = Len(Yields[c]) + 1

LEMMA FireRearmsOrDrops ==
  ASSUME TypeOK, NEW t \in Task, Fire(t)
  PROVE  Rearmed(t) \/ (Dropped(t) /\ StartsDoomed)
<1>1. timers[t] > 0
  BY DEF Fire
<1>2. CASE DoComplete(t) \/ DoPromise(t) \/ DoBeginWait(t) \/ DoWaitOn(t)
  BY <1>1, <1>2, AfterTickRearms
     DEF DoComplete, DoPromise, DoBeginWait, DoWaitOn
<1>3. CASE DoCallable(t) \/ DoRecurring(t)
  <2>1. PICK d \in Deeds[t] : AfterTick(t, Asks(d), d.op = "stop")
    BY <1>3 DEF DoCallable, DoRecurring
  <2> QED
    BY <1>1, <2>1, AfterTickRearms
<1>4. CASE DoResume(t)
  BY <1>1, <1>4, ResumeRearms
<1>5. CASE DoSome(t)
  <2>1. PICK k \in 0..Len(Subs[t]) :
          /\ TickSome(t, k)
          /\ IF LoopThrows(t, k) THEN Escape(t, {})
             ELSE AfterTick(t, SomeCalls(t, k), FALSE)
    BY <1>5 DEF DoSome
  <2>2. CASE ~LoopThrows(t, k)
    BY <1>1, <2>1, <2>2, AfterTickRearms
  <2>3. CASE LoopThrows(t, k)
    <3> DEFINE c == Core[Subs[t][k + 1]]
    <3>1. Dropped(t)
      BY <1>1, <2>1, <2>3, EscapeDrops
    <3>2. Throws(Subs[t][k + 1])
      BY <2>1, <2>3 DEF TickSome, LoopLength, LoopStops, LoopThrows
    <3>3. c \in doomed /\ gen' = EndedBy({c})
      BY <2>1, <2>3, <3>2 DEF TickSome, Throws
    <3>4. gen'[c] = Len(Yields[c]) + 1
      BY <3>3 DEF EndedBy, TypeOK, TaskTypeOK, Generators
    <3> QED
      BY <3>1, <3>3, <3>4 DEF StartsDoomed
  <2> QED
    BY <2>2, <2>3
<1>6. CASE DoWrapper(t)
  <2>1. CASE ~Throws(t)
    BY <1>1, <1>6, <2>1, AfterTickRearms DEF DoWrapper
  <2>2. CASE Throws(t)
    <3>1. Dropped(t)
      BY <1>1, <1>6, <2>2, EscapeDrops DEF DoWrapper
    <3>2. Core[t] \in doomed /\ gen' = EndedBy({Core[t]} \cap doomed)
      BY <1>6, <2>2 DEF DoWrapper, TickWrapper, Throws
    <3>3. gen'[Core[t]] = Len(Yields[Core[t]]) + 1
      BY <3>2 DEF EndedBy, TypeOK, TaskTypeOK, Generators
    <3> QED
      BY <3>1, <3>2, <3>3 DEF StartsDoomed
  <2> QED
    BY <2>1, <2>2
<1>7. CASE DoThrowing(t)
  <2>1. Dropped(t)
    BY <1>1, <1>7, EscapeDrops DEF DoThrowing
  <2>2. PICK c \in doomed : gen' = EndedBy({c})
    BY <1>7 DEF DoThrowing, TickDoomed, WaitThrows, Throws
  <2>3. gen'[c] = Len(Yields[c]) + 1
    BY <2>2 DEF EndedBy, TypeOK, TaskTypeOK, Generators
  <2> QED
    BY <2>1, <2>3 DEF StartsDoomed
<1> QED
  BY <1>2, <1>3, <1>4, <1>5, <1>6, <1>7 DEF Fire

LEMMA InitTypes == Init => TypeOK
<1> SUFFICES ASSUME Init
             PROVE  TypeOK
  OBVIOUS
<1>1. TaskTypeOK
  BY TaskInitTypes DEF Init
<1>2. timers \in [Task -> Nat] /\ running \in BOOLEAN /\ inRun \in BOOLEAN
  BY DEF Init
<1> QED
  BY <1>1, <1>2 DEF TypeOK

LEMMA NextTypes ==
  ASSUME TypeOK, [Next]_vars
  PROVE  TypeOK'
<1>1. TaskTypeOK'
  BY NextIsTaskStep, TaskStepTypes DEF TypeOK
<1>2. ASSUME NEW t \in Task, Fire(t)
      PROVE  TypeOK'
  BY <1>1, <1>2, FireRearmsOrDrops DEF Rearmed, Dropped, TypeOK
<1>3. CASE Client
  <2>1. PICK d \in ClientDeeds : /\ timers' = Armed(Asks(d), {})
                                 /\ running' = (running /\ d.op # "stop")
                                 /\ inRun' = inRun
    BY <1>3 DEF Client
  <2>2. timers' \in [Task -> Nat]
    BY <2>1 DEF Armed, TypeOK
  <2> QED
    BY <1>1, <2>1, <2>2 DEF TypeOK
<1>4. CASE Run \/ Return \/ UNCHANGED vars
  BY <1>1, <1>4 DEF Run, Return, vars, TypeOK
<1> QED
  BY <1>2, <1>3, <1>4 DEF Next

-----------------------------------------------------------------------------
(* Generators that have not started.                                        *)

\* A generator that is still to throw stands before its first yield.
Unstarted == \A g \in doomed : gen[g] = 1

LEMMA StartedLeave ==
  ASSUME TaskTypeOK, TaskStep, NEW g \in doomed'
  PROVE  gen'[g] = gen[g]
<1>1. g \in doomed /\ g \in Task /\ Kind[g] = "generator"
  BY FlagsGrow DEF TaskTypeOK, Generators
<1>2. \A S : g \notin S => EndedBy(S)[g] = gen[g]
  BY <1>1 DEF EndedBy
<1>3. ASSUME NEW d \in DeedType, NEW won, NEW failed, Perform(d, won, failed)
      PROVE  g \notin Starts(d)
  BY <1>3 DEF Perform
<1>4. ASSUME NEW t \in Task, DeedStep(t)
      PROVE  gen'[g] = gen[g]
  <2>1. PICK d \in DeedType :
          \/ \E ok \in BOOLEAN : TickCallable(t, d, ok) \/ TickRecurring(t, d, ok)
          \/ \E how \in {"yield", "return", "throw"} : Resume(t, d, how)
    BY <1>4 DEF DeedStep
  <2>2. CASE \E ok \in BOOLEAN : TickCallable(t, d, ok) \/ TickRecurring(t, d, ok)
    <3>1. PICK ok \in BOOLEAN : TickCallable(t, d, ok) \/ TickRecurring(t, d, ok)
      BY <2>2
    <3>2. CASE TickCallable(t, d, ok)
      BY <1>2, <1>3, <3>2 DEF TickCallable
    <3>3. CASE TickRecurring(t, d, ok)
      <4>1. PICK e \in DeedType : /\ Perform(e, {}, IF ok THEN {} ELSE {t})
                                  /\ gen' = EndedBy(Starts(e))
        BY <3>3, RunPerforms
      <4>2. g \notin Starts(e)
        BY <1>3, <4>1
      <4> QED
        BY <1>2, <4>1, <4>2
    <3> QED
      BY <3>1, <3>2, <3>3
  <2>3. CASE \E how \in {"yield", "return", "throw"} : Resume(t, d, how)
    <3>1. PICK how \in {"yield", "return", "throw"} : Resume(t, d, how)
      BY <2>3
    <3>2. t # g /\ g \notin Starts(d)
      BY <1>1, <1>3, <3>1 DEF Resume, GoOn, Live
    <3>3. gen'[g] = EndedBy(Starts(d))[g]
      BY <1>1, <3>1, <3>2, EndedByType DEF Resume, GoOn
    <3> QED
      BY <1>2, <3>2, <3>3
  <2> QED
    BY <2>1, <2>2, <2>3
<1>5. ASSUME NEW d \in DeedType, Outside(d)
      PROVE  gen'[g] = gen[g]
  BY <1>2, <1>3, <1>5 DEF Outside
<1>6. ASSUME NEW t \in Task, NEW k \in 0..Len(Subs[t]), TickSome(t, k)
      PROVE  gen'[g] = gen[g]
  BY <1>2, <1>6 DEF TickSome
<1>7. ASSUME NEW t \in Task,
             TickDoomed(t) \/ BeginWait(t) \/ WaitThrows(t) \/ TickWrapper(t)
      PROVE  gen'[g] = gen[g]
  BY <1>2, <1>7 DEF TickDoomed, BeginWait, WaitThrows, TickWrapper
<1> QED
  BY <1>4, <1>5, <1>6, <1>7 DEF TaskStep, taskVars

LEMMA UnstartedStays ==
  ASSUME TaskTypeOK, Unstarted, TaskStep
  PROVE  Unstarted'
BY StartedLeave, FlagsGrow DEF Unstarted

-----------------------------------------------------------------------------
(* Timers of the tasks that are polled.                                     *)

LEMMA AwaitsIs ==
  ASSUME NEW t \in Task, NEW u
  PROVE  u \in Awaits(t) <=>
            \/ t \in Generators /\ u = waiting[t] /\ u # NoTask
            \/ t \in scheduled /\ Kind[t] = "some" /\ u \in Range(Subs[t])
            \/ t \in scheduled /\ t \in Wrapper /\ u = Wrapped[t]
BY DEF Awaits, Generators, Wrapper

LEMMA AwaitsIsThen ==
  ASSUME NEW t \in Task, NEW u
  PROVE  u \in Awaits(t)' <=>
            \/ t \in Generators /\ u = waiting'[t] /\ u # NoTask
            \/ t \in scheduled' /\ Kind[t] = "some" /\ u \in Range(Subs[t])
            \/ t \in scheduled' /\ t \in Wrapper /\ u = Wrapped[t]
BY DEF Awaits, Generators, Wrapper

LEMMA AwaitsTypeThen ==
  ASSUME TaskTypeOK', NEW t \in Task, NEW u \in Awaits(t)'
  PROVE  u \in Task
<1>1. waiting'[t] \in Task \cup {NoTask} /\ Wrapped[t] \in Task
  BY ProgramAssumption DEF TaskTypeOK
<1>2. Range(Subs[t]) \subseteq Task
  <2>1. Subs[t] \in Seq(Task)
    BY ProgramAssumption
  <2> QED
    BY <2>1 DEF Range
<1> QED
  BY <1>1, <1>2, AwaitsIsThen

\* A tick that calls schedule() on u leaves it with a timer.
LEMMA CalledHasTimer ==
  ASSUME TypeOK, NEW t \in Task, timers[t] > 0, NEW S, NEW u \in S, u \in Task,
         Escape(t, S) \/ \E stops \in BOOLEAN : AfterTick(t, S, stops)
  PROVE  timers'[u] > 0
<1>1. timers \in [Task -> Nat]
  BY DEF TypeOK
<1> DEFINE a == Armed(S, {t})
<1>2. a \in [Task -> Nat] /\ a[u] > 0
  BY <1>1 DEF Armed
<1>3. CASE Escape(t, S)
  BY <1>2, <1>3 DEF Escape
<1>4. CASE \E stops \in BOOLEAN : AfterTick(t, S, stops)
  <2> DEFINE done == IsComplete(t)'
  <2>1. timers' = [a EXCEPT ![t] = IF done THEN @ ELSE @ + 1]
    BY <1>4 DEF AfterTick
  <2> HIDE DEF a, done
  <2> QED
    BY <1>2, <2>1
<1> QED
  BY <1>3, <1>4

\* A task loses its last timer when it is complete or when its tick threw.
LEMMA TimerKept ==
  ASSUME TypeOK, BodyInStep, doomed \subseteq Stillborn,
         NEW t \in Task, Fire(t), NEW u \in Task, timers[u] > 0
  PROVE  IsComplete(u)' \/ timers'[u] > 0 \/ PollsStillborn(u)
<1> SUFFICES ASSUME u = t, Dropped(t)
             PROVE  IsComplete(t)' \/ PollsStillborn(t)
  BY FireRearmsOrDrops DEF Rearmed, Dropped, OthersKept
<1>1. \A c \in doomed : c \in Task /\ Kind[c] = "generator" /\ Core[c] = c
  BY CoreOfPlain DEF TypeOK, TaskTypeOK, Generators
<1>2. ASSUME NEW c \in doomed, gen'[c] = Len(Yields[c]) + 1, Core[t] = c
      PROVE  IsComplete(t)'
  BY <1>1, <1>2, YieldsType
     DEF IsComplete, IsSuccessful, OwnSuccess, Ended
<1>3. CASE DoSome(t)
  <2>1. PICK k \in 0..Len(Subs[t]) :
          /\ TickSome(t, k)
          /\ IF LoopThrows(t, k) THEN Escape(t, {})
             ELSE AfterTick(t, SomeCalls(t, k), FALSE)
    BY <1>3 DEF DoSome
  <2>2. CASE ~LoopThrows(t, k)
    <3>1. Rearmed(t)
      BY <2>1, <2>2, AfterTickRearms
    <3> QED
      BY <2>1, <2>2, <3>1 DEF Rearmed, Dropped, Fire
  <2>3. CASE LoopThrows(t, k)
    <3>1. Throws(Subs[t][k + 1]) /\ k + 1 \in 1..Len(Subs[t]) /\ Kind[t] = "some"
      BY <2>1, <2>3, SubsType
         DEF TickSome, LoopLength, LoopStops, LoopThrows, Live
    <3>2. Subs[t][k + 1] \in Range(Subs[t])
      <4>1. Subs[t] \in Seq(Task)
        BY ProgramAssumption
      <4> QED
        BY <3>1, <4>1 DEF Range
    <3> QED
      BY <3>1, <3>2 DEF PollsStillborn, Throws
  <2> QED
    BY <2>2, <2>3
<1>4. CASE DoWrapper(t)
  <2>1. Throws(t)
    BY <1>4 DEF DoWrapper, AfterTick, Dropped, Fire
  <2>2. Core[t] \in doomed /\ gen' = EndedBy({Core[t]} \cap doomed)
    BY <1>4, <2>1 DEF DoWrapper, TickWrapper, Throws
  <2>3. gen'[Core[t]] = Len(Yields[Core[t]]) + 1
    BY <1>1, <2>2 DEF EndedBy
  <2> QED
    BY <1>2, <2>2, <2>3
<1>5. CASE TickDoomed(t)
  <2>1. t \in doomed /\ gen'[t] = Len(Yields[t]) + 1
    BY <1>5 DEF TickDoomed, EndedBy
  <2> QED
    BY <1>1, <1>2, <2>1
<1>6. CASE WaitThrows(t)
  <2>1. /\ Core[waiting[t]] \in Stillborn /\ waiting[t] # NoTask
        /\ Live(t, "generator")
    BY <1>6 DEF WaitThrows, Throws
  <2>2. t \in Generators /\ ~Ended(t)
    BY <2>1, LiveIsIncomplete DEF Kinds, Generators, OwnSuccess, Live
  <2>3. waiting[t] = Yields[t][gen[t]]
    BY <2>1, <2>2 DEF BodyInStep
  <2>4. gen[t] \in 1..Len(Yields[t])
    BY <2>2, YieldsType DEF Ended, TypeOK, TaskTypeOK
  <2>5. waiting[t] \in Range(Yields[t])
    <3>1. Yields[t] \in Seq(Task)
      BY ProgramAssumption
    <3> QED
      BY <2>3, <2>4, <3>1 DEF Range
  <2> QED
    BY <2>1, <2>2, <2>5 DEF PollsStillborn
<1>7. CASE DoResume(t)
  BY <1>7 DEF DoResume, Dropped, Fire
<1>8. CASE \/ DoComplete(t) \/ DoCallable(t) \/ DoRecurring(t)
           \/ DoPromise(t) \/ DoBeginWait(t) \/ DoWaitOn(t)
  BY <1>8 DEF DoComplete, DoCallable, DoRecurring, DoPromise, DoBeginWait,
     DoWaitOn, AfterTick, Dropped, Fire
<1> QED
  BY <1>3, <1>4, <1>5, <1>6, <1>7, <1>8 DEF Fire, DoThrowing

\* Who begins to wait for a task schedules it in the same tick.
LEMMA NewlyPolled ==
  ASSUME TypeOK, NEW v \in Task, Fire(v), NEW t \in Task, NEW u \in Task,
         u \in Awaits(t)', u \notin Awaits(t)
  PROVE  IsComplete(u) \/ timers'[u] > 0
<1> DEFINE Goal == IsComplete(u) \/ timers'[u] > 0
<1>0. timers[v] > 0 /\ TaskTypeOK
  BY DEF Fire, TypeOK
<1>1. ASSUME waiting'[t] = waiting[t], t \in scheduled' => t \in scheduled
      PROVE  FALSE
  BY <1>1, AwaitsIs, AwaitsIsThen
<1>2. CASE \/ DoComplete(v) \/ DoCallable(v) \/ DoRecurring(v)
           \/ DoPromise(v) \/ DoWaitOn(v) \/ DoThrowing(v)
  BY <1>1, <1>2 DEF DoComplete, DoCallable, DoRecurring, DoPromise, DoWaitOn,
     DoThrowing, TickComplete, TickCallable, TickRecurring, TickPromise, WaitOn,
     TickDoomed, WaitThrows, taskVars
<1>3. CASE DoBeginWait(v)
  <2> DEFINE w == Yields[v][gen[v]]
  <2>1. BeginWait(v) /\ AfterTick(v, {w}, FALSE)
    BY <1>3 DEF DoBeginWait
  <2>2. t = v
    BY <1>0, <1>1, <2>1 DEF BeginWait, TaskTypeOK
  <2>3. waiting'[t] = w /\ scheduled' = scheduled /\ Kind[t] = "generator"
    BY <1>0, <2>1, <2>2 DEF BeginWait, TaskTypeOK, Live
  <2>4. u = w
    BY <2>3, AwaitsIs, AwaitsIsThen
  <2> HIDE DEF w
  <2> QED
    BY <1>0, <2>1, <2>4, CalledHasTimer
<1>4. CASE DoResume(v)
  <2>1. PICK d \in Deeds[v], how \in {"yield", "return", "throw"} :
          LET w == IF how = "yield" THEN {Yields[v][gen[v] + 1]} ELSE {}
          IN  /\ Resume(v, d, how)
              /\ timers' = [x \in Task |->
                    Armed(w, {v})[x] + Cardinality(Asks(d) \cap {x})
                    + (IF x = v /\ ~IsComplete(v)' THEN 1 ELSE 0)]
    BY <1>4 DEF DoResume
  <2>2. t = v
    BY <1>0, <1>1, <2>1 DEF Resume, GoOn, TaskTypeOK
  <2>3. /\ waiting'[t] = IF how = "yield" THEN Yields[t][gen[t] + 1] ELSE NoTask
        /\ scheduled' = scheduled
    BY <1>0, <2>1, <2>2 DEF Resume, GoOn, TaskTypeOK
  <2>4. how = "yield" /\ u = Yields[v][gen[v] + 1]
    BY <2>2, <2>3, AwaitsIs, AwaitsIsThen
  <2> DEFINE a == Armed({u}, {v})[u]
             c == Cardinality(Asks(d) \cap {u})
             b == IF u = v /\ ~IsComplete(v)' THEN 1 ELSE 0
  <2>5. timers' = [x \in Task |->
                    Armed({u}, {v})[x] + Cardinality(Asks(d) \cap {x})
                    + (IF x = v /\ ~IsComplete(v)' THEN 1 ELSE 0)]
    BY <2>1, <2>4
  <2>6. timers'[u] = a + c + b
    BY <2>5
  <2>7. a \in Nat /\ a > 0
    BY <1>0 DEF Armed, TypeOK
  <2>8. c \in Nat
    BY FS_Singleton, FS_Subset, FS_CardinalityType
  <2>9. b \in Nat
    OBVIOUS
  <2> HIDE DEF a, b, c
  <2> QED
    BY <2>6, <2>7, <2>8, <2>9
<1>5. CASE DoSome(v)
  <2>1. PICK k \in 0..Len(Subs[v]) :
          /\ TickSome(v, k)
          /\ IF LoopThrows(v, k) THEN Escape(v, {})
             ELSE AfterTick(v, SomeCalls(v, k), FALSE)
    BY <1>5 DEF DoSome
  <2>2. /\ waiting' = waiting /\ Kind[v] = "some"
        /\ scheduled' = IF k = Len(Subs[v]) THEN scheduled \cup {v} ELSE scheduled
    BY <2>1 DEF TickSome, Live
  <2>3. t = v /\ k = Len(Subs[v]) /\ t \notin scheduled
    BY <1>1, <2>2
  <2>4. u \in Range(Subs[v])
    BY <2>2, <2>3, AwaitsIs, AwaitsIsThen DEF Generators, Wrapper
  <2>5. ~LoopThrows(v, k)
    BY <2>3, SubsType DEF LoopThrows
  <2>6. IsComplete(u) \/ u \in SomeCalls(v, k)
    BY <2>3, <2>4 DEF SomeCalls
  <2>7. AfterTick(v, SomeCalls(v, k), FALSE)
    BY <2>1, <2>5
  <2> QED
    BY <1>0, <2>6, <2>7, CalledHasTimer
<1>6. CASE DoWrapper(v)
  <2>1. /\ waiting' = waiting /\ v \in Wrapper
        /\ scheduled' = scheduled \cup {v}
    BY <1>6 DEF DoWrapper, TickWrapper
  <2>2. t = v /\ t \notin scheduled
    BY <1>1, <2>1
  <2>3. u = Wrapped[v]
    BY <2>1, <2>2, AwaitsIs, AwaitsIsThen DEF Generators, Wrapper
  <2>4. u \in WrapperCalls(v)
    BY <2>2, <2>3 DEF WrapperCalls
  <2>5. \/ Escape(v, WrapperCalls(v))
        \/ AfterTick(v, WrapperCalls(v), FALSE)
    BY <1>6 DEF DoWrapper
  <2> QED
    BY <1>0, <2>4, <2>5, CalledHasTimer
<1> QED
  BY <1>2, <1>3, <1>4, <1>5, <1>6 DEF Fire

LEMMA PolledKeepsTimer ==
  ASSUME TypeOK, BodyInStep, doomed \subseteq Stillborn, PolledHasTimer, [Next]_vars
  PROVE  PolledHasTimer'
<1> SUFFICES ASSUME NEW t \in Task, ~IsComplete(t)', NEW u \in Awaits(t)'
             PROVE  \/ IsComplete(u)' \/ timers'[u] > 0 \/ PollsStillborn(u)
  <2>1. \A u : PollsStillborn(u)' = PollsStillborn(u)
    BY DEF PollsStillborn
  <2>2. TaskTypeOK'
    BY NextTypes DEF TypeOK
  <2>3. \A t \in Task : \A u \in Awaits(t)' : u \in Task
    BY <2>2, AwaitsTypeThen
  <2> QED
    BY <2>1, <2>3 DEF PolledHasTimer, Pending
<1>1. TaskTypeOK /\ TaskStep /\ TaskTypeOK'
  BY NextIsTaskStep, NextTypes DEF TypeOK
<1>2. u \in Task
  BY <1>1, AwaitsTypeThen
<1>3. ~IsComplete(t) /\ (IsComplete(u) => IsComplete(u)')
  BY <1>1, <1>2, StatusStays
<1>4. CASE u \in Awaits(t)
  <2>1. IsComplete(u) \/ timers[u] > 0 \/ PollsStillborn(u)
    BY <1>3, <1>4 DEF PolledHasTimer, Pending
  <2>2. ASSUME NEW v \in Task, Fire(v), timers[u] > 0
        PROVE  IsComplete(u)' \/ timers'[u] > 0 \/ PollsStillborn(u)
    BY <1>2, <2>2, TimerKept
  <2>3. ASSUME Client, timers[u] > 0
        PROVE  timers'[u] > 0
    BY <1>2, <2>3 DEF Client, Armed, TypeOK
  <2>4. Run \/ Return \/ UNCHANGED vars => timers' = timers
    BY DEF Run, Return, vars
  <2> QED
    BY <1>3, <2>1, <2>2, <2>3, <2>4 DEF Next
<1>5. CASE u \notin Awaits(t)
  <2>1. ASSUME NEW v \in Task, Fire(v)
        PROVE  IsComplete(u) \/ timers'[u] > 0
    BY <1>2, <1>5, <2>1, NewlyPolled
  <2>2. Client \/ Run \/ Return \/ UNCHANGED vars
          => waiting' = waiting /\ scheduled' = scheduled
    BY DEF Client, Outside, Run, Return, vars, taskVars
  <2>3. ASSUME waiting' = waiting, scheduled' = scheduled
        PROVE  FALSE
    BY <1>5, <2>3, AwaitsIs, AwaitsIsThen
  <2> QED
    BY <1>3, <2>1, <2>2, <2>3 DEF Next
<1> QED
  BY <1>4, <1>5

-----------------------------------------------------------------------------
(* The theorems.                                                            *)

\* A generator function contains a yield, whether its body reaches it or not.
HaveYields == \A g \in Stillborn : Yields[g] # <<>>

\* The statuses and the timers are as the contract wants them after a tick.
LEMMA ProgressMade ==
  ASSUME TypeOK, [Next]_vars, NEW kept \in SUBSET Task,
         \A u \in kept : timers'[u] > 0, running' \in {running, FALSE}
  PROVE  Contract!Progress(kept)
<1>1. \A u \in Task : IsComplete(u) => IsComplete(u)'
  BY NextIsTaskStep, StatusStays DEF TypeOK
<1>2. ~running => ~running'
  BY DEF TypeOK
<1> QED
  BY <1>1, <1>2 DEF Contract!Progress, Pending

\* Every tick is a tick of the contract, or a throw of it.
LEMMA FireKeepsContract ==
  ASSUME HaveYields, TypeOK, DoomedIdle, Unstarted, doomed \subseteq Stillborn,
         NEW t \in Task, Fire(t)
  PROVE  Contract!Tick(t) \/ Contract!Throw(t)
<1>1. inRun /\ t \in Pending /\ Next
  BY DEF Fire, Pending, Next
<1>2. ASSUME OthersKept(t), running' \in {running, FALSE}
      PROVE  Contract!Progress(Pending \ {t})
  <2>1. Pending \ {t} \in SUBSET Task
    BY DEF Pending
  <2>2. \A u \in Pending \ {t} : timers'[u] > 0
    BY <1>2 DEF OthersKept, Pending
  <2> QED
    BY <1>1, <1>2, <2>1, <2>2, ProgressMade
<1>3. CASE Rearmed(t)
  <2>1. t \in {u \in Task : IsComplete(u)}' \cup Pending'
    BY <1>3 DEF Rearmed, Pending
  <2> QED
    BY <1>1, <1>2, <1>3, <2>1 DEF Rearmed, Contract!Tick
<1>4. CASE Dropped(t) /\ StartsDoomed
  <2>1. PICK c \in doomed : gen'[c] = Len(Yields[c]) + 1
    BY <1>4 DEF StartsDoomed
  <2>2. c \in Task /\ Kind[c] = "generator" /\ Core[c] = c
    BY CoreOfPlain DEF TypeOK, TaskTypeOK, Generators
  <2>3. Len(Yields[c]) \in Nat /\ Len(Yields[c]) > 0
    <3>1. Yields[c] \in Seq(Task) /\ Yields[c] # <<>>
      BY <2>2, ProgramAssumption DEF HaveYields
    <3> QED
      BY <3>1
  <2>4. ~IsComplete(c)
    BY <2>2, <2>3 DEF IsComplete, IsSuccessful, IsFaulted, IsCancelled,
       OwnSuccess, OwnFault, Ended, Unstarted, DoomedIdle
  <2>5. IsComplete(c)'
    BY <2>1, <2>2, <2>3 DEF IsComplete, IsSuccessful, OwnSuccess, Ended
  <2>6. {u \in Task : IsComplete(u)}' # {u \in Task : IsComplete(u)}
    BY <2>2, <2>4, <2>5
  <2> QED
    BY <1>1, <1>2, <1>4, <2>6 DEF Dropped, Contract!Throw
<1> QED
  BY <1>3, <1>4, FireRearmsOrDrops

LEMMA StepKeepsContract ==
  ASSUME HaveYields, TypeOK, DoomedIdle, Unstarted, doomed \subseteq Stillborn,
         [Next]_vars
  PROVE  [Contract!Next]_Contract!vars
<1>1. ASSUME NEW t \in Task, Fire(t)
      PROVE  Contract!Next
  BY <1>1, FireKeepsContract DEF Contract!Next
<1>2. CASE Client
  <2>1. PICK d \in ClientDeeds : /\ timers' = Armed(Asks(d), {})
                                 /\ running' = (running /\ d.op # "stop")
                                 /\ inRun' = inRun
    BY <1>2 DEF Client
  <2>2. \A u \in Pending : timers'[u] > 0
    BY <2>1 DEF Armed, Pending, TypeOK
  <2>3. running' \in {running, FALSE}
    BY <2>1 DEF TypeOK
  <2>4. Contract!Progress(Pending)
    <3>1. Pending \in SUBSET Task
      BY DEF Pending
    <3> QED
      BY <2>2, <2>3, <3>1, ProgressMade
  <2> QED
    BY <2>1, <2>4 DEF Contract!Next, Contract!Events
<1> DEFINE Statuses == <<successful, exception, cancelled, ticks, gen, doomed,
                         results, exceptions>>
<1>3. ASSUME UNCHANGED taskVars
      PROVE  {u \in Task : IsComplete(u)}' = {u \in Task : IsComplete(u)}
  BY <1>3 DEF taskVars, IsComplete, IsSuccessful, IsFaulted, IsCancelled,
     OwnSuccess, OwnFault, Ended
<1>4. CASE Run
  BY <1>3, <1>4 DEF Run, Pending, Contract!Next, Contract!Begin
<1>5. CASE Return
  BY <1>3, <1>5 DEF Return, Pending, Contract!Next, Contract!Return
<1>6. CASE UNCHANGED vars
  BY <1>3, <1>6 DEF vars, Pending, Contract!vars
<1> QED
  BY <1>1, <1>2, <1>4, <1>5, <1>6 DEF Next

\* Every reachable state is well-typed: no chain of timers is spent twice, though
\* a task may have any number of them, each of which outlives or precedes the
\* task's completion.
THEOREM TypeCorrect == Spec => []TypeOK
<1>1. Init => TypeOK
  BY InitTypes
<1>2. TypeOK /\ [Next]_vars => TypeOK'
  BY NextTypes
<1> QED
  BY <1>1, <1>2, PTL DEF Spec

\* The arrays of every SomeTask tell the truth about its children for ever, in
\* whatever order timers fire.
THEOREM TrueBooks == Spec => []BooksAreTrue
<1>1. Init => BooksAreTrue
  BY DEF Init, TaskInit, BooksAreTrue
<1>2. TypeOK /\ BooksAreTrue /\ [Next]_vars => BooksAreTrue'
  BY NextIsTaskStep, BooksStayTrue DEF TypeOK
<1> QED
  BY <1>1, <1>2, TypeCorrect, PTL DEF Spec

\* No SomeTask is both successful and faulted.
THEOREM SingleVerdict == Spec => []OneVerdict
<1>1. TypeOK /\ BooksAreTrue => OneVerdict
  BY TrueBooksOneVerdict DEF TypeOK
<1> QED
  BY <1>1, TypeCorrect, TrueBooks, PTL

\* A SomeTask never holds more than $howMany results, in whatever order timers
\* fire.
THEOREM ShortBooks == Spec => []NoMoreThanHowMany
<1>1. Init => NoMoreThanHowMany
  BY DEF Init, TaskInit, NoMoreThanHowMany
<1>2. TypeOK /\ NoMoreThanHowMany /\ [Next]_vars => NoMoreThanHowMany'
  BY NextIsTaskStep, BooksStayShort DEF TypeOK
<1> QED
  BY <1>1, <1>2, TypeCorrect, PTL DEF Spec

\* A suspended body and its GeneratorTask keep in step, however many timers tick
\* it at once (GeneratorTask::doTick).
THEOREM InStep == Spec => []BodyInStep
<1>1. Init => BodyInStep
  BY DEF Init, TaskInit, BodyInStep, Generators
<1>2. TypeOK /\ BodyInStep /\ [Next]_vars => BodyInStep'
  BY NextIsTaskStep, BodyStaysInStep DEF TypeOK
<1> QED
  BY <1>1, <1>2, TypeCorrect, PTL DEF Spec

\* A complete task stays complete and does nothing more, though chains of timers
\* may go on ticking it.
THEOREM FinalCompletion == Spec => CompletionIsFinal
<1>1. Init => DoomedIdle
  BY DEF Init, TaskInit, DoomedIdle
<1>2. TypeOK /\ DoomedIdle /\ [Next]_vars => DoomedIdle'
  BY NextIsTaskStep, DoomedStaysIdle DEF TypeOK
<1>3. TypeOK /\ DoomedIdle /\ [Next]_vars => [CompletionStep]_taskVars
  BY NextIsTaskStep, CompletionStays DEF TypeOK
<1> QED
  BY <1>1, <1>2, <1>3, TypeCorrect, PTL DEF Spec, CompletionIsFinal

\* The scheduler implements the contract: for every program, however often
\* whatever task is scheduled by whomever and in whatever order timers fire, a
\* task loses its last timer only by its own tick and only when it is complete or
\* when that tick throws, and run() returns stopped or out of timers.
THEOREM ContractKept ==
  ASSUME HaveYields
  PROVE  Spec => KeepsContract
<1> DEFINE Before == /\ TypeOK /\ DoomedIdle /\ Unstarted
                     /\ doomed \subseteq Stillborn
<1>1. Init => Before
  <2> SUFFICES ASSUME Init
               PROVE  Before
    OBVIOUS
  <2>1. TypeOK
    BY InitTypes
  <2>2. doomed = Stillborn /\ cancelled = {} /\ exception = {}
        /\ gen = [t \in Task |-> 1] /\ Stillborn \subseteq Task
    BY ProgramAssumption DEF Init, TaskInit, Generators
  <2> QED
    BY <2>1, <2>2 DEF DoomedIdle, Unstarted
<1>2. Before /\ [Next]_vars => Before'
  <2> SUFFICES ASSUME Before, [Next]_vars
               PROVE  Before'
    OBVIOUS
  <2>1. TaskTypeOK /\ TaskStep
    BY NextIsTaskStep DEF TypeOK
  <2> QED
    BY <2>1, NextTypes, DoomedStaysIdle, UnstartedStays, FlagsGrow
<1>3. Init => Contract!Init
  BY TaskInitTypes DEF Init, Contract!Init, Pending, TypeOK
<1>4. Before /\ [Next]_vars => [Contract!Next]_Contract!vars
  BY StepKeepsContract
<1> QED
  BY <1>1, <1>2, <1>3, <1>4, PTL DEF Spec, KeepsContract, Contract!Spec

\* Whoever polls a task, directly or through a wrapper, polls one that has a timer
\* or is complete, whatever deeds cancel, settle or schedule meanwhile: only an
\* exception thrown through the polled task's own tick takes its last timer.
THEOREM NoPollingInVain == Spec => []PolledHasTimer
<1> DEFINE Younger == doomed \subseteq Stillborn
<1>1. Init => Younger /\ PolledHasTimer
  <2>1. ASSUME Init, NEW t \in Task, NEW u \in Awaits(t)
        PROVE  FALSE
    BY <2>1, AwaitsIs DEF Init, TaskInit
  <2> QED
    BY <2>1 DEF Init, TaskInit, PolledHasTimer
<1>2. TypeOK /\ Younger /\ [Next]_vars => Younger'
  BY NextIsTaskStep, FlagsGrow DEF TypeOK
<1>3. TypeOK /\ BodyInStep /\ Younger /\ PolledHasTimer /\ [Next]_vars
        => PolledHasTimer'
  BY PolledKeepsTimer
<1> QED
  BY <1>1, <1>2, <1>3, TypeCorrect, InStep, PTL DEF Spec
=============================================================================
