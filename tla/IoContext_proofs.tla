-------------------------- MODULE IoContext_proofs --------------------------
(***************************************************************************)
(* Proofs about IoContext, for any finite set of workers and any clients,   *)
(* stoppers and operations.                                                *)
(***************************************************************************)
EXTENDS IoContext, FiniteSetTheorems, TLAPS

(***************************************************************************)
(* Operations stay in the containers.                                      *)
(***************************************************************************)
\* What a receiver starts are operations, and they go to typed places.
LEMMA StartKidsPlaces ==
  ASSUME PlacesOK, NEW t, NEW kids \in SUBSET Ops, StartKids(t, kids)
  PROVE  /\ idle' \subseteq Ops /\ cpuQ' \subseteq Ops /\ ioQ' \subseteq Ops
         /\ localCpu' \in [Workers -> SUBSET Ops]
         /\ localIo' \in [Workers -> SUBSET Ops]
         /\ Placed(t, kids).inline \subseteq Ops
  BY DEF PlacesOK, StartKids, Placed, Ops

\* Every hand-over between the containers moves operations only: the queues, the
\* ring, the timers and the drains hold nothing else.
LEMMA PlacesStep == ASSUME PlacesOK, [Next]_vars PROVE PlacesOK'
<1>1. ASSUME NEW w \in Workers, WorkerStep(w) PROVE PlacesOK'
  <2>1. CASE CanStartRun(w) \/ RunNativeLoop(w) \/ EnterRun(w) \/ ArmWakePolls(w)
    BY <2>1 DEF CanStartRun, RunNativeLoop, EnterRun, ArmWakePolls, PlacesOK,
       sharedQ, timerQ, ownQ, ledger, stopVars
  <2>2. CASE CollectReadyCqes(w)
    BY <2>2 DEF CollectReadyCqes, PlacesOK, timerQ, ledger, stopVars
  <2>3. CASE RunCpuBatch(w)
    BY <2>3 DEF RunCpuBatch, PlacesOK, timerQ, ledger, stopVars
  <2>4. ASSUME NEW op \in Ops, ExecuteTask(w, op) PROVE PlacesOK'
    <3>1. PICK kids \in SUBSET (Chain[op] \cap idle) :
            /\ StartKids(w, kids)
            /\ batch' = [batch EXCEPT ![w] = (batch[w] \ {op}) \cup Placed(w, kids).inline]
      BY <2>4, Zenon DEF ExecuteTask
    <3>2. kids \in SUBSET Ops
      BY <3>1 DEF PlacesOK
    <3>3. batch' \in [Workers -> SUBSET Ops]
      BY <3>1, <3>2, StartKidsPlaces DEF PlacesOK
    <3> QED
      BY <2>4, <3>1, <3>2, <3>3, StartKidsPlaces DEF ExecuteTask, PlacesOK, timerQ
  <2>5. CASE ConsumeTimeouts(w)
    BY <2>5 DEF ConsumeTimeouts, PlacesOK, timerQ, sharedQ, ledger, stopVars
  <2>6. CASE ConsumeIo(w)
    BY <2>6 DEF ConsumeIo, PlacesOK, timerQ, ledger, stopVars
  <2>7. CASE \/ HandleFin(w) \/ PrepareFound(w) \/ BeginWaitLink(w)
             \/ BeginWaitDec(w) \/ RearmWakePolls(w) \/ WaitReturns(w)
    BY <2>7 DEF HandleFin, PrepareFound, BeginWaitLink, BeginWaitDec,
       RearmWakePolls, WaitReturns, LeaveKernel, PlacesOK, sharedQ, timerQ, ownQ,
       ledger, stopVars
  <2>8. CASE \/ EndWaitUnlink(w) \/ EndWaitInc(w) \/ DecideAfterWait(w)
             \/ LeaveRun(w) \/ ReleaseSlot(w)
    BY <2>8 DEF EndWaitUnlink, EndWaitInc, DecideAfterWait, LeaveRun, ReleaseSlot,
       PlacesOK, sharedQ, timerQ, ownQ, ledger, stopVars
  <2>9. CASE AbortInflight(w)
    BY <2>9 DEF AbortInflight, Abandoned, PlacesOK, timerQ, ledger, stopVars
  <2> QED
    BY <1>1, <2>1, <2>2, <2>3, <2>4, <2>5, <2>6, <2>7, <2>8, <2>9 DEF WorkerStep
<1>2. ASSUME NEW w \in Workers, WorkerEnv(w) PROVE PlacesOK'
  <2>1. CASE RunCall(w) \/ WaitTimesOut(w) \/ WaitInterrupted(w) \/ WaitFails(w)
    BY <2>1 DEF RunCall, WaitTimesOut, WaitInterrupted, WaitFails, LeaveKernel,
       PlacesOK, sharedQ, timerQ, ownQ, ledger, stopVars
  <2>2. CASE KernelCompletes(w)
    BY <2>2 DEF KernelCompletes, PlacesOK, sharedQ, timerQ, ledger, stopVars
  <2> QED
    BY <1>2, <2>1, <2>2 DEF WorkerEnv
<1>3. ASSUME NEW c \in Clients, ClientCall(c) PROVE PlacesOK'
  <2>1. ASSUME NEW op \in Ops, Publish(c, op) PROVE PlacesOK'
    BY <2>1 DEF Publish, PlacesOK, sharedQ, timerQ, workerUnchanged, stopVars
  <2>2. ASSUME NEW op \in Ops, StartTimerWait(c, op) PROVE PlacesOK'
    BY <2>2 DEF StartTimerWait, PlacesOK, sharedQ, timerQ, workerUnchanged, stopVars
  <2> QED
    BY <1>3, <2>1, <2>2 DEF ClientCall
<1>4. ASSUME NEW c \in Clients, ClientStep(c) PROVE PlacesOK'
  BY <1>4 DEF ClientStep, WakeIfAllSleeping, LoadAwake, LoadRunning,
     WakeOneSleeping, PlacesOK, sharedQ, timerQ, ledger, workerUnchanged, stopVars
<1>5. ASSUME NEW t \in Workers \cup Stoppers, StopCall(t) \/ StopStep(t)
      PROVE  PlacesOK'
  <2>1. CASE \/ StopCall(t) \/ ElectStopper(t) \/ JoinStopped(t) \/ PublishLife(t)
             \/ WakeWorkers(t) \/ WorkersGone(t)
    BY <2>1 DEF StopCall, ElectStopper, JoinStopped, PublishLife, WakeWorkers,
       WorkersGone, PlacesOK, sharedQ, timerQ, ledger, workerUnchanged
  <2>2. CASE AbortTimerWaits(t) \/ DrainTake(t) \/ DrainNext(t)
    BY <2>2 DEF AbortTimerWaits, DrainTake, DrainNext, PlacesOK, sharedQ, timerQ,
       ledger, workerUnchanged
  <2>3. ASSUME NEW op \in Ops, DrainExecute(t, op) PROVE PlacesOK'
    <3>1. PICK kids \in SUBSET (Chain[op] \cap idle) :
            /\ StartKids(t, kids)
            /\ taken' = (taken \ {op}) \cup Placed(t, kids).inline
      BY <2>3 DEF DrainExecute
    <3>2. kids \in SUBSET Ops
      BY <3>1 DEF PlacesOK
    <3> QED
      BY <2>3, <3>1, <3>2, StartKidsPlaces DEF DrainExecute, PlacesOK, timerQ
  <2> QED
    BY <1>5, <2>1, <2>2, <2>3 DEF StopStep
<1>6. CASE UNCHANGED vars
  BY <1>6 DEF PlacesOK, vars, sharedQ, timerQ, ownQ, ledger, stopVars
<1> QED
  BY <1>1, <1>2, <1>3, <1>4, <1>5, <1>6 DEF Next, Terminated

(***************************************************************************)
(* Wake channels and polls, and the callers' own variables.                *)
(***************************************************************************)
\* A write to the shared eventfd leaves every wake poll in a legal state.
LEMMA SignalWakes ==
  ASSUME WakesOK, SignalShared
  PROVE  shChan' \in BOOLEAN /\ shPoll' \in [Workers -> {"none", "armed", "fired"}]
  BY DEF WakesOK, SignalShared, Fire

\* The wake channels and the two wake polls of each worker keep their types.
LEMMA WakesStep == ASSUME WakesOK, [Next]_vars PROVE WakesOK'
<1>1. ASSUME NEW w \in Workers, WorkerStep(w) PROVE WakesOK'
  <2>1. CASE RunNativeLoop(w)
    BY <2>1, SignalWakes DEF RunNativeLoop, WakesOK, wakeVars
  <2>2. CASE ArmWakePolls(w) \/ RearmWakePolls(w)
    BY <2>2 DEF ArmWakePolls, RearmWakePolls, ArmIfIdle, ArmedOn, WakesOK
  <2>3. CASE CollectReadyCqes(w)
    BY <2>3 DEF CollectReadyCqes, Rearmed, Fire, WakesOK
  <2>4. CASE ReleaseSlot(w)
    BY <2>4 DEF ReleaseSlot, WakesOK
  <2>5. CASE \/ CanStartRun(w) \/ EnterRun(w) \/ RunCpuBatch(w)
             \/ (\E op \in Ops : ExecuteTask(w, op)) \/ ConsumeTimeouts(w)
             \/ ConsumeIo(w) \/ HandleFin(w) \/ PrepareFound(w)
    BY <2>5, Zenon DEF CanStartRun, EnterRun, RunCpuBatch, ExecuteTask, ConsumeTimeouts,
       ConsumeIo, HandleFin, PrepareFound, WakesOK, wakeVars
  <2>6. CASE \/ BeginWaitLink(w) \/ BeginWaitDec(w) \/ WaitReturns(w)
             \/ EndWaitUnlink(w) \/ EndWaitInc(w) \/ DecideAfterWait(w)
             \/ AbortInflight(w) \/ LeaveRun(w)
    BY <2>6, Zenon DEF BeginWaitLink, BeginWaitDec, WaitReturns, LeaveKernel,
       EndWaitUnlink, EndWaitInc, DecideAfterWait, AbortInflight, LeaveRun,
       WakesOK, wakeVars
  <2> QED
    BY <1>1, <2>1, <2>2, <2>3, <2>4, <2>5, <2>6 DEF WorkerStep
<1>2. ASSUME NEW w \in Workers, WorkerEnv(w) PROVE WakesOK'
  BY <1>2, Zenon DEF WorkerEnv, RunCall, WaitTimesOut, WaitInterrupted, WaitFails,
     LeaveKernel, KernelCompletes, WakesOK, wakeVars
<1>3. ASSUME NEW c \in Clients, ClientCall(c) PROVE WakesOK'
  BY <1>3 DEF ClientCall, Publish, StartTimerWait, WakesOK, wakeVars
<1>4. ASSUME NEW c \in Clients, ClientStep(c) PROVE WakesOK'
  <2>1. CASE WakeOneSleeping(c)
    BY <2>1, SignalWakes, Zenon DEF WakeOneSleeping, Fire, WakesOK
  <2>2. CASE WakeIfAllSleeping(c) \/ LoadAwake(c) \/ LoadRunning(c)
    BY <2>2 DEF WakeIfAllSleeping, LoadAwake, LoadRunning, WakesOK, wakeVars
  <2> QED
    BY <1>4, <2>1, <2>2 DEF ClientStep
<1>5. ASSUME NEW t \in Workers \cup Stoppers, StopCall(t) \/ StopStep(t)
      PROVE  WakesOK'
  <2>1. CASE WakeWorkers(t)
    BY <2>1, SignalWakes DEF WakeWorkers, WakesOK
  <2>2. CASE ~WakeWorkers(t)
    BY <1>5, <2>2, Zenon DEF StopCall, StopStep, ElectStopper, JoinStopped,
       AbortTimerWaits, PublishLife, WorkersGone, DrainTake, DrainExecute,
       DrainNext, WakesOK, wakeVars
  <2> QED
    BY <2>1, <2>2
<1>6. CASE UNCHANGED vars
  BY <1>6 DEF WakesOK, vars, wakeVars
<1> QED
  BY <1>1, <1>2, <1>3, <1>4, <1>5, <1>6 DEF Next, Terminated

\* The publishers and the threads inside stop() keep to their own control points.
LEMMA CallsStep == ASSUME CallsOK, [Next]_vars PROVE CallsOK'
<1>1. ASSUME NEW w \in Workers, WorkerStep(w) PROVE CallsOK'
  <2>1. ASSUME NEW op \in Ops, ExecuteTask(w, op) PROVE CallsOK'
    BY <2>1 DEF ExecuteTask, CallsOK, lifeVars, clientVars
  <2>2. CASE \/ CanStartRun(w) \/ RunNativeLoop(w) \/ EnterRun(w) \/ ArmWakePolls(w)
             \/ CollectReadyCqes(w) \/ RunCpuBatch(w) \/ ConsumeTimeouts(w)
             \/ ConsumeIo(w) \/ HandleFin(w) \/ PrepareFound(w)
    BY <2>2, Zenon DEF CanStartRun, RunNativeLoop, EnterRun, ArmWakePolls,
       CollectReadyCqes, RunCpuBatch, ConsumeTimeouts, ConsumeIo, HandleFin,
       PrepareFound, CallsOK, lifeVars, clientVars, stopVars
  <2>3. CASE \/ BeginWaitLink(w) \/ BeginWaitDec(w) \/ RearmWakePolls(w)
             \/ WaitReturns(w) \/ EndWaitUnlink(w) \/ EndWaitInc(w)
             \/ DecideAfterWait(w) \/ AbortInflight(w) \/ LeaveRun(w)
             \/ ReleaseSlot(w)
    BY <2>3, Zenon DEF BeginWaitLink, BeginWaitDec, RearmWakePolls, WaitReturns,
       LeaveKernel, EndWaitUnlink, EndWaitInc, DecideAfterWait, AbortInflight,
       LeaveRun, ReleaseSlot, CallsOK, lifeVars, clientVars, stopVars
  <2> QED
    BY <1>1, <2>1, <2>2, <2>3 DEF WorkerStep
<1>2. ASSUME NEW w \in Workers, WorkerEnv(w) PROVE CallsOK'
  BY <1>2, Zenon DEF WorkerEnv, RunCall, WaitTimesOut, WaitInterrupted, WaitFails,
     LeaveKernel, KernelCompletes, CallsOK, lifeVars, clientVars, stopVars
<1>3. ASSUME NEW c \in Clients, ClientCall(c) PROVE CallsOK'
  BY <1>3 DEF ClientCall, Publish, StartTimerWait, CallsOK, lifeVars, stopVars
<1>4. ASSUME NEW c \in Clients, ClientStep(c) PROVE CallsOK'
  BY <1>4 DEF ClientStep, WakeIfAllSleeping, LoadAwake, LoadRunning,
     WakeOneSleeping, CallsOK, lifeVars, stopVars
<1>5. ASSUME NEW t \in Workers \cup Stoppers, StopCall(t) \/ StopStep(t)
      PROVE  CallsOK'
  <2>1. CASE \/ StopCall(t) \/ ElectStopper(t) \/ JoinStopped(t)
             \/ AbortTimerWaits(t) \/ PublishLife(t) \/ WakeWorkers(t)
    BY <2>1, Zenon DEF StopCall, ElectStopper, JoinStopped, AbortTimerWaits, PublishLife,
       WakeWorkers, GotoStop, StopReturn, CallsOK, lifeVars, clientVars
  <2>2. CASE \/ WorkersGone(t) \/ DrainTake(t)
             \/ (\E op \in Ops : DrainExecute(t, op)) \/ DrainNext(t)
    BY <2>2, Zenon DEF WorkersGone, DrainTake, DrainExecute, DrainNext, GotoStop,
       StopReturn, CallsOK, lifeVars, clientVars
  <2> QED
    BY <1>5, <2>1, <2>2 DEF StopStep
<1>6. CASE UNCHANGED vars
  BY <1>6 DEF CallsOK, vars, lifeVars, clientVars, stopVars
<1> QED
  BY <1>1, <1>2, <1>3, <1>4, <1>5, <1>6 DEF Next, Terminated

(***************************************************************************)
(* The loop's position, and the counters that follow it.                   *)
(***************************************************************************)
\* The position <<p, s>> is counted like the one w is at.
Same(w, p, s) ==
  /\ StepOf(p, s)
  /\ p \in AwakePhases <=> ph[w] \in AwakePhases
  /\ Linked(p, s) <=> Linked(ph[w], st[w])
  /\ p \in {"idle", "returned"} <=> ph[w] \in {"idle", "returned"}

\* w moves, if at all, to a position counted like the one it is at.
Moves(w) ==
  \/ UNCHANGED <<ph, st>>
  \/ \E p \in Phases, s \in Steps : Goto(w, p, s) /\ Same(w, p, s)

\* Every worker but w stays where it is.
Alone(w) == \A v \in Workers \ {w} : ph'[v] = ph[v] /\ st'[v] = st[v]

\* What the moves of one worker do to the workers counted awake,
LEMMA AwakeFollows ==
  ASSUME NEW w \in Workers, Alone(w)
  PROVE  /\ (ph'[w] \in AwakePhases <=> ph[w] \in AwakePhases)
              => AwakeSet' = AwakeSet
         /\ ph'[w] \in AwakePhases /\ ph[w] \notin AwakePhases
              => AwakeSet' = AwakeSet \cup {w} /\ w \notin AwakeSet
         /\ ph'[w] \notin AwakePhases /\ ph[w] \in AwakePhases
              => AwakeSet' = AwakeSet \ {w} /\ w \in AwakeSet
  BY DEF AwakeSet, Alone

\* to the workers in the suspend list,
LEMMA LinkedFollows ==
  ASSUME NEW w \in Workers, Alone(w)
  PROVE  /\ (Linked(ph'[w], st'[w]) <=> Linked(ph[w], st[w]))
              => LinkedSet' = LinkedSet
         /\ Linked(ph'[w], st'[w]) => LinkedSet' = LinkedSet \cup {w}
         /\ ~Linked(ph'[w], st'[w]) => LinkedSet' = LinkedSet \ {w}
  BY DEF LinkedSet, Alone

\* and to the workers inside run().
LEMMA RunningFollows ==
  ASSUME NEW w \in Workers, Alone(w)
  PROVE  /\ (ph'[w] \in {"idle", "returned"} <=> ph[w] \in {"idle", "returned"})
              => RunningSet' = RunningSet
         /\ ph'[w] \notin {"idle", "returned"} /\ ph[w] \in {"idle", "returned"}
              => RunningSet' = RunningSet \cup {w} /\ w \notin RunningSet
         /\ ph'[w] \in {"idle", "returned"} /\ ph[w] \notin {"idle", "returned"}
              => RunningSet' = RunningSet \ {w} /\ w \in RunningSet
  BY DEF RunningSet, Alone

\* A jump to a position counted alike is such a move.
LEMMA GotoMoves ==
  ASSUME NEW w \in Workers, NEW p \in Phases, NEW s \in Steps, Goto(w, p, s),
         Same(w, p, s)
  PROVE  Moves(w)
  BY DEF Moves

\* The positions the jumps below name.
LEMMA Positions ==
  /\ {"enter", "ready", "rearm", "blocked", "unlink", "release"} \subseteq Phases
  /\ {"close", "failed", "finish", "spin", "begin", "prepare"} \subseteq Phases
  /\ {"none", "open", "run", "abort", "cqe", "cqe1", "exec", "exec1", "exec3", "ready",
      "finish", "link", "decide", "tmr", "found"} \subseteq Steps
  BY DEF Phases, Steps, Closing

\* A jump of one worker to a step of a phase keeps the loop positions well formed
\* and moves nobody else.
LEMMA GotoLoop ==
  ASSUME LoopOK, NEW w \in Workers, NEW p \in Phases, NEW s \in Steps,
         Goto(w, p, s), StepOf(p, s)
  PROVE  /\ ph' \in [Workers -> Phases] /\ st' \in [Workers -> Steps]
         /\ \A v \in Workers : StepOf(ph'[v], st'[v])
         /\ ph'[w] = p /\ st'[w] = s /\ Alone(w)
  BY DEF LoopOK, Goto, Alone

\* A worker that moves between positions counted and linked alike leaves the
\* counters of begin_wait(), end_wait() and run() right.
LEMMA MovesLoop ==
  ASSUME LoopOK, CountersAgree, NEW w \in Workers, Moves(w), UNCHANGED countVars,
         spin' \in [Workers -> Nat], timed' \in [Workers -> BOOLEAN]
  PROVE  LoopOK' /\ CountersAgree'
<1>1. CASE UNCHANGED <<ph, st>>
  BY <1>1 DEF LoopOK, CountersAgree, countVars, AwakeSet, LinkedSet, RunningSet
<1>2. ASSUME NEW p \in Phases, NEW s \in Steps, Goto(w, p, s), Same(w, p, s)
      PROVE  LoopOK' /\ CountersAgree'
  <2>1. LoopOK'
    BY <1>2, GotoLoop DEF LoopOK, Same, countVars
  <2>2. ph'[w] = p /\ st'[w] = s /\ Alone(w)
    BY <1>2, GotoLoop DEF Same
  <2>3. AwakeSet' = AwakeSet
    BY <1>2, <2>2, AwakeFollows DEF Same
  <2>4. LinkedSet' = LinkedSet
    BY <1>2, <2>2, LinkedFollows DEF Same
  <2>5. RunningSet' = RunningSet
    BY <1>2, <2>2, RunningFollows DEF Same
  <2> QED
    BY <2>1, <2>3, <2>4, <2>5 DEF CountersAgree, countVars
<1> QED
  BY <1>1, <1>2 DEF Moves

\* Going on to the next work source is such a move.
LEMMA NextMoves == ASSUME LoopOK, NEW w \in Workers, GotoNext(w) PROVE Moves(w)
<1>1. PICK s \in Steps : Goto(w, ph[w], s) /\ StepOf(ph[w], s) /\ ph[w] # "begin"
  BY DEF LoopOK, GotoNext, Follow, StepOf, Steps, Closing, Phases
<1>2. ph[w] \in Phases
  BY DEF LoopOK
<1> QED
  BY <1>1, <1>2 DEF Moves, Same, Linked

\* So is what a step that found work does.
LEMMA FoundMoves == ASSUME LoopOK, NEW w \in Workers, GotoFound(w) PROVE Moves(w)
<1>1. CASE ph[w] \in {"ready", "spin", "woken"} /\ Goto(w, "ready", "cqe")
  <2>1. Same(w, "ready", "cqe")
    BY <1>1 DEF Same, StepOf, Linked, AwakePhases, Closing
  <2>2. "ready" \in Phases /\ "cqe" \in Steps
    BY DEF Phases, Steps
  <2> QED
    BY <1>1, <2>1, <2>2 DEF Moves
<1>2. CASE ph[w] = "recheck" /\ Goto(w, "unlink", "decide")
  BY <1>2 DEF Moves, Same, StepOf, Linked, AwakePhases, Phases, Steps, Closing
<1>3. CASE ph[w] = "prepare" /\ Goto(w, "prepare", "found")
  BY <1>3 DEF Moves, Same, StepOf, Linked, AwakePhases, Phases, Steps, Closing
<1>4. ASSUME ph[w] \in Closing, NEW from, NEW to \in Steps, Follow(w, from, to),
             to \in {"cqe1", "tmr1", "cpu1", "tmr3", "cpu3", "abort"}
      PROVE  Moves(w)
  BY <1>4 DEF Moves, Same, StepOf, Linked, Phases, Closing, Follow
<1> QED
  BY <1>1, <1>2, <1>3, <1>4 DEF GotoFound, Steps

\* The counters count finite sets of threads.
LEMMA FiniteCounts ==
  /\ IsFiniteSet(AwakeSet) /\ Cardinality(AwakeSet) \in Nat
  /\ IsFiniteSet(RunningSet) /\ Cardinality(RunningSet) \in Nat
<1>1. AwakeSet \in SUBSET Workers /\ RunningSet \in SUBSET Workers
  BY DEF AwakeSet, RunningSet
<1> QED
  BY <1>1, WorkersAssumption, FS_Subset, FS_CardinalityType

\* Entering run(), and leaving it.
LEMMA RunCounts ==
  ASSUME LoopOK, CountersAgree, NEW w \in Workers,
         RunCall(w) \/ EnterRun(w) \/ LeaveRun(w) \/ ReleaseSlot(w)
  PROVE  LoopOK' /\ CountersAgree'
<1>1. CASE RunCall(w)
  <2>1. Goto(w, "enter", "check") /\ StepOf("enter", "check") /\ ph[w] = "idle"
    BY <1>1, Zenon DEF RunCall, At, StepOf, Closing
  <2>2. "enter" \in Phases /\ "check" \in Steps
    BY DEF Phases, Steps
  <2>0. ph'[w] = "enter" /\ st'[w] = "check" /\ Alone(w)
    BY <2>1, <2>2, GotoLoop
  <2>3. LoopOK'
    BY <1>1, <2>1, <2>2, GotoLoop DEF LoopOK, RunCall
  <2>4. AwakeSet' = AwakeSet /\ LinkedSet' = LinkedSet
    BY <2>1, <2>0, AwakeFollows, LinkedFollows DEF AwakePhases, Linked
  <2>5. RunningSet' = RunningSet \cup {w} /\ w \notin RunningSet
    BY <2>1, <2>0, RunningFollows
  <2> QED
    BY <1>1, <2>3, <2>4, <2>5, FiniteCounts, FS_AddElement, Zenon DEF CountersAgree, RunCall
<1>2. CASE EnterRun(w) /\ awake' = awake + 1 /\ Goto(w, "arm", "polls")
  <2>1. StepOf("arm", "polls") /\ ph[w] = "enter"
    BY <1>2 DEF EnterRun, At, StepOf, Closing
  <2>2. "arm" \in Phases /\ "polls" \in Steps
    BY DEF Phases, Steps
  <2>0. ph'[w] = "arm" /\ st'[w] = "polls" /\ Alone(w)
    BY <1>2, <2>1, <2>2, GotoLoop
  <2>3. LoopOK'
    BY <1>2, <2>1, <2>2, GotoLoop DEF LoopOK, EnterRun
  <2>4. RunningSet' = RunningSet /\ LinkedSet' = LinkedSet
    BY <1>2, <2>1, <2>0, LinkedFollows, RunningFollows, Zenon DEF Linked
  <2>5. AwakeSet' = AwakeSet \cup {w} /\ w \notin AwakeSet
    BY <1>2, <2>1, <2>0, AwakeFollows, Zenon DEF AwakePhases
  <2> QED
    BY <1>2, <2>3, <2>4, <2>5, FiniteCounts, FS_AddElement, Zenon DEF CountersAgree, EnterRun
<1>3. CASE EnterRun(w) /\ Goto(w, "noring", "cqe1") /\ UNCHANGED awake
  <2>1. Same(w, "noring", "cqe1")
    BY <1>3, Zenon DEF EnterRun, At, Same, StepOf, Closing, AwakePhases, Linked
  <2>2. "noring" \in Phases /\ "cqe1" \in Steps
    BY DEF Phases, Steps, Closing
  <2>3. UNCHANGED countVars /\ UNCHANGED <<spin, timed>>
    BY <1>3 DEF EnterRun, countVars
  <2> QED
    BY <1>3, <2>1, <2>2, <2>3, MovesLoop, Zenon DEF Moves, LoopOK
<1>4. CASE LeaveRun(w)
  <2>1. Goto(w, "release", "none") /\ StepOf("release", "none") /\ ph[w] \in Closing
    BY <1>4 DEF LeaveRun, StepOf, Closing, LoopOK, Phases
  <2>2. "release" \in Phases /\ "none" \in Steps
    BY DEF Phases, Steps
  <2>0. ph'[w] = "release" /\ st'[w] = "none" /\ Alone(w)
    BY <2>1, <2>2, GotoLoop
  <2>3. LoopOK'
    BY <1>4, <2>1, <2>2, GotoLoop DEF LoopOK, LeaveRun
  <2>4. RunningSet' = RunningSet
    BY <2>1, <2>0, RunningFollows, Zenon DEF Closing
  <2>5. LinkedSet' = LinkedSet /\ w \notin LinkedSet
    BY <2>1, <2>0, LinkedFollows, Zenon DEF Linked, Closing
  <2>6. CASE CountedAwake(w)
    <3>1. AwakeSet' = AwakeSet \ {w} /\ w \in AwakeSet
      BY <2>1, <2>6, <2>0, AwakeFollows, Zenon DEF AwakePhases, CountedAwake
    <3>2. Cardinality(AwakeSet') = Cardinality(AwakeSet) - 1
      BY <3>1, FiniteCounts, FS_RemoveElement, Zenon
    <3>3. awake' = awake - 1 /\ suspend' = suspend \ {w} /\ running' = running
      BY <1>4, <2>6 DEF LeaveRun
    <3> QED
      BY <2>3, <2>4, <2>5, <3>2, <3>3 DEF CountersAgree
  <2>7. CASE ~CountedAwake(w)
    <3>1. AwakeSet' = AwakeSet
      BY <2>1, <2>7, <2>0, AwakeFollows, Zenon DEF AwakePhases, CountedAwake, Closing
    <3> QED
      BY <1>4, <2>3, <2>4, <2>5, <2>7, <3>1 DEF CountersAgree, LeaveRun
  <2> QED
    BY <2>6, <2>7
<1>5. CASE ReleaseSlot(w)
  <2>1. Goto(w, "returned", "none") /\ StepOf("returned", "none") /\ ph[w] = "release"
    BY <1>5 DEF ReleaseSlot, StepOf, Closing
  <2>2. "returned" \in Phases /\ "none" \in Steps
    BY DEF Phases, Steps
  <2>0. ph'[w] = "returned" /\ st'[w] = "none" /\ Alone(w)
    BY <2>1, <2>2, GotoLoop
  <2>3. LoopOK'
    BY <1>5, <2>1, <2>2, GotoLoop DEF LoopOK, ReleaseSlot
  <2>4. AwakeSet' = AwakeSet /\ LinkedSet' = LinkedSet
    BY <2>1, <2>0, AwakeFollows, LinkedFollows DEF AwakePhases, Linked
  <2>5. RunningSet' = RunningSet \ {w} /\ w \in RunningSet
    BY <2>1, <2>0, RunningFollows
  <2> QED
    BY <1>5, <2>3, <2>4, <2>5, FiniteCounts, FS_RemoveElement, Zenon
       DEF CountersAgree, ReleaseSlot
<1> QED
  BY <1>1, <1>2, <1>3, <1>4, <1>5 DEF EnterRun

\* begin_wait() and end_wait() keep the suspend list and the awake count in step
\* with the position of the worker.
LEMMA WaitCounts ==
  ASSUME LoopOK, CountersAgree, NEW w \in Workers,
         BeginWaitLink(w) \/ BeginWaitDec(w) \/ EndWaitUnlink(w) \/ EndWaitInc(w)
  PROVE  LoopOK' /\ CountersAgree'
<1>1. CASE BeginWaitLink(w)
  <2>1. Goto(w, "begin", "dec") /\ StepOf("begin", "dec") /\ At(w, "begin", "link")
    BY <1>1 DEF BeginWaitLink, StepOf, Closing
  <2>2. "begin" \in Phases /\ "dec" \in Steps
    BY DEF Phases, Steps
  <2>0. ph'[w] = "begin" /\ st'[w] = "dec" /\ Alone(w)
    BY <2>1, <2>2, GotoLoop
  <2>3. LoopOK'
    BY <1>1, <2>1, <2>2, GotoLoop DEF LoopOK, BeginWaitLink
  <2>4. AwakeSet' = AwakeSet /\ RunningSet' = RunningSet
    BY <2>1, <2>0, AwakeFollows, RunningFollows, Zenon DEF AwakePhases, At
  <2>5. LinkedSet' = LinkedSet \cup {w}
    BY <2>1, <2>0, LinkedFollows, Zenon DEF Linked, At
  <2> QED
    BY <1>1, <2>3, <2>4, <2>5 DEF CountersAgree, BeginWaitLink
<1>2. CASE BeginWaitDec(w)
  <2>1. Goto(w, "recheck", "cqe") /\ StepOf("recheck", "cqe") /\ At(w, "begin", "dec")
    BY <1>2 DEF BeginWaitDec, StepOf, Closing
  <2>2. "recheck" \in Phases /\ "cqe" \in Steps
    BY DEF Phases, Steps
  <2>0. ph'[w] = "recheck" /\ st'[w] = "cqe" /\ Alone(w)
    BY <2>1, <2>2, GotoLoop
  <2>3. LoopOK'
    BY <1>2, <2>1, <2>2, GotoLoop DEF LoopOK, BeginWaitDec
  <2>4. LinkedSet' = LinkedSet /\ RunningSet' = RunningSet
    BY <2>1, <2>0, LinkedFollows, RunningFollows, Zenon DEF Linked, At
  <2>5. AwakeSet' = AwakeSet \ {w} /\ w \in AwakeSet
    BY <2>1, <2>0, AwakeFollows, Zenon DEF AwakePhases, At
  <2>6. Cardinality(AwakeSet') = Cardinality(AwakeSet) - 1
    BY <2>5, FiniteCounts, FS_RemoveElement, Zenon
  <2> QED
    BY <1>2, <2>3, <2>4, <2>6 DEF CountersAgree, BeginWaitDec
<1>3. CASE EndWaitUnlink(w)
  <2>1. Goto(w, "inc", st[w]) /\ ph[w] = "unlink"
    BY <1>3, Zenon DEF EndWaitUnlink
  <2>2. "inc" \in Phases /\ st[w] \in Steps /\ StepOf("inc", st[w])
    BY <2>1 DEF Phases, LoopOK, StepOf, Closing
  <2>0. ph'[w] = "inc" /\ st'[w] = st[w] /\ Alone(w)
    BY <2>1, <2>2, GotoLoop, Zenon
  <2>3. LoopOK'
    BY <1>3, <2>1, <2>2, GotoLoop DEF LoopOK, EndWaitUnlink
  <2>4. AwakeSet' = AwakeSet /\ RunningSet' = RunningSet
    BY <2>1, <2>0, AwakeFollows, RunningFollows DEF AwakePhases
  <2>5. LinkedSet' = LinkedSet \ {w}
    BY <2>1, <2>0, LinkedFollows, Zenon DEF Linked
  <2> QED
    BY <1>3, <2>3, <2>4, <2>5, Zenon DEF CountersAgree, EndWaitUnlink
<1>4. CASE EndWaitInc(w)
  <2>1. PICK p \in {"ready", "woken", "finish", "decide", "error"},
             s \in {"cqe", "cqe1", "none"} : Goto(w, p, s) /\ StepOf(p, s)
    BY <1>4, Zenon DEF EndWaitInc, StepOf, Closing
  <2>2. p \in Phases /\ s \in Steps /\ ph[w] = "inc"
    BY <1>4 DEF Phases, Steps, Closing, EndWaitInc
  <2>0. ph'[w] = p /\ st'[w] = s /\ Alone(w)
    BY <2>1, <2>2, GotoLoop
  <2>3. LoopOK'
    BY <1>4, <2>1, <2>2, GotoLoop DEF LoopOK, EndWaitInc
  <2>4. LinkedSet' = LinkedSet /\ RunningSet' = RunningSet
    BY <2>1, <2>2, <2>0, LinkedFollows, RunningFollows, Zenon DEF Linked
  <2>5. AwakeSet' = AwakeSet \cup {w} /\ w \notin AwakeSet
    BY <2>1, <2>2, <2>0, AwakeFollows, Zenon DEF AwakePhases
  <2>6. Cardinality(AwakeSet') = Cardinality(AwakeSet) + 1
    BY <2>5, FiniteCounts, FS_AddElement, Zenon
  <2> QED
    BY <1>4, <2>3, <2>4, <2>6 DEF CountersAgree, EndWaitInc
<1> QED
  BY <1>1, <1>2, <1>3, <1>4

\* Where a phase of the loop ends when no source had work.
LEMMA FinGoes ==
  ASSUME NEW w \in Workers, HandleFin(w)
  PROVE  \/ /\ ph[w] \in {"ready", "spin", "woken"} /\ life
            /\ Goto(w, "finish", "cqe1")
         \/ /\ ph[w] \in {"ready", "spin", "woken"} /\ ~life
            /\ Goto(w, "spin", "cqe") \/ Goto(w, "begin", "link")
         \/ ph[w] = "woken" /\ Goto(w, "ready", "cqe")
         \/ ph[w] = "recheck" /\ life /\ Goto(w, "unlink", "decide")
         \/ ph[w] = "recheck" /\ ~life /\ Goto(w, "prepare", "tmr")
         \/ ph[w] = "prepare" /\ life /\ Goto(w, "prepare", "found")
         \/ ph[w] = "prepare" /\ ~life /\ Goto(w, "rearm", "none")
  BY Zenon DEF HandleFin, StartWait

\* Every other step of a worker is a move between positions that are counted and
\* linked alike.
LEMMA LoopMoves ==
  ASSUME LoopOK, CountersAgree, NEW w \in Workers,
         \/ CanStartRun(w) \/ RunNativeLoop(w) \/ ArmWakePolls(w)
         \/ CollectReadyCqes(w) \/ RunCpuBatch(w)
         \/ (\E op \in Ops : ExecuteTask(w, op))
         \/ ConsumeTimeouts(w) \/ ConsumeIo(w) \/ HandleFin(w) \/ PrepareFound(w)
         \/ RearmWakePolls(w) \/ WaitReturns(w) \/ DecideAfterWait(w)
         \/ AbortInflight(w) \/ WaitTimesOut(w) \/ WaitInterrupted(w)
         \/ WaitFails(w)
  PROVE  LoopOK' /\ CountersAgree'
<1> USE DEF LoopOK
<1>1. CASE CanStartRun(w)
  <2>1. \/ Goto(w, "release", "none") /\ Same(w, "release", "none")
        \/ Goto(w, "enter", "open") /\ Same(w, "enter", "open")
    BY <1>1, Zenon DEF CanStartRun, At, Same, StepOf, Linked, AwakePhases, Closing
  <2>2. Moves(w)
    BY <2>1, Positions, GotoMoves
  <2> QED
    BY <1>1, <2>2, MovesLoop DEF CanStartRun
<1>2. CASE RunNativeLoop(w)
  <2>1. \/ Goto(w, "release", "none") /\ Same(w, "release", "none")
        \/ Goto(w, "close", "abort") /\ Same(w, "close", "abort")
        \/ Goto(w, "enter", "run") /\ Same(w, "enter", "run")
    BY <1>2, Zenon DEF RunNativeLoop, At, Same, StepOf, Linked, AwakePhases, Closing
  <2>2. Moves(w)
    BY <2>1, Positions, GotoMoves
  <2> QED
    BY <1>2, <2>2, MovesLoop DEF RunNativeLoop
<1>3. CASE ArmWakePolls(w)
  <2>1. \/ Goto(w, "ready", "cqe") /\ Same(w, "ready", "cqe")
        \/ Goto(w, "failed", "cqe1") /\ Same(w, "failed", "cqe1")
    BY <1>3, Zenon DEF ArmWakePolls, At, Same, StepOf, Linked, AwakePhases, Closing
  <2>2. Moves(w)
    BY <2>1, Positions, GotoMoves
  <2> QED
    BY <1>3, <2>2, MovesLoop, Zenon DEF ArmWakePolls
<1>4. CASE CollectReadyCqes(w)
  <2>1. GotoNext(w) \/ GotoFound(w)
    BY <1>4, Zenon DEF CollectReadyCqes
  <2> QED
    BY <1>4, <2>1, NextMoves, FoundMoves, MovesLoop, Zenon DEF CollectReadyCqes
<1>5. CASE RunCpuBatch(w)
  <2>1. CASE GotoNext(w)
    BY <1>5, <2>1, NextMoves, MovesLoop, Zenon DEF RunCpuBatch
  <2>2. CASE \/ st[w] = "cpu" /\ Goto(w, ph[w], "exec")
             \/ st[w] = "cpu1" /\ Goto(w, ph[w], "exec1")
             \/ st[w] = "cpu3" /\ Goto(w, ph[w], "exec3")
    <3>1. \/ Goto(w, ph[w], "exec") /\ Same(w, ph[w], "exec")
          \/ Goto(w, ph[w], "exec1") /\ Same(w, ph[w], "exec1")
          \/ Goto(w, ph[w], "exec3") /\ Same(w, ph[w], "exec3")
      BY <2>2, Zenon DEF Same, StepOf, Linked, Closing
    <3>2. ph[w] \in Phases
      OBVIOUS
    <3>3. Moves(w)
      BY <3>1, <3>2, Positions, GotoMoves
    <3> QED
      BY <1>5, <3>3, MovesLoop, Zenon DEF RunCpuBatch
  <2> QED
    BY <1>5, <2>1, <2>2, Zenon DEF RunCpuBatch
<1>6. ASSUME NEW op \in Ops, ExecuteTask(w, op)
      PROVE  LoopOK' /\ CountersAgree'
  <2>1. CASE GotoFound(w)
    BY <1>6, <2>1, FoundMoves, MovesLoop, Zenon DEF ExecuteTask
  <2>2. CASE UNCHANGED <<ph, st>>
    BY <1>6, <2>2, Zenon DEF ExecuteTask, countVars, CountersAgree, AwakeSet, LinkedSet,
                      RunningSet
  <2> QED
    BY <1>6, <2>1, <2>2, Zenon DEF ExecuteTask
<1>7. CASE ConsumeTimeouts(w)
  <2>1. timed' \in [Workers -> BOOLEAN] /\ spin' \in [Workers -> Nat]
        /\ UNCHANGED countVars
    BY <1>7, Zenon DEF ConsumeTimeouts
  <2>2. GotoNext(w) \/ GotoFound(w)
        \/ (ph[w] = "prepare" /\ Goto(w, "rearm", "none"))
    BY <1>7 DEF ConsumeTimeouts
  <2>3. CASE ph[w] = "prepare" /\ Goto(w, "rearm", "none")
    <3>1. Same(w, "rearm", "none")
      BY <2>3 DEF Same, StepOf, Linked, AwakePhases, Closing
    <3>2. Moves(w)
      BY <2>3, <3>1, Positions, GotoMoves
    <3> QED
      BY <2>1, <3>2, MovesLoop
  <2> QED
    BY <2>1, <2>2, <2>3, NextMoves, FoundMoves, MovesLoop, Zenon
<1>8. CASE ConsumeIo(w)
  <2>1. GotoNext(w) \/ GotoFound(w)
    BY <1>8, Zenon DEF ConsumeIo
  <2> QED
    BY <1>8, <2>1, NextMoves, FoundMoves, MovesLoop, Zenon DEF ConsumeIo
<1>9. CASE HandleFin(w)
  <2>1. UNCHANGED countVars /\ timed' \in [Workers -> BOOLEAN]
    BY <1>9, Zenon DEF HandleFin
  <2>2. spin' \in [Workers -> Nat]
    <3>1. \/ spin' = spin
          \/ WaitSpin > 0 /\ spin' = [spin EXCEPT ![w] = WaitSpin - 1]
          \/ spin[w] > 0 /\ spin' = [spin EXCEPT ![w] = spin[w] - 1]
      BY <1>9, Zenon DEF HandleFin, StartWait
    <3>2. spin \in [Workers -> Nat] /\ WaitSpin \in Nat
      BY ConstantsAssumption DEF LoopOK
    <3>3. WaitSpin > 0 => WaitSpin - 1 \in Nat
      BY <3>2
    <3>4. spin[w] > 0 => spin[w] - 1 \in Nat
      BY <3>2
    <3> QED
      BY <3>1, <3>2, <3>3, <3>4
  <2>3. CASE ph[w] \in {"ready", "spin", "woken"}
    <3>1. \/ Goto(w, "finish", "cqe1") \/ Goto(w, "spin", "cqe")
          \/ Goto(w, "begin", "link") \/ Goto(w, "ready", "cqe")
      BY <1>9, <2>3, FinGoes
    <3>2. /\ Same(w, "finish", "cqe1") /\ Same(w, "spin", "cqe")
          /\ Same(w, "begin", "link") /\ Same(w, "ready", "cqe")
      BY <2>3, Zenon DEF Same, StepOf, Linked, AwakePhases, Closing
    <3> QED
      BY <3>1, <3>2, <2>1, <2>2, Positions, GotoMoves, MovesLoop, Zenon
  <2>4. CASE ph[w] \in {"recheck", "prepare"}
    <3>1. \/ Goto(w, "unlink", "decide") \/ Goto(w, "prepare", "tmr")
          \/ Goto(w, "prepare", "found") \/ Goto(w, "rearm", "none")
      BY <1>9, <2>4, FinGoes
    <3>2. /\ Same(w, "unlink", "decide") /\ Same(w, "prepare", "tmr")
          /\ Same(w, "prepare", "found") /\ Same(w, "rearm", "none")
      BY <2>4, Zenon DEF Same, StepOf, Linked, AwakePhases, Closing
    <3> QED
      BY <3>1, <3>2, <2>1, <2>2, Positions, GotoMoves, MovesLoop, Zenon
  <2> QED
    BY <1>9, <2>3, <2>4, FinGoes, Zenon
<1>10. CASE PrepareFound(w)
  <2>1. \/ Goto(w, "unlink", "finish") /\ Same(w, "unlink", "finish")
        \/ Goto(w, "unlink", "ready") /\ Same(w, "unlink", "ready")
    BY <1>10, Zenon DEF PrepareFound, At, Same, StepOf, Linked, AwakePhases, Closing
  <2>2. Moves(w)
    BY <2>1, Positions, GotoMoves
  <2> QED
    BY <1>10, <2>2, MovesLoop DEF PrepareFound
<1>11. CASE RearmWakePolls(w)
  <2>1. \/ Goto(w, "blocked", "none") /\ Same(w, "blocked", "none")
        \/ Goto(w, "unlink", "ready") /\ Same(w, "unlink", "ready")
        \/ Goto(w, "unlink", "finish") /\ Same(w, "unlink", "finish")
    BY <1>11, Zenon DEF RearmWakePolls, At, Same, StepOf, Linked, AwakePhases, Closing
  <2>2. Moves(w)
    BY <2>1, Positions, GotoMoves
  <2> QED
    BY <1>11, <2>2, MovesLoop, Zenon DEF RearmWakePolls
<1>12. CASE LeaveKernel(w, "woken") \/ LeaveKernel(w, "error")
  <2>1. PICK s \in {"woken", "error"} : Goto(w, "unlink", s)
    BY <1>12 DEF LeaveKernel
  <2>2. Same(w, "unlink", s)
    BY <1>12 DEF LeaveKernel, At, Same, StepOf, Linked, AwakePhases, Closing
  <2>3. "unlink" \in Phases /\ s \in Steps
    BY DEF Phases, Steps
  <2>4. Moves(w)
    BY <2>1, <2>2, <2>3 DEF Moves
  <2> QED
    BY <1>12, <2>4, MovesLoop DEF LeaveKernel
<1>13. CASE DecideAfterWait(w)
  <2>1. PICK p \in {"finish", "ready", "woken"}, s \in {"cqe1", "cqe"} :
          Goto(w, p, s) /\ Same(w, p, s)
    BY <1>13, Zenon DEF DecideAfterWait, Same, StepOf, Linked, AwakePhases, Closing
  <2>2. p \in Phases /\ s \in Steps
    BY DEF Phases, Steps, Closing
  <2>3. Moves(w)
    BY <2>1, <2>2 DEF Moves
  <2> QED
    BY <1>13, <2>3, MovesLoop, Zenon DEF DecideAfterWait
<1>14. CASE AbortInflight(w)
  BY <1>14, NextMoves, MovesLoop, Zenon DEF AbortInflight
<1> QED
  BY <1>1, <1>2, <1>3, <1>4, <1>5, <1>6, <1>7, <1>8, <1>9, <1>10, <1>11, <1>12,
     <1>13, <1>14, Zenon DEF WaitReturns, WaitTimesOut, WaitInterrupted, WaitFails

\* The loop positions keep their shape and the counters keep telling the truth
\* through every step of every thread.
LEMMA LoopStep ==
  ASSUME LoopOK, CountersAgree, [Next]_vars
  PROVE  LoopOK' /\ CountersAgree'
<1> DEFINE Quiet == UNCHANGED loopVars /\ UNCHANGED countVars
<1>1. ASSUME Quiet PROVE LoopOK' /\ CountersAgree'
  BY <1>1 DEF loopVars, countVars, LoopOK, CountersAgree, AwakeSet, LinkedSet,
              RunningSet
<1>2. ASSUME NEW w \in Workers, WorkerStep(w) PROVE LoopOK' /\ CountersAgree'
  BY <1>2, RunCounts, WaitCounts, LoopMoves DEF WorkerStep
<1>3. ASSUME NEW w \in Workers, WorkerEnv(w) PROVE LoopOK' /\ CountersAgree'
  <2>1. CASE KernelCompletes(w)
    BY <2>1, <1>1, Zenon DEF KernelCompletes
  <2> QED
    BY <1>3, <2>1, RunCounts, LoopMoves DEF WorkerEnv
<1>4. ASSUME NEW c \in Clients, ClientCall(c) \/ ClientStep(c)
      PROVE  LoopOK' /\ CountersAgree'
  <2>1. Quiet
    BY <1>4, Zenon DEF ClientCall, ClientStep, Publish, StartTimerWait, WakeIfAllSleeping,
                LoadAwake, LoadRunning, WakeOneSleeping, workerUnchanged
  <2> QED
    BY <2>1, <1>1
<1>5. ASSUME NEW t \in Workers \cup Stoppers, StopCall(t) \/ StopStep(t)
      PROVE  LoopOK' /\ CountersAgree'
  <2>1. Quiet
    BY <1>5, Zenon DEF StopCall, StopStep, ElectStopper, JoinStopped, AbortTimerWaits,
                PublishLife, WakeWorkers, WorkersGone, DrainTake, DrainExecute,
                DrainNext, workerUnchanged
  <2> QED
    BY <2>1, <1>1
<1>6. CASE Terminated \/ UNCHANGED vars
  BY <1>6, <1>1 DEF Terminated, vars
<1> QED
  BY <1>2, <1>3, <1>4, <1>5, <1>6 DEF Next

\* The conjuncts of TypeOK that a proof by induction carries; the counts follow
\* from CountersAgree.
TypeInv == PlacesOK /\ LoopOK /\ WakesOK /\ CallsOK /\ CountersAgree /\ seen \in Nat

\* Everything TypeOK says holds in every initial state.
LEMMA TypeInit == Init => TypeInv
<1> SUFFICES ASSUME Init PROVE TypeInv
  OBVIOUS
<1>1. PlacesOK /\ WakesOK /\ seen \in Nat
  BY Zenon DEF Init, PlacesOK, WakesOK
<1>2. LoopOK
  BY DEF Init, LoopOK, StepOf, Phases, Steps, Closing
<1>3. CallsOK
  BY Zenon DEF Init, CallsOK
<1>4. AwakeSet = {} /\ RunningSet = {} /\ LinkedSet = {}
  BY DEF Init, AwakeSet, RunningSet, LinkedSet, AwakePhases, Linked
<1>5. CountersAgree
  BY <1>4, FS_EmptySet DEF CountersAgree, Init
<1> QED
  BY <1>1, <1>2, <1>3, <1>5 DEF TypeInv

\* The publisher's copy of awake_workers is a count.
LEMMA SeenStep == ASSUME CountersAgree, seen \in Nat, [Next]_vars PROVE seen' \in Nat
<1>0. awake \in Nat
  BY FiniteCounts DEF CountersAgree
<1>1. ASSUME NEW w \in Workers, WorkerStep(w) \/ WorkerEnv(w) PROVE seen' \in Nat
  <2> USE DEF clientVars
  <2>1. CASE CanStartRun(w) \/ RunNativeLoop(w) \/ EnterRun(w) \/ ArmWakePolls(w)
    BY <2>1 DEF CanStartRun, RunNativeLoop, EnterRun, ArmWakePolls
  <2>2. CASE CollectReadyCqes(w) \/ RunCpuBatch(w)
    BY <2>2, Zenon DEF CollectReadyCqes, RunCpuBatch
  <2>3. CASE (\E op \in Ops : ExecuteTask(w, op)) \/ ConsumeTimeouts(w)
             \/ ConsumeIo(w)
    BY <2>3, Zenon DEF ExecuteTask, ConsumeTimeouts, ConsumeIo
  <2>4. CASE HandleFin(w) \/ PrepareFound(w) \/ BeginWaitLink(w) \/ BeginWaitDec(w)
             \/ RearmWakePolls(w)
    BY <2>4, Zenon DEF HandleFin, PrepareFound, BeginWaitLink, BeginWaitDec, RearmWakePolls
  <2>5. CASE WaitReturns(w) \/ EndWaitUnlink(w) \/ EndWaitInc(w)
             \/ DecideAfterWait(w) \/ AbortInflight(w) \/ LeaveRun(w) \/ ReleaseSlot(w)
    BY <2>5, Zenon DEF WaitReturns, LeaveKernel, EndWaitUnlink, EndWaitInc,
       DecideAfterWait, AbortInflight, LeaveRun, ReleaseSlot
  <2>6. CASE WorkerEnv(w)
    BY <2>6, Zenon DEF WorkerEnv, RunCall, WaitTimesOut, WaitInterrupted, WaitFails,
       KernelCompletes, LeaveKernel
  <2> QED
    BY <1>1, <2>1, <2>2, <2>3, <2>4, <2>5, <2>6 DEF WorkerStep
<1>2. ASSUME NEW c \in Clients, ClientCall(c) \/ ClientStep(c) PROVE seen' \in Nat
  <2>1. CASE ClientCall(c)
    BY <2>1 DEF ClientCall, Publish, StartTimerWait
  <2>2. CASE WakeIfAllSleeping(c) \/ WakeOneSleeping(c)
    BY <2>2, Zenon DEF WakeIfAllSleeping, WakeOneSleeping
  <2>3. CASE LoadAwake(c) \/ LoadRunning(c)
    BY <1>0, <2>3 DEF LoadAwake, LoadRunning
  <2> QED
    BY <1>2, <2>1, <2>2, <2>3 DEF ClientStep
<1>3. ASSUME NEW t \in Workers \cup Stoppers, StopCall(t) \/ StopStep(t)
      PROVE  seen' \in Nat
  <2>1. UNCHANGED clientVars
    BY <1>3, Zenon DEF StopCall, StopStep, ElectStopper, JoinStopped, AbortTimerWaits,
       PublishLife, WakeWorkers, WorkersGone, DrainTake, DrainExecute, DrainNext
  <2> QED
    BY <2>1 DEF clientVars
<1>4. CASE Terminated \/ UNCHANGED vars
  BY <1>4 DEF Terminated, vars, clientVars
<1> QED
  BY <1>1, <1>2, <1>3, <1>4 DEF Next

\* TypeInv is inductive.
LEMMA TypeStep == TypeInv /\ [Next]_vars => TypeInv'
  BY PlacesStep, LoopStep, WakesStep, CallsStep, SeenStep DEF TypeInv

\* In every behaviour of the worker group TypeInv holds.
THEOREM TypeInvariant == Spec => []TypeInv
  BY TypeInit, TypeStep, PTL DEF Spec

\* For any number of workers, publishers, stoppers and operations, every variable
\* keeps its type: running_workers and awake_workers never wrap below zero, and
\* the run loop is at a step of its phase, on the failure paths of enter_run()
\* and of the ring too.
THEOREM TypeCorrect == Spec => []TypeOK
<1>1. TypeInv => TypeOK
  BY FiniteCounts DEF TypeInv, TypeOK, CountersAgree
<1> QED
  BY <1>1, TypeInvariant, PTL

\* For any number of threads, running_workers counts the threads inside run(),
\* awake_workers those outside begin_wait()/end_wait(), and the suspend list holds
\* exactly the workers that wait, whatever path leaves the loop.
THEOREM CountersCorrect == Spec => []CountersAgree
<1>1. TypeInv => CountersAgree
  BY DEF TypeInv
<1> QED
  BY <1>1, TypeInvariant, PTL

(***************************************************************************)
(* Blocked workers can be woken.                                           *)
(***************************************************************************)
\* A poll in a worker's ring stays in it, and only w itself may enter or leave
\* the blocking wait.
Keeps(w) ==
  \A v \in Workers \ {w} :
    /\ ph'[v] = ph[v] /\ loPoll'[v] = loPoll[v]
    /\ shPoll[v] # "none" => shPoll'[v] # "none"

\* A write to the shared eventfd takes no poll out of a ring.
LEMMA SignalKeeps ==
  ASSUME WakesOK, SignalShared
  PROVE  \A v \in Workers : shPoll[v] # "none" => shPoll'[v] # "none"
  BY DEF WakesOK, SignalShared, Fire

\* A worker at a work source is not blocked after that source, whether it goes on
\* to the next source or has found work.
LEMMA SourceNotBlocked ==
  ASSUME LoopOK, NEW w \in Workers, st[w] # "none",
         UNCHANGED <<ph, st>> \/ GotoNext(w) \/ GotoFound(w)
  PROVE  /\ ph'[w] # "blocked"
         /\ \A v \in Workers \ {w} : ph'[v] = ph[v]
<1>1. ph \in [Workers -> Phases] /\ ph[w] # "blocked"
  BY DEF LoopOK, StepOf
<1>2. CASE UNCHANGED <<ph, st>>
  BY <1>1, <1>2
<1>3. CASE GotoNext(w)
  BY <1>1, <1>3, Zenon DEF GotoNext, Follow, Goto
<1>4. CASE GotoFound(w)
  BY <1>1, <1>4, Zenon DEF GotoFound, Follow, Goto
<1> QED
  BY <1>2, <1>3, <1>4, Zenon

\* rearm_wake_polls_for_wait() is the only way into the blocking wait, and a worker
\* takes no poll out of another worker's ring.
LEMMA DeafWorker ==
  ASSUME LoopOK, WakesOK, NEW w \in Workers, WorkerStep(w), ~RearmWakePolls(w)
  PROVE  Keeps(w) /\ ph'[w] # "blocked"
<1> USE DEF Keeps
<1>0. ph \in [Workers -> Phases]
  BY DEF LoopOK
<1>1. CASE CanStartRun(w) \/ EnterRun(w) \/ PrepareFound(w) \/ BeginWaitLink(w)
           \/ BeginWaitDec(w) \/ WaitReturns(w) \/ DecideAfterWait(w) \/ LeaveRun(w)
  BY <1>0, <1>1, Zenon DEF CanStartRun, EnterRun, PrepareFound, BeginWaitLink,
     BeginWaitDec, WaitReturns, LeaveKernel, DecideAfterWait, LeaveRun, Goto,
     wakeVars
<1>2. CASE EndWaitUnlink(w) \/ EndWaitInc(w)
  BY <1>0, <1>2 DEF EndWaitUnlink, EndWaitInc, Goto, wakeVars
<1>3. CASE RunNativeLoop(w)
  BY <1>0, <1>3, SignalKeeps, Zenon DEF RunNativeLoop, Goto, wakeVars
<1>4. CASE ArmWakePolls(w)
  BY <1>0, <1>4 DEF ArmWakePolls, Goto, WakesOK
<1>5. CASE ReleaseSlot(w)
  BY <1>0, <1>5 DEF ReleaseSlot, Goto, WakesOK
<1>6. CASE HandleFin(w)
  BY <1>0, <1>6, Zenon DEF HandleFin, StartWait, Goto, wakeVars
<1>7. CASE CollectReadyCqes(w)
  <2>1. st[w] # "none" /\ (GotoNext(w) \/ GotoFound(w))
    BY <1>7, Zenon DEF CollectReadyCqes
  <2>2. \A v \in Workers \ {w} : /\ loPoll'[v] = loPoll[v]
                                 /\ shPoll[v] # "none" => shPoll'[v] # "none"
    BY <1>7, Zenon DEF CollectReadyCqes, Fire, WakesOK
  <2> QED
    BY <2>1, <2>2, SourceNotBlocked, Zenon
<1>8. ASSUME NEW op \in Ops, ExecuteTask(w, op) PROVE Keeps(w) /\ ph'[w] # "blocked"
  <2>1. st[w] # "none" /\ (UNCHANGED <<ph, st>> \/ GotoFound(w)) /\ UNCHANGED wakeVars
    BY <1>8, Zenon DEF ExecuteTask
  <2> QED
    BY <2>1, SourceNotBlocked, Zenon DEF wakeVars
<1>9. CASE RunCpuBatch(w)
  <2>1. st[w] # "none" /\ UNCHANGED wakeVars
    BY <1>9, Zenon DEF RunCpuBatch
  <2>2. GotoNext(w) \/ Goto(w, ph[w], "exec") \/ Goto(w, ph[w], "exec1")
        \/ Goto(w, ph[w], "exec3")
    BY <1>9, Zenon DEF RunCpuBatch
  <2>3. CASE GotoNext(w)
    BY <2>1, <2>3, SourceNotBlocked, Zenon DEF wakeVars
  <2>4. ph[w] # "blocked"
    BY <2>1 DEF LoopOK, StepOf
  <2> QED
    BY <1>0, <2>1, <2>2, <2>3, <2>4, Zenon DEF Goto, wakeVars
<1>10. CASE ConsumeTimeouts(w)
  <2>1. /\ st[w] # "none" /\ UNCHANGED wakeVars
        /\ Goto(w, "rearm", "none") \/ GotoNext(w) \/ GotoFound(w)
    BY <1>10, Zenon DEF ConsumeTimeouts
  <2>2. CASE Goto(w, "rearm", "none")
    BY <1>0, <2>1, <2>2, Zenon DEF Goto, wakeVars
  <2> QED
    BY <2>1, <2>2, SourceNotBlocked, Zenon DEF wakeVars
<1>11. CASE ConsumeIo(w) \/ AbortInflight(w)
  <2>1. st[w] # "none" /\ UNCHANGED wakeVars /\ (GotoNext(w) \/ GotoFound(w))
    BY <1>11, Zenon DEF ConsumeIo, AbortInflight
  <2> QED
    BY <2>1, SourceNotBlocked, Zenon DEF wakeVars
<1> QED
  BY <1>1, <1>2, <1>3, <1>4, <1>5, <1>6, <1>7, <1>8, <1>9, <1>10, <1>11, Zenon
     DEF WorkerStep

\* No step blocks a worker without its polls or takes a poll from a blocked one.
LEMMA DeafStep == ASSUME TypeInv, NeverDeaf, [Next]_vars PROVE NeverDeaf'
<1>0. LoopOK /\ WakesOK
  BY DEF TypeInv
<1>1. ASSUME NEW w \in Workers, WorkerStep(w), ~RearmWakePolls(w) PROVE NeverDeaf'
  BY <1>0, <1>1, DeafWorker, Zenon DEF Keeps, NeverDeaf
<1>2. ASSUME NEW w \in Workers, RearmWakePolls(w) PROVE NeverDeaf'
  <2>1. ph \in [Workers -> Phases]
    BY <1>0 DEF LoopOK
  <2> QED
    BY <1>0, <1>2, <2>1 DEF RearmWakePolls, Goto, ArmIfIdle, ArmedOn, NeverDeaf, WakesOK
<1>3. ASSUME NEW w \in Workers, WorkerEnv(w) PROVE NeverDeaf'
  <2>1. ph \in [Workers -> Phases]
    BY <1>0 DEF LoopOK
  <2> QED
    BY <1>3, <2>1, Zenon DEF WorkerEnv, RunCall, WaitTimesOut, WaitInterrupted, WaitFails,
       LeaveKernel, KernelCompletes, Goto, NeverDeaf, wakeVars, loopVars
<1>4. ASSUME NEW c \in Clients, ClientCall(c) \/ ClientStep(c) PROVE NeverDeaf'
  <2>1. CASE WakeOneSleeping(c)
    BY <1>0, <2>1, SignalKeeps DEF WakeOneSleeping, Fire, WakesOK, NeverDeaf,
       workerUnchanged, loopVars
  <2>2. CASE ~WakeOneSleeping(c)
    BY <1>4, <2>2, Zenon DEF ClientCall, ClientStep, Publish, StartTimerWait,
       WakeIfAllSleeping, LoadAwake, LoadRunning, NeverDeaf, wakeVars,
       workerUnchanged, loopVars
  <2> QED
    BY <2>1, <2>2
<1>5. ASSUME NEW t \in Workers \cup Stoppers, StopCall(t) \/ StopStep(t)
      PROVE  NeverDeaf'
  <2>1. CASE WakeWorkers(t)
    BY <1>0, <2>1, SignalKeeps, Zenon DEF WakeWorkers, NeverDeaf, workerUnchanged, loopVars
  <2>2. CASE ~WakeWorkers(t)
    BY <1>5, <2>2, Zenon DEF StopCall, StopStep, ElectStopper, JoinStopped,
       AbortTimerWaits, PublishLife, WorkersGone, DrainTake, DrainExecute,
       DrainNext, NeverDeaf, wakeVars, workerUnchanged, loopVars
  <2> QED
    BY <2>1, <2>2
<1>6. CASE Terminated \/ UNCHANGED vars
  BY <1>6, Zenon DEF Terminated, NeverDeaf, vars, wakeVars, loopVars
<1> QED
  BY <1>1, <1>2, <1>3, <1>4, <1>5, <1>6 DEF Next

\* For any number of workers, on rings that fail and with a full SQ too, no worker
\* enters io_uring_enter without both wake polls armed: a directed wake and a
\* stop() reach every blocked worker.
THEOREM NeverDeafCorrect == Spec => []NeverDeaf
<1>1. Init => NeverDeaf
  BY DEF Init, NeverDeaf
<1>2. TypeInv /\ NeverDeaf /\ [Next]_vars => NeverDeaf'
  BY DeafStep
<1> QED
  BY <1>1, <1>2, TypeInvariant, PTL DEF Spec
=============================================================================
