------------------------ MODULE IoContextWake_proofs ------------------------
(***************************************************************************)
(* No lost wake-up, for any number of workers, publishers and stoppers, as  *)
(* long as the ring does not fail.  A worker that fails in enter_run()      *)
(* between the two loads of the fast path makes it skip a wake that another *)
(* worker needed.                                                           *)
(*                                                                          *)
(* The inductive invariant says who is responsible for work in a shared     *)
(* queue of a running context: a worker that still looks at the queue, a    *)
(* worker whose blocking wait is due to return, a publisher inside          *)
(* submit_lock that will write a wake channel, or nobody because nobody     *)
(* sleeps.                                                                  *)
(***************************************************************************)
EXTENDS IoContext_proofs

\* Where a worker can be while life_state is 0 and the ring does not fail: no
\* worker leaves its loop before stop().
Living(p, s) ==
  /\ p \in {"idle", "enter", "arm", "ready", "spin", "begin", "recheck", "prepare",
            "rearm", "blocked", "unlink", "inc", "decide", "woken"}
  /\ p \in {"unlink", "inc"} => s \in {"decide", "ready", "woken"}

NoneLeft == ~life => \A w \in Workers : Living(ph[w], st[w])

\* A thread in wake_one_sleeping_locked() holds submit_lock.
LockHeld ==
  \A c \in Clients : cpc[c] \in {"readAwake", "readRunning", "wake"} => lock = c

\* The publisher will write a wake channel, or find that nobody sleeps.
Committed(c) ==
  /\ lock = c
  /\ cpc[c] \in {"readAwake", "wake"} \/ (cpc[c] = "readRunning" /\ seen < running)

SomeoneWakes ==
  \/ \E w \in Workers : WakePending(w)
  \/ \E c \in Clients : Committed(c)
  \/ \A w \in Workers : ~Sleeping(w)

Covered ==
  ~life =>
    /\ cpuQ = {} \/ SomeoneWakes \/ \E w \in Workers : LooksForCpu(w)
    /\ ioQ = {} \/ SomeoneWakes \/ \E w \in Workers : LooksForIo(w)

WakeInv == TypeInv /\ NoneLeft /\ LockHeld /\ Covered

(***************************************************************************)
(* The two kinds of worker step.                                           *)
(***************************************************************************)
\* The worker moves inside its loop.
Lives(w) ==
  /\ Living(ph'[w], st'[w])
  /\ \A v \in Workers \ {w} : ph'[v] = ph[v] /\ st'[v] = st[v]

\* Nobody who was responsible for a queue stops being so, and no work arrives.
Quiet ==
  /\ cpuQ' \subseteq cpuQ /\ ioQ' \subseteq ioQ
  /\ \A w \in Workers : Sleeping(w)' => Sleeping(w)
  /\ \A w \in Workers : LooksForCpu(w) => LooksForCpu(w)' \/ cpuQ' = {}
  /\ \A w \in Workers : LooksForIo(w) => LooksForIo(w)' \/ ioQ' = {}
  /\ \A w \in Workers : WakePending(w) => WakePending(w)'
  /\ \A c \in Clients : Committed(c) => Committed(c)'

\* A worker of a running context that looks for CPU work looks for I/O too.
LEMMA LooksForBoth ==
  ASSUME NEW w \in Workers, Living(ph[w], st[w]), LooksForCpu(w) PROVE LooksForIo(w)
  BY DEF Living, LooksForCpu, LooksForIo, Closing

\* A quiet step keeps the shared queues covered.
LEMMA QuietCovered ==
  ASSUME Covered, ~life, Quiet PROVE Covered'
<1>1. SomeoneWakes => SomeoneWakes'
  BY DEF SomeoneWakes, Quiet
<1> QED
  BY <1>1 DEF Covered, Quiet

\* So does a step after which some worker looks.
LEMMA LooksCovered ==
  ASSUME NEW w \in Workers, Lives(w), LooksForCpu(w)' PROVE Covered'
<1>1. LooksForIo(w)'
  BY DEF Lives, Living, LooksForCpu, LooksForIo, Closing
<1> QED
  BY <1>1 DEF Covered

\* Where a jump of the loop lands.
LEMMA GotoLands ==
  ASSUME LoopOK, NEW w \in Workers, NEW p, NEW s, Goto(w, p, s)
  PROVE  /\ ph'[w] = p /\ st'[w] = s
         /\ \A v \in Workers \ {w} : ph'[v] = ph[v] /\ st'[v] = st[v]
  BY DEF LoopOK, Goto

\* A step that finds work makes a worker of a running context look again.
LEMMA FoundLooks ==
  ASSUME LoopOK, NEW w \in Workers, Living(ph[w], st[w]), GotoFound(w)
  PROVE  Lives(w) /\ LooksForCpu(w)'
<1>1. \/ Goto(w, "ready", "cqe") \/ Goto(w, "unlink", "decide")
      \/ Goto(w, "prepare", "found")
  BY DEF GotoFound, Living, Closing
<1> QED
  BY <1>1, GotoLands DEF Lives, Living, LooksForCpu

\* The first step of the loop, and every step outside the wait section, is
\* followed by another look.
LEMMA NextLooks ==
  ASSUME LoopOK, NEW w \in Workers, Living(ph[w], st[w]), GotoNext(w)
  PROVE  /\ Lives(w)
         /\ st[w] = "cqe" \/ ph[w] \in {"ready", "spin", "woken"} => LooksForCpu(w)'
         /\ ph'[w] = ph[w] /\ ph[w] \in {"ready", "spin", "woken", "recheck", "prepare"}
         /\ ph[w] = "recheck" => /\ st[w] = "cpu" => st'[w] = "tmr"
                                 /\ st[w] = "tmr" => st'[w] = "io"
                                 /\ st[w] = "io" => st'[w] = "fin"
         /\ ph[w] = "prepare" => /\ st[w] = "tmr" => st'[w] = "cpu"
                                 /\ st[w] = "cpu" => st'[w] = "io"
                                 /\ st[w] = "io" => st'[w] = "fin"
<1>1. StepOf(ph[w], st[w])
  BY DEF LoopOK
<1>a. st[w] \notin {"cqe1", "tmr1", "cpu1", "abort", "tmr3", "cpu3", "io3"}
  BY <1>1 DEF Living, StepOf
<1>b. \/ Follow(w, "cqe", "cpu")
      \/ ph[w] = "prepare" /\ (Follow(w, "tmr", "cpu") \/ Follow(w, "cpu", "io"))
      \/ ph[w] # "prepare" /\ Follow(w, "cpu", "tmr")
      \/ ph[w] = "spin" /\ Follow(w, "tmr", "fin")
      \/ ph[w] \notin {"spin", "prepare"} /\ Follow(w, "tmr", "io")
      \/ Follow(w, "io", "fin")
  BY <1>a DEF GotoNext, Follow
<1>2. /\ ph'[w] = ph[w]
      /\ \A v \in Workers \ {w} : ph'[v] = ph[v] /\ st'[v] = st[v]
      /\ \/ st[w] = "cqe" /\ st'[w] = "cpu"
         \/ ph[w] = "prepare" /\ st[w] = "tmr" /\ st'[w] = "cpu"
         \/ ph[w] = "prepare" /\ st[w] = "cpu" /\ st'[w] = "io"
         \/ ph[w] # "prepare" /\ st[w] = "cpu" /\ st'[w] = "tmr"
         \/ ph[w] = "spin" /\ st[w] = "tmr" /\ st'[w] = "fin"
         \/ ph[w] \notin {"spin", "prepare"} /\ st[w] = "tmr" /\ st'[w] = "io"
         \/ st[w] = "io" /\ st'[w] = "fin"
  BY <1>b, GotoLands DEF Follow
<1>3. ph[w] \in {"ready", "spin", "woken", "recheck", "prepare"}
  BY <1>1, <1>2 DEF Living, StepOf
<1>4. Lives(w)
  BY <1>2, <1>3 DEF Lives, Living
<1>5. st[w] = "cqe" \/ ph[w] \in {"ready", "spin", "woken"} => LooksForCpu(w)'
  BY <1>1, <1>2, <1>3 DEF LooksForCpu, StepOf
<1> QED
  BY <1>2, <1>3, <1>4, <1>5

\* A sleeping worker that moves on without looking leaves the queues to others
\* only when it found them empty.
LEMMA QuietMove ==
  ASSUME LoopOK, WakesOK, NEW w \in Workers, Lives(w), UNCHANGED clientVars,
         UNCHANGED running, UNCHANGED wakeVars, UNCHANGED cqes,
         cpuQ' \subseteq cpuQ, ioQ' \subseteq ioQ, Sleeping(w), Sleeping(w)',
         LooksForCpu(w) => LooksForCpu(w)' \/ cpuQ' = {},
         LooksForIo(w) => LooksForIo(w)' \/ ioQ' = {}
  PROVE  Quiet
<1>1. \A v \in Workers \ {w} : ph'[v] = ph[v] /\ st'[v] = st[v]
  BY DEF Lives
<1>2. \A v \in Workers : Sleeping(v)' => Sleeping(v)
  BY <1>1 DEF Sleeping
<1>3. \A v \in Workers : LooksForCpu(v) => LooksForCpu(v)' \/ cpuQ' = {}
  BY <1>1 DEF LooksForCpu
<1>4. \A v \in Workers : LooksForIo(v) => LooksForIo(v)' \/ ioQ' = {}
  BY <1>1 DEF LooksForIo
<1>5. \A v \in Workers : WakePending(v) => WakePending(v)'
  BY <1>1 DEF WakePending, Sleeping, HasCqe, wakeVars
<1>6. \A c \in Clients : Committed(c) => Committed(c)'
  BY DEF Committed, clientVars
<1> QED
  BY <1>2, <1>3, <1>4, <1>5, <1>6 DEF Quiet

\* Entering run() ends with a worker that looks.
LEMMA EnterLooks ==
  ASSUME ~RingMayFail, LoopOK, ~life, NEW w \in Workers, Living(ph[w], st[w]),
         \/ RunCall(w) \/ CanStartRun(w) \/ RunNativeLoop(w) \/ EnterRun(w)
         \/ ArmWakePolls(w)
  PROVE  Lives(w) /\ LooksForCpu(w)'
<1>1. \/ Goto(w, "enter", "check") \/ Goto(w, "enter", "open")
      \/ Goto(w, "enter", "run") \/ Goto(w, "arm", "polls") \/ Goto(w, "ready", "cqe")
  BY DEF RunCall, CanStartRun, RunNativeLoop, EnterRun, ArmWakePolls
<1> QED
  BY <1>1, GotoLands DEF Lives, Living, LooksForCpu

\* The wait section begins with a look, and the way out of it ends with one.
LEMMA WaitLooks ==
  ASSUME ~RingMayFail, LoopOK, ~life, NEW w \in Workers, Living(ph[w], st[w]),
         \/ PrepareFound(w) \/ BeginWaitLink(w) \/ BeginWaitDec(w)
         \/ LeaveKernel(w, "woken") \/ EndWaitUnlink(w) \/ EndWaitInc(w)
         \/ DecideAfterWait(w)
  PROVE  Lives(w) /\ LooksForCpu(w)'
<1>1. CASE EndWaitUnlink(w)
  <2>1. Goto(w, "inc", st[w]) /\ st[w] \in {"decide", "ready", "woken"}
    BY <1>1 DEF EndWaitUnlink, Living
  <2> QED
    BY <2>1, GotoLands DEF Lives, Living, LooksForCpu
<1>2. CASE EndWaitInc(w)
  <2>1. \/ Goto(w, "ready", "cqe") \/ Goto(w, "woken", "cqe")
        \/ Goto(w, "decide", "none")
    BY <1>2 DEF EndWaitInc, Living
  <2> QED
    BY <2>1, GotoLands DEF Lives, Living, LooksForCpu
<1>3. CASE \/ PrepareFound(w) \/ BeginWaitLink(w) \/ BeginWaitDec(w)
           \/ LeaveKernel(w, "woken") \/ DecideAfterWait(w)
  <2>1. \/ Goto(w, "unlink", "ready") \/ Goto(w, "begin", "dec")
        \/ Goto(w, "recheck", "cqe") \/ Goto(w, "unlink", "woken")
        \/ Goto(w, "ready", "cqe")
    BY <1>3 DEF PrepareFound, BeginWaitLink, BeginWaitDec, LeaveKernel,
                DecideAfterWait, Living
  <2> QED
    BY <2>1, GotoLands DEF Lives, Living, LooksForCpu
<1> QED
  BY <1>1, <1>2, <1>3

\* No worker of a running context drains or leaves.
LEMMA NoLeaving ==
  ASSUME LoopOK, NEW w \in Workers, Living(ph[w], st[w])
  PROVE  ~AbortInflight(w) /\ ~LeaveRun(w) /\ ~ReleaseSlot(w)
<1>1. StepOf(ph[w], st[w])
  BY DEF LoopOK
<1> QED
  BY <1>1 DEF AbortInflight, LeaveRun, ReleaseSlot, Living, StepOf

\* The work sources: a step that finds nothing leaves an empty queue behind.
LEMMA SourcesLook ==
  ASSUME LoopOK, WakesOK, ~life, NEW w \in Workers, Living(ph[w], st[w]),
         \/ CollectReadyCqes(w) \/ RunCpuBatch(w) \/ ConsumeTimeouts(w)
         \/ ConsumeIo(w) \/ \E op \in Ops : ExecuteTask(w, op)
  PROVE  Lives(w) /\ (LooksForCpu(w)' \/ Quiet)
<1>0. StepOf(ph[w], st[w])
  BY DEF LoopOK
<1>1. CASE CollectReadyCqes(w)
  <2>1. st[w] = "cqe"
    BY <1>0, <1>1, Zenon DEF CollectReadyCqes, Living, StepOf
  <2>2. GotoNext(w) \/ GotoFound(w)
    BY <1>1, Zenon DEF CollectReadyCqes
  <2> QED
    BY <2>1, <2>2, NextLooks, FoundLooks
<1>2. CASE RunCpuBatch(w)
  <2>1. st[w] = "cpu"
    BY <1>0, <1>2 DEF RunCpuBatch, Living, StepOf
  <2>2. CASE Goto(w, ph[w], "exec")
    <3>1. ph[w] \in {"ready", "spin", "woken", "recheck", "prepare"}
      BY <1>0, <2>1 DEF Living, StepOf
    <3> QED
      BY <2>2, <3>1, GotoLands DEF Lives, Living, LooksForCpu
  <2>3. CASE GotoNext(w) /\ cpuQ = {} /\ UNCHANGED cpuQ
    <3>1. CASE ph[w] \in {"ready", "spin", "woken"}
      BY <2>3, <3>1, NextLooks
    <3>2. CASE ph[w] \in {"recheck", "prepare"}
      <4>1. /\ Lives(w) /\ ph'[w] = ph[w]
            /\ \/ ph[w] = "recheck" /\ st'[w] = "tmr"
               \/ ph[w] = "prepare" /\ st'[w] = "io"
        BY <2>1, <2>3, <3>2, NextLooks
      <4>2. Sleeping(w) /\ Sleeping(w)' /\ LooksForIo(w)'
        BY <3>2, <4>1 DEF Sleeping, LooksForIo
      <4>3. /\ UNCHANGED clientVars /\ UNCHANGED running /\ UNCHANGED wakeVars
            /\ UNCHANGED cqes /\ UNCHANGED ioQ
        BY <1>2 DEF RunCpuBatch, countVars
      <4>4. Quiet
        BY <2>3, <4>1, <4>2, <4>3, QuietMove, Zenon
      <4> QED
        BY <4>1, <4>4
    <3> QED
      BY <2>3, <3>1, <3>2, NextLooks
  <2> QED
    BY <1>2, <2>1, <2>2, <2>3 DEF RunCpuBatch
<1>3. CASE ConsumeTimeouts(w)
  <2>1. st[w] = "tmr"
    BY <1>0, <1>3, Zenon DEF ConsumeTimeouts, Living, StepOf
  <2>2. CASE GotoFound(w)
    BY <2>2, FoundLooks, Zenon
  <2>3. /\ UNCHANGED clientVars /\ UNCHANGED running /\ UNCHANGED wakeVars
        /\ UNCHANGED cqes /\ UNCHANGED ioQ /\ UNCHANGED cpuQ
    BY <1>3 DEF ConsumeTimeouts, countVars, sharedQ
  <2>4. CASE ph[w] = "prepare" /\ Goto(w, "rearm", "none")
    <3>0. /\ ph'[w] = "rearm" /\ st'[w] = "none"
          /\ \A v \in Workers \ {w} : ph'[v] = ph[v] /\ st'[v] = st[v]
      BY <2>4, GotoLands
    <3>1. Lives(w) /\ ph'[w] = "rearm"
      BY <3>0 DEF Lives, Living
    <3>2. Sleeping(w) /\ Sleeping(w)' /\ ~LooksForIo(w) /\ ~LooksForCpu(w)
      BY <2>1, <2>4, <3>1, Zenon DEF Sleeping, LooksForIo, LooksForCpu, Closing
    <3> QED
      BY <2>3, <3>1, <3>2, QuietMove, Zenon
  <2>5. CASE GotoNext(w) /\ ph[w] = "recheck"
    <3>1. Lives(w) /\ ph'[w] = "recheck" /\ st'[w] = "io"
      BY <2>1, <2>5, NextLooks, Zenon
    <3>2. Sleeping(w) /\ Sleeping(w)' /\ LooksForIo(w)' /\ ~LooksForCpu(w)
      BY <2>1, <2>5, <3>1, Zenon DEF Sleeping, LooksForIo, LooksForCpu, Closing
    <3> QED
      BY <2>3, <3>1, <3>2, QuietMove, Zenon
  <2>6. CASE GotoNext(w) /\ ph[w] = "prepare"
    <3>1. Lives(w) /\ ph'[w] = "prepare" /\ st'[w] = "cpu"
      BY <2>1, <2>6, NextLooks, Zenon
    <3> QED
      BY <3>1, Zenon DEF LooksForCpu
  <2> QED
    BY <1>3, <2>2, <2>4, <2>5, <2>6, NextLooks, Zenon DEF ConsumeTimeouts
<1>4. CASE ConsumeIo(w)
  <2>1. st[w] = "io"
    BY <1>0, <1>4, Zenon DEF ConsumeIo, Living, StepOf
  <2>2. CASE GotoFound(w)
    BY <2>2, FoundLooks
  <2>3. CASE GotoNext(w) /\ ioQ = {} /\ UNCHANGED ioQ
    <3>1. CASE ph[w] \in {"recheck", "prepare"}
      <4>1. Lives(w) /\ ph'[w] = ph[w] /\ st'[w] = "fin"
        BY <2>1, <2>3, <3>1, NextLooks, Zenon
      <4>2. Sleeping(w) /\ Sleeping(w)' /\ ~LooksForCpu(w)
        BY <2>1, <3>1, <4>1 DEF Sleeping, LooksForCpu, Closing
      <4>3. /\ UNCHANGED clientVars /\ UNCHANGED running /\ UNCHANGED wakeVars
            /\ UNCHANGED cqes /\ UNCHANGED cpuQ
        BY <1>4, Zenon DEF ConsumeIo, countVars
      <4> QED
        BY <2>3, <4>1, <4>2, <4>3, QuietMove, Zenon
    <3> QED
      BY <2>3, <3>1, NextLooks, Zenon
  <2> QED
    BY <1>4, <2>2, <2>3, Zenon DEF ConsumeIo
<1>5. ASSUME NEW op \in Ops, ExecuteTask(w, op)
      PROVE  Lives(w) /\ LooksForCpu(w)'
  <2>1. CASE GotoFound(w)
    BY <2>1, FoundLooks, Zenon
  <2>2. CASE UNCHANGED <<ph, st>>
    <3>1. st[w] = "exec"
      BY <1>0, <1>5, Zenon DEF ExecuteTask, Living, StepOf
    <3>2. ph[w] \in {"ready", "spin", "woken", "recheck", "prepare"}
      BY <1>0, <3>1 DEF Living, StepOf
    <3> QED
      BY <2>2, <3>1, <3>2 DEF Lives, Living, LooksForCpu
  <2> QED
    BY <1>5, <2>1, <2>2, Zenon DEF ExecuteTask
<1> QED
  BY <1>1, <1>2, <1>3, <1>4, <1>5

\* The phase changes of a running context.
LEMMA PhasesLook ==
  ASSUME ~RingMayFail, LoopOK, WakesOK, ~life, NEW w \in Workers,
         Living(ph[w], st[w]), HandleFin(w)
  PROVE  Lives(w) /\ (LooksForCpu(w)' \/ Quiet)
<1>1. /\ UNCHANGED clientVars /\ UNCHANGED running /\ UNCHANGED wakeVars
      /\ UNCHANGED cqes /\ UNCHANGED cpuQ /\ UNCHANGED ioQ
  BY DEF HandleFin, countVars, sharedQ, ownQ
<1>2. st[w] = "fin"
  BY DEF HandleFin
<1>3. \/ Goto(w, "spin", "cqe") \/ Goto(w, "begin", "link") \/ Goto(w, "ready", "cqe")
      \/ ph[w] = "recheck" /\ Goto(w, "prepare", "tmr")
      \/ ph[w] = "prepare" /\ Goto(w, "rearm", "none")
  BY FinGoes
<1>4. CASE Goto(w, "spin", "cqe") \/ Goto(w, "begin", "link") \/ Goto(w, "ready", "cqe")
  BY <1>4, GotoLands DEF Lives, Living, LooksForCpu
<1>5. CASE \/ ph[w] = "recheck" /\ Goto(w, "prepare", "tmr")
           \/ ph[w] = "prepare" /\ Goto(w, "rearm", "none")
  <2>1. /\ ph'[w] \in {"prepare", "rearm"}
        /\ \A v \in Workers \ {w} : ph'[v] = ph[v] /\ st'[v] = st[v]
    BY <1>5, GotoLands
  <2>2. Lives(w)
    BY <2>1 DEF Lives, Living
  <2>3. Sleeping(w) /\ Sleeping(w)' /\ ~LooksForIo(w) /\ ~LooksForCpu(w)
    BY <1>2, <1>5, <2>1 DEF Sleeping, LooksForIo, LooksForCpu, Closing
  <2> QED
    BY <1>1, <2>2, <2>3, QuietMove
<1> QED
  BY <1>3, <1>4, <1>5

\* Arming the polls again before the blocking wait keeps a pending wake-up.
LEMMA RearmLooks ==
  ASSUME ~RingMayFail, LoopOK, WakesOK, ~life, NEW w \in Workers,
         Living(ph[w], st[w]), RearmWakePolls(w)
  PROVE  Lives(w) /\ (LooksForCpu(w)' \/ Quiet)
<1>1. CASE Goto(w, "unlink", "ready")
  BY <1>1, GotoLands DEF Lives, Living, LooksForCpu
<1>2. CASE /\ shPoll' = [shPoll EXCEPT ![w] = ArmIfIdle(@, shChan)]
           /\ loPoll' = [loPoll EXCEPT ![w] = ArmIfIdle(@, loChan[w])]
           /\ Goto(w, "blocked", "none")
  <2>0. ph[w] = "rearm"
    BY DEF RearmWakePolls, At
  <2>1. /\ ph'[w] = "blocked"
        /\ \A v \in Workers \ {w} : ph'[v] = ph[v] /\ st'[v] = st[v]
    BY <1>2, GotoLands
  <2>2. Lives(w)
    BY <2>1 DEF Lives, Living
  <2>3. UNCHANGED <<clientVars, running, shChan, loChan, cqes, cpuQ, ioQ>>
    BY DEF RearmWakePolls, countVars, sharedQ, ownQ
  <2>4. \A v \in Workers : Sleeping(v)' => Sleeping(v)
    BY <2>0, <2>1 DEF Sleeping
  <2>5. \A v \in Workers : LooksForCpu(v) => LooksForCpu(v)'
    BY <2>0, <2>1 DEF LooksForCpu, Closing
  <2>6. \A v \in Workers : LooksForIo(v) => LooksForIo(v)'
    BY <2>0, <2>1 DEF LooksForIo, Closing
  <2>7. \A v \in Workers \ {w} : shPoll'[v] = shPoll[v] /\ loPoll'[v] = loPoll[v]
    BY <1>2 DEF WakesOK
  <2>8. /\ shPoll'[w] = ArmIfIdle(shPoll[w], shChan)
        /\ loPoll'[w] = ArmIfIdle(loPoll[w], loChan[w])
    BY <1>2 DEF WakesOK
  <2>9. WakePending(w) => WakePending(w)'
    BY <2>1, <2>3, <2>8 DEF WakePending, Sleeping, HasCqe, ArmIfIdle, ArmedOn
  <2>10. \A v \in Workers : WakePending(v) => WakePending(v)'
    BY <2>1, <2>3, <2>7, <2>9 DEF WakePending, Sleeping, HasCqe
  <2>11. \A c \in Clients : Committed(c) => Committed(c)'
    BY <2>3 DEF Committed, clientVars
  <2>12. Quiet
    BY <2>3, <2>4, <2>5, <2>6, <2>10, <2>11, Zenon DEF Quiet
  <2> QED
    BY <2>2, <2>12
<1> QED
  BY <1>1, <1>2 DEF RearmWakePolls

\* A step of a worker of a running context keeps the worker in its loop and the
\* shared queues covered.
LEMMA WorkerCovers ==
  ASSUME ~RingMayFail, TypeInv, NoneLeft, Covered, ~life, NEW w \in Workers,
         WorkerStep(w) \/ WorkerEnv(w)
  PROVE  NoneLeft' /\ Covered'
<1>0. LoopOK /\ WakesOK /\ Living(ph[w], st[w])
  BY DEF TypeInv, NoneLeft
<1>1. CASE KernelCompletes(w)
  <2>1. PICK op : cqes' = [cqes EXCEPT ![w] = @ \cup {op}]
    BY <1>1, Zenon DEF KernelCompletes
  <2>2. UNCHANGED <<clientVars, running, shChan, loChan, shPoll, loPoll, cpuQ, ioQ, ph, st>>
    BY <1>1 DEF KernelCompletes, countVars, sharedQ, wakeVars, loopVars
  <2>3. \A v \in Workers : HasCqe(v) => HasCqe(v)'
    BY <2>1, <2>2 DEF HasCqe, TypeInv, PlacesOK
  <2>4. \A v \in Workers : WakePending(v) => WakePending(v)'
    BY <2>2, <2>3 DEF WakePending, Sleeping
  <2>5. \A c \in Clients : Committed(c) => Committed(c)'
    BY <2>2 DEF Committed, clientVars
  <2>6. Quiet
    BY <2>2, <2>4, <2>5 DEF Quiet, Sleeping, LooksForCpu, LooksForIo
  <2>7. NoneLeft'
    BY <2>2 DEF NoneLeft
  <2> QED
    BY <2>6, <2>7, QuietCovered
<1>2. CASE ~KernelCompletes(w)
  <2>1. Lives(w) /\ (LooksForCpu(w)' \/ Quiet)
    <3>1. CASE \/ RunCall(w) \/ CanStartRun(w) \/ RunNativeLoop(w) \/ EnterRun(w)
               \/ ArmWakePolls(w)
      BY <1>0, <3>1, EnterLooks, Zenon
    <3>2. CASE \/ PrepareFound(w) \/ BeginWaitLink(w) \/ BeginWaitDec(w)
               \/ WaitReturns(w) \/ WaitTimesOut(w) \/ WaitInterrupted(w)
               \/ WaitFails(w) \/ EndWaitUnlink(w) \/ EndWaitInc(w)
               \/ DecideAfterWait(w)
      BY <1>0, <3>2, WaitLooks DEF WaitReturns, WaitTimesOut, WaitInterrupted,
         WaitFails
    <3>3. CASE \/ CollectReadyCqes(w) \/ RunCpuBatch(w) \/ ConsumeTimeouts(w)
               \/ ConsumeIo(w) \/ \E op \in Ops : ExecuteTask(w, op)
      BY <1>0, <3>3, SourcesLook
    <3> QED
      BY <1>0, <1>2, <3>1, <3>2, <3>3, PhasesLook, RearmLooks, NoLeaving, Zenon
         DEF WorkerStep, WorkerEnv
  <2>2. NoneLeft'
    BY <2>1 DEF NoneLeft, Lives
  <2> QED
    BY <2>1, <2>2, QuietCovered, LooksCovered
<1> QED
  BY <1>1, <1>2

(***************************************************************************)
(* The publishers.                                                         *)
(***************************************************************************)
\* When every worker inside run() is counted awake, none sleeps.
LEMMA AllAwakeNoneSleeps ==
  ASSUME TypeInv, awake >= running PROVE \A w \in Workers : ~Sleeping(w)
<1>1. AwakeSet \subseteq RunningSet
  BY DEF AwakeSet, RunningSet, AwakePhases
<1>2. Cardinality(AwakeSet) <= Cardinality(RunningSet)
  BY <1>1, FiniteCounts, FS_Subset
<1>3. Cardinality(AwakeSet) = Cardinality(RunningSet)
  BY <1>2, FiniteCounts DEF TypeInv, CountersAgree
<1>4. AwakeSet = RunningSet
  BY <1>1, <1>3, FiniteCounts, FS_Subset
<1> QED
  BY <1>4 DEF AwakeSet, RunningSet, AwakePhases, Sleeping

\* A thread inside submit_lock keeps the others out.
LEMMA LockStep ==
  ASSUME CallsOK, LockHeld, NEW c \in Clients, ClientCall(c) \/ ClientStep(c)
  PROVE  LockHeld'
<1>1. ASSUME NEW op \in Ops, Publish(c, op) PROVE LockHeld'
  BY <1>1, ConstantsAssumption DEF Publish, LockHeld, CallsOK
<1>2. ASSUME NEW op \in Ops, StartTimerWait(c, op) PROVE LockHeld'
  BY <1>2 DEF StartTimerWait, LockHeld, CallsOK
<1>3. CASE WakeIfAllSleeping(c)
  BY <1>3, ConstantsAssumption DEF WakeIfAllSleeping, LockHeld, CallsOK
<1>4. CASE LoadAwake(c)
  BY <1>4 DEF LoadAwake, LockHeld, CallsOK
<1>5. CASE LoadRunning(c)
  BY <1>5 DEF LoadRunning, LockHeld, CallsOK
<1>6. CASE WakeOneSleeping(c)
  BY <1>6 DEF WakeOneSleeping, LockHeld, CallsOK
<1> QED
  BY <1>1, <1>2, <1>3, <1>4, <1>5, <1>6 DEF ClientCall, ClientStep

\* A step that touches neither the workers nor the queues is quiet when it keeps
\* the publishers committed and only raises wake channels.
LEMMA QuietOutside ==
  ASSUME UNCHANGED <<ph, st, cqes>>, cpuQ' \subseteq cpuQ, ioQ' \subseteq ioQ,
         UNCHANGED wakeVars \/ (WakesOK /\ SignalShared /\ UNCHANGED <<loChan, loPoll>>),
         \A c \in Clients : Committed(c) => Committed(c)'
  PROVE  Quiet
<1>1. \A w \in Workers : WakePending(w) => WakePending(w)'
  <2>1. CASE UNCHANGED wakeVars
    BY <2>1 DEF WakePending, Sleeping, HasCqe, wakeVars
  <2>2. CASE WakesOK /\ SignalShared /\ UNCHANGED <<loChan, loPoll>>
    BY <2>2 DEF WakePending, Sleeping, HasCqe, SignalShared, Fire, WakesOK
  <2> QED
    BY <2>1, <2>2
<1> QED
  BY <1>1 DEF Quiet, Sleeping, LooksForCpu, LooksForIo

\* A step of a publisher keeps the shared queues covered.
LEMMA ClientCovers ==
  ASSUME TypeInv, NoneLeft, LockHeld, Covered, ~life, NEW c \in Clients,
         ClientCall(c) \/ ClientStep(c)
  PROVE  Covered'
<1>0. CallsOK /\ WakesOK /\ LoopOK /\ CountersAgree /\ awake \in Nat /\ running \in Nat
  BY FiniteCounts DEF TypeInv, CountersAgree
<1>1. ASSUME NEW op \in Ops, Publish(c, op) PROVE Covered'
  <2>1. Committed(c)'
    BY <1>0, <1>1 DEF Publish, Rejects, Committed, CallsOK
  <2> QED
    BY <2>1 DEF Covered, SomeoneWakes
<1>2. ASSUME NEW op \in Ops, StartTimerWait(c, op) PROVE Covered'
  <2>1. UNCHANGED <<ph, st, cqes, cpuQ, ioQ, lock, seen, running>> /\ UNCHANGED wakeVars
    BY <1>2 DEF StartTimerWait, workerUnchanged, loopVars, sharedQ, countVars
  <2>2. \A d \in Clients : Committed(d) => Committed(d)'
    BY <1>0, <1>2, <2>1 DEF StartTimerWait, Committed, CallsOK
  <2> QED
    BY <2>1, <2>2, QuietOutside, QuietCovered
<1>3. CASE WakeIfAllSleeping(c)
  <2>1. UNCHANGED <<ph, st, cqes, cpuQ, ioQ>> /\ UNCHANGED wakeVars
    BY <1>3 DEF WakeIfAllSleeping, workerUnchanged, loopVars, sharedQ
  <2>2. \A d \in Clients : ~Committed(d)
    BY <1>3, ConstantsAssumption DEF WakeIfAllSleeping, Committed
  <2> QED
    BY <2>1, <2>2, QuietOutside, QuietCovered
<1>4. CASE LoadAwake(c)
  <2>1. CASE awake < running
    <3>1. Committed(c)'
      BY <1>0, <1>4, <2>1 DEF LoadAwake, LockHeld, Committed, CallsOK, countVars
    <3> QED
      BY <3>1 DEF Covered, SomeoneWakes
  <2>2. CASE awake >= running
    <3>1. \A w \in Workers : ~Sleeping(w)'
      BY <1>4, <2>2, AllAwakeNoneSleeps DEF LoadAwake, workerUnchanged, loopVars,
         Sleeping
    <3> QED
      BY <3>1 DEF Covered, SomeoneWakes
  <2> QED
    BY <1>0, <2>1, <2>2
<1>5. CASE LoadRunning(c)
  <2>1. UNCHANGED <<ph, st, cqes, cpuQ, ioQ>> /\ UNCHANGED wakeVars
    BY <1>5 DEF LoadRunning, workerUnchanged, loopVars, sharedQ
  <2>2. lock = c
    BY <1>5 DEF LoadRunning, LockHeld
  <2>3. \A d \in Clients : Committed(d) => d = c
    BY <2>2 DEF Committed
  <2>4. Committed(c) => Committed(c)'
    <3>1. SUFFICES ASSUME Committed(c) PROVE Committed(c)'
      OBVIOUS
    <3>2. seen < running
      BY <1>5, <3>1 DEF LoadRunning, Committed
    <3>3. ~AllAwake
      BY <1>0, <3>2 DEF AllAwake, TypeInv
    <3> QED
      BY <1>0, <1>5, <2>2, <3>3 DEF LoadRunning, Committed, CallsOK
  <2> QED
    BY <2>1, <2>3, <2>4, QuietOutside, QuietCovered
<1>6. CASE WakeOneSleeping(c)
  <2>1. UNCHANGED <<ph, st>>
    BY <1>6 DEF WakeOneSleeping, workerUnchanged, loopVars
  <2>2. ASSUME NEW w \in suspend, loChan' = [loChan EXCEPT ![w] = TRUE] PROVE Covered'
    <3>1. w \in Workers /\ Linked(ph[w], st[w])
      BY <1>0 DEF CountersAgree, LinkedSet
    <3>2. CASE Sleeping(w)
      <4>1. WakePending(w)'
        BY <1>0, <2>1, <2>2, <3>1, <3>2 DEF WakePending, Sleeping, WakesOK
      <4> QED
        BY <3>1, <4>1, Zenon DEF Covered, SomeoneWakes
    <3>3. CASE ~Sleeping(w)
      <4>1. LooksForCpu(w)' /\ LooksForIo(w)'
        BY <2>1, <3>1, <3>3 DEF Linked, Sleeping, LooksForCpu, LooksForIo
      <4> QED
        BY <3>1, <4>1 DEF Covered
    <3> QED
      BY <3>2, <3>3
  <2>3. CASE suspend = {}
    <3>1. \A w \in Workers : ~Sleeping(w)'
      BY <1>0, <2>1, <2>3 DEF CountersAgree, LinkedSet, Linked, Sleeping
    <3> QED
      BY <3>1 DEF Covered, SomeoneWakes
  <2> QED
    BY <1>6, <2>2, <2>3, Zenon DEF WakeOneSleeping
<1> QED
  BY <1>1, <1>2, <1>3, <1>4, <1>5, <1>6 DEF ClientCall, ClientStep

(***************************************************************************)
(* stop(), and the theorem.                                                *)
(***************************************************************************)
\* Until life_state is published, stop() keeps the shared queues covered.
LEMMA StopCovers ==
  ASSUME TypeInv, NoneLeft, Covered, ~life, NEW t \in Workers \cup Stoppers,
         StopCall(t) \/ StopStep(t), ~PublishLife(t)
  PROVE  Covered'
<1>0. WakesOK
  BY DEF TypeInv
<1>1. UNCHANGED <<ph, st, cqes, running>> /\ UNCHANGED clientVars
  BY Zenon DEF StopCall, StopStep, ElectStopper, JoinStopped, AbortTimerWaits, WakeWorkers,
     WorkersGone, DrainTake, DrainExecute, DrainNext, workerUnchanged, loopVars,
     countVars
<1>2. \A c \in Clients : Committed(c) => Committed(c)'
  BY <1>1 DEF Committed, clientVars
<1>3. UNCHANGED wakeVars \/ (SignalShared /\ UNCHANGED <<loChan, loPoll>>)
  BY Zenon DEF StopCall, StopStep, ElectStopper, JoinStopped, AbortTimerWaits, WakeWorkers,
     WorkersGone, DrainTake, DrainExecute, DrainNext
<1>4. cpuQ' \subseteq cpuQ /\ ioQ' \subseteq ioQ
  <2>1. ASSUME NEW op \in Ops, DrainExecute(t, op)
        PROVE  cpuQ' \subseteq cpuQ /\ ioQ' \subseteq ioQ
    <3>1. PICK kids : StartKids(t, kids)
      BY <2>1, Zenon DEF DrainExecute
    <3>2. t \in Workers => ph[t] # "noring"
      BY Zenon DEF NoneLeft, Living
    <3>3. Placed(t, kids).shared = {}
      BY <3>2 DEF Placed
    <3> QED
      BY <3>1, <3>3, Zenon DEF StartKids
  <2> QED
    BY <2>1, Zenon DEF StopCall, StopStep, ElectStopper, JoinStopped, AbortTimerWaits,
       WakeWorkers, WorkersGone, DrainTake, DrainNext, sharedQ
<1> QED
  BY <1>0, <1>1, <1>2, <1>3, <1>4, QuietOutside, QuietCovered

\* Only begin_stop() writes life_state.
LEMMA LifeStep ==
  ASSUME [Next]_vars
  PROVE  \/ \E t \in Workers \cup Stoppers : PublishLife(t)
         \/ UNCHANGED life
<1>1. ASSUME NEW w \in Workers, WorkerStep(w) \/ WorkerEnv(w) PROVE UNCHANGED life
  <2>1. UNCHANGED lifeVars
    BY <1>1, Zenon DEF WorkerStep, WorkerEnv, CanStartRun, RunNativeLoop, EnterRun,
       ArmWakePolls, CollectReadyCqes, RunCpuBatch, ExecuteTask, ConsumeTimeouts,
       ConsumeIo, HandleFin, PrepareFound, BeginWaitLink, BeginWaitDec,
       RearmWakePolls, WaitReturns, EndWaitUnlink, EndWaitInc, DecideAfterWait,
       AbortInflight, LeaveRun, ReleaseSlot, RunCall, WaitTimesOut,
       WaitInterrupted, WaitFails, KernelCompletes, LeaveKernel
  <2> QED
    BY <2>1 DEF lifeVars
<1>2. ASSUME NEW c \in Clients, ClientCall(c) \/ ClientStep(c) PROVE UNCHANGED life
  BY <1>2, Zenon DEF ClientCall, ClientStep, Publish, StartTimerWait, WakeIfAllSleeping,
     LoadAwake, LoadRunning, WakeOneSleeping, lifeVars
<1>3. ASSUME NEW t \in Workers \cup Stoppers, StopCall(t) \/ StopStep(t)
      PROVE  PublishLife(t) \/ UNCHANGED life
  BY <1>3, Zenon DEF StopCall, StopStep, ElectStopper, JoinStopped, AbortTimerWaits,
     WakeWorkers, WorkersGone, DrainTake, DrainExecute, DrainNext, lifeVars
<1>4. CASE Terminated \/ UNCHANGED vars
  BY <1>4, Zenon DEF Terminated, vars, lifeVars
<1> QED
  BY <1>1, <1>2, <1>3, <1>4 DEF Next

\* The threads other than the publishers leave submit_lock alone.
LEMMA LockHeldStep ==
  ASSUME TypeInv, LockHeld, [Next]_vars PROVE LockHeld'
<1>1. ASSUME UNCHANGED clientVars PROVE LockHeld'
  BY <1>1 DEF clientVars, LockHeld
<1>2. ASSUME NEW w \in Workers, WorkerStep(w) \/ WorkerEnv(w) PROVE LockHeld'
  <2>1. UNCHANGED clientVars
    BY <1>2, Zenon DEF WorkerStep, WorkerEnv, CanStartRun, RunNativeLoop, EnterRun,
       ArmWakePolls, CollectReadyCqes, RunCpuBatch, ExecuteTask, ConsumeTimeouts,
       ConsumeIo, HandleFin, PrepareFound, BeginWaitLink, BeginWaitDec,
       RearmWakePolls, WaitReturns, EndWaitUnlink, EndWaitInc, DecideAfterWait,
       AbortInflight, LeaveRun, ReleaseSlot, RunCall, WaitTimesOut,
       WaitInterrupted, WaitFails, KernelCompletes, LeaveKernel
  <2> QED
    BY <1>1, <2>1
<1>3. ASSUME NEW c \in Clients, ClientCall(c) \/ ClientStep(c) PROVE LockHeld'
  BY <1>3, LockStep DEF TypeInv
<1>4. ASSUME NEW t \in Workers \cup Stoppers, StopCall(t) \/ StopStep(t)
      PROVE  LockHeld'
  <2>1. UNCHANGED clientVars
    BY <1>4, Zenon DEF StopCall, StopStep, ElectStopper, JoinStopped, AbortTimerWaits,
       PublishLife, WakeWorkers, WorkersGone, DrainTake, DrainExecute, DrainNext
  <2> QED
    BY <1>1, <2>1
<1>5. CASE Terminated \/ UNCHANGED vars
  BY <1>1, <1>5 DEF Terminated, vars
<1> QED
  BY <1>2, <1>3, <1>4, <1>5 DEF Next

\* WakeInv is inductive when the ring does not fail.
LEMMA WakeStep ==
  ASSUME ~RingMayFail, WakeInv, [Next]_vars PROVE WakeInv'
<1>1. TypeInv' /\ LockHeld'
  BY TypeStep, LockHeldStep DEF WakeInv
<1>2. NoneLeft' /\ Covered'
  <2>1. CASE life'
    BY <2>1 DEF NoneLeft, Covered
  <2>2. CASE ~life' /\ ~life
    <3>1. ASSUME NEW w \in Workers, WorkerStep(w) \/ WorkerEnv(w)
          PROVE  NoneLeft' /\ Covered'
      BY <2>2, <3>1, WorkerCovers DEF WakeInv
    <3>2. ASSUME NEW c \in Clients, ClientCall(c) \/ ClientStep(c)
          PROVE  NoneLeft' /\ Covered'
      <4>1. UNCHANGED loopVars
        BY <3>2, Zenon DEF ClientCall, ClientStep, Publish, StartTimerWait,
           WakeIfAllSleeping, LoadAwake, LoadRunning, WakeOneSleeping, workerUnchanged
      <4>2. NoneLeft'
        BY <2>2, <4>1 DEF NoneLeft, loopVars, WakeInv
      <4> QED
        BY <2>2, <3>2, <4>2, ClientCovers DEF WakeInv
    <3>3. ASSUME NEW t \in Workers \cup Stoppers, StopCall(t) \/ StopStep(t)
          PROVE  NoneLeft' /\ Covered'
      <4>1. UNCHANGED loopVars
        BY <3>3, Zenon DEF StopCall, StopStep, ElectStopper, JoinStopped, AbortTimerWaits,
           PublishLife, WakeWorkers, WorkersGone, DrainTake, DrainExecute, DrainNext,
           workerUnchanged
      <4>2. NoneLeft'
        BY <2>2, <4>1 DEF NoneLeft, loopVars, WakeInv
      <4>3. ~PublishLife(t)
        BY <2>2 DEF PublishLife
      <4> QED
        BY <2>2, <3>3, <4>2, <4>3, StopCovers DEF WakeInv
    <3>4. CASE Terminated \/ UNCHANGED vars
      <4>1. UNCHANGED <<life, ph, st, cqes, cpuQ, ioQ, cpc, seen, lock, running,
                        shChan, loChan, shPoll, loPoll>>
        BY <3>4 DEF Terminated, vars, lifeVars, loopVars, ownQ, sharedQ, clientVars,
           countVars, wakeVars
      <4>2. Quiet
        BY <4>1, QuietOutside DEF Committed, wakeVars
      <4>3. NoneLeft'
        BY <4>1 DEF NoneLeft, WakeInv
      <4> QED
        BY <2>2, <4>2, <4>3, QuietCovered DEF WakeInv
    <3> QED
      BY <3>1, <3>2, <3>3, <3>4 DEF Next
  <2> QED
    BY <2>1, <2>2, LifeStep, Zenon DEF PublishLife
<1> QED
  BY <1>1, <1>2 DEF WakeInv

\* A fresh context satisfies WakeInv.
LEMMA WakeInit == Init => WakeInv
<1> SUFFICES ASSUME Init PROVE WakeInv
  OBVIOUS
<1>1. NoneLeft /\ LockHeld /\ Covered
  BY DEF Init, NoneLeft, Living, LockHeld, Covered
<1> QED
  BY <1>1, TypeInit DEF WakeInv

\* No wake-up is lost, for any number of workers, publishers, stoppers and
\* operations, when the ring neither refuses a poll nor fails a wait: work that a
\* publisher left in a shared queue of a running context is seen by a worker
\* before it blocks, or some worker's blocking wait is due to return.  The order
\* of begin_wait(), the recheck and the two loads of wake_one_sleeping_locked()
\* are what the proof rests on.
THEOREM NoLostWakeupCorrect ==
  ASSUME ~RingMayFail PROVE Spec => []NoLostWakeup
<1>1. WakeInv /\ [Next]_vars => WakeInv'
  BY WakeStep
<1>2. WakeInv => NoLostWakeup
  <2> SUFFICES ASSUME WakeInv, ~life, lock = NoOne, \E w \in Workers : Sleeping(w)
               PROVE  /\ cpuQ # {} => \E w \in Workers : LooksForCpu(w) \/ WakePending(w)
                      /\ ioQ # {} => \E w \in Workers : LooksForIo(w) \/ WakePending(w)
    BY DEF NoLostWakeup
  <2>1. \A c \in Clients : ~Committed(c)
    BY ConstantsAssumption DEF Committed
  <2> QED
    BY <2>1 DEF WakeInv, Covered, SomeoneWakes
<1> QED
  BY <1>1, <1>2, WakeInit, PTL DEF Spec
=============================================================================
