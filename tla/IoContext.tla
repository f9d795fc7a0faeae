------------------------------ MODULE IoContext ------------------------------
(***************************************************************************)
(* The worker group of bnio::io_context on its io_uring backend: threads   *)
(* that run the event loop (io_context::run), threads that start           *)
(* operations from outside (publish_cpu, publish_io, start_timer_wait) and *)
(* threads that call stop().                                               *)
(*                                                                         *)
(* One step is one access to state another thread can see: a pop of a      *)
(* shared queue, a counter update, a list update under its lock, a channel *)
(* write, a ring completion.  The shared queues, the counters and life     *)
(* are sequentially consistent here.                                       *)
(*                                                                         *)
(* Where an operation can be: idle (not started), the shared queues cpuQ   *)
(* and ioQ, linked to an active timer (waits), staged on timers_.ready     *)
(* (ready), one of a worker's own places (localCpu, localIo, retry,        *)
(* inflight, batch), taken by the stopping thread, or completed.           *)
(***************************************************************************)
EXTENDS Naturals, FiniteSets

CONSTANTS
  Workers,        \* threads that call io_context::run() once
  Clients,        \* threads outside the context that start operations
  Stoppers,       \* threads outside the context that call stop() or join()
  CpuOps,         \* operations published with publish_cpu (schedule, resolve)
  IoOps,          \* operations published with publish_io
  TimerOps,       \* waits on a steady_timer
  StopOps,        \* operations whose receiver calls stop()
  SignalWorkers,  \* workers on which a signal handler may call stop()
  Chain,          \* Chain[op]: operations the receiver of op may start
  WaitSpin,       \* options.wait_spin_count
  RingMayFail,    \* the ring may refuse to open, to arm a poll or to wait
  SqMayFill,      \* the submission queue may have no free entry
  SpillToShared,  \* options.local_queue_threshold > 0: a CQE batch may spill
  NoOne           \* no thread

Ops == CpuOps \cup IoOps \cup TimerOps

ASSUME ConstantsAssumption ==
  /\ WaitSpin \in Nat
  /\ RingMayFail \in BOOLEAN /\ SqMayFill \in BOOLEAN /\ SpillToShared \in BOOLEAN
  /\ StopOps \subseteq CpuOps /\ SignalWorkers \subseteq Workers
  /\ Chain \in [Ops -> SUBSET (CpuOps \cup IoOps)]
  /\ NoOne \notin Workers \cup Clients \cup Stoppers

\* An operation is of one kind: it is handed to publish_cpu(), to publish_io() or to
\* start_timer_wait().
ASSUME OpsAssumption ==
  /\ CpuOps \cap IoOps = {} /\ CpuOps \cap TimerOps = {} /\ IoOps \cap TimerOps = {}

\* A process has finitely many threads; the worker counters count them.
ASSUME WorkersAssumption == IsFiniteSet(Workers)

\* The stoppers are the threads that are not inside run().
ASSUME StoppersAssumption == Workers \cap Stoppers = {}

VARIABLES
  \* global_state_ (io_uring_task_queue_state) and lifecycle_
  life,       \* life_state # 0
  stopReq,    \* lifecycle_.stop_requested
  stopped,    \* lifecycle_.stopped
  lock,       \* holder of submit_lock across steps
  running,    \* running_workers
  awake,      \* awake_workers
  suspend,    \* workers linked in the suspend list
  shChan,     \* the shared wake channel is readable
  \* operations
  cpuQ, ioQ, waits, ready, idle, completed,
  \* the worker threads and their native contexts
  ph, st,     \* run-loop phase and the step inside it
  spin,       \* spin rounds left
  timed,      \* the next blocking wait has a timeout
  loChan,     \* the worker's own wake channel is readable
  shPoll, loPoll,  \* its two wake polls: none, armed or fired (CQE posted)
  localCpu, localIo, retry, inflight, cqes, batch,
  \* the publishing threads
  cpc, seen,
  \* the threads inside stop()
  spc, taken, had

lifeVars == <<life, stopReq, stopped>>
countVars == <<running, awake, suspend>>
wakeVars == <<shChan, loChan, shPoll, loPoll>>
sharedQ == <<cpuQ, ioQ>>
timerQ == <<waits, ready>>
ownQ == <<localCpu, localIo, retry, inflight, cqes, batch>>
ledger == <<idle, completed>>
loopVars == <<ph, st, spin, timed>>
clientVars == <<cpc, seen, lock>>
stopVars == <<spc, taken, had>>
vars == <<lifeVars, countVars, wakeVars, sharedQ, timerQ, ownQ, ledger,
          loopVars, clientVars, stopVars>>

(***************************************************************************)
(* Control positions.                                                      *)
(***************************************************************************)
\* The four ways into the final drain: out of the run loop (finish), after a
\* wake poll failed to arm in enter_run (failed), after the ring failed to
\* enable (noring), and the queue_exit of a context that never ran (close).
Closing == {"finish", "failed", "noring", "close"}

Phases == {"idle", "enter", "arm", "ready", "spin", "begin", "recheck",
           "prepare", "rearm", "blocked", "unlink", "inc", "decide", "error",
           "woken", "release", "returned"} \cup Closing

Steps == {"none", "check", "open", "run", "polls", "cqe", "cpu", "exec", "tmr",
          "io", "fin", "found", "link", "dec", "decide", "ready", "finish",
          "woken", "error", "cqe1", "tmr1", "cpu1", "exec1", "abort", "tmr3",
          "cpu3", "exec3", "io3", "out"}

At(w, p, s) == ph[w] = p /\ st[w] = s

Goto(w, p, s) == ph' = [ph EXCEPT ![w] = p] /\ st' = [st EXCEPT ![w] = s]

\* A worker whose receiver is inside stop() does nothing else.
Free(w) == spc[w] = "none"

\* The step after one that found nothing, or whose result the code ignores.
Follow(w, from, to) == st[w] = from /\ Goto(w, ph[w], to)

GotoNext(w) ==
  \/ Follow(w, "cqe", "cpu")
  \/ ph[w] = "prepare" /\ (Follow(w, "tmr", "cpu") \/ Follow(w, "cpu", "io"))
  \/ ph[w] # "prepare" /\ Follow(w, "cpu", "tmr")
  \/ ph[w] = "spin" /\ Follow(w, "tmr", "fin")
  \/ ph[w] \notin {"spin", "prepare"} /\ Follow(w, "tmr", "io")
  \/ Follow(w, "io", "fin")
  \/ Follow(w, "cqe1", "tmr1") \/ Follow(w, "tmr1", "cpu1")
  \/ Follow(w, "cpu1", "abort") \/ Follow(w, "abort", "tmr3")
  \/ Follow(w, "tmr3", "cpu3") \/ Follow(w, "cpu3", "io3")
  \/ Follow(w, "io3", "out")

\* Where a phase goes once one of its steps found work: another pass of the
\* loop, out of the wait section, or one more round of the final drain.
GotoFound(w) ==
  \/ ph[w] \in {"ready", "spin", "woken"} /\ Goto(w, "ready", "cqe")
  \/ ph[w] = "recheck" /\ Goto(w, "unlink", "decide")
  \/ ph[w] = "prepare" /\ Goto(w, "prepare", "found")
  \/ /\ ph[w] \in Closing
     /\ \/ Follow(w, "cqe1", "tmr1") \/ Follow(w, "tmr1", "cpu1")
        \/ Follow(w, "exec1", "cqe1")
        \/ Follow(w, "tmr3", "cpu3") \/ Follow(w, "exec3", "tmr3")
        \/ Follow(w, "io3", "abort")

Init ==
  /\ life = FALSE /\ stopReq = FALSE /\ stopped = FALSE
  /\ lock = NoOne
  /\ running = 0 /\ awake = 0 /\ suspend = {}
  /\ shChan = FALSE
  /\ cpuQ = {} /\ ioQ = {} /\ waits = {} /\ ready = {}
  /\ idle = Ops /\ completed = [op \in Ops |-> 0]
  /\ ph = [w \in Workers |-> "idle"] /\ st = [w \in Workers |-> "none"]
  /\ spin = [w \in Workers |-> 0] /\ timed = [w \in Workers |-> FALSE]
  /\ loChan = [w \in Workers |-> FALSE]
  /\ shPoll = [w \in Workers |-> "none"] /\ loPoll = [w \in Workers |-> "none"]
  /\ localCpu = [w \in Workers |-> {}] /\ localIo = [w \in Workers |-> {}]
  /\ retry = [w \in Workers |-> {}] /\ inflight = [w \in Workers |-> {}]
  /\ cqes = [w \in Workers |-> {}] /\ batch = [w \in Workers |-> {}]
  /\ cpc = [c \in Clients |-> "idle"] /\ seen = 0
  /\ spc = [t \in Workers \cup Stoppers |-> "none"]
  /\ taken = {} /\ had = FALSE

(***************************************************************************)
(* Wake channels.  A write to the shared eventfd completes every armed     *)
(* poll on it; a poll armed on a readable eventfd completes at once.       *)
(***************************************************************************)
Fire(poll) == IF poll = "armed" THEN "fired" ELSE poll

ArmedOn(readable) == IF readable THEN "fired" ELSE "armed"

\* Mutant: the pending flag was not cleared when the poll fired.
ArmIfIdleStale(poll, readable) == poll

\* arm_wake_poll(): a pending poll is left alone.
ArmIfIdle(poll, readable) == IF poll = "none" THEN ArmedOn(readable) ELSE poll

SignalShared ==
  /\ shChan' = TRUE
  /\ shPoll' = [w \in Workers |-> Fire(shPoll[w])]

(***************************************************************************)
(* Entering io_context::run().                                             *)
(***************************************************************************)
\* run(): the slot is counted before any check.
RunCall(w) ==
  /\ At(w, "idle", "none")
  /\ running' = running + 1
  /\ Goto(w, "enter", "check")
  /\ UNCHANGED <<lifeVars, awake, suspend, wakeVars, sharedQ, timerQ, ownQ,
                 ledger, spin, timed, clientVars, stopVars>>

\* run(): can_start_run().
CanStartRun(w) ==
  /\ At(w, "enter", "check")
  /\ IF life THEN Goto(w, "release", "none") ELSE Goto(w, "enter", "open")
  /\ UNCHANGED <<lifeVars, countVars, wakeVars, sharedQ, timerQ, ownQ, ledger,
                 spin, timed, clientVars, stopVars>>

\* run_native_loop(): a context that failed to open, one that was stopped
\* meanwhile (ctx.stop() signals the shared channel under submit_lock and
\* queue_exit delivers), or one that enters its loop.
RunNativeLoop(w) ==
  /\ At(w, "enter", "open")
  /\ \/ RingMayFail /\ Goto(w, "release", "none") /\ UNCHANGED wakeVars
     \/ /\ life /\ lock = NoOne
        /\ SignalShared /\ UNCHANGED <<loChan, loPoll>>
        /\ Goto(w, "close", "abort")
     \/ ~life /\ Goto(w, "enter", "run") /\ UNCHANGED wakeVars
  /\ UNCHANGED <<lifeVars, countVars, sharedQ, timerQ, ownQ, ledger, spin,
                 timed, clientVars, stopVars>>

\* enter_run(): enable the ring, count this worker awake.
EnterRun(w) ==
  /\ At(w, "enter", "run")
  /\ \/ RingMayFail /\ Goto(w, "noring", "cqe1") /\ UNCHANGED awake
     \/ awake' = awake + 1 /\ Goto(w, "arm", "polls")
  /\ UNCHANGED <<lifeVars, running, suspend, wakeVars, sharedQ, timerQ, ownQ,
                 ledger, spin, timed, clientVars, stopVars>>

\* enter_run(): arm both wake polls, or fail_enter_run().
ArmWakePolls(w) ==
  /\ At(w, "arm", "polls")
  /\ \/ /\ shPoll' = [shPoll EXCEPT ![w] = ArmedOn(shChan)]
        /\ loPoll' = [loPoll EXCEPT ![w] = ArmedOn(loChan[w])]
        /\ Goto(w, "ready", "cqe")
     \/ /\ RingMayFail
        /\ \E new \in {shPoll[w], ArmedOn(shChan)} :
             shPoll' = [shPoll EXCEPT ![w] = new]
        /\ Goto(w, "failed", "cqe1") /\ UNCHANGED loPoll
  /\ UNCHANGED <<lifeVars, countVars, shChan, loChan, sharedQ, timerQ, ownQ,
                 ledger, spin, timed, clientVars, stopVars>>

(***************************************************************************)
(* The work sources of a run-loop pass.                                    *)
(***************************************************************************)
\* What a drained wake poll becomes: arm_wake_poll() again, which a full SQ or a
\* failing ring leaves unarmed and a finishing context skips.
Rearmed(w) ==
  IF ph[w] = "failed" THEN {"none"}
  ELSE {"armed"} \cup IF SqMayFill \/ RingMayFail THEN {"none"} ELSE {}

\* collect_ready_cqes(): fired wake polls drain their channel and are armed
\* again; I/O completions leave the inflight list, go
\* back to the local I/O queue (-EAGAIN) or become CPU work, local or (tier 3)
\* shared.  A spill by a worker inside begin_wait/end_wait signals the shared
\* channel under submit_lock.
CollectReadyCqes(w) ==
  /\ Free(w) /\ st[w] \in {"cqe", "cqe1"}
  /\ \E again \in SUBSET cqes[w], spill \in BOOLEAN :
       LET done == cqes[w] \ again
           signal == spill /\ ph[w] = "recheck"
       IN /\ spill => SpillToShared /\ done # {}
          /\ signal => lock = NoOne
          /\ \E shNew \in IF shPoll[w] = "fired" THEN Rearmed(w) ELSE {shPoll[w]} :
               LET shArm == [shPoll EXCEPT ![w] = shNew] IN
               shPoll' = IF signal THEN [v \in Workers |-> Fire(shArm[v])]
                                   ELSE shArm
          /\ shChan' = (signal \/ (shChan /\ shPoll[w] # "fired"))
          /\ \E loNew \in IF loPoll[w] = "fired" THEN Rearmed(w) ELSE {loPoll[w]} :
               loPoll' = [loPoll EXCEPT ![w] = loNew]
          /\ loChan' = [loChan EXCEPT ![w] = @ /\ loPoll[w] # "fired"]
          /\ inflight' = [inflight EXCEPT ![w] = @ \ cqes[w]]
          /\ cqes' = [cqes EXCEPT ![w] = {}]
          /\ localIo' = [localIo EXCEPT ![w] = @ \cup again]
          /\ IF spill
             THEN cpuQ' = cpuQ \cup done /\ UNCHANGED localCpu
             ELSE localCpu' = [localCpu EXCEPT ![w] = @ \cup done] /\ UNCHANGED cpuQ
          /\ IF done = {} \/ ph[w] = "ready" THEN GotoNext(w) ELSE GotoFound(w)
  /\ UNCHANGED <<lifeVars, countVars, ioQ, timerQ, retry, batch, ledger, spin,
                 timed, clientVars, stopVars>>

\* run_cpu_batch(): fetch_cpu_task takes the local queue, else the shared one.
RunCpuBatch(w) ==
  /\ Free(w) /\ st[w] \in {"cpu", "cpu1", "cpu3"}
  /\ LET exec == IF st[w] = "cpu" THEN "exec"
                 ELSE IF st[w] = "cpu1" THEN "exec1" ELSE "exec3"
     IN \/ /\ localCpu[w] # {}
           /\ batch' = [batch EXCEPT ![w] = localCpu[w]]
           /\ localCpu' = [localCpu EXCEPT ![w] = {}]
           /\ Goto(w, ph[w], exec) /\ UNCHANGED cpuQ
        \/ /\ localCpu[w] = {} /\ cpuQ # {}
           /\ batch' = [batch EXCEPT ![w] = cpuQ]
           /\ cpuQ' = {}
           /\ Goto(w, ph[w], exec) /\ UNCHANGED localCpu
        \/ /\ localCpu[w] = {} /\ cpuQ = {}
           /\ GotoNext(w) /\ UNCHANGED <<batch, localCpu, cpuQ>>
  /\ UNCHANGED <<lifeVars, countVars, wakeVars, ioQ, timerQ, localIo, retry,
                 inflight, cqes, ledger, spin, timed, clientVars, stopVars>>

\* What the operations started by a receiver on thread t become: work in the
\* worker's own queues; in the shared queues when enter_run() failed before it
\* made the native context current; and, outside the context, operations the
\* stopping context rejects and t completes inline.
Placed(t, kids) ==
  LET own == t \in Workers /\ ph[t] \notin {"noring", "close"}
      shared == t \in Workers /\ ph[t] = "noring"
  IN [own |-> IF own THEN kids ELSE {},
      shared |-> IF shared THEN kids ELSE {},
      inline |-> IF own \/ shared THEN {} ELSE kids]

StartKids(t, kids) ==
  LET p == Placed(t, kids) IN
  /\ idle' = idle \ kids
  /\ cpuQ' = cpuQ \cup (p.shared \cap CpuOps)
  /\ ioQ' = ioQ \cup (p.shared \cap IoOps)
  /\ localCpu' = [w \in Workers |-> IF w = t THEN localCpu[w] \cup (p.own \cap CpuOps)
                                    ELSE localCpu[w]]
  /\ localIo' = [w \in Workers |-> IF w = t THEN localIo[w] \cup (p.own \cap IoOps)
                                   ELSE localIo[w]]

\* execute_tasks(): one operation reaches its receiver, which may start others
\* and may call stop().
ExecuteTask(w, op) ==
  /\ Free(w) /\ st[w] \in {"exec", "exec1", "exec3"}
  /\ op \in batch[w]
  /\ completed' = [completed EXCEPT ![op] = @ + 1]
  /\ \E kids \in SUBSET (Chain[op] \cap idle) :
       LET left == (batch[w] \ {op}) \cup Placed(w, kids).inline IN
       /\ StartKids(w, kids)
       /\ batch' = [batch EXCEPT ![w] = left]
       /\ IF left = {} THEN GotoFound(w) ELSE UNCHANGED <<ph, st>>
  /\ spc' = IF op \in StopOps THEN [spc EXCEPT ![w] = "elect"] ELSE spc
  /\ UNCHANGED <<lifeVars, countVars, wakeVars, timerQ, retry,
                 inflight, cqes, spin, timed, clientVars, taken, had>>

\* try_fetch_timeout_operations(): the fetch gate or timers_.mutex is taken by
\* another thread (false), or expired waits join timers_.ready and the list is
\* taken.  consume_timeout_operations() moves it to the local CPU queue;
\* prepare_wait_timeout() also sets the timeout of the blocking wait, and a
\* failed fetch there goes straight to the blocking wait without one.  An active
\* timer has a deadline in the heap whether or not an operation waits for it.
ConsumeTimeouts(w) ==
  /\ Free(w) /\ st[w] \in {"tmr", "tmr1", "tmr3"}
  /\ \/ /\ IF ph[w] = "prepare" THEN Goto(w, "rearm", "none") ELSE GotoNext(w)
        /\ UNCHANGED <<timerQ, localCpu, timed>>
     \/ \E expired \in SUBSET waits, deadline \in BOOLEAN :
          /\ (waits \ expired # {} => deadline) /\ (deadline => TimerOps # {})
          /\ waits' = waits \ expired
          /\ ready' = {}
          /\ localCpu' = [localCpu EXCEPT ![w] = @ \cup ready \cup expired]
          /\ timed' = [timed EXCEPT ![w] = IF ph[w] = "prepare" THEN deadline ELSE @]
          /\ IF ready \cup expired = {} THEN GotoNext(w) ELSE GotoFound(w)
  /\ UNCHANGED <<lifeVars, countVars, wakeVars, sharedQ, localIo, retry,
                 inflight, cqes, batch, ledger, spin, clientVars, stopVars>>

\* consume_io_tasks() once the context is stopping or closing: everything
\* queued is completed as stopped, nothing is prepared.
StopConsumesIo(w) == life \/ ph[w] \in Closing \ {"finish"}

ConsumeIo(w) ==
  /\ Free(w) /\ st[w] \in {"io", "io3"}
  /\ LET queued == retry[w] \cup localIo[w] \cup ioQ IN
     \/ /\ queued = {}
        /\ GotoNext(w) /\ UNCHANGED <<localCpu, localIo, retry, inflight, ioQ>>
     \/ /\ queued # {} /\ StopConsumesIo(w)
        /\ localCpu' = [localCpu EXCEPT ![w] = @ \cup queued]
        /\ retry' = [retry EXCEPT ![w] = {}]
        /\ localIo' = [localIo EXCEPT ![w] = {}]
        /\ ioQ' = {}
        /\ GotoFound(w) /\ UNCHANGED inflight
     \/ /\ queued # {} /\ ~StopConsumesIo(w)
        \* The retry slot, then the local queue, then the shared one; the first
        \* source that does not fit leaves its rest in the retry slot and the
        \* later sources untouched.
        /\ \E rest \in IF SqMayFill THEN SUBSET queued ELSE {{}} :
             LET stopAt == IF rest = {} THEN 3
                           ELSE IF rest \subseteq retry[w] THEN 1
                           ELSE IF rest \subseteq localIo[w] THEN 2 ELSE 3
                 popped == retry[w] \cup (IF stopAt > 1 THEN localIo[w] ELSE {})
                                    \cup (IF stopAt > 2 THEN ioQ ELSE {})
             IN /\ \/ rest \subseteq retry[w] \/ rest \subseteq localIo[w]
                   \/ rest \subseteq ioQ
                /\ inflight' = [inflight EXCEPT ![w] = @ \cup (popped \ rest)]
                /\ retry' = [retry EXCEPT ![w] = rest]
                /\ localIo' = [localIo EXCEPT ![w] = @ \ popped]
                /\ ioQ' = ioQ \ popped
        /\ GotoFound(w) /\ UNCHANGED localCpu
  /\ UNCHANGED <<lifeVars, countVars, wakeVars, cpuQ, timerQ, cqes, batch,
                 ledger, spin, timed, clientVars, stopVars>>

(***************************************************************************)
(* Phase transitions.                                                      *)
(***************************************************************************)
\* Going to wait: spin_for_work() first, wait_for_io_work() after its rounds.
StartWait(w) ==
  IF WaitSpin > 0
  THEN Goto(w, "spin", "cqe") /\ spin' = [spin EXCEPT ![w] = WaitSpin - 1]
  ELSE Goto(w, "begin", "link") /\ UNCHANGED spin

\* should_finish() at the end of each phase (inside io_context::run() the
\* native context is never stopped by itself, so only life counts).
HandleFin(w) ==
  /\ Free(w) /\ st[w] = "fin"
  /\ \/ /\ ph[w] \in {"ready", "spin"} /\ life
        /\ Goto(w, "finish", "cqe1") /\ UNCHANGED spin
     \/ ph[w] = "ready" /\ ~life /\ StartWait(w)
     \/ /\ ph[w] = "spin" /\ ~life /\ spin[w] > 0
        /\ Goto(w, "spin", "cqe") /\ spin' = [spin EXCEPT ![w] = @ - 1]
     \/ /\ ph[w] = "spin" /\ ~life /\ spin[w] = 0
        /\ Goto(w, "begin", "link") /\ UNCHANGED spin
     \/ /\ ph[w] = "recheck"
        /\ IF life THEN Goto(w, "unlink", "decide") ELSE Goto(w, "prepare", "tmr")
        /\ UNCHANGED spin
     \/ /\ ph[w] = "prepare"
        /\ IF life THEN Goto(w, "prepare", "found") ELSE Goto(w, "rearm", "none")
        /\ UNCHANGED spin
     \/ /\ ph[w] = "woken" /\ timed[w]
        /\ Goto(w, "ready", "cqe") /\ UNCHANGED spin
     \/ /\ ph[w] = "woken" /\ ~timed[w] /\ life
        /\ Goto(w, "finish", "cqe1") /\ UNCHANGED spin
     \/ ph[w] = "woken" /\ ~timed[w] /\ ~life /\ StartWait(w)
  /\ UNCHANGED <<lifeVars, countVars, wakeVars, sharedQ, timerQ, ownQ, ledger,
                 timed, clientVars, stopVars>>

\* prepare_wait_timeout() found work: it evaluates should_finish() before
\* end_wait(); wait_for_io_work()'s first recheck evaluates it after.
PrepareFound(w) ==
  /\ Free(w) /\ At(w, "prepare", "found")
  /\ IF life THEN Goto(w, "unlink", "finish") ELSE Goto(w, "unlink", "ready")
  /\ UNCHANGED <<lifeVars, countVars, wakeVars, sharedQ, timerQ, ownQ, ledger,
                 spin, timed, clientVars, stopVars>>

\* begin_wait(): link into the suspend list, then leave the awake count.
BeginWaitLink(w) ==
  /\ At(w, "begin", "link")
  /\ suspend' = suspend \cup {w}
  /\ timed' = [timed EXCEPT ![w] = FALSE]
  /\ Goto(w, "begin", "dec")
  /\ UNCHANGED <<lifeVars, running, awake, wakeVars, sharedQ, timerQ, ownQ,
                 ledger, spin, clientVars, stopVars>>

\* Mutant: no recheck between begin_wait() and the blocking wait.
BeginWaitDecNoRecheck(w) ==
  /\ At(w, "begin", "dec")
  /\ awake' = awake - 1
  /\ Goto(w, "rearm", "none")
  /\ UNCHANGED <<lifeVars, running, suspend, wakeVars, sharedQ, timerQ, ownQ,
                 ledger, spin, timed, clientVars, stopVars>>

BeginWaitDec(w) ==
  /\ At(w, "begin", "dec")
  /\ awake' = awake - 1
  /\ Goto(w, "recheck", "cqe")
  /\ UNCHANGED <<lifeVars, running, suspend, wakeVars, sharedQ, timerQ, ownQ,
                 ledger, spin, timed, clientVars, stopVars>>

\* rearm_wake_polls_for_wait(): never block with a poll that is not armed.  The
\* shared poll is armed first; when the local one fails it stays armed.
RearmWakePolls(w) ==
  /\ At(w, "rearm", "none")
  /\ \/ /\ shPoll' = [shPoll EXCEPT ![w] = ArmIfIdle(@, shChan)]
        /\ loPoll' = [loPoll EXCEPT ![w] = ArmIfIdle(@, loChan[w])]
        /\ Goto(w, "blocked", "none")
     \/ /\ \/ shPoll[w] = "none" /\ UNCHANGED shPoll
           \/ /\ loPoll[w] = "none"
              /\ shPoll' = [shPoll EXCEPT ![w] = ArmIfIdle(@, shChan)]
        /\ \/ SqMayFill /\ Goto(w, "unlink", "ready")
           \/ RingMayFail /\ Goto(w, "unlink", "finish")
        /\ UNCHANGED loPoll
  /\ UNCHANGED <<lifeVars, countVars, shChan, loChan, sharedQ, timerQ, ownQ,
                 ledger, spin, timed, clientVars, stopVars>>

\* wait_for_cqe_event(): the ring has a completion, or the timeout fires.
HasCqe(w) == shPoll[w] = "fired" \/ loPoll[w] = "fired" \/ cqes[w] # {}

LeaveKernel(w, target) ==
  /\ Free(w) /\ At(w, "blocked", "none")
  /\ Goto(w, "unlink", target)
  /\ UNCHANGED <<lifeVars, countVars, wakeVars, sharedQ, timerQ, ownQ, ledger,
                 spin, timed, clientVars, stopVars>>

WaitReturns(w) == HasCqe(w) /\ LeaveKernel(w, "woken")

WaitTimesOut(w) == timed[w] /\ LeaveKernel(w, "woken")

WaitInterrupted(w) == LeaveKernel(w, "woken")

WaitFails(w) == RingMayFail /\ LeaveKernel(w, "error")

\* end_wait(): unlink, then rejoin the awake count.
EndWaitUnlink(w) ==
  /\ Free(w) /\ ph[w] = "unlink"
  /\ suspend' = suspend \ {w}
  /\ Goto(w, "inc", st[w])
  /\ UNCHANGED <<lifeVars, running, awake, wakeVars, sharedQ, timerQ, ownQ,
                 ledger, spin, timed, clientVars, stopVars>>

EndWaitInc(w) ==
  /\ Free(w) /\ ph[w] = "inc"
  /\ awake' = awake + 1
  /\ \/ st[w] \in {"ready", "woken"} /\ Goto(w, st[w], "cqe")
     \/ st[w] = "finish" /\ Goto(w, "finish", "cqe1")
     \/ st[w] \in {"decide", "error"} /\ Goto(w, st[w], "none")
  /\ UNCHANGED <<lifeVars, running, suspend, wakeVars, sharedQ, timerQ, ownQ,
                 ledger, spin, timed, clientVars, stopVars>>

\* wait_for_io_work() after end_wait(): should_finish() for a recheck that
\* found work, and for a wait that failed (fatal unless stopping).
DecideAfterWait(w) ==
  /\ Free(w)
  /\ \/ /\ ph[w] = "decide"
        /\ IF life THEN Goto(w, "finish", "cqe1") ELSE Goto(w, "ready", "cqe")
     \/ /\ ph[w] = "error"
        /\ IF life THEN Goto(w, "woken", "cqe") ELSE Goto(w, "finish", "cqe1")
  /\ UNCHANGED <<lifeVars, countVars, wakeVars, sharedQ, timerQ, ownQ, ledger,
                 spin, timed, clientVars, stopVars>>

\* Mutant: the worker's own I/O queue is cleared but not delivered.
AbandonedNoLocal(w) == inflight[w] \cup retry[w] \cup ioQ

\* The I/O operations abort_inflight_io() completes.
Abandoned(w) == inflight[w] \cup retry[w] \cup localIo[w] \cup ioQ

\* abort_inflight_io(): everything this worker or the shared I/O queue still
\* holds is completed as stopped.
AbortInflight(w) ==
  /\ Free(w) /\ st[w] = "abort"
  /\ localCpu' = [localCpu EXCEPT ![w] = @ \cup Abandoned(w)]
  /\ inflight' = [inflight EXCEPT ![w] = {}]
  /\ cqes' = [cqes EXCEPT ![w] = {}]
  /\ retry' = [retry EXCEPT ![w] = {}]
  /\ localIo' = [localIo EXCEPT ![w] = {}]
  /\ ioQ' = {}
  /\ GotoNext(w)
  /\ UNCHANGED <<lifeVars, countVars, wakeVars, cpuQ, timerQ, batch, ledger,
                 spin, timed, clientVars, stopVars>>

\* Mutants: fail_enter_run() ignores or inverts awake_worker_added.
CountedAwakeAlways(w) == TRUE

CountedAwakeFinishOnly(w) == ph[w] = "finish"

\* enter_run() counted this worker awake (awake_worker_added).
CountedAwake(w) == ph[w] \in {"finish", "failed"}

\* The end of run() or fail_enter_run(): unregister_local_state() and leave the
\* awake count.
LeaveRun(w) ==
  /\ Free(w) /\ st[w] = "out"
  /\ suspend' = suspend \ {w}
  /\ awake' = IF CountedAwake(w) THEN awake - 1 ELSE awake
  /\ Goto(w, "release", "none")
  /\ UNCHANGED <<lifeVars, running, wakeVars, sharedQ, timerQ, ownQ, ledger,
                 spin, timed, clientVars, stopVars>>

\* release_worker_slot(), after the native context is destroyed.
ReleaseSlot(w) ==
  /\ ph[w] = "release"
  /\ running' = running - 1
  /\ shPoll' = [shPoll EXCEPT ![w] = "none"]
  /\ loPoll' = [loPoll EXCEPT ![w] = "none"]
  /\ loChan' = [loChan EXCEPT ![w] = FALSE]
  /\ Goto(w, "returned", "none")
  /\ UNCHANGED <<lifeVars, awake, suspend, shChan, sharedQ, timerQ, ownQ,
                 ledger, spin, timed, clientVars, stopVars>>

\* The kernel completes an operation it was given.
KernelCompletes(w) ==
  /\ \E op \in inflight[w] \ cqes[w] : cqes' = [cqes EXCEPT ![w] = @ \cup {op}]
  /\ UNCHANGED <<lifeVars, countVars, wakeVars, sharedQ, timerQ, localCpu,
                 localIo, retry, inflight, batch, ledger, loopVars, clientVars,
                 stopVars>>

(***************************************************************************)
(* Starting operations from outside the context.                           *)
(***************************************************************************)
workerUnchanged == <<loopVars, localCpu, localIo, retry, inflight, cqes, batch>>

\* Mutant: the state is not checked inside submit_lock.
NeverRejects == FALSE

\* publish_cpu(), publish_io(): life_state # 0 inside submit_lock.
Rejects == life

\* publish_cpu() and publish_io() on their shared path: under submit_lock, a
\* stopping context rejects (the caller completes the operation inline), a
\* running one enqueues and goes on to wake_one_sleeping_locked().
Publish(c, op) ==
  /\ cpc[c] = "idle" /\ lock = NoOne
  /\ op \in idle \ TimerOps
  /\ idle' = idle \ {op}
  /\ IF Rejects
     THEN /\ completed' = [completed EXCEPT ![op] = @ + 1]
          /\ UNCHANGED <<sharedQ, cpc, lock>>
     ELSE /\ IF op \in CpuOps THEN cpuQ' = cpuQ \cup {op} /\ UNCHANGED ioQ
                              ELSE ioQ' = ioQ \cup {op} /\ UNCHANGED cpuQ
          /\ cpc' = [cpc EXCEPT ![c] = "readAwake"]
          /\ lock' = c
          /\ UNCHANGED completed
  /\ UNCHANGED <<lifeVars, countVars, wakeVars, timerQ, workerUnchanged, seen,
                 stopVars>>

\* begin_stop() has run abort_pending_timer_waits().
TimersAborted == stopReq /\ \A t \in Workers \cup Stoppers : spc[t] # "abort"

\* timer_wait_operation::start() and start_timer_wait(): an active timer links
\* the wait; an inactive one, or one whose slot stop() unregistered after the
\* wait captured its context, stages it on timers_.ready and may wake a worker;
\* a wait connected after the slot was unregistered completes inline.
StartTimerWait(c, op) ==
  /\ cpc[c] = "idle"
  /\ op \in idle \cap TimerOps
  /\ idle' = idle \ {op}
  /\ \/ /\ ~TimersAborted
        /\ waits' = waits \cup {op}
        /\ UNCHANGED <<ready, completed, cpc>>
     \/ /\ ready' = ready \cup {op}
        /\ cpc' = [cpc EXCEPT ![c] = "wakeIfAllSleeping"]
        /\ UNCHANGED <<waits, completed>>
     \/ /\ TimersAborted
        /\ completed' = [completed EXCEPT ![op] = @ + 1]
        /\ UNCHANGED <<timerQ, cpc>>
  /\ UNCHANGED <<lifeVars, countVars, wakeVars, sharedQ, workerUnchanged, lock,
                 seen, stopVars>>

\* wake_one_if_all_workers_sleeping(): only a group with nobody awake needs a
\* wake-up for timer work.
WakeIfAllSleeping(c) ==
  /\ cpc[c] = "wakeIfAllSleeping" /\ lock = NoOne
  /\ IF awake # 0 \/ life
     THEN cpc' = [cpc EXCEPT ![c] = "idle"] /\ UNCHANGED lock
     ELSE cpc' = [cpc EXCEPT ![c] = "readAwake"] /\ lock' = c
  /\ UNCHANGED <<lifeVars, countVars, wakeVars, sharedQ, timerQ, ledger,
                 workerUnchanged, seen, stopVars>>

\* wake_one_sleeping_locked(): the two unsynchronised loads of its fast path.
LoadAwake(c) ==
  /\ cpc[c] = "readAwake"
  /\ seen' = awake
  /\ cpc' = [cpc EXCEPT ![c] = "readRunning"]
  /\ UNCHANGED <<lifeVars, countVars, wakeVars, sharedQ, timerQ, ledger,
                 workerUnchanged, lock, stopVars>>

\* Mutant: off by one, the fast path is taken with one worker asleep.
AllButOneAwake == seen + 1 >= running

\* The fast path: every worker that entered run() looked awake.
AllAwake == seen >= running

LoadRunning(c) ==
  /\ cpc[c] = "readRunning"
  /\ IF AllAwake
     THEN cpc' = [cpc EXCEPT ![c] = "idle"] /\ lock' = NoOne
     ELSE cpc' = [cpc EXCEPT ![c] = "wake"] /\ UNCHANGED lock
  /\ seen' = 0
  /\ UNCHANGED <<lifeVars, countVars, wakeVars, sharedQ, timerQ, ledger,
                 workerUnchanged, stopVars>>

\* wake_one_sleeping(): write the channel of one linked worker (which one, the
\* cursor decides), else wake_locked() the shared channel.
WakeOneSleeping(c) ==
  /\ cpc[c] = "wake"
  /\ \/ \E w \in suspend :
          /\ loChan' = [loChan EXCEPT ![w] = TRUE]
          /\ loPoll' = [loPoll EXCEPT ![w] = Fire(@)]
          /\ UNCHANGED <<shChan, shPoll>>
     \/ suspend = {} /\ SignalShared /\ UNCHANGED <<loChan, loPoll>>
  /\ cpc' = [cpc EXCEPT ![c] = "idle"] /\ lock' = NoOne
  /\ UNCHANGED <<lifeVars, countVars, sharedQ, timerQ, ledger, workerUnchanged,
                 seen, stopVars>>

(***************************************************************************)
(* stop() and join().                                                      *)
(***************************************************************************)
StopAt(t, s) == spc[t] = s

GotoStop(t, s) == spc' = [spc EXCEPT ![t] = s]

\* Mutants: stop() never, or always, leaves one worker out of its wait.
SelfCountNone(t) == 0

SelfCountAlways(t) == 1

\* is_in_context(): queue_exit of a context that never ran is outside.
SelfCount(t) == IF t \in Workers /\ ph[t] # "close" THEN 1 ELSE 0

StopReturn(t) == IF t \in Workers THEN "none" ELSE "returned"

\* A thread outside calls stop() or starts a join() operation, for the first time
\* or again, or a signal handler calls stop() on a worker that is blocked in the
\* kernel (bound: only as the first stop of the context).
StopCall(t) ==
  /\ StopAt(t, "none") \/ StopAt(t, "returned")
  /\ t \in Stoppers \/ (t \in SignalWorkers /\ At(t, "blocked", "none") /\ ~stopReq)
  /\ GotoStop(t, "elect")
  /\ UNCHANGED <<lifeVars, countVars, wakeVars, sharedQ, timerQ, ledger,
                 workerUnchanged, clientVars, taken, had>>

\* begin_stop(): the stop_requested CAS elects one stopping thread.
ElectStopper(t) ==
  /\ StopAt(t, "elect")
  /\ stopReq' = TRUE
  /\ GotoStop(t, IF stopReq THEN "join" ELSE "abort")
  /\ UNCHANGED <<life, stopped, countVars, wakeVars, sharedQ, timerQ, ledger,
                 workerUnchanged, clientVars, taken, had>>

\* The other callers spin on lifecycle_.stopped.
JoinStopped(t) ==
  /\ StopAt(t, "join") /\ stopped
  /\ GotoStop(t, StopReturn(t))
  /\ UNCHANGED <<lifeVars, countVars, wakeVars, sharedQ, timerQ, ledger,
                 workerUnchanged, clientVars, taken, had>>

\* Mutant: only the inactive timers are drained.
AbortNoTimerWaits(t) ==
  /\ StopAt(t, "abort")
  /\ GotoStop(t, "publish")
  /\ UNCHANGED <<lifeVars, countVars, wakeVars, sharedQ, timerQ, ledger,
                 workerUnchanged, clientVars, taken, had>>

\* begin_stop(): abort_pending_timer_waits() before life_state is published.
AbortTimerWaits(t) ==
  /\ StopAt(t, "abort")
  /\ ready' = ready \cup waits
  /\ waits' = {}
  /\ GotoStop(t, "publish")
  /\ UNCHANGED <<lifeVars, countVars, wakeVars, sharedQ, ledger,
                 workerUnchanged, clientVars, taken, had>>

\* begin_stop(): life_state = 1 under submit_lock.
PublishLife(t) ==
  /\ StopAt(t, "publish") /\ lock = NoOne
  /\ life' = TRUE
  /\ GotoStop(t, "wake")
  /\ UNCHANGED <<stopReq, stopped, countVars, wakeVars, sharedQ, timerQ, ledger,
                 workerUnchanged, clientVars, taken, had>>

\* Mutant: only the workers stop() waits for are woken.
WakeOtherWorkers(t) ==
  /\ \/ StopAt(t, "wake") /\ UNCHANGED <<shChan, shPoll>>
     \/ StopAt(t, "wait") /\ running > SelfCount(t) /\ SignalShared
  /\ GotoStop(t, "wait")
  /\ UNCHANGED <<lifeVars, countVars, loChan, loPoll, sharedQ, timerQ, ledger,
                 workerUnchanged, clientVars, taken, had>>

\* stop_internal(): wake every worker, once whoever calls and again on each turn
\* of the spin.
WakeWorkers(t) ==
  /\ StopAt(t, "wake") \/ (StopAt(t, "wait") /\ running > SelfCount(t))
  /\ SignalShared
  /\ GotoStop(t, "wait")
  /\ UNCHANGED <<lifeVars, countVars, loChan, loPoll, sharedQ, timerQ, ledger,
                 workerUnchanged, clientVars, taken, had>>

WorkersGone(t) ==
  /\ StopAt(t, "wait") /\ running <= SelfCount(t)
  /\ GotoStop(t, "cpu")
  /\ had' = FALSE
  /\ UNCHANGED <<lifeVars, countVars, wakeVars, sharedQ, timerQ, ledger,
                 workerUnchanged, clientVars, taken>>

\* drain_shared_queues_for_stop(): take the shared CPU queue, the shared I/O
\* queue and timers_.ready in turn until a pass finds all three empty.
DrainTake(t) ==
  /\ \/ /\ StopAt(t, "cpu") /\ taken' = cpuQ /\ cpuQ' = {}
        /\ GotoStop(t, "xcpu") /\ UNCHANGED <<ioQ, ready>>
     \/ /\ StopAt(t, "io") /\ taken' = ioQ /\ ioQ' = {}
        /\ GotoStop(t, "xio") /\ UNCHANGED <<cpuQ, ready>>
     \/ /\ StopAt(t, "tmr") /\ taken' = ready /\ ready' = {}
        /\ GotoStop(t, "xtmr") /\ UNCHANGED <<cpuQ, ioQ>>
  /\ had' = (had \/ taken' # {})
  /\ UNCHANGED <<lifeVars, countVars, wakeVars, waits, ledger, workerUnchanged,
                 clientVars>>

\* execute() on the stopping thread.  A receiver that calls stop() again waits
\* for the stop it is part of.
DrainExecute(t, op) ==
  /\ spc[t] \in {"xcpu", "xio", "xtmr"} /\ op \in taken
  /\ completed' = [completed EXCEPT ![op] = @ + 1]
  /\ \E kids \in SUBSET (Chain[op] \cap idle) :
       /\ StartKids(t, kids)
       /\ taken' = (taken \ {op}) \cup Placed(t, kids).inline
  /\ IF op \in StopOps THEN GotoStop(t, "join") ELSE UNCHANGED spc
  /\ UNCHANGED <<lifeVars, countVars, wakeVars, timerQ, loopVars,
                 retry, inflight, cqes, batch, clientVars, had>>

DrainNext(t) ==
  /\ taken = {}
  /\ \/ StopAt(t, "xcpu") /\ GotoStop(t, "io") /\ UNCHANGED <<had, stopped>>
     \/ StopAt(t, "xio") /\ GotoStop(t, "tmr") /\ UNCHANGED <<had, stopped>>
     \/ StopAt(t, "xtmr") /\ had /\ GotoStop(t, "cpu") /\ had' = FALSE
                        /\ UNCHANGED stopped
     \/ StopAt(t, "xtmr") /\ ~had /\ GotoStop(t, StopReturn(t))
                        /\ stopped' = TRUE /\ UNCHANGED had
  /\ UNCHANGED <<life, stopReq, countVars, wakeVars, sharedQ, timerQ, ledger,
                 workerUnchanged, clientVars, taken>>

(***************************************************************************)
(* The specification.                                                      *)
(***************************************************************************)
\* What a worker thread does by itself once it is inside run().
WorkerStep(w) ==
  \/ CanStartRun(w) \/ RunNativeLoop(w) \/ EnterRun(w) \/ ArmWakePolls(w)
  \/ CollectReadyCqes(w) \/ RunCpuBatch(w) \/ (\E op \in Ops : ExecuteTask(w, op))
  \/ ConsumeTimeouts(w) \/ ConsumeIo(w) \/ HandleFin(w) \/ PrepareFound(w)
  \/ BeginWaitLink(w) \/ BeginWaitDec(w) \/ RearmWakePolls(w) \/ WaitReturns(w)
  \/ EndWaitUnlink(w) \/ EndWaitInc(w) \/ DecideAfterWait(w)
  \/ AbortInflight(w) \/ LeaveRun(w) \/ ReleaseSlot(w)

\* What happens to it from outside.
WorkerEnv(w) ==
  RunCall(w) \/ WaitTimesOut(w) \/ WaitInterrupted(w) \/ WaitFails(w) \/ KernelCompletes(w)

ClientCall(c) == \E op \in Ops : Publish(c, op) \/ StartTimerWait(c, op)

ClientStep(c) ==
  WakeIfAllSleeping(c) \/ LoadAwake(c) \/ LoadRunning(c) \/ WakeOneSleeping(c)

StopStep(t) ==
  \/ ElectStopper(t) \/ JoinStopped(t) \/ AbortTimerWaits(t) \/ PublishLife(t)
  \/ WakeWorkers(t) \/ WorkersGone(t) \/ DrainTake(t)
  \/ (\E op \in Ops : DrainExecute(t, op)) \/ DrainNext(t)

\* Every thread has returned and nothing is left to start.
Terminated ==
  /\ \A w \in Workers : ph[w] = "returned"
  /\ \A c \in Clients : cpc[c] = "idle"
  /\ \A s \in Stoppers : spc[s] = "returned"
  /\ idle = {} \/ Clients = {}
  /\ UNCHANGED vars

Next ==
  \/ \E w \in Workers : WorkerStep(w) \/ WorkerEnv(w)
  \/ \E c \in Clients : ClientCall(c) \/ ClientStep(c)
  \/ \E t \in Workers \cup Stoppers : StopCall(t) \/ StopStep(t)
  \/ Terminated

Spec == Init /\ [][Next]_vars

\* Threads run: a worker takes its next step, a publisher leaves its critical
\* section, stop() goes on, and every worker thread calls run().  The kernel
\* owes no completion, no timeout and no signal, clients and stoppers owe no
\* call.
Fairness ==
  /\ \A w \in Workers : WF_vars(WorkerStep(w)) /\ WF_vars(RunCall(w))
  /\ \A c \in Clients : WF_vars(ClientStep(c))
  /\ \A t \in Workers \cup Stoppers : WF_vars(StopStep(t))

FairSpec == Spec /\ Fairness

(***************************************************************************)
(* Properties.                                                             *)
(***************************************************************************)
\* Operations are in the containers, nowhere else.
PlacesOK ==
  /\ cpuQ \subseteq Ops /\ ioQ \subseteq Ops /\ waits \subseteq Ops
  /\ ready \subseteq Ops /\ idle \subseteq Ops /\ taken \subseteq Ops
  /\ localCpu \in [Workers -> SUBSET Ops] /\ localIo \in [Workers -> SUBSET Ops]
  /\ retry \in [Workers -> SUBSET Ops] /\ inflight \in [Workers -> SUBSET Ops]
  /\ cqes \in [Workers -> SUBSET Ops] /\ batch \in [Workers -> SUBSET Ops]
  /\ completed \in [Ops -> Nat]

\* Each phase of the loop has its own steps.
StepOf(p, s) ==
  /\ p \in {"idle", "release", "returned", "rearm", "blocked", "decide", "error"}
       => s = "none"
  /\ p = "enter" => s \in {"check", "open", "run"}
  /\ p = "arm" => s = "polls"
  /\ p \in {"ready", "recheck", "woken"}
       => s \in {"cqe", "cpu", "exec", "tmr", "io", "fin"}
  /\ p = "spin" => s \in {"cqe", "cpu", "exec", "tmr", "fin"}
  /\ p = "begin" => s \in {"link", "dec"}
  /\ p = "prepare" => s \in {"tmr", "cpu", "exec", "io", "fin", "found"}
  /\ p \in {"unlink", "inc"}
       => s \in {"decide", "ready", "finish", "woken", "error"}
  /\ p \in Closing
       => s \in {"cqe1", "tmr1", "cpu1", "exec1", "abort", "tmr3", "cpu3",
                     "exec3", "io3", "out"}

LoopOK ==
  /\ ph \in [Workers -> Phases] /\ st \in [Workers -> Steps]
  /\ \A w \in Workers : StepOf(ph[w], st[w])
  /\ spin \in [Workers -> Nat] /\ timed \in [Workers -> BOOLEAN]
  /\ suspend \subseteq Workers

WakesOK ==
  /\ shChan \in BOOLEAN /\ loChan \in [Workers -> BOOLEAN]
  /\ shPoll \in [Workers -> {"none", "armed", "fired"}]
  /\ loPoll \in [Workers -> {"none", "armed", "fired"}]

CallsOK ==
  /\ life \in BOOLEAN /\ stopReq \in BOOLEAN /\ stopped \in BOOLEAN
  /\ lock \in Clients \cup {NoOne}
  /\ cpc \in [Clients -> {"idle", "wakeIfAllSleeping", "readAwake",
                          "readRunning", "wake"}]
  /\ spc \in [Workers \cup Stoppers ->
                {"none", "elect", "join", "abort", "publish", "wake", "wait",
                 "cpu", "xcpu", "io", "xio", "tmr", "xtmr", "returned"}]
  /\ had \in BOOLEAN

\* Every variable keeps its type, in particular: the three counts are natural
\* numbers, so awake_workers and running_workers (size_t) never wrap below zero,
\* and the run loop is always at a step of the phase it is in.
TypeOK ==
  /\ running \in Nat /\ awake \in Nat /\ seen \in Nat
  /\ PlacesOK /\ LoopOK /\ WakesOK /\ CallsOK

\* The positions awake_workers counts, and those linked in the suspend list.
AwakePhases == {"arm", "ready", "spin", "begin", "decide", "error", "woken",
                "finish", "failed"}

Linked(p, s) ==
  p \in {"recheck", "prepare", "rearm", "blocked", "unlink"} \/ (p = "begin" /\ s = "dec")

AwakeSet == {w \in Workers : ph[w] \in AwakePhases}

LinkedSet == {w \in Workers : Linked(ph[w], st[w])}

RunningSet == {w \in Workers : ph[w] \notin {"idle", "returned"}}

\* The counters and the suspend list tell the truth: running_workers counts the
\* threads inside run(), awake_workers the ones not between begin_wait() and
\* end_wait() (so begin_wait()'s assert(previous != 0) holds and the counter
\* never wraps), and the suspend list holds exactly the workers whose native
\* context is alive and waiting, whatever path they leave the loop by.
CountersAgree ==
  /\ running = Cardinality(RunningSet)
  /\ awake = Cardinality(AwakeSet)
  /\ suspend = LinkedSet

\* The worker will pop the shared CPU queue before it blocks again, whatever
\* else happens.
LooksForCpu(w) ==
  \/ ph[w] \in {"enter", "arm", "ready", "spin", "begin", "unlink", "inc",
                "decide", "error", "woken"}
  \/ ph[w] = "recheck" /\ st[w] \in {"cqe", "cpu", "exec"}
  \/ ph[w] = "prepare" /\ st[w] \in {"cpu", "exec", "found"}
  \/ ph[w] \in Closing /\ st[w] \notin {"io3", "out"}

LooksForIo(w) ==
  \/ ph[w] \in {"enter", "arm", "ready", "spin", "begin", "unlink", "inc",
                "decide", "error", "woken"}
  \/ ph[w] = "recheck" /\ st[w] \in {"cqe", "cpu", "exec", "tmr", "io"}
  \/ ph[w] = "prepare" /\ st[w] \in {"cpu", "exec", "io", "found"}
  \/ ph[w] \in Closing /\ st[w] # "out"

\* The worker is between begin_wait() and the return of its blocking wait.
Sleeping(w) == ph[w] \in {"recheck", "prepare", "rearm", "blocked"}

\* It sleeps, and the blocking wait returns at once.
WakePending(w) ==
  /\ Sleeping(w)
  /\ loChan[w] \/ HasCqe(w) \/ (shPoll[w] = "none" /\ shChan)

\* No lost wake-up.  Once a publisher has left submit_lock, an operation in a
\* shared queue of a running context is never left to workers that all sleep:
\* some worker still looks at that queue before it blocks, or its blocking wait
\* is already due to return.  It is what the link, awake_workers decrement,
\* recheck order of begin_wait() and the awake_workers >= running_workers fast
\* path of wake_one_sleeping_locked() must give together.
NoLostWakeup ==
  ~life /\ lock = NoOne /\ (\E w \in Workers : Sleeping(w)) =>
    /\ cpuQ # {} => \E w \in Workers : LooksForCpu(w) \/ WakePending(w)
    /\ ioQ # {} => \E w \in Workers : LooksForIo(w) \/ WakePending(w)

\* The number of places that hold op, its completion counted as one.
Holders(op) ==
  LET In(S) == IF op \in S THEN 1 ELSE 0
      InOwn(f) == Cardinality({w \in Workers : op \in f[w]})
  IN In(idle) + In(cpuQ) + In(ioQ) + In(waits) + In(ready) + In(taken)
     + InOwn(localCpu) + InOwn(localIo) + InOwn(retry) + InOwn(inflight)
     + InOwn(batch) + completed[op]

\* Every operation is in exactly one place at all times: no hand-over between
\* the queues, the ring, the timers, the workers' final drains and the stopping
\* thread's drain loses an operation or hands it to two receivers' calls.
ExactlyOnce == \A op \in Ops : Holders(op) = 1

\* A worker enters the blocking wait only with both wake polls in the ring, so
\* a directed wake and a stop() can always reach it.
NeverDeaf ==
  \A w \in Workers : ph[w] = "blocked" => shPoll[w] # "none" /\ loPoll[w] # "none"

\* The worker owns no live native context.
Exited(w) == ph[w] \in {"idle", "enter", "release", "returned"}

\* When stop() has finished and the worker it may have run on is out of its loop,
\* every CPU and I/O operation that was ever started has reached its receiver:
\* submit_lock leaves no publish between the life_state store and the drains.
StoppedMeansDelivered ==
  stopped /\ (\A w \in Workers : Exited(w)) =>
    \A op \in (CpuOps \cup IoOps) \ idle : completed[op] = 1

\* A thread outside the context whose stop() or join() returned finds no worker
\* with a native context any more: "The sender completes with set_value() when
\* all workers have exited" (class.h, join()).
StopMeansWorkersExited ==
  \A s \in Stoppers : spc[s] = "returned" => \A w \in Workers : Exited(w)

\* While the context runs, a CPU operation handed to publish_cpu() reaches its
\* receiver.
CpuOpsServed == \A op \in CpuOps : op \in cpuQ ~> completed[op] = 1

\* Once stop() is under way, every thread inside run() comes back from it,
\* wherever its loop is blocked.
RunReturns == \A w \in Workers : stopReq /\ ph[w] # "idle" ~> ph[w] = "returned"

\* stop() comes back on the thread that called it.
StopReturns ==
  \A t \in Workers \cup Stoppers : spc[t] = "elect" ~> spc[t] \in {"none", "returned"}

\* Once stop() is under way, every operation that was started reaches its
\* receiver: queued, in the ring without a completion, or waiting for a timer.
StopDelivers ==
  /\ \A op \in CpuOps \cup IoOps : stopReq /\ op \notin idle ~> completed[op] = 1
  /\ \A op \in TimerOps : stopReq /\ op \in waits ~> completed[op] = 1
==============================================================================
