---------------------------- MODULE KqueueContext ----------------------------
(***************************************************************************)
(* One kqueue_context bound to a worker group: its run loop, its batches   *)
(* of readiness events, the threads that publish to it from outside, the   *)
(* native stop() and the group's closing flag, and its destruction.        *)
(*                                                                         *)
(* The queues are sequences with the head first.  Both kinds of queue are  *)
(* LIFO and are reversed by their consumer.  The worker's own steps are    *)
(* one action per work source; outside threads and the kernel interleave   *)
(* between them.                                                           *)
(***************************************************************************)
EXTENDS KqueueRegistrations

CONSTANTS
  Chain,         \* Chain[op]: the CPU and the I/O operations the receiver of op
                 \* starts, each kind in order
  Publishers,    \* threads outside the run loop
  WaitSpin,      \* options.wait_spin_count
  BatchWindow,   \* options.event_batch_window
  InlineLimit,   \* options.event_inline_completion_threshold
  LocalLimit,    \* options.local_queue_threshold, 0 for none
  Refusable,     \* nodes whose EV_ADD the kernel may refuse
  StepsMayBlock  \* a native step after an event may block: a rival was faster, or
                 \* a signal interrupted the call

ASSUME ContextAssumption ==
  /\ WaitSpin \in Nat /\ BatchWindow \in Nat /\ InlineLimit \in Nat
  /\ LocalLimit \in Nat
  /\ Chain \in [Ops -> [cpu : Seq(CpuOps), io : Seq(IoOps)]]
  /\ Refusable \subseteq Nodes /\ StepsMayBlock \in BOOLEAN
  /\ \A S \in SUBSET TimerOps : Cardinality(S) \in Nat

\* An operation is of one kind, and a receiver starts it once.
ASSUME OpsAssumption ==
  /\ IoOps \cap CpuOps = {} /\ IoOps \cap TimerOps = {} /\ CpuOps \cap TimerOps = {}
  /\ \A op \in Ops : \A list \in {Chain[op].cpu, Chain[op].io} :
       \A i, j \in DOMAIN list : list[i] = list[j] => i = j

VARIABLES
  q,          \* registrations, inflight list and local CPU queue
  localIo,    \* local_state_.io_head
  cpuQ, ioQ,  \* the shared queues
  timers,     \* operations waiting in the timer heap
  state,      \* run_state_.state
  life,       \* global life_state # 0
  waiting,    \* run_state_.waiting
  linked,     \* the worker is in the suspend list
  ph, st,     \* run-loop phase and the step in it
  spin, budget,
  reason,     \* the blocking wait had a timeout or completed an operation
  events,     \* collected kevents of operations, not yet processed
  wakes,      \* wake channels with a collected kevent not yet processed
  tasks,      \* operations the current event batch completed
  batch,      \* CPU operations being executed
  shared, directed,  \* a byte is in the group's, the worker's wake channel
  pub,        \* pub[t]: what a publishing thread still has to do
  \* history: operations not started, I/O operations started with their route,
  \* receiver calls and the order of the native I/O steps
  idle, started, done, performed

queueVars == <<localIo, cpuQ, ioQ, timers>>
loopVars == <<ph, st, spin, budget, reason>>
batchVars == <<events, wakes, tasks, batch>>
wakeVars == <<waiting, linked, shared, directed>>
lifeVars == <<state, life>>
ledger == <<idle, started, done, performed>>
vars == <<q, queueVars, loopVars, batchVars, wakeVars, lifeVars, pub, ledger>>

Init ==
  /\ q = Empty
  /\ localIo = <<>> /\ cpuQ = <<>> /\ ioQ = <<>> /\ timers = TimerOps
  /\ state = "running" /\ life = FALSE
  /\ waiting = FALSE /\ linked = FALSE
  /\ ph = "idle" /\ st = "none" /\ spin = 0 /\ budget = 0 /\ reason = FALSE
  /\ events = <<>> /\ wakes = {} /\ tasks = <<>> /\ batch = <<>>
  /\ shared = FALSE /\ directed = FALSE
  /\ pub = [t \in Publishers |-> "idle"]
  /\ idle = IoOps \cup CpuOps /\ done = [op \in Ops |-> 0]
  /\ started = <<>> /\ performed = <<>>

Goto(p, s) == ph' = p /\ st' = s

Closing == {"finish", "exit"}

\* wake_channel::wake() and drain(): a byte is in the channel or not.
Wake(channel) == TRUE
Drain(channel) == FALSE

stop_requested == state # "running"
closing_requested == life

\* should_finish(): closing forces it, a native stop waits for inflight I/O.
should_finish ==
  closing_requested \/ (stop_requested /\ q.inflight = <<>>)

(***************************************************************************)
(* The order in which a phase asks its work sources, and where it goes     *)
(* when one of them found nothing, and when it found work.                 *)
(***************************************************************************)
Following(s) ==
  LET pass ==
        IF ph \in Closing
        THEN [tmr1 |-> "cpu1", cpu1 |-> "io1", io1 |-> "abort", abort |-> "tmr3",
              tmr3 |-> "cpu3", cpu3 |-> "io3", io3 |-> "out"]
        ELSE IF ph = "spin" THEN [cpu |-> "tmr", tmr |-> "fin"]
        ELSE IF ph = "timeout" THEN [tmr |-> "cpu", cpu |-> "io", io |-> "fin"]
        ELSE [cpu |-> "tmr", tmr |-> "io", io |-> "fin"]
  IN pass[s]

GotoNext == Goto(ph, Following(st))

GotoFound ==
  \/ ph \in {"ready", "spin", "woken"} /\ Goto("ready", "evt")
  \/ ph \in {"recheck", "timeout"} /\ Goto("unlink", "decide")
  \/ ph = "block" /\ Goto("unlink", "woken")
  \/ /\ ph \in Closing
     /\ \/ st = "event1" /\ Goto(ph, "tmr1")
        \/ st \in {"tmr1", "tmr3"} /\ GotoNext
        \/ st \in {"exec1", "io1"} /\ Goto(ph, "evt1")
        \/ st = "exec3" /\ Goto(ph, "tmr3")
        \/ st = "io3" /\ Goto(ph, "abort")

\* handle_run_ready_tasks() ignores what the poll found.
GotoAfterEvents(found) ==
  IF ph = "ready" THEN Goto("ready", "cpu")
  ELSE IF found \/ ph \in Closing \cup {"block"} THEN GotoFound
  ELSE Goto(ph, "cpu")

(***************************************************************************)
(* Readiness events.                                                       *)
(***************************************************************************)
Registered == {p \in Pairs : q.knote[p] # None}

\* The lists of n members of a set, each once.
ListsOf(S, n) == {list \in [1 .. n -> S] : \A i, j \in 1 .. n : list[i] = list[j] => i = j}

Readable == (IF shared THEN {"shared"} ELSE {}) \cup (IF directed THEN {"directed"} ELSE {})

\* One kevent() call that returns at least so many events: the kernel finds any
\* of the registered pairs ready, and every wake channel with a byte in it, and
\* returns up to a window of them.
Collect(least) ==
  \E n \in 0 .. BatchWindow, fired \in SUBSET Readable :
    LET all == n + Cardinality(fired) IN
    /\ least <= all /\ all <= BatchWindow
    /\ fired = Readable \/ all = BatchWindow
    /\ wakes' = fired
    /\ \E seen \in ListsOf(Registered, n) :
         events' = [i \in 1 .. n |-> <<q.knote[seen[i]], seen[i][2]>>]

\* A blocking kevent() returns without an event: a signal, or the end of the
\* timeout.
CollectNothing == events' = <<>> /\ wakes' = {}

\* collect_ready_events(false).  handle_run_ready_tasks() polls only when
\* something is inflight.
CollectReadyEvents ==
  /\ st \in {"evt", "evt1"}
  /\ IF ph = "ready" /\ q.inflight = <<>>
     THEN UNCHANGED <<events, wakes>> ELSE Collect(0)
  /\ Goto(ph, IF st = "evt" THEN "event" ELSE "event1")
  /\ budget' = IF ph = "ready" THEN LocalLimit ELSE budget
  /\ UNCHANGED <<q, queueVars, spin, reason, tasks, batch, wakeVars, lifeVars, pub,
                 ledger>>

\* collect_ready_events(true, timeout): kevent() returns with an event, at the
\* timeout or, when the loop has to end, after a signal.  Any other signal
\* restarts the call; should_finish() by itself does not end it.
WaitForEvents ==
  /\ ph = "block" /\ st = "wait"
  /\ \/ Collect(1)
     \/ CollectNothing /\ reason /\ Readable = {}
     \/ CollectNothing /\ should_finish
  /\ Goto("block", "event")
  /\ UNCHANGED <<q, queueVars, spin, budget, reason, tasks, batch, wakeVars, lifeVars,
                 pub, ledger>>

\* drain_wake_channel(): one wake event of the batch, before or after any event of
\* an operation.  A byte written since the kevent() call is drained with it.
DrainWakeChannel ==
  /\ st \in {"event", "event1"}
  /\ \E channel \in wakes :
       /\ wakes' = wakes \ {channel}
       /\ shared' = IF channel = "shared" THEN Drain(shared) ELSE shared
       /\ directed' = IF channel = "directed" THEN Drain(directed) ELSE directed
  /\ UNCHANGED <<q, queueVars, loopVars, events, tasks, batch, waiting, linked,
                 lifeVars, pub, ledger>>

\* dispatch_event_result(): a poll takes the event as it is, whatever bits
\* poll_result() makes of it.  A read or write fails on an error event or end of
\* file, or takes its native I/O step, which may fail, or would block.
FiredResults(op) ==
  IF TaskOf[op] = "poll" THEN {"ok"}
  ELSE {"ok", "error"} \cup (IF StepsMayBlock THEN {"again"} ELSE {})

\* process_event(): one event of the batch.  An operation that another event of
\* the batch already completed has no live node.  try_rearm_operation() appends
\* the node of an operation whose step would block.
ProcessEvent ==
  /\ st \in {"event", "event1"} /\ events # <<>>
  /\ LET op == Head(events)[1]
         filter == Head(events)[2]
         n == <<op, filter>>
     IN IF n \notin q.live
        THEN UNCHANGED <<q, tasks, performed>>
        ELSE \E bad \in SUBSET Refusable, res \in FiredResults(op) :
               LET fired == FireNode(q, n, bad)
                   blocked == res = "again" /\ ~AppendFails(fired, n, bad)
                   ended == RemoveInflight(UnregisterOperation(fired, op, bad), op)
                   stepped == TaskOf[op] # "poll" /\ res = "ok"
               IN /\ q' = IF blocked THEN AppendNode(fired, n)
                          ELSE ended
                  /\ tasks' = IF blocked THEN tasks ELSE Cons(op, tasks)
                  /\ performed' = IF stepped THEN Append(performed, op) ELSE performed
  /\ events' = Tail(events)
  /\ UNCHANGED <<queueVars, loopVars, wakes, batch, wakeVars, lifeVars, pub, idle, done,
                 started>>

\* dispatch_event_tasks(): keep a batch local within the two limits, publish
\* it to the shared queue otherwise.  A worker that already counts as sleeping
\* wakes the group.
DispatchEventTasks ==
  /\ st \in {"event", "event1"} /\ events = <<>> /\ wakes = {}
  /\ LET n == Len(tasks)
         inline == n <= InlineLimit
         local == inline \/ LocalLimit = 0 \/ (budget > 0 /\ n <= budget)
     IN /\ q' = IF local THEN [q EXCEPT !.cpu = tasks \o @] ELSE q
        /\ cpuQ' = IF local THEN cpuQ ELSE tasks \o cpuQ
        /\ shared' = IF ~local /\ waiting THEN Wake(shared) ELSE shared
        /\ budget' = IF local /\ ~inline /\ LocalLimit > 0 THEN budget - n ELSE budget
        /\ reason' = (reason \/ (ph = "block" /\ n > 0))
        /\ GotoAfterEvents(n > 0)
  /\ tasks' = <<>>
  /\ UNCHANGED <<localIo, ioQ, timers, spin, events, wakes, batch, waiting, linked,
                 directed, lifeVars, pub, ledger>>

(***************************************************************************)
(* Work sources of the run loop.                                           *)
(***************************************************************************)
\* What the receiver of an operation starts on the worker.  Nothing is started
\* twice.
Starts(op) ==
  IF ToSet(Chain[op].cpu) \cup ToSet(Chain[op].io) \subseteq idle THEN Chain[op]
  ELSE [cpu |-> <<>>, io |-> <<>>]

\* post() and publish_io() on the worker thread: the worker's own queues, but the
\* shared ones during queue_exit(), which runs outside run(); nobody waits then.
StartedHere(ops) ==
  LET own == ph # "exit"
      route == IF own THEN "local" ELSE "shared"
  IN /\ q' = IF own THEN [q EXCEPT !.cpu = Reverse(ops.cpu) \o @] ELSE q
     /\ cpuQ' = IF own THEN cpuQ ELSE Reverse(ops.cpu) \o cpuQ
     /\ localIo' = IF own THEN Reverse(ops.io) \o localIo ELSE localIo
     /\ ioQ' = IF own THEN ioQ ELSE Reverse(ops.io) \o ioQ
     /\ started' = started \o [i \in DOMAIN ops.io |-> <<ops.io[i], route>>]
     /\ idle' = idle \ (ToSet(ops.cpu) \cup ToSet(ops.io))

\* run_cpu_batch(): take a whole queue, the worker's own first, oldest first.
RunCpuBatch ==
  /\ st \in {"cpu", "cpu1", "cpu3"}
  /\ LET source == IF q.cpu # <<>> THEN q.cpu ELSE cpuQ
         run == CASE st = "cpu" -> "exec" [] st = "cpu1" -> "exec1" [] OTHER -> "exec3"
     IN IF source = <<>> THEN GotoNext /\ UNCHANGED <<q, cpuQ, batch>>
        ELSE /\ batch' = Reverse(source)
             /\ q' = [q EXCEPT !.cpu = <<>>]
             /\ cpuQ' = IF q.cpu # <<>> THEN cpuQ ELSE <<>>
             /\ Goto(ph, run)
  /\ UNCHANGED <<localIo, ioQ, timers, spin, budget, reason, events, wakes, tasks,
                 wakeVars, lifeVars, pub, ledger>>

\* execute_tasks(): one execute().
ExecuteTask ==
  /\ st \in {"exec", "exec1", "exec3"}
  /\ LET op == Head(batch) IN
     /\ done' = [done EXCEPT ![op] = @ + 1]
     /\ StartedHere(Starts(op))
  /\ batch' = Tail(batch)
  /\ IF Len(batch) > 1 THEN UNCHANGED <<ph, st>> ELSE GotoFound
  /\ UNCHANGED <<timers, spin, budget, reason, events, wakes, tasks, wakeVars, lifeVars,
                 pub, performed>>

\* consume_timeout_operations() and the fetch of compute_io_wait_timeout().
\* The fetch may lose the gate to another worker; the wait then has no
\* timeout.  Closing the group aborts the pending waits.
ConsumeTimeouts ==
  /\ st \in {"tmr", "tmr1", "tmr3"}
  /\ \/ \E n \in 1 .. Cardinality(timers) : \E due \in ListsOf(timers, n) :
          /\ life => ToSet(due) = timers
          /\ timers' = timers \ ToSet(due)
          /\ q' = [q EXCEPT !.cpu = due \o @]
          /\ GotoFound /\ UNCHANGED reason
     \/ /\ life => timers = {}
        /\ GotoNext
        /\ reason' = (ph = "timeout" /\ timers # {})
        /\ UNCHANGED <<timers, q>>
     \/ /\ ph = "timeout"
        /\ Goto("block", "wait") /\ reason' = FALSE
        /\ UNCHANGED <<timers, q>>
  /\ UNCHANGED <<localIo, cpuQ, ioQ, spin, budget, batchVars, wakeVars, lifeVars,
                 pub, ledger>>

\* consume_io_tasks(): while stopping or closing both queues are drained as
\* stopped; otherwise the first queue that is not empty is registered in
\* publication order.
ConsumeIo ==
  /\ st \in {"io", "io1", "io3"}
  /\ LET teardown == stop_requested \/ closing_requested
         source == IF localIo # <<>> THEN localIo ELSE ioQ
     IN IF source = <<>> THEN GotoNext /\ UNCHANGED <<q, localIo, ioQ>>
        ELSE /\ IF teardown
                THEN /\ q' = DrainStopped(q, localIo \o ioQ)
                     /\ localIo' = <<>> /\ ioQ' = <<>>
                ELSE /\ \E bad \in SUBSET Refusable :
                          q' = RegisterAll(q, reverse_io_tasks(source), bad)
                     /\ localIo' = <<>>
                     /\ ioQ' = IF localIo # <<>> THEN ioQ ELSE <<>>
             /\ GotoFound
  /\ UNCHANGED <<cpuQ, timers, spin, budget, reason, batchVars, wakeVars, lifeVars,
                 pub, ledger>>

\* abort_inflight_io(), also the start of what queue_exit() does.
AbortInflight ==
  /\ ph \in Closing /\ st = "abort"
  /\ q' = DrainStopped(AbortRegistered(q), localIo \o ioQ)
  /\ localIo' = <<>> /\ ioQ' = <<>>
  /\ GotoNext
  /\ UNCHANGED <<cpuQ, timers, spin, budget, reason, batchVars, wakeVars, lifeVars,
                 pub, ledger>>

(***************************************************************************)
(* The end of a pass, and the wait section.                                *)
(***************************************************************************)
\* Nothing was found: should_finish() decides.  The spin loop repeats up to
\* WaitSpin rounds before the worker announces that it waits.
EndOfPass ==
  /\ st = "fin"
  /\ \/ /\ ph \in {"ready", "woken"}
        /\ IF should_finish THEN Goto("finish", "evt1")
           ELSE IF WaitSpin = 0 THEN Goto("link", "waiting") ELSE Goto("spin", "evt")
        /\ spin' = 0 /\ UNCHANGED reason
     \/ /\ ph = "spin"
        /\ spin' = spin + 1
        /\ IF should_finish THEN Goto("finish", "evt1")
           ELSE IF spin + 1 < WaitSpin THEN Goto("spin", "evt") ELSE Goto("link", "waiting")
        /\ UNCHANGED reason
     \/ /\ ph = "recheck"
        /\ IF should_finish THEN Goto("unlink", "decide") ELSE Goto("timeout", "tmr")
        /\ UNCHANGED <<spin, reason>>
     \/ /\ ph = "timeout"
        /\ IF should_finish THEN Goto("unlink", "decide") ELSE Goto("block", "wait")
        /\ UNCHANGED <<spin, reason>>
  /\ UNCHANGED <<q, queueVars, budget, batchVars, wakeVars, lifeVars, pub, ledger>>

\* Mutant: the worker blocks without asking its sources again.
BeginWaitNoRecheck ==
  /\ ph = "link"
  /\ \/ st = "waiting" /\ waiting' = TRUE /\ Goto("link", "list") /\ UNCHANGED linked
     \/ st = "list" /\ linked' = TRUE /\ Goto("block", "wait") /\ UNCHANGED waiting
  /\ UNCHANGED <<q, queueVars, spin, budget, reason, batchVars, shared, directed,
                 lifeVars, pub, ledger>>

\* begin_wait(): the waiting flag, then the suspend list.
BeginWait ==
  /\ ph = "link"
  /\ \/ st = "waiting" /\ waiting' = TRUE /\ Goto("link", "list") /\ UNCHANGED linked
     \/ st = "list" /\ linked' = TRUE /\ Goto("recheck", "evt") /\ UNCHANGED waiting
  /\ UNCHANGED <<q, queueVars, spin, budget, reason, batchVars, shared, directed,
                 lifeVars, pub, ledger>>

\* end_wait(): out of the suspend list, then the flag; and what the wait
\* returns.
EndWait ==
  /\ ph = "unlink"
  /\ \/ /\ st \in {"decide", "woken"} /\ linked
        /\ linked' = FALSE /\ UNCHANGED <<waiting, ph, st>>
     \/ /\ ~linked /\ waiting' = FALSE /\ UNCHANGED linked
        /\ IF st = "decide"
           THEN IF should_finish THEN Goto("finish", "evt1") ELSE Goto("ready", "evt")
           ELSE IF reason THEN Goto("ready", "evt") ELSE Goto("woken", "cpu")
  /\ reason' = (reason /\ linked)
  /\ UNCHANGED <<q, queueVars, spin, budget, batchVars, shared, directed, lifeVars,
                 pub, ledger>>

\* enter_run(): a byte already in a wake channel is reported after it is
\* registered.
EnterRun ==
  /\ ph = "idle"
  /\ Goto("ready", "evt")
  /\ UNCHANGED <<q, queueVars, spin, budget, reason, batchVars, wakeVars, lifeVars,
                 pub, ledger>>

\* queue_exit() of a context that never ran.
QueueExit ==
  /\ ph = "idle"
  /\ state' = "finishing" /\ Goto("exit", "abort")
  /\ UNCHANGED <<q, queueVars, spin, budget, reason, batchVars, wakeVars, life, pub, ledger>>

\* The last store of finish() and of queue_exit().
Finished ==
  /\ ph \in Closing /\ st = "out"
  /\ state' = "finished" /\ Goto("returned", "none")
  /\ UNCHANGED <<q, queueVars, spin, budget, reason, batchVars, wakeVars, life, pub, ledger>>

(***************************************************************************)
(* Threads outside the worker, and the kernel.                             *)
(***************************************************************************)
\* post() and publish_io() from another thread: push to the shared queue ...
Publish(t, op) ==
  /\ pub[t] = "idle" /\ op \in idle /\ state \in {"running", "finishing"} /\ ~life
  /\ \A o \in Ops : op \notin ToSet(Chain[o].cpu) \cup ToSet(Chain[o].io)
  /\ IF op \in IoOps THEN ioQ' = Cons(op, ioQ) /\ UNCHANGED cpuQ
     ELSE cpuQ' = Cons(op, cpuQ) /\ UNCHANGED ioQ
  /\ idle' = idle \ {op}
  /\ started' = IF op \in IoOps THEN Append(started, <<op, "shared">>) ELSE started
  /\ pub' = [pub EXCEPT ![t] = "notify"]
  /\ UNCHANGED <<q, localIo, timers, loopVars, batchVars, wakeVars, lifeVars, done, performed>>

\* ... then notify_one_waiter(), or the directed wake the io_context sends to
\* a worker it finds in the suspend list.
Notify(t) ==
  /\ pub[t] = "notify"
  /\ \/ shared' = (shared \/ (waiting /\ Wake(shared))) /\ UNCHANGED directed
     \/ directed' = (directed \/ (linked /\ Wake(directed))) /\ UNCHANGED shared
  /\ pub' = [pub EXCEPT ![t] = "idle"]
  /\ UNCHANGED <<q, queueVars, loopVars, batchVars, waiting, linked, lifeVars, ledger>>

\* stop(): the state change ...
Stop(t) ==
  /\ pub[t] = "idle" /\ state \in {"running", "finishing"}
  /\ state' = "finishing"
  /\ pub' = [pub EXCEPT ![t] = "trigger"]
  /\ UNCHANGED <<q, queueVars, loopVars, batchVars, wakeVars, life, ledger>>

\* Mutant: the flag without the wake-up.
CloseQuietly(t) ==
  /\ pub[t] = "idle" /\ ~life
  /\ life' = TRUE
  /\ UNCHANGED <<q, queueVars, loopVars, batchVars, wakeVars, state, pub, ledger>>

\* io_context::stop(): the group's life state ...
CloseGroup(t) ==
  /\ pub[t] = "idle" /\ ~life
  /\ life' = TRUE
  /\ pub' = [pub EXCEPT ![t] = "trigger"]
  /\ UNCHANGED <<q, queueVars, loopVars, batchVars, wakeVars, state, ledger>>

\* ... and trigger_wakeup().
TriggerWakeup(t) ==
  /\ pub[t] = "trigger"
  /\ shared' = Wake(shared)
  /\ pub' = [pub EXCEPT ![t] = "idle"]
  /\ UNCHANGED <<q, queueVars, loopVars, batchVars, waiting, linked, directed, lifeVars,
                 ledger>>

Returned == ph = "returned" /\ UNCHANGED vars

Worker ==
  \/ CollectReadyEvents \/ WaitForEvents \/ DrainWakeChannel \/ ProcessEvent
  \/ DispatchEventTasks
  \/ RunCpuBatch \/ ExecuteTask \/ ConsumeTimeouts \/ ConsumeIo \/ AbortInflight
  \/ EndOfPass \/ BeginWait \/ EndWait \/ Finished

Outside ==
  \E t \in Publishers : \/ \E op \in idle : Publish(t, op)
                        \/ Notify(t) \/ Stop(t) \/ CloseGroup(t) \/ TriggerWakeup(t)

Next ==
  Worker \/ EnterRun \/ QueueExit \/ Outside \/ Returned

Spec == Init /\ [][Next]_vars

\* The worker can move unless it has not started, has returned or is blocked.
\* The kernel owes a blocked worker a return for a byte in a wake channel and at
\* its timeout, but no readiness of a descriptor and no signal.
workerVars == <<loopVars, batchVars, waiting, linked>>

CanMove ==
  /\ ph \notin {"idle", "returned"}
  /\ (ph = "block" /\ st = "wait") => Readable # {} \/ reason

\* Weak fairness of the worker thread, written out: each of its steps, and no
\* step of anybody else, changes workerVars.  A publishing thread that has
\* changed a queue or a flag completes its call.
Fairness ==
  /\ []<>(~CanMove) \/ []<><<TRUE>>_workerVars
  /\ \A t \in Publishers : WF_vars(Notify(t)) /\ WF_vars(TriggerWakeup(t))

FairSpec == Spec /\ Fairness

(***************************************************************************)
(* Properties.                                                             *)
(***************************************************************************)
\* Where an operation that was started is.
Places(op) ==
  <<Contains(localIo, op), Contains(ioQ, op), Contains(q.cpu, op), Contains(cpuQ, op),
    Contains(q.inflight, op), Contains(tasks, op), Contains(batch, op), done[op] > 0>>

\* Every descriptor and filter somebody waits for has exactly one armed node,
\* the first of its queue, and the kernel's udata names its operation: the rule
\* append_node(), unlink_node() and arm_queue_head() keep between them.
QueueHeadArmed == HeadArmed(q)

\* A completed operation may be destroyed by its receiver: no kevent, no
\* registration node and no collected event of the running batch that would be
\* dispatched names an operation that already left the inflight list.
NoDanglingEvent ==
  /\ \A p \in Pairs : q.knote[p] # None => Contains(q.inflight, q.knote[p])
  /\ \A n \in q.live : Contains(q.inflight, n[1])
  /\ \A op \in IoOps : done[op] > 0 =>
       \A i \in DOMAIN events : events[i][1] # op

\* An operation handed to the context is in one queue, or in flight, or its
\* receiver has been called, once.
ExactlyOnce ==
  \A op \in Ops \ (idle \cup timers) :
    /\ LET at == Places(op) IN \E i \in 1 .. 8 : \A j \in 1 .. 8 : at[j] <=> i = j
    /\ done[op] <= 1

\* Native steps of one kind on one descriptor happen in the order their
\* operations were started along one route (the worker's own or the shared
\* queue): both queues are LIFO and every consumer restores the order.
StepsInOrder ==
  \A i, j \in DOMAIN started :
    LET a == started[i][1]  b == started[j][1] IN
    (/\ i < j /\ started[i][2] = started[j][2]
     /\ DescriptorOf[a] = DescriptorOf[b] /\ TaskOf[a] = TaskOf[b]
     /\ TaskOf[a] \in {"read", "write"})
    => \A k, l \in DOMAIN performed : performed[k] = a /\ performed[l] = b => k < l

\* When run() returns, the worker owes no receiver a call: nothing is left in
\* flight, in its own queues, or registered in the kernel.
RunReturnsClean ==
  ph = "returned" =>
    /\ q.inflight = <<>> /\ q.cpu = <<>> /\ localIo = <<>> /\ batch = <<>>
    /\ \A p \in Pairs : q.knote[p] = None

\* Closing the group ends run(), also from a blocking kevent().
CloseReturns == (life /\ ph # "idle") ~> (ph = "returned")

\* Work published from outside is taken while the worker runs: the waiting
\* flag, the suspend list and the wake channels lose no wake-up.
PublishedServed ==
  (ioQ # <<>> \/ cpuQ # <<>>) /\ ph \notin {"idle", "exit"}
    ~> (ioQ = <<>> /\ cpuQ = <<>>) \/ ph = "returned"
=============================================================================
