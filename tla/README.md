# A TLA+ model of bnio

bnio is a C++20 sender/receiver library for asynchronous I/O. This directory
holds TLA+ specifications of its parts, the configurations that check them with
TLC and the theorems TLAPS proves about them. `PROJECT.json` lists the
components, the runs and their mutants, the source lines each definition models,
the hazards and the findings.

## The system

| Part | Where (`src/...`) | Module |
|---|---|---|
| Worker group: `run`, `stop`, `join` | `src/posix/io_context.cpp` | `IoContext` |
| Publication and directed wake-up | `src/posix/io_context_queue.cpp` | `IoContext` |
| io_uring run loop | `src/async_io/linux/io_uring_context_run_loop.cpp`, `..._task_queue.cpp` | `IoContext`, `UringSubmission` |
| io_uring submission and completions | `..._io_tasks.cpp`, `..._cqe.cpp` | `UringSubmission` |
| Timers | `src/posix/io_context_timer.cpp`, `timer_wait.h` | `Timers`, `TimerPromise` |
| Timer pairing heap | `src/posix/io_context_timer_state.cpp` | `TimerHeap` |
| kqueue registrations and wait queues | `src/async_io/bsd/kqueue_context_io_tasks.cpp` | `KqueueRegistrations` |
| kqueue run loop, events, publication | `src/async_io/bsd/` | `KqueueContext` |
| I/O requests | `include/bnio/async_io/`, `include/bnio/detail/` | `IoRequests` |
| Operation states, composed reads and writes | `include/bnio/detail/{linux,bsd,posix}/` | `IoOperation` |
| TLS streams | `include/bnio/detail/ssl/`, `include/bnio/ssl/` | `SslStream` |

Each thread that calls `io_context::run()` owns a native context (a ring or a
kqueue, a local CPU queue, a local I/O queue, its own wake channel) and shares
with the others the two shared queues, the worker counters, the suspend list, the
shared wake channel and the timers. A thread outside publishes under
`submit_lock` and wakes one sleeping worker if it believes there is one. A
receiver publishes into the queues of the worker it runs on. `stop()` elects one
thread, aborts the timer waits, publishes `life_state` under `submit_lock`, wakes
and waits for the workers, and drains what is left in the shared queues. An
operation tries its system call at once, or is published, prepared, completed by
the backend and executed as a CPU task that calls its receiver. A TLS operation
is a loop of such operations around an SSL engine and two memory BIOs.

## Modules

`IoContext`: the group. A step is one access to state another thread can see.

| Variables | Code |
|---|---|
| `life`, `stopReq`, `stopped` | `life_state`, `lifecycle_.stop_requested`, `lifecycle_.stopped` |
| `lock` | holder of `submit_lock` when a publisher keeps it over several steps |
| `running`, `awake`, `suspend` | `running_workers`, `awake_workers`, the suspend list |
| `cpuQ`, `ioQ`, `waits`, `ready` | the shared queues; timer waits linked and staged |
| `ph`, `st`, `spin`, `timed` | a worker's run-loop phase and step, spin rounds, bounded wait |
| `shChan`, `loChan`, `shPoll`, `loPoll` | the wake channels and each worker's polls on them |
| `localCpu`, `localIo`, `retry`, `inflight`, `batch`, `cqes` | a worker's queues and ring |
| `cpc`, `seen`, `spc`, `taken`, `had` | where a publisher is in the fast path, a thread in `stop()` |
| `idle`, `completed` | ghost: operations not started, receiver calls per operation |

The worker's actions follow the loop (`RunCall` ... `ArmWakePolls`; the sources
`CollectReadyCqes`, `RunCpuBatch`, `ExecuteTask`, `ConsumeTimeouts`, `ConsumeIo`;
`BeginWaitLink` ... `DecideAfterWait`; `AbortInflight`, `LeaveRun`,
`ReleaseSlot`). `GotoNext` and `GotoFound` say where a phase goes after a source
that found nothing and one that found work.

`UringSubmission`: one ring. The three I/O sources, preparation until the ring is
full, the remainder in `pending_io_retry_`, the tracking of a batch, `submit` and
its failures, completions in windows, `-EAGAIN` re-submission, the wake poll, the
finish drain and `queue_exit()`. Lists keep the code's order.

`KqueueRegistrations`, `KqueueContext`: the wait queue of every descriptor and
filter with the nodes embedded in the operations (append, arm, register with
roll-back, unlink, fail, abort), and around it the loop, event batches, inline and
spilled completions, publication, both wake channels, `stop()`, close and
destruction of one context.

`TimerHeap`, `Timers`, `TimerPromise`: the pairing heap and the inactive list on
their pointers; callers, the mutex, the fetch gate, the drain, the wake decision
and the workers' sleeps over a clock; and what the API promises without any of
those: which waits a call settles, and with what.

`IoRequests`, `IoOperation`: every request of both layers and both backends as a
record of what its code tells apart, and the life of one operation from `start()`
to the receiver's signal, alone or as the rounds of a read-all or write-all, with
the dynamic buffer of the TCP and UDP operations. `io` is the request, `op` the
operation state, `loop` the composed operation, `env` the token and the context,
`world` what the kernel really did (ghost), `sig` what the receiver got.

`SslStream`: handshake, shutdown, read, write-some and write on one stream, with
the BIOs, the error queue, the flushes, the handoff and cancellation. The
scheduler is an argument of every operation, so after a stop the next operation
may name another context (`NextContext`).

`MC*` modules give small instances; `*_proofs` modules hold the theorems.

### Abstractions

* `IoContext` keeps queues and the suspend list as sets: no property there is
  about order, and the sleeper the cursor picks is arbitrary. Its deadlines are
  arbitrary; `Timers` has the clock.
* Memory is sequentially consistent. The publisher's enqueue followed by its load
  of `awake_workers`, against the worker's decrement followed by its recheck, is
  the pattern that would need a fence on a weaker model.
* Buffers are sizes, descriptors are "accepted or not", errors are classes; the
  kernel and the SSL engine give any answer their interface allows.
* The components are checked apart. Each models its neighbours by what they may
  do to it: `IoOperation`'s backend prepares, completes and aborts at will.

## Runs

| Run | Properties | Question |
|---|---|---|
| `StopDelivery` | `StoppedMeansDelivered`, `StopMeansWorkersExited`, `ExactlyOnce`, `NoLostWakeup` | `stop()` from outside against two workers and a publisher whose receivers start more work |
| `WakeLiveness` | `CpuOpsServed`, `RunReturns` | does published work reach its receiver; does `stop()` in a signal handler bring back the worker it interrupted? |
| `StopFromHandler` | `TypeOK`, `CountersAgree`, `NeverDeaf`, `StopReturns`, `StopDelivers` | one worker whose ring may fail and whose submission queue may be full, and a receiver that stops: do the counters and polls survive, does `stop()` on a worker return, and reach I/O the kernel never completes and timer waits? |
| `UringPipeline` | `ExactlyOnce`, `EntriesTracked`, `BlockedCanWake`, `AbortOnlyWhenForced`, `PublishedServed`, `CloseDelivers` | three operations on a ring of two entries that may break for good |
| `KqueueWaitQueues` | `QueueHeadArmed`, `NoDanglingEvent`, `ExactlyOnce`, `StepsInOrder`, `RunReturnsClean`, `CloseReturns`, `PublishedServed` | two reads and a two-filter poll on one descriptor; the kernel may refuse a reader whose turn has come and the second filter of the poll |
| `TimerStructure` | `ContainersWellFormed`, `WaitsAccounted`, `SleepCoversDeadline`, `KeepsPromise` | heap, gate, sleeps; does it implement `TimerPromise`? |
| `IoOperations` | `CountsTrue`, `AllMeansAll`, `StoppedOnlyByToken`, `NoFalseDescriptor`, `WouldBlockStaysInside`, `StopDelivers` | is what a receiver is told true, for every request? |
| `SslStreams` | `WireInOrder`, `FlushedOnSuccess`, `EofIsOrderly`, `ErrorsAttributed`, `CancelIsReal`, `StopDelivers` | three TLS operations in a row against a write BIO that fills up, a bad peer, cancellation |
| `ConcurrentStops` (violation) | `StopReturns` | `stop()` from a receiver and from outside at once |
| `SubmitFailure` (violation) | `OneTerminalCall` | a submit that fails once |
| `KqueueRearm` (violation) | `QueueHeadArmed` | a native step that would block after its event |
| `KqueueRefused` (violation) | `QueueHeadArmed` | a poll in two wait queues, refused when its turn comes in one of them |

What the passing runs leave out.

* `UringPipeline` has `Faults = {"fatal"}`, `KqueueWaitQueues` has
  `StepsMayBlock = FALSE` and lets the kernel refuse no poll whose turn has come in
  a queue (`MCRefusable`). With transient submit failures, with steps that would
  block and with such a refusal the code breaks these properties, as
  `SubmitFailure`, `KqueueRearm` and `KqueueRefused` show. So `EntriesTracked`,
  `ExactlyOnce`, `QueueHeadArmed`, `NoDanglingEvent` and the other kqueue properties
  are shown only without those events.
* `StopDelivery` has no ring failures and no receiver that stops (`StopOps = {}`): a
  `join()` behind a worker's `stop()` is the first of the "Other disagreements".
  `StopFromHandler` has failures but one worker; the theorems on the counters and the
  polls hold for any number.
* `SleepCoversDeadline` is about workers whose fetch succeeded; see "Other
  disagreements". `KeepsPromise` and `WaitsAccounted` are safety only: no wait is
  lost or settled wrongly, not that a due one is drained. One caller makes two
  calls, so a wait and the move or destruction of its timer, but never two callers
  at once.
* `StepsInOrder` is about the local route, what receivers on the worker start.
* `WireInOrder` exempts a write aborted by a context stop after it had sent.
  `FlushedOnSuccess` says nothing of a read that ends with the peer's
  `close_notify`: it completes without a flush (`step.h:213-228`).
* `NoFalseDescriptor` excludes the lower-layer io_uring accept, which reports 0 on
  an abort, and allows an abort on Linux to overtake a completed accept, whose
  descriptor nobody then gets.

Bounds. Two workers are the least with which one sleeps while another runs, enters
or leaves, and with which the timer gate is contended. One publisher suffices in
`IoContext` because `submit_lock` serialises publishers from the enqueue to the
wake. A ring of two entries is full with three operations. Two reads give a wait
queue a head and a successor, the poll joins two queues. Three timers with
expiries 1, 2, 2 make one parent with two children; the fourth slot takes a third
child, so that siblings are cut out of the middle and merged in pairs, or a timer
that is moved with its wait pending. A
buffer of three with a limit of two makes a whole transfer take several rounds; the
offsets include the last valid one. Three TLS operations let a failed or cancelled
one leave something behind for later ones; two records each way fill the BIOs, and
what they show is bounded by `MaxRecords`. The read BIO is never full when a
transport read is submitted, because OpenSSL empties it before it asks for more:
that branch is in the model and never taken. Options are small: `WaitSpin` is 0 or 1,
windows are 2, the inline and local limits of kqueue 1. Symmetry (workers in
`IoContext`, waits and workers in `MCTimers`) is used in runs of safety properties
only, and no definition there chooses among symmetric values. Deadlock is checked except in `ConcurrentStops`, `TimerStructure`,
`IoOperations` and `SslStreams`: in the first the finding is a standstill, in the
others the bounded calls run out.

Fairness. `IoContext`: weak fairness of each thread's own steps, as a scheduler
gives a runnable thread; nothing of the kernel, and nobody has to stop or publish.
`KqueueContext`: the worker moves when it is not blocked without a reason, written
out as a formula (nobody else's step changes `workerVars`); a publisher that changed a queue completes its call. `UringSubmission`: the worker;
the kernel completes what it holds (a peer that never answers is `IoOperation`'s
case); the stopping thread drains the shared queue. `IoOperation`: weak fairness
of the program and strong fairness of `Abort`, because `finish()` repeats until
nothing is inflight, however often an operation is submitted again. `SslStream`:
weak fairness of the program; the peer may stay silent. `Timers` has no liveness.

## Refinement

`KeepsPromise` checks `Timers => TimerPromise` under the mapping `active <- h.active`,
`expired <- registered \ h.active`, `pending <-` the linked waits. Every
step of a caller, a worker or the clock is a stutter or one abstract step. It
is a safety refinement and only model-checked.

## Findings

* `ConcurrentStops`: `stop()` from a receiver, second to a `stop()` from outside,
  waits for the elected thread, which waits for the receiver's worker.
* `SubmitFailure`: after a failed submit only the head of the batch is told the
  error, its entry stays in the ring and completes the operation a second time.
* `KqueueRearm`: the re-armed node is linked behind itself; its queue has no armed
  node any more.
* `KqueueRefused`: `fail_operation()` takes every node of a refused poll out of its
  queue and arms no successor. If the poll was the armed head of its other queue,
  what waits there has no registration any more.

### Other disagreements

Met while modelling, read off the code; no run of this project shows them now.

* `join()` "completes with set_value() when all workers have exited"
  (`class.h:580`), but it waits for `lifecycle_.stopped` (`class.h:466`), which a
  worker that runs `stop()` sets while it is still in its loop: it excludes itself
  from the wait for the workers (`io_context.cpp:206-207`).
* A timer wait connected before `stop()` and started after it is staged where
  nothing drains it (`io_context_timer.cpp:190`; `docs/design/timer.md:306-307`).
* A worker that leaves on a failed `enter_run()` between the two loads of the
  wake-up fast path makes a publisher skip a needed wake (`io_context_queue.cpp:141`;
  `docs/design/architecture/worker-scheduling.md:288-289`).
* A worker whose timer fetch fails on the gate sleeps without a deadline
  (`io_uring_context_run_loop.cpp:359-362`; `docs/design/timer.md:199`).
* Only `try_immediate()` checks a positioned offset; `prepare()` hands it on, so
  offset 2^64-1, the kernel's "current position", is not rejected when the
  immediate attempt is disabled
  (`detail/linux/io_context_native_io/random_access_file.h:38-47`;
  `docs/usage/index.md:280-281`).
* A failed accept makes `tcp::socket(-errno)` (`tcp/async_operations.h:27`), where
  `native_handle()` "is `-1`" (`docs/usage/index.md:207-208`).
* The waits of one timer run newest first: four lists reverse them, the slot's,
  the ready list, `reverse_ready_operations()` and `push_cpu()`, and the batch a
  fifth time; the comment says "in submission order"
  (`io_context_timer.cpp:280-281`).

## Proofs

`IoContext_proofs`, `IoContextWake_proofs`, `IoContextDelivery_proofs`: for every
finite set of workers and any sets of publishers, stopping threads and operations
(`ConstantsAssumption`, `OpsAssumption`: an operation is of one kind;
`WorkersAssumption`; `StoppersAssumption`: stoppers are not workers).

* `TypeCorrect` and `CountersCorrect` are proved together, as `TypeInv`: that a
  counter is still a natural number after a decrement follows only from its being
  the number of workers in certain positions. `RunCounts` and `WaitCounts` are the
  cardinality arguments: a step moves at most one worker into or out of each set.
* `NeverDeafCorrect`, on failing rings too: `rearm_wake_polls_for_wait()` is the
  only way into the blocking wait (`DeafWorker`), and no other thread takes a poll
  out of a worker's ring (`SignalKeeps`).
* `NoLostWakeupCorrect`, when no ring fails (`~RingMayFail`; the third disagreement
  above is why). `WakeInv` adds `NoneLeft` (while `life` is unset no worker
  leaves), `LockHeld` (a publisher in `wake_one_sleeping_locked()` holds the lock)
  and `Covered` (work in a shared queue is looked for by a worker before it blocks,
  or a sleeper has a wake-up pending, or the publisher is committed to waking, or
  nobody sleeps). The heart is `AllAwakeNoneSleeps`: if `awake_workers` reaches
  `running_workers`, every worker still has its recheck before it.
* `ExactlyOnceCorrect`, on failing rings and through any stop. `PlaceInv` counts
  the places of an operation in two groups, those all threads reach and those of
  one worker, so that a worker's step is a sum over two numbers and not over all
  workers. The hand-overs that replace a list (a worker's batch, the list the
  stopping thread took) need that the old one is empty: `BatchesRun`, `OneStopper`.
* `StoppedMeansDeliveredCorrect`, and `StopMeansWorkersExitedCorrect` when no
  receiver and no signal handler stops the context (`StopOps = {}`,
  `SignalWorkers = {}`; the first disagreement above is why). `StopInv` follows the
  last thread that can touch the queues: while the elected thread drains, every
  other worker has left (`OthersLeft`); after `stopped` at most one worker has not,
  and it does not leave before it has seen the queues empty (`QueuesDrained`,
  `OwnDrained`).

`IoOperation_proofs`: for every buffer size, transfer limit, set of offsets and any
set of requests that `KindsAssumption` admits. That assumption says how requests
that move bytes or open descriptors convert their results; TLC evaluates it for
all requests of the library (`MCKinds`).

* `OperationTypeOK`, `StoppedIsTheTokens`, `CountsAreTrue`, `WholeIsWhole` and
  `DescriptorsAreReal` follow from one invariant `IInv`. `CountsTrue` and
  `AllMeansAll` speak of the signal and of the start of a round; what makes them
  inductive is `OnTheWay`, which says where the bytes are while an operation is
  staged: the kernel's count is what earlier rounds had plus the staged result.
  `Verdict` ties the signal to the operation's position, `Handed` follows an
  accepted descriptor to the receiver or to the abort that overtook it
  (`Overtaken`), `Given` is what never changes. One lemma per action.
* `WouldBlockIsInside`: `Inside` follows EAGAIN from where it arises to where it is
  retried or staged as a refusal of the backend.

`SslStream_proofs` (`StreamAssumption`): for any number of operations, any sizes and
any BIO capacity, and whatever OpenSSL makes of what the peer sends,
`WireInOrderCorrect`, `FlushedOnSuccessCorrect`, `EofIsOrderlyCorrect`,
`ErrorsAttributedCorrect` and `CancelIsRealCorrect`, from `StreamInvariant`. `Inv`
says what each control point knows: a transport write has sent a prefix of its
chunk and nothing else (`Wire`), an operation that finishes after its flush has the
bytes it will report (`Progress`), a staged completion is one the receiver may get
(`Staged`).

Only model-checked: all liveness, which under fairness is out of the prover's
reach, and the refinement; everything about `UringSubmission`, `KqueueContext` and
`Timers`. `NoLostWakeup` on failing rings and `StopMeansWorkersExited` with a
`stop()` on a worker do not hold.

## Not modelled

* TCP and UDP handles, TLS contexts, addresses, endpoints, buffers as values,
  `getaddrinfo`, the base wrappers and the senders: values, sequential ownership of
  one object, or one system call each.
* A submit that takes some of its entries; a kqueue that fails to open and a
  failing `kevent` wait; closing a descriptor under a registered operation.
* A TLS read beside a write: both flush the write BIO (`step.h:238`).
* The destructor of `io_context` (with the heap's `clear()`), a thread's second
  `run()`, a signal handler's `stop()` other than the first one of a blocked worker.
* Memory weaker than sequential consistency.
