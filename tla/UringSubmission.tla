--------------------------- MODULE UringSubmission ---------------------------
(***************************************************************************)
(* The submission pipeline of one io_uring_context: from the three I/O     *)
(* sources through the submission ring, the kernel and the completion ring *)
(* back to the CPU queue, with a full ring, failing submits, operations    *)
(* that would block, stop() and queue_exit().                              *)
(*                                                                         *)
(* Queues are sequences with the head first, as the code links them; the   *)
(* inflight list, which is searched and never read in order except by the  *)
(* abort, is a set that the abort walks in any order.  The record r holds  *)
(* what the worker alone writes.  One wake poll stands for the shared and  *)
(* the per-worker one; IoContext tells them apart.                         *)
(***************************************************************************)
EXTENDS Integers, Sequences, FiniteSets, SequencesExt

CONSTANTS
  IoOps,        \* operations
  Wake,         \* the user data of the wake poll's SQE
  Chain,        \* Chain[op]: operations the receiver of op starts, in order
  Rearmable,    \* operations whose rearm_on_eagain() is true
  SqEntries,    \* entries of the submission ring
  Window,       \* options.cqe_batch_window
  AgainLimit,   \* how often the kernel answers -EAGAIN to one operation
  Faults        \* how a submit may fail: "transient" (-EAGAIN, -EBUSY...), "fatal"

ASSUME SubmissionAssumption ==
  /\ Wake \notin IoOps /\ Rearmable \subseteq IoOps
  /\ Chain \in [IoOps -> Seq(IoOps)]
  /\ SqEntries \in Nat \ {0} /\ Window \in Nat \ {0} /\ AgainLimit \in Nat
  /\ Faults \subseteq {"transient", "fatal"}

\* An operation is started by one receiver, once.
ASSUME ChainAssumption ==
  \A p, q \in IoOps : \A i \in DOMAIN Chain[p], j \in DOMAIN Chain[q] :
    Chain[p][i] = Chain[q][j] => p = q /\ i = j

VARIABLES
  r,        \* the worker's lists, its rings and the operations' outcomes
  kern,     \* entries the kernel works on
  shared,   \* the shared I/O queue
  signal,   \* the wake channel is readable
  waiting,  \* run_state_.waiting
  state,    \* run_state_.state
  life,     \* global life_state # 0
  broken,   \* the ring refuses every call from now on
  mode, step,  \* phase of the run loop and the work source it asks next
  idle,     \* operations nobody started yet
  tries     \* -EAGAIN answers an operation has had

vars == <<r, kern, shared, signal, waiting, state, life, broken, mode, step,
          idle, tries>>
outside == <<kern, shared, signal, state, life, broken, idle, tries>>

Outcomes == {"none", "ok", "again", "errno", "canceled"}

\* The lists and rings of a context after queue_init() and enable_ring().
Fresh ==
  [retry |-> <<>>, local |-> <<>>, sq |-> <<>>, cq |-> <<>>, inflight |-> {},
   cpu |-> <<>>, armed |-> FALSE,
   out |-> [op \in IoOps |-> "none"], calls |-> [op \in IoOps |-> 0]]

Init ==
  /\ r = Fresh /\ kern = {} /\ shared = <<>> /\ signal = FALSE
  /\ waiting = FALSE /\ state = "running" /\ life = FALSE /\ broken = FALSE
  /\ mode = "enter" /\ step = "arm"
  /\ idle = IoOps /\ tries = [op \in IoOps |-> 0]

Goto(m, s) == mode' = m /\ step' = s

(***************************************************************************)
(* Inflight list and outcomes.                                             *)
(***************************************************************************)
add_inflight(s, ops) == [s EXCEPT !.inflight = @ \cup ops]

\* Mutant: the unlink left out.
keep_inflight(s, ops) == s

remove_inflight(s, ops) == [s EXCEPT !.inflight = @ \ ops]

\* Outcomes are set and the operations are pushed on the local CPU queue, one by
\* one from the head of the list.
complete(s, list, outcome) ==
  [s EXCEPT !.out = [op \in IoOps |-> IF op \in ToSet(list) THEN outcome ELSE s.out[op]],
            !.cpu = Reverse(list) \o @]

\* fail_io_list(): untrack and fail what the links still reach.
fail_io_list(s, list) == complete(remove_inflight(s, ToSet(list)), list, "errno")

drain_io_list_complete_stopped(s, list) == complete(s, list, "canceled")

\* Mutant: the abort of the inflight list alone.
abort_inflight_only(s, tracked, taken) ==
  drain_io_list_complete_stopped([s EXCEPT !.inflight = {}, !.retry = <<>>, !.local = <<>>],
                                 tracked)

\* abort_inflight_io(), without the shared queue its caller empties.
abort_inflight_io(s, tracked, taken) ==
  drain_io_list_complete_stopped([s EXCEPT !.inflight = {}, !.retry = <<>>, !.local = <<>>],
                                 tracked \o s.retry \o s.local \o taken)

(***************************************************************************)
(* Preparing and submitting.                                               *)
(***************************************************************************)
\* prepare_io(): an SQE, unless the submission ring is full.
has_sqe(s) == Len(s.sq) < SqEntries

\* prepare_io_batch(): b.todo is consumed from its head while there are SQEs;
\* b.ready is the prepared list.
prepare_io_batch(b) ==
  LET room == SqEntries - Len(b.s.sq)
      n == IF Len(b.todo) < room THEN Len(b.todo) ELSE room
      fit == SubSeq(b.todo, 1, n)
  IN [s |-> [b.s EXCEPT !.sq = @ \o fit], ready |-> Reverse(fit) \o b.ready,
      left |-> SubSeq(b.todo, n + 1, Len(b.todo))]

\* Mutant: only the head of the prepared list is tracked.
track_head(s, prepared) == add_inflight(s, ToSet(SubSeq(prepared, 1, 1)))

\* track_prepared_batch(): every prepared operation becomes inflight.
track_prepared_batch(s, prepared) == add_inflight(s, ToSet(prepared))

\* The caller's copy of the prepared head: track_prepared_batch() has cleared
\* the next link of every operation.
still_linked(prepared) == IF prepared = <<>> THEN <<>> ELSE <<Head(prepared)>>

\* What io_uring_submit() may answer.
SubmitResults == IF broken THEN {"fatal"} ELSE {"ok"} \cup Faults

\* submit_ring(): the kernel takes every entry, or none of them.
Submit(s, res) == IF res = "ok" THEN [s EXCEPT !.sq = <<>>] ELSE s
Taken(s, res) == IF res = "ok" THEN ToSet(s.sq) ELSE {}

\* consume_io_tasks() before its submit: the retry slot, then the local queue,
\* then the shared one; a source behind a full ring is not taken.
Gathered ==
  LET one == prepare_io_batch([s |-> [r EXCEPT !.retry = <<>>], ready |-> <<>>,
                               todo |-> r.retry])
      two == IF one.left # <<>> THEN one
             ELSE prepare_io_batch([s |-> [one.s EXCEPT !.local = <<>>],
                                    ready |-> one.ready, todo |-> r.local])
  IN IF two.left # <<>> THEN [batch |-> two, popped |-> FALSE]
     ELSE [batch |-> prepare_io_batch([s |-> two.s, ready |-> two.ready,
                                       todo |-> shared]),
           popped |-> TRUE]

closing_requested == life
stop_requested == state # "running"

\* Mutant: a native stop does not wait either.
finish_on_stop == closing_requested \/ stop_requested

\* should_finish(): a native stop waits for inflight I/O, closing does not.
should_finish == closing_requested \/ (stop_requested /\ r.inflight = {})

Closing == {"finish", "exit"}

\* Where the loop goes when a source had work, and when it had none.  finish()
\* first drains completions and CPU work, then aborts, then executes what the
\* abort and its receivers produced; queue_exit() starts with the abort.
GotoFound ==
  LET again == [cpu |-> "cqe", late |-> "late", io |-> "abort"]
  IN IF mode \in Closing THEN Goto(mode, again[step]) ELSE Goto("ready", "cqe")

GotoEmpty ==
  LET following == IF mode \in Closing
                   THEN [cpu |-> "abort", late |-> "io", io |-> "out"]
                   ELSE [cpu |-> "io", io |-> "fin"]
  IN Goto(mode, following[step])

\* Leaving the wait section, when work was found in it, calls end_wait().
StillWaiting(found) == waiting /\ ~found

\* Mutant: what the ring had no entry for is forgotten.
remainder_dropped(left) == <<>>

\* What the ring had no entry for, kept for the next pass in pending_io_retry_.
remainder(left) == left

\* consume_io_tasks() once the context is stopping or closing.
ConsumeStopped ==
  /\ step = "io" /\ (stop_requested \/ closing_requested)
  /\ LET list == r.retry \o r.local \o shared IN
     /\ r' = drain_io_list_complete_stopped([r EXCEPT !.retry = <<>>, !.local = <<>>], list)
     /\ shared' = <<>>
     /\ IF list # <<>> THEN GotoFound ELSE GotoEmpty
     /\ waiting' = StillWaiting(list # <<>>)
  /\ UNCHANGED <<kern, signal, state, life, broken, idle, tries>>

\* consume_io_tasks(): prepare, track, submit once.
ConsumeIo ==
  /\ step = "io" /\ ~stop_requested /\ ~closing_requested
  /\ IF r.retry = <<>> /\ r.local = <<>> /\ shared = <<>>
     THEN GotoEmpty /\ UNCHANGED <<r, kern, shared, waiting, broken>>
     ELSE \E res \in SubmitResults :
            LET g == Gathered.batch
                tracked == track_prepared_batch(g.s, g.ready)
                none == g.ready = <<>>
                sent == IF none THEN tracked ELSE Submit(tracked, res)
                failed == fail_io_list(sent, still_linked(g.ready))
            IN /\ none => res = CHOOSE x \in SubmitResults : TRUE
               /\ kern' = IF none THEN kern ELSE kern \cup Taken(tracked, res)
               /\ r' = IF none \/ res = "ok"
                       THEN [sent EXCEPT !.retry = remainder(g.left)]
                       ELSE IF res = "transient"
                       THEN [failed EXCEPT !.retry = remainder(g.left)]
                       ELSE fail_io_list(failed, g.left)
               /\ broken' = (broken \/ (~none /\ res = "fatal"))
               /\ shared' = IF Gathered.popped THEN <<>> ELSE shared
               /\ GotoFound /\ waiting' = FALSE
  /\ UNCHANGED <<signal, state, life, idle, tries>>

(***************************************************************************)
(* Completions.                                                            *)
(***************************************************************************)
\* arm_wake_poll(), on a record [s, kern] and the answer of its submit.
arm_wake_poll(c, res) ==
  IF c.s.armed \/ stop_requested \/ ~has_sqe(c.s) THEN c
  ELSE LET q == [c.s EXCEPT !.sq = Append(@, Wake)]
       IN [s |-> [Submit(q, res) EXCEPT !.armed = (res = "ok")],
           kern |-> c.kern \cup Taken(q, res)]

\* enqueue_cqe_task(): untrack; an operation that would block goes back to the
\* local I/O queue.
enqueue_cqe_task(s, op, res) ==
  LET untracked == remove_inflight(s, {op})
  IN IF res = "again" /\ op \in Rearmable
     THEN [untracked EXCEPT !.local = Cons(op, @)]
     ELSE complete(untracked, <<op>>, res)

\* Mutant: the completed wake poll still counts as armed.
cqe_collector_armed(c, cqe, res) ==
  IF cqe[1] = Wake THEN c ELSE [c EXCEPT !.s = enqueue_cqe_task(@, cqe[1], cqe[2])]

\* cqe_collector: one completion.
cqe_collector(c, cqe, res) ==
  IF cqe[1] = Wake
  THEN arm_wake_poll([c EXCEPT !.s.armed = FALSE], res)
  ELSE [c EXCEPT !.s = enqueue_cqe_task(@, cqe[1], cqe[2])]

\* collect_cqe_tasks(): one completion after the other, oldest first.
collect_cqe_tasks(c, taken, res) ==
  LET after[i \in 0 .. Len(taken)] ==
        IF i = 0 THEN c ELSE cqe_collector(after[i - 1], taken[i], res)
  IN after[Len(taken)]

\* collect_ready_cqes(): up to a window of completions; a wake completion drains
\* the channel and arms the poll again.
CollectReadyCqes ==
  /\ step = "cqe"
  /\ \E res \in SubmitResults :
       LET n == IF Len(r.cq) < Window THEN Len(r.cq) ELSE Window
           taken == SubSeq(r.cq, 1, n)
           rest == [r EXCEPT !.cq = SubSeq(@, n + 1, Len(@))]
           woken == \E i \in 1..n : taken[i][1] = Wake
           after == collect_cqe_tasks([s |-> rest, kern |-> kern], taken, res)
       IN /\ ~woken => res = CHOOSE x \in SubmitResults : TRUE
          /\ r' = after.s /\ kern' = after.kern
          /\ signal' = (signal /\ ~woken)
          /\ broken' = (broken \/ (res = "fatal" /\ Contains(after.s.sq, Wake)))
          /\ Goto(mode, "cpu")
  /\ UNCHANGED <<shared, waiting, state, life, idle, tries>>

(***************************************************************************)
(* CPU work, the wait section and the end of the run.                      *)
(***************************************************************************)
\* What the receiver of an operation starts, unless it has been started already.
Starts(op) == IF ToSet(Chain[op]) \subseteq idle THEN Chain[op] ELSE <<>>

\* execute(): the receiver is called and starts more operations on the worker.
execute(s, op) ==
  [s EXCEPT !.calls[op] = @ + 1, !.out[op] = "none", !.local = Reverse(Starts(op)) \o @]

\* run_cpu_batch(): the whole queue, oldest first.
run_cpu_batch(s, batch) ==
  LET ran[i \in 0 .. Len(batch)] ==
        IF i = 0 THEN s ELSE execute(ran[i - 1], batch[i])
  IN ran[Len(batch)]

RunCpuBatch ==
  /\ step \in {"cpu", "late"}
  /\ IF r.cpu = <<>>
     THEN GotoEmpty /\ UNCHANGED <<r, waiting, idle>>
     ELSE /\ r' = run_cpu_batch([r EXCEPT !.cpu = <<>>], Reverse(r.cpu))
          /\ idle' = idle \ UNION {ToSet(Starts(op)) : op \in ToSet(r.cpu)}
          /\ GotoFound /\ waiting' = FALSE
  /\ UNCHANGED <<kern, shared, signal, state, life, broken, tries>>

\* The end of a pass.  Without work the worker announces that it waits and asks
\* every source once more.
EndOfPass ==
  /\ step = "fin"
  /\ waiting' = ~should_finish
  /\ IF should_finish THEN Goto("finish", "cqe")
     ELSE IF mode = "ready" THEN Goto("wait", "cqe") ELSE Goto("wait", "arm")
  /\ UNCHANGED <<r, outside>>

\* enter_run() and rearm_wake_polls_for_wait().  A stop leaves the poll unarmed:
\* enter_run() goes on, the wait section goes on unless there is nothing to wait
\* for.  A full ring or a failed submit ends enter_run() in fail_enter_run(); the
\* wait section tries a full ring again, and so it does after -EAGAIN, one of the
\* transient errors.
ArmWakePoll ==
  /\ step = "arm"
  /\ \E res \in SubmitResults :
       LET after == arm_wake_poll([s |-> r, kern |-> kern], res)
           skipped == ~r.armed /\ stop_requested
           full == ~r.armed /\ ~stop_requested /\ ~has_sqe(r)
           failed == ~after.s.armed /\ ~skipped /\ ~full
       IN /\ r' = after.s /\ kern' = after.kern
          /\ \/ /\ mode = "enter" /\ (after.s.armed \/ skipped)
                /\ Goto("ready", "cqe") /\ UNCHANGED <<waiting, state>>
             \/ /\ mode = "enter" /\ (full \/ failed)
                /\ state' = "finishing" /\ Goto("finish", "cqe") /\ UNCHANGED waiting
             \/ /\ mode = "wait" /\ (after.s.armed \/ (skipped /\ ~should_finish))
                /\ Goto("wait", "block") /\ UNCHANGED <<waiting, state>>
             \/ /\ mode = "wait" /\ (full \/ (failed /\ res = "transient"))
                /\ Goto("ready", "cqe") /\ waiting' = FALSE /\ UNCHANGED state
             \/ /\ mode = "wait" /\ (failed \/ (skipped /\ should_finish))
                /\ Goto("finish", "cqe") /\ waiting' = FALSE /\ UNCHANGED state
          /\ broken' = (broken \/ (failed /\ res = "fatal"))
  /\ UNCHANGED <<shared, signal, life, idle, tries>>

\* wait_for_cqe_event(): a completion, or a broken ring, which is fatal unless
\* the loop finishes anyway.
WaitReturns ==
  /\ step = "block" /\ (r.cq # <<>> \/ broken)
  /\ waiting' = FALSE
  /\ IF broken THEN Goto("finish", "cqe") ELSE Goto("ready", "cqe")
  /\ UNCHANGED <<r, outside>>

\* abort_and_deliver_completions(): the abort phase.
AbortInflight ==
  /\ step = "abort"
  /\ \E tracked \in Bijection(1 .. Cardinality(r.inflight), r.inflight) :
       r' = abort_inflight_io(r, tracked, shared)
  /\ shared' = <<>>
  /\ Goto(mode, "late")
  /\ UNCHANGED <<kern, signal, waiting, state, life, broken, idle, tries>>

\* The end of finish() and of queue_exit(): the ring is gone with its entries.
Finished ==
  /\ step = "out"
  /\ state' = "finished" /\ Goto("gone", "none")
  /\ r' = [r EXCEPT !.sq = <<>>, !.cq = <<>>, !.armed = FALSE] /\ kern' = {}
  /\ UNCHANGED <<shared, signal, waiting, life, broken, idle, tries>>

\* queue_exit() of a context whose run() was never entered.
QueueExit ==
  /\ mode = "enter" /\ state' = "finishing" /\ Goto("exit", "abort")
  /\ UNCHANGED <<r, kern, shared, signal, waiting, life, broken, idle, tries>>

Worker ==
  \/ CollectReadyCqes \/ RunCpuBatch \/ ConsumeStopped \/ ConsumeIo \/ EndOfPass
  \/ ArmWakePoll \/ WaitReturns \/ AbortInflight \/ Finished

(***************************************************************************)
(* The kernel, and threads outside the run loop.                           *)
(***************************************************************************)
\* The kernel completes an entry.  It answers -EAGAIN a bounded number of times;
\* to an operation that does not rearm any answer is final.
KernelCompletes(op) ==
  /\ op \in kern /\ kern' = kern \ {op}
  /\ \/ /\ op = Wake /\ signal
        /\ r' = [r EXCEPT !.cq = Append(@, <<Wake, "ok">>)] /\ UNCHANGED tries
     \/ /\ op # Wake
        /\ \E res \in {"ok", "again"} :
             /\ res = "again" => op \in Rearmable /\ tries[op] < AgainLimit
             /\ tries' = IF res = "again" THEN [tries EXCEPT ![op] = @ + 1] ELSE tries
             /\ r' = [r EXCEPT !.cq = Append(@, <<op, res>>)]
  /\ UNCHANGED <<shared, signal, waiting, state, life, broken, mode, step, idle>>

\* publish_io() from outside: under the submit lock the operation is refused
\* once the group is stopping, and its receiver is called with the stop outcome.
Publish(op) ==
  /\ op \in idle /\ idle' = idle \ {op}
  /\ IF life
     THEN /\ r' = [r EXCEPT !.calls[op] = @ + 1]
          /\ UNCHANGED <<shared, signal>>
     ELSE /\ shared' = Cons(op, shared) /\ signal' = (signal \/ waiting)
          /\ UNCHANGED r
  /\ UNCHANGED <<kern, waiting, state, life, broken, mode, step, tries>>

\* stop() of the native context.
Stop ==
  /\ state = "running" /\ state' = "finishing" /\ signal' = TRUE
  /\ UNCHANGED <<r, kern, shared, waiting, life, broken, mode, step, idle, tries>>

\* The group closes: life_state under the submit lock, then the wake channel.
CloseGroup ==
  /\ ~life /\ life' = TRUE /\ signal' = TRUE
  /\ UNCHANGED <<r, kern, shared, waiting, state, broken, mode, step, idle, tries>>

\* drain_io_stopped(), by the thread that stops the group once no worker is left.
DrainIoStopped ==
  /\ life /\ mode = "gone" /\ shared # <<>> /\ shared' = <<>>
  /\ r' = [r EXCEPT !.calls = [op \in IoOps |-> IF op \in ToSet(shared)
                                               THEN r.calls[op] + 1 ELSE r.calls[op]]]
  /\ UNCHANGED <<kern, signal, waiting, state, life, broken, mode, step, idle, tries>>

Terminated == mode = "gone" /\ UNCHANGED vars

Next ==
  \/ Worker \/ QueueExit \/ Stop \/ CloseGroup \/ DrainIoStopped \/ Terminated
  \/ \E op \in IoOps \cup {Wake} : KernelCompletes(op)
  \/ \E op \in IoOps : Publish(op)

Spec == Init /\ [][Next]_vars

\* The worker runs unless it is blocked in the kernel without a completion; the
\* kernel completes what it holds; a group that closes drains what is left.
CanMove == mode # "gone" /\ ~(step = "block" /\ r.cq = <<>> /\ ~broken)

Fairness ==
  /\ []<>(~CanMove) \/ []<><<Worker>>_<<mode, step, r>>
  /\ \A op \in IoOps \cup {Wake} : WF_vars(KernelCompletes(op))
  /\ WF_vars(DrainIoStopped)

FairSpec == Spec /\ Fairness

(***************************************************************************)
(* Properties.                                                             *)
(***************************************************************************)
Count(list, op) == Cardinality({i \in DOMAIN list : list[i] = op})

\* Every operation that was started sits in exactly one of the queues, the retry
\* slot and the inflight list, or its receiver was called, once: nothing a full
\* ring, a ring that breaks for good, an -EAGAIN or an abort does loses or doubles
\* it.  A submit that fails only once does: see OneTerminalCall.
ExactlyOnce ==
  \A op \in IoOps \ idle :
    Count(shared, op) + Count(r.retry, op) + Count(r.local, op) + Count(r.cpu, op)
      + (IF op \in r.inflight THEN 1 ELSE 0) + r.calls[op] = 1

\* The receiver of an operation is called at most once.
OneTerminalCall == \A op \in IoOps : r.calls[op] <= 1

InRing == ToSet(r.sq) \cup kern \cup {r.cq[i][1] : i \in DOMAIN r.cq}

\* An operation that has an entry in the rings is in the inflight list, where the
\* abort path finds it, and nowhere else, as long as the ring works and no abort
\* has run.
EntriesTracked ==
  ~broken /\ mode \notin Closing => InRing \ {Wake} = r.inflight

\* A worker that blocks can be woken by a publisher: the wake poll is with the
\* kernel or has completed, or a stop waits for inflight completions only.
BlockedCanWake ==
  step = "block" =>
    broken \/ Wake \in kern \/ r.cq # <<>> \/ (stop_requested /\ r.inflight # {})

\* A native stop() aborts nothing: operations are aborted out of the inflight
\* list only when the group closes or the ring fails.
AbortOnlyWhenForced ==
  [][step = "abort" /\ r.inflight # {} => life \/ broken]_vars

\* Whatever is started on a working ring is delivered, through a full ring and
\* -EAGAIN answers.  Operations published to a group without a worker, and those
\* behind a ring that refuses submits, wait for its stop().
PublishedServed ==
  \A op \in IoOps :
    op \notin idle ~> r.calls[op] > 0 \/ broken \/ (mode = "gone" /\ op \in ToSet(shared))

\* Closing the group delivers everything that was started, also when the worker
\* cycles on a ring whose entries cannot be submitted any more.
CloseDelivers == life ~> \A op \in IoOps \ idle : r.calls[op] > 0
=============================================================================
