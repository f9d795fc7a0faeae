------------------------ MODULE KqueueRegistrations ------------------------
(***************************************************************************)
(* The registration state of one kqueue_context: the nodes embedded in its *)
(* I/O operations, the wait queues the nodes form per descriptor and       *)
(* filter, the inflight list, the worker's CPU queue and the kevents       *)
(* registered in the kernel.                                               *)
(*                                                                         *)
(* A node is <<operation, filter>>.  The state is a record q, and every    *)
(* function of kqueue_context_io_tasks.cpp is an operator from one state   *)
(* to the next.  bad is the set of nodes whose EV_ADD the kernel refuses   *)
(* during the step.                                                        *)
(***************************************************************************)
EXTENDS Integers, FiniteSets, Sequences, SequencesExt

CONSTANTS
  IoOps,         \* kqueue_io_operation_base objects
  CpuOps,        \* operations without native I/O
  TimerOps,      \* operations the shared timer heap hands out when due
  Descriptors,
  DescriptorOf,  \* DescriptorOf[op]
  TaskOf,        \* TaskOf[op]: the kqueue_task that prepare() selects
  PollMask,      \* PollMask[op]: the requested subset of {"in", "out"}
  None

Ops == IoOps \cup CpuOps \cup TimerOps
Filters == {"read", "write"}
Nodes == IoOps \X Filters
Pairs == Descriptors \X Filters

ASSUME RegistrationsAssumption ==
  /\ DescriptorOf \in [IoOps -> Descriptors]
  /\ TaskOf \in [IoOps -> {"none", "nop", "read", "write", "poll"}]
  /\ PollMask \in [IoOps -> SUBSET {"in", "out"}]
  /\ None \notin IoOps \cup Nodes

Pair(n) == <<DescriptorOf[n[1]], n[2]>>

Empty ==
  [nxt |-> [n \in Nodes |-> None], prv |-> [n \in Nodes |-> None],
   live |-> {}, armed |-> {}, knote |-> [p \in Pairs |-> None],
   inflight |-> <<>>, cpu |-> <<>>]

(***************************************************************************)
(* kqueue_helper: what prepare() asks for.                                 *)
(***************************************************************************)
prep_nop == {}
prep_read == {"read"}
prep_write == {"write"}

prep_poll_add(mask) ==
  (IF "in" \in mask THEN {"read"} ELSE {}) \cup (IF "out" \in mask THEN {"write"} ELSE {})

FiltersOf(op) ==
  CASE TaskOf[op] = "read"  -> prep_read
    [] TaskOf[op] = "write" -> prep_write
    [] TaskOf[op] = "poll"  -> prep_poll_add(PollMask[op])
    [] OTHER                -> prep_nop

\* The registrations of op.  A loop over them meets the read filter first, and
\* passes over a node that is not live.
NodesOf(op) == {op} \X FiltersOf(op)

\* prepare_io() fails when no action was selected or a poll names no event.
PrepareFails(op) ==
  \/ TaskOf[op] = "none"
  \/ TaskOf[op] = "poll" /\ FiltersOf(op) = {}

\* prepare_io(): fresh nodes, linked nowhere.
PrepareIo(q, op) ==
  [q EXCEPT !.live = @ \cup NodesOf(op),
            !.armed = @ \ NodesOf(op),
            !.nxt = [n \in Nodes |-> IF n \in NodesOf(op) THEN None ELSE q.nxt[n]],
            !.prv = [n \in Nodes |-> IF n \in NodesOf(op) THEN None ELSE q.prv[n]]]

(***************************************************************************)
(* The kernel: one kevent per descriptor and filter, tagged with an        *)
(* operation.  EV_ADD on a registered pair replaces the tag.               *)
(***************************************************************************)
EvDelete(q, n) == [q EXCEPT !.knote[Pair(n)] = None]

ArmRegistration(q, n) ==
  [q EXCEPT !.knote[Pair(n)] = n[1], !.armed = @ \cup {n}]

(***************************************************************************)
(* The wait queues.                                                        *)
(***************************************************************************)
\* find_queue_tail(): the first live node without a successor that a scan of
\* the inflight list meets.
FindQueueTail(q, pair) ==
  LET tails == {i \in 1 .. Len(q.inflight) :
                  LET n == <<q.inflight[i], pair[2]>>
                  IN n \in q.live /\ Pair(n) = pair /\ q.nxt[n] = None}
      first == CHOOSE i \in tails : \A j \in tails : i <= j
  IN IF tails = {} THEN None ELSE <<q.inflight[first], pair[2]>>

\* append_node() arms the node of an empty queue, which is the only way it
\* can fail.
AppendFails(q, n, bad) == FindQueueTail(q, Pair(n)) = None /\ n \in bad

AppendNode(q, n) ==
  LET tail == FindQueueTail(q, Pair(n)) IN
  IF tail = None
  THEN ArmRegistration([q EXCEPT !.nxt[n] = None, !.prv[n] = None], n)
  ELSE [q EXCEPT !.nxt = [[@ EXCEPT ![tail] = n] EXCEPT ![n] = None],
                 !.prv[n] = tail,
                 !.armed = @ \ {n}]

UnlinkNode(q, n) ==
  LET next == q.nxt[n]
      prev == q.prv[n]
      past == [m \in Nodes |-> IF m = prev THEN next ELSE q.nxt[m]]
      back == [m \in Nodes |-> IF m = next THEN prev ELSE q.prv[m]]
  IN [q EXCEPT !.nxt = [past EXCEPT ![n] = None],
               !.prv = [back EXCEPT ![n] = None]]

\* The inflight list: push at the head unless already linked, unlink.
AddInflight(q, op) ==
  IF Contains(q.inflight, op) THEN q
  ELSE [q EXCEPT !.inflight = Cons(op, @)]

\* Mutant: the unlink left out.
KeepInflight(q, op) == q

RemoveInflight(q, op) == [q EXCEPT !.inflight = Remove(@, op)]

PushCpu(q, op) == [q EXCEPT !.cpu = Cons(op, @)]

\* node = kqueue_registration_state{}.
Reset(q, n) ==
  [q EXCEPT !.live = @ \ {n}, !.armed = @ \ {n}, !.nxt[n] = None, !.prv[n] = None]

EvDeleteArmed(q, n) == IF n \in q.armed THEN EvDelete(q, n) ELSE q

\* fail_operation(): detach every node without arming a successor.
DetachNode(q, n) ==
  IF n \notin q.live THEN q ELSE Reset(UnlinkNode(EvDeleteArmed(q, n), n), n)

FailOperation(q, op) ==
  PushCpu(RemoveInflight(DetachNode(DetachNode(q, <<op, "read">>), <<op, "write">>), op), op)

\* arm_queue_head(): the operations of the candidates the kernel refuses fail,
\* the first it accepts is armed.  A candidate's operation is inflight, or the
\* one being registered, so the loop ends within Len(q.inflight) + 1 turns.
RefuseOne(a, bad) ==
  IF a.candidate = None \/ a.candidate \notin bad THEN a
  ELSE [q |-> FailOperation(a.q, a.candidate[1]), candidate |-> a.q.nxt[a.candidate]]

RefuseAll(q, candidate, bad) ==
  LET turn[i \in 0 .. Len(q.inflight) + 1] ==
        IF i = 0 THEN [q |-> q, candidate |-> candidate] ELSE RefuseOne(turn[i - 1], bad)
  IN turn[Len(q.inflight) + 1]

ArmCandidate(a) == IF a.candidate = None THEN a.q ELSE ArmRegistration(a.q, a.candidate)

ArmQueueHead(q, candidate, bad) == ArmCandidate(RefuseAll(q, candidate, bad))

\* Mutant: the successor of a fired head is not armed.
FireNodeOnly(q, n, bad) ==
  UnlinkNode(EvDelete([q EXCEPT !.armed = @ \ {n}], n), n)

\* process_event() up to the dispatch: delete the filter, unlink the fired head
\* and arm its successor.
FireNode(q, n, bad) ==
  LET off == EvDelete([q EXCEPT !.armed = @ \ {n}], n)
  IN ArmQueueHead(UnlinkNode(off, n), off.nxt[n], bad)

\* Mutant: the other filter of a poll left registered.
UnregisterNothing(q, op, bad) == q

\* unregister_operation(): disarm and unlink every node; the successor of an
\* armed one is armed.
DropNode(q, n, bad) ==
  IF n \notin q.live THEN q
  ELSE IF n \notin q.armed THEN Reset(UnlinkNode(q, n), n)
  ELSE ArmQueueHead(Reset(UnlinkNode(EvDelete(q, n), n), n), q.nxt[n], bad)

UnregisterOperation(q, op, bad) ==
  DropNode(DropNode(q, <<op, "read">>, bad), <<op, "write">>, bad)

\* register_operation(): append the nodes in order, roll back at a failure.
RegisterNode(a, n, bad) ==
  IF n \notin a.q.live \/ ~a.ok THEN a
  ELSE IF AppendFails(a.q, n, bad) THEN [a EXCEPT !.ok = FALSE]
  ELSE [a EXCEPT !.q = AppendNode(@, n)]

RegisterOperation(q, op, bad) ==
  LET all == RegisterNode(RegisterNode([q |-> q, ok |-> TRUE], <<op, "read">>, bad),
                          <<op, "write">>, bad)
  IN IF all.ok THEN all ELSE [all EXCEPT !.q = UnregisterOperation(@, op, bad)]

\* Mutant: the LIFO queue registered as it is.
keep_io_tasks(list) == list

\* reverse_io_tasks(): a LIFO queue in publication order.
reverse_io_tasks(list) == Reverse(list)

\* prepare_and_register_operation(), and the push of an operation that
\* completes at once.
PrepareAndRegister(q, op, bad) ==
  IF PrepareFails(op) \/ NodesOf(op) = {} THEN PushCpu(q, op)
  ELSE LET registered == RegisterOperation(PrepareIo(q, op), op, bad)
       IN IF registered.ok THEN AddInflight(registered.q, op) ELSE PushCpu(registered.q, op)

RegisterAll(q, list, bad) ==
  LET done[i \in 0 .. Len(list)] ==
        IF i = 0 THEN q ELSE PrepareAndRegister(done[i - 1], list[i], bad)
  IN done[Len(list)]

\* complete_submit_stopped() and the push of every operation of a list.
DrainStopped(q, ops) == [q EXCEPT !.cpu = Reverse(ops) \o @]

\* Mutant: the abort without the EV_DELETE of the armed nodes.
AbortStillArmed(q) == DrainStopped([q EXCEPT !.inflight = <<>>], q.inflight)

\* abort_inflight_io(): every registered operation is disarmed and stopped.
AbortRegistered(q) ==
  LET gone == {n \in q.live : Contains(q.inflight, n[1])}
      off == {Pair(n) : n \in gone \cap q.armed}
  IN DrainStopped(
       [q EXCEPT !.live = @ \ gone, !.armed = @ \ gone,
                 !.nxt = [n \in Nodes |-> IF n \in gone THEN None ELSE q.nxt[n]],
                 !.prv = [n \in Nodes |-> IF n \in gone THEN None ELSE q.prv[n]],
                 !.knote = [p \in Pairs |-> IF p \in off THEN None ELSE q.knote[p]],
                 !.inflight = <<>>],
       q.inflight)

(***************************************************************************)
(* What a wait queue should look like.                                     *)
(***************************************************************************)
Waiting(q, pair) == {n \in q.live : Pair(n) = pair /\ Contains(q.inflight, n[1])}

\* Every descriptor and filter somebody waits for has one armed node, the
\* first of its queue, and the kernel's tag is that node's operation.
HeadArmed(q) ==
  \A p \in Pairs :
    LET w == Waiting(q, p) IN
    IF w = {} THEN q.knote[p] = None
    ELSE \E head \in w : /\ q.armed \cap w = {head}
                         /\ q.prv[head] = None
                         /\ q.knote[p] = head[1]
=============================================================================
