------------------------------ MODULE IoOperation ------------------------------
(***************************************************************************)
(* One I/O operation, from start() to the signal its receiver gets: the    *)
(* operation states of both layers (io_context and the native contexts),   *)
(* on both backends, over any request of IoRequests, alone or as the       *)
(* rounds of a read-all or write-all, with the buffer holder of the TCP    *)
(* and UDP operations around it.  The backend is what UringSubmission and  *)
(* KqueueContext model; here it only prepares, completes and aborts.       *)
(***************************************************************************)
EXTENDS IoRequests

CONSTANTS
  MaxSize,      \* largest buffer
  IoLimit,      \* what bounded_io_size lets one call transfer
  StartOffsets, \* offsets a positioned request is made with
  Kinds         \* the requests under study, a subset of Requests

ASSUME OperationAssumption ==
  /\ MaxSize \in Nat /\ IoLimit \in Nat \ {0}
  /\ StartOffsets \subseteq Offsets
  /\ Kinds \subseteq RequestType

(* How the requests that move bytes, and those that open a descriptor, are
   made up: the first either convert a call of their own and clamp the count
   or hand on what the ring said; the second keep the sign of the result.  *)
ASSUME KindsAssumption ==
  \A k \in Kinds :
    /\ k.whole => k.kernel \in {"in", "out"}
    /\ k.kernel \in {"in", "out"} =>
         \/ k.class = "uring" /\ k.value = "verbatim" /\ k.aborted = 0
         \/ /\ k.class \in {"native", "kqueue_native", "kqueue_ready"}
            /\ k.value = "clamped" /\ ~k.stale
            /\ k.call \in {"socket", "nowait", "nonblocking", "descriptor", "positioned"}
    /\ k.kernel = "descriptor" /\ k.class # "uring" =>
         /\ k.class \in {"native", "kqueue_native", "kqueue_ready"}
         /\ k.class # "native" => k.call = "accept"
         /\ k.call \in {"none", "accept"} /\ k.value = "verbatim"
         /\ k.peer = "none" /\ k.aborted = -1 /\ ~k.stale

VARIABLES
  io,    \* what was asked for; never changes
  op,    \* the operation state
  loop,  \* the read-all / write-all state
  env,   \* the receiver's stop token, the context's stop, the calling thread
  world, \* what the kernel did
  sig    \* what the receiver got

vars == <<io, op, loop, env, world, sig>>

fixed == <<io, env>>

Layer1 == {"native", "kqueue_native", "kqueue_native_poll", "context_resolve"}
Positioned == {"probe", "start", "call"}

(* What the receiving operations of TCP and UDP sockets ask io_context for. *)
tcp_read_operation ==
  {k \in Kinds : /\ k.class \in {"native", "kqueue_native"} /\ k.kernel = "in"
                 /\ k.offset = "none" /\ k.whole}

udp_receive_operation ==
  {k \in Kinds : /\ k.class \in {"native", "kqueue_native"} /\ k.kernel = "in"
                 /\ k.offset = "none" /\ ~k.whole}

(* They may receive into a dynamic buffer, which its holder grows when the
   operation is made.                                                      *)
dynamic_buffer_holder(req) ==
  req \in tcp_read_operation \cup udp_receive_operation

Asked ==
  {a \in [req : Kinds, whole : BOOLEAN, size : 0 .. MaxSize,
          immediate : BOOLEAN, offset : StartOffsets, dynamic : BOOLEAN] :
     /\ a.whole => a.req.whole /\ a.req.class \in Layer1
     /\ a.dynamic => dynamic_buffer_holder(a.req) /\ a.size > 0
     /\ a.req.kernel \notin {"in", "out"} => a.size = 0
     /\ a.req.class # "native" => a.immediate
     /\ a.req.offset \notin Positioned =>
          a.offset = CHOOSE o \in StartOffsets : TRUE}

FreshOp ==
  [pc |-> "start", completion |-> "value", error |-> 0, result |-> 0,
   initiated |-> FALSE]

Init ==
  /\ io \in Asked
  /\ op = [FreshOp EXCEPT !.pc = IF io.whole THEN "begin" ELSE "start"]
  /\ loop = [transferred |-> 0, done |-> FALSE, eager |-> TRUE]
  /\ env \in [token : {FALSE}, stopping : {FALSE}, on_worker : BOOLEAN]
  /\ world = [moved |-> 0, eof |-> FALSE, accepted |-> FALSE,
              position |-> FALSE, peer |-> "caller", refused |-> FALSE]
  /\ sig = [kind |-> "none", ec |-> 0, value |-> 0, storage |-> IF io.dynamic THEN io.size ELSE 0]

-----------------------------------------------------------------------------
(* The native call. *)

(* The offset the kernel is given. *)
NativeOffset ==
  IF io.req.offset = "none" THEN 0
  ELSE IF io.req.offset = "current" THEN stream_file_offset
  ELSE (io.offset + loop.transferred) % 2^OffsetBits

bounded_io_size(n) == IF n < IoLimit THEN n ELSE IoLimit

Transfers == io.req.kernel \in {"in", "out"}

(* What a successful call returns; 3 stands for any new descriptor. *)
Successes ==
  IF Transfers THEN 0 .. bounded_io_size(io.size - loop.transferred)
  ELSE IF io.req.kernel = "descriptor" THEN {3}
  ELSE IF io.req.kernel = "mask" THEN {1} ELSE {0}

(* A negative offset other than -1 is refused.  A positioned call that a
   signal interrupts is repeated on the spot.                              *)
KernelResults ==
  IF /\ io.req.offset \in Positioned /\ NativeOffset # stream_file_offset
     /\ ~valid_random_access_offset(NativeOffset)
  THEN {-EINVAL}
  ELSE Successes \cup {-EAGAIN, -EIO}
         \cup (IF io.req.call = "positioned" THEN {} ELSE {-EINTR})
         \cup (IF io.req.call = "nowait" THEN {-EOPNOTSUPP} ELSE {})
         \cup (IF io.req.call = "connect" THEN {-EINPROGRESS, -EISCONN} ELSE {})

(* The kernel's side of a call that returned r. *)
Happens(r) ==
  world' = [world EXCEPT
              !.moved = IF Transfers /\ r > 0 THEN @ + r ELSE @,
              !.eof = @ \/ (io.req.kernel = "in" /\ r = 0),
              !.accepted = @ \/ (io.req.kernel = "descriptor" /\ r >= 0),
              !.position = @ \/ (Transfers /\ NativeOffset = stream_file_offset /\ r > 0)]

(* The result the request makes of it. *)
Converted(r) ==
  IF io.req.call = "socket" THEN immediate_socket_result(r)
  ELSE IF io.req.call = "nowait" THEN nowait_result(r)
  ELSE IF io.req.call \in {"nonblocking", "accept"} THEN nonblocking_io_result(r)
  ELSE IF io.req.call = "descriptor" THEN nonblocking_descriptor_result(r)
  ELSE IF io.req.call = "positioned" THEN positioned_io_result(r)
  ELSE IF ~op.initiated THEN connect_result(r) ELSE socket_error_result(r)

(* A regular file and a positioned request never wait for readiness. *)
request_should_wait(result) ==
  io.req.call # "positioned" /\ should_wait(result)

\* Mutant: an accepted descriptor that cannot be set up is not closed.
perform_io_leaking(result) ==
  IF io.req.offset = "call" /\ ~valid_random_access_offset(NativeOffset)
  THEN result = -EOVERFLOW /\ UNCHANGED world
  ELSE \E r \in KernelResults :
         /\ Happens(r)
         /\ result = Converted(r) \/ (io.req.call = "accept" /\ r >= 0 /\ result = -EIO)

(* perform_io of a kqueue request: result is what the operation gets.  An
   accepted descriptor that fcntl then refuses is closed and the error
   returned, which leaves nothing open.                                    *)
perform_io(result) ==
  IF io.req.offset = "call" /\ ~valid_random_access_offset(NativeOffset)
  THEN result = -EOVERFLOW /\ UNCHANGED world
  ELSE \E r \in KernelResults :
         \/ Happens(r) /\ result = Converted(r)
         \/ /\ io.req.call = "accept" /\ r >= 0
            /\ result = -EIO /\ UNCHANGED world

PerformResults == {-EOVERFLOW} \cup {Converted(r) : r \in KernelResults}

-----------------------------------------------------------------------------
(* Steps of an operation state. *)

(* The operation is on the CPU queue, or about to complete inline. *)
Staged(completion, result, error) ==
  [op EXCEPT !.pc = "cpu", !.completion = completion, !.result = result,
             !.error = error]

(* A finished native call is staged by the sign of its result. *)
StagedResult(result) ==
  IF result < 0 THEN Staged("value_with_ec", result, -result)
  ELSE Staged("value", result, op.error)

(* start() of io_context's operation on Linux: token, probe, publish. *)
LinuxStart ==
  /\ op.pc = "start" /\ io.req.class = "native"
  /\ \/ /\ env.token
        /\ op' = Staged("stopped", 0, op.error)
        /\ UNCHANGED world
     \/ /\ ~env.token /\ io.req.call # "none" /\ io.immediate /\ loop.eager
        /\ IF io.req.offset = "probe" /\ ~valid_random_access_offset(NativeOffset)
           THEN op' = StagedResult(-EOVERFLOW) /\ UNCHANGED world
           ELSE \E r \in KernelResults :
                  /\ Happens(r)
                  /\ op' = IF should_wait(Converted(r))
                           THEN [op EXCEPT !.pc = "publish", !.completion = "value"]
                           ELSE StagedResult(Converted(r))
     \/ /\ ~env.token
        /\ ~(io.req.call # "none" /\ io.immediate /\ loop.eager)
        /\ op' = [op EXCEPT !.pc = "publish", !.completion = "value"]
        /\ UNCHANGED world
  /\ UNCHANGED <<fixed, loop, sig>>

(* start() of io_context's operation on kqueue: the call is always made. *)
BsdStart ==
  /\ op.pc = "start" /\ io.req.class = "kqueue_native"
  /\ \/ /\ env.token
        /\ op' = Staged("stopped", 0, op.error)
        /\ UNCHANGED world
     \/ /\ ~env.token
        /\ \E result \in PerformResults :
             /\ perform_io(result)
             /\ op' = [IF request_should_wait(result)
                       THEN [op EXCEPT !.pc = "publish", !.completion = "value",
                                       !.result = result]
                       ELSE StagedResult(result)
                       EXCEPT !.initiated = TRUE]
  /\ UNCHANGED <<fixed, loop, sig>>

(* start() of the lower layer's kqueue operation; post() always succeeds and
   the error is derived from the result later.                             *)
KqueueReadyStart ==
  /\ op.pc = "start" /\ io.req.class = "kqueue_ready"
  /\ \/ /\ env.token
        /\ op' = Staged("stopped", op.result, op.error)
        /\ UNCHANGED world
     \/ /\ ~env.token
        /\ \E result \in PerformResults :
             /\ perform_io(result)
             /\ op' = [op EXCEPT !.result = result, !.initiated = TRUE,
                                 !.pc = IF request_should_wait(result)
                                        THEN "publish" ELSE "cpu"]
  /\ UNCHANGED <<fixed, loop, sig>>

(* Token, then publish: nothing is tried at start. *)
StoppedOrPublish ==
  /\ op' = IF env.token THEN Staged("stopped", op.result, op.error)
           ELSE [op EXCEPT !.pc = "publish", !.completion = "value"]
  /\ UNCHANGED <<fixed, loop, world, sig>>

BsdPollStart ==
  op.pc = "start" /\ io.req.class = "kqueue_native_poll" /\ StoppedOrPublish

KqueuePollStart ==
  op.pc = "start" /\ io.req.class = "kqueue_poll" /\ StoppedOrPublish

KqueueReceiverStart ==
  op.pc = "start" /\ io.req.class = "kqueue_receiver" /\ StoppedOrPublish

UringPollStart ==
  op.pc = "start" /\ io.req.class = "uring_poll" /\ StoppedOrPublish

(* A positioned operation checks its offset before its token. *)
UringStart ==
  /\ op.pc = "start" /\ io.req.class = "uring"
  /\ IF io.req.offset = "start" /\ ~valid_random_access_offset(NativeOffset)
     THEN /\ op' = Staged("value_with_ec", -EOVERFLOW, EOVERFLOW)
          /\ UNCHANGED <<fixed, loop, world, sig>>
     ELSE StoppedOrPublish

(* Resolvers and posts go to the CPU queue with the token's verdict. *)
QueuedStart ==
  /\ op.pc = "start" /\ io.req.class \in {"resolve", "context_resolve", "post"}
  /\ op' = Staged(IF env.token THEN "stopped" ELSE "value", 0, 0)
  /\ UNCHANGED <<fixed, loop, world, sig>>

(* publish_io: refused once the context stops, except on a worker's own queue;
   the native contexts never refuse.                                       *)
PublishIo ==
  /\ op.pc = "publish"
  /\ op' = IF env.stopping /\ io.req.class \in Layer1 /\ ~env.on_worker
           THEN Staged("stopped", op.result, op.error)
           ELSE [op EXCEPT !.pc = "queued"]
  /\ UNCHANGED <<fixed, loop, world, sig>>

-----------------------------------------------------------------------------
(* The backend's part. *)

(* complete_submit_error: some operations keep the result they had. *)
complete_submit_error(result) ==
  IF io.req.class = "kqueue_ready" THEN Staged("value", result, op.error)
  ELSE Staged("value_with_ec", IF io.req.stale THEN op.result ELSE result, -result)

(* A worker takes the operation and submits or registers it. *)
Prepare ==
  /\ op.pc = "queued"
  /\ \/ op' = [op EXCEPT !.pc = "native"] /\ UNCHANGED world
     \/ \E result \in {-EIO, -EAGAIN} :
          /\ op' = complete_submit_error(result)
          /\ world' = [world EXCEPT !.refused = TRUE]
  /\ UNCHANGED <<fixed, loop, sig>>

\* Mutant: a would-block completion is delivered.
CqeCompletesAlways ==
  /\ op.pc = "native" /\ io.req.class \in {"native", "uring", "uring_poll"}
  /\ \E r \in KernelResults :
       Happens(r) /\ op' = [op EXCEPT !.result = r, !.pc = "cpu"]
  /\ UNCHANGED <<fixed, loop, sig>>

(* io_uring posts the completion; a would-block result goes back to the I/O
   queue when the operation allows it.                                     *)
CqeCompletes ==
  /\ op.pc = "native" /\ io.req.class \in {"native", "uring", "uring_poll"}
  /\ \E r \in KernelResults :
       /\ Happens(r)
       /\ op' = [op EXCEPT !.result = r,
                           !.pc = IF r = -EAGAIN /\ io.req.rearm
                                  THEN "queued" ELSE "cpu"]
  /\ UNCHANGED <<fixed, loop, sig>>

(* A kevent without a native call: a mask, an error, or a caller-described
   registration the backend cannot perform.                                *)
EventCompletes ==
  /\ op.pc = "native" /\ io.req.call = "none"
  /\ io.req.class \in {"kqueue_native_poll", "kqueue_poll", "kqueue_receiver"}
  /\ \E r \in Successes \cup (IF io.req.class = "kqueue_receiver"
                              THEN {-EIO, -EOPNOTSUPP} ELSE {}) :
       op' = [op EXCEPT !.result = r, !.pc = "cpu"]
  /\ UNCHANGED <<fixed, loop, world, sig>>

(* A kevent for an operation that makes its own call: the event's error, a
   closed peer, or the call, after which a would-block result waits again. *)
EventPerformsIo ==
  /\ op.pc = "native" /\ io.req.class \in {"kqueue_native", "kqueue_ready"}
  /\ \/ /\ \E r \in {-EIO} \cup (IF io.req.kernel \in {"out", "status"}
                                 THEN {-EPIPE} ELSE {}) :
             op' = [op EXCEPT !.result = r, !.pc = "cpu"]
        /\ UNCHANGED world
     \/ \E result \in PerformResults :
          /\ perform_io(result)
          /\ \/ op' = [op EXCEPT !.result = result, !.initiated = TRUE,
                         !.pc = IF result = -EAGAIN THEN "native" ELSE "cpu"]
             \/ /\ result = -EAGAIN
                /\ op' = [op EXCEPT !.result = -EIO, !.initiated = TRUE,
                                    !.pc = "cpu"]
  /\ UNCHANGED <<fixed, loop, sig>>

(* The stopping context aborts what it holds.  What an io_uring request did
   before its completion was read is lost with it.                         *)
Abort ==
  /\ env.stopping /\ op.pc \in {"queued", "native"}
  /\ op' = [op EXCEPT !.pc = "cpu", !.completion = "stopped"]
  /\ \/ UNCHANGED world
     \/ /\ op.pc = "native" /\ io.req.class \in {"native", "uring", "uring_poll"}
        /\ \E r \in KernelResults : Happens(r)
  /\ UNCHANGED <<fixed, loop, sig>>

-----------------------------------------------------------------------------
(* Completion. *)

(* A dynamic buffer shrinks from what was prepared to what was received. *)
commit(size) == IF size < sig.storage THEN size ELSE sig.storage

(* The receiver's signal; the TCP and UDP operations commit a dynamic buffer
   first, and only on success.                                             *)
Deliver(kind, ec, value) ==
  sig' = [kind |-> kind, ec |-> ec, value |-> value,
          storage |-> IF io.dynamic /\ kind = "value" /\ ec = 0
                      THEN commit(value) ELSE sig.storage]

Finish(kind, ec, value) ==
  /\ Deliver(kind, ec, value)
  /\ op' = [op EXCEPT !.pc = "done"]
  /\ UNCHANGED <<fixed, loop>>

\* Mutant: a write of zero bytes ends the loop as a success.
zero_byte_ignored == 0

(* The error a read-all or write-all gives up with, 0 for the end of a read. *)
zero_byte_error == IF io.req.kernel = "out" THEN EPIPE ELSE 0

\* Mutant: a round sets the count instead of adding to it.
advance_resets(bytes) ==
  [transferred |-> bytes, done |-> loop.transferred + bytes >= io.size,
   eager |-> bytes = io.size - loop.transferred]

advance(bytes) ==
  [transferred |-> loop.transferred + bytes,
   done |-> loop.transferred + bytes >= io.size,
   eager |-> bytes = io.size - loop.transferred]

\* Mutant: a round that failed or moved nothing is tried again.
step_retried(ec, bytes) ==
  /\ loop' = advance(bytes)
  /\ IF loop'.done
     THEN op' = [op EXCEPT !.pc = "done"] /\ Deliver("value", ec, loop'.transferred)
     ELSE op' = [op EXCEPT !.pc = "round"] /\ UNCHANGED sig
  /\ UNCHANGED fixed

(* One round of a read-all or write-all is over. *)
write_all_step_complete(ec, bytes) ==
  LET over == [advance(bytes) EXCEPT !.transferred = loop.transferred,
                                     !.done = TRUE]
  IN  /\ loop' = IF ec # 0 \/ bytes = 0 THEN over ELSE advance(bytes)
      /\ IF loop'.done
         THEN /\ op' = [op EXCEPT !.pc = "done"]
              /\ Deliver("value",
                         IF ec # 0 THEN ec
                         ELSE IF bytes = 0 THEN zero_byte_error ELSE 0,
                         loop'.transferred)
         ELSE op' = [op EXCEPT !.pc = "round"] /\ UNCHANGED sig
      /\ UNCHANGED fixed

(* What a completion becomes outside the native operation. *)
Complete(kind, ec, value) ==
  IF io.whole /\ kind = "value" THEN write_all_step_complete(ec, value)
  ELSE Finish(kind, ec, value)

(* set_value of a request model. *)
Value(ec, result) ==
  IF io.req.value = "clamped" THEN (IF result < 0 THEN 0 ELSE result)
  ELSE IF io.req.value = "verbatim" THEN result
  ELSE IF io.req.value = "mask" /\ ec = 0 THEN result ELSE 0

set_value(ec, result) ==
  IF io.req.peer = "fails" /\ ec = 0 /\ result >= 0
  THEN \/ /\ world' = [world EXCEPT !.peer = "peer"]
          /\ Complete("value", ec, Value(ec, result))
       \/ /\ world' = [world EXCEPT !.peer = "reset"]
          /\ Complete("value", EAFNOSUPPORT, 0)
  ELSE UNCHANGED world /\ Complete("value", ec, Value(ec, result))

\* Mutant: any stopped completion goes to set_stopped.
StoppedAlways == UNCHANGED world /\ Complete("stopped", 0, 0)

(* Arbitration of a stopped completion: the token wins. *)
CompleteStopped ==
  IF env.token THEN UNCHANGED world /\ Complete("stopped", 0, 0)
  ELSE set_value(ECANCELED, io.req.aborted)

(* The switch of execute(): a stopped completion is arbitrated, a staged error
   is handed on, and a value's own sign tells whether it is one.             *)
CompleteStaged ==
  IF op.completion = "stopped" THEN CompleteStopped
  ELSE IF op.completion = "value_with_ec" THEN set_value(op.error, op.result)
  ELSE set_value(IF op.result < 0 THEN -op.result ELSE 0, op.result)

(* execute() of io_context's operations, Linux then BSD, and of the polls. *)
NativeExecute == op.pc = "cpu" /\ io.req.class = "native" /\ CompleteStaged

BsdExecute == op.pc = "cpu" /\ io.req.class = "kqueue_native" /\ CompleteStaged

BsdPollExecute ==
  op.pc = "cpu" /\ io.req.class = "kqueue_native_poll" /\ CompleteStaged

UringPollExecute == op.pc = "cpu" /\ io.req.class = "uring_poll" /\ CompleteStaged

KqueuePollExecute == op.pc = "cpu" /\ io.req.class = "kqueue_poll" /\ CompleteStaged

(* execute() of the lower layer's kqueue operation. *)
KqueueReadyExecute ==
  /\ op.pc = "cpu" /\ io.req.class = "kqueue_ready"
  /\ IF op.completion = "stopped" THEN CompleteStopped
     ELSE set_value(IF op.result < 0 THEN -op.result ELSE 0, op.result)

(* What the lower layer's receiver operations tell: no conversion of the
   result.                                                                 *)
FinishStaged ==
  Finish("value",
         IF op.completion = "value_with_ec" THEN op.error
         ELSE IF op.result < 0 THEN -op.result ELSE 0,
         op.result)

(* execute() of the lower layer's io_uring operations: accept and
   receive-from decode the peer first and forget it when they cannot.      *)
ReceiverExecute ==
  /\ op.pc = "cpu" /\ io.req.class = "uring"
  /\ IF op.completion = "stopped" THEN CompleteStopped
     ELSE /\ IF io.req.peer = "resets" /\ op.completion = "value" /\ op.result >= 0
             THEN \E p \in {"peer", "reset"} : world' = [world EXCEPT !.peer = p]
             ELSE UNCHANGED world
          /\ FinishStaged

(* execute() of the lower layer's kqueue operation without I/O. *)
KqueueReceiverExecute ==
  /\ op.pc = "cpu" /\ io.req.class = "kqueue_receiver"
  /\ IF op.completion = "stopped" THEN CompleteStopped
     ELSE UNCHANGED world /\ FinishStaged

(* execute() of a resolver: the token's verdict of start() is final, and only
   io_context's resolver looks at the context's stop.                      *)
ResolveExecute ==
  /\ op.pc = "cpu" /\ io.req.class \in {"resolve", "context_resolve"}
  /\ IF op.completion = "stopped" THEN Finish("stopped", 0, 0)
     ELSE IF io.req.class = "context_resolve" /\ env.stopping
     THEN Finish("value", ECANCELED, 0)
     ELSE Finish("value", 0, 1) \/ Finish("value", EIO, 0)
  /\ UNCHANGED world

(* Completion of schedule(): token first, then the context's stop. *)
ScheduleComplete ==
  IF env.token THEN Finish("stopped", 0, 0)
  ELSE IF env.stopping THEN Finish("value", ECANCELED, 0)
  ELSE Finish("value", 0, 0)

(* publish_cpu: a worker posts to itself; others are refused by a stop. *)
publish_cpu == env.on_worker \/ ~env.stopping

(* start() of schedule(): a dispatch on a worker, and what publish_cpu
   refused, completes inline.                                              *)
ScheduleStart ==
  /\ op.pc = "start" /\ io.req.class \in {"schedule", "dispatch"}
  /\ \/ /\ publish_cpu /\ (io.req.class = "dispatch" => ~env.on_worker)
        /\ op' = Staged("value", 0, 0)
        /\ UNCHANGED <<fixed, loop, sig>>
     \/ /\ ~publish_cpu \/ (io.req.class = "dispatch" /\ env.on_worker)
        /\ ScheduleComplete
  /\ UNCHANGED world

ScheduleExecute ==
  /\ op.pc = "cpu" /\ io.req.class \in {"schedule", "dispatch"}
  /\ ScheduleComplete
  /\ UNCHANGED world

PostExecute ==
  /\ op.pc = "cpu" /\ io.req.class = "post"
  /\ Finish(op.completion, 0, 0)
  /\ UNCHANGED world

-----------------------------------------------------------------------------
(* start() of a read-all or write-all. *)
WholeStart ==
  /\ op.pc = "begin"
  /\ IF env.token THEN Finish("stopped", 0, 0)
     ELSE IF io.size = 0 THEN Finish("value", 0, loop.transferred)
     ELSE op' = [op EXCEPT !.pc = "round"] /\ UNCHANGED <<fixed, loop, sig>>
  /\ UNCHANGED world

(* The token is looked at before each round, which is a new operation. *)
NextRound ==
  /\ op.pc = "round"
  /\ IF env.token THEN Finish("stopped", 0, 0)
     ELSE op' = FreshOp /\ UNCHANGED <<fixed, loop, sig>>
  /\ UNCHANGED world

CancelToken ==
  /\ ~env.token
  /\ env' = [env EXCEPT !.token = TRUE]
  /\ UNCHANGED <<io, op, loop, world, sig>>

StopContext ==
  /\ ~env.stopping
  /\ env' = [env EXCEPT !.stopping = TRUE]
  /\ UNCHANGED <<io, op, loop, world, sig>>

Start ==
  \/ LinuxStart \/ BsdStart \/ KqueueReadyStart \/ BsdPollStart
  \/ KqueuePollStart \/ KqueueReceiverStart \/ UringPollStart \/ UringStart
  \/ QueuedStart \/ ScheduleStart

Execute ==
  \/ NativeExecute \/ BsdExecute \/ BsdPollExecute \/ UringPollExecute
  \/ KqueuePollExecute \/ KqueueReadyExecute
  \/ ReceiverExecute \/ KqueueReceiverExecute
  \/ ResolveExecute \/ PostExecute \/ ScheduleExecute

(* The threads of the program: the caller and the context's worker. *)
Program == Start \/ PublishIo \/ Prepare \/ Abort \/ Execute \/ WholeStart \/ NextRound

Kernel == CqeCompletes \/ EventCompletes \/ EventPerformsIo

Next == Program \/ Kernel \/ CancelToken \/ StopContext

Spec == Init /\ [][Next]_vars

(* The caller finishes start() and a worker runs what is queued.  Once the
   context stops, a worker's finish() aborts what the ring or the kqueue still
   holds, however often it is submitted again.  Nothing is assumed of the
   kernel.                                                                 *)
FairSpec == Spec /\ WF_vars(Program) /\ SF_vars(Abort)

-----------------------------------------------------------------------------
OpType ==
  [pc : {"begin", "round", "start", "publish", "queued", "native", "cpu", "done"},
   completion : {"value", "value_with_ec", "stopped"},
   error : Nat, result : Int, initiated : BOOLEAN]

LoopType == [transferred : Nat, done : BOOLEAN, eager : BOOLEAN]

EnvType == [token : BOOLEAN, stopping : BOOLEAN, on_worker : BOOLEAN]

WorldType ==
  [moved : Nat, eof : BOOLEAN, accepted : BOOLEAN, position : BOOLEAN,
   peer : {"caller", "peer", "reset"}, refused : BOOLEAN]

SigType ==
  [kind : {"none", "value", "stopped"}, ec : Nat, value : Int, storage : Nat]

(* The operation state keeps its shape; an error code is never negative. *)
TypeOK ==
  /\ io \in Asked /\ op \in OpType /\ loop \in LoopType
  /\ env \in EnvType /\ world \in WorldType /\ sig \in SigType

Valued == sig.kind = "value"
Succeeded == Valued /\ sig.ec = 0

(* The byte count is the truth: on success it is exactly what the kernel
   moved over all rounds, and a dynamic buffer holds exactly those bytes; on
   failure it is never more than that; and every round starts where the bytes
   moved so far end.                                                       *)
CountsTrue ==
  Transfers =>
    /\ Succeeded => sig.value = world.moved
    /\ Succeeded /\ io.dynamic => sig.storage = world.moved
    /\ Valued /\ sig.value > 0 => sig.value <= world.moved
    /\ op.pc \in {"round", "start", "publish", "queued"} =>
         loop.transferred = (IF io.whole THEN world.moved ELSE 0)

(* A read-all or write-all that succeeds moved the whole buffer, or read to
   the end of the stream; a write that is cut short never looks successful. *)
AllMeansAll ==
  io.whole /\ Succeeded =>
    sig.value = io.size \/ (io.req.kernel = "in" /\ world.eof)

(* set_stopped is sent only to a receiver whose token is cancelled: a context
   stop alone is the error operation_canceled on the value channel.        *)
StoppedOnlyByToken == sig.kind = "stopped" => env.token

(* Accept hands over a descriptor only when one is open for it: no abort,
   refusal or error reads as descriptor 0.  And the one that is open when the
   operation is over was handed over, except that an abort of io_context on
   Linux may overtake a completion whose descriptor nobody then gets.  Not
   promised by the io_uring operations of the lower layer, which report 0. *)
NoFalseDescriptor ==
  io.req.kernel = "descriptor" /\ io.req.class # "uring" =>
    /\ Valued /\ sig.value >= 0 => sig.ec = 0 /\ world.accepted
    /\ Succeeded => sig.value >= 0
    /\ op.pc = "done" /\ world.accepted =>
         Succeeded \/ (io.req.class = "native" /\ op.completion = "stopped")

(* Would-block is handled inside: a receiver sees EAGAIN only when the backend
   refused the submission with it, or asked for an operation that never
   waits.                                                                  *)
WouldBlockStaysInside ==
  Valued /\ sig.ec = EAGAIN /\ io.req.rearm /\ io.req.call # "positioned" =>
    world.refused

(* A stopping context delivers: every operation started on it completes even
   when the kernel never answers.                                          *)
StopDelivers == env.stopping ~> (op.pc = "done")
===============================================================================
