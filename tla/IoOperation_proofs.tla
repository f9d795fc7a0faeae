-------------------------- MODULE IoOperation_proofs --------------------------
(***************************************************************************)
(* What every I/O operation promises its receiver, for every request,      *)
(* buffer size, transfer limit and offset: set_stopped only to a cancelled *)
(* token, byte counts that are the kernel's, whole reads and writes that   *)
(* are whole, descriptors that were really accepted, and would-block       *)
(* results that are never told.                                            *)
(***************************************************************************)
EXTENDS IoOperation, TLAPS

Queued == {"resolve", "context_resolve", "post", "schedule", "dispatch"}
Describes == io.req.kernel = "descriptor" /\ io.req.class # "uring"

(* What Asked and KindsAssumption say of the request; it never changes. *)
Given ==
  /\ io \in Asked
  /\ io.size \in Nat /\ io.whole \in BOOLEAN /\ io.dynamic \in BOOLEAN
  /\ io.req.aborted \in {-1, 0} /\ io.req.stale \in BOOLEAN
  /\ io.whole => Transfers /\ io.req.class \in {"native", "kqueue_native"}
  /\ Transfers => io.req.kernel # "descriptor"
  /\ io.dynamic => Transfers
  /\ Transfers =>
       \/ io.req.class = "uring" /\ io.req.value = "verbatim" /\ io.req.aborted = 0
       \/ /\ io.req.class \in {"native", "kqueue_native", "kqueue_ready"}
          /\ io.req.value = "clamped" /\ ~io.req.stale
          /\ io.req.call \in {"socket", "nowait", "nonblocking", "descriptor", "positioned"}
  /\ Describes =>
       /\ io.req.class \in {"native", "kqueue_native", "kqueue_ready"}
       /\ io.req.class # "native" => io.req.call = "accept"
       /\ io.req.call \in {"none", "accept"} /\ io.req.value = "verbatim"
       /\ io.req.peer = "none" /\ io.req.aborted = -1 /\ ~io.req.stale

Typed ==
  /\ op \in OpType /\ loop \in LoopType
  /\ env \in EnvType /\ world \in WorldType /\ sig \in SigType

Waiting == {"begin", "start", "publish", "queued", "native"}

(* A receiver has its signal exactly when the operation is done, nothing is
   decided before the CPU queue, and work that goes there directly carries a
   stop only when the token asked for it.                                  *)
Verdict ==
  /\ op.pc = "done" <=> sig.kind # "none"
  /\ op.pc \in Waiting => op.completion = "value"
  /\ op.pc = "begin" => io.whole
  /\ sig.kind = "stopped" => env.token
  /\ io.req.class \in Queued =>
       /\ op.pc \in {"start", "cpu", "done"}
       /\ op.pc = "cpu" => op.completion \in {"value", "stopped"}
       /\ op.pc = "cpu" /\ op.completion = "stopped" => env.token

Before == {"begin", "round", "start", "publish", "queued", "native"}

(* Where the bytes are while a transfer is on its way. *)
OnTheWay ==
  /\ loop.transferred <= io.size
  /\ ~io.whole => loop.transferred = 0
  /\ sig.kind = "none" => sig.storage = IF io.dynamic THEN io.size ELSE 0
  /\ op.pc \in Before => world.moved = loop.transferred
  /\ op.pc \in Before \ {"round"} => op.result <= 0
  /\ op.pc = "cpu" => loop.transferred <= world.moved
  /\ op.pc = "cpu" /\ op.completion = "value" /\ op.result >= 0 =>
       /\ world.moved = loop.transferred + op.result
       /\ world.moved <= io.size
       /\ op.result = 0 /\ io.req.kernel = "in" => world.eof
  /\ op.pc = "cpu" /\ op.completion = "value_with_ec" =>
       op.error > 0 /\ op.result <= 0 /\ (op.result < 0 \/ io.req.stale)

(* What the receiver of a transfer was told. *)
Told ==
  /\ Succeeded => sig.value = world.moved
  /\ Succeeded /\ io.dynamic => sig.storage = world.moved
  /\ Valued /\ sig.value > 0 => sig.value <= world.moved
  /\ io.whole /\ Succeeded =>
       sig.value = io.size \/ (io.req.kernel = "in" /\ world.eof)

(* An io_uring accept whose completion an abort overtook. *)
Overtaken == io.req.class = "native" /\ op.completion = "stopped"

(* Where the descriptor of an accept is: there is none before the operation
   reaches the CPU queue, and then its result is the descriptor.           *)
Handed ==
  /\ op.pc \in Before => ~world.accepted
  /\ op.pc = "cpu" /\ op.completion = "value" /\ op.result >= 0 => world.accepted
  /\ op.pc = "cpu" /\ op.completion = "value_with_ec" => op.error > 0 /\ op.result < 0
  /\ op.pc = "cpu" /\ world.accepted =>
       (op.completion = "value" /\ op.result >= 0) \/ Overtaken
  /\ Valued => /\ sig.value >= 0 => sig.ec = 0 /\ world.accepted
               /\ sig.ec = 0 => sig.value >= 0
  /\ op.pc = "done" /\ world.accepted => Succeeded \/ Overtaken

IInv ==
  /\ Given /\ Typed /\ Verdict
  /\ Transfers => OnTheWay /\ Told
  /\ Describes => Handed

-----------------------------------------------------------------------------
(* What can be asked for has the properties KindsAssumption gives its request. *)
LEMMA AskedGiven == io \in Asked => Given
<1> SUFFICES ASSUME io \in Asked PROVE Given
  OBVIOUS
<1>1. /\ io \in [req : Kinds, whole : BOOLEAN, size : 0 .. MaxSize,
                 immediate : BOOLEAN, offset : StartOffsets, dynamic : BOOLEAN]
      /\ io.whole => io.req.whole /\ io.req.class \in Layer1
  BY DEF Asked
<1>2. io.req \in Kinds /\ io.whole \in BOOLEAN /\ io.size \in 0 .. MaxSize /\ io.dynamic \in BOOLEAN
  BY <1>1
<1>3. io.size \in Nat
  BY <1>2, OperationAssumption
<1>4. io.req \in RequestType
  BY <1>2, OperationAssumption
<1>5. io.req.aborted \in {-1, 0} /\ io.req.stale \in BOOLEAN
  BY <1>4 DEF RequestType
<1>6. io.whole => Transfers /\ io.req.class \in {"native", "kqueue_native"}
  BY <1>1, <1>2, KindsAssumption DEF Transfers, Layer1
<1>7. Transfers =>
       \/ io.req.class = "uring" /\ io.req.value = "verbatim" /\ io.req.aborted = 0
       \/ /\ io.req.class \in {"native", "kqueue_native", "kqueue_ready"}
          /\ io.req.value = "clamped" /\ ~io.req.stale
          /\ io.req.call \in {"socket", "nowait", "nonblocking", "descriptor", "positioned"}
  BY <1>2, KindsAssumption DEF Transfers
<1>8. Describes =>
       /\ io.req.class \in {"native", "kqueue_native", "kqueue_ready"}
       /\ io.req.class # "native" => io.req.call = "accept"
       /\ io.req.call \in {"none", "accept"} /\ io.req.value = "verbatim"
       /\ io.req.peer = "none" /\ io.req.aborted = -1 /\ ~io.req.stale
  BY <1>2, KindsAssumption DEF Describes
<1>9. Transfers => io.req.kernel # "descriptor"
  BY DEF Transfers
<1>10. io.dynamic => Transfers
  BY DEF Asked, dynamic_buffer_holder, tcp_read_operation, udp_receive_operation, Transfers
<1> QED
  BY <1>2, <1>3, <1>5, <1>6, <1>7, <1>8, <1>9, <1>10 DEF Given

-----------------------------------------------------------------------------
(* The native call. *)

(* What a call leaves behind, seen through the result the operation keeps. *)
Outcome(res) ==
  /\ res \in Int /\ world' \in WorldType
  /\ Transfers => /\ res < 0 => world'.moved = world.moved
                  /\ res >= 0 => /\ world'.moved = world.moved + res
                                 /\ loop.transferred + res <= io.size
                  /\ res = 0 /\ io.req.kernel = "in" => world'.eof
  /\ Describes => (world'.accepted <=> world.accepted \/ res >= 0)

(* A kernel result is negative or a success within the rest of the buffer. *)
LEMMA KernelSays ==
  ASSUME Given, Typed, Transfers => OnTheWay, NEW r \in KernelResults
  PROVE  /\ r \in Int
         /\ Transfers /\ r >= 0 => loop.transferred + r <= io.size
<1>1. r \in Successes \/ (r \in Int /\ r < 0)
  BY DEF KernelResults, EINVAL, EAGAIN, EIO, EINTR, EOPNOTSUPP, EINPROGRESS, EISCONN
<1>2. CASE r \in Int /\ r < 0
  BY <1>2
<1>3. CASE r \in Successes
  <2>1. CASE Transfers
    <3>1. r \in 0 .. bounded_io_size(io.size - loop.transferred)
      BY <1>3, <2>1 DEF Successes
    <3>2. loop.transferred \in Nat /\ loop.transferred <= io.size /\ io.size \in Nat
      BY <2>1 DEF Typed, LoopType, OnTheWay, Given
    <3> QED
      BY <3>1, <3>2, OperationAssumption DEF bounded_io_size
  <2>2. CASE ~Transfers
    BY <1>3, <2>2 DEF Successes
  <2> QED
    BY <2>1, <2>2
<1> QED
  BY <1>1, <1>2, <1>3

(* The kernel's side of any call keeps the record of what it did. *)
LEMMA HappensKeeps ==
  ASSUME Typed, NEW r \in Int, Happens(r)
  PROVE  /\ world' \in WorldType
         /\ world'.moved = IF Transfers /\ r > 0 THEN world.moved + r ELSE world.moved
         /\ io.req.kernel = "in" /\ r = 0 => world'.eof
         /\ world'.accepted = (world.accepted \/ (io.req.kernel = "descriptor" /\ r >= 0))
<1> DEFINE moved == IF Transfers /\ r > 0 THEN world.moved + r ELSE world.moved
           eof == world.eof \/ (io.req.kernel = "in" /\ r = 0)
           accepted == world.accepted \/ (io.req.kernel = "descriptor" /\ r >= 0)
           position == world.position \/ (Transfers /\ NativeOffset = stream_file_offset /\ r > 0)
<1>1. world' = [world EXCEPT !.moved = moved, !.eof = eof, !.accepted = accepted,
                             !.position = position]
  BY Zenon DEF Happens
<1>2. moved \in Nat
  BY DEF Typed, WorldType
<1>3. eof \in BOOLEAN /\ accepted \in BOOLEAN /\ position \in BOOLEAN
  BY Zenon
<1> HIDE DEF moved, eof, accepted, position
<1>4. world' \in WorldType /\ world'.moved = moved /\ world'.eof = eof /\ world'.accepted = accepted
  BY <1>1, <1>2, <1>3, Zenon DEF Typed, WorldType
<1> QED
  BY <1>4, Zenon DEF moved, eof, accepted

(* A completion of the ring is taken as it is. *)
LEMMA RingOutcome ==
  ASSUME Given, Typed, Transfers => OnTheWay, NEW r \in KernelResults, Happens(r)
  PROVE  Outcome(r)
<1>1. r \in Int /\ (Transfers /\ r >= 0 => loop.transferred + r <= io.size)
  BY KernelSays
<1>2. world.moved \in Nat
  BY DEF Typed, WorldType
<1>3. world' \in WorldType
  BY <1>1, HappensKeeps
<1>4. Transfers => /\ r < 0 => world'.moved = world.moved
                   /\ r >= 0 => world'.moved = world.moved + r
                   /\ r = 0 /\ io.req.kernel = "in" => world'.eof
  BY <1>1, <1>2, HappensKeeps
<1>5. Describes => (world'.accepted <=> world.accepted \/ r >= 0)
  <2>1. world'.accepted = (world.accepted \/ (io.req.kernel = "descriptor" /\ r >= 0))
    BY <1>1, HappensKeeps
  <2> QED
    BY <2>1, Zenon DEF Describes
<1> QED
  BY <1>1, <1>3, <1>4, <1>5, Zenon DEF Outcome

(* A conversion changes negative results only, a connect aside. *)
LEMMA ConvertedSays ==
  ASSUME NEW r \in Int
  PROVE  /\ Converted(r) \in Int
         /\ io.req.call \in {"socket", "nowait", "nonblocking", "descriptor", "positioned", "accept"}
              => Converted(r) = r \/ (r < 0 /\ Converted(r) < 0)
BY DEF Converted, immediate_socket_result, nowait_result, should_defer_nowait_error,
       nonblocking_io_result, nonblocking_descriptor_result, positioned_io_result,
       connect_result, socket_error_result, EINTR, EAGAIN, EINPROGRESS, EALREADY, EISCONN,
       ENOSYS, EOPNOTSUPP, EINVAL, ESPIPE

(* The operation's own call. *)
LEMMA CallOutcome ==
  ASSUME Given, Typed, Transfers => OnTheWay, NEW r \in KernelResults, Happens(r),
         io.req.class \in {"native", "kqueue_native", "kqueue_ready"}, 
         io.req.class = "native" => io.req.call # "none"
  PROVE  Outcome(Converted(r))
<1>1. Outcome(r)
  BY RingOutcome
<1>2. r \in Int
  BY <1>1 DEF Outcome
<1>3. Transfers \/ Describes =>
        io.req.call \in {"socket", "nowait", "nonblocking", "descriptor", "positioned", "accept"}
  BY DEF Given
<1>4. Converted(r) \in Int
  BY <1>2, ConvertedSays
<1>5. Transfers \/ Describes => Converted(r) = r \/ (r < 0 /\ Converted(r) < 0)
  BY <1>2, <1>3, ConvertedSays
<1> QED
  BY <1>1, <1>2, <1>4, <1>5 DEF Outcome

(* perform_io of a kqueue request. *)
LEMMA PerformOutcome ==
  ASSUME Given, Typed, Transfers => OnTheWay, NEW result \in PerformResults,
         perform_io(result), io.req.class \in {"kqueue_native", "kqueue_ready"}
  PROVE  Outcome(result)
<1>1. CASE io.req.offset = "call" /\ ~valid_random_access_offset(NativeOffset)
  <2>1. result = -EOVERFLOW /\ UNCHANGED world
    BY <1>1 DEF perform_io
  <2>2. world \in WorldType /\ result \in Int /\ result < 0
    BY <2>1 DEF Typed, EOVERFLOW
  <2> QED
    BY <2>1, <2>2 DEF Outcome
<1>2. CASE ~(io.req.offset = "call" /\ ~valid_random_access_offset(NativeOffset))
  <2>1. CASE \E r \in KernelResults : Happens(r) /\ result = Converted(r)
    BY <2>1, CallOutcome
  <2>2. CASE io.req.call = "accept" /\ result = -EIO /\ UNCHANGED world
    <3>1. world \in WorldType /\ result \in Int /\ result < 0
      BY <2>2 DEF Typed, EIO
    <3> QED
      BY <2>2, <3>1 DEF Outcome
  <2> QED
    BY <1>2, <2>1, <2>2, Zenon DEF perform_io
<1> QED
  BY <1>1, <1>2

-----------------------------------------------------------------------------
(* Steps on the way to the CPU queue. *)

(* The request is the same in the next state. *)
LEMMA GivenStays ==
  ASSUME Given, io' = io
  PROVE  Given' /\ Transfers' = Transfers /\ Describes' = Describes
BY DEF Given, Transfers, Describes

(* The descriptor's part of a step that sends no signal. *)
Carried ==
  /\ op'.pc = "cpu" /\ op'.completion = "value" /\ op'.result >= 0 => world'.accepted
  /\ op'.pc = "cpu" /\ op'.completion = "value_with_ec" => op'.error > 0 /\ op'.result < 0
  /\ world'.accepted =>
       /\ op'.pc = "cpu"
       /\ \/ op'.completion = "value" /\ op'.result >= 0
          \/ io.req.class = "native" /\ op'.completion = "stopped"

(* A step that sends no signal only has to keep the bytes and the descriptor
   accounted for.                                                          *)
LEMMA Continues ==
  ASSUME IInv, UNCHANGED <<fixed, loop, sig>>, op' \in OpType, world' \in WorldType,
         op.pc # "done", op'.pc # "done", io.req.class \notin Queued,
         op'.pc \in Waiting => op'.completion = "value", op'.pc # "begin",
         Transfers => OnTheWay', Describes => Carried
  PROVE  IInv'
<1>1. io' = io /\ env' = env /\ loop' = loop /\ sig' = sig
  BY DEF fixed
<1>2. Given' /\ Transfers' = Transfers /\ Describes' = Describes
  BY <1>1, GivenStays DEF IInv
<1>3. sig.kind = "none"
  BY DEF IInv, Verdict
<1>4. Typed'
  BY <1>1 DEF IInv, Typed
<1>5. Verdict'
  BY <1>1, <1>3 DEF IInv, Verdict
<1>6. Told' /\ (Describes => Handed')
  BY <1>1, <1>3 DEF Told, Handed, Carried, Valued, Succeeded, Overtaken, Before
<1> QED
  BY <1>2, <1>4, <1>5, <1>6 DEF IInv

(* A staged operation keeps its shape. *)
LEMMA StagedTyped ==
  ASSUME op \in OpType, NEW c \in {"value", "value_with_ec", "stopped"},
         NEW res \in Int, NEW e \in Nat
  PROVE  /\ Staged(c, res, e) \in OpType
         /\ Staged(c, res, e).pc = "cpu" /\ Staged(c, res, e).completion = c
         /\ Staged(c, res, e).result = res /\ Staged(c, res, e).error = e
BY Zenon DEF Staged, OpType

(* The outcome of a call, staged or kept for another attempt. *)
LEMMA Called ==
  ASSUME IInv, UNCHANGED <<fixed, loop, sig>>, op.pc \in {"start", "queued", "native"},
         NEW res, Outcome(res), op' \in OpType, io.req.class \notin Queued,
         \/ /\ op'.pc \in {"publish", "queued", "native"} /\ op'.completion = "value"
            /\ res < 0 /\ (Transfers => op'.result <= 0)
         \/ /\ op'.pc = "cpu" /\ op'.completion = "value_with_ec" /\ op'.error > 0
            /\ res < 0 /\ op'.result = res
         \/ op'.pc = "cpu" /\ op'.completion = "value" /\ op'.result = res
         \/ op'.pc = "cpu" /\ op'.completion = "value" /\ res < 0 /\ op'.result < 0
         \/ op'.pc = "cpu" /\ op'.completion = "stopped" /\ (Describes => io.req.class = "native")
  PROVE  IInv'
<1>1. loop' = loop /\ sig' = sig /\ io' = io
  BY DEF fixed
<1>2. op.result \in Int /\ op'.result \in Int /\ res \in Int /\ world.moved \in Nat
      /\ world' \in WorldType /\ loop.transferred \in Nat
  BY DEF IInv, Typed, OpType, WorldType, LoopType, Outcome
<1>3. world'.moved \in Nat /\ op'.error \in Nat
  BY <1>2 DEF WorldType, OpType
<1>4. Transfers => OnTheWay'
  <2> SUFFICES ASSUME Transfers PROVE OnTheWay'
    OBVIOUS
  <2>1. OnTheWay /\ world.moved = loop.transferred
    BY DEF IInv, OnTheWay, Before
  <2>2. /\ loop'.transferred <= io'.size
        /\ ~io'.whole => loop'.transferred = 0
        /\ sig'.kind = "none" => sig'.storage = IF io'.dynamic THEN io'.size ELSE 0
    BY <1>1, <2>1 DEF OnTheWay
  <2>3. op'.pc \in Before =>
          world'.moved = loop'.transferred /\ op'.result <= 0
    BY <1>1, <2>1 DEF Outcome, Before
  <2>4. op'.pc = "cpu" => loop'.transferred <= world'.moved
    BY <1>1, <1>2, <1>3, <2>1 DEF Outcome
  <2>5. op'.pc = "cpu" /\ op'.completion = "value" /\ op'.result >= 0 =>
          /\ world'.moved = loop'.transferred + op'.result
          /\ world'.moved <= io'.size
          /\ op'.result = 0 /\ io'.req.kernel = "in" => world'.eof
    BY <1>1, <1>2, <1>3, <2>1 DEF Outcome
  <2>6. op'.pc = "cpu" /\ op'.completion = "value_with_ec" => op'.error > 0 /\ op'.result < 0
    BY <1>2
  <2> QED
    BY <1>2, <2>2, <2>3, <2>4, <2>5, <2>6 DEF OnTheWay
<1>5. Describes => Carried
  BY <1>2 DEF IInv, Handed, Before, Carried, Outcome
<1> QED
  BY <1>2, <1>4, <1>5, Continues DEF Waiting

(* A step of the operation state alone: no call is made. *)
LEMMA Quiet ==
  ASSUME IInv, UNCHANGED <<fixed, loop, sig>>, op.pc \in {"start", "publish", "queued", "native"},
         world' \in WorldType, world'.moved = world.moved, world'.accepted = world.accepted,
         op' \in OpType, io.req.class \notin Queued,
         \/ /\ op'.pc \in {"publish", "queued", "native"} /\ op'.completion = "value"
            /\ op'.result = op.result
         \/ op'.pc = "cpu" /\ op'.completion = "stopped"
         \/ op'.pc = "cpu" /\ op'.completion = "value" /\ op'.result < 0
         \/ /\ op'.pc = "cpu" /\ op'.completion = "value_with_ec" /\ op'.error > 0
            /\ op'.result < 0 \/ (op'.result = op.result /\ io.req.stale)
  PROVE  IInv'
<1>1. loop' = loop /\ sig' = sig /\ io' = io
  BY DEF fixed
<1>2. op.result \in Int /\ op'.result \in Int /\ world.moved \in Nat /\ op'.error \in Nat
      /\ loop.transferred \in Nat
  BY DEF IInv, Typed, OpType, WorldType, LoopType
<1>3. Transfers => OnTheWay'
  BY <1>1, <1>2 DEF IInv, OnTheWay, Before
<1>4. Describes => Carried
  BY <1>2 DEF IInv, Given, Handed, Before, Carried
<1> QED
  BY <1>3, <1>4, Continues DEF Waiting

(* The result of a finished call, staged by its sign. *)
LEMMA ResultStaged ==
  ASSUME IInv, UNCHANGED <<fixed, loop, sig>>, op.pc \in {"start", "queued", "native"},
         io.req.class \notin Queued, NEW res, Outcome(res),
         op' = StagedResult(res)
  PROVE  IInv'
<1>1. op \in OpType /\ op.error \in Nat /\ res \in Int
  BY DEF IInv, Typed, OpType, Outcome
<1>2. CASE res < 0
  <2>1. op' = Staged("value_with_ec", res, -res) /\ -res \in Nat /\ -res > 0
    BY <1>1, <1>2 DEF StagedResult
  <2>2. /\ op' \in OpType /\ op'.pc = "cpu" /\ op'.completion = "value_with_ec"
        /\ op'.error > 0 /\ op'.result = res
    BY <1>1, <2>1, StagedTyped
  <2> QED
    BY <1>2, <2>2, Called
<1>3. CASE ~(res < 0)
  <2>1. op' = Staged("value", res, op.error)
    BY <1>3 DEF StagedResult
  <2>2. /\ op' \in OpType /\ op'.pc = "cpu" /\ op'.completion = "value" /\ op'.result = res
    BY <1>1, <2>1, StagedTyped
  <2> QED
    BY <2>2, Called
<1> QED
  BY <1>2, <1>3

(* LinuxStart: the token, the probe or the publication. *)
LEMMA LinuxStartKeeps ==
  ASSUME IInv, LinuxStart PROVE IInv'
<1>0. /\ UNCHANGED <<fixed, loop, sig>> /\ op.pc = "start"
      /\ io.req.class = "native" /\ io.req.class \notin Queued
      /\ op \in OpType /\ op.result \in Int /\ op.error \in Nat /\ world \in WorldType
  BY DEF LinuxStart, Queued, IInv, Typed, OpType
<1>1. CASE op' = Staged("stopped", 0, op.error) /\ UNCHANGED world
  <2> DEFINE zero == 0
  <2>0. zero \in Int /\ op' = Staged("stopped", zero, op.error)
    BY <1>1
  <2> HIDE DEF zero
  <2>1. op' \in OpType /\ op'.pc = "cpu" /\ op'.completion = "stopped"
    BY <1>0, <2>0, Zenon DEF Staged, OpType
  <2> QED
    BY <1>0, <1>1, <2>1, Quiet
<1>2. CASE op' = [op EXCEPT !.pc = "publish", !.completion = "value"] /\ UNCHANGED world
  <2>1. op' \in OpType /\ op'.pc = "publish" /\ op'.completion = "value" /\ op'.result = op.result
    BY <1>0, <1>2, Zenon DEF OpType
  <2> QED
    BY <1>0, <1>2, <2>1, Quiet
<1>3. CASE op' = StagedResult(-EOVERFLOW) /\ UNCHANGED world
  <2> DEFINE res == -EOVERFLOW
             err == EOVERFLOW
  <2>1. res \in Int /\ res < 0 /\ err \in Nat /\ err > 0 /\ op' = Staged("value_with_ec", res, err)
    BY <1>3 DEF StagedResult, EOVERFLOW
  <2> HIDE DEF res, err
  <2>2. /\ op' \in OpType /\ op'.pc = "cpu" /\ op'.completion = "value_with_ec"
        /\ op'.error > 0 /\ op'.result < 0
    BY <1>0, <2>1, Zenon DEF Staged, OpType
  <2> QED
    BY <1>0, <1>3, <2>2, Quiet
<1>4. ASSUME NEW r \in KernelResults, Happens(r), io.req.call # "none",
             op' = IF should_wait(Converted(r))
                   THEN [op EXCEPT !.pc = "publish", !.completion = "value"]
                   ELSE StagedResult(Converted(r))
      PROVE  IInv'
  <2>1. Outcome(Converted(r))
    BY <1>0, <1>4, CallOutcome DEF IInv
  <2>2. Converted(r) \in Int
    BY <2>1 DEF Outcome
  <2>3. CASE should_wait(Converted(r))
    <3>0. op' = [op EXCEPT !.pc = "publish", !.completion = "value"]
      BY <1>4, <2>3
    <3>1. /\ op' \in OpType /\ op'.pc = "publish" /\ op'.completion = "value"
          /\ op'.result = op.result
      BY <1>0, <3>0, Zenon DEF OpType
    <3>3. Converted(r) < 0
      BY <2>3 DEF should_wait, EAGAIN
    <3>2. Transfers => op'.result <= 0
      BY <1>0, <3>1 DEF IInv, OnTheWay, Before
    <3> QED
      BY <1>0, <2>1, <3>1, <3>2, <3>3, Called
  <2>4. CASE ~should_wait(Converted(r))
    BY <1>0, <1>4, <2>1, <2>4, ResultStaged
  <2> QED
    BY <2>3, <2>4
<1> QED
  BY <1>1, <1>2, <1>3, <1>4 DEF LinuxStart

(* BsdStart: the token or the first call. *)
LEMMA BsdStartKeeps ==
  ASSUME IInv, BsdStart PROVE IInv'
<1>0. /\ UNCHANGED <<fixed, loop, sig>> /\ op.pc = "start"
      /\ io.req.class = "kqueue_native" /\ io.req.class \notin Queued
      /\ op \in OpType /\ op.error \in Nat /\ world \in WorldType
  BY Zenon DEF BsdStart, Queued, IInv, Typed, OpType
<1>1. CASE op' = Staged("stopped", 0, op.error) /\ UNCHANGED world
  <2> DEFINE zero == 0
  <2>0. zero \in Int /\ op' = Staged("stopped", zero, op.error)
    BY <1>1
  <2> HIDE DEF zero
  <2>1. op' \in OpType /\ op'.pc = "cpu" /\ op'.completion = "stopped"
    BY <1>0, <2>0, Zenon DEF Staged, OpType
  <2> QED
    BY <1>0, <1>1, <2>1, Quiet
<1>2. ASSUME NEW result \in PerformResults, perform_io(result),
             op' = [IF request_should_wait(result)
                    THEN [op EXCEPT !.pc = "publish", !.completion = "value",
                                    !.result = result]
                    ELSE StagedResult(result)
                    EXCEPT !.initiated = TRUE]
      PROVE  IInv'
  <2>1. Outcome(result) /\ result \in Int
    BY <1>0, <1>2, PerformOutcome DEF IInv, Outcome
  <2>2. CASE request_should_wait(result)
    <3>1. op' = [[op EXCEPT !.pc = "publish", !.completion = "value", !.result = result]
                 EXCEPT !.initiated = TRUE]
      BY <1>2, <2>2
    <3>2. result < 0
      BY <2>2 DEF request_should_wait, should_wait, EAGAIN
    <3>3. op' \in OpType /\ op'.pc = "publish" /\ op'.completion = "value" /\ op'.result = result
      BY <1>0, <2>1, <3>1, Zenon DEF OpType
    <3> QED
      BY <1>0, <2>1, <3>2, <3>3, Called
  <2>3. CASE ~request_should_wait(result) /\ result < 0
    <3>1. op' = [Staged("value_with_ec", result, -result) EXCEPT !.initiated = TRUE]
      BY <1>2, <2>3 DEF StagedResult
    <3>2. -result \in Nat /\ -result > 0
      BY <2>1, <2>3
    <3>3. /\ op' \in OpType /\ op'.pc = "cpu" /\ op'.completion = "value_with_ec"
          /\ op'.error > 0 /\ op'.result = result
      BY <1>0, <2>1, <3>1, <3>2, Zenon DEF OpType, Staged
    <3> QED
      BY <1>0, <2>1, <2>3, <3>3, Called
  <2>4. CASE ~request_should_wait(result) /\ ~(result < 0)
    <3>1. op' = [Staged("value", result, op.error) EXCEPT !.initiated = TRUE]
      BY <1>2, <2>4 DEF StagedResult
    <3>2. op' \in OpType /\ op'.pc = "cpu" /\ op'.completion = "value" /\ op'.result = result
      BY <1>0, <2>1, <3>1, Zenon DEF OpType, Staged
    <3> QED
      BY <1>0, <2>1, <3>2, Called
  <2> QED
    BY <2>2, <2>3, <2>4
<1> QED
  BY <1>1, <1>2, Zenon DEF BsdStart

(* KqueueReadyStart: the same in the lower layer. *)
LEMMA KqueueReadyStartKeeps ==
  ASSUME IInv, KqueueReadyStart PROVE IInv'
<1>0. /\ UNCHANGED <<fixed, loop, sig>> /\ op.pc = "start" /\ op.completion = "value"
      /\ io.req.class = "kqueue_ready" /\ io.req.class \notin Queued
      /\ op \in OpType /\ world \in WorldType
  BY Zenon DEF KqueueReadyStart, Queued, IInv, Typed, Verdict, Waiting
<1>1. CASE op' = Staged("stopped", op.result, op.error) /\ UNCHANGED world
  <2>1. op' \in OpType /\ op'.pc = "cpu" /\ op'.completion = "stopped"
    BY <1>0, <1>1, Zenon DEF Staged, OpType
  <2> QED
    BY <1>0, <1>1, <2>1, Quiet
<1>2. ASSUME NEW result \in PerformResults, perform_io(result),
             op' = [op EXCEPT !.result = result, !.initiated = TRUE,
                              !.pc = IF request_should_wait(result)
                                     THEN "publish" ELSE "cpu"]
      PROVE  IInv'
  <2>1. Outcome(result) /\ result \in Int
    BY <1>0, <1>2, PerformOutcome DEF IInv, Outcome
  <2>2. op' \in OpType /\ op'.completion = "value" /\ op'.result = result
    BY <1>0, <1>2, <2>1, Zenon DEF OpType
  <2>3. CASE request_should_wait(result)
    <3>1. op'.pc = "publish"
      BY <1>0, <1>2, <2>3 DEF OpType
    <3>2. result < 0
      BY <2>3 DEF request_should_wait, should_wait, EAGAIN
    <3> QED
      BY <1>0, <2>1, <2>2, <3>1, <3>2, Called
  <2>4. CASE ~request_should_wait(result)
    <3>1. op'.pc = "cpu"
      BY <1>0, <1>2, <2>4 DEF OpType
    <3> QED
      BY <1>0, <2>1, <2>2, <3>1, Called
  <2> QED
    BY <2>3, <2>4
<1> QED
  BY <1>1, <1>2, Zenon DEF KqueueReadyStart

(* The starts that make no call. *)
LEMMA StoppedOrPublishKeeps ==
  ASSUME IInv, StoppedOrPublish, op.pc = "start", io.req.class \notin Queued
  PROVE  IInv'
<1>0. UNCHANGED <<fixed, loop, sig>> /\ UNCHANGED world /\ op \in OpType /\ world \in WorldType
  BY DEF StoppedOrPublish, IInv, Typed
<1>1. CASE env.token
  <2>1. op' = Staged("stopped", op.result, op.error)
    BY <1>1 DEF StoppedOrPublish
  <2>2. op' \in OpType /\ op'.pc = "cpu" /\ op'.completion = "stopped"
    BY <1>0, <2>1, Zenon DEF Staged, OpType
  <2> QED
    BY <1>0, <2>2, Quiet
<1>2. CASE ~env.token
  <2>1. op' = [op EXCEPT !.pc = "publish", !.completion = "value"]
    BY <1>2 DEF StoppedOrPublish
  <2>2. op' \in OpType /\ op'.pc = "publish" /\ op'.completion = "value" /\ op'.result = op.result
    BY <1>0, <2>1, Zenon DEF OpType
  <2> QED
    BY <1>0, <2>2, Quiet
<1> QED
  BY <1>1, <1>2

(* The io_uring start with its offset check keeps the invariant. *)
LEMMA UringStartKeeps ==
  ASSUME IInv, UringStart PROVE IInv'
<1>0. op.pc = "start" /\ io.req.class \notin Queued /\ op \in OpType /\ world \in WorldType
  BY DEF UringStart, Queued, IInv, Typed
<1>1. CASE StoppedOrPublish
  BY <1>0, <1>1, StoppedOrPublishKeeps
<1>2. CASE /\ op' = Staged("value_with_ec", -EOVERFLOW, EOVERFLOW)
           /\ UNCHANGED <<fixed, loop, world, sig>>
  <2> DEFINE res == -EOVERFLOW
             err == EOVERFLOW
  <2>1. res \in Int /\ res < 0 /\ err \in Nat /\ err > 0 /\ op' = Staged("value_with_ec", res, err)
    BY <1>2 DEF EOVERFLOW
  <2> HIDE DEF res, err
  <2>2. /\ op' \in OpType /\ op'.pc = "cpu" /\ op'.completion = "value_with_ec"
        /\ op'.error > 0 /\ op'.result < 0
    BY <1>0, <2>1, Zenon DEF Staged, OpType
  <2> QED
    BY <1>0, <1>2, <2>2, Quiet
<1> QED
  BY <1>1, <1>2 DEF UringStart

(* Resolvers and posts: neither bytes nor a descriptor. *)
LEMMA QueuedStartKeeps ==
  ASSUME IInv, QueuedStart PROVE IInv'
<1>1. /\ UNCHANGED <<fixed, loop, world, sig>> /\ op.pc = "start"
      /\ io.req.class \in Queued /\ op \in OpType /\ env \in EnvType
  BY DEF QueuedStart, Queued, IInv, Typed
<1>2. io' = io /\ env' = env /\ loop' = loop /\ world' = world /\ sig' = sig
  BY <1>1 DEF fixed
<1>3. Given' /\ ~Transfers' /\ ~Describes'
  BY <1>1, <1>2, GivenStays DEF IInv, Given, Queued
<1> DEFINE zero == 0
<1>4. /\ zero \in Int /\ zero \in Nat
      /\ \/ env.token /\ op' = Staged("stopped", zero, zero)
         \/ ~env.token /\ op' = Staged("value", zero, zero)
  BY DEF QueuedStart
<1> HIDE DEF zero
<1>5. /\ op' \in OpType /\ op'.pc = "cpu" /\ op'.completion \in {"value", "stopped"}
      /\ op'.completion = "stopped" => env.token
  BY <1>1, <1>4, Zenon DEF Staged, OpType
<1>6. sig.kind = "none"
  BY <1>1 DEF IInv, Verdict
<1>7. Typed'
  BY <1>2, <1>5 DEF IInv, Typed
<1>8. Verdict'
  BY <1>2, <1>5, <1>6 DEF Verdict, Waiting
<1> QED
  BY <1>3, <1>7, <1>8 DEF IInv

(* publish_io keeps the invariant, accepted or refused. *)
LEMMA PublishIoKeeps ==
  ASSUME IInv, PublishIo PROVE IInv'
<1>0. /\ UNCHANGED <<fixed, loop, world, sig>> /\ op.pc = "publish" /\ op.completion = "value"
      /\ io.req.class \notin Queued /\ op \in OpType /\ world \in WorldType
  BY DEF PublishIo, IInv, Verdict, Typed, Waiting
<1>1. CASE op' = Staged("stopped", op.result, op.error)
  <2>1. op' \in OpType /\ op'.pc = "cpu" /\ op'.completion = "stopped"
    BY <1>0, <1>1, Zenon DEF Staged, OpType
  <2> QED
    BY <1>0, <2>1, Quiet
<1>2. CASE op' = [op EXCEPT !.pc = "queued"]
  <2>1. op' \in OpType /\ op'.pc = "queued" /\ op'.completion = "value" /\ op'.result = op.result
    BY <1>0, <1>2 DEF OpType
  <2> QED
    BY <1>0, <2>1, Quiet
<1> QED
  BY <1>1, <1>2 DEF PublishIo

(* A submission or registration that works, and one that fails. *)
LEMMA PrepareKeeps ==
  ASSUME IInv, Prepare PROVE IInv'
<1>0. /\ UNCHANGED <<fixed, loop, sig>> /\ op.pc = "queued" /\ op.completion = "value"
      /\ io.req.class \notin Queued /\ op \in OpType /\ world \in WorldType
      /\ op.result \in Int /\ op.error \in Nat
  BY DEF Prepare, IInv, Verdict, Typed, Waiting, OpType
<1>1. CASE op' = [op EXCEPT !.pc = "native"] /\ UNCHANGED world
  <2>1. op' \in OpType /\ op'.pc = "native" /\ op'.completion = "value" /\ op'.result = op.result
    BY <1>0, <1>1 DEF OpType
  <2> QED
    BY <1>0, <1>1, <2>1, Quiet
<1>2. ASSUME NEW result \in {-EIO, -EAGAIN}, op' = complete_submit_error(result),
             world' = [world EXCEPT !.refused = TRUE]
      PROVE  IInv'
  <2>1. result \in Int /\ result < 0 /\ -result \in Nat /\ -result > 0
    BY <1>2 DEF EIO, EAGAIN
  <2>2. /\ world' \in WorldType /\ world'.moved = world.moved
        /\ world'.accepted = world.accepted
    BY <1>0, <1>2, Zenon DEF WorldType
  <2>3. CASE op' = Staged("value", result, op.error)
    <3>1. op' \in OpType /\ op'.pc = "cpu" /\ op'.completion = "value" /\ op'.result < 0
      BY <1>0, <2>1, <2>3, Zenon DEF Staged, OpType
    <3> QED
      BY <1>0, <2>2, <3>1, Quiet
  <2>4. CASE io.req.stale /\ op' = Staged("value_with_ec", op.result, -result)
    <3>1. /\ op' \in OpType /\ op'.pc = "cpu" /\ op'.completion = "value_with_ec"
          /\ op'.error > 0 /\ op'.result = op.result
      BY <1>0, <2>1, <2>4, Zenon DEF Staged, OpType
    <3> QED
      BY <1>0, <2>2, <2>4, <3>1, Quiet
  <2>5. CASE op' = Staged("value_with_ec", result, -result)
    <3>1. /\ op' \in OpType /\ op'.pc = "cpu" /\ op'.completion = "value_with_ec"
          /\ op'.error > 0 /\ op'.result < 0
      BY <1>0, <2>1, <2>5, Zenon DEF Staged, OpType
    <3> QED
      BY <1>0, <2>2, <3>1, Quiet
  <2> QED
    BY <1>2, <2>3, <2>4, <2>5 DEF complete_submit_error
<1> QED
  BY <1>1, <1>2 DEF Prepare

-----------------------------------------------------------------------------
(* The kernel's answers and the context's abort. *)

(* A completion of the ring, delivered or submitted again. *)
LEMMA CqeCompletesKeeps ==
  ASSUME IInv, CqeCompletes PROVE IInv'
<1>0. /\ UNCHANGED <<fixed, loop, sig>> /\ op.pc = "native" /\ op.completion = "value"
      /\ io.req.class \notin Queued /\ op \in OpType
  BY DEF CqeCompletes, Queued, IInv, Verdict, Typed, Waiting
<1>1. PICK r \in KernelResults :
        /\ Happens(r)
        /\ op' = [op EXCEPT !.result = r,
                            !.pc = IF r = -EAGAIN /\ io.req.rearm THEN "queued" ELSE "cpu"]
  BY Zenon DEF CqeCompletes
<1>2. Outcome(r) /\ r \in Int
  BY <1>1, RingOutcome DEF IInv, Outcome
<1>3. op' \in OpType /\ op'.completion = "value" /\ op'.result = r
  BY <1>0, <1>1, <1>2, Zenon DEF OpType
<1>4. (op'.pc = "queued" /\ r < 0) \/ op'.pc = "cpu"
  BY <1>0, <1>1 DEF OpType, EAGAIN
<1> QED
  BY <1>0, <1>2, <1>3, <1>4, Called

(* Such a request moves no bytes and opens no descriptor. *)
LEMMA EventCompletesKeeps ==
  ASSUME IInv, EventCompletes PROVE IInv'
<1>0. /\ UNCHANGED <<fixed, loop, sig>> /\ world' = world /\ op.pc = "native"
      /\ op \in OpType /\ world \in WorldType /\ io.req.class \notin Queued
      /\ ~Transfers /\ ~Describes
  BY DEF EventCompletes, Queued, IInv, Typed, Given
<1>1. PICK r \in Successes \cup {-EIO, -EOPNOTSUPP} : op' = [op EXCEPT !.result = r, !.pc = "cpu"]
  BY Zenon DEF EventCompletes
<1>2. r \in Int
  BY <1>0, <1>1 DEF Successes, EIO, EOPNOTSUPP
<1>3. op' \in OpType /\ op'.pc = "cpu"
  BY <1>0, <1>1, <1>2, Zenon DEF OpType
<1> QED
  BY <1>0, <1>3, Continues DEF Waiting

(* The event's own error, or the outcome of the call. *)
LEMMA EventPerformsIoKeeps ==
  ASSUME IInv, EventPerformsIo PROVE IInv'
<1>0. /\ UNCHANGED <<fixed, loop, sig>> /\ op.pc = "native" /\ op.completion = "value"
      /\ io.req.class \in {"kqueue_native", "kqueue_ready"} /\ io.req.class \notin Queued
      /\ op \in OpType /\ world \in WorldType
  BY Zenon DEF EventPerformsIo, Queued, IInv, Verdict, Typed, Waiting
<1>1. ASSUME NEW r \in {-EIO, -EPIPE}, op' = [op EXCEPT !.result = r, !.pc = "cpu"],
             UNCHANGED world
      PROVE  IInv'
  <2>1. r \in Int /\ r < 0
    BY <1>1 DEF EIO, EPIPE
  <2>2. op' \in OpType /\ op'.pc = "cpu" /\ op'.completion = "value" /\ op'.result < 0
    BY <1>0, <1>1, <2>1, Zenon DEF OpType
  <2> QED
    BY <1>0, <1>1, <2>2, Quiet
<1>2. ASSUME NEW result \in PerformResults, perform_io(result),
             \/ op' = [op EXCEPT !.result = result, !.initiated = TRUE,
                                 !.pc = IF result = -EAGAIN THEN "native" ELSE "cpu"]
             \/ /\ result = -EAGAIN
                /\ op' = [op EXCEPT !.result = -EIO, !.initiated = TRUE, !.pc = "cpu"]
      PROVE  IInv'
  <2>1. Outcome(result) /\ result \in Int
    BY <1>0, <1>2, PerformOutcome DEF IInv, Outcome
  <2>2. CASE op' = [op EXCEPT !.result = result, !.initiated = TRUE,
                              !.pc = IF result = -EAGAIN THEN "native" ELSE "cpu"]
    <3>1. op' \in OpType /\ op'.completion = "value" /\ op'.result = result
      BY <1>0, <2>1, <2>2, Zenon DEF OpType
    <3>2. (op'.pc = "native" /\ result < 0) \/ op'.pc = "cpu"
      BY <1>0, <2>2 DEF OpType, EAGAIN
    <3> QED
      BY <1>0, <2>1, <3>1, <3>2, Called
  <2>3. CASE /\ result = -EAGAIN
             /\ op' = [op EXCEPT !.result = -EIO, !.initiated = TRUE, !.pc = "cpu"]
    <3> DEFINE e == -EIO
    <3>1. e \in Int /\ e < 0 /\ result < 0
          /\ op' = [op EXCEPT !.result = e, !.initiated = TRUE, !.pc = "cpu"]
      BY <2>3 DEF EIO, EAGAIN
    <3> HIDE DEF e
    <3>2. op' \in OpType /\ op'.pc = "cpu" /\ op'.completion = "value" /\ op'.result < 0
      BY <1>0, <3>1, Zenon DEF OpType
    <3> QED
      BY <1>0, <2>1, <3>1, <3>2, Called
  <2> QED
    BY <1>2, <2>2, <2>3
<1> QED
  BY <1>1, <1>2, Zenon DEF EventPerformsIo

(* The abort, before or after the ring did something. *)
LEMMA AbortKeeps ==
  ASSUME IInv, Abort PROVE IInv'
<1>0. /\ UNCHANGED <<fixed, loop, sig>> /\ op.pc \in {"queued", "native"}
      /\ io.req.class \notin Queued /\ op \in OpType /\ world \in WorldType
      /\ op' = [op EXCEPT !.pc = "cpu", !.completion = "stopped"]
  BY DEF Abort, IInv, Verdict, Typed
<1>1. op' \in OpType /\ op'.pc = "cpu" /\ op'.completion = "stopped"
  BY <1>0, Zenon DEF OpType
<1>2. CASE UNCHANGED world
  BY <1>0, <1>1, <1>2, Quiet
<1>3. ASSUME NEW r \in KernelResults, Happens(r),
             io.req.class \in {"native", "uring", "uring_poll"}
      PROVE  IInv'
  <2>1. Outcome(r)
    BY <1>3, RingOutcome DEF IInv
  <2>2. Describes => io.req.class = "native"
    BY <1>3 DEF IInv, Given
  <2> QED
    BY <1>0, <1>1, <2>1, <2>2, Called
<1> QED
  BY <1>2, <1>3 DEF Abort

-----------------------------------------------------------------------------
(* Completions. *)

(* What the record of the kernel's doings keeps while a signal is sent. *)
WorldKept ==
  /\ world' \in WorldType /\ world'.moved = world.moved
  /\ world'.eof = world.eof /\ world'.accepted = world.accepted

(* The signal as it is sent: a dynamic buffer is cut to a successful count
   within it.                                                              *)
LEMMA DeliverSays ==
  ASSUME IInv, NEW kind \in {"value", "stopped"}, NEW ec \in Nat, NEW value \in Int,
         Deliver(kind, ec, value), op.pc # "done",
         Transfers /\ kind = "value" /\ ec = 0 => value \in 0 .. io.size
  PROVE  /\ sig' \in SigType
         /\ sig'.kind = kind /\ sig'.ec = ec /\ sig'.value = value
         /\ io.dynamic /\ kind = "value" /\ ec = 0 => sig'.storage = value
<1>1. sig.kind = "none" /\ sig.storage \in Nat
  BY DEF IInv, Verdict, Typed, SigType
<1>2. io.dynamic => Transfers /\ sig.storage = io.size /\ io.size \in Nat
  BY <1>1 DEF IInv, Given, OnTheWay
<1> DEFINE storage == IF io.dynamic /\ kind = "value" /\ ec = 0 THEN commit(value) ELSE sig.storage
<1>3. io.dynamic /\ kind = "value" /\ ec = 0 => storage = value /\ value \in Nat
  BY <1>2 DEF commit
<1>4. storage \in Nat
  BY <1>1, <1>3
<1>5. sig' = [kind |-> kind, ec |-> ec, value |-> value, storage |-> storage]
  BY DEF Deliver
<1> HIDE DEF storage
<1> QED
  BY <1>3, <1>4, <1>5 DEF SigType

(* An operation that is done. *)
LEMMA Done ==
  ASSUME IInv, NEW kind \in {"value", "stopped"}, NEW ec \in Nat, NEW value \in Int,
         Deliver(kind, ec, value), op' = [op EXCEPT !.pc = "done"], UNCHANGED fixed,
         op.pc # "done", WorldKept, kind = "stopped" => env.token,
         loop' \in LoopType,
         Transfers => loop'.transferred <= io.size /\ (~io.whole => loop'.transferred = 0),
         Transfers /\ kind = "value" =>
           /\ ec = 0 => /\ value = world.moved /\ value <= io.size
                        /\ io.whole => value = io.size \/ (io.req.kernel = "in" /\ world.eof)
           /\ value > 0 => value <= world.moved,
         Describes /\ kind = "value" =>
           /\ value >= 0 => ec = 0 /\ world.accepted
           /\ ec = 0 => value >= 0,
         Describes /\ world.accepted => (kind = "value" /\ ec = 0) \/ Overtaken
  PROVE  IInv'
<1>1. io' = io /\ env' = env
  BY DEF fixed
<1>2. Given' /\ Transfers' = Transfers /\ Describes' = Describes
  BY <1>1, GivenStays DEF IInv
<1>3. world.moved \in Nat /\ io.size \in Nat
  BY DEF IInv, Typed, WorldType, Given
<1>4. Transfers /\ kind = "value" /\ ec = 0 => value \in 0 .. io.size
  BY <1>3
<1>5. /\ sig' \in SigType /\ sig'.kind = kind /\ sig'.ec = ec /\ sig'.value = value
      /\ io.dynamic /\ kind = "value" /\ ec = 0 => sig'.storage = value
  BY <1>4, DeliverSays
<1>6. op' \in OpType /\ op'.pc = "done" /\ op'.completion = op.completion
  BY DEF IInv, Typed, OpType
<1>7. Typed'
  BY <1>1, <1>5, <1>6 DEF IInv, Typed, WorldKept
<1>8. Verdict'
  BY <1>1, <1>5, <1>6 DEF Verdict, Waiting
<1>9. Transfers => OnTheWay' /\ Told'
  BY <1>1, <1>3, <1>5, <1>6 DEF OnTheWay, Told, Before, Valued, Succeeded, WorldKept
<1>10. Describes => Handed'
  BY <1>1, <1>5, <1>6 DEF Handed, Valued, Succeeded, Overtaken, Before, WorldKept
<1> QED
  BY <1>2, <1>7, <1>8, <1>9, <1>10 DEF IInv

(* One round of a read-all or write-all: a failure, an end, the whole buffer
   or another round.                                                       *)
LEMMA RoundKeeps ==
  ASSUME IInv, io.whole, op.pc = "cpu", NEW ec \in Nat, NEW bytes \in Nat, WorldKept,
         write_all_step_complete(ec, bytes),
         ec = 0 => /\ world.moved = loop.transferred + bytes /\ world.moved <= io.size
                   /\ bytes = 0 /\ io.req.kernel = "in" => world.eof
  PROVE  IInv'
<1>0. /\ Transfers /\ ~Describes /\ OnTheWay /\ loop \in LoopType /\ loop.transferred \in Nat
      /\ world.moved \in Nat /\ io.size \in Nat /\ loop.transferred <= world.moved
      /\ io.req.class \notin Queued
  BY DEF IInv, Given, Describes, Typed, LoopType, WorldType, OnTheWay, Queued
<1> DEFINE over == [advance(bytes) EXCEPT !.transferred = loop.transferred, !.done = TRUE]
           told == IF ec # 0 THEN ec ELSE IF bytes = 0 THEN zero_byte_error ELSE 0
<1>1. /\ loop' = IF ec # 0 \/ bytes = 0 THEN over ELSE advance(bytes)
      /\ \/ /\ loop'.done /\ op' = [op EXCEPT !.pc = "done"]
            /\ Deliver("value", told, loop'.transferred)
         \/ ~loop'.done /\ op' = [op EXCEPT !.pc = "round"] /\ UNCHANGED sig
      /\ UNCHANGED fixed
  BY DEF write_all_step_complete
<1>2. /\ over \in LoopType /\ over.transferred = loop.transferred /\ over.done
      /\ advance(bytes) \in LoopType /\ advance(bytes).transferred = loop.transferred + bytes
      /\ advance(bytes).done <=> loop.transferred + bytes >= io.size
  <2> DEFINE sum == loop.transferred + bytes
             full == loop.transferred + bytes >= io.size
             eager == bytes = io.size - loop.transferred
  <2>1. sum \in Nat
    BY <1>0
  <2>2. full \in BOOLEAN /\ eager \in BOOLEAN
    BY <1>0
  <2>3. advance(bytes) = [transferred |-> sum, done |-> full, eager |-> eager]
    BY Zenon DEF advance
  <2> HIDE DEF sum, full, eager
  <2>4. /\ advance(bytes) \in LoopType /\ advance(bytes).transferred = sum
        /\ advance(bytes).done = full
    BY <2>1, <2>2, <2>3 DEF LoopType
  <2>5. over \in LoopType /\ over.transferred = loop.transferred /\ over.done
    BY <1>0, <2>4, Zenon DEF LoopType
  <2> QED
    BY <2>2, <2>4, <2>5, Zenon DEF sum, full
<1>3. told \in Nat /\ (told = 0 => ec = 0 /\ (bytes = 0 => io.req.kernel = "in"))
  BY <1>0 DEF zero_byte_error, EPIPE, Transfers
<1> HIDE DEF over, told
<1>4. loop' \in LoopType /\ loop'.transferred \in Nat
  BY <1>1, <1>2 DEF LoopType
<1>5. CASE loop'.done
  <2>1. /\ op' = [op EXCEPT !.pc = "done"] /\ UNCHANGED fixed
        /\ Deliver("value", told, loop'.transferred)
    BY <1>1, <1>5
  <2>2. loop'.transferred <= io.size
    BY <1>0, <1>1, <1>2 DEF OnTheWay
  <2>3. told = 0 =>
          /\ loop'.transferred = world.moved
          /\ loop'.transferred = io.size \/ (io.req.kernel = "in" /\ world.eof)
    BY <1>0, <1>1, <1>2, <1>3, <1>5 DEF OnTheWay
  <2>4. loop'.transferred <= world.moved
    BY <1>0, <1>1, <1>2
  <2>5. loop'.transferred \in Int
    BY <1>4
  <2> QED
    BY <1>0, <1>3, <1>4, <2>1, <2>2, <2>3, <2>4, <2>5, Done
<1>6. CASE ~loop'.done
  <2>1. /\ ec = 0 /\ loop' = advance(bytes) /\ op' = [op EXCEPT !.pc = "round"]
        /\ UNCHANGED sig /\ io' = io /\ env' = env
    BY <1>1, <1>2, <1>6 DEF fixed
  <2>2. op' \in OpType /\ op'.pc = "round"
    BY <2>1 DEF IInv, Typed, OpType
  <2>3. Given' /\ Transfers' = Transfers /\ Describes' = Describes
    BY <2>1, GivenStays DEF IInv
  <2>4. Typed'
    BY <1>4, <2>1, <2>2 DEF IInv, Typed, WorldKept
  <2>5. sig.kind = "none"
    BY <1>0 DEF IInv, Verdict
  <2>6. Verdict'
    BY <1>0, <2>1, <2>2, <2>5 DEF Verdict, Waiting
  <2>7. OnTheWay' /\ Told'
    BY <1>0, <1>2, <2>1, <2>2, <2>5 DEF OnTheWay, Told, Before, Valued, Succeeded, WorldKept
  <2> QED
    BY <1>0, <2>3, <2>4, <2>6, <2>7 DEF IInv
<1> QED
  BY <1>5, <1>6

(* Finish, with the loop left alone. *)
LEMMA FinishKeeps ==
  ASSUME IInv, NEW kind \in {"value", "stopped"}, NEW ec \in Nat, NEW value \in Int,
         Finish(kind, ec, value), op.pc # "done", WorldKept, kind = "stopped" => env.token,
         Transfers /\ kind = "value" =>
           /\ ec = 0 => /\ value = world.moved /\ value <= io.size
                        /\ io.whole => value = io.size \/ (io.req.kernel = "in" /\ world.eof)
           /\ value > 0 => value <= world.moved,
         Describes /\ kind = "value" =>
           /\ value >= 0 => ec = 0 /\ world.accepted
           /\ ec = 0 => value >= 0,
         Describes /\ world.accepted => (kind = "value" /\ ec = 0) \/ Overtaken
  PROVE  IInv'
<1>1. /\ Deliver(kind, ec, value) /\ op' = [op EXCEPT !.pc = "done"]
      /\ UNCHANGED fixed /\ loop' = loop
  BY DEF Finish
<1>2. /\ loop' \in LoopType
      /\ Transfers => loop'.transferred <= io.size /\ (~io.whole => loop'.transferred = 0)
  BY <1>1 DEF IInv, Typed, OnTheWay
<1> QED
  BY <1>1, <1>2, Done

(* What a result means when it reaches set_value. *)
Meant(ec, result) ==
  /\ Transfers => /\ ec = 0 => /\ result >= 0
                               /\ world.moved = loop.transferred + result
                               /\ world.moved <= io.size
                               /\ result = 0 /\ io.req.kernel = "in" => world.eof
                  /\ ec # 0 => result <= 0
  /\ Describes => /\ result >= 0 => ec = 0 /\ world.accepted
                  /\ ec = 0 => result >= 0
                  /\ world.accepted => ec = 0 \/ Overtaken

(* A value on its way to the receiver or to the loop. *)
LEMMA CompleteKeeps ==
  ASSUME IInv, op.pc = "cpu", NEW ec \in Nat, NEW value \in Int, WorldKept,
         Meant(ec, value), io.whole => value \in Nat, Complete("value", ec, value)
  PROVE  IInv'
<1>0. /\ io.whole \in BOOLEAN /\ world.moved \in Nat /\ loop.transferred \in Nat
      /\ Transfers /\ ~io.whole => loop.transferred = 0
  BY DEF IInv, Given, Typed, WorldType, LoopType, OnTheWay
<1>1. CASE io.whole
  <2>1. write_all_step_complete(ec, value) /\ Transfers
    BY <1>1 DEF Complete, IInv, Given
  <2> QED
    BY <1>1, <2>1, RoundKeeps DEF Meant
<1>2. CASE ~io.whole
  <2>1. Finish("value", ec, value)
    BY <1>2 DEF Complete
  <2>2. Transfers => /\ ec = 0 => value = world.moved /\ value <= io.size
                     /\ value > 0 => value <= world.moved
    BY <1>0, <1>2 DEF Meant
  <2> QED
    BY <1>2, <2>1, <2>2, FinishKeeps DEF Meant
<1> QED
  BY <1>0, <1>1, <1>2

(* set_value of every request, the undecodable peer included. *)
LEMMA SetValueKeeps ==
  ASSUME IInv, op.pc = "cpu", NEW ec \in Nat, NEW result \in Int,
         Meant(ec, result), set_value(ec, result)
  PROVE  IInv'
<1> DEFINE value == Value(ec, result)
<1>1. value \in Int
  BY DEF Value
<1>2. (Transfers => (IF result >= 0 THEN value = result ELSE value <= 0))
      /\ (Describes => value = result)
  BY DEF Value, IInv, Given
<1>3. io.whole => value \in Nat
  BY DEF Value, IInv, Given
<1>4. Meant(ec, value)
  BY <1>1, <1>2 DEF Meant
<1> HIDE DEF value
<1>5. world \in WorldType
  BY DEF IInv, Typed
<1>6. CASE world' = world /\ Complete("value", ec, value)
  BY <1>1, <1>3, <1>4, <1>5, <1>6, CompleteKeeps DEF WorldKept
<1>7. CASE world' = [world EXCEPT !.peer = "peer"] /\ Complete("value", ec, value)
  <2>1. WorldKept
    BY <1>5, <1>7 DEF WorldKept, WorldType
  <2> QED
    BY <1>1, <1>3, <1>4, <1>7, <2>1, CompleteKeeps
<1>8. CASE /\ io.req.peer = "fails" /\ world' = [world EXCEPT !.peer = "reset"]
           /\ Complete("value", EAFNOSUPPORT, 0)
  <2>1. WorldKept
    BY <1>5, <1>8 DEF WorldKept, WorldType
  <2> DEFINE none == 0
             failed == EAFNOSUPPORT
  <2>2. none \in Int /\ none \in Nat /\ none <= 0 /\ failed \in Nat /\ failed # 0
    BY DEF EAFNOSUPPORT
  <2>3. ~Describes
    BY <1>8 DEF IInv, Given
  <2>4. Complete("value", failed, none)
    BY <1>8
  <2> HIDE DEF none, failed
  <2>5. Meant(failed, none)
    BY <2>2, <2>3 DEF Meant
  <2> QED
    BY <2>1, <2>2, <2>4, <2>5, CompleteKeeps
<1> QED
  BY <1>6, <1>7, <1>8 DEF set_value, value

(* A stopped completion: the token's verdict or operation_canceled. *)
LEMMA CompleteStoppedKeeps ==
  ASSUME IInv, op.pc = "cpu", op.completion = "stopped", CompleteStopped
  PROVE  IInv'
<1> DEFINE none == 0
           canceled == ECANCELED
<1>1. none \in Int /\ none \in Nat /\ canceled \in Nat /\ canceled # 0
  BY DEF ECANCELED
<1>0. Describes /\ world.accepted => Overtaken
  BY DEF IInv, Handed
<1>2. CASE env.token
  <2>1. world' = world /\ Finish("stopped", none, none)
    BY <1>2 DEF CompleteStopped, Complete
  <2>2. WorldKept
    BY <2>1 DEF WorldKept, IInv, Typed
  <2> HIDE DEF none
  <2> QED
    BY <1>0, <1>1, <1>2, <2>1, <2>2, FinishKeeps
<1>3. CASE ~env.token
  <2>1. set_value(canceled, io.req.aborted)
    BY <1>3 DEF CompleteStopped
  <2>2. io.req.aborted \in Int /\ io.req.aborted <= 0 /\ (Describes => io.req.aborted < 0)
    BY DEF IInv, Given
  <2> HIDE DEF canceled
  <2>3. Meant(canceled, io.req.aborted)
    BY <1>0, <1>1, <2>2 DEF Meant
  <2> QED
    BY <1>1, <2>1, <2>2, <2>3, SetValueKeeps
<1> QED
  BY <1>2, <1>3

(* The result an operation reached the CPU queue with means what it says. *)
LEMMA StagedMeans ==
  ASSUME IInv, op.pc = "cpu"
  PROVE  /\ op.result \in Int /\ op.error \in Nat
         /\ op.completion = "value_with_ec" => Meant(op.error, op.result)
         /\ op.completion = "value" /\ op.result < 0 => -op.result \in Nat /\ Meant(-op.result, op.result)
         /\ op.completion = "value" /\ ~(op.result < 0) => Meant(0, op.result)
<1>1. op.result \in Int /\ op.error \in Nat
  BY DEF IInv, Typed, OpType
<1> QED
  BY <1>1 DEF IInv, OnTheWay, Handed, Meant

(* execute() of io_context's operations and of the polls. *)
LEMMA NativeExecuteKeeps ==
  ASSUME IInv,
         \/ NativeExecute \/ BsdExecute \/ BsdPollExecute \/ UringPollExecute
         \/ KqueuePollExecute \/ KqueueReadyExecute
  PROVE  IInv'
<1>0. op.pc = "cpu" /\ op.completion \in {"value", "value_with_ec", "stopped"}
  BY DEF NativeExecute, BsdExecute, BsdPollExecute, UringPollExecute,
         KqueuePollExecute, CompleteStaged, KqueueReadyExecute,
         IInv, Typed, OpType
<1>1. CASE op.completion = "stopped" /\ CompleteStopped
  BY <1>0, <1>1, CompleteStoppedKeeps
<1>2. CASE op.completion = "value_with_ec" /\ set_value(op.error, op.result)
  BY <1>0, <1>2, StagedMeans, SetValueKeeps
<1>3. CASE /\ op.completion = "value" \/ io.req.class = "kqueue_ready"
           /\ op.completion # "stopped"
           /\ set_value(IF op.result < 0 THEN -op.result ELSE 0, op.result)
  <2>1. op.result \in Int /\ op.error \in Nat
    BY <1>0, StagedMeans
  <2>2. CASE op.result < 0
    <3>1. set_value(-op.result, op.result) /\ -op.result \in Nat /\ -op.result # 0
      BY <1>3, <2>1, <2>2
    <3>2. Meant(-op.result, op.result)
      BY <1>0, <1>3, <2>1, <2>2, <3>1 DEF Meant, IInv, Handed, Overtaken
    <3> QED
      BY <1>0, <2>1, <3>1, <3>2, SetValueKeeps
  <2>3. CASE ~(op.result < 0)
    <3> DEFINE none == 0
    <3>1. set_value(none, op.result) /\ none \in Nat
      BY <1>3, <2>3
    <3>2. op.completion # "value" => ~Transfers /\ ~Describes
      BY <1>0, <1>3, <2>1, <2>3 DEF IInv, Given, OnTheWay, Handed
    <3>3. Meant(none, op.result)
      BY <1>0, <2>3, <3>2, StagedMeans DEF Meant
    <3> HIDE DEF none
    <3> QED
      BY <1>0, <2>1, <3>1, <3>3, SetValueKeeps
  <2> QED
    BY <2>2, <2>3
<1> QED
  BY <1>0, <1>1, <1>2, <1>3
  DEF    NativeExecute, BsdExecute, BsdPollExecute, UringPollExecute,
         KqueuePollExecute, CompleteStaged, KqueueReadyExecute

(* The lower layer's receiver operations hand on what they have. *)
LEMMA ReceiverExecuteKeeps ==
  ASSUME IInv, ReceiverExecute \/ KqueueReceiverExecute PROVE IInv'
<1>0. /\ op.pc = "cpu" /\ op.completion \in {"value", "value_with_ec", "stopped"}
      /\ ~Describes /\ ~io.whole /\ world \in WorldType
      /\ op.result \in Int /\ op.error \in Nat
  BY DEF ReceiverExecute, KqueueReceiverExecute, IInv, Given, Typed, OpType
<1>1. CASE op.completion = "stopped"
  BY <1>0, <1>1, CompleteStoppedKeeps DEF ReceiverExecute, KqueueReceiverExecute
<1>2. CASE op.completion # "stopped"
  <2> DEFINE ec == IF op.completion = "value_with_ec" THEN op.error
                   ELSE IF op.result < 0 THEN -op.result ELSE 0
  <2>1. /\ Finish("value", ec, op.result)
        /\ \/ \E q \in {"peer", "reset"} : world' = [world EXCEPT !.peer = q]
           \/ world' = world
    BY <1>2 DEF ReceiverExecute, KqueueReceiverExecute, FinishStaged
  <2>2. ec \in Nat
    BY <1>0
  <2>3. WorldKept
    BY <1>0, <2>1 DEF WorldKept, WorldType
  <2>4. Transfers => /\ ec = 0 => op.result = world.moved /\ op.result <= io.size
                     /\ op.result > 0 => op.result <= world.moved
    <3>1. Transfers => /\ OnTheWay /\ loop.transferred = 0
                       /\ world.moved \in Nat /\ io.size \in Nat
      BY <1>0 DEF IInv, Given, OnTheWay, Typed, WorldType
    <3> QED
      BY <1>0, <1>2, <3>1 DEF OnTheWay
  <2> HIDE DEF ec
  <2> QED
    BY <1>0, <2>1, <2>2, <2>3, <2>4, FinishKeeps
<1> QED
  BY <1>1, <1>2

(* Resolvers and posts. *)
LEMMA QueuedExecuteKeeps ==
  ASSUME IInv, ResolveExecute \/ PostExecute PROVE IInv'
<1>0. /\ op.pc = "cpu" /\ ~Transfers /\ ~Describes /\ world' = world /\ world \in WorldType
      /\ op.completion \in {"value", "stopped"}
      /\ op.completion = "stopped" => env.token
  BY DEF ResolveExecute, PostExecute, IInv, Given, Verdict, Typed, Queued
<1>1. WorldKept
  BY <1>0 DEF WorldKept
<1>2. ASSUME NEW kind \in {"value", "stopped"}, NEW ec \in Nat, NEW value \in Int,
             Finish(kind, ec, value), kind = "stopped" => env.token
      PROVE  IInv'
  BY <1>0, <1>1, <1>2, FinishKeeps
<1> DEFINE zero == 0
           one == 1
           failed == EIO
           canceled == ECANCELED
<1>3. /\ zero \in Nat /\ zero \in Int /\ one \in Int /\ failed \in Nat /\ canceled \in Nat
  BY DEF EIO, ECANCELED
<1>4. \/ op.completion = "stopped" /\ Finish("stopped", zero, zero)
      \/ Finish("value", canceled, zero) \/ Finish("value", zero, one)
      \/ Finish("value", failed, zero) \/ Finish(op.completion, zero, zero)
  BY DEF ResolveExecute, PostExecute
<1> HIDE DEF zero, one, failed, canceled
<1> QED
  BY <1>0, <1>2, <1>3, <1>4

(* schedule() keeps the invariant, whether it completes inline or later. *)
LEMMA ScheduleKeeps ==
  ASSUME IInv, ScheduleStart \/ ScheduleExecute PROVE IInv'
<1>0. /\ op.pc # "done" /\ op.pc \in {"start", "cpu"} /\ io.req.class \in Queued
      /\ ~Transfers /\ ~Describes /\ world' = world
      /\ world \in WorldType /\ op \in OpType /\ env \in EnvType
  BY DEF ScheduleStart, ScheduleExecute, IInv, Given, Typed, Queued
<1>1. WorldKept
  BY <1>0 DEF WorldKept
<1> DEFINE zero == 0
           canceled == ECANCELED
<1>2. zero \in Nat /\ zero \in Int /\ canceled \in Nat
  BY DEF ECANCELED
<1>3. CASE ScheduleComplete
  <2>1. \/ env.token /\ Finish("stopped", zero, zero)
        \/ Finish("value", canceled, zero) \/ Finish("value", zero, zero)
    BY <1>3 DEF ScheduleComplete
  <2> HIDE DEF zero, canceled
  <2> QED
    BY <1>0, <1>1, <1>2, <2>1, FinishKeeps
<1>4. CASE ScheduleStart /\ op' = Staged("value", 0, 0) /\ UNCHANGED <<fixed, loop, sig>>
  <2>1. op' = Staged("value", zero, zero) /\ op.pc = "start"
    BY <1>4 DEF ScheduleStart
  <2>2. io' = io /\ env' = env /\ loop' = loop /\ world' = world /\ sig' = sig
    BY <1>0, <1>4 DEF fixed
  <2> HIDE DEF zero
  <2>3. op' \in OpType /\ op'.pc = "cpu" /\ op'.completion = "value"
    BY <1>0, <1>2, <2>1, Zenon DEF Staged, OpType
  <2>4. Given' /\ ~Transfers' /\ ~Describes'
    BY <1>0, <2>2, GivenStays DEF IInv, Given, Queued
  <2>5. sig.kind = "none"
    BY <2>1 DEF IInv, Verdict
  <2>6. Typed'
    BY <2>2, <2>3 DEF IInv, Typed
  <2>7. Verdict'
    BY <2>2, <2>3, <2>5 DEF Verdict, Waiting
  <2> QED
    BY <2>4, <2>6, <2>7 DEF IInv
<1> QED
  BY <1>3, <1>4 DEF ScheduleStart, ScheduleExecute

-----------------------------------------------------------------------------
(* The loop and its surroundings. *)

(* start() of a read-all or write-all. *)
LEMMA WholeStartKeeps ==
  ASSUME IInv, WholeStart PROVE IInv'
<1>0. /\ op.pc = "begin" /\ world' = world /\ world \in WorldType /\ op \in OpType
      /\ io.req.class \notin Queued /\ loop.transferred \in Nat /\ world.moved \in Nat
      /\ io.size \in Nat
  BY DEF WholeStart, IInv, Given, Verdict, Typed, LoopType, WorldType
<1>1. WorldKept
  BY <1>0 DEF WorldKept
<1> DEFINE zero == 0
<1>2. zero \in Nat /\ zero \in Int
  OBVIOUS
<1>3. Transfers => world.moved = loop.transferred /\ loop.transferred <= io.size
  BY <1>0 DEF IInv, OnTheWay, Before
<1>4. ~Describes
  BY <1>0 DEF IInv, Given, Verdict, Describes
<1>5. CASE env.token /\ Finish("stopped", zero, zero)
  <2> HIDE DEF zero
  <2> QED
    BY <1>0, <1>1, <1>2, <1>4, <1>5, FinishKeeps
<1>6. CASE io.size = 0 /\ Finish("value", zero, loop.transferred)
  <2>1. Transfers => loop.transferred = io.size /\ loop.transferred = world.moved
    BY <1>0, <1>3, <1>6
  <2> HIDE DEF zero
  <2> QED
    BY <1>0, <1>1, <1>2, <1>3, <1>4, <1>6, <2>1, FinishKeeps
<1>7. CASE op' = [op EXCEPT !.pc = "round"] /\ UNCHANGED <<fixed, loop, sig>>
  <2>1. op' \in OpType /\ op'.pc = "round" /\ loop' = loop /\ sig' = sig /\ io' = io
    BY <1>0, <1>7 DEF OpType, fixed
  <2>2. Transfers => OnTheWay'
    BY <1>0, <1>3, <2>1 DEF IInv, OnTheWay, Before
  <2> QED
    BY <1>0, <1>4, <1>7, <2>1, <2>2, Continues DEF Waiting
<1> QED
  BY <1>5, <1>6, <1>7 DEF WholeStart

(* The next round starts where the bytes moved so far end. *)
LEMMA NextRoundKeeps ==
  ASSUME IInv, NextRound PROVE IInv'
<1>0. /\ op.pc = "round" /\ world' = world /\ world \in WorldType /\ op \in OpType
      /\ io.req.class \notin Queued
  BY DEF NextRound, IInv, Verdict, Typed
<1> DEFINE zero == 0
<1>1. zero \in Nat /\ zero \in Int /\ WorldKept
  BY <1>0 DEF WorldKept
<1>4. Describes => ~world.accepted
  BY <1>0 DEF IInv, Handed, Before
<1>2. CASE env.token /\ Finish("stopped", zero, zero)
  <2> HIDE DEF zero
  <2> QED
    BY <1>0, <1>1, <1>2, <1>4, FinishKeeps
<1>3. CASE op' = FreshOp /\ UNCHANGED <<fixed, loop, sig>>
  <2>1. /\ op' \in OpType /\ op'.pc = "start" /\ op'.completion = "value" /\ op'.result = 0
        /\ loop' = loop /\ sig' = sig /\ io' = io
    BY <1>3 DEF OpType, FreshOp, fixed
  <2>2. Transfers => OnTheWay'
    BY <1>0, <2>1 DEF IInv, OnTheWay, Before
  <2> QED
    BY <1>0, <1>3, <1>4, <2>1, <2>2, Continues DEF Waiting, Carried
<1> QED
  BY <1>2, <1>3 DEF NextRound

(* The receiver's token and the context's stop only ever go up. *)
LEMMA EnvironmentKeeps ==
  ASSUME IInv, CancelToken \/ StopContext PROVE IInv'
<1>1. io' = io /\ op' = op /\ loop' = loop /\ world' = world /\ sig' = sig
  BY DEF CancelToken, StopContext
<1>2. env' \in EnvType /\ (env.token => env'.token)
  BY Zenon DEF CancelToken, StopContext, IInv, Typed, EnvType
<1>3. Given' /\ Transfers' = Transfers /\ Describes' = Describes
  BY <1>1, GivenStays DEF IInv
<1>4. Typed' /\ Verdict'
  BY <1>1, <1>2 DEF IInv, Typed, Verdict
<1>5. (Transfers => OnTheWay' /\ Told') /\ (Describes => Handed')
  BY <1>1 DEF IInv, OnTheWay, Told, Handed, Valued, Succeeded, Overtaken
<1> QED
  BY <1>3, <1>4, <1>5 DEF IInv

(* The invariant holds when the operation is made. *)
LEMMA Initially == Init => IInv
<1> SUFFICES ASSUME Init PROVE IInv
  OBVIOUS
<1>1. Given
  BY AskedGiven DEF Init
<1>2. /\ op = [FreshOp EXCEPT !.pc = IF io.whole THEN "begin" ELSE "start"]
      /\ loop = [transferred |-> 0, done |-> FALSE, eager |-> TRUE]
      /\ env \in [token : {FALSE}, stopping : {FALSE}, on_worker : BOOLEAN]
      /\ world = [moved |-> 0, eof |-> FALSE, accepted |-> FALSE,
                  position |-> FALSE, peer |-> "caller", refused |-> FALSE]
      /\ sig = [kind |-> "none", ec |-> 0, value |-> 0,
                storage |-> IF io.dynamic THEN io.size ELSE 0]
  BY Zenon DEF Init
<1>3. /\ op \in OpType /\ op.pc \in {"begin", "start"} /\ (op.pc = "begin" => io.whole)
      /\ op.completion = "value" /\ op.result = 0
  <2> DEFINE pc == IF io.whole THEN "begin" ELSE "start"
  <2>1. pc \in {"begin", "start"} /\ (pc = "begin" => io.whole)
    BY <1>1 DEF Given
  <2>2. op = [FreshOp EXCEPT !.pc = pc]
    BY <1>2
  <2> HIDE DEF pc
  <2>3. FreshOp \in OpType /\ FreshOp.completion = "value" /\ FreshOp.result = 0
    BY DEF FreshOp, OpType
  <2>4. op \in OpType /\ op.pc = pc /\ op.completion = "value" /\ op.result = 0
    BY <2>1, <2>2, <2>3 DEF OpType
  <2> QED
    BY <2>1, <2>4
<1>4. loop \in LoopType /\ loop.transferred = 0 /\ env \in EnvType
  BY <1>2, Zenon DEF LoopType, EnvType
<1>5. world \in WorldType /\ world.moved = 0 /\ ~world.accepted
  BY <1>2 DEF WorldType
<1>6. /\ sig \in SigType /\ sig.kind = "none"
      /\ sig.storage = IF io.dynamic THEN io.size ELSE 0
  BY <1>1, <1>2 DEF SigType, Given
<1>7. Typed
  BY <1>3, <1>4, <1>5, <1>6 DEF Typed
<1>8. Verdict
  BY <1>1, <1>3, <1>6 DEF Verdict, Given, Queued
<1>9. OnTheWay /\ Told /\ Handed
  BY <1>1, <1>3, <1>4, <1>5, <1>6 DEF OnTheWay, Told, Handed, Valued, Succeeded, Given
<1> QED
  BY <1>1, <1>7, <1>8, <1>9 DEF IInv

(* A step that changes nothing. *)
LEMMA StutterKeeps ==
  ASSUME IInv, UNCHANGED vars PROVE IInv'
<1>1. io' = io /\ op' = op /\ loop' = loop /\ env' = env /\ world' = world /\ sig' = sig
  BY DEF vars
<1>2. Given' /\ Transfers' = Transfers /\ Describes' = Describes
  BY <1>1, GivenStays DEF IInv
<1>3. Typed' /\ Verdict'
  BY <1>1 DEF IInv, Typed, Verdict
<1>4. (Transfers => OnTheWay' /\ Told') /\ (Describes => Handed')
  BY <1>1 DEF IInv, OnTheWay, Told, Handed, Valued, Succeeded, Overtaken
<1> QED
  BY <1>2, <1>3, <1>4 DEF IInv

(* Every step keeps the invariant. *)
LEMMA Inductive == IInv /\ [Next]_vars => IInv'
<1> SUFFICES ASSUME IInv, [Next]_vars PROVE IInv'
  OBVIOUS
<1>1. CASE Start
  <2>1. CASE LinuxStart
    BY <2>1, LinuxStartKeeps
  <2>2. CASE BsdStart
    BY <2>2, BsdStartKeeps
  <2>3. CASE KqueueReadyStart
    BY <2>3, KqueueReadyStartKeeps
  <2>4. CASE BsdPollStart \/ KqueuePollStart \/ KqueueReceiverStart \/ UringPollStart
    BY <2>4, StoppedOrPublishKeeps
       DEF BsdPollStart, KqueuePollStart, KqueueReceiverStart, UringPollStart, Queued
  <2>5. CASE UringStart
    BY <2>5, UringStartKeeps
  <2>6. CASE QueuedStart
    BY <2>6, QueuedStartKeeps
  <2>7. CASE ScheduleStart
    BY <2>7, ScheduleKeeps
  <2> QED
    BY <1>1, <2>1, <2>2, <2>3, <2>4, <2>5, <2>6, <2>7 DEF Start
<1>2. CASE PublishIo
  BY <1>2, PublishIoKeeps
<1>3. CASE Prepare
  BY <1>3, PrepareKeeps
<1>4. CASE Abort
  BY <1>4, AbortKeeps
<1>5. CASE Execute
  BY <1>5, NativeExecuteKeeps, ReceiverExecuteKeeps, QueuedExecuteKeeps, ScheduleKeeps
     DEF Execute
<1>6. CASE WholeStart
  BY <1>6, WholeStartKeeps
<1>7. CASE NextRound
  BY <1>7, NextRoundKeeps
<1>8. CASE Kernel
  BY <1>8, CqeCompletesKeeps, EventCompletesKeeps, EventPerformsIoKeeps DEF Kernel
<1>9. CASE CancelToken \/ StopContext
  BY <1>9, EnvironmentKeeps
<1>10. CASE UNCHANGED vars
  BY <1>10, StutterKeeps
<1> QED
  BY <1>1, <1>2, <1>3, <1>4, <1>5, <1>6, <1>7, <1>8, <1>9, <1>10 DEF Next, Program

(* The invariant holds in every reachable state. *)
LEMMA Always == Spec => []IInv
BY Initially, Inductive, PTL DEF Spec

-----------------------------------------------------------------------------
(* Every operation state, loop, signal and kernel record keeps its shape; an
   error code is never negative.                                           *)
THEOREM OperationTypeOK == Spec => []TypeOK
<1>1. IInv => TypeOK
  BY DEF IInv, Given, Typed, TypeOK
<1> QED
  BY <1>1, Always, PTL

(* CompleteStopped: set_stopped reaches only a receiver whose own token is
   cancelled, whatever the context, the backend and the loop do.           *)
THEOREM StoppedIsTheTokens == Spec => []StoppedOnlyByToken
<1>1. IInv => StoppedOnlyByToken
  BY DEF IInv, Verdict, StoppedOnlyByToken
<1> QED
  BY <1>1, Always, PTL

(* The bytes reported are the bytes moved, over any number of rounds, for any
   buffer, any transfer limit and any request KindsAssumption admits.      *)
THEOREM CountsAreTrue == Spec => []CountsTrue
<1>1. IInv => CountsTrue
  <2> SUFFICES ASSUME IInv, Transfers PROVE CountsTrue
    BY DEF CountsTrue
  <2>1. op.pc \in {"round", "start", "publish", "queued"} =>
          loop.transferred = (IF io.whole THEN world.moved ELSE 0)
    BY DEF IInv, OnTheWay, Before
  <2> QED
    BY <2>1 DEF IInv, Told, CountsTrue
<1> QED
  BY <1>1, Always, PTL

(* A read-all or write-all succeeds only with the whole buffer or, reading, at
   the end of the stream.                                                  *)
THEOREM WholeIsWhole == Spec => []AllMeansAll
<1>1. IInv => AllMeansAll
  BY DEF IInv, Given, Told, AllMeansAll
<1> QED
  BY <1>1, Always, PTL

(* An accept of io_context or of the kqueue layer hands over a descriptor only
   when one is open for it, and one that is open when it is over was handed
   over, or belongs to an io_uring accept whose completion an abort overtook. *)
THEOREM DescriptorsAreReal == Spec => []NoFalseDescriptor
<1>1. IInv => NoFalseDescriptor
  BY DEF IInv, Handed, Overtaken, Describes, NoFalseDescriptor, Succeeded
<1> QED
  BY <1>1, Always, PTL

-----------------------------------------------------------------------------
(* Would-block results. *)

(* Unless the backend refused a submission, no would-block result is on the CPU
   queue of an operation that waits for readiness, or has been told.       *)
Inside ==
  io.req.rearm /\ io.req.call # "positioned" /\ ~world.refused =>
    /\ op.pc = "cpu" /\ op.completion # "stopped" => op.result # -EAGAIN
    /\ op.pc = "cpu" /\ op.completion = "value_with_ec" => op.error # EAGAIN
    /\ Valued => sig.ec # EAGAIN

(* What a step without a signal may leave on the CPU queue. *)
NoAgain ==
  \/ op'.pc # "cpu" \/ op'.completion = "stopped"
  \/ op'.result # -EAGAIN /\ (op'.completion = "value_with_ec" => op'.error # EAGAIN)

(* A step that signals nothing is judged by what it stages. *)
LEMMA StaysInside ==
  ASSUME Inside, io' = io, sig' = sig, world'.refused = world.refused,
         io.req.rearm /\ io.req.call # "positioned" => NoAgain
  PROVE  Inside'
BY DEF Inside, NoAgain, Valued

(* The kernel's side of a call never counts as a refused submission. *)
LEMMA HappensRefuses ==
  ASSUME Typed, NEW r, Happens(r)
  PROVE  world'.refused = world.refused
<1> DEFINE moved == IF Transfers /\ r > 0 THEN world.moved + r ELSE world.moved
           eof == world.eof \/ (io.req.kernel = "in" /\ r = 0)
           accepted == world.accepted \/ (io.req.kernel = "descriptor" /\ r >= 0)
           position == world.position \/ (Transfers /\ NativeOffset = stream_file_offset /\ r > 0)
<1>1. world' = [world EXCEPT !.moved = moved, !.eof = eof, !.accepted = accepted,
                             !.position = position]
  BY Zenon DEF Happens
<1> HIDE DEF moved, eof, accepted, position
<1> QED
  BY <1>1 DEF Typed, WorldType

(* Nor does perform_io of a kqueue request. *)
LEMMA PerformRefuses ==
  ASSUME Typed, NEW result, perform_io(result)
  PROVE  world'.refused = world.refused
BY HappensRefuses, Zenon DEF perform_io

(* A finished call is staged only when it would not block. *)
LEMMA StagedInside ==
  ASSUME Typed, NEW res \in Int, res # -EAGAIN, op' = StagedResult(res)
  PROVE  NoAgain
<1>1. CASE res < 0
  <2>1. op' = Staged("value_with_ec", res, -res) /\ -res \in Nat /\ -res # EAGAIN
    BY <1>1 DEF StagedResult, EAGAIN
  <2>2. op'.result = res /\ op'.error = -res
    BY <2>1, StagedTyped DEF Typed
  <2> QED
    BY <2>1, <2>2 DEF NoAgain
<1>2. CASE ~(res < 0)
  <2>1. op' = Staged("value", res, op.error) /\ op.error \in Nat
    BY <1>2 DEF StagedResult, Typed, OpType
  <2>2. op'.result = res /\ op'.completion = "value"
    BY <2>1, StagedTyped DEF Typed
  <2> QED
    BY <2>2 DEF NoAgain
<1> QED
  BY <1>1, <1>2

(* perform_io always yields a number. *)
LEMMA PerformInt ==
  ASSUME IInv, NEW result \in PerformResults
  PROVE  result \in Int
<1>1. CASE result = -EOVERFLOW
  BY <1>1 DEF EOVERFLOW
<1>2. ASSUME NEW r \in KernelResults, result = Converted(r) PROVE result \in Int
  BY <1>2, KernelSays, ConvertedSays DEF IInv
<1> QED
  BY <1>1, <1>2 DEF PerformResults

(* start() in all its forms. *)
LEMMA StartInside ==
  ASSUME IInv, Inside, Start, op.pc # "start" \/ io.req.class \notin {"schedule", "dispatch"}
  PROVE  Inside'
<1>0. Typed /\ op \in OpType /\ op.result \in Int /\ op.error \in Nat
  BY DEF IInv, Typed, OpType
<1>1. CASE LinuxStart
  <2>0. io' = io /\ sig' = sig
    BY <1>1 DEF LinuxStart, fixed
  <2>1. CASE op' = Staged("stopped", 0, op.error) /\ UNCHANGED world
    <3>1. op'.completion = "stopped"
      BY <1>0, <2>1, StagedTyped
    <3> QED
      BY <2>0, <2>1, <3>1, StaysInside DEF NoAgain
  <2>2. CASE op' = StagedResult(-EOVERFLOW) /\ UNCHANGED world
    <3>1. NoAgain
      BY <1>0, <2>2, StagedInside DEF EOVERFLOW, EAGAIN
    <3> QED
      BY <2>0, <2>2, <3>1, StaysInside
  <2>3. CASE \E r \in KernelResults :
               /\ Happens(r)
               /\ op' = IF should_wait(Converted(r))
                        THEN [op EXCEPT !.pc = "publish", !.completion = "value"]
                        ELSE StagedResult(Converted(r))
    <3>1. PICK r \in KernelResults :
               /\ Happens(r)
               /\ op' = IF should_wait(Converted(r))
                        THEN [op EXCEPT !.pc = "publish", !.completion = "value"]
                        ELSE StagedResult(Converted(r))
      BY <2>3, Zenon
    <3>2. Converted(r) \in Int /\ world'.refused = world.refused
      BY <1>0, <3>1, KernelSays, ConvertedSays, HappensRefuses DEF IInv
    <3>3. CASE should_wait(Converted(r))
      <4>1. op'.pc = "publish"
        BY <1>0, <3>1, <3>3 DEF OpType
      <4> QED
        BY <2>0, <3>2, <4>1, StaysInside DEF NoAgain
    <3>4. CASE ~should_wait(Converted(r))
      <4>1. NoAgain
        BY <1>0, <3>1, <3>2, <3>4, StagedInside DEF should_wait
      <4> QED
        BY <2>0, <3>2, <4>1, StaysInside
    <3> QED
      BY <3>3, <3>4
  <2>4. CASE op' = [op EXCEPT !.pc = "publish", !.completion = "value"] /\ UNCHANGED world
    <3>1. op'.pc = "publish"
      BY <1>0, <2>4 DEF OpType
    <3> QED
      BY <2>0, <2>4, <3>1, StaysInside DEF NoAgain
  <2> QED
    BY <1>1, <2>1, <2>2, <2>3, <2>4, Zenon DEF LinuxStart
<1>2. CASE BsdStart \/ KqueueReadyStart
  <2>0. io' = io /\ sig' = sig
    BY <1>2, Zenon DEF BsdStart, KqueueReadyStart, fixed
  <2>1. CASE UNCHANGED world /\ \E res \in Int : op' = Staged("stopped", res, op.error)
    <3>1. op'.completion = "stopped"
      BY <1>0, <2>1, StagedTyped
    <3> QED
      BY <2>0, <2>1, <3>1, StaysInside DEF NoAgain
  <2>2. ASSUME NEW result \in PerformResults, perform_io(result),
               \/ op' = [IF request_should_wait(result)
                         THEN [op EXCEPT !.pc = "publish", !.completion = "value",
                                         !.result = result]
                         ELSE StagedResult(result)
                         EXCEPT !.initiated = TRUE]
               \/ op' = [op EXCEPT !.result = result, !.initiated = TRUE,
                                   !.pc = IF request_should_wait(result)
                                          THEN "publish" ELSE "cpu"]
        PROVE  Inside'
    <3>1. result \in Int /\ world'.refused = world.refused
      BY <1>0, <2>2, PerformInt, PerformRefuses
    <3>2. CASE request_should_wait(result)
      <4>1. op'.pc = "publish"
        BY <1>0, <2>2, <3>1, <3>2, Zenon DEF OpType
      <4> QED
        BY <2>0, <3>1, <4>1, StaysInside DEF NoAgain
    <3>3. CASE ~request_should_wait(result)
      <4> SUFFICES ASSUME io.req.rearm /\ io.req.call # "positioned" PROVE NoAgain
        BY <2>0, <3>1, StaysInside
      <4>1. result # -EAGAIN
        BY <3>3 DEF request_should_wait, should_wait
      <4>2. CASE op' = [StagedResult(result) EXCEPT !.initiated = TRUE]
        <5> DEFINE o == StagedResult(result)
        <5>1. /\ o \in OpType /\ o.result = result
              /\ o.completion = "value_with_ec" => o.error # EAGAIN
          BY <1>0, <3>1, <4>1, StagedTyped DEF StagedResult, EAGAIN
        <5> HIDE DEF o
        <5>2. op' = [o EXCEPT !.initiated = TRUE]
          BY <4>2 DEF o
        <5> QED
          BY <4>1, <5>1, <5>2 DEF OpType, NoAgain
      <4>3. CASE op' = [op EXCEPT !.result = result, !.initiated = TRUE, !.pc = "cpu"]
        <5>1. op'.result = result /\ op'.completion = op.completion
          BY <1>0, <3>1, <4>3 DEF OpType
        <5>2. op.completion = "value"
          BY <1>2, Zenon DEF BsdStart, KqueueReadyStart, IInv, Verdict, Waiting
        <5> QED
          BY <4>1, <5>1, <5>2 DEF NoAgain
      <4> QED
        BY <2>2, <3>3, <4>2, <4>3
    <3> QED
      BY <3>2, <3>3
  <2>3. CASE env.token
    BY <1>0, <1>2, <2>1, <2>3 DEF BsdStart, KqueueReadyStart
  <2>4. CASE ~env.token /\ BsdStart
    <3>1. PICK result \in PerformResults :
               /\ perform_io(result)
               /\ op' = [IF request_should_wait(result)
                         THEN [op EXCEPT !.pc = "publish", !.completion = "value",
                                         !.result = result]
                         ELSE StagedResult(result)
                         EXCEPT !.initiated = TRUE]
      BY <2>4, Zenon DEF BsdStart
    <3> QED
      BY <2>2, <3>1, Zenon
  <2>5. CASE ~env.token /\ KqueueReadyStart
    <3>1. PICK result \in PerformResults :
               /\ perform_io(result)
               /\ op' = [op EXCEPT !.result = result, !.initiated = TRUE,
                                   !.pc = IF request_should_wait(result)
                                          THEN "publish" ELSE "cpu"]
      BY <2>5, Zenon DEF KqueueReadyStart
    <3> QED
      BY <2>2, <3>1, Zenon
  <2> QED
    BY <1>2, <2>3, <2>4, <2>5
<1>3. CASE /\ UNCHANGED <<world, fixed, sig>>
           /\ \/ \E res \in Int, e \in Nat : op' = Staged("stopped", res, e)
              \/ op' = [op EXCEPT !.pc = "publish", !.completion = "value"]
              \/ op' = Staged("value_with_ec", -EOVERFLOW, EOVERFLOW)
              \/ op' = Staged("value", 0, 0)
  <2>1. \/ op'.completion = "stopped" \/ op'.pc = "publish"
        \/ /\ op'.result \in {0, -EOVERFLOW}
           /\ op'.completion = "value" \/ op'.error = EOVERFLOW
    <3>1. CASE \E res \in Int, e \in Nat : op' = Staged("stopped", res, e)
      BY <1>0, <3>1, StagedTyped
    <3>2. CASE op' = [op EXCEPT !.pc = "publish", !.completion = "value"]
      BY <1>0, <3>2 DEF OpType
    <3>3. CASE op' = Staged("value_with_ec", -EOVERFLOW, EOVERFLOW) \/ op' = Staged("value", 0, 0)
      BY <1>0, <3>3, StagedTyped DEF EOVERFLOW
    <3> QED
      BY <1>3, <3>1, <3>2, <3>3
  <2>2. NoAgain
    BY <2>1 DEF NoAgain, EOVERFLOW, EAGAIN
  <2> QED
    BY <1>3, <2>2, StaysInside DEF fixed
<1>4. CASE \/ BsdPollStart \/ KqueuePollStart \/ KqueueReceiverStart \/ UringPollStart
           \/ UringStart \/ QueuedStart
  BY <1>0, <1>3, <1>4 DEF BsdPollStart, KqueuePollStart, KqueueReceiverStart, UringPollStart,
     UringStart, QueuedStart, StoppedOrPublish
<1> QED
  BY <1>1, <1>2, <1>4 DEF Start, ScheduleStart

(* publish_io, a worker's prepare and the abort of a stopping context. *)
LEMMA PublishInside ==
  ASSUME IInv, Inside, PublishIo \/ Abort \/ Prepare
  PROVE  Inside'
<1>0. /\ Typed /\ op \in OpType /\ op.result \in Int /\ op.error \in Nat
      /\ io' = io /\ sig' = sig
  BY DEF IInv, Typed, OpType, PublishIo, Abort, Prepare, fixed
<1>1. CASE PublishIo
  <2>1. op'.completion = "stopped" \/ op'.pc = "queued"
    <3>1. CASE op' = Staged("stopped", op.result, op.error)
      BY <1>0, <3>1, StagedTyped
    <3>2. CASE op' = [op EXCEPT !.pc = "queued"]
      BY <1>0, <3>2 DEF OpType
    <3> QED
      BY <1>1, <3>1, <3>2 DEF PublishIo
  <2> QED
    BY <1>0, <1>1, <2>1, StaysInside DEF PublishIo, NoAgain
<1>2. CASE Abort
  <2>1. op'.completion = "stopped"
    BY <1>0, <1>2, Zenon DEF Abort, OpType
  <2>2. world'.refused = world.refused
    BY <1>0, <1>2, HappensRefuses, Zenon DEF Abort
  <2> QED
    BY <1>0, <2>1, <2>2, StaysInside DEF NoAgain
<1>3. CASE Prepare
  <2>1. CASE op' = [op EXCEPT !.pc = "native"] /\ UNCHANGED world
    <3>1. op'.pc = "native"
      BY <1>0, <2>1 DEF OpType
    <3> QED
      BY <1>0, <2>1, <3>1, StaysInside DEF NoAgain
  <2>2. CASE world' = [world EXCEPT !.refused = TRUE]
    <3>1. world'.refused
      BY <1>0, <2>2, Zenon DEF Typed, WorldType
    <3> QED
      BY <3>1 DEF Inside
  <2> QED
    BY <1>3, <2>1, <2>2, Zenon DEF Prepare
<1> QED
  BY <1>1, <1>2, <1>3

(* Completions and readiness events: a would-block result waits again. *)
LEMMA KernelInside ==
  ASSUME IInv, Inside, Kernel
  PROVE  Inside'
<1>0. /\ Typed /\ op \in OpType /\ op.completion = "value"
      /\ io' = io /\ sig' = sig
  BY Zenon DEF IInv, Typed, Verdict, Waiting, Kernel, CqeCompletes, EventCompletes, EventPerformsIo, fixed
<1>1. ASSUME NEW r \in Int, op'.result = r, op'.completion = "value",
             op'.pc = "cpu" /\ io.req.rearm => r # -EAGAIN,
             world'.refused = world.refused
      PROVE  Inside'
  BY <1>0, <1>1, StaysInside DEF NoAgain
<1>4. CASE CqeCompletes
  <2>1. PICK r \in KernelResults :
               /\ Happens(r)
               /\ op' = [op EXCEPT !.result = r,
                                   !.pc = IF r = -EAGAIN /\ io.req.rearm
                                          THEN "queued" ELSE "cpu"]
    BY <1>4, Zenon DEF CqeCompletes
  <2>2. r \in Int /\ world'.refused = world.refused
    BY <1>0, <2>1, KernelSays, HappensRefuses DEF IInv
  <2>3. /\ op'.result = r /\ op'.completion = "value"
        /\ op'.pc = "cpu" => ~(r = -EAGAIN /\ io.req.rearm)
    BY <1>0, <2>1 DEF OpType
  <2> QED
    BY <1>1, <2>2, <2>3
<1>5. ASSUME NEW r \in Nat \cup {-EIO, -EOPNOTSUPP, -EPIPE},
             op' = [op EXCEPT !.result = r, !.pc = "cpu"], UNCHANGED world
      PROVE  Inside'
  <2>1. r \in Int /\ r # -EAGAIN
    BY <1>5 DEF EIO, EOPNOTSUPP, EPIPE, EAGAIN
  <2>2. op'.result = r /\ op'.completion = "value"
    BY <1>0, <1>5 DEF OpType
  <2> QED
    BY <1>1, <1>5, <2>1, <2>2
<1>6. CASE EventCompletes
  <2>1. Successes \subseteq Nat
    BY DEF Successes
  <2> QED
    BY <1>5, <1>6, <2>1, Zenon DEF EventCompletes
<1>7. CASE EventPerformsIo
  <2>1. CASE \E r \in {-EIO, -EPIPE} :
               op' = [op EXCEPT !.result = r, !.pc = "cpu"] /\ UNCHANGED world
    BY <1>5, <2>1, Zenon
  <2>2. ASSUME NEW result \in PerformResults, perform_io(result),
               \/ op' = [op EXCEPT !.result = result, !.initiated = TRUE,
                           !.pc = IF result = -EAGAIN THEN "native" ELSE "cpu"]
               \/ op' = [op EXCEPT !.result = -EIO, !.initiated = TRUE, !.pc = "cpu"]
        PROVE  Inside'
    <3>1. result \in Int /\ world'.refused = world.refused /\ -EIO \in Int /\ EIO # EAGAIN
      BY <1>0, <2>2, PerformInt, PerformRefuses DEF EIO, EAGAIN
    <3>2. /\ op'.completion = "value" /\ op'.result \in {result, -EIO}
          /\ op'.pc = "cpu" => op'.result # -EAGAIN
      <4>1. CASE op' = [op EXCEPT !.result = result, !.initiated = TRUE,
                           !.pc = IF result = -EAGAIN THEN "native" ELSE "cpu"]
        BY <1>0, <4>1 DEF OpType
      <4>2. CASE op' = [op EXCEPT !.result = -EIO, !.initiated = TRUE, !.pc = "cpu"]
        <5>1. op'.completion = "value" /\ op'.result = -EIO
          BY <1>0, <4>2 DEF OpType
        <5> QED
          BY <5>1 DEF EIO, EAGAIN
      <4> QED
        BY <2>2, <4>1, <4>2
    <3> QED
      BY <1>1, <3>1, <3>2
  <2> QED
    BY <1>7, <2>1, <2>2, Zenon DEF EventPerformsIo
<1> QED
  BY <1>4, <1>6, <1>7 DEF Kernel

(* A signal other than would-block. *)
LEMMA FinishTells ==
  ASSUME Typed, NEW kind, NEW ec, NEW value, Finish(kind, ec, value)
  PROVE  io' = io /\ op'.pc = "done" /\ sig'.ec = ec
<1>1. io' = io /\ op' = [op EXCEPT !.pc = "done"] /\ sig'.ec = ec
  BY Zenon DEF Finish, Deliver, fixed
<1> QED
  BY <1>1 DEF Typed, OpType

(* A round of a read-all or write-all adds only the end-of-loop errors. *)
LEMMA CompleteTells ==
  ASSUME Typed, NEW kind, NEW ec, NEW value, Complete(kind, ec, value), ec # EAGAIN
  PROVE  io' = io /\ op'.pc # "cpu" /\ (sig' = sig \/ sig'.ec # EAGAIN)
<1>1. CASE Finish(kind, ec, value)
  BY <1>1, FinishTells
<1>2. CASE write_all_step_complete(ec, value)
  <2> DEFINE told == IF ec # 0 THEN ec ELSE IF value = 0 THEN zero_byte_error ELSE 0
  <2>1. /\ io' = io
        /\ \/ op' = [op EXCEPT !.pc = "done"] /\ Deliver("value", told, loop'.transferred)
           \/ op' = [op EXCEPT !.pc = "round"] /\ UNCHANGED sig
    BY <1>2, Zenon DEF write_all_step_complete, fixed
  <2>2. told # EAGAIN
    BY DEF zero_byte_error, EPIPE, EAGAIN
  <2>3. op'.pc \in {"done", "round"}
    BY <2>1 DEF Typed, OpType
  <2> HIDE DEF told
  <2>4. sig' = sig \/ sig'.ec = told
    BY <2>1 DEF Deliver
  <2> QED
    BY <2>1, <2>2, <2>3, <2>4
<1> QED
  BY <1>1, <1>2 DEF Complete

(* A completion keeps would-block inside when its own code is another one. *)
LEMMA CompleteInside ==
  ASSUME IInv, Inside, NEW kind, NEW ec, NEW value, Complete(kind, ec, value),
         world'.refused = world.refused,
         io.req.rearm /\ io.req.call # "positioned" /\ ~world.refused => ec # EAGAIN
  PROVE  Inside'
<1>0. Typed
  BY DEF IInv
<1>1. io' = io
  BY DEF Complete, Finish, write_all_step_complete, fixed
<1>2. CASE ec # EAGAIN
  BY <1>0, <1>2, CompleteTells DEF Inside, Valued
<1>3. CASE ec = EAGAIN
  BY <1>1, <1>3 DEF Inside
<1> QED
  BY <1>2, <1>3

(* The same for a completion that skips the rounds. *)
LEMMA FinishInside ==
  ASSUME IInv, Inside, NEW kind, NEW ec, NEW value, Finish(kind, ec, value),
         world'.refused = world.refused,
         io.req.rearm /\ io.req.call # "positioned" /\ ~world.refused => ec # EAGAIN
  PROVE  Inside'
<1>1. io' = io /\ op'.pc = "done" /\ sig'.ec = ec
  BY FinishTells DEF IInv
<1> QED
  BY <1>1 DEF Inside

(* set_value, where a peer that cannot be decoded is EAFNOSUPPORT. *)
LEMMA SetValueInside ==
  ASSUME IInv, Inside, NEW ec, NEW result, set_value(ec, result),
         io.req.rearm /\ io.req.call # "positioned" /\ ~world.refused => ec # EAGAIN
  PROVE  Inside'
<1>1. CASE UNCHANGED world /\ Complete("value", ec, Value(ec, result))
  BY <1>1, CompleteInside
<1>2. CASE /\ world' = [world EXCEPT !.peer = "peer"]
           /\ Complete("value", ec, Value(ec, result))
  <2>1. world'.refused = world.refused
    BY <1>2 DEF IInv, Typed, WorldType
  <2> QED
    BY <1>2, <2>1, CompleteInside
<1>3. CASE world' = [world EXCEPT !.peer = "reset"] /\ Complete("value", EAFNOSUPPORT, 0)
  <2>1. world'.refused = world.refused /\ EAFNOSUPPORT # EAGAIN
    BY <1>3 DEF IInv, Typed, WorldType, EAFNOSUPPORT, EAGAIN
  <2> QED
    BY <1>3, <2>1, CompleteInside
<1> QED
  BY <1>1, <1>2, <1>3, Zenon DEF set_value

(* The arbitration of a stopped completion: ECANCELED or set_stopped. *)
LEMMA StoppedInside ==
  ASSUME IInv, Inside, CompleteStopped
  PROVE  Inside'
<1>1. ECANCELED # EAGAIN /\ 0 # EAGAIN
  BY DEF ECANCELED, EAGAIN
<1>2. CASE UNCHANGED world /\ Complete("stopped", 0, 0)
  BY <1>1, <1>2, CompleteInside
<1>3. CASE set_value(ECANCELED, io.req.aborted)
  BY <1>1, <1>3, SetValueInside
<1> QED
  BY <1>2, <1>3 DEF CompleteStopped

(* What the CPU queue hands on. *)
LEMMA StagedCode ==
  ASSUME IInv, Inside, op.pc = "cpu", op.completion # "stopped",
         io.req.rearm /\ io.req.call # "positioned" /\ ~world.refused
  PROVE  /\ op.completion = "value_with_ec" => op.error # EAGAIN
         /\ (IF op.result < 0 THEN -op.result ELSE 0) # EAGAIN
<1>1. op.result \in Int
  BY DEF IInv, Typed, OpType
<1> QED
  BY <1>1 DEF Inside, EAGAIN

(* Every execute(). *)
LEMMA ExecuteInside ==
  ASSUME IInv, Inside, Execute
  PROVE  Inside'
<1>1. op.pc = "cpu"
  BY DEF Execute, NativeExecute, BsdExecute, BsdPollExecute, UringPollExecute, KqueuePollExecute,
     KqueueReadyExecute, ReceiverExecute, KqueueReceiverExecute, ResolveExecute, PostExecute,
     ScheduleExecute
<1> DEFINE code == IF op.result < 0 THEN -op.result ELSE 0
<1>2. ASSUME op.completion # "stopped", io.req.rearm /\ io.req.call # "positioned" /\ ~world.refused
      PROVE  (op.completion = "value_with_ec" => op.error # EAGAIN) /\ code # EAGAIN
  BY <1>1, <1>2, StagedCode
<1> HIDE DEF code
<1>3. CASE NativeExecute \/ BsdExecute \/ BsdPollExecute \/ UringPollExecute \/ KqueuePollExecute
           \/ KqueueReadyExecute
  <2>1. CASE op.completion = "stopped"
    BY <1>3, <2>1, StoppedInside DEF NativeExecute, BsdExecute, BsdPollExecute, UringPollExecute,
       KqueuePollExecute, KqueueReadyExecute, CompleteStaged
  <2>2. CASE /\ op.completion # "stopped"
             /\ \/ op.completion = "value_with_ec" /\ set_value(op.error, op.result)
                \/ set_value(code, op.result)
    BY <1>2, <2>2, SetValueInside
  <2> QED
    BY <1>3, <2>1, <2>2 DEF NativeExecute, BsdExecute, BsdPollExecute, UringPollExecute,
       KqueuePollExecute, KqueueReadyExecute, CompleteStaged, code
<1>4. CASE ReceiverExecute \/ KqueueReceiverExecute
  <2>1. CASE op.completion = "stopped"
    BY <1>4, <2>1, StoppedInside DEF ReceiverExecute, KqueueReceiverExecute
  <2>2. CASE op.completion # "stopped"
    <3>1. world'.refused = world.refused
      <4>1. UNCHANGED world \/ \E p \in {"peer", "reset"} : world' = [world EXCEPT !.peer = p]
        BY <1>4, <2>2 DEF ReceiverExecute, KqueueReceiverExecute
      <4> QED
        BY <4>1 DEF IInv, Typed, WorldType
    <3>2. Finish("value", IF op.completion = "value_with_ec" THEN op.error ELSE code, op.result)
      BY <1>4, <2>2 DEF ReceiverExecute, KqueueReceiverExecute, FinishStaged, code
    <3>3. CASE op.completion = "value_with_ec"
      <4>1. Finish("value", op.error, op.result)
        BY <3>2, <3>3
      <4> QED
        BY <1>2, <2>2, <3>1, <3>3, <4>1, FinishInside
    <3>4. CASE op.completion # "value_with_ec"
      <4>1. Finish("value", code, op.result)
        BY <3>2, <3>4
      <4> QED
        BY <1>2, <2>2, <3>1, <4>1, FinishInside
    <3> QED
      BY <3>3, <3>4
  <2> QED
    BY <2>1, <2>2
<1>5. CASE ResolveExecute \/ PostExecute \/ ScheduleExecute
  <2>1. /\ UNCHANGED world
        /\ \E kind \in {"value", "value_with_ec", "stopped"}, ec \in {0, EIO, ECANCELED}, value \in {0, 1} :
             Finish(kind, ec, value)
    BY <1>5 DEF ResolveExecute, PostExecute, ScheduleExecute, ScheduleComplete, IInv, Typed, OpType
  <2>2. ASSUME NEW ec \in {0, EIO, ECANCELED}
        PROVE  ec # EAGAIN
    BY <2>2 DEF EIO, ECANCELED, EAGAIN
  <2> QED
    BY <2>1, <2>2, FinishInside
<1> QED
  BY <1>3, <1>4, <1>5 DEF Execute

(* Every step of the program, the kernel and the caller. *)
LEMMA InsideStep ==
  ASSUME IInv, Inside, [Next]_vars
  PROVE  Inside'
<1>1. CASE op.pc = "start" /\ Start
  <2>1. CASE io.req.class \notin {"schedule", "dispatch"}
    BY <1>1, <2>1, StartInside
  <2>2. CASE io.req.class \in {"schedule", "dispatch"}
    <3>1. ScheduleStart
      BY <1>1, <2>2, Zenon DEF Start, LinuxStart, BsdStart, KqueueReadyStart, BsdPollStart, KqueuePollStart,
         KqueueReceiverStart, UringPollStart, UringStart, QueuedStart
    <3>2. CASE op' = Staged("value", 0, 0) /\ UNCHANGED <<fixed, loop, sig>> /\ UNCHANGED world
      <4>1. op'.result = 0 /\ op'.completion = "value"
        BY <3>2, StagedTyped DEF IInv, Typed
      <4> QED
        BY <3>2, <4>1, StaysInside DEF NoAgain, EAGAIN, fixed
    <3>3. CASE ScheduleComplete /\ UNCHANGED world
      <4>1. ECANCELED # EAGAIN /\ 0 # EAGAIN
        BY DEF ECANCELED, EAGAIN
      <4> QED
        BY <3>3, <4>1, FinishInside DEF ScheduleComplete
    <3> QED
      BY <3>1, <3>2, <3>3 DEF ScheduleStart
  <2> QED
    BY <2>1, <2>2
<1>2. CASE PublishIo \/ Prepare \/ Abort
  BY <1>2, PublishInside
<1>3. CASE Execute
  BY <1>3, ExecuteInside
<1>4. CASE WholeStart \/ NextRound
  <2>1. CASE UNCHANGED world /\ \E kind \in {"value", "stopped"}, value \in Int : Finish(kind, 0, value)
    <3>1. 0 # EAGAIN
      BY DEF EAGAIN
    <3> QED
      BY <2>1, <3>1, FinishInside
  <2>2. CASE UNCHANGED <<world, io, sig>> /\ (op' = [op EXCEPT !.pc = "round"] \/ op' = FreshOp)
    <3>1. op'.pc # "cpu"
      BY <2>2 DEF IInv, Typed, OpType, FreshOp
    <3> QED
      BY <2>2, <3>1, StaysInside DEF NoAgain
  <2>3. loop.transferred \in Int
    BY DEF IInv, Typed, LoopType
  <2> QED
    BY <1>4, <2>1, <2>2, <2>3 DEF WholeStart, NextRound, fixed
<1>5. CASE Kernel
  BY <1>5, KernelInside
<1>6. CASE UNCHANGED <<io, op, world, sig>>
  BY <1>6 DEF Inside, Valued
<1> QED
  BY <1>1, <1>2, <1>3, <1>4, <1>5, <1>6, Zenon DEF Next, Program, CancelToken, StopContext, vars, Start,
     LinuxStart, BsdStart, KqueueReadyStart, BsdPollStart, KqueuePollStart, KqueueReceiverStart,
     UringPollStart, UringStart, QueuedStart, ScheduleStart

(* No receiver of an operation that waits for readiness is told EAGAIN unless
   the backend refused the submission with it: would-block results of probes,
   completions and readiness events all go back to waiting.                *)
THEOREM WouldBlockIsInside == Spec => []WouldBlockStaysInside
<1>1. Init => Inside
  BY DEF Init, Inside, Valued, FreshOp
<1>2. Inside => WouldBlockStaysInside
  BY DEF Inside, WouldBlockStaysInside
<1> QED
  BY <1>1, <1>2, InsideStep, Always, PTL DEF Spec
===============================================================================
