------------------------------ MODULE IoRequests ------------------------------
(***************************************************************************)
(* The I/O requests of the library, as data.  A request class differs from *)
(* the others only in how it makes its native call, how it converts the    *)
(* outcome and how it hands the result to its receiver, so each class is a *)
(* record of those choices; IoOperation runs them.                         *)
(*                                                                         *)
(* A native result is what the code keeps in `int result': a count, a      *)
(* descriptor, an event mask or 0 on success and a negated errno on        *)
(* failure.  An error code is the errno, 0 for the empty error_code.       *)
(***************************************************************************)
EXTENDS Integers, FiniteSets

EINTR == 4
EIO == 5
EAGAIN == 11
EINVAL == 22
ESPIPE == 29
EPIPE == 32
ENOSYS == 38
EOVERFLOW == 75
EOPNOTSUPP == 95
EAFNOSUPPORT == 97
EISCONN == 106
EALREADY == 114
EINPROGRESS == 115
ECANCELED == 125

-----------------------------------------------------------------------------
(* How the outcome of a native call becomes a result.                      *)

(* A socket probe on Linux: an interrupted call counts as would-block. *)
immediate_socket_result(r) ==
  IF r \in {-EINTR, -EAGAIN} THEN -EAGAIN ELSE r

(* Errors of preadv2/pwritev2 with RWF_NOWAIT that the ring may not have. *)
should_defer_nowait_error(e) == e \in {ENOSYS, EOPNOTSUPP, EINVAL, ESPIPE}

(* A file probe on Linux: what cannot be done without waiting is left to
   the ring.  An interrupted call is an error here.                        *)
nowait_result(r) ==
  IF r = -EAGAIN \/ should_defer_nowait_error(-r) THEN -EAGAIN ELSE r

(* A socket call on kqueue. *)
nonblocking_io_result(r) ==
  IF r \in {-EINTR, -EAGAIN, -EINPROGRESS, -EALREADY} THEN -EAGAIN ELSE r

(* A call on a pipe, a terminal or another descriptor that can wait. *)
nonblocking_descriptor_result(r) ==
  IF r \in {-EINTR, -EAGAIN} THEN -EAGAIN ELSE r

(* A call on a regular file; EINTR was retried in place. *)
positioned_io_result(r) == r

(* The connect call itself: an interrupted one is an error, although the
   attempt goes on in the kernel.                                          *)
connect_result(r) ==
  IF r = -EISCONN THEN 0
  ELSE IF r \in {-EINPROGRESS, -EALREADY, -EAGAIN} THEN -EAGAIN ELSE r

(* SO_ERROR after the socket became writable. *)
socket_error_result(r) ==
  IF r \in {-EINPROGRESS, -EALREADY, -EAGAIN} THEN -EAGAIN ELSE r

(* A result that means: come back when the descriptor is ready. *)
should_wait(r) == r = -EAGAIN

-----------------------------------------------------------------------------
(* Offsets are unsigned numbers of OffsetBits bits, read by the kernel as
   signed ones; the all-ones offset is -1, the current file position.      *)
OffsetBits == 3
Offsets == 0 .. (2^OffsetBits - 1)
stream_file_offset == 2^OffsetBits - 1

(* The offset is representable in the kernel's signed type. *)
valid_random_access_offset(offset) == offset <= 2^(OffsetBits - 1) - 1

-----------------------------------------------------------------------------
(***************************************************************************)
(* A request record.                                                       *)
(*   class   the operation state that runs it                              *)
(*   kernel  what the native call returns: bytes in or out, a descriptor,  *)
(*           a status, an event mask, nothing                              *)
(*   call    the conversion of the call the operation makes itself, "none" *)
(*           when the kernel makes it                                      *)
(*   value   how the result reaches the receiver: clamped at zero,         *)
(*           verbatim, not at all, or as a mask that is 0 on failure       *)
(*   peer    what an undecodable peer address does: nothing to decode,     *)
(*           fail the operation, or only reset the endpoint                *)
(*   offset  where an explicit offset is range-checked, if it has one      *)
(*   rearm   a would-block completion is submitted again                   *)
(*   aborted the result an aborted operation reports                       *)
(*   stale   a failed submission leaves the result as it was               *)
(*   whole   a read-all or write-all form exists                           *)
(***************************************************************************)
Classes ==
  {"native", "kqueue_native", "kqueue_native_poll", "uring", "uring_poll",
   "kqueue_ready", "kqueue_receiver", "kqueue_poll", "resolve",
   "context_resolve", "post", "schedule", "dispatch"}

RequestType ==
  [class : Classes,
   kernel : {"in", "out", "descriptor", "status", "mask", "none"},
   call : {"none", "socket", "nowait", "nonblocking", "descriptor",
           "positioned", "accept", "connect"},
   value : {"clamped", "verbatim", "none", "mask"},
   peer : {"none", "fails", "resets"},
   offset : {"none", "current", "probe", "start", "call"},
   rearm : BOOLEAN,
   aborted : {-1, 0},
   stale : BOOLEAN,
   whole : BOOLEAN]

(* The operation state io_context runs a Linux request model in. *)
native_io_operation ==
  [class |-> "native", kernel |-> "in", call |-> "none", value |-> "clamped",
   peer |-> "none", offset |-> "none", rearm |-> TRUE, aborted |-> -1,
   stale |-> FALSE, whole |-> FALSE]

socket_read_model ==
  [native_io_operation EXCEPT !.call = "socket", !.whole = TRUE]

socket_write_model == [socket_read_model EXCEPT !.kernel = "out"]

datagram_receive_model == [native_io_operation EXCEPT !.call = "socket"]

datagram_send_model == [datagram_receive_model EXCEPT !.kernel = "out"]

datagram_receive_from_model == [datagram_receive_model EXCEPT !.peer = "fails"]

datagram_send_to_model == [datagram_receive_model EXCEPT !.kernel = "out"]

accept_model ==
  [native_io_operation EXCEPT !.kernel = "descriptor", !.value = "verbatim"]

connect_model ==
  [native_io_operation EXCEPT !.kernel = "status", !.value = "none"]

poll_model == [native_io_operation EXCEPT !.kernel = "mask"]

stream_file_read_model ==
  [native_io_operation EXCEPT !.call = "nowait", !.offset = "current",
                              !.whole = TRUE]

stream_file_write_model == [stream_file_read_model EXCEPT !.kernel = "out"]

(* The offset is checked by the probe only. *)
random_access_read_model ==
  [stream_file_read_model EXCEPT !.offset = "probe"]

random_access_write_model ==
  [random_access_read_model EXCEPT !.kernel = "out"]

LinuxModels ==
  {socket_read_model, socket_write_model, datagram_receive_model,
   datagram_send_model, datagram_receive_from_model, datagram_send_to_model,
   accept_model, connect_model, poll_model, stream_file_read_model,
   stream_file_write_model, random_access_read_model,
   random_access_write_model}

-----------------------------------------------------------------------------
(* The kqueue requests.  The request makes the native call itself, at start
   and after every readiness event.                                        *)
kqueue_ready_io_operation ==
  [class |-> "kqueue_ready", kernel |-> "in", call |-> "nonblocking",
   value |-> "clamped", peer |-> "none", offset |-> "none", rearm |-> TRUE,
   aborted |-> -1, stale |-> FALSE, whole |-> FALSE]

kqueue_receive_request == [kqueue_ready_io_operation EXCEPT !.whole = TRUE]

kqueue_send_request == [kqueue_receive_request EXCEPT !.kernel = "out"]

kqueue_receive_from_request ==
  [kqueue_ready_io_operation EXCEPT !.peer = "fails"]

kqueue_send_to_request == [kqueue_ready_io_operation EXCEPT !.kernel = "out"]

kqueue_accept_request ==
  [kqueue_ready_io_operation EXCEPT !.kernel = "descriptor",
                                    !.call = "accept", !.value = "verbatim"]

kqueue_connect_request ==
  [kqueue_ready_io_operation EXCEPT !.kernel = "status", !.call = "connect",
                                    !.value = "none"]

(* A descriptor that is not a regular file; a regular one behaves like a
   positioned request without the offset.                                  *)
kqueue_stream_file_read_request ==
  [kqueue_receive_request EXCEPT !.call = "descriptor", !.offset = "current"]

kqueue_stream_file_write_request ==
  [kqueue_stream_file_read_request EXCEPT !.kernel = "out"]

(* The offset is checked before every call. *)
kqueue_random_access_read_request ==
  [kqueue_receive_request EXCEPT !.call = "positioned", !.offset = "call"]

kqueue_random_access_write_request ==
  [kqueue_random_access_read_request EXCEPT !.kernel = "out"]

(* fstat said: a regular file, which never waits. *)
OnRegularFile(req) == [req EXCEPT !.call = "positioned"]

KqueueRequests ==
  {kqueue_receive_request, kqueue_send_request, kqueue_receive_from_request,
   kqueue_send_to_request, kqueue_accept_request, kqueue_connect_request,
   kqueue_stream_file_read_request, kqueue_stream_file_write_request,
   kqueue_random_access_read_request, kqueue_random_access_write_request,
   OnRegularFile(kqueue_stream_file_read_request),
   OnRegularFile(kqueue_stream_file_write_request)}

(* io_context runs the same requests in its own operation state. *)
InIoContext(req) == [req EXCEPT !.class = "kqueue_native"]

(* Polls and caller-described registrations are completed by the kqueue
   backend without a native call of their own.                             *)
kqueue_poll_request ==
  [kqueue_ready_io_operation EXCEPT !.kernel = "mask", !.call = "none"]

native_poll_operation ==
  [kqueue_poll_request EXCEPT !.class = "kqueue_native_poll",
                              !.value = "mask", !.stale = TRUE]

kqueue_poll_sender_operation ==
  [native_poll_operation EXCEPT !.class = "kqueue_poll"]

kqueue_receiver_operation ==
  [kqueue_poll_request EXCEPT !.class = "kqueue_receiver",
                              !.value = "verbatim", !.aborted = 0,
                              !.stale = TRUE]

kqueue_poll_operation == kqueue_receiver_operation

kqueue_raw_operation == kqueue_receiver_operation

kqueue_nop_operation == [kqueue_receiver_operation EXCEPT !.kernel = "status"]

BsdRequests ==
  KqueueRequests
    \cup {InIoContext(r) : r \in KqueueRequests}
    \cup {native_poll_operation, kqueue_poll_sender_operation,
          kqueue_poll_operation, kqueue_raw_operation, kqueue_nop_operation}

-----------------------------------------------------------------------------
(* The io_uring operations of the lower layer: the kernel makes every call
   and the receiver gets the completion's result as it is.                 *)
io_uring_receiver_operation ==
  [class |-> "uring", kernel |-> "status", call |-> "none",
   value |-> "verbatim", peer |-> "none", offset |-> "none",
   rearm |-> FALSE, aborted |-> 0, stale |-> TRUE, whole |-> FALSE]

io_uring_nop_operation == io_uring_receiver_operation

io_uring_timeout_operation == io_uring_receiver_operation

io_uring_raw_operation == io_uring_receiver_operation

io_uring_poll_operation == [io_uring_receiver_operation EXCEPT !.kernel = "mask"]

io_uring_poll_sender_operation ==
  [io_uring_poll_operation EXCEPT !.class = "uring_poll", !.value = "mask"]

io_uring_accept_operation ==
  [io_uring_receiver_operation EXCEPT !.kernel = "descriptor", !.rearm = TRUE,
                                      !.peer = "resets"]

io_uring_connect_operation ==
  [io_uring_receiver_operation EXCEPT !.rearm = TRUE]

io_uring_recv_operation ==
  [io_uring_receiver_operation EXCEPT !.kernel = "in", !.rearm = TRUE]

io_uring_send_operation == [io_uring_recv_operation EXCEPT !.kernel = "out"]

io_uring_datagram_receive_operation == io_uring_recv_operation

io_uring_datagram_send_operation == io_uring_send_operation

io_uring_recvmsg_operation == io_uring_recv_operation

io_uring_sendmsg_operation == io_uring_send_operation

io_uring_receive_from_operation ==
  [io_uring_recv_operation EXCEPT !.peer = "resets"]

io_uring_send_to_operation == io_uring_send_operation

io_uring_read_operation ==
  [io_uring_recv_operation EXCEPT !.offset = "current"]

io_uring_write_operation ==
  [io_uring_send_operation EXCEPT !.offset = "current"]

io_uring_readv_operation == io_uring_read_operation

io_uring_writev_operation == io_uring_write_operation

(* The offset is checked when the operation starts. *)
io_uring_random_access_read_operation ==
  [io_uring_recv_operation EXCEPT !.offset = "start"]

io_uring_random_access_write_operation ==
  [io_uring_send_operation EXCEPT !.offset = "start"]

io_uring_random_access_readv_operation == io_uring_random_access_read_operation

io_uring_random_access_writev_operation ==
  io_uring_random_access_write_operation

UringOperations ==
  {io_uring_nop_operation, io_uring_timeout_operation, io_uring_raw_operation,
   io_uring_poll_operation, io_uring_poll_sender_operation,
   io_uring_accept_operation, io_uring_connect_operation,
   io_uring_recv_operation, io_uring_send_operation,
   io_uring_datagram_receive_operation, io_uring_datagram_send_operation,
   io_uring_recvmsg_operation, io_uring_sendmsg_operation,
   io_uring_receive_from_operation, io_uring_send_to_operation,
   io_uring_read_operation, io_uring_write_operation,
   io_uring_readv_operation,
   io_uring_writev_operation,
   io_uring_random_access_read_operation,
   io_uring_random_access_write_operation,
   io_uring_random_access_readv_operation,
   io_uring_random_access_writev_operation}

-----------------------------------------------------------------------------
(* Work that runs on the CPU queue and never reaches the I/O queue. *)
resolve_operation ==
  [native_io_operation EXCEPT !.class = "context_resolve",
                              !.kernel = "status", !.value = "verbatim",
                              !.rearm = FALSE, !.aborted = 0]

io_uring_resolve_operation == [resolve_operation EXCEPT !.class = "resolve"]

kqueue_resolve_operation == io_uring_resolve_operation

io_uring_post_operation ==
  [resolve_operation EXCEPT !.class = "post", !.kernel = "none",
                            !.value = "none"]

kqueue_post_operation == io_uring_post_operation

(* io_context's schedulers; dispatch completes on the spot on a worker. *)
schedule_sender_post == [io_uring_post_operation EXCEPT !.class = "schedule"]

schedule_sender_dispatch == [schedule_sender_post EXCEPT !.class = "dispatch"]

QueuedWork ==
  {resolve_operation, io_uring_resolve_operation, kqueue_resolve_operation,
   io_uring_post_operation, kqueue_post_operation, schedule_sender_post,
   schedule_sender_dispatch}

Requests == LinuxModels \cup BsdRequests \cup UringOperations \cup QueuedWork
===============================================================================
