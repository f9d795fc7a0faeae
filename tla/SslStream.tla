------------------------------- MODULE SslStream -------------------------------
(***************************************************************************)
(* An ssl_stream and the operations run on it one after the other:         *)
(* handshake and shutdown, which run a callback state machine and hand     *)
(* their staged completion over through the scheduler, and read, write and *)
(* write-some, which repeat small steps until they are done.  OpenSSL and  *)
(* the transport are external: an SSL call consumes records from the read  *)
(* BIO and puts records into the write BIO; a transport operation behaves  *)
(* as IoOperation shows.                                                   *)
(*                                                                         *)
(* Plaintext is counted in bytes, ciphertext in records.                   *)
(***************************************************************************)
EXTENDS Integers, Sequences

CONSTANTS
  MaxOps,      \* operations run on the stream
  MaxSize,     \* largest plaintext buffer
  MaxRecords,  \* records the peer sends
  Flights,     \* handshake flights expected from the peer
  InCap,       \* records the read BIO holds
  OutCap       \* records the write BIO holds

ASSUME StreamAssumption ==
  /\ MaxOps \in Nat /\ MaxSize \in Nat /\ MaxRecords \in Nat /\ Flights \in Nat
  /\ InCap \in Nat \ {0} /\ OutCap \in Nat \ {0}

VARIABLES
  eng,    \* the SSL object, its BIOs and the wire
  errors, \* the OpenSSL error queue of the thread that takes the next step
  op,     \* the operation in progress
  env,    \* the receiver's token and the context's stop
  sig,    \* what the last operation delivered
  ops     \* operations started so far

vars == <<eng, errors, op, env, sig, ops>>

Machines == {"handshake", "shutdown"}
Kinds == Machines \cup {"read", "write", "write_some"}
Records == {"control", "data", "close"}

(* A read, write or write-some, driven step by step. *)
Stepwise == op.kind \notin Machines
Writes == op.kind \in {"write", "write_some"}

(* The front of the write BIO is the next record the wire expects when skew is
   0; skew counts records already on the wire but still in the BIO.        *)
FreshStream ==
  [valid |-> TRUE, inb |-> <<>>, todo |-> Flights, closed |-> FALSE,
   told |-> FALSE, out |-> 0, skew |-> 0, garbled |-> FALSE, lost |-> FALSE,
   came |-> 0]

Idle ==
  [kind |-> "none", size |-> 0, bytes |-> 0, pc |-> "idle", phase |-> "call",
   after |-> "call", chunk |-> 0, sent |-> 0, staged |-> "value", ec |-> "ok",
   aborted |-> FALSE]

Nothing ==
  [kind |-> "none", size |-> 0, signal |-> "none", ec |-> "ok", bytes |-> 0,
   aborted |-> FALSE]

(* reset() of the stream: without an SSL object the stream is not valid. *)
Init ==
  /\ eng \in {FreshStream, [FreshStream EXCEPT !.valid = FALSE]}
  /\ errors = "empty"
  /\ op = Idle
  /\ env = [token |-> FALSE, stopping |-> FALSE]
  /\ sig = Nothing
  /\ ops = 0

-----------------------------------------------------------------------------
(* Completion. *)

(* The receiver's signal; the operation is over. *)
Deliver(signal, ec, bytes) ==
  /\ sig' = [kind |-> op.kind, size |-> op.size, signal |-> signal, ec |-> ec,
             bytes |-> bytes, aborted |-> op'.aborted]
  /\ UNCHANGED <<env, ops>>

Over(aborted) == op' = [Idle EXCEPT !.aborted = aborted]

(* post_complete_*: staged until the scheduler runs the handoff. *)
Post(staged, ec, aborted) ==
  /\ op' = [op EXCEPT !.pc = "post", !.staged = staged, !.ec = ec,
                      !.aborted = aborted]
  /\ UNCHANGED <<env, sig, ops>>

(* The operation ends with an error code, "ok" for success. *)
Terminal(ec, aborted) ==
  IF Stepwise THEN Over(aborted) /\ Deliver("value", ec, op.bytes)
  ELSE Post("value", ec, aborted)

Stopped ==
  IF Stepwise THEN Over(op.aborted) /\ Deliver("stopped", "ok", 0)
  ELSE Post("stopped", "ok", op.aborted)

(* Carry on with another phase: at once in a state machine, in the next round
   of a stepwise operation.                                                *)
Continue(next) ==
  /\ op' = IF Stepwise
           THEN [next EXCEPT !.pc = "round", !.chunk = 0, !.sent = 0]
           ELSE [next EXCEPT !.pc = next.phase, !.chunk = 0, !.sent = 0]
  /\ UNCHANGED <<env, sig, ops>>

-----------------------------------------------------------------------------
(* The caller starts an operation; an invalid stream is only given to the
   handshake, which checks for it.                                         *)
StartOperation ==
  /\ op.pc = "idle" /\ ops < MaxOps /\ ~env.stopping
  /\ \E kind \in Kinds, size \in 0 .. MaxSize :
       /\ kind \in Machines => size = 0
       /\ eng.valid \/ kind = "handshake"
       /\ op' = [Idle EXCEPT !.kind = kind, !.size = size, !.pc = "start"]
  /\ env' = [env EXCEPT !.token = FALSE]
  /\ sig' = Nothing
  /\ ops' = ops + 1
  /\ UNCHANGED <<eng, errors>>

(* start() of a handshake or shutdown. *)
StartMachine ==
  /\ op.pc = "start" /\ ~Stepwise
  /\ IF env.token THEN Stopped
     ELSE IF ~eng.valid THEN Post("value", "no_ssl_error", FALSE)
     ELSE Continue([op EXCEPT !.phase = "call"])
  /\ UNCHANGED <<eng, errors>>

(* start() of a read or write. *)
StartIo ==
  /\ op.pc = "start" /\ Stepwise
  /\ IF env.token THEN Stopped
     ELSE IF op.size = 0 THEN Terminal("ok", FALSE)
     ELSE Continue([op EXCEPT !.phase = "call"])
  /\ UNCHANGED <<eng, errors>>

(* A round of a stepwise operation begins with its token. *)
NextRound ==
  /\ op.pc = "round"
  /\ IF env.token THEN Stopped
     ELSE op' = [op EXCEPT !.pc = op.phase] /\ UNCHANGED <<env, sig, ops>>
  /\ UNCHANGED <<eng, errors>>

-----------------------------------------------------------------------------
(* OpenSSL.  e is the stream after the call, n the plaintext it moved. *)

(* The input left once control records are processed. *)
Rest ==
  LET skip == {k \in 0 .. Len(eng.inb) :
                 \A i \in 1 .. k : eng.inb[i] = "control"}
      most == CHOOSE k \in skip : \A j \in skip : j <= k
  IN  SubSeq(eng.inb, most + 1, Len(eng.inb))

Processed == Len(eng.inb) - Len(Rest)

(* A call may answer the peer, when the write BIO has room. *)
Answering(e) ==
  {e} \cup (IF e.out < OutCap THEN {[e EXCEPT !.out = @ + 1]} ELSE {})

Swallowed == [eng EXCEPT !.inb = Rest, !.todo = IF @ > Processed THEN @ - Processed ELSE 0]

SSL_do_handshake(res, n, e) ==
  /\ n = 0
  /\ \/ res = "ok" /\ Swallowed.todo = 0 /\ e \in Answering(Swallowed)
     \/ /\ res = "want_read" /\ Swallowed.todo > 0 /\ Rest = <<>>
        /\ e \in Answering(Swallowed)
     \/ res = "want_write" /\ eng.out = OutCap /\ e = eng
     \/ /\ res = "zero" /\ Swallowed.todo > 0 /\ Rest # <<>> /\ Rest[1] = "close"
        /\ e = [Swallowed EXCEPT !.inb = Tail(@), !.closed = TRUE]
     \/ res = "fail" /\ e = eng

SSL_read(res, n, e) ==
  \/ /\ res = "ok" /\ Rest # <<>> /\ Rest[1] = "data" /\ n \in 1 .. op.size
     /\ e \in Answering([Swallowed EXCEPT !.inb = Tail(@)])
  \/ /\ res = "want_read" /\ Rest = <<>> /\ ~eng.closed /\ n = 0
     /\ e \in Answering(Swallowed)
  \/ res = "want_write" /\ eng.out = OutCap /\ n = 0 /\ e = eng
  \/ /\ res = "zero" /\ n = 0
     /\ \/ /\ Rest # <<>> /\ Rest[1] = "close"
           /\ e \in Answering([Swallowed EXCEPT !.inb = Tail(@), !.closed = TRUE])
        \/ eng.closed /\ Rest = <<>> /\ e = Swallowed
  \/ res = "fail" /\ n = 0 /\ e = eng

(* What a write has not handed to OpenSSL yet. *)
remaining == op.size - op.bytes

SSL_write(res, n, e) ==
  \/ /\ res = "ok" /\ eng.out < OutCap /\ n \in 1 .. remaining
     /\ e = [eng EXCEPT !.out = @ + 1]
  \/ res = "want_write" /\ eng.out = OutCap /\ n = 0 /\ e = eng
  \/ res = "want_read" /\ Rest = <<>> /\ n = 0 /\ e = Swallowed
  \/ res = "zero" /\ (eng.closed \/ eng.told) /\ n = 0 /\ e = eng
  \/ res = "fail" /\ n = 0 /\ e = eng

(* The first call says goodbye, the next ones wait for the peer's. *)
SSL_shutdown(res, n, e) ==
  /\ n = 0
  /\ \/ /\ res = (IF eng.closed THEN "ok" ELSE "again")
        /\ ~eng.told /\ eng.out < OutCap
        /\ e = [eng EXCEPT !.told = TRUE, !.out = @ + 1]
     \/ res = "want_write" /\ ~eng.told /\ eng.out = OutCap /\ e = eng
     \/ /\ res = "ok" /\ eng.told /\ (eng.closed \/ (Rest # <<>> /\ Rest[1] = "close"))
        /\ e = [Swallowed EXCEPT !.closed = TRUE]
     \/ res = "want_read" /\ eng.told /\ ~eng.closed /\ Rest = <<>> /\ e = Swallowed
     \/ res = "fail" /\ e = eng

SslCall(res, n, e) ==
  IF op.kind = "handshake" THEN SSL_do_handshake(res, n, e)
  ELSE IF op.kind = "shutdown" THEN SSL_shutdown(res, n, e)
  ELSE IF op.kind = "read" THEN SSL_read(res, n, e)
  ELSE SSL_write(res, n, e)

Engines ==
  {eng} \cup Answering(Swallowed)
    \cup (IF Rest = <<>> THEN {}
          ELSE Answering([Swallowed EXCEPT !.inb = Tail(@)])
                 \cup Answering([Swallowed EXCEPT !.inb = Tail(@), !.closed = TRUE]))
    \cup {[Swallowed EXCEPT !.closed = TRUE],
          [eng EXCEPT !.told = TRUE, !.out = @ + 1],
          [eng EXCEPT !.out = @ + 1]}

\* Mutant: the error queue is not cleared before the call.
keep_ssl_errors == UNCHANGED errors

(* Each call of the code into OpenSSL that can fail is preceded by this one, in
   the same step.                                                          *)
clear_ssl_errors == errors' = "empty"

(* SSL_get_error() of a call that did not succeed looks into the queue first: an
   entry there, whoever left it, makes the call a failed one.              *)
SSL_get_error(res) == IF errors' = "empty" THEN res ELSE "fail"

(* The error of the call just made: the first entry in the queue, the call's own
   if it recorded one behind what the queue still held, or the value that means
   there was none.  The rest of what the call recorded is cleared.         *)
last_ssl_error(recorded) ==
  IF errors' # "empty" THEN errors' ELSE IF recorded THEN "tls" ELSE "no_ssl_error"

\* Mutant: what the last call put into the write BIO is left there.
application_result_unflushed(n) ==
  LET bytes == IF Writes THEN op.bytes + n ELSE n
  IN  IF op.kind = "write" /\ bytes < op.size
      THEN Continue([op EXCEPT !.bytes = bytes, !.phase = "flush", !.after = "call"])
      ELSE Over(FALSE) /\ Deliver("value", "ok", bytes)

(* What follows a successful SSL call. *)
handle_application_result(n) ==
  LET bytes == IF Writes THEN op.bytes + n ELSE n
  IN  Continue([op EXCEPT !.bytes = bytes, !.phase = "flush",
                  !.after = IF op.kind = "write" /\ bytes < op.size
                            THEN "call" ELSE "finish"])

(* What follows a failed one in a read or write ... *)
step_handle_ssl_error(res, error) ==
  IF res = "want_read" THEN Continue([op EXCEPT !.phase = "flush", !.after = "read"])
  ELSE IF res = "want_write" THEN Continue([op EXCEPT !.phase = "flush", !.after = "call"])
  ELSE IF res = "zero" THEN Terminal(IF Writes THEN "EPIPE" ELSE "ok", FALSE)
  ELSE Terminal(error, FALSE)

(* ... and in a handshake or shutdown. *)
handle_ssl_error(res, error) ==
  IF res = "want_read" THEN Continue([op EXCEPT !.phase = "flush", !.after = "read"])
  ELSE IF res = "want_write" THEN Continue([op EXCEPT !.phase = "flush", !.after = "call"])
  ELSE Terminal(IF res = "zero" THEN "ECONNRESET" ELSE error, FALSE)

(* run_application: SSL_read or SSL_write, the queue cleared just before. *)
RunApplication ==
  /\ op.pc = "call" /\ Stepwise
  /\ clear_ssl_errors
  /\ \E res \in {"ok", "want_read", "want_write", "zero", "fail"},
        n \in 0 .. MaxSize, e \in Engines, recorded \in BOOLEAN :
       /\ SslCall(res, n, e)
       /\ recorded => res = "fail"
       /\ eng' = e
       /\ IF res = "ok" THEN handle_application_result(n)
          ELSE step_handle_ssl_error(SSL_get_error(res), last_ssl_error(recorded))

(* A call of a handshake or shutdown.  A goodbye that was sent is flushed before
   the peer's is waited for.                                               *)
MachineCall ==
  /\ clear_ssl_errors
  /\ \E res \in {"ok", "again", "want_read", "want_write", "zero", "fail"},
        e \in Engines, recorded \in BOOLEAN :
       /\ SslCall(res, 0, e)
       /\ recorded => res = "fail"
       /\ eng' = e
       /\ IF res \in {"ok", "again"}
          THEN Continue([op EXCEPT !.phase = "flush",
                           !.after = IF res = "ok" THEN "finish" ELSE "call"])
          ELSE handle_ssl_error(SSL_get_error(res), last_ssl_error(recorded))

RunHandshake == op.pc = "call" /\ op.kind = "handshake" /\ MachineCall

RunShutdown == op.pc = "call" /\ op.kind = "shutdown" /\ MachineCall

-----------------------------------------------------------------------------
(* The transport. *)

(* The chunk is what the write BIO holds now. *)
submit_transport_write ==
  /\ IF env.token THEN Stopped
     ELSE /\ op' = [op EXCEPT !.pc = "write", !.chunk = eng.out, !.sent = 0]
          /\ UNCHANGED <<env, sig, ops>>
  /\ UNCHANGED errors

(* The room BIO_nwrite0() finds in the read BIO.  OpenSSL empties the BIO before
   it wants more, so there is always some when a transport read is submitted. *)
BIO_nwrite0 == InCap - Len(eng.inb)

submit_transport_read ==
  /\ clear_ssl_errors
  /\ IF BIO_nwrite0 <= 0 THEN Terminal(last_ssl_error(FALSE), FALSE)
     ELSE IF env.token THEN Stopped
     ELSE op' = [op EXCEPT !.pc = "read"] /\ UNCHANGED <<env, sig, ops>>

resume_after_flush ==
  IF op.after = "read" THEN submit_transport_read
  ELSE /\ IF op.after = "finish" THEN Terminal("ok", FALSE)
          ELSE Continue([op EXCEPT !.phase = "call"])
       /\ UNCHANGED errors

FlushStep ==
  /\ op.pc = "flush" /\ Stepwise
  /\ IF eng.out > 0 THEN submit_transport_write ELSE resume_after_flush
  /\ UNCHANGED eng

FlushMachine ==
  /\ op.pc = "flush" /\ ~Stepwise
  /\ IF eng.out > 0 THEN submit_transport_write ELSE resume_after_flush
  /\ UNCHANGED eng

(* The kernel takes the first records of the chunk. *)
TransportSends ==
  /\ op.pc = "write" /\ op.sent = 0
  /\ \E k \in 1 .. op.chunk :
       /\ op' = [op EXCEPT !.sent = k]
       /\ eng' = [eng EXCEPT !.skew = @ + k, !.garbled = @ \/ eng.skew # 0]
  /\ UNCHANGED <<errors, env, sig, ops>>

\* Mutant: a transport that ends reads as an orderly end.
zero_byte_as_end ==
  IF Stepwise /\ op.pc = "write" THEN "EPIPE" ELSE "ok"

(* The error a transport operation that moved nothing ends with. *)
zero_byte_error ==
  IF Stepwise /\ op.pc = "write" THEN "EPIPE" ELSE "ECONNRESET"

\* Mutant: a short transport write counts as the whole chunk.
WriteCompletesWhole ==
  /\ op.pc = "write" /\ op.sent > 0
  /\ clear_ssl_errors
  /\ eng' = [eng EXCEPT !.out = @ - op.chunk, !.skew = @ - op.chunk]
  /\ Continue([op EXCEPT !.phase = "flush"])

(* A transport write is over: BIO_nread() takes what was sent out of the BIO, an
   error if that is less, and the rest is flushed; a transport error or a closed
   peer ends the operation.                                                *)
WriteCompletes ==
  /\ op.pc = "write"
  /\ \/ LET consumed == IF op.sent <= eng.out THEN op.sent ELSE eng.out
        IN  /\ op.sent > 0
            /\ clear_ssl_errors
            /\ eng' = [eng EXCEPT !.out = @ - consumed, !.skew = @ - consumed]
            /\ IF consumed # op.sent THEN Terminal(last_ssl_error(FALSE), FALSE)
               ELSE Continue([op EXCEPT !.phase = "flush"])
     \/ /\ op.sent = 0
        /\ Terminal("EIO", FALSE) \/ Terminal(zero_byte_error, FALSE)
        /\ UNCHANGED <<eng, errors>>

(* What one transport read of at most k records can bring; the peer's goodbye is
   its last record.                                                        *)
Batches(k) ==
  {batch \in UNION {[1 .. j -> Records] : j \in 1 .. k} :
     \A i \in DOMAIN batch : batch[i] = "close" => i = Len(batch)}

\* Mutant: a failed transport read is tried again.
ReadCompletesAgain ==
  /\ op.pc = "read"
  /\ Continue([op EXCEPT !.phase = "call"])
  /\ UNCHANGED <<eng, errors>>

(* A transport read is over: BIO_nwrite() commits its records to the BIO, an
   error if not all of them, and the SSL call is made again; the end of the
   stream without a goodbye is an error.                                   *)
ReadCompletes ==
  /\ op.pc = "read"
  /\ \/ \E batch \in Batches(BIO_nwrite0) :
          LET committed == IF Len(batch) <= BIO_nwrite0 THEN Len(batch) ELSE BIO_nwrite0
          IN  /\ eng.came + Len(batch) <= MaxRecords /\ ~eng.closed
              /\ clear_ssl_errors
              /\ eng' = [eng EXCEPT !.inb = @ \o SubSeq(batch, 1, committed),
                                    !.came = @ + Len(batch)]
              /\ IF committed # Len(batch) THEN Terminal(last_ssl_error(FALSE), FALSE)
                 ELSE Continue([op EXCEPT !.phase = "call"])
     \/ Terminal("EIO", FALSE) /\ UNCHANGED <<eng, errors>>
     \/ Terminal(zero_byte_error, FALSE) /\ UNCHANGED <<eng, errors>>

(* The stopping context aborts a transport operation; what a write had sent is
   not reported.                                                           *)
TransportAborted ==
  /\ env.stopping /\ op.pc \in {"read", "write"}
  /\ eng' = [eng EXCEPT !.lost = @ \/ op.sent > 0]
  /\ IF env.token THEN Stopped ELSE Terminal("ECANCELED", TRUE)
  /\ UNCHANGED errors

\* Mutant: a stopping context overrides the staged result.
HandoffCanceled ==
  /\ op.pc = "post"
  /\ Over(op.aborted)
  /\ IF env.token \/ op.staged = "stopped" THEN Deliver("stopped", "ok", 0)
     ELSE Deliver("value", IF env.stopping THEN "ECANCELED" ELSE op.ec, 0)
  /\ UNCHANGED <<eng, errors>>

(* The scheduler runs the handoff: a cancelled token overrides what was staged,
   a stopped context does not.                                             *)
Handoff ==
  /\ op.pc = "post"
  /\ Over(op.aborted)
  /\ IF env.token \/ op.staged = "stopped" THEN Deliver("stopped", "ok", 0)
     ELSE Deliver("value", op.ec, 0)
  /\ UNCHANGED <<eng, errors>>

-----------------------------------------------------------------------------
CancelToken ==
  /\ op.pc # "idle" /\ ~env.token
  /\ env' = [env EXCEPT !.token = TRUE]
  /\ UNCHANGED <<eng, errors, op, sig, ops>>

StopContext ==
  /\ op.pc # "idle" /\ ~env.stopping
  /\ env' = [env EXCEPT !.stopping = TRUE]
  /\ UNCHANGED <<eng, errors, op, sig, ops>>

(* Every operation names its scheduler: after a stop, the next one is started on
   another context.                                                        *)
NextContext ==
  /\ op.pc = "idle" /\ env.stopping
  /\ env' = [env EXCEPT !.stopping = FALSE]
  /\ UNCHANGED <<eng, errors, op, sig, ops>>

(* Other work on the thread, or the move of the operation to another worker's
   thread, leaves entries in the queue that are none of the operation's.   *)
OtherWork ==
  /\ errors = "empty"
  /\ errors' = "leftover"
  /\ UNCHANGED <<eng, op, env, sig, ops>>

Program ==
  \/ StartMachine \/ StartIo \/ NextRound \/ RunApplication \/ RunHandshake \/ RunShutdown
  \/ FlushStep \/ FlushMachine \/ TransportAborted \/ Handoff

Kernel == TransportSends \/ WriteCompletes \/ ReadCompletes

Next ==
  \/ Program \/ Kernel \/ StartOperation
  \/ CancelToken \/ StopContext \/ NextContext \/ OtherWork

Spec == Init /\ [][Next]_vars

(* A started operation runs and a stopping context aborts its transport; the
   peer may stay silent for ever.                                          *)
FairSpec == Spec /\ WF_vars(Program)

-----------------------------------------------------------------------------
Succeeded == sig.signal = "value" /\ sig.ec = "ok"

(* The peer gets every record once and in order, over all operations on the
   stream, whatever is cancelled between them; the one exception is a write
   that was aborted by a context stop after it had sent.                   *)
WireInOrder ==
  /\ eng.garbled => eng.lost
  /\ ~eng.lost /\ op.pc # "write" => eng.skew = 0

(* Success means flushed: a handshake, a shutdown, and a read or write that moved
   bytes, leaves nothing in the write BIO when it succeeds, neither its own
   records nor the answers its calls gave the peer; and a write-all took the
   whole buffer.  A read that moved nothing because the peer said goodbye
   promises nothing: the code reports it without flushing.                 *)
FlushedOnSuccess ==
  op.pc = "idle" /\ Succeeded =>
    /\ sig.kind \in Machines \/ sig.bytes > 0 => eng.out = 0
    /\ sig.kind = "write" => sig.bytes = sig.size

(* An empty successful read means the peer said goodbye: a truncated stream is
   never reported as an orderly end.                                       *)
EofIsOrderly ==
  op.pc = "idle" /\ Succeeded /\ sig.kind = "read" /\ sig.bytes = 0 =>
    eng.closed \/ sig.size = 0

(* A TLS failure is the operation's own: no operation ends with an error that
   other work left in the queue of its thread, at any of the calls into OpenSSL
   and its BIOs, and none that only had to wait ends because of one.       *)
ErrorsAttributed == sig.ec # "leftover" /\ op.ec # "leftover"

(* Cancelled means cancelled: operation_canceled is reported only when a
   transport operation was aborted, and set_stopped only to a cancelled
   token; a result staged before the stop is delivered unchanged.          *)
CancelIsReal ==
  /\ sig.ec = "ECANCELED" => sig.aborted
  /\ op.pc = "idle" /\ sig.signal = "stopped" => env.token

(* A stopping context delivers: every operation on the stream ends although
   the peer never answers.                                                 *)
StopDelivers == env.stopping ~> (op.pc = "idle")
===============================================================================
