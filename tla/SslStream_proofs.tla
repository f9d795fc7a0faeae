--------------------------- MODULE SslStream_proofs ---------------------------
(***************************************************************************)
(* What an operation on an ssl_stream may tell its receiver, and what the   *)
(* wire carries, for any number of operations, any buffer sizes and any     *)
(* capacity of the BIOs.                                                    *)
(*                                                                          *)
(* The inductive invariant says what each control point of an operation     *)
(* knows: a transport write in progress has sent a prefix of the chunk and  *)
(* of nothing else, an operation that will finish after its flush has the   *)
(* bytes it will report, and a staged completion is one the receiver may    *)
(* get.  What OpenSSL makes of the records in the read BIO plays no part.   *)
(***************************************************************************)
EXTENDS SslStream, TLAPS

Codes == {"ok", "no_ssl_error", "tls", "EPIPE", "ECONNRESET", "EIO", "ECANCELED"}

\* A stream: the fields the SSL calls and the transport share.
Stream(e) ==
  e \in [valid : BOOLEAN, inb : {e.inb}, todo : {e.todo}, closed : BOOLEAN,
         told : BOOLEAN, out : Nat, skew : Int, garbled : BOOLEAN, lost : BOOLEAN,
         came : {e.came}]

Operations ==
  [kind : Kinds \cup {"none"}, size : Nat, bytes : Nat,
   pc : {"idle", "start", "round", "call", "flush", "read", "write", "post"},
   phase : {"call", "flush"}, after : {"call", "read", "finish"},
   chunk : Nat, sent : Nat, staged : {"value", "stopped"}, ec : Codes,
   aborted : BOOLEAN]

SigOK ==
  sig \in [kind : Kinds \cup {"none"}, size : Nat,
           signal : {"none", "value", "stopped"}, ec : Codes, bytes : Nat,
           aborted : BOOLEAN]

TypeInv ==
  /\ Stream(eng) /\ op \in Operations /\ SigOK
  /\ env \in [token : BOOLEAN, stopping : BOOLEAN] /\ ops \in Nat

\* What is on the wire but still in the write BIO is what the transport write in
\* progress has sent of its chunk, unless a stop lost count of one.
Wire ==
  /\ op.pc = "write" => op.chunk = eng.out /\ op.sent <= op.chunk
  /\ op.pc \notin {"write", "post"} => op.sent = 0
  /\ eng.garbled => eng.lost
  /\ ~eng.lost => eng.skew = IF op.pc = "write" THEN op.sent ELSE 0

\* The SSL call, or a transport read for it, comes next.
BeforeCall ==
  op.pc \in {"call", "read", "start"} \/ (op.pc = "round" /\ op.phase = "call")

\* An operation that finishes after its flush has something to report: a read the
\* bytes of its one successful call, a write-all its whole buffer.
Progress ==
  /\ BeforeCall => op.after # "finish"
  /\ op.kind \in Machines => op.size = 0
  /\ op.kind = "read" => (op.bytes > 0 <=> op.after = "finish")
  /\ op.kind \in {"write", "write_some"} => op.bytes <= op.size
  /\ op.kind = "write" /\ op.after = "finish" => op.bytes = op.size
  /\ op.pc # "idle" => op.kind # "none"

\* A staged completion of a handshake or shutdown.
Staged ==
  op.pc = "post" =>
    /\ op.kind \in Machines
    /\ op.staged = "stopped" => env.token
    /\ op.ec = "ECANCELED" => op.aborted
    /\ op.staged = "value" /\ op.ec = "ok" => eng.out = 0

Inv ==
  /\ TypeInv /\ Wire /\ Progress /\ Staged
  /\ FlushedOnSuccess /\ EofIsOrderly /\ CancelIsReal


(***************************************************************************)
(* What an SSL call can change.                                            *)
(***************************************************************************)
\* The wire and the goodbye of the stream e are those of f, or one goodbye later.
SameWire(e, f) ==
  /\ e.skew = f.skew /\ e.garbled = f.garbled /\ e.lost = f.lost
  /\ f.closed => e.closed

\* Processing control records changes neither the wire nor the peer's goodbye.
LEMMA SwallowedStream ==
  ASSUME Stream(eng)
  PROVE  Stream(Swallowed) /\ SameWire(Swallowed, eng) /\ Swallowed.closed = eng.closed
<1> DEFINE r == Rest
           d == IF eng.todo > Processed THEN eng.todo - Processed ELSE 0
<1>1. Swallowed = [eng EXCEPT !.inb = r, !.todo = d]
  BY DEF Swallowed
<1> HIDE DEF r, d
<1> QED
  BY <1>1, Zenon DEF Stream, SameWire

\* Neither does an answer to the peer, which is one more record in the write BIO.
LEMMA AnsweringStream ==
  ASSUME NEW x, Stream(x), NEW e \in Answering(x)
  PROVE  Stream(e) /\ SameWire(e, x) /\ e.closed = x.closed
  BY DEF Answering, Stream, SameWire

\* The same once a record was taken from the input, or the goodbye seen.
LEMMA TakenStream ==
  ASSUME NEW x, Stream(x), NEW e
  PROVE  /\ e = [x EXCEPT !.inb = Tail(@)] => Stream(e) /\ SameWire(e, x)
         /\ e = [x EXCEPT !.inb = Tail(@), !.closed = TRUE]
              => Stream(e) /\ SameWire(e, x) /\ e.closed
         /\ e = [x EXCEPT !.closed = TRUE] => Stream(e) /\ SameWire(e, x)
         /\ e = [x EXCEPT !.out = @ + 1] => Stream(e) /\ SameWire(e, x)
         /\ e = [x EXCEPT !.told = TRUE, !.out = @ + 1] => Stream(e) /\ SameWire(e, x)
<1>1. e = [x EXCEPT !.inb = Tail(@)] => Stream(e) /\ SameWire(e, x)
  BY DEF Stream, SameWire
<1>2. e = [x EXCEPT !.inb = Tail(@), !.closed = TRUE]
        => Stream(e) /\ SameWire(e, x) /\ e.closed
  BY Zenon DEF Stream, SameWire
<1>3. e = [x EXCEPT !.closed = TRUE] => Stream(e) /\ SameWire(e, x)
  BY Zenon DEF Stream, SameWire
<1>4. e = [x EXCEPT !.out = @ + 1] => Stream(e) /\ SameWire(e, x)
  BY DEF Stream, SameWire
<1>5. e = [x EXCEPT !.told = TRUE, !.out = @ + 1] => Stream(e) /\ SameWire(e, x)
  <2>1. ASSUME NEW n \in Nat, e = [x EXCEPT !.told = TRUE, !.out = n]
        PROVE  Stream(e) /\ SameWire(e, x)
    BY <2>1, Zenon DEF Stream, SameWire
  <2>2. x.out + 1 \in Nat
    BY DEF Stream
  <2> QED
    BY <2>1, <2>2, Zenon
<1> QED
  BY <1>1, <1>2, <1>3, <1>4, <1>5

\* An SSL call leaves the wire alone.  A read that succeeds moves 1 to size bytes and a
\* write 1 to what is left; a read that finds no more data has seen the goodbye.
LEMMA CallFacts ==
  ASSUME Stream(eng), NEW res, NEW n, NEW e, SslCall(res, n, e)
  PROVE  /\ Stream(e) /\ SameWire(e, eng)
         /\ op.kind = "read" /\ res = "ok" => n \in 1 .. op.size
         /\ op.kind = "read" /\ res = "zero" => e.closed
         /\ op.kind \in {"write", "write_some"} /\ res = "ok" => n \in 1 .. remaining
<1>1. Stream(Swallowed) /\ SameWire(Swallowed, eng) /\ Swallowed.closed = eng.closed
  BY SwallowedStream
<1>2. SameWire(eng, eng)
  BY DEF SameWire
<1>3. ASSUME NEW x, SameWire(x, Swallowed) PROVE SameWire(x, eng)
  BY <1>1, <1>3 DEF SameWire
<1>4. CASE op.kind = "handshake"
  <2>1. \/ e \in Answering(Swallowed) \/ e = eng
        \/ e = [Swallowed EXCEPT !.inb = Tail(@), !.closed = TRUE]
    BY <1>4 DEF SslCall, SSL_do_handshake
  <2> QED
    BY <1>1, <1>2, <1>3, <1>4, <2>1, AnsweringStream, TakenStream, Zenon
<1>5. CASE op.kind = "shutdown"
  <2>1. \/ e = [eng EXCEPT !.told = TRUE, !.out = @ + 1] \/ e = eng
        \/ e = [Swallowed EXCEPT !.closed = TRUE] \/ e = Swallowed
    BY <1>5 DEF SslCall, SSL_shutdown
  <2> QED
    BY <1>1, <1>2, <1>3, <1>5, <2>1, TakenStream, Zenon
<1>6. CASE op.kind = "read"
  <2>1. \/ /\ res = "ok" /\ n \in 1 .. op.size
           /\ e \in Answering([Swallowed EXCEPT !.inb = Tail(@)])
        \/ res = "want_read" /\ e \in Answering(Swallowed)
        \/ res \in {"want_write", "fail"} /\ e = eng
        \/ /\ res = "zero"
           /\ \/ e \in Answering([Swallowed EXCEPT !.inb = Tail(@), !.closed = TRUE])
              \/ eng.closed /\ e = Swallowed
    BY <1>6 DEF SslCall, SSL_read
  <2>2. ASSUME NEW x \in Answering([Swallowed EXCEPT !.inb = Tail(@)])
        PROVE  Stream(x) /\ SameWire(x, Swallowed)
    <3> DEFINE y == [Swallowed EXCEPT !.inb = Tail(@)]
    <3>1. Stream(y) /\ SameWire(y, Swallowed)
      BY <1>1, TakenStream, Zenon
    <3>2. Stream(x) /\ SameWire(x, y)
      BY <3>1, AnsweringStream
    <3> QED
      BY <3>1, <3>2 DEF SameWire
  <2>3. ASSUME NEW x \in Answering([Swallowed EXCEPT !.inb = Tail(@), !.closed = TRUE])
        PROVE  Stream(x) /\ SameWire(x, Swallowed) /\ x.closed
    <3> DEFINE y == [Swallowed EXCEPT !.inb = Tail(@), !.closed = TRUE]
    <3>1. Stream(y) /\ SameWire(y, Swallowed) /\ y.closed
      BY <1>1, TakenStream, Zenon
    <3>2. Stream(x) /\ SameWire(x, y) /\ x.closed = y.closed
      BY <3>1, AnsweringStream
    <3> QED
      BY <3>1, <3>2 DEF SameWire
  <2> QED
    BY <1>1, <1>2, <1>3, <1>6, <2>1, <2>2, <2>3, AnsweringStream, TakenStream, Zenon
<1>7. CASE op.kind \notin {"handshake", "shutdown", "read"}
  <2>1. /\ res = "ok" => n \in 1 .. remaining
        /\ e = [eng EXCEPT !.out = @ + 1] \/ e = eng \/ e = Swallowed
    BY <1>7 DEF SslCall, SSL_write
  <2> QED
    BY <1>1, <1>2, <1>7, <2>1, TakenStream, Zenon
<1> QED
  BY <1>4, <1>5, <1>6, <1>7


(***************************************************************************)
(* The three ways a step goes on.                                          *)
(***************************************************************************)
\* No transport write is in progress on the stream e.
AtRest(e) ==
  Stream(e) /\ (e.garbled => e.lost) /\ (~e.lost => e.skew = 0)

\* What an operation that goes on must know.
Sound(next) ==
  /\ next.kind = op.kind /\ next.size = op.size /\ next.aborted = op.aborted
  /\ next.phase = "call" => next.after # "finish"
  /\ next.kind = "read" => (next.bytes > 0 <=> next.after = "finish")
  /\ next.kind \in {"write", "write_some"} => next.bytes <= next.size
  /\ next.kind = "write" /\ next.after = "finish" => next.bytes = next.size

\* Another phase of the operation, with the wire at rest.
LEMMA ContinueKeeps ==
  ASSUME Inv, op.pc # "idle", AtRest(eng)', NEW next \in Operations, Sound(next),
         Continue(next)
  PROVE  Inv'
<1>1. /\ op' \in Operations /\ op'.pc \in {"round", "call", "flush"} /\ op'.sent = 0
      /\ op'.pc \in {"call", "flush"} => op'.pc = op'.phase
      /\ op'.kind = next.kind /\ op'.size = next.size /\ op'.bytes = next.bytes
      /\ op'.phase = next.phase /\ op'.after = next.after
  BY Zenon DEF Continue, Operations
<1>2. UNCHANGED <<env, sig, ops>>
  BY DEF Continue
<1>3. TypeInv'
  BY <1>1, <1>2 DEF Inv, TypeInv, AtRest, SigOK
<1>4. Wire'
  BY <1>1 DEF Wire, AtRest
<1>5. Progress'
  BY <1>1 DEF Inv, Progress, BeforeCall, Sound
<1>6. Staged' /\ FlushedOnSuccess' /\ EofIsOrderly' /\ CancelIsReal'
  BY <1>1, <1>2 DEF Inv, Staged, FlushedOnSuccess, EofIsOrderly, CancelIsReal
<1> QED
  BY <1>3, <1>4, <1>5, <1>6 DEF Inv

\* Success is told only after a flush, of what the operation has.
Deserved ==
  /\ op.kind \in Machines \/ op.bytes > 0 => eng'.out = 0
  /\ op.kind = "write" => op.bytes = op.size
  /\ op.kind = "read" /\ op.bytes = 0 => eng'.closed \/ op.size = 0

\* The operation is over with an error code, or with success it deserves.
LEMMA TerminalKeeps ==
  ASSUME Inv, op.pc \notin {"idle", "post"}, AtRest(eng)', NEW ec \in Codes,
         NEW aborted \in BOOLEAN, ec = "ECANCELED" => aborted, ec = "ok" => Deserved,
         Terminal(ec, aborted)
  PROVE  Inv'
<1>0. op \in Operations /\ op.kind \in Kinds /\ SigOK /\ Progress
  BY DEF Inv, TypeInv, Progress, Operations
<1>1. CASE Stepwise
  <2>1. /\ op' = [Idle EXCEPT !.aborted = aborted]
        /\ sig' = [kind |-> op.kind, size |-> op.size, signal |-> "value", ec |-> ec,
                   bytes |-> op.bytes, aborted |-> op'.aborted]
        /\ UNCHANGED <<env, ops>>
    BY <1>1 DEF Terminal, Over, Deliver
  <2>2. op' \in Operations /\ op'.pc = "idle" /\ op'.sent = 0 /\ op'.aborted = aborted
        /\ op'.kind = "none" /\ op'.bytes = 0 /\ op'.after = "call"
    BY <2>1 DEF Idle, Operations, Codes
  <2>3. SigOK' /\ sig'.kind = op.kind /\ sig'.size = op.size /\ sig'.signal = "value"
        /\ sig'.ec = ec /\ sig'.bytes = op.bytes /\ sig'.aborted = aborted
    BY <1>0, <2>1, <2>2 DEF SigOK, Operations
  <2>4. TypeInv' /\ Wire'
    BY <2>1, <2>2, <2>3 DEF Inv, TypeInv, Wire, AtRest
  <2>5. Progress' /\ Staged'
    BY <2>2 DEF Progress, BeforeCall, Staged, Machines
  <2>6. FlushedOnSuccess' /\ EofIsOrderly' /\ CancelIsReal'
    BY <2>3 DEF FlushedOnSuccess, EofIsOrderly, CancelIsReal, Succeeded, Deserved
  <2> QED
    BY <2>4, <2>5, <2>6 DEF Inv
<1>2. CASE ~Stepwise
  <2>1. /\ op' = [op EXCEPT !.pc = "post", !.staged = "value", !.ec = ec,
                            !.aborted = aborted]
        /\ UNCHANGED <<env, sig, ops>>
    BY <1>2 DEF Terminal, Post
  <2>2. /\ op' \in Operations /\ op'.pc = "post" /\ op'.staged = "value" /\ op'.ec = ec
        /\ op'.aborted = aborted /\ op'.kind = op.kind /\ op'.size = op.size
        /\ op'.bytes = op.bytes /\ op'.after = op.after
    BY <1>0, <2>1, Zenon DEF Operations
  <2>3. op.kind \in Machines
    BY <1>2 DEF Stepwise
  <2>4. TypeInv' /\ Wire'
    BY <2>1, <2>2 DEF Inv, TypeInv, Wire, AtRest, SigOK
  <2>5. Progress' /\ Staged'
    BY <1>0, <2>1, <2>2, <2>3 DEF Progress, BeforeCall, Staged, Deserved, Machines
  <2>6. FlushedOnSuccess' /\ EofIsOrderly' /\ CancelIsReal'
    BY <2>1, <2>2 DEF Inv, FlushedOnSuccess, EofIsOrderly, CancelIsReal
  <2> QED
    BY <2>4, <2>5, <2>6 DEF Inv
<1> QED
  BY <1>1, <1>2

\* The operation is over because its token is cancelled.
LEMMA StoppedKeeps ==
  ASSUME Inv, op.pc \notin {"idle", "post"}, AtRest(eng)', env.token, Stopped
  PROVE  Inv'
<1>0. op \in Operations /\ op.kind \in Kinds /\ SigOK /\ Progress
  BY DEF Inv, TypeInv, Progress, Operations
<1>1. CASE Stepwise
  <2>1. /\ op' = [Idle EXCEPT !.aborted = op.aborted]
        /\ sig' = [kind |-> op.kind, size |-> op.size, signal |-> "stopped", ec |-> "ok",
                   bytes |-> 0, aborted |-> op'.aborted]
        /\ UNCHANGED <<env, ops>>
    BY <1>1 DEF Stopped, Over, Deliver
  <2>2. op' \in Operations /\ op'.pc = "idle" /\ op'.sent = 0 /\ op'.aborted = op.aborted
        /\ op'.kind = "none" /\ op'.bytes = 0 /\ op'.after = "call"
    BY <1>0, <2>1 DEF Idle, Operations, Codes
  <2>3. SigOK' /\ sig'.signal = "stopped" /\ sig'.ec = "ok"
    BY <1>0, <2>1, <2>2 DEF SigOK, Operations, Codes
  <2>4. TypeInv' /\ Wire'
    BY <2>1, <2>2, <2>3 DEF Inv, TypeInv, Wire, AtRest
  <2>5. Progress' /\ Staged'
    BY <2>2 DEF Progress, BeforeCall, Staged, Machines
  <2>6. FlushedOnSuccess' /\ EofIsOrderly' /\ CancelIsReal'
    BY <2>1, <2>3 DEF FlushedOnSuccess, EofIsOrderly, CancelIsReal, Succeeded
  <2> QED
    BY <2>4, <2>5, <2>6 DEF Inv
<1>2. CASE ~Stepwise
  <2>1. /\ op' = [op EXCEPT !.pc = "post", !.staged = "stopped", !.ec = "ok",
                            !.aborted = op.aborted]
        /\ UNCHANGED <<env, sig, ops>>
    BY <1>2 DEF Stopped, Post
  <2>2. /\ op' \in Operations /\ op'.pc = "post" /\ op'.staged = "stopped" /\ op'.ec = "ok"
        /\ op'.kind = op.kind /\ op'.size = op.size
        /\ op'.bytes = op.bytes /\ op'.after = op.after
    BY <1>0, <2>1, Zenon DEF Operations, Codes
  <2>3. op.kind \in Machines
    BY <1>2 DEF Stepwise
  <2>4. TypeInv' /\ Wire'
    BY <2>1, <2>2 DEF Inv, TypeInv, Wire, AtRest, SigOK
  <2>5. Progress' /\ Staged'
    BY <1>0, <2>1, <2>2, <2>3 DEF Progress, BeforeCall, Staged, Machines
  <2>6. FlushedOnSuccess' /\ EofIsOrderly' /\ CancelIsReal'
    BY <2>1, <2>2 DEF Inv, FlushedOnSuccess, EofIsOrderly, CancelIsReal
  <2> QED
    BY <2>4, <2>5, <2>6 DEF Inv
<1> QED
  BY <1>1, <1>2


(***************************************************************************)
(* Every step keeps the invariant, one lemma per action or pair of them.   *)
(***************************************************************************)
\* Between transport writes the wire is at rest.
LEMMA RestsOutside ==
  ASSUME Inv, op.pc # "write"
  PROVE  AtRest(eng)
  BY DEF Inv, TypeInv, Wire, AtRest

\* The caller starts an operation.
LEMMA StartOperationKeeps ==
  ASSUME Inv, StartOperation
  PROVE  Inv'
<1>1. PICK kind \in Kinds, size \in 0 .. MaxSize :
        /\ kind \in Machines => size = 0
        /\ op' = [Idle EXCEPT !.kind = kind, !.size = size, !.pc = "start"]
  BY Zenon DEF StartOperation
<1>2. op.pc = "idle" /\ sig' = Nothing /\ ops' = ops + 1 /\ UNCHANGED eng
      /\ env' = [env EXCEPT !.token = FALSE]
  BY DEF StartOperation
<1>3. size \in Nat
  BY StreamAssumption
<1>4. /\ op' \in Operations /\ op'.kind = kind /\ op'.size = size /\ op'.pc = "start"
      /\ op'.after = "call" /\ op'.bytes = 0 /\ op'.sent = 0
  BY <1>1, <1>3, Zenon DEF Idle, Operations, Codes
<1>5. SigOK' /\ sig'.ec = "ok" /\ sig'.signal = "none"
  BY <1>2 DEF Nothing, SigOK, Codes
<1>6. TypeInv'
  <2>1. env' \in [token : BOOLEAN, stopping : BOOLEAN]
    BY <1>2, Zenon DEF Inv, TypeInv
  <2>2. Stream(eng)' /\ ops' \in Nat
    BY <1>2 DEF Inv, TypeInv, Stream
  <2> QED
    BY <1>4, <1>5, <2>1, <2>2 DEF TypeInv
<1>7. Wire'
  BY <1>2, <1>4 DEF Inv, Wire
<1>8. Progress' /\ Staged'
  BY <1>1, <1>3, <1>4 DEF Progress, BeforeCall, Staged, Kinds, Machines
<1>9. FlushedOnSuccess' /\ EofIsOrderly' /\ CancelIsReal'
  BY <1>4, <1>5 DEF FlushedOnSuccess, EofIsOrderly, CancelIsReal
<1> QED
  BY <1>6, <1>7, <1>8, <1>9 DEF Inv

\* The operation goes on to its SSL call from a point before it.
LEMMA GoesToCall ==
  ASSUME Inv, op.pc # "idle", AtRest(eng)', op.after # "finish",
         Continue([op EXCEPT !.phase = "call"])
  PROVE  Inv'
<1> DEFINE next == [op EXCEPT !.phase = "call"]
<1>1. op \in Operations /\ Progress
  BY DEF Inv, TypeInv
<1>2. /\ next \in Operations /\ next.kind = op.kind /\ next.size = op.size
      /\ next.aborted = op.aborted /\ next.bytes = op.bytes /\ next.after = op.after
  BY <1>1 DEF Operations
<1>3. Sound(next)
  BY <1>1, <1>2 DEF Sound, Progress
<1>4. Continue(next)
  OBVIOUS
<1> HIDE DEF next
<1> QED
  BY <1>2, <1>3, <1>4, ContinueKeeps

\* start() of a handshake or shutdown.
LEMMA StartMachineKeeps ==
  ASSUME Inv, StartMachine
  PROVE  Inv'
<1>1. op.pc = "start" /\ ~Stepwise /\ UNCHANGED eng
  BY DEF StartMachine
<1>2. AtRest(eng)'
  BY <1>1, RestsOutside DEF AtRest
<1>3. CASE env.token /\ Stopped
  BY <1>1, <1>2, <1>3, StoppedKeeps
<1>4. CASE Post("value", "no_ssl_error", FALSE)
  <2>1. Terminal("no_ssl_error", FALSE)
    BY <1>1, <1>4, Zenon DEF Terminal
  <2> QED
    BY <1>1, <1>2, <2>1, TerminalKeeps, Zenon DEF Codes
<1>5. CASE Continue([op EXCEPT !.phase = "call"])
  <2>1. op.after # "finish"
    BY <1>1 DEF Inv, Progress, BeforeCall
  <2> QED
    BY <1>1, <1>2, <1>5, <2>1, GoesToCall
<1> QED
  BY <1>3, <1>4, <1>5, Zenon DEF StartMachine

\* start() of a read or write: an empty buffer succeeds at once.
LEMMA StartIoKeeps ==
  ASSUME Inv, StartIo
  PROVE  Inv'
<1>1. op.pc = "start" /\ Stepwise /\ UNCHANGED eng
  BY DEF StartIo
<1>2. AtRest(eng)'
  BY <1>1, RestsOutside DEF AtRest
<1>3. CASE env.token /\ Stopped
  BY <1>1, <1>2, <1>3, StoppedKeeps
<1>4. CASE op.size = 0 /\ Terminal("ok", FALSE)
  <2>1. Deserved
    <3>1. op.bytes = 0
      BY <1>1, <1>4 DEF Stepwise, Inv, TypeInv, Progress, BeforeCall, Operations, Kinds,
                        Machines
    <3> QED
      BY <1>1, <1>4, <3>1 DEF Deserved, Stepwise
  <2> QED
    BY <1>1, <1>2, <1>4, <2>1, TerminalKeeps, Zenon DEF Codes
<1>5. CASE Continue([op EXCEPT !.phase = "call"])
  <2>1. op.after # "finish"
    BY <1>1 DEF Inv, Progress, BeforeCall
  <2> QED
    BY <1>1, <1>2, <1>5, <2>1, GoesToCall
<1> QED
  BY <1>3, <1>4, <1>5, Zenon DEF StartIo

\* A round begins.
LEMMA NextRoundKeeps ==
  ASSUME Inv, NextRound
  PROVE  Inv'
<1>1. op.pc = "round" /\ UNCHANGED eng
  BY DEF NextRound
<1>2. AtRest(eng)'
  BY <1>1, RestsOutside DEF AtRest
<1>3. CASE env.token /\ Stopped
  BY <1>1, <1>2, <1>3, StoppedKeeps
<1>4. CASE op' = [op EXCEPT !.pc = op.phase] /\ UNCHANGED <<env, sig, ops>>
  <2>1. op \in Operations /\ Progress /\ Wire
    BY DEF Inv, TypeInv
  <2>2. /\ op' \in Operations /\ op'.pc = op.phase /\ op'.kind = op.kind
        /\ op'.size = op.size /\ op'.bytes = op.bytes /\ op'.after = op.after
        /\ op'.phase = op.phase /\ op'.sent = op.sent /\ op.phase \in {"call", "flush"}
    BY <1>4, <2>1 DEF Operations
  <2>3. TypeInv' /\ Wire'
    BY <1>1, <1>4, <2>1, <2>2 DEF Inv, TypeInv, Wire, SigOK
  <2>4. Progress' /\ Staged'
    BY <1>1, <2>1, <2>2 DEF Progress, BeforeCall, Staged
  <2>5. FlushedOnSuccess' /\ EofIsOrderly' /\ CancelIsReal'
    BY <1>4, <2>2 DEF Inv, FlushedOnSuccess, EofIsOrderly, CancelIsReal
  <2> QED
    BY <2>3, <2>4, <2>5 DEF Inv
<1> QED
  BY <1>3, <1>4 DEF NextRound


\* A successful SSL_read or SSL_write goes on to its flush, and to the next call only
\* when a write-all has bytes left.
LEMMA SuccessKeeps ==
  ASSUME Inv, op.pc = "call", Stepwise, AtRest(eng)', NEW n,
         op.kind = "read" => n \in 1 .. op.size,
         Writes => n \in 1 .. remaining,
         handle_application_result(n)
  PROVE  Inv'
<1> DEFINE bytes == IF Writes THEN op.bytes + n ELSE n
           after == IF op.kind = "write" /\ bytes < op.size THEN "call" ELSE "finish"
           next == [op EXCEPT !.bytes = bytes, !.phase = "flush", !.after = after]
<1>1. op \in Operations /\ Progress
  BY DEF Inv, TypeInv
<1>2. op.kind \in {"read", "write", "write_some"} /\ op.size \in Nat /\ op.bytes \in Nat
  BY <1>1 DEF Operations, Progress, Stepwise, Kinds, Machines
<1>3. /\ bytes \in Nat \ {0} /\ after \in {"call", "finish"}
      /\ op.kind = "read" => after = "finish"
      /\ Writes => bytes <= op.size
      /\ op.kind = "write" /\ after = "finish" => bytes = op.size
  <2>1. CASE op.kind = "read"
    BY <1>2, <2>1 DEF Writes
  <2>2. CASE Writes
    <3>1. n \in Nat \ {0} /\ op.bytes + n <= op.size
      BY <1>2, <2>2 DEF remaining
    <3> QED
      BY <1>2, <2>2, <3>1 DEF Writes
  <2> QED
    BY <1>2, <2>1, <2>2 DEF Writes
<1>4. Continue(next)
  BY DEF handle_application_result
<1> HIDE DEF bytes, after
<1>5. /\ next \in Operations /\ next.kind = op.kind /\ next.size = op.size
      /\ next.aborted = op.aborted /\ next.bytes = bytes /\ next.after = after
      /\ next.phase = "flush"
  BY <1>1, <1>3, Zenon DEF Operations
<1> HIDE DEF next
<1>6. Sound(next)
  BY <1>3, <1>5 DEF Sound, Writes
<1> QED
  BY <1>4, <1>5, <1>6, ContinueKeeps

\* A call that wants the transport goes on to a flush, and then to a transport read or
\* to the same call.
LEMMA WantKeeps ==
  ASSUME Inv, op.pc = "call", AtRest(eng)', NEW after \in {"read", "call"},
         Continue([op EXCEPT !.phase = "flush", !.after = after])
  PROVE  Inv'
<1> DEFINE next == [op EXCEPT !.phase = "flush", !.after = after]
<1>1. op \in Operations /\ Progress /\ op.after # "finish"
  BY DEF Inv, TypeInv, Progress, BeforeCall
<1>2. /\ next \in Operations /\ next.kind = op.kind /\ next.size = op.size
      /\ next.aborted = op.aborted /\ next.bytes = op.bytes /\ next.after = after
      /\ next.phase = "flush"
  BY <1>1, Zenon DEF Operations
<1>3. Continue(next)
  OBVIOUS
<1> HIDE DEF next
<1>4. Sound(next)
  BY <1>1, <1>2 DEF Sound, Progress
<1> QED
  BY <1>2, <1>3, <1>4, ContinueKeeps

\* The code of a failed call is the call's own: the queue was cleared just before.
LEMMA OwnError ==
  ASSUME clear_ssl_errors, NEW recorded
  PROVE  last_ssl_error(recorded) \in {"tls", "no_ssl_error"}
  BY DEF last_ssl_error, clear_ssl_errors

\* run_application: one SSL call of a read or write.
LEMMA RunApplicationKeeps ==
  ASSUME Inv, RunApplication
  PROVE  Inv'
<1>1. op.pc = "call" /\ Stepwise /\ op.kind \in {"read", "write", "write_some"}
  BY DEF RunApplication, Inv, TypeInv, Operations, Progress, Stepwise, Kinds, Machines
<1>2. PICK res \in {"ok", "want_read", "want_write", "zero", "fail"},
           n \in 0 .. MaxSize, e \in Engines, recorded \in BOOLEAN :
        /\ SslCall(res, n, e)
        /\ eng' = e
        /\ IF res = "ok" THEN handle_application_result(n)
           ELSE step_handle_ssl_error(SSL_get_error(res), last_ssl_error(recorded))
  BY Zenon DEF RunApplication
<1>3. /\ Stream(e) /\ SameWire(e, eng)
      /\ op.kind = "read" /\ res = "ok" => n \in 1 .. op.size
      /\ op.kind = "read" /\ res = "zero" => e.closed
      /\ op.kind \in {"write", "write_some"} /\ res = "ok" => n \in 1 .. remaining
  BY <1>2, CallFacts DEF Inv, TypeInv
<1>4. AtRest(eng)'
  BY <1>1, <1>2, <1>3, RestsOutside DEF AtRest, SameWire
<1>5. CASE res = "ok"
  BY <1>1, <1>2, <1>3, <1>4, <1>5, SuccessKeeps DEF Writes
<1>6. CASE res # "ok"
  <2>0. clear_ssl_errors /\ SSL_get_error(res) = res
    BY DEF RunApplication, clear_ssl_errors, SSL_get_error
  <2>1. PICK error \in {"tls", "no_ssl_error"} : step_handle_ssl_error(res, error)
    BY <1>2, <1>6, <2>0, OwnError
  <2>2. \/ Continue([op EXCEPT !.phase = "flush", !.after = "read"])
        \/ Continue([op EXCEPT !.phase = "flush", !.after = "call"])
        \/ res = "zero" /\ Terminal(IF Writes THEN "EPIPE" ELSE "ok", FALSE)
        \/ Terminal(error, FALSE)
    BY <2>1, Zenon DEF step_handle_ssl_error
  <2>3. CASE Continue([op EXCEPT !.phase = "flush", !.after = "read"])
    BY <1>1, <1>4, <2>3, WantKeeps
  <2>4. CASE Continue([op EXCEPT !.phase = "flush", !.after = "call"])
    BY <1>1, <1>4, <2>4, WantKeeps
  <2>5. CASE res = "zero" /\ Terminal("EPIPE", FALSE)
    BY <1>1, <1>4, <2>5, TerminalKeeps, Zenon DEF Codes
  <2>6. CASE res = "zero" /\ ~Writes /\ Terminal("ok", FALSE)
    <3>1. op.kind = "read" /\ eng'.closed
      BY <1>1, <1>2, <1>3, <2>6 DEF Writes
    <3>2. op.bytes = 0
      BY <1>1, <3>1 DEF Inv, TypeInv, Operations, Progress, BeforeCall
    <3>3. Deserved
      BY <3>1, <3>2 DEF Deserved, Machines
    <3> QED
      BY <1>1, <1>4, <2>6, <3>3, TerminalKeeps, Zenon DEF Codes
  <2>7. CASE Terminal(error, FALSE)
    BY <1>1, <1>4, <2>7, TerminalKeeps, Zenon DEF Codes
  <2> QED
    BY <2>2, <2>3, <2>4, <2>5, <2>6, <2>7, Zenon
<1> QED
  BY <1>5, <1>6


\* One SSL call of a handshake or shutdown.
LEMMA MachineCallKeeps ==
  ASSUME Inv, op.pc = "call", op.kind \in Machines, MachineCall
  PROVE  Inv'
<1>1. PICK res \in {"ok", "again", "want_read", "want_write", "zero", "fail"},
           e \in Engines, recorded \in BOOLEAN :
        /\ SslCall(res, 0, e)
        /\ eng' = e
        /\ IF res \in {"ok", "again"}
           THEN Continue([op EXCEPT !.phase = "flush",
                            !.after = IF res = "ok" THEN "finish" ELSE "call"])
           ELSE handle_ssl_error(SSL_get_error(res), last_ssl_error(recorded))
  BY Zenon DEF MachineCall
<1>2. Stream(e) /\ SameWire(e, eng)
  BY <1>1, CallFacts DEF Inv, TypeInv
<1>3. AtRest(eng)'
  BY <1>1, <1>2, RestsOutside DEF AtRest, SameWire
<1>4. CASE res \in {"ok", "again"}
  <2> DEFINE after == IF res = "ok" THEN "finish" ELSE "call"
             next == [op EXCEPT !.phase = "flush", !.after = after]
  <2>1. op \in Operations /\ after \in {"finish", "call"} /\ Continue(next)
    BY <1>1, <1>4 DEF Inv, TypeInv
  <2> HIDE DEF after
  <2>2. /\ next \in Operations /\ next.kind = op.kind /\ next.size = op.size
        /\ next.aborted = op.aborted /\ next.phase = "flush"
    BY <2>1, Zenon DEF Operations
  <2> HIDE DEF next
  <2>3. Sound(next)
    BY <2>2 DEF Sound, Machines
  <2> QED
    BY <1>3, <2>1, <2>2, <2>3, ContinueKeeps
<1>5. CASE res \notin {"ok", "again"}
  <2>0. clear_ssl_errors /\ SSL_get_error(res) = res
    BY DEF MachineCall, clear_ssl_errors, SSL_get_error
  <2>1. PICK error \in {"tls", "no_ssl_error"} : handle_ssl_error(res, error)
    BY <1>1, <1>5, <2>0, OwnError
  <2>2. \/ Continue([op EXCEPT !.phase = "flush", !.after = "read"])
        \/ Continue([op EXCEPT !.phase = "flush", !.after = "call"])
        \/ Terminal(IF res = "zero" THEN "ECONNRESET" ELSE error, FALSE)
    BY <2>1, Zenon DEF handle_ssl_error
  <2>3. CASE Continue([op EXCEPT !.phase = "flush", !.after = "read"])
    BY <1>3, <2>3, WantKeeps
  <2>4. CASE Continue([op EXCEPT !.phase = "flush", !.after = "call"])
    BY <1>3, <2>4, WantKeeps
  <2>5. CASE Terminal("ECONNRESET", FALSE)
    BY <1>3, <2>5, TerminalKeeps, Zenon DEF Codes
  <2>6. CASE Terminal(error, FALSE)
    BY <1>3, <2>6, TerminalKeeps, Zenon DEF Codes
  <2> QED
    BY <2>2, <2>3, <2>4, <2>5, <2>6, Zenon
<1> QED
  BY <1>4, <1>5

\* The operation moves to another control point before its end, the stream unchanged.
LEMMA MoveKeeps ==
  ASSUME Inv, op.pc \in {"flush", "write"}, op' \in Operations,
         op'.pc \in {"read", "write"},
         op'.kind = op.kind, op'.size = op.size, op'.bytes = op.bytes,
         op'.after = op.after,
         op'.pc = "read" => op.after # "finish",
         Stream(eng)', Wire', UNCHANGED <<env, sig, ops>>
  PROVE  Inv'
<1>1. TypeInv'
  BY DEF Inv, TypeInv, SigOK
<1>2. Progress' /\ Staged'
  BY DEF Inv, Progress, BeforeCall, Staged
<1>3. FlushedOnSuccess' /\ EofIsOrderly' /\ CancelIsReal'
  BY DEF Inv, FlushedOnSuccess, EofIsOrderly, CancelIsReal
<1> QED
  BY <1>1, <1>2, <1>3 DEF Inv

\* submit_transport_write: a transport write of what the write BIO holds.
LEMMA SubmitWriteKeeps ==
  ASSUME Inv, op.pc = "flush", UNCHANGED eng, submit_transport_write
  PROVE  Inv'
<1>1. AtRest(eng)'
  BY RestsOutside DEF AtRest
<1>2. CASE env.token /\ Stopped
  BY <1>1, <1>2, StoppedKeeps
<1>3. CASE /\ op' = [op EXCEPT !.pc = "write", !.chunk = eng.out, !.sent = 0]
           /\ UNCHANGED <<env, sig, ops>>
  <2>1. op \in Operations /\ eng.out \in Nat
    BY DEF Inv, TypeInv, Stream
  <2>2. /\ op' \in Operations /\ op'.pc = "write" /\ op'.chunk = eng.out /\ op'.sent = 0
        /\ op'.kind = op.kind /\ op'.size = op.size /\ op'.bytes = op.bytes
        /\ op'.after = op.after
    BY <1>3, <2>1, Zenon DEF Operations
  <2>3. Wire'
    BY <1>1, <2>1, <2>2 DEF Wire, AtRest
  <2> QED
    BY <1>1, <1>3, <2>2, <2>3, MoveKeeps DEF AtRest
<1> QED
  BY <1>2, <1>3 DEF submit_transport_write

\* What follows a flush: the transport read, the end, or the call again.
LEMMA ResumeKeeps ==
  ASSUME Inv, op.pc = "flush", eng.out = 0, UNCHANGED eng, resume_after_flush
  PROVE  Inv'
<1>1. AtRest(eng)'
  BY RestsOutside DEF AtRest
<1>2. CASE op.after = "read" /\ submit_transport_read
  <2>1. CASE Terminal(last_ssl_error(FALSE), FALSE)
    <3>1. PICK error \in {"tls", "no_ssl_error"} : Terminal(error, FALSE)
      BY <1>2, <2>1, OwnError, Zenon DEF submit_transport_read
    <3> QED
      BY <1>1, <3>1, TerminalKeeps, Zenon DEF Codes
  <2>2. CASE env.token /\ Stopped
    BY <1>1, <2>2, StoppedKeeps
  <2>3. CASE op' = [op EXCEPT !.pc = "read"] /\ UNCHANGED <<env, sig, ops>>
    <3>1. op \in Operations /\ Wire
      BY DEF Inv, TypeInv
    <3>2. /\ op' \in Operations /\ op'.pc = "read" /\ op'.sent = op.sent
          /\ op'.kind = op.kind /\ op'.size = op.size /\ op'.bytes = op.bytes
          /\ op'.after = op.after
      BY <2>3, <3>1 DEF Operations
    <3>3. Wire'
      BY <1>1, <3>1, <3>2 DEF Wire, AtRest
    <3> QED
      BY <1>1, <1>2, <2>3, <3>2, <3>3, MoveKeeps DEF AtRest
  <2> QED
    BY <1>2, <2>1, <2>2, <2>3, Zenon DEF submit_transport_read
<1>3. CASE op.after = "finish" /\ Terminal("ok", FALSE)
  <2>1. Deserved
    BY <1>3 DEF Deserved, Inv, TypeInv, Stream, Operations, Progress
  <2> QED
    BY <1>1, <1>3, <2>1, TerminalKeeps, Zenon DEF Codes
<1>4. CASE op.after # "finish" /\ Continue([op EXCEPT !.phase = "call"])
  BY <1>1, <1>4, GoesToCall
<1> QED
  BY <1>2, <1>3, <1>4, Zenon DEF resume_after_flush


\* The kernel takes a prefix of the chunk.
LEMMA TransportSendsKeeps ==
  ASSUME Inv, TransportSends
  PROVE  Inv'
<1>1. op.pc = "write" /\ op.sent = 0 /\ UNCHANGED <<env, sig, ops>>
  BY DEF TransportSends
<1>2. PICK k \in 1 .. op.chunk :
        /\ op' = [op EXCEPT !.sent = k]
        /\ eng' = [eng EXCEPT !.skew = @ + k, !.garbled = @ \/ eng.skew # 0]
  BY Zenon DEF TransportSends
<1>3. op \in Operations /\ Stream(eng) /\ Wire /\ op.chunk \in Nat /\ k \in Nat
  BY DEF Inv, TypeInv, Operations
<1>4. /\ op' \in Operations /\ op'.pc = "write" /\ op'.chunk = op.chunk /\ op'.sent = k
      /\ op'.kind = op.kind /\ op'.size = op.size /\ op'.bytes = op.bytes
      /\ op'.after = op.after
  BY <1>1, <1>2, <1>3 DEF Operations
<1>5. /\ Stream(eng)' /\ eng'.out = eng.out /\ eng'.skew = eng.skew + k
      /\ eng'.garbled = (eng.garbled \/ eng.skew # 0) /\ eng'.lost = eng.lost
  <2> DEFINE s == eng.skew + k
             g == eng.garbled \/ eng.skew # 0
  <2>1. s \in Int /\ g \in BOOLEAN
    BY <1>3 DEF Stream
  <2>2. eng' = [eng EXCEPT !.skew = s, !.garbled = g]
    BY <1>2
  <2> HIDE DEF s, g
  <2>3. Stream(eng)' /\ eng'.out = eng.out /\ eng'.skew = s /\ eng'.garbled = g
        /\ eng'.lost = eng.lost
    BY <1>3, <2>1, <2>2, Zenon DEF Stream
  <2> QED
    BY <2>3 DEF s, g
<1>6. Wire'
  <2>1. eng.skew # 0 => eng.lost
    BY <1>1, <1>3 DEF Wire
  <2>2. eng'.garbled => eng'.lost
    BY <1>3, <1>5, <2>1, Zenon DEF Wire
  <2>3. ~eng'.lost => eng'.skew = op'.sent
    BY <1>4, <1>5, <2>1, <1>3
  <2>4. op'.chunk = eng'.out /\ op'.sent <= op'.chunk
    BY <1>1, <1>3, <1>4, <1>5 DEF Wire
  <2> QED
    BY <1>4, <2>2, <2>3, <2>4 DEF Wire
<1> QED
  BY <1>1, <1>4, <1>5, <1>6, MoveKeeps

\* A transport write is over.
LEMMA WriteCompletesKeeps ==
  ASSUME Inv, WriteCompletes
  PROVE  Inv'
<1>1. op.pc = "write" /\ op \in Operations /\ Stream(eng) /\ Wire /\ Progress
  BY DEF WriteCompletes, Inv, TypeInv
<1> DEFINE consumed == IF op.sent <= eng.out THEN op.sent ELSE eng.out
<1>2. CASE /\ op.sent > 0
           /\ eng' = [eng EXCEPT !.out = @ - consumed, !.skew = @ - consumed]
           /\ IF consumed # op.sent THEN Terminal(last_ssl_error(FALSE), FALSE)
              ELSE Continue([op EXCEPT !.phase = "flush"])
  <2>0. consumed = op.sent
    BY <1>1 DEF Wire, Operations, Stream
  <2> HIDE DEF consumed
  <2> DEFINE o == eng.out - op.sent
             s == eng.skew - op.sent
             next == [op EXCEPT !.phase = "flush"]
  <2>1. o \in Nat /\ s \in Int /\ (~eng.lost => s = 0)
    BY <1>1 DEF Wire, Operations, Stream
  <2>2. eng' = [eng EXCEPT !.out = o, !.skew = s]
    BY <1>2, <2>0
  <2>3. Continue(next)
    BY <1>2, <2>0
  <2> HIDE DEF o, s
  <2>4. Stream(eng)' /\ eng'.skew = s /\ eng'.garbled = eng.garbled /\ eng'.lost = eng.lost
    BY <1>1, <2>1, <2>2, Zenon DEF Stream
  <2>5. AtRest(eng)'
    BY <1>1, <2>1, <2>4 DEF AtRest, Wire
  <2>6. /\ next \in Operations /\ next.kind = op.kind /\ next.size = op.size
        /\ next.aborted = op.aborted /\ next.bytes = op.bytes /\ next.after = op.after
        /\ next.phase = "flush"
    BY <1>1 DEF Operations
  <2> HIDE DEF next
  <2>7. Sound(next)
    BY <1>1, <2>6 DEF Sound, Progress
  <2> QED
    BY <1>1, <2>3, <2>5, <2>6, <2>7, ContinueKeeps
<1>3. CASE /\ op.sent = 0
           /\ Terminal("EIO", FALSE) \/ Terminal(zero_byte_error, FALSE)
           /\ UNCHANGED eng
  <2>1. AtRest(eng)'
    BY <1>1, <1>3 DEF Wire, AtRest
  <2>2. PICK ec \in {"EIO", "EPIPE", "ECONNRESET"} : Terminal(ec, FALSE)
    BY <1>3, Zenon DEF zero_byte_error
  <2> QED
    BY <1>1, <2>1, <2>2, TerminalKeeps, Zenon DEF Codes
<1> QED
  BY <1>2, <1>3, Zenon DEF WriteCompletes

\* A transport read is over.
LEMMA ReadCompletesKeeps ==
  ASSUME Inv, ReadCompletes
  PROVE  Inv'
<1>1. op.pc = "read" /\ AtRest(eng) /\ op.after # "finish"
  BY RestsOutside, Zenon DEF ReadCompletes, Inv, Progress, BeforeCall
<1>2. ASSUME NEW i, NEW c, eng' = [eng EXCEPT !.inb = i, !.came = c], clear_ssl_errors,
             Terminal(last_ssl_error(FALSE), FALSE) \/ Continue([op EXCEPT !.phase = "call"])
      PROVE  Inv'
  <2>1. AtRest(eng)'
    BY <1>1, <1>2, Zenon DEF AtRest, Stream
  <2>2. CASE Terminal(last_ssl_error(FALSE), FALSE)
    <3>1. PICK error \in {"tls", "no_ssl_error"} : Terminal(error, FALSE)
      BY <1>2, <2>2, OwnError, Zenon
    <3> QED
      BY <1>1, <2>1, <3>1, TerminalKeeps, Zenon DEF Codes
  <2>3. CASE Continue([op EXCEPT !.phase = "call"])
    BY <1>1, <2>1, <2>3, GoesToCall
  <2> QED
    BY <1>2, <2>2, <2>3
<1>3. CASE /\ Terminal("EIO", FALSE) \/ Terminal(zero_byte_error, FALSE)
           /\ UNCHANGED eng
  <2>1. AtRest(eng)'
    BY <1>1, <1>3 DEF AtRest
  <2>2. PICK ec \in {"EIO", "EPIPE", "ECONNRESET"} : Terminal(ec, FALSE)
    BY <1>3, Zenon DEF zero_byte_error
  <2> QED
    BY <1>1, <2>1, <2>2, TerminalKeeps, Zenon DEF Codes
<1> QED
  BY <1>2, <1>3, Zenon DEF ReadCompletes

\* The stopping context aborts a transport operation; the stream remembers that the
\* count of a write that had sent is lost.
LEMMA TransportAbortedKeeps ==
  ASSUME Inv, TransportAborted
  PROVE  Inv'
<1>1. /\ op.pc \in {"read", "write"} /\ eng' = [eng EXCEPT !.lost = @ \/ op.sent > 0]
      /\ Stream(eng) /\ Wire /\ op \in Operations
  BY DEF TransportAborted, Inv, TypeInv
<1>2. AtRest(eng)'
  <2> DEFINE l == eng.lost \/ op.sent > 0
  <2>1. l \in BOOLEAN /\ eng' = [eng EXCEPT !.lost = l]
    BY <1>1
  <2>2. (eng.garbled => l) /\ (~l => eng.skew = 0)
    BY <1>1 DEF Wire, Operations
  <2> HIDE DEF l
  <2>3. Stream(eng)' /\ eng'.skew = eng.skew /\ eng'.garbled = eng.garbled /\ eng'.lost = l
    BY <1>1, <2>1 DEF Stream
  <2> QED
    BY <2>2, <2>3 DEF AtRest
<1>3. CASE env.token /\ Stopped
  BY <1>1, <1>2, <1>3, StoppedKeeps
<1>4. CASE Terminal("ECANCELED", TRUE)
  BY <1>1, <1>2, <1>4, TerminalKeeps, Zenon DEF Codes
<1> QED
  BY <1>3, <1>4, Zenon DEF TransportAborted


\* The scheduler runs the handoff of a staged completion.
LEMMA HandoffKeeps ==
  ASSUME Inv, Handoff
  PROVE  Inv'
<1>1. /\ op.pc = "post" /\ op' = [Idle EXCEPT !.aborted = op.aborted]
      /\ UNCHANGED <<env, ops, eng>> /\ op \in Operations /\ Staged /\ Progress
  BY DEF Handoff, Over, Deliver, Inv, TypeInv
<1>2. AtRest(eng)'
  BY <1>1, RestsOutside DEF AtRest
<1>3. op' \in Operations /\ op'.pc = "idle" /\ op'.sent = 0 /\ op'.aborted = op.aborted
      /\ op'.kind = "none" /\ op'.bytes = 0 /\ op'.after = "call"
  BY <1>1 DEF Idle, Operations, Codes
<1>4. Wire' /\ Progress' /\ Staged'
  BY <1>2, <1>3 DEF Wire, AtRest, Progress, BeforeCall, Staged, Machines
<1>5. CASE /\ env.token \/ op.staged = "stopped"
           /\ Deliver("stopped", "ok", 0)
  <2>1. sig' = [kind |-> op.kind, size |-> op.size, signal |-> "stopped", ec |-> "ok",
                bytes |-> 0, aborted |-> op'.aborted]
    BY <1>5 DEF Deliver
  <2>2. SigOK' /\ sig'.signal = "stopped" /\ sig'.ec = "ok"
    BY <1>1, <1>3, <2>1 DEF SigOK, Operations, Codes
  <2>3. env'.token
    BY <1>1, <1>5 DEF Staged
  <2>4. FlushedOnSuccess' /\ EofIsOrderly' /\ CancelIsReal'
    BY <2>2, <2>3 DEF FlushedOnSuccess, EofIsOrderly, CancelIsReal, Succeeded
  <2>5. TypeInv'
    BY <1>1, <1>2, <1>3, <2>2 DEF Inv, TypeInv, AtRest
  <2> QED
    BY <1>4, <2>4, <2>5 DEF Inv
<1>6. CASE op.staged # "stopped" /\ Deliver("value", op.ec, 0)
  <2>1. sig' = [kind |-> op.kind, size |-> op.size, signal |-> "value", ec |-> op.ec,
                bytes |-> 0, aborted |-> op'.aborted]
    BY <1>6 DEF Deliver
  <2>2. SigOK' /\ sig'.signal = "value" /\ sig'.ec = op.ec /\ sig'.kind = op.kind
        /\ sig'.aborted = op.aborted
    BY <1>1, <1>3, <2>1 DEF SigOK, Operations, Codes
  <2>3. /\ op.kind \in Machines /\ (op.ec = "ECANCELED" => op.aborted)
        /\ op.ec = "ok" => eng'.out = 0
    BY <1>1, <1>6 DEF Staged, Operations
  <2>4. FlushedOnSuccess' /\ EofIsOrderly' /\ CancelIsReal'
    BY <2>2, <2>3 DEF FlushedOnSuccess, EofIsOrderly, CancelIsReal, Succeeded, Machines
  <2>5. TypeInv'
    BY <1>1, <1>2, <1>3, <2>2 DEF Inv, TypeInv, AtRest
  <2> QED
    BY <1>4, <2>4, <2>5 DEF Inv
<1> QED
  BY <1>5, <1>6 DEF Handoff

\* The token, the context or the thread's error queue changes, and nothing else.
LEMMA EnvironmentKeeps ==
  ASSUME Inv, CancelToken \/ StopContext \/ NextContext \/ OtherWork
  PROVE  Inv'
<1>1. UNCHANGED <<eng, op, sig, ops>>
  BY DEF CancelToken, StopContext, NextContext, OtherWork
<1>2. env' \in [token : BOOLEAN, stopping : BOOLEAN]
  BY Zenon DEF CancelToken, StopContext, NextContext, OtherWork, Inv, TypeInv
<1>3. env.token => env'.token
  BY Zenon DEF CancelToken, StopContext, NextContext, OtherWork, Inv, TypeInv
<1>4. TypeInv'
  BY <1>1, <1>2 DEF Inv, TypeInv, Stream, SigOK
<1>5. Wire'
  BY <1>1 DEF Inv, Wire
<1>6. Progress' /\ Staged'
  BY <1>1, <1>3 DEF Inv, Progress, BeforeCall, Staged
<1>7. FlushedOnSuccess' /\ EofIsOrderly' /\ CancelIsReal'
  BY <1>1, <1>3 DEF Inv, FlushedOnSuccess, EofIsOrderly, CancelIsReal, Succeeded
<1> QED
  BY <1>4, <1>5, <1>6, <1>7 DEF Inv

\* A new stream, with or without an SSL object.
LEMMA InvInit ==
  ASSUME Init
  PROVE  Inv
<1>1. /\ Stream(eng) /\ eng.skew = 0 /\ ~eng.garbled
  <2>1. Stream(FreshStream) /\ FreshStream.skew = 0 /\ ~FreshStream.garbled
    BY DEF FreshStream, Stream
  <2>2. CASE eng = [FreshStream EXCEPT !.valid = FALSE]
    BY <2>1, <2>2, Zenon DEF Stream
  <2> QED
    BY <2>1, <2>2 DEF Init
<1>2. /\ op \in Operations /\ op.pc = "idle" /\ op.sent = 0 /\ op.kind = "none"
  BY DEF Init, Idle, Operations, Codes
<1>3. SigOK /\ sig.signal = "none" /\ sig.ec = "ok"
  BY DEF Init, Nothing, SigOK, Codes
<1>4. env \in [token : BOOLEAN, stopping : BOOLEAN] /\ ops \in Nat
  BY DEF Init
<1>5. Progress /\ Staged
  BY <1>2 DEF Progress, BeforeCall, Staged, Machines
<1>6. FlushedOnSuccess /\ EofIsOrderly /\ CancelIsReal
  BY <1>3 DEF FlushedOnSuccess, EofIsOrderly, CancelIsReal, Succeeded
<1> QED
  BY <1>1, <1>2, <1>3, <1>4, <1>5, <1>6 DEF Inv, TypeInv, Wire

\* No step, of the program, the kernel, the caller or the context, breaks the invariant.
LEMMA InvStep ==
  ASSUME Inv, [Next]_vars
  PROVE  Inv'
<1>1. CASE StartOperation
  BY <1>1, StartOperationKeeps
<1>2. CASE StartMachine
  BY <1>2, StartMachineKeeps
<1>3. CASE StartIo
  BY <1>3, StartIoKeeps
<1>4. CASE NextRound
  BY <1>4, NextRoundKeeps
<1>5. CASE RunApplication
  BY <1>5, RunApplicationKeeps
<1>6. CASE RunHandshake \/ RunShutdown
  BY <1>6, MachineCallKeeps DEF RunHandshake, RunShutdown, Machines
<1>7. CASE FlushStep \/ FlushMachine
  <2>1. /\ op.pc = "flush" /\ UNCHANGED eng /\ eng.out \in Nat
        /\ IF eng.out > 0 THEN submit_transport_write ELSE resume_after_flush
    BY <1>7 DEF FlushStep, FlushMachine, Inv, TypeInv, Stream
  <2> QED
    BY <2>1, SubmitWriteKeeps, ResumeKeeps
<1>8. CASE TransportSends
  BY <1>8, TransportSendsKeeps
<1>9. CASE WriteCompletes
  BY <1>9, WriteCompletesKeeps
<1>10. CASE ReadCompletes
  BY <1>10, ReadCompletesKeeps
<1>11. CASE TransportAborted
  BY <1>11, TransportAbortedKeeps
<1>12. CASE Handoff
  BY <1>12, HandoffKeeps
<1>13. CASE CancelToken \/ StopContext \/ NextContext \/ OtherWork
  BY <1>13, EnvironmentKeeps
<1>14. CASE UNCHANGED vars
  <2>1. UNCHANGED <<eng, op, env, sig, ops>>
    BY <1>14 DEF vars
  <2> QED
    BY <2>1 DEF Inv, TypeInv, Stream, SigOK, Wire, Progress, BeforeCall, Staged,
             FlushedOnSuccess, EofIsOrderly, CancelIsReal, Succeeded
<1> QED
  BY <1>1, <1>2, <1>3, <1>4, <1>5, <1>6, <1>7, <1>8, <1>9, <1>10, <1>11, <1>12, <1>13,
     <1>14 DEF Next, Program, Kernel

(***************************************************************************)
(* The theorems.                                                           *)
(***************************************************************************)
\* At every control point of every operation on the stream.
THEOREM StreamInvariant == Spec => []Inv
<1>1. Init => Inv
  BY InvInit
<1>2. Inv /\ [Next]_vars => Inv'
  BY InvStep
<1> QED
  BY <1>1, <1>2, PTL DEF Spec

\* The peer gets every record once and in order, across all operations on the stream:
\* what is flushed leaves the write BIO by exactly what the transport took, also when
\* an operation is cancelled, except after a context stop aborted a write that had sent.
THEOREM WireInOrderCorrect == Spec => []WireInOrder
<1>1. Inv => WireInOrder
  BY DEF Inv, Wire, WireInOrder
<1> QED
  BY <1>1, StreamInvariant, PTL

\* A handshake, a shutdown and a read or write that moved bytes succeed only with the
\* write BIO empty, and a write-all only with the whole buffer taken.
THEOREM FlushedOnSuccessCorrect == Spec => []FlushedOnSuccess
<1>1. Inv => FlushedOnSuccess
  BY DEF Inv
<1> QED
  BY <1>1, StreamInvariant, PTL

\* A read reports the end of the stream only after the peer's goodbye.
THEOREM EofIsOrderlyCorrect == Spec => []EofIsOrderly
<1>1. Inv => EofIsOrderly
  BY DEF Inv
<1> QED
  BY <1>1, StreamInvariant, PTL

\* No operation reports, or is ended by, an error that other work left in the queue of
\* the thread: whatever is in the queue before a step, the step clears it before each
\* call whose error it may report.
THEOREM ErrorsAttributedCorrect == Spec => []ErrorsAttributed
<1>1. Inv => ErrorsAttributed
  BY DEF Inv, TypeInv, SigOK, Operations, Codes, ErrorsAttributed
<1> QED
  BY <1>1, StreamInvariant, PTL

\* operation_canceled follows an aborted transport operation, and set_stopped a token
\* that was cancelled.
THEOREM CancelIsRealCorrect == Spec => []CancelIsReal
<1>1. Inv => CancelIsReal
  BY DEF Inv
<1> QED
  BY <1>1, StreamInvariant, PTL
===============================================================================
