---------------------- MODULE IoContextDelivery_proofs ----------------------
(***************************************************************************)
(* No operation is lost and none is handed out twice, for any number of     *)
(* workers, publishers, stoppers and operations, with rings that fail,      *)
(* receivers that start other operations and receivers that call stop().    *)
(*                                                                          *)
(* The inductive invariant counts the places that hold an operation in two  *)
(* groups: those every thread can reach, and those of one worker.  A step   *)
(* of worker w conserves the count of the first group plus that of w and    *)
(* leaves the other workers' places alone.  The hand-overs that replace a   *)
(* list instead of extending it (a worker's batch, the list the stopping    *)
(* thread took) conserve it because the replaced list is empty there.       *)
(***************************************************************************)
EXTENDS IoContext_proofs

In(op, S) == IF op \in S THEN 1 ELSE 0

\* Where op waits for a worker, and where it waits as a timer.
Queued(op) == In(op, idle) + In(op, cpuQ) + In(op, ioQ)

Timed(op) == In(op, waits) + In(op, ready)

\* The places of op outside the workers, its completion counted as one.
Outside(op) == Queued(op) + Timed(op) + In(op, taken) + completed[op]

\* The places of op in worker w.
OwnQueue(op, w) == In(op, localCpu[w]) + In(op, localIo[w])

OwnRing(op, w) == In(op, retry[w]) + In(op, inflight[w])

Own(op, w) == OwnQueue(op, w) + OwnRing(op, w) + In(op, batch[w])

Single(op) ==
  \/ Outside(op) = 1 /\ \A w \in Workers : Own(op, w) = 0
  \/ /\ Outside(op) = 0
     /\ \E w \in Workers : Own(op, w) = 1 /\ \A v \in Workers \ {w} : Own(op, v) = 0

Executing == {"exec", "exec1", "exec3"}

\* A worker holds a batch only while execute_tasks() runs.
BatchesRun == \A w \in Workers : st[w] \notin Executing => batch[w] = {}

\* The kernel completes what it was given.
CqesInflight == \A w \in Workers : cqes[w] \subseteq inflight[w]

\* Where the thread that won the stop_requested CAS can be.
Draining == {"cpu", "xcpu", "io", "xio", "tmr", "xtmr"}

Elected == {"abort", "publish", "wake", "wait"} \cup Draining

\* One thread stops the context, and it takes a list only when the one it took
\* before is empty.
OneStopper ==
  /\ \A t, u \in Workers \cup Stoppers : spc[t] \in Elected /\ spc[u] \in Elected => t = u
  /\ \A t \in Workers \cup Stoppers : spc[t] \in Elected => stopReq
  /\ \A t \in Workers \cup Stoppers :
       spc[t] \in Elected \ {"xcpu", "xio", "xtmr"} => taken = {}
  /\ ~stopReq => taken = {}

PlaceInv == (\A op \in Ops : Single(op)) /\ BatchesRun /\ CqesInflight /\ OneStopper

(***************************************************************************)
(* Counting places.                                                        *)
(***************************************************************************)
\* A place counts once or not at all.
LEMMA InSays ==
  ASSUME NEW op
  PROVE  \A S : /\ In(op, S) \in Nat
                /\ (op \in S <=> In(op, S) = 1) /\ (op \notin S <=> In(op, S) = 0)
BY DEF In

\* A worker that holds nothing of op counts 0 in each of its places.
LEMMA OwnNothing ==
  ASSUME NEW op, NEW w, Own(op, w) = 0
  PROVE  /\ In(op, localCpu[w]) = 0 /\ In(op, localIo[w]) = 0 /\ In(op, retry[w]) = 0
         /\ In(op, inflight[w]) = 0 /\ In(op, batch[w]) = 0
<1> DEFINE a == In(op, localCpu[w])
           b == In(op, localIo[w])
           c == In(op, retry[w])
           d == In(op, inflight[w])
           e == In(op, batch[w])
<1>1. a \in Nat /\ b \in Nat /\ c \in Nat /\ d \in Nat /\ e \in Nat
  BY InSays
<1>2. (a + b) + (c + d) + e = 0
  BY Zenon DEF Own, OwnQueue, OwnRing
<1>3. a = 0 /\ b = 0 /\ c = 0 /\ d = 0 /\ e = 0
  <2> HIDE DEF a, b, c, d, e
  <2> QED
    BY <1>1, <1>2
<1> QED
  BY <1>3

\* The counts are natural numbers.
LEMMA CountsNat ==
  ASSUME PlacesOK, NEW op \in Ops
  PROVE  Outside(op) \in Nat /\ \A w : Own(op, w) \in Nat
<1>1. completed[op] \in Nat
  BY DEF PlacesOK
<1>2. \A S : In(op, S) \in Nat
  BY DEF In
<1> QED
  BY <1>1, <1>2 DEF Outside, Queued, Timed, Own, OwnQueue, OwnRing

\* A step of worker w on operation op.
Conserved(op, w) ==
  /\ Outside(op)' + Own(op, w)' = Outside(op) + Own(op, w)
  /\ \A v \in Workers \ {w} : Own(op, v)' = Own(op, v)

\* A hand-over that conserves the places leaves the operation in one place.
LEMMA ConservedSingle ==
  ASSUME PlacesOK, PlacesOK', NEW op \in Ops, NEW w \in Workers, Single(op),
         Conserved(op, w)
  PROVE  Single(op)'
<1>1. Outside(op) \in Nat /\ \A v : Own(op, v) \in Nat
  BY CountsNat
<1>2. Outside(op)' \in Nat /\ \A v : Own(op, v)' \in Nat
  <2>1. completed'[op] \in Nat
    BY DEF PlacesOK
  <2>2. \A S : In(op, S) \in Nat
    BY DEF In
  <2> QED
    BY <2>1, <2>2 DEF Outside, Queued, Timed, Own, OwnQueue, OwnRing
<1>3. CASE Outside(op) = 1 /\ \A v \in Workers : Own(op, v) = 0
  <2>1. Outside(op)' + Own(op, w)' = 1 /\ \A v \in Workers \ {w} : Own(op, v)' = 0
    BY <1>1, <1>3 DEF Conserved
  <2> QED
    BY <1>2, <2>1 DEF Single
<1>4. ASSUME NEW u \in Workers, Outside(op) = 0, Own(op, u) = 1,
             \A v \in Workers \ {u} : Own(op, v) = 0
      PROVE  Single(op)'
  <2>1. CASE u = w
    <3>1. Outside(op)' + Own(op, w)' = 1 /\ \A v \in Workers \ {w} : Own(op, v)' = 0
      BY <1>4, <2>1 DEF Conserved
    <3> QED
      BY <1>2, <3>1 DEF Single
  <2>2. CASE u # w
    <3>1. Outside(op)' + Own(op, w)' = 0
      BY <1>4, <2>2 DEF Conserved
    <3>2. Outside(op)' = 0 /\ Own(op, w)' = 0
      BY <1>2, <3>1
    <3>3. Own(op, u)' = 1 /\ \A v \in Workers \ {u} : Own(op, v)' = 0
      BY <1>4, <2>2, <3>2 DEF Conserved
    <3> QED
      BY <3>2, <3>3 DEF Single
  <2> QED
    BY <2>1, <2>2
<1> QED
  BY <1>3, <1>4 DEF Single

\* A step that leaves the places alone.
Still == UNCHANGED <<sharedQ, timerQ, ledger, localCpu, localIo, retry, inflight, batch, taken>>

\* A step that touches no container leaves every operation where it is.
LEMMA StillSingle == ASSUME NEW op \in Ops, Single(op), Still PROVE Single(op)'
<1>1. Outside(op)' = Outside(op) /\ \A w \in Workers : Own(op, w)' = Own(op, w)
  BY DEF Still, Outside, Queued, Timed, Own, OwnQueue, OwnRing, In, sharedQ, timerQ, ledger
<1> QED
  BY <1>1 DEF Single

\* An operation is in no place twice.
LEMMA SingleMeans ==
  ASSUME PlacesOK, NEW op \in Ops, NEW w \in Workers, Single(op)
  PROVE  Outside(op) + Own(op, w) \in {0, 1}
<1>1. Outside(op) \in Nat /\ \A v : Own(op, v) \in Nat
  BY CountsNat
<1> QED
  BY <1>1 DEF Single

(***************************************************************************)
(* The steps of a worker.                                                  *)
(***************************************************************************)
\* collect_ready_cqes() moves completed operations to the CPU queue or back to the
\* local I/O queue.
LEMMA CollectConserves ==
  ASSUME PlacesOK, NEW op \in Ops, NEW w \in Workers, Single(op),
         CqesInflight, CollectReadyCqes(w)
  PROVE  Conserved(op, w)
<1>1. PICK again \in SUBSET cqes[w], spill \in BOOLEAN :
        /\ inflight' = [inflight EXCEPT ![w] = @ \ cqes[w]]
        /\ localIo' = [localIo EXCEPT ![w] = @ \cup again]
        /\ IF spill
           THEN cpuQ' = cpuQ \cup (cqes[w] \ again) /\ UNCHANGED localCpu
           ELSE localCpu' = [localCpu EXCEPT ![w] = @ \cup (cqes[w] \ again)]
                /\ UNCHANGED cpuQ
  BY Zenon DEF CollectReadyCqes
<1>2. UNCHANGED <<ioQ, timerQ, retry, batch, ledger, taken>>
  BY DEF CollectReadyCqes, stopVars
<1>3. Outside(op) + Own(op, w) \in {0, 1}
  BY SingleMeans
<1>4. cqes[w] \subseteq inflight[w]
  BY DEF CqesInflight
<1>5. completed[op] \in Nat
  BY DEF PlacesOK
<1> QED
  BY <1>1, <1>2, <1>3, <1>4, <1>5
     DEF Conserved, Outside, Queued, Timed, Own, OwnQueue, OwnRing, In, PlacesOK, timerQ, ledger

\* run_cpu_batch() takes a whole queue as its batch.
LEMMA BatchConserves ==
  ASSUME PlacesOK, NEW op \in Ops, NEW w \in Workers, BatchesRun, RunCpuBatch(w)
  PROVE  Conserved(op, w)
<1>1. batch[w] = {}
  BY DEF BatchesRun, RunCpuBatch, Executing
<1>2. UNCHANGED <<ioQ, timerQ, retry, inflight, localIo, ledger, taken>>
  BY DEF RunCpuBatch, stopVars
<1>3. completed[op] \in Nat
  BY DEF PlacesOK
<1> QED
  BY <1>1, <1>2, <1>3
     DEF RunCpuBatch, Conserved, Outside, Queued, Timed, Own, OwnQueue, OwnRing, In, PlacesOK,
         timerQ, ledger

\* Expired waits move from the timer queue to the local CPU queue.
LEMMA TimeoutsConserve ==
  ASSUME PlacesOK, NEW op \in Ops, NEW w \in Workers, Single(op), ConsumeTimeouts(w)
  PROVE  Conserved(op, w)
<1>2. UNCHANGED <<sharedQ, retry, inflight, localIo, batch, ledger, taken>>
  BY DEF ConsumeTimeouts, stopVars
<1>3. Outside(op) + Own(op, w) \in {0, 1}
  BY SingleMeans
<1>4. completed[op] \in Nat
  BY DEF PlacesOK
<1>5. CASE UNCHANGED <<timerQ, localCpu>>
  BY <1>2, <1>5
     DEF Conserved, Outside, Queued, Timed, Own, OwnQueue, OwnRing, In, timerQ, sharedQ, ledger
<1>6. ASSUME NEW expired \in SUBSET waits, waits' = waits \ expired, ready' = {},
             localCpu' = [localCpu EXCEPT ![w] = @ \cup ready \cup expired]
      PROVE  Conserved(op, w)
  BY <1>2, <1>3, <1>4, <1>6
     DEF Conserved, Outside, Queued, Timed, Own, OwnQueue, OwnRing, In, PlacesOK, sharedQ,
         ledger
<1> QED
  BY <1>5, <1>6 DEF ConsumeTimeouts

\* consume_io_tasks() moves operations to the ring, the retry slot or, when the
\* ring fails, the CPU queue.
LEMMA ConsumeIoConserves ==
  ASSUME PlacesOK, NEW op \in Ops, NEW w \in Workers, Single(op), ConsumeIo(w)
  PROVE  Conserved(op, w)
<1>1. UNCHANGED <<cpuQ, timerQ, batch, ledger, taken>>
  BY DEF ConsumeIo, stopVars
<1>2. Outside(op) + Own(op, w) \in {0, 1}
  BY SingleMeans
<1>3. completed[op] \in Nat
  BY DEF PlacesOK
<1>4. CASE UNCHANGED <<localCpu, localIo, retry, inflight, ioQ>>
  BY <1>1, <1>4
     DEF Conserved, Outside, Queued, Timed, Own, OwnQueue, OwnRing, In, timerQ, ledger
<1>5. CASE /\ localCpu' = [localCpu EXCEPT ![w] = @ \cup (retry[w] \cup localIo[w] \cup ioQ)]
           /\ retry' = [retry EXCEPT ![w] = {}]
           /\ localIo' = [localIo EXCEPT ![w] = {}]
           /\ ioQ' = {} /\ UNCHANGED inflight
  BY <1>1, <1>2, <1>3, <1>5
     DEF Conserved, Outside, Queued, Timed, Own, OwnQueue, OwnRing, In, PlacesOK, timerQ, ledger
<1>6. ASSUME NEW rest, NEW popped,
             \/ popped = retry[w]
             \/ popped = retry[w] \cup localIo[w]
             \/ popped = retry[w] \cup localIo[w] \cup ioQ,
             rest \subseteq popped,
             inflight' = [inflight EXCEPT ![w] = @ \cup (popped \ rest)],
             retry' = [retry EXCEPT ![w] = rest],
             localIo' = [localIo EXCEPT ![w] = @ \ popped],
             ioQ' = ioQ \ popped, UNCHANGED localCpu
      PROVE  Conserved(op, w)
  <2>1. op \in rest => op \in popped
    BY <1>6
  <2> QED
    BY <1>1, <1>2, <1>3, <1>6, <2>1
       DEF Conserved, Outside, Queued, Timed, Own, OwnQueue, OwnRing, In, PlacesOK, timerQ,
           ledger
<1>7. CASE ~(retry[w] \cup localIo[w] \cup ioQ = {}) /\ ~StopConsumesIo(w)
  <2> DEFINE stopAt(rest) == IF rest = {} THEN 3
                             ELSE IF rest \subseteq retry[w] THEN 1
                             ELSE IF rest \subseteq localIo[w] THEN 2 ELSE 3
             popped(rest) == retry[w] \cup (IF stopAt(rest) > 1 THEN localIo[w] ELSE {})
                                      \cup (IF stopAt(rest) > 2 THEN ioQ ELSE {})
  <2>1. PICK rest :
          /\ rest \subseteq retry[w] \/ rest \subseteq localIo[w] \/ rest \subseteq ioQ
          /\ inflight' = [inflight EXCEPT ![w] = @ \cup (popped(rest) \ rest)]
          /\ retry' = [retry EXCEPT ![w] = rest]
          /\ localIo' = [localIo EXCEPT ![w] = @ \ popped(rest)]
          /\ ioQ' = ioQ \ popped(rest) /\ UNCHANGED localCpu
    BY <1>7, Zenon DEF ConsumeIo
  <2>2. \/ popped(rest) = retry[w]
        \/ popped(rest) = retry[w] \cup localIo[w]
        \/ popped(rest) = retry[w] \cup localIo[w] \cup ioQ
    OBVIOUS
  <2>3. rest \subseteq popped(rest)
    BY <2>1
  <2> HIDE DEF popped
  <2> QED
    BY <1>6, <2>1, <2>2, <2>3, Zenon
<1> QED
  BY <1>4, <1>5, <1>7 DEF ConsumeIo

\* abort_inflight_io() moves all a worker still holds to its CPU queue.
LEMMA AbortConserves ==
  ASSUME PlacesOK, NEW op \in Ops, NEW w \in Workers, Single(op), AbortInflight(w)
  PROVE  Conserved(op, w)
<1>1. UNCHANGED <<cpuQ, timerQ, batch, ledger, taken>>
  BY DEF AbortInflight, stopVars
<1>2. Outside(op) + Own(op, w) \in {0, 1}
  BY SingleMeans
<1>3. completed[op] \in Nat
  BY DEF PlacesOK
<1> QED
  BY <1>1, <1>2, <1>3
     DEF AbortInflight, Abandoned, Conserved, Outside, Queued, Timed, Own, OwnQueue, OwnRing,
         In, PlacesOK, timerQ, ledger

\* What a receiver starts on thread t leaves idle for one place.
LEMMA KidsConserve ==
  ASSUME PlacesOK, NEW op \in Ops, NEW t, NEW kids \in SUBSET idle,
         kids \subseteq CpuOps \cup IoOps, Single(op), StartKids(t, kids)
  PROVE  LET inline == In(op, Placed(t, kids).inline)
         IN  /\ t \in Workers =>
                  In(op, idle') + In(op, cpuQ') + In(op, ioQ') + inline
                  + In(op, localCpu'[t]) + In(op, localIo'[t])
                  = In(op, idle) + In(op, cpuQ) + In(op, ioQ)
                  + In(op, localCpu[t]) + In(op, localIo[t])
             /\ t \notin Workers =>
                  In(op, idle') + In(op, cpuQ') + In(op, ioQ') + inline
                  = In(op, idle) + In(op, cpuQ) + In(op, ioQ)
             /\ \A v \in Workers \ {t} : localCpu'[v] = localCpu[v] /\ localIo'[v] = localIo[v]
<1>1. op \in kids => /\ op \in idle /\ op \notin cpuQ /\ op \notin ioQ
                     /\ t \in Workers => op \notin localCpu[t] /\ op \notin localIo[t]
  <2> SUFFICES ASSUME op \in idle
               PROVE  /\ op \notin cpuQ /\ op \notin ioQ
                      /\ t \in Workers => op \notin localCpu[t] /\ op \notin localIo[t]
    OBVIOUS
  <2>1. completed[op] \in Nat
    BY DEF PlacesOK
  <2>2. Outside(op) # 0
    BY <2>1 DEF Outside, Queued, Timed, In
  <2>3. Outside(op) = 1 /\ \A w \in Workers : Own(op, w) = 0
    BY <2>2 DEF Single
  <2>4. \A S : In(op, S) \in Nat /\ (op \in S => In(op, S) = 1)
    BY InSays
  <2>5. In(op, idle) = 1
    BY DEF In
  <2>6. In(op, cpuQ) = 0 /\ In(op, ioQ) = 0
    <3>1. /\ In(op, cpuQ) \in Nat /\ In(op, ioQ) \in Nat /\ In(op, waits) \in Nat
          /\ In(op, ready) \in Nat /\ In(op, taken) \in Nat
      BY <2>4
    <3>2. (In(op, idle) + In(op, cpuQ) + In(op, ioQ)) + (In(op, waits) + In(op, ready))
          + In(op, taken) + completed[op] = 1
      BY <2>3, Zenon DEF Outside, Queued, Timed
    <3> QED
      BY <2>1, <2>5, <3>1, <3>2
  <2>7. t \in Workers => In(op, localCpu[t]) = 0 /\ In(op, localIo[t]) = 0
    BY <2>3, OwnNothing
  <2> QED
    BY <2>6, <2>7 DEF In
<1>2. op \in kids => (op \in CpuOps /\ op \notin IoOps) \/ (op \in IoOps /\ op \notin CpuOps)
  BY OpsAssumption
<1> DEFINE p == Placed(t, kids)
<1>0. /\ idle' = idle \ kids
      /\ cpuQ' = cpuQ \cup (p.shared \cap CpuOps) /\ ioQ' = ioQ \cup (p.shared \cap IoOps)
      /\ t \in Workers => /\ localCpu'[t] = localCpu[t] \cup (p.own \cap CpuOps)
                          /\ localIo'[t] = localIo[t] \cup (p.own \cap IoOps)
      /\ \A v \in Workers \ {t} : localCpu'[v] = localCpu[v] /\ localIo'[v] = localIo[v]
  BY DEF StartKids
<1>3. CASE t \in Workers /\ ph[t] \notin {"noring", "close"}
  <2>1. p.own = kids /\ p.shared = {} /\ p.inline = {}
    BY <1>3 DEF Placed
  <2> QED
    <3>1. CASE op \in kids
      BY <1>0, <1>1, <1>2, <1>3, <2>1, <3>1 DEF In
    <3>2. CASE op \notin kids
      BY <1>0, <1>3, <2>1, <3>2 DEF In
    <3> QED
      BY <3>1, <3>2, Zenon
<1>4. CASE t \in Workers /\ ph[t] = "noring"
  <2>1. p.own = {} /\ p.shared = kids /\ p.inline = {}
    BY <1>4 DEF Placed
  <2> QED
    <3>1. CASE op \in kids
      <4>1. op \in idle /\ op \notin cpuQ /\ op \notin ioQ /\ op \notin idle'
            /\ op \notin localCpu[t] /\ op \notin localIo[t]
        BY <1>0, <1>1, <1>4, <3>1
      <4>2. localCpu'[t] = localCpu[t] /\ localIo'[t] = localIo[t]
        BY <1>0, <1>4, <2>1
      <4>3. cpuQ' = cpuQ \cup (kids \cap CpuOps) /\ ioQ' = ioQ \cup (kids \cap IoOps)
        BY <1>0, <2>1, Zenon
      <4>4. In(op, cpuQ') + In(op, ioQ') = 1
        BY <1>2, <3>1, <4>1, <4>3 DEF In
      <4> QED
        BY <1>0, <1>4, <2>1, <4>1, <4>2, <4>4 DEF In
    <3>2. CASE op \notin kids
      BY <1>0, <1>4, <2>1, <3>2 DEF In
    <3> QED
      BY <3>1, <3>2
<1>5. CASE t \notin Workers \/ ph[t] = "close"
  <2>1. p.own = {} /\ p.shared = {} /\ p.inline = kids
    BY <1>5 DEF Placed
  <2> QED
    BY <1>0, <1>1, <1>2, <2>1 DEF In
<1> QED
  BY <1>3, <1>4, <1>5, Zenon

\* execute_tasks() counts the operation it completes and places what its receiver
\* starts.
LEMMA ExecuteConserves ==
  ASSUME PlacesOK, NEW op \in Ops, NEW w \in Workers, NEW x \in Ops, Single(op),
         ExecuteTask(w, x)
  PROVE  Conserved(op, w)
<1>1. PICK kids \in SUBSET (Chain[x] \cap idle) :
        /\ StartKids(w, kids)
        /\ batch' = [batch EXCEPT ![w] = (batch[w] \ {x}) \cup Placed(w, kids).inline]
  BY Zenon DEF ExecuteTask
<1>2. /\ UNCHANGED <<timerQ, retry, inflight, taken>> /\ x \in batch[w]
      /\ completed' = [completed EXCEPT ![x] = @ + 1]
  BY Zenon DEF ExecuteTask
<1>3. kids \in SUBSET idle /\ kids \subseteq CpuOps \cup IoOps
  BY <1>1, ConstantsAssumption
<1>4. Outside(op) + Own(op, w) \in {0, 1}
  BY SingleMeans
<1>5. completed[op] \in Nat /\ completed \in [Ops -> Nat]
  BY DEF PlacesOK
<1>6. In(op, batch'[w]) + completed'[op]
      = In(op, batch[w]) + completed[op] + In(op, Placed(w, kids).inline)
  <2>1. op \in Placed(w, kids).inline => op \in idle
    BY <1>3 DEF Placed
  <2>2. op \in idle => op \notin batch[w]
    BY <1>4, <1>5 DEF Outside, Queued, Timed, Own, OwnQueue, OwnRing, In
  <2>3. batch'[w] = (batch[w] \ {x}) \cup Placed(w, kids).inline
    BY <1>1 DEF PlacesOK
  <2> QED
    BY <1>2, <1>5, <2>1, <2>2, <2>3 DEF In
<1>7. /\ In(op, idle') + In(op, cpuQ') + In(op, ioQ') + In(op, Placed(w, kids).inline)
         + In(op, localCpu'[w]) + In(op, localIo'[w])
         = In(op, idle) + In(op, cpuQ) + In(op, ioQ)
         + In(op, localCpu[w]) + In(op, localIo[w])
      /\ \A v \in Workers \ {w} : localCpu'[v] = localCpu[v] /\ localIo'[v] = localIo[v]
  BY <1>1, <1>3, KidsConserve
<1>8. \A v \in Workers \ {w} : batch'[v] = batch[v]
  BY <1>1 DEF PlacesOK
<1>9. completed'[op] \in Nat
  BY <1>2, <1>5
<1>10. \A S : In(op, S) \in Nat
  BY InSays
<1>11. /\ waits' = waits /\ ready' = ready /\ taken' = taken
       /\ retry' = retry /\ inflight' = inflight
  BY <1>2 DEF timerQ
<1>12. Outside(op)' + Own(op, w)' = Outside(op) + Own(op, w)
  <2> DEFINE inline == In(op, Placed(w, kids).inline)
  <2>1. /\ Queued(op) \in Nat /\ Queued(op)' \in Nat /\ Timed(op) \in Nat
        /\ OwnQueue(op, w) \in Nat /\ OwnQueue(op, w)' \in Nat /\ OwnRing(op, w) \in Nat
        /\ In(op, taken) \in Nat /\ In(op, batch[w]) \in Nat /\ In(op, batch'[w]) \in Nat
        /\ inline \in Nat
    BY <1>10 DEF Queued, Timed, OwnQueue, OwnRing
  <2>2. Queued(op)' + inline + OwnQueue(op, w)' = Queued(op) + OwnQueue(op, w)
    BY <1>7, <1>10 DEF Queued, OwnQueue
  <2>3. Timed(op)' = Timed(op) /\ OwnRing(op, w)' = OwnRing(op, w)
    BY <1>11, Zenon DEF Timed, OwnRing
  <2>4. Outside(op)' = Queued(op)' + Timed(op) + In(op, taken) + completed'[op]
    BY <1>11, <2>3, Zenon DEF Outside
  <2>5. Own(op, w)' = OwnQueue(op, w)' + OwnRing(op, w) + In(op, batch'[w])
    BY <2>3, Zenon DEF Own
  <2>6. In(op, batch'[w]) + completed'[op] = In(op, batch[w]) + completed[op] + inline
    BY <1>6
  <2> HIDE DEF inline
  <2> QED
    BY <1>5, <1>9, <2>1, <2>2, <2>4, <2>5, <2>6 DEF Outside, Own
<1>13. \A v \in Workers \ {w} : Own(op, v)' = Own(op, v)
  BY <1>7, <1>8, <1>11, Zenon DEF Own, OwnQueue, OwnRing
<1> QED
  BY <1>12, <1>13 DEF Conserved

(***************************************************************************)
(* The steps of the other threads.                                         *)
(***************************************************************************)
\* A step that moves op between the places outside the workers.
Outward(op) == Outside(op)' = Outside(op) /\ \A v \in Workers : Own(op, v)' = Own(op, v)

\* An operation that leaves one place for another stays single.
LEMMA OutwardSingle == ASSUME NEW op \in Ops, Single(op), Outward(op) PROVE Single(op)'
  BY DEF Single, Outward

\* publish_cpu(), publish_io() and start_timer_wait() put the operation into one
\* queue or complete it.
LEMMA CallConserves ==
  ASSUME PlacesOK, NEW op \in Ops, NEW c \in Clients, ClientCall(c), Single(op)
  PROVE  Outward(op)
<1>1. completed[op] \in Nat /\ completed \in [Ops -> Nat]
  BY DEF PlacesOK
<1>2. op \in idle => /\ op \notin cpuQ /\ op \notin ioQ /\ op \notin waits /\ op \notin ready
  BY <1>1 DEF Single, Outside, Queued, Timed, In
<1>3. ASSUME NEW x \in Ops, Publish(c, x) PROVE Outward(op)
  <2>1. /\ UNCHANGED <<timerQ, localCpu, localIo, retry, inflight, batch, taken>>
        /\ idle' = idle \ {x} /\ x \in idle
        /\ \/ completed' = [completed EXCEPT ![x] = @ + 1] /\ UNCHANGED <<cpuQ, ioQ>>
           \/ cpuQ' = cpuQ \cup {x} /\ UNCHANGED <<ioQ, completed>>
           \/ ioQ' = ioQ \cup {x} /\ UNCHANGED <<cpuQ, completed>>
    BY <1>3 DEF Publish, workerUnchanged, stopVars, sharedQ
  <2> QED
    BY <1>1, <1>2, <2>1 DEF Outward, Outside, Queued, Timed, Own, OwnQueue, OwnRing, In, timerQ
<1>4. ASSUME NEW x \in Ops, StartTimerWait(c, x) PROVE Outward(op)
  <2>1. /\ UNCHANGED <<sharedQ, localCpu, localIo, retry, inflight, batch, taken>>
        /\ idle' = idle \ {x} /\ x \in idle
        /\ \/ completed' = [completed EXCEPT ![x] = @ + 1] /\ UNCHANGED <<waits, ready>>
           \/ waits' = waits \cup {x} /\ UNCHANGED <<ready, completed>>
           \/ ready' = ready \cup {x} /\ UNCHANGED <<waits, completed>>
    BY <1>4 DEF StartTimerWait, workerUnchanged, stopVars, timerQ
  <2> QED
    BY <1>1, <1>2, <2>1 DEF Outward, Outside, Queued, Timed, Own, OwnQueue, OwnRing, In, sharedQ
<1> QED
  BY <1>3, <1>4 DEF ClientCall

\* abort_pending_timer_waits() and the stopping thread's pops move whole lists.
LEMMA TakeConserves ==
  ASSUME PlacesOK, NEW op \in Ops, NEW t \in Workers \cup Stoppers, Single(op), OneStopper,
         AbortTimerWaits(t) \/ DrainTake(t)
  PROVE  Outward(op)
<1>1. completed[op] \in Nat
  BY DEF PlacesOK
<1>2. ~(op \in waits /\ op \in ready)
  BY <1>1 DEF Single, Outside, Queued, Timed, In
<1>3. CASE AbortTimerWaits(t)
  <2>1. /\ UNCHANGED <<sharedQ, ledger, localCpu, localIo, retry, inflight, batch, taken>>
        /\ ready' = ready \cup waits /\ waits' = {}
    BY <1>3 DEF AbortTimerWaits, workerUnchanged
  <2> QED
    BY <1>1, <1>2, <2>1
       DEF Outward, Outside, Queued, Timed, Own, OwnQueue, OwnRing, In, sharedQ, ledger
<1>4. CASE DrainTake(t)
  <2>1. spc[t] \in {"cpu", "io", "tmr"}
    BY <1>4 DEF DrainTake, StopAt
  <2>2. taken = {}
    BY <2>1 DEF OneStopper, Elected, Draining
  <2>3. /\ UNCHANGED <<waits, ledger, localCpu, localIo, retry, inflight, batch>>
        /\ \/ taken' = cpuQ /\ cpuQ' = {} /\ UNCHANGED <<ioQ, ready>>
           \/ taken' = ioQ /\ ioQ' = {} /\ UNCHANGED <<cpuQ, ready>>
           \/ taken' = ready /\ ready' = {} /\ UNCHANGED <<cpuQ, ioQ>>
    BY <1>4 DEF DrainTake, workerUnchanged
  <2> QED
    BY <1>1, <2>2, <2>3 DEF Outward, Outside, Queued, Timed, Own, OwnQueue, OwnRing, In, ledger
<1> QED
  BY <1>3, <1>4

\* execute() on the stopping thread, inside the context or outside.
LEMMA DrainConserves ==
  ASSUME PlacesOK, NEW op \in Ops, NEW t \in Workers \cup Stoppers, NEW x \in Ops, Single(op),
         DrainExecute(t, x)
  PROVE  IF t \in Workers THEN Conserved(op, t) ELSE Outward(op)
<1>1. PICK kids \in SUBSET (Chain[x] \cap idle) :
        /\ StartKids(t, kids)
        /\ taken' = (taken \ {x}) \cup Placed(t, kids).inline
  BY Zenon DEF DrainExecute
<1>2. /\ UNCHANGED <<timerQ, retry, inflight, batch>> /\ x \in taken
      /\ completed' = [completed EXCEPT ![x] = @ + 1]
  BY Zenon DEF DrainExecute
<1>3. kids \in SUBSET idle /\ kids \subseteq CpuOps \cup IoOps
  BY <1>1, ConstantsAssumption, Zenon
<1>4. completed[op] \in Nat /\ completed \in [Ops -> Nat]
  BY DEF PlacesOK
<1>5. In(op, taken') + completed'[op]
      = In(op, taken) + completed[op] + In(op, Placed(t, kids).inline)
  <2>1. op \in Placed(t, kids).inline => op \in idle
    BY <1>3 DEF Placed
  <2>2. op \in idle => op \notin taken
    BY <1>4 DEF Single, Outside, Queued, Timed, In
  <2> QED
    BY <1>1, <1>2, <1>4, <2>1, <2>2 DEF In
<1>6. completed'[op] \in Nat
  BY <1>2, <1>4
<1>7. CASE t \in Workers
  <2>1. /\ In(op, idle') + In(op, cpuQ') + In(op, ioQ') + In(op, Placed(t, kids).inline)
           + In(op, localCpu'[t]) + In(op, localIo'[t])
           = In(op, idle) + In(op, cpuQ) + In(op, ioQ)
           + In(op, localCpu[t]) + In(op, localIo[t])
        /\ \A v \in Workers \ {t} : localCpu'[v] = localCpu[v] /\ localIo'[v] = localIo[v]
    BY <1>1, <1>3, <1>7, KidsConserve, Zenon
  <2>2. \A S : In(op, S) \in Nat
    BY InSays, Zenon
  <2>3. /\ waits' = waits /\ ready' = ready /\ batch' = batch
        /\ retry' = retry /\ inflight' = inflight
    BY <1>2 DEF timerQ
  <2>4. Outside(op)' + Own(op, t)' = Outside(op) + Own(op, t)
    <3> DEFINE inline == In(op, Placed(t, kids).inline)
    <3>1. /\ Queued(op) \in Nat /\ Queued(op)' \in Nat /\ Timed(op) \in Nat
          /\ OwnQueue(op, t) \in Nat /\ OwnQueue(op, t)' \in Nat /\ OwnRing(op, t) \in Nat
          /\ In(op, taken) \in Nat /\ In(op, taken') \in Nat /\ In(op, batch[t]) \in Nat
          /\ inline \in Nat
      <4>1. Queued(op) \in Nat /\ Queued(op)' \in Nat
        BY <2>2 DEF Queued
      <4>2. Timed(op) \in Nat /\ OwnRing(op, t) \in Nat
        BY <2>2 DEF Timed, OwnRing
      <4>3. OwnQueue(op, t) \in Nat /\ OwnQueue(op, t)' \in Nat
        BY <2>2 DEF OwnQueue
      <4>4. In(op, taken) \in Nat /\ In(op, taken') \in Nat /\ In(op, batch[t]) \in Nat
            /\ inline \in Nat
        BY <2>2, Zenon
      <4> QED
        BY <4>1, <4>2, <4>3, <4>4, Zenon
    <3>2. Queued(op)' + inline + OwnQueue(op, t)' = Queued(op) + OwnQueue(op, t)
      BY <2>1, <2>2 DEF Queued, OwnQueue
    <3>3. Timed(op)' = Timed(op) /\ OwnRing(op, t)' = OwnRing(op, t)
      BY <2>3, Zenon DEF Timed, OwnRing
    <3>4. Outside(op)' = Queued(op)' + Timed(op) + In(op, taken') + completed'[op]
      BY <3>3, Zenon DEF Outside
    <3>5. Own(op, t)' = OwnQueue(op, t)' + OwnRing(op, t) + In(op, batch[t])
      BY <2>3, <3>3, Zenon DEF Own
    <3>6. In(op, taken') + completed'[op] = In(op, taken) + completed[op] + inline
      BY <1>5
    <3>7. /\ Outside(op) = Queued(op) + Timed(op) + In(op, taken) + completed[op]
          /\ Own(op, t) = OwnQueue(op, t) + OwnRing(op, t) + In(op, batch[t])
      BY Zenon DEF Outside, Own
    <3> HIDE DEF inline
    <3> QED
      BY <1>4, <1>6, <3>1, <3>2, <3>4, <3>5, <3>6, <3>7
  <2>5. \A v \in Workers \ {t} : Own(op, v)' = Own(op, v)
    BY <2>1, <2>3, Zenon DEF Own, OwnQueue, OwnRing
  <2> QED
    BY <1>7, <2>4, <2>5 DEF Conserved
<1>8. CASE t \notin Workers
  <2>1. /\ In(op, idle') + In(op, cpuQ') + In(op, ioQ') + In(op, Placed(t, kids).inline)
           = In(op, idle) + In(op, cpuQ) + In(op, ioQ)
        /\ \A v \in Workers : localCpu'[v] = localCpu[v] /\ localIo'[v] = localIo[v]
    BY <1>1, <1>3, <1>8, KidsConserve, Zenon
  <2> QED
    BY <1>2, <1>4, <1>5, <1>6, <1>8, <2>1
       DEF Outward, Outside, Queued, Timed, Own, OwnQueue, OwnRing, In, timerQ
<1> QED
  BY <1>7, <1>8

(***************************************************************************)
(* PlaceInv is inductive.                                                  *)
(***************************************************************************)
\* Every operation stays in one place.
LEMMA SingleStep ==
  ASSUME PlacesOK, PlacesOK', PlaceInv, [Next]_vars, NEW op \in Ops
  PROVE  Single(op)'
<1>0. Single(op) /\ BatchesRun /\ CqesInflight /\ OneStopper
  BY DEF PlaceInv
<1>1. ASSUME NEW w \in Workers, WorkerStep(w) PROVE Single(op)'
  <2> USE DEF Still, ownQ, stopVars
  <2>1. CASE CollectReadyCqes(w) \/ RunCpuBatch(w) \/ ConsumeTimeouts(w) \/ ConsumeIo(w)
             \/ AbortInflight(w)
    BY <1>0, <2>1, CollectConserves, BatchConserves, TimeoutsConserve, ConsumeIoConserves,
       AbortConserves, ConservedSingle
  <2>2. ASSUME NEW x \in Ops, ExecuteTask(w, x) PROVE Single(op)'
    BY <1>0, <2>2, ExecuteConserves, ConservedSingle
  <2>3. CASE CanStartRun(w) \/ RunNativeLoop(w) \/ EnterRun(w) \/ ArmWakePolls(w)
             \/ HandleFin(w) \/ PrepareFound(w)
    BY <1>0, <2>3, StillSingle, Zenon DEF CanStartRun, RunNativeLoop, EnterRun, ArmWakePolls,
       HandleFin, PrepareFound
  <2>4. CASE BeginWaitLink(w) \/ BeginWaitDec(w) \/ RearmWakePolls(w) \/ WaitReturns(w)
    BY <1>0, <2>4, StillSingle DEF BeginWaitLink, BeginWaitDec, RearmWakePolls,
       WaitReturns, LeaveKernel
  <2>5. CASE EndWaitUnlink(w) \/ EndWaitInc(w) \/ DecideAfterWait(w) \/ LeaveRun(w)
             \/ ReleaseSlot(w)
    BY <1>0, <2>5, StillSingle, Zenon DEF EndWaitUnlink, EndWaitInc, DecideAfterWait, LeaveRun,
       ReleaseSlot
  <2> QED
    BY <1>1, <2>1, <2>2, <2>3, <2>4, <2>5 DEF WorkerStep
<1>2. ASSUME NEW w \in Workers, WorkerEnv(w) PROVE Single(op)'
  BY <1>0, <1>2, StillSingle, Zenon DEF WorkerEnv, RunCall, WaitTimesOut, WaitInterrupted,
     WaitFails, LeaveKernel, KernelCompletes, Still, ownQ, stopVars
<1>3. ASSUME NEW c \in Clients, ClientCall(c) \/ ClientStep(c) PROVE Single(op)'
  <2>1. CASE ClientCall(c)
    BY <1>0, <2>1, CallConserves, OutwardSingle
  <2>2. CASE ClientStep(c)
    BY <1>0, <2>2, StillSingle, Zenon DEF ClientStep, WakeIfAllSleeping, LoadAwake, LoadRunning,
       WakeOneSleeping, Still, workerUnchanged, stopVars
  <2> QED
    BY <1>3, <2>1, <2>2
<1>4. ASSUME NEW t \in Workers \cup Stoppers, StopCall(t) \/ StopStep(t)
      PROVE  Single(op)'
  <2>1. CASE AbortTimerWaits(t) \/ DrainTake(t)
    BY <1>0, <2>1, TakeConserves, OutwardSingle
  <2>2. ASSUME NEW x \in Ops, DrainExecute(t, x) PROVE Single(op)'
    BY <1>0, <2>2, DrainConserves, ConservedSingle, OutwardSingle
  <2>3. CASE StopCall(t) \/ ElectStopper(t) \/ JoinStopped(t) \/ PublishLife(t)
             \/ WakeWorkers(t) \/ WorkersGone(t) \/ DrainNext(t)
    BY <1>0, <2>3, StillSingle, Zenon DEF StopCall, ElectStopper, JoinStopped, PublishLife,
       WakeWorkers, WorkersGone, DrainNext, Still, workerUnchanged
  <2> QED
    BY <1>4, <2>1, <2>2, <2>3 DEF StopStep
<1>5. CASE Terminated \/ UNCHANGED vars
  BY <1>0, <1>5, StillSingle DEF Terminated, vars, Still, ownQ, stopVars
<1> QED
  BY <1>1, <1>2, <1>3, <1>4, <1>5 DEF Next

\* w alone moves, and it held no batch.
LEMMA BatchIdle ==
  ASSUME BatchesRun, NEW w \in Workers, UNCHANGED batch, st[w] \notin Executing,
         \A v \in Workers \ {w} : st'[v] = st[v]
  PROVE  BatchesRun'
  BY DEF BatchesRun

\* Going on to the next source, or to what follows found work, moves one worker.
LEMMA OneMoves ==
  ASSUME LoopOK, NEW w \in Workers, GotoNext(w) \/ GotoFound(w)
  PROVE  st'[w] \notin Executing /\ \A v \in Workers \ {w} : st'[v] = st[v]
<1>1. CASE GotoNext(w)
  BY <1>1 DEF GotoNext, Follow, Goto, LoopOK, Executing
<1>2. CASE GotoFound(w)
  BY <1>2 DEF GotoFound, Follow, Goto, LoopOK, Executing
<1> QED
  BY <1>1, <1>2

\* A batch is taken when execute_tasks() starts, and is empty when it ends.
LEMMA BatchesStep ==
  ASSUME PlacesOK, LoopOK, BatchesRun, [Next]_vars
  PROVE  BatchesRun'
<1>1. ASSUME NEW w \in Workers, WorkerStep(w) PROVE BatchesRun'
  <2> USE DEF ownQ, Executing
  <2>1. CASE CollectReadyCqes(w) \/ ConsumeIo(w) \/ AbortInflight(w)
    <3>1. (GotoNext(w) \/ GotoFound(w)) /\ st[w] \notin Executing /\ UNCHANGED batch
      BY <2>1, Zenon DEF CollectReadyCqes, ConsumeIo, AbortInflight
    <3> QED
      BY <3>1, OneMoves, BatchIdle
  <2>2. CASE ConsumeTimeouts(w)
    <3>1. /\ GotoNext(w) \/ GotoFound(w) \/ Goto(w, "rearm", "none")
          /\ st[w] \notin Executing /\ UNCHANGED batch
      BY <2>2 DEF ConsumeTimeouts
    <3>2. \A v \in Workers \ {w} : st'[v] = st[v]
      BY <3>1, OneMoves DEF Goto, LoopOK
    <3> QED
      BY <3>1, <3>2, BatchIdle
  <2>3. CASE RunCpuBatch(w)
    <3>1. CASE GotoNext(w) /\ UNCHANGED batch
      BY <2>3, <3>1, OneMoves, BatchIdle, Zenon DEF RunCpuBatch
    <3>2. CASE /\ \E S : batch' = [batch EXCEPT ![w] = S]
               /\ \E s \in Executing : Goto(w, ph[w], s)
      BY <3>2 DEF BatchesRun, Goto, LoopOK, PlacesOK
    <3> QED
      BY <2>3, <3>1, <3>2, Zenon DEF RunCpuBatch
  <2>4. ASSUME NEW x \in Ops, ExecuteTask(w, x) PROVE BatchesRun'
    <3>1. PICK left : /\ batch' = [batch EXCEPT ![w] = left]
                      /\ IF left = {} THEN GotoFound(w) ELSE UNCHANGED <<ph, st>>
      BY <2>4, Zenon DEF ExecuteTask
    <3>2. st[w] \in Executing
      BY <2>4, Zenon DEF ExecuteTask
    <3>3. CASE left = {}
      BY <3>1, <3>3, OneMoves DEF BatchesRun, PlacesOK
    <3>4. CASE left # {}
      BY <3>1, <3>2, <3>4 DEF BatchesRun, PlacesOK
    <3> QED
      BY <3>3, <3>4
  <2>5. CASE CanStartRun(w) \/ RunNativeLoop(w) \/ EnterRun(w) \/ ArmWakePolls(w)
             \/ HandleFin(w) \/ PrepareFound(w)
    <3>1. st[w] \notin Executing /\ UNCHANGED batch
      BY <2>5, Zenon DEF CanStartRun, RunNativeLoop, EnterRun, ArmWakePolls, HandleFin,
         PrepareFound, At
    <3>2. \A v \in Workers \ {w} : st'[v] = st[v]
      BY <2>5, Zenon
         DEF CanStartRun, RunNativeLoop, EnterRun, ArmWakePolls, HandleFin, StartWait,
         PrepareFound, Goto, LoopOK
    <3> QED
      BY <3>1, <3>2, BatchIdle
  <2>6. CASE BeginWaitLink(w) \/ BeginWaitDec(w) \/ RearmWakePolls(w) \/ WaitReturns(w)
             \/ LeaveRun(w)
    <3>1. st[w] \notin Executing /\ UNCHANGED batch
      BY <2>6, Zenon DEF BeginWaitLink, BeginWaitDec, RearmWakePolls, WaitReturns, LeaveKernel,
         LeaveRun, At
    <3>2. \A v \in Workers \ {w} : st'[v] = st[v]
      BY <2>6, Zenon DEF BeginWaitLink, BeginWaitDec, RearmWakePolls, WaitReturns, LeaveKernel,
         LeaveRun, Goto, LoopOK
    <3> QED
      BY <3>1, <3>2, BatchIdle
  <2>7. CASE EndWaitUnlink(w) \/ EndWaitInc(w) \/ DecideAfterWait(w) \/ ReleaseSlot(w)
    <3>1. ph[w] \in {"unlink", "inc", "decide", "error", "release"} /\ UNCHANGED batch
      BY <2>7, Zenon DEF EndWaitUnlink, EndWaitInc, DecideAfterWait, ReleaseSlot
    <3>2. st[w] \notin Executing
      BY <3>1 DEF LoopOK, StepOf
    <3>3. \A v \in Workers \ {w} : st'[v] = st[v]
      BY <2>7 DEF EndWaitUnlink, EndWaitInc, DecideAfterWait, ReleaseSlot, Goto, LoopOK
    <3> QED
      BY <3>1, <3>2, <3>3, BatchIdle
  <2> QED
    BY <1>1, <2>1, <2>2, <2>3, <2>4, <2>5, <2>6, <2>7 DEF WorkerStep
<1>2. ASSUME NEW w \in Workers, WorkerEnv(w) PROVE BatchesRun'
  <2>1. CASE RunCall(w) \/ WaitTimesOut(w) \/ WaitInterrupted(w) \/ WaitFails(w)
    <3>1. st[w] \notin Executing /\ UNCHANGED batch
      BY <2>1, Zenon DEF RunCall, WaitTimesOut, WaitInterrupted, WaitFails, LeaveKernel, At,
         Executing, ownQ
    <3>2. \A v \in Workers \ {w} : st'[v] = st[v]
      BY <2>1 DEF RunCall, WaitTimesOut, WaitInterrupted, WaitFails, LeaveKernel, Goto, LoopOK
    <3> QED
      BY <3>1, <3>2, BatchIdle
  <2>2. CASE KernelCompletes(w)
    BY <2>2, Zenon DEF KernelCompletes, BatchesRun, loopVars
  <2> QED
    BY <1>2, <2>1, <2>2 DEF WorkerEnv
<1>3. ASSUME NEW c \in Clients, ClientCall(c) \/ ClientStep(c) PROVE BatchesRun'
  BY <1>3, Zenon DEF ClientCall, Publish, StartTimerWait, ClientStep, WakeIfAllSleeping,
     LoadAwake, LoadRunning, WakeOneSleeping, workerUnchanged, loopVars, BatchesRun
<1>4. ASSUME NEW t \in Workers \cup Stoppers, StopCall(t) \/ StopStep(t)
      PROVE  BatchesRun'
  BY <1>4, Zenon
     DEF StopCall, StopStep, ElectStopper, JoinStopped, AbortTimerWaits, PublishLife,
     WakeWorkers, WorkersGone, DrainTake, DrainExecute, DrainNext, workerUnchanged,
     loopVars, BatchesRun
<1>5. CASE Terminated \/ UNCHANGED vars
  BY <1>5, Zenon DEF Terminated, vars, ownQ, loopVars, BatchesRun
<1> QED
  BY <1>1, <1>2, <1>3, <1>4, <1>5 DEF Next

\* The ring completes operations it holds, and an aborted ring holds none.
LEMMA CqesStep ==
  ASSUME PlacesOK, CqesInflight, [Next]_vars
  PROVE  CqesInflight'
<1>0. ASSUME UNCHANGED <<cqes, inflight>> PROVE CqesInflight'
  BY <1>0, Zenon DEF CqesInflight
<1>1. ASSUME NEW w \in Workers, WorkerStep(w) PROVE CqesInflight'
  <2>1. CASE CollectReadyCqes(w) \/ AbortInflight(w)
    BY <2>1, Zenon DEF CollectReadyCqes, AbortInflight, CqesInflight, PlacesOK
  <2>2. CASE ConsumeIo(w)
    <3>1. UNCHANGED cqes
      BY <2>2 DEF ConsumeIo
    <3>2. UNCHANGED inflight \/ \E S : inflight' = [inflight EXCEPT ![w] = @ \cup S]
      BY <2>2 DEF ConsumeIo
    <3> QED
      BY <3>1, <3>2 DEF CqesInflight, PlacesOK
  <2>3. CASE RunCpuBatch(w) \/ (\E x \in Ops : ExecuteTask(w, x)) \/ ConsumeTimeouts(w)
    BY <1>0, <2>3, Zenon DEF RunCpuBatch, ExecuteTask, ConsumeTimeouts
  <2>4. CASE CanStartRun(w) \/ RunNativeLoop(w) \/ EnterRun(w) \/ ArmWakePolls(w)
             \/ HandleFin(w) \/ PrepareFound(w)
    BY <1>0, <2>4, Zenon DEF CanStartRun, RunNativeLoop, EnterRun, ArmWakePolls, HandleFin,
       PrepareFound, ownQ
  <2>5. CASE BeginWaitLink(w) \/ BeginWaitDec(w) \/ RearmWakePolls(w) \/ WaitReturns(w)
             \/ EndWaitUnlink(w) \/ EndWaitInc(w) \/ DecideAfterWait(w) \/ LeaveRun(w)
             \/ ReleaseSlot(w)
    BY <1>0, <2>5, Zenon
       DEF BeginWaitLink, BeginWaitDec, RearmWakePolls, WaitReturns, LeaveKernel,
       EndWaitUnlink, EndWaitInc, DecideAfterWait, LeaveRun, ReleaseSlot, ownQ
  <2> QED
    BY <1>1, <2>1, <2>2, <2>3, <2>4, <2>5 DEF WorkerStep
<1>2. ASSUME NEW w \in Workers, WorkerEnv(w) PROVE CqesInflight'
  <2>1. CASE KernelCompletes(w)
    BY <2>1 DEF KernelCompletes, CqesInflight, PlacesOK
  <2>2. CASE RunCall(w) \/ WaitTimesOut(w) \/ WaitInterrupted(w) \/ WaitFails(w)
    BY <1>0, <2>2 DEF RunCall, WaitTimesOut, WaitInterrupted, WaitFails, LeaveKernel, ownQ
  <2> QED
    BY <1>2, <2>1, <2>2 DEF WorkerEnv
<1>3. ASSUME NEW c \in Clients, ClientCall(c) \/ ClientStep(c) PROVE CqesInflight'
  BY <1>0, <1>3, Zenon DEF ClientCall, Publish, StartTimerWait, ClientStep, WakeIfAllSleeping,
     LoadAwake, LoadRunning, WakeOneSleeping, workerUnchanged
<1>4. ASSUME NEW t \in Workers \cup Stoppers, StopCall(t) \/ StopStep(t)
      PROVE  CqesInflight'
  BY <1>0, <1>4, Zenon DEF StopCall, StopStep, ElectStopper, JoinStopped, AbortTimerWaits,
     PublishLife, WakeWorkers, WorkersGone, DrainTake, DrainExecute, DrainNext,
     workerUnchanged
<1>5. CASE Terminated \/ UNCHANGED vars
  BY <1>0, <1>5 DEF Terminated, vars, ownQ
<1> QED
  BY <1>1, <1>2, <1>3, <1>4, <1>5 DEF Next

\* A thread that calls stop() is not yet the one that stops the context.
LEMMA StopperKept ==
  ASSUME CallsOK, OneStopper, NEW t \in Workers \cup Stoppers, NEW s,
         UNCHANGED <<stopReq, taken>>, UNCHANGED spc \/ spc' = [spc EXCEPT ![t] = s],
         s \notin Elected
  PROVE  OneStopper'
  BY DEF OneStopper, CallsOK

\* The stop_requested CAS elects one thread, which keeps to the order of
\* begin_stop() and drain_shared_queues_for_stop().
LEMMA StopperStep ==
  ASSUME CallsOK, OneStopper, [Next]_vars
  PROVE  OneStopper'
<1>0. ASSUME UNCHANGED <<stopReq, spc, taken>> PROVE OneStopper'
  BY <1>0 DEF OneStopper
<1>1. ASSUME NEW w \in Workers, WorkerStep(w) PROVE OneStopper'
  <2> USE DEF lifeVars, stopVars
  <2>1. ASSUME NEW x \in Ops, ExecuteTask(w, x) PROVE OneStopper'
    <3>1. UNCHANGED spc \/ spc' = [spc EXCEPT ![w] = "elect"]
      BY <2>1, Zenon DEF ExecuteTask
    <3>2. UNCHANGED <<stopReq, taken>> /\ "elect" \notin Elected
      BY <2>1, Zenon DEF ExecuteTask, Elected, Draining
    <3> QED
      BY <3>1, <3>2, StopperKept
  <2>2. CASE CollectReadyCqes(w) \/ RunCpuBatch(w) \/ ConsumeTimeouts(w) \/ ConsumeIo(w)
             \/ AbortInflight(w)
    BY <1>0, <2>2, Zenon DEF CollectReadyCqes, RunCpuBatch, ConsumeTimeouts, ConsumeIo,
       AbortInflight
  <2>3. CASE CanStartRun(w) \/ RunNativeLoop(w) \/ EnterRun(w) \/ ArmWakePolls(w)
             \/ HandleFin(w) \/ PrepareFound(w)
    BY <1>0, <2>3, Zenon DEF CanStartRun, RunNativeLoop, EnterRun, ArmWakePolls, HandleFin,
       PrepareFound
  <2>4. CASE BeginWaitLink(w) \/ BeginWaitDec(w) \/ RearmWakePolls(w) \/ WaitReturns(w)
             \/ EndWaitUnlink(w) \/ EndWaitInc(w) \/ DecideAfterWait(w) \/ LeaveRun(w)
             \/ ReleaseSlot(w)
    BY <1>0, <2>4, Zenon
       DEF BeginWaitLink, BeginWaitDec, RearmWakePolls, WaitReturns, LeaveKernel,
       EndWaitUnlink, EndWaitInc, DecideAfterWait, LeaveRun, ReleaseSlot
  <2> QED
    BY <1>1, <2>1, <2>2, <2>3, <2>4 DEF WorkerStep
<1>2. ASSUME NEW w \in Workers, WorkerEnv(w) PROVE OneStopper'
  BY <1>0, <1>2, Zenon DEF WorkerEnv, RunCall, WaitTimesOut, WaitInterrupted, WaitFails,
     LeaveKernel, KernelCompletes, lifeVars, stopVars
<1>3. ASSUME NEW c \in Clients, ClientCall(c) \/ ClientStep(c) PROVE OneStopper'
  BY <1>0, <1>3, Zenon DEF ClientCall, Publish, StartTimerWait, ClientStep, WakeIfAllSleeping,
     LoadAwake, LoadRunning, WakeOneSleeping, lifeVars, stopVars
<1>4. ASSUME NEW t \in Workers \cup Stoppers, StopCall(t) \/ StopStep(t)
      PROVE  OneStopper'
  <2> USE DEF GotoStop, StopAt
  <2>1. CASE StopCall(t) \/ JoinStopped(t)
    <3>1. /\ UNCHANGED <<stopReq, taken>>
          /\ spc' = [spc EXCEPT ![t] = "elect"] \/ spc' = [spc EXCEPT ![t] = "none"]
             \/ spc' = [spc EXCEPT ![t] = "returned"]
      BY <2>1 DEF StopCall, JoinStopped, StopReturn, lifeVars
    <3>2. {"elect", "none", "returned"} \cap Elected = {}
      BY DEF Elected, Draining
    <3> QED
      BY <3>1, <3>2, StopperKept
  <2>2. CASE ElectStopper(t)
    BY <2>2 DEF ElectStopper, OneStopper, CallsOK, Elected, Draining
  <2>3. CASE AbortTimerWaits(t) \/ PublishLife(t) \/ WakeWorkers(t) \/ WorkersGone(t)
    <3>1. /\ UNCHANGED <<stopReq, taken>> /\ spc[t] \in {"abort", "publish", "wake", "wait"}
          /\ \E s \in {"publish", "wake", "wait", "cpu"} : spc' = [spc EXCEPT ![t] = s]
      BY <2>3 DEF AbortTimerWaits, PublishLife, WakeWorkers, WorkersGone, lifeVars
    <3> QED
      BY <3>1 DEF OneStopper, CallsOK, Elected, Draining
  <2>4. CASE DrainTake(t) \/ DrainNext(t)
    <3>1. /\ UNCHANGED stopReq /\ spc[t] \in Draining
          /\ \/ \E s \in {"xcpu", "xio", "xtmr"} : spc' = [spc EXCEPT ![t] = s]
             \/ /\ taken = {} /\ taken' = {}
                /\ \E s \in {"cpu", "io", "tmr", "none", "returned"} :
                     spc' = [spc EXCEPT ![t] = s]
      BY <2>4 DEF DrainTake, DrainNext, StopReturn, lifeVars, Draining
    <3> QED
      BY <3>1 DEF OneStopper, CallsOK, Elected, Draining
  <2>5. ASSUME NEW x \in Ops, DrainExecute(t, x) PROVE OneStopper'
    <3>1. /\ UNCHANGED stopReq /\ spc[t] \in {"xcpu", "xio", "xtmr"}
          /\ UNCHANGED spc \/ spc' = [spc EXCEPT ![t] = "join"]
      BY <2>5 DEF DrainExecute, lifeVars
    <3> QED
      BY <3>1 DEF OneStopper, CallsOK, Elected, Draining
  <2> QED
    BY <1>4, <2>1, <2>2, <2>3, <2>4, <2>5 DEF StopStep
<1>5. CASE Terminated \/ UNCHANGED vars
  BY <1>0, <1>5 DEF Terminated, vars, lifeVars, stopVars
<1> QED
  BY <1>1, <1>2, <1>3, <1>4, <1>5 DEF Next

\* Initially every operation is idle.
LEMMA PlaceInit == Init => PlaceInv
<1> SUFFICES ASSUME Init PROVE PlaceInv
  OBVIOUS
<1>1. ASSUME NEW op \in Ops PROVE Single(op)
  BY DEF Init, Single, Outside, Queued, Timed, Own, OwnQueue, OwnRing, In
<1>2. BatchesRun /\ CqesInflight
  BY DEF Init, BatchesRun, CqesInflight
<1>3. OneStopper
  BY DEF Init, OneStopper, Elected, Draining
<1> QED
  BY <1>1, <1>2, <1>3 DEF PlaceInv

\* PlaceInv is inductive under TypeInv.
LEMMA PlaceStep == TypeInv /\ PlaceInv /\ [Next]_vars => PlaceInv'
<1> SUFFICES ASSUME TypeInv, PlaceInv, [Next]_vars PROVE PlaceInv'
  OBVIOUS
<1>1. PlacesOK /\ LoopOK /\ CallsOK
  BY DEF TypeInv
<1>2. PlacesOK'
  BY <1>1, PlacesStep
<1>3. BatchesRun' /\ CqesInflight' /\ OneStopper'
  BY <1>1, BatchesStep, CqesStep, StopperStep DEF PlaceInv
<1> QED
  BY <1>1, <1>2, <1>3, SingleStep DEF PlaceInv

\* In every behaviour of the worker group PlaceInv holds.
THEOREM PlaceInvariant == Spec => []PlaceInv
  BY PlaceInit, PlaceStep, TypeInvariant, PTL DEF Spec

\* A container of which only worker u holds op counts once, or not at all.
LEMMA OwnCount ==
  ASSUME NEW op, NEW f, NEW u \in Workers, \A v \in Workers \ {u} : op \notin f[v]
  PROVE  Cardinality({w \in Workers : op \in f[w]}) = In(op, f[u])
<1>1. CASE op \in f[u]
  <2>1. {w \in Workers : op \in f[w]} = {u}
    BY <1>1, Zenon
  <2> QED
    BY <1>1, <2>1, FS_Singleton, Zenon DEF In
<1>2. CASE op \notin f[u]
  <2>1. {w \in Workers : op \in f[w]} = {}
    BY <1>2
  <2> QED
    BY <1>2, <2>1, FS_EmptySet DEF In
<1> QED
  BY <1>1, <1>2, Zenon

\* The two groups of places, counted together, are the places that hold op.
LEMMA SingleHolders ==
  ASSUME PlacesOK, NEW op \in Ops, Single(op)
  PROVE  Holders(op) = 1
<1> DEFINE Count(f) == Cardinality({w \in Workers : op \in f[w]})
<1>0. completed[op] \in Nat
  BY DEF PlacesOK
<1>1. ASSUME NEW u \in Workers, \A v \in Workers \ {u} : Own(op, v) = 0
      PROVE  /\ Count(localCpu) = In(op, localCpu[u]) /\ Count(localIo) = In(op, localIo[u])
             /\ Count(retry) = In(op, retry[u]) /\ Count(inflight) = In(op, inflight[u])
             /\ Count(batch) = In(op, batch[u])
  <2>1. ASSUME NEW v \in Workers \ {u}
        PROVE  /\ op \notin localCpu[v] /\ op \notin localIo[v] /\ op \notin retry[v]
               /\ op \notin inflight[v] /\ op \notin batch[v]
    <3>1. Own(op, v) = 0
      BY <1>1
    <3>3. /\ In(op, localCpu[v]) = 0 /\ In(op, localIo[v]) = 0 /\ In(op, retry[v]) = 0
          /\ In(op, inflight[v]) = 0 /\ In(op, batch[v]) = 0
      BY <3>1, OwnNothing
    <3> QED
      BY <3>3, InSays, Zenon
  <2> QED
    BY <2>1, OwnCount, Zenon
<1>9. Holders(op) = In(op, idle) + In(op, cpuQ) + In(op, ioQ) + In(op, waits) + In(op, ready)
                    + In(op, taken) + Count(localCpu) + Count(localIo) + Count(retry)
                    + Count(inflight) + Count(batch) + completed[op]
  BY Zenon DEF Holders, In
<1>8. \A S : In(op, S) \in Nat
  BY InSays
<1>2. ASSUME NEW u \in Workers, \A v \in Workers \ {u} : Own(op, v) = 0
      PROVE  Holders(op) = Outside(op) + Own(op, u)
  <2>1. /\ Count(localCpu) = In(op, localCpu[u]) /\ Count(localIo) = In(op, localIo[u])
        /\ Count(retry) = In(op, retry[u]) /\ Count(inflight) = In(op, inflight[u])
        /\ Count(batch) = In(op, batch[u])
    BY <1>1, <1>2, Zenon
  <2> HIDE DEF Count
  <2> QED
    BY <1>0, <1>8, <1>9, <2>1 DEF Outside, Queued, Timed, Own, OwnQueue, OwnRing
<1>3. CASE Workers = {}
  <2>1. ASSUME NEW f PROVE Count(f) = 0
    <3>1. {w \in Workers : op \in f[w]} = {}
      BY <1>3
    <3> QED
      BY <3>1, FS_EmptySet
  <2>2. Outside(op) = 1
    BY <1>3 DEF Single
  <2> HIDE DEF Count
  <2> QED
    BY <1>0, <1>8, <1>9, <2>1, <2>2 DEF Outside, Queued, Timed
<1>4. ASSUME NEW u \in Workers PROVE Holders(op) = 1
  <2>1. CASE Outside(op) = 1 /\ \A w \in Workers : Own(op, w) = 0
    BY <1>2, <1>4, <2>1
  <2>2. CASE /\ Outside(op) = 0
             /\ \E w \in Workers : /\ Own(op, w) = 1
                                   /\ \A v \in Workers \ {w} : Own(op, v) = 0
    BY <1>2, <2>2
  <2> QED
    BY <2>1, <2>2 DEF Single
<1> QED
  BY <1>3, <1>4

\* For any number of threads and operations, at every moment each operation is in
\* exactly one place: no hand-over between the shared queues, the worker's own
\* queues, the ring, the timers, the final drains and the stopping thread loses an
\* operation or completes it twice, on the failure paths of the ring too.
THEOREM ExactlyOnceCorrect == Spec => []ExactlyOnce
<1>1. TypeInv /\ PlaceInv => ExactlyOnce
  BY SingleHolders DEF TypeInv, PlaceInv, ExactlyOnce
<1> QED
  BY <1>1, TypeInvariant, PlaceInvariant, PTL

(***************************************************************************)
(* What a finished stop() means, for any number of workers, publishers,     *)
(* stoppers and operations: every operation that was started has been       *)
(* delivered, and (when no receiver and no signal handler stops the         *)
(* context) no worker has a native context any more.                        *)
(*                                                                          *)
(* The inductive invariant follows the last thread that can still touch the *)
(* queues.  From the moment the elected thread finds the other workers gone *)
(* until stopped is set, that is the elected thread; afterwards it is the   *)
(* worker it may have run on, which does not leave its final drain before   *)
(* it has seen every queue empty.                                           *)
(***************************************************************************)

\* A worker inside stop() is in its loop, and not in the last two steps of its final
\* drain, which run no receiver.
InStop ==
  \A w \in Workers : spc[w] # "none" => ~Exited(w) /\ st[w] \notin {"io3", "out"}

\* A worker leaves its final drain with nothing in its own queues: after
\* abort_inflight_io() the ring is empty, after the last run_cpu_batch() the local
\* CPU queue is, and after the last consume_io_tasks() everything is.
OwnDrained ==
  \A w \in Workers :
    /\ Exited(w) \/ st[w] = "out" =>
         localCpu[w] = {} /\ localIo[w] = {} /\ retry[w] = {} /\ inflight[w] = {}
    /\ st[w] = "io3" => localCpu[w] = {}
    /\ st[w] \in {"tmr3", "cpu3", "exec3", "io3", "out"} => inflight[w] = {}

\* The worker is out of run(), or about to find that life_state rejects it.
Left(w) == ph[w] \in {"idle", "release", "returned"} \/ At(w, "enter", "check")

\* life_state is published before the stopping thread waits.
LifePublished ==
  /\ \A t \in Workers \cup Stoppers : spc[t] \in {"wake", "wait"} \cup Draining => life
  /\ stopped => life

\* While the stopping thread drains, every other worker has left; once stopped is
\* set, at most one worker has not.
OthersLeft ==
  /\ \A t \in Workers \cup Stoppers : spc[t] \in Draining => \A w \in Workers \ {t} : Left(w)
  /\ stopped => \A v, w \in Workers : Left(v) \/ Left(w) \/ v = w

\* The worker will still pop the shared CPU queue, or the shared I/O queue.
DrainsCpu(w) == ~Exited(w) /\ st[w] \notin {"io3", "out"}

DrainsIo(w) == ~Exited(w) /\ st[w] # "out"

\* A stopping thread outside the context empties the shared queues one after the
\* other and nobody fills them again; after stopped, the worker that has not left
\* is responsible for what is in them.
QueuesDrained ==
  /\ \A t \in Stoppers :
       /\ spc[t] \in {"xcpu", "io", "xio", "tmr", "xtmr"} => cpuQ = {}
       /\ spc[t] \in {"xio", "tmr", "xtmr"} => ioQ = {}
  /\ stopped => /\ cpuQ # {} => \E w \in Workers : DrainsCpu(w)
                /\ ioQ # {} => \E w \in Workers : DrainsIo(w)

\* The thread that set stopped has nothing left, and no other thread is elected.
StopOver ==
  stopped => /\ taken = {} /\ stopReq
             /\ \A t \in Workers \cup Stoppers : spc[t] \notin Elected

\* Only timer waits are linked to timers.
TimersHoldWaits == waits \subseteq TimerOps /\ ready \subseteq TimerOps

StopInv ==
  /\ InStop /\ OwnDrained /\ LifePublished /\ OthersLeft /\ QueuesDrained /\ StopOver
  /\ TimersHoldWaits

(***************************************************************************)
(* A worker inside stop() stays where it is.                               *)
(***************************************************************************)
\* Going on from a source, a worker is still in its loop, and reaches the last two
\* steps of the final drain only from the steps before them.
LEMMA NextStays ==
  ASSUME LoopOK, NEW w \in Workers, GotoNext(w)
  PROVE  /\ Alone(w) /\ ph'[w] = ph[w] /\ ~Exited(w)
         /\ st'[w] = "io3" => st[w] = "cpu3"
         /\ st'[w] = "out" => st[w] = "io3"
         /\ st'[w] \in {"tmr3", "cpu3", "exec3"} => st[w] \in {"abort", "tmr3"}
<1>1. ph \in [Workers -> Phases] /\ st \in [Workers -> Steps] /\ StepOf(ph[w], st[w])
  BY DEF LoopOK
<1>2. PICK s : /\ st' = [st EXCEPT ![w] = s] /\ ph' = [ph EXCEPT ![w] = ph[w]]
               /\ s = "io3" => st[w] = "cpu3"
               /\ s = "out" => st[w] = "io3"
               /\ s \in {"tmr3", "cpu3", "exec3"} => st[w] \in {"abort", "tmr3"}
               /\ st[w] \notin {"none", "check", "open", "run"}
  BY DEF GotoNext, Follow, Goto
<1> QED
  BY <1>1, <1>2 DEF Alone, Exited, StepOf

\* After work was found, a worker is in its loop and not in the last two steps.
LEMMA FoundStays ==
  ASSUME LoopOK, NEW w \in Workers, GotoFound(w)
  PROVE  /\ Alone(w) /\ ~Exited(w) /\ ph'[w] \notin {"idle", "enter", "release", "returned"}
         /\ st'[w] \notin {"io3", "out"}
         /\ st'[w] \in {"tmr3", "cpu3", "exec3"} => st[w] \in {"tmr3", "exec3"}
<1>1. ph \in [Workers -> Phases] /\ st \in [Workers -> Steps]
  BY DEF LoopOK
<1> QED
  BY <1>1 DEF GotoFound, Follow, Goto, Alone, Exited, Closing

\* One worker moves, and spc stays.
LEMMA InStopMove ==
  ASSUME InStop, NEW w \in Workers, Alone(w), UNCHANGED spc,
         spc[w] # "none" => ~Exited(w)' /\ st'[w] \notin {"io3", "out"}
  PROVE  InStop'
  BY Zenon DEF InStop, Alone, Exited

\* stop() on a worker starts inside execute_tasks() or in a signal handler while the
\* worker is blocked, and the worker does nothing until it returns.
LEMMA InStopStep ==
  ASSUME LoopOK, CallsOK, InStop, [Next]_vars
  PROVE  InStop'
<1>0. ph \in [Workers -> Phases] /\ st \in [Workers -> Steps]
  BY DEF LoopOK
<1>1. ASSUME NEW w \in Workers, WorkerStep(w) PROVE InStop'
  <2> USE DEF stopVars
  <2>1. ASSUME NEW x \in Ops, ExecuteTask(w, x) PROVE InStop'
    <3>1. UNCHANGED spc \/ spc' = [spc EXCEPT ![w] = "elect"]
      BY <2>1, Zenon DEF ExecuteTask
    <3>2. st[w] \in Executing /\ (GotoFound(w) \/ UNCHANGED <<ph, st>>)
      BY <2>1, Zenon DEF ExecuteTask, Executing
    <3>3. Alone(w) /\ ~Exited(w)' /\ st'[w] \notin {"io3", "out"}
      <4>1. ~Exited(w)
        BY <3>2 DEF Exited, Executing, LoopOK, StepOf
      <4>2. CASE UNCHANGED <<ph, st>>
        BY <3>2, <4>1, <4>2, Zenon DEF Alone, Exited, Executing
      <4> QED
        BY <3>2, <4>2, FoundStays DEF Exited
    <3>4. \A v \in Workers \ {w} : spc'[v] = spc[v]
      BY <3>1 DEF CallsOK
    <3> QED
      BY <3>3, <3>4, Zenon DEF InStop, Alone, Exited
  <2>2. CASE CollectReadyCqes(w) \/ RunCpuBatch(w) \/ ConsumeTimeouts(w) \/ ConsumeIo(w)
             \/ AbortInflight(w) \/ HandleFin(w) \/ PrepareFound(w) \/ WaitReturns(w)
             \/ EndWaitUnlink(w) \/ EndWaitInc(w) \/ DecideAfterWait(w) \/ LeaveRun(w)
    <3>1. Free(w) /\ UNCHANGED spc
      BY <2>2, Zenon
         DEF CollectReadyCqes, RunCpuBatch, ConsumeTimeouts, ConsumeIo, AbortInflight,
         HandleFin, PrepareFound, WaitReturns, LeaveKernel, EndWaitUnlink, EndWaitInc,
         DecideAfterWait, LeaveRun
    <3>2. Alone(w)
      <4>1. CASE GotoNext(w) \/ GotoFound(w)
        BY <4>1, NextStays, FoundStays
      <4>2. CASE ~(GotoNext(w) \/ GotoFound(w))
        BY <1>0, <2>2, <4>2, Zenon
           DEF CollectReadyCqes, RunCpuBatch, ConsumeTimeouts, ConsumeIo,
           AbortInflight, HandleFin, StartWait, PrepareFound, WaitReturns, LeaveKernel,
           EndWaitUnlink, EndWaitInc, DecideAfterWait, LeaveRun, Goto, Alone
      <4> QED
        BY <4>1, <4>2
    <3> QED
      BY <3>1, <3>2, InStopMove DEF Free
  <2>3. CASE ArmWakePolls(w) \/ BeginWaitLink(w) \/ BeginWaitDec(w) \/ RearmWakePolls(w)
    <3>1. Alone(w) /\ UNCHANGED spc /\ ~Exited(w)' /\ st'[w] \notin {"io3", "out"}
      BY <1>0, <2>3, Zenon DEF ArmWakePolls, BeginWaitLink, BeginWaitDec, RearmWakePolls, Goto,
         Alone, Exited
    <3> QED
      BY <3>1, InStopMove
  <2>4. CASE CanStartRun(w) \/ RunNativeLoop(w) \/ EnterRun(w) \/ ReleaseSlot(w)
    <3>1. Alone(w) /\ UNCHANGED spc /\ Exited(w)
      BY <1>0, <2>4 DEF CanStartRun, RunNativeLoop, EnterRun, ReleaseSlot, Goto, At, Alone,
         Exited
    <3> QED
      BY <3>1, InStopMove DEF InStop
  <2> QED
    BY <1>1, <2>1, <2>2, <2>3, <2>4 DEF WorkerStep
<1>2. ASSUME NEW w \in Workers, WorkerEnv(w) PROVE InStop'
  <2>1. CASE RunCall(w)
    <3>1. Alone(w) /\ UNCHANGED spc /\ Exited(w)
      BY <1>0, <2>1 DEF RunCall, Goto, At, Alone, Exited, stopVars
    <3> QED
      BY <3>1, InStopMove DEF InStop
  <2>2. CASE WaitTimesOut(w) \/ WaitInterrupted(w) \/ WaitFails(w)
    <3>1. Alone(w) /\ UNCHANGED spc /\ Free(w)
      BY <1>0, <2>2 DEF WaitTimesOut, WaitInterrupted, WaitFails, LeaveKernel, Goto, Alone,
         stopVars
    <3> QED
      BY <3>1, InStopMove DEF Free
  <2>3. CASE KernelCompletes(w)
    BY <2>3, Zenon DEF KernelCompletes, loopVars, stopVars, InStop, Exited
  <2> QED
    BY <1>2, <2>1, <2>2, <2>3 DEF WorkerEnv
<1>3. ASSUME NEW c \in Clients, ClientCall(c) \/ ClientStep(c) PROVE InStop'
  BY <1>3, Zenon DEF ClientCall, Publish, StartTimerWait, ClientStep, WakeIfAllSleeping,
     LoadAwake, LoadRunning, WakeOneSleeping, workerUnchanged, loopVars, stopVars, InStop,
     Exited
<1>4. ASSUME NEW t \in Workers \cup Stoppers, StopCall(t) \/ StopStep(t)
      PROVE  InStop'
  <2>1. UNCHANGED <<ph, st>>
    BY <1>4, Zenon
       DEF StopCall, StopStep, ElectStopper, JoinStopped, AbortTimerWaits, PublishLife,
       WakeWorkers, WorkersGone, DrainTake, DrainExecute, DrainNext, workerUnchanged, loopVars
  <2>2. \A u \in (Workers \cup Stoppers) \ {t} : spc'[u] = spc[u]
    BY <1>4, Zenon
       DEF StopCall, StopStep, ElectStopper, JoinStopped, AbortTimerWaits, PublishLife,
       WakeWorkers, WorkersGone, DrainTake, DrainExecute, DrainNext, GotoStop, CallsOK
  <2>3. CASE StopCall(t)
    <3>1. t \in Workers => At(t, "blocked", "none")
      BY <2>3, StoppersAssumption DEF StopCall
    <3> QED
      BY <2>1, <2>2, <3>1 DEF InStop, Exited, At
  <2>4. CASE StopStep(t)
    <3>1. spc[t] # "none"
      BY <2>4, Zenon DEF StopStep, ElectStopper, JoinStopped, AbortTimerWaits, PublishLife,
         WakeWorkers, WorkersGone, DrainTake, DrainExecute, DrainNext, StopAt
    <3> QED
      BY <2>1, <2>2, <3>1 DEF InStop, Exited
  <2> QED
    BY <1>4, <2>3, <2>4
<1>5. CASE Terminated \/ UNCHANGED vars
  BY <1>5, Zenon DEF Terminated, vars, loopVars, stopVars, InStop, Exited
<1> QED
  BY <1>1, <1>2, <1>3, <1>4, <1>5 DEF Next


(***************************************************************************)
(* A worker that leaves has nothing of its own.                            *)
(***************************************************************************)
\* Nobody but w moves, and nobody else's queues change.
OnlyOf(w) ==
  /\ Alone(w)
  /\ \A v \in Workers \ {w} : /\ localCpu'[v] = localCpu[v] /\ localIo'[v] = localIo[v]
                              /\ retry'[v] = retry[v] /\ inflight'[v] = inflight[v]

DrainedOf(w) ==
  /\ Exited(w) \/ st[w] = "out" =>
       localCpu[w] = {} /\ localIo[w] = {} /\ retry[w] = {} /\ inflight[w] = {}
  /\ st[w] = "io3" => localCpu[w] = {}
  /\ st[w] \in {"tmr3", "cpu3", "exec3", "io3", "out"} => inflight[w] = {}

\* A step of one worker has to be justified for that worker only.
LEMMA DrainedMove ==
  ASSUME OwnDrained, NEW w \in Workers, OnlyOf(w), DrainedOf(w)'
  PROVE  OwnDrained'
<1>1. ASSUME NEW v \in Workers \ {w} PROVE DrainedOf(v)'
  BY Zenon DEF OwnDrained, OnlyOf, Alone, DrainedOf, Exited
<1> QED
  BY <1>1, Zenon DEF OwnDrained, DrainedOf

\* The final drain (run_ready_once() rounds, abort_inflight_io(), the last passes) ends
\* only when the worker's own queues and its ring are empty.
LEMMA OwnDrainedStep ==
  ASSUME PlacesOK, LoopOK, CallsOK, InStop, OwnDrained, [Next]_vars
  PROVE  OwnDrained'
<1>0. /\ ph \in [Workers -> Phases] /\ st \in [Workers -> Steps]
      /\ \A v \in Workers : StepOf(ph[v], st[v])
  BY DEF LoopOK
<1>Q. /\ localCpu \in [Workers -> SUBSET Ops] /\ localIo \in [Workers -> SUBSET Ops]
      /\ retry \in [Workers -> SUBSET Ops] /\ inflight \in [Workers -> SUBSET Ops]
  BY DEF PlacesOK
<1>S. ASSUME UNCHANGED <<ph, st, localCpu, localIo, retry, inflight>> PROVE OwnDrained'
  BY <1>S, Zenon DEF OwnDrained, Exited
<1>1. ASSUME NEW w \in Workers, WorkerStep(w) PROVE OwnDrained'
  <2>0. DrainedOf(w)
    BY Zenon DEF OwnDrained, DrainedOf
  <2>1. CASE CollectReadyCqes(w)
    <3>1. st[w] \in {"cqe", "cqe1"} /\ (GotoNext(w) \/ GotoFound(w))
      BY <2>1, Zenon DEF CollectReadyCqes
    <3>2. OnlyOf(w)
      <4>1. Alone(w)
        BY <3>1, NextStays, FoundStays, Zenon
      <4> QED
        BY <1>Q, <2>1, <4>1, Zenon DEF CollectReadyCqes, OnlyOf
    <3>3. DrainedOf(w)'
      BY <3>1, NextStays, FoundStays, Zenon DEF DrainedOf, Exited
    <3> QED
      BY <3>2, <3>3, DrainedMove
  <2>2. CASE RunCpuBatch(w)
    <3>1. /\ UNCHANGED <<localIo, retry, inflight>> /\ st[w] \in {"cpu", "cpu1", "cpu3"}
          /\ \/ localCpu[w] = {} /\ UNCHANGED localCpu /\ GotoNext(w)
             \/ /\ \E s \in {"exec", "exec1", "exec3"} :
                     Goto(w, ph[w], s) /\ (s = "exec3" => st[w] = "cpu3")
                /\ UNCHANGED localCpu \/ localCpu' = [localCpu EXCEPT ![w] = {}]
      BY <2>2, Zenon DEF RunCpuBatch
    <3>2. CASE GotoNext(w) /\ localCpu[w] = {} /\ UNCHANGED localCpu
      <4>1. OnlyOf(w)
        BY <3>1, <3>2, NextStays, Zenon DEF OnlyOf
      <4>2. DrainedOf(w)'
        BY <2>0, <3>1, <3>2, NextStays, Zenon DEF DrainedOf, Exited
      <4> QED
        BY <4>1, <4>2, DrainedMove
    <3>3. CASE ~(GotoNext(w) /\ localCpu[w] = {} /\ UNCHANGED localCpu)
      <4>1. OnlyOf(w)
        BY <1>0, <1>Q, <3>1, <3>3 DEF OnlyOf, Alone, Goto
      <4>2. DrainedOf(w)'
        BY <1>0, <2>0, <3>1, <3>3, Zenon DEF DrainedOf, Exited, Goto, StepOf
      <4> QED
        BY <4>1, <4>2, DrainedMove
    <3> QED
      BY <3>2, <3>3
  <2>3. ASSUME NEW x \in Ops, ExecuteTask(w, x) PROVE OwnDrained'
    <3>1. PICK kids : StartKids(w, kids)
      BY <2>3, Zenon DEF ExecuteTask
    <3>2. /\ UNCHANGED <<retry, inflight>> /\ st[w] \in Executing
          /\ GotoFound(w) \/ UNCHANGED <<ph, st>>
      BY <2>3, Zenon DEF ExecuteTask, Executing
    <3>3. ~Exited(w)
      BY <1>0, <3>2 DEF Exited, Executing, StepOf
    <3>4. Alone(w) /\ ~Exited(w)' /\ st'[w] \notin {"io3", "out"}
          /\ (st'[w] \in {"tmr3", "cpu3", "exec3"} => st[w] \in {"tmr3", "exec3"})
      <4>1. CASE GotoFound(w)
        BY <4>1, FoundStays DEF Exited
      <4>2. CASE UNCHANGED <<ph, st>>
        BY <3>2, <3>3, <4>2 DEF Alone, Exited, Executing
      <4> QED
        BY <3>2, <4>1, <4>2
    <3>5. OnlyOf(w)
      BY <3>1, <3>2, <3>4, Zenon DEF OnlyOf, StartKids
    <3> QED
      BY <2>0, <3>2, <3>4, <3>5, DrainedMove, Zenon DEF DrainedOf
  <2>4. CASE ConsumeTimeouts(w)
    <3>1. /\ UNCHANGED <<localIo, retry, inflight>> /\ st[w] \in {"tmr", "tmr1", "tmr3"}
          /\ GotoNext(w) \/ GotoFound(w) \/ Goto(w, "rearm", "none")
          /\ \A v \in Workers \ {w} : localCpu'[v] = localCpu[v]
      BY <1>Q, <2>4, Zenon DEF ConsumeTimeouts
    <3>2. /\ Alone(w) /\ ~Exited(w)' /\ st'[w] \notin {"io3", "out"}
          /\ st'[w] \in {"tmr3", "cpu3", "exec3"} => st[w] = "tmr3"
      <4>1. CASE GotoNext(w) \/ GotoFound(w)
        BY <3>1, <4>1, NextStays, FoundStays, Zenon DEF Exited
      <4>2. CASE Goto(w, "rearm", "none")
        BY <1>0, <4>2 DEF Goto, Alone, Exited
      <4> QED
        BY <3>1, <4>1, <4>2, Zenon
    <3> QED
      BY <2>0, <3>1, <3>2, DrainedMove, Zenon DEF DrainedOf, OnlyOf
  <2>5. CASE ConsumeIo(w)
    <3>1. st[w] \in {"io", "io3"} /\ (GotoNext(w) \/ GotoFound(w))
      BY <2>5, Zenon DEF ConsumeIo
    <3>2. Alone(w) /\ ~Exited(w)' /\ st'[w] \notin {"tmr3", "cpu3", "exec3", "io3"}
      BY <3>1, NextStays, FoundStays, Zenon DEF Exited
    <3>3. OnlyOf(w)
      BY <1>Q, <2>5, <3>2, Zenon DEF ConsumeIo, OnlyOf
    <3>4. st'[w] = "out" => /\ st[w] = "io3" /\ retry[w] = {} /\ localIo[w] = {}
                            /\ UNCHANGED <<localCpu, localIo, retry, inflight>>
      <4>1. CASE GotoFound(w)
        BY <4>1, FoundStays
      <4>2. CASE ~GotoFound(w)
        BY <2>5, <4>2, NextStays, Zenon DEF ConsumeIo
      <4> QED
        BY <4>1, <4>2, Zenon
    <3>5. DrainedOf(w)'
      BY <2>0, <3>2, <3>4, Zenon DEF DrainedOf
    <3> QED
      BY <3>3, <3>5, DrainedMove
  <2>6. CASE AbortInflight(w)
    <3>1. GotoNext(w) /\ st[w] = "abort" /\ inflight'[w] = {}
      BY <1>Q, <2>6 DEF AbortInflight
    <3>2. OnlyOf(w)
      BY <1>Q, <2>6, <3>1, NextStays, Zenon DEF AbortInflight, OnlyOf
    <3>3. DrainedOf(w)'
      BY <3>1, NextStays, Zenon DEF DrainedOf, Exited
    <3> QED
      BY <3>2, <3>3, DrainedMove
  <2>7. CASE \/ CanStartRun(w) \/ RunNativeLoop(w) \/ EnterRun(w) \/ LeaveRun(w)
             \/ ReleaseSlot(w)
    <3>1. Alone(w) /\ UNCHANGED ownQ /\ (Exited(w) \/ st[w] = "out")
          /\ st'[w] \notin {"tmr3", "cpu3", "exec3", "io3", "out"}
      BY <1>0, <2>7, Zenon
         DEF CanStartRun, RunNativeLoop, EnterRun, LeaveRun, ReleaseSlot, Goto,
         At, Alone, Exited
    <3> QED
      BY <2>0, <3>1, DrainedMove, Zenon DEF DrainedOf, OnlyOf, ownQ
  <2>8. CASE \/ ArmWakePolls(w) \/ HandleFin(w) \/ PrepareFound(w) \/ BeginWaitLink(w)
             \/ BeginWaitDec(w) \/ RearmWakePolls(w) \/ WaitReturns(w) \/ EndWaitUnlink(w)
             \/ EndWaitInc(w) \/ DecideAfterWait(w)
    <3>1. Alone(w) /\ UNCHANGED ownQ /\ ~Exited(w)'
          /\ st'[w] \notin {"tmr3", "cpu3", "exec3", "io3", "out"}
      BY <1>0, <2>8, Zenon DEF ArmWakePolls, HandleFin, StartWait, PrepareFound, BeginWaitLink,
         BeginWaitDec, RearmWakePolls, WaitReturns, LeaveKernel, EndWaitUnlink, EndWaitInc,
         DecideAfterWait, Goto, Alone, Exited, StepOf
    <3> QED
      BY <2>0, <3>1, DrainedMove, Zenon DEF DrainedOf, OnlyOf, ownQ
  <2> QED
    BY <1>1, <2>1, <2>2, <2>3, <2>4, <2>5, <2>6, <2>7, <2>8 DEF WorkerStep
<1>2. ASSUME NEW w \in Workers, WorkerEnv(w) PROVE OwnDrained'
  <2>0. DrainedOf(w)
    BY Zenon DEF OwnDrained, DrainedOf
  <2>1. CASE RunCall(w) \/ WaitTimesOut(w) \/ WaitInterrupted(w) \/ WaitFails(w)
    <3>1. Alone(w) /\ UNCHANGED ownQ /\ (Exited(w)' => Exited(w))
          /\ st'[w] \notin {"tmr3", "cpu3", "exec3", "io3", "out"}
      BY <1>0, <2>1 DEF RunCall, WaitTimesOut, WaitInterrupted, WaitFails, LeaveKernel, Goto,
         At, Alone, Exited
    <3> QED
      BY <2>0, <3>1, DrainedMove, Zenon DEF DrainedOf, OnlyOf, ownQ
  <2>2. CASE KernelCompletes(w)
    BY <1>S, <2>2, Zenon DEF KernelCompletes, loopVars
  <2> QED
    BY <1>2, <2>1, <2>2 DEF WorkerEnv
<1>3. ASSUME NEW c \in Clients, ClientCall(c) \/ ClientStep(c) PROVE OwnDrained'
  BY <1>3, <1>S, Zenon DEF ClientCall, Publish, StartTimerWait, ClientStep, WakeIfAllSleeping,
     LoadAwake, LoadRunning, WakeOneSleeping, workerUnchanged, loopVars
<1>4. ASSUME NEW t \in Workers \cup Stoppers, StopCall(t) \/ StopStep(t)
      PROVE  OwnDrained'
  <2>1. CASE \E x \in Ops : DrainExecute(t, x)
    <3>1. PICK kids : StartKids(t, kids)
      BY <2>1 DEF DrainExecute
    <3>2. UNCHANGED <<ph, st, retry, inflight>> /\ spc[t] # "none"
      BY <2>1 DEF DrainExecute, loopVars
    <3>3. CASE t \in Workers
      <4>1. OnlyOf(t)
        BY <3>1, <3>2, Zenon DEF OnlyOf, Alone, StartKids
      <4>2. DrainedOf(t)'
        BY <3>2, <3>3 DEF InStop, OwnDrained, DrainedOf, Exited
      <4> QED
        BY <3>3, <4>1, <4>2, DrainedMove
    <3>4. CASE t \notin Workers
      <4>1. \A v \in Workers : localCpu'[v] = localCpu[v] /\ localIo'[v] = localIo[v]
        BY <3>1, <3>4, Zenon DEF StartKids
      <4> QED
        BY <3>2, <4>1 DEF OwnDrained, Exited
    <3> QED
      BY <3>3, <3>4
  <2>2. CASE ~\E x \in Ops : DrainExecute(t, x)
    BY <1>4, <1>S, <2>2, Zenon
       DEF StopCall, StopStep, ElectStopper, JoinStopped, AbortTimerWaits,
       PublishLife, WakeWorkers, WorkersGone, DrainTake, DrainNext, workerUnchanged, loopVars
  <2> QED
    BY <2>1, <2>2
<1>5. CASE Terminated \/ UNCHANGED vars
  BY <1>5, <1>S DEF Terminated, vars, loopVars, ownQ
<1> QED
  BY <1>1, <1>2, <1>3, <1>4, <1>5 DEF Next


(***************************************************************************)
(* Where a worker's step can lead.                                         *)
(***************************************************************************)
\* A worker that left stays out once life_state is published (can_start_run()), and
\* the way out of a run leads through the last two steps of the final drain.
LEMMA WorkerMoves ==
  ASSUME LoopOK, NEW w \in Workers, WorkerStep(w) \/ WorkerEnv(w)
  PROVE  /\ Alone(w)
         /\ life /\ Left(w) => Left(w)'
         /\ st'[w] = "io3" => st[w] \in {"cpu3", "io3"}
         /\ st'[w] = "out" => st[w] \in {"io3", "out"}
         /\ Exited(w)' => Exited(w) \/ st[w] = "out"
<1> DEFINE Goal == /\ Alone(w)
                   /\ life /\ Left(w) => Left(w)'
                   /\ st'[w] = "io3" => st[w] \in {"cpu3", "io3"}
                   /\ st'[w] = "out" => st[w] \in {"io3", "out"}
                   /\ Exited(w)' => Exited(w) \/ st[w] = "out"
<1>0. ph \in [Workers -> Phases] /\ st \in [Workers -> Steps] /\ StepOf(ph[w], st[w])
  BY DEF LoopOK
<1>1. Left(w) => Exited(w) /\ st[w] \in {"none", "check"}
  BY <1>0 DEF Left, Exited, StepOf, At
<1>2. ASSUME GotoNext(w) \/ GotoFound(w) PROVE Goal
  <2>1. ~Left(w)
    BY <1>1, <1>2, NextStays, FoundStays, Zenon
  <2> QED
    BY <1>2, <2>1, NextStays, FoundStays, Zenon DEF Exited
<1>3. ASSUME UNCHANGED <<ph, st>> PROVE Goal
  BY <1>3, Zenon DEF Alone, Left, Exited, At
<1>4. CASE CanStartRun(w) \/ RunNativeLoop(w) \/ EnterRun(w) \/ ReleaseSlot(w) \/ RunCall(w)
  BY <1>0, <1>4, Zenon DEF CanStartRun, RunNativeLoop, EnterRun, ReleaseSlot, RunCall, Goto, At,
     Alone, Left, Exited
<1>5. CASE \/ ArmWakePolls(w) \/ HandleFin(w) \/ PrepareFound(w) \/ BeginWaitLink(w)
           \/ BeginWaitDec(w) \/ RearmWakePolls(w) \/ WaitReturns(w) \/ EndWaitUnlink(w)
           \/ EndWaitInc(w) \/ DecideAfterWait(w) \/ WaitTimesOut(w) \/ WaitInterrupted(w)
           \/ WaitFails(w)
  <2>1. Alone(w) /\ ~Exited(w)' /\ st'[w] \notin {"io3", "out"}
    BY <1>0, <1>5, Zenon DEF ArmWakePolls, HandleFin, StartWait, PrepareFound, BeginWaitLink,
       BeginWaitDec, RearmWakePolls, WaitReturns, LeaveKernel, EndWaitUnlink, EndWaitInc,
       DecideAfterWait, WaitTimesOut, WaitInterrupted, WaitFails, Goto, Alone, Exited, StepOf
  <2>2. ~Left(w)
    BY <1>0, <1>1, <1>5, Zenon DEF ArmWakePolls, HandleFin, PrepareFound, BeginWaitLink,
       BeginWaitDec, RearmWakePolls, WaitReturns, LeaveKernel, EndWaitUnlink, EndWaitInc,
       DecideAfterWait, WaitTimesOut, WaitInterrupted, WaitFails, At, Left
  <2> QED
    BY <2>1, <2>2, Zenon
<1>6. CASE LeaveRun(w)
  BY <1>0, <1>6 DEF LeaveRun, Goto, Alone, Left, Exited
<1>7. CASE RunCpuBatch(w)
  <2>1. CASE GotoNext(w)
    BY <1>2, <2>1, Zenon
  <2>2. CASE ~GotoNext(w)
    <3>1. \E s \in {"exec", "exec1", "exec3"} : Goto(w, ph[w], s)
      BY <1>7, <2>2, Zenon DEF RunCpuBatch
    <3>2. st[w] \in {"cpu", "cpu1", "cpu3"}
      BY <1>7, Zenon DEF RunCpuBatch
    <3> QED
      BY <1>0, <1>1, <3>1, <3>2 DEF Goto, Alone, Exited
  <2> QED
    BY <2>1, <2>2, Zenon
<1>8. CASE ConsumeTimeouts(w)
  <2>1. CASE Goto(w, "rearm", "none")
    BY <1>0, <1>1, <1>8, <2>1 DEF ConsumeTimeouts, Goto, Alone, Exited
  <2>2. CASE ~Goto(w, "rearm", "none")
    BY <1>2, <1>8, <2>2, Zenon DEF ConsumeTimeouts
  <2> QED
    BY <2>1, <2>2, Zenon
<1>9. CASE \/ CollectReadyCqes(w) \/ (\E op \in Ops : ExecuteTask(w, op)) \/ ConsumeIo(w)
           \/ AbortInflight(w) \/ KernelCompletes(w)
  <2>1. GotoNext(w) \/ GotoFound(w) \/ UNCHANGED <<ph, st>>
    BY <1>9, Zenon DEF CollectReadyCqes, ExecuteTask, ConsumeIo, AbortInflight, KernelCompletes,
       loopVars
  <2> QED
    BY <1>2, <1>3, <2>1
<1> QED
  BY <1>4, <1>5, <1>6, <1>7, <1>8, <1>9, Zenon DEF WorkerStep, WorkerEnv

\* What a worker's step leaves alone.
LEMMA WorkerKeeps ==
  ASSUME CallsOK, NEW w \in Workers, WorkerStep(w) \/ WorkerEnv(w)
  PROVE  /\ UNCHANGED <<life, stopReq, stopped, taken>>
         /\ UNCHANGED spc \/ spc' = [spc EXCEPT ![w] = "elect"]
<1>1. ASSUME NEW x \in Ops, ExecuteTask(w, x)
      PROVE  /\ UNCHANGED <<life, stopReq, stopped, taken>>
             /\ UNCHANGED spc \/ spc' = [spc EXCEPT ![w] = "elect"]
  BY <1>1, Zenon DEF ExecuteTask, lifeVars
<1>2. CASE \/ CanStartRun(w) \/ RunNativeLoop(w) \/ EnterRun(w) \/ ArmWakePolls(w)
           \/ CollectReadyCqes(w) \/ RunCpuBatch(w) \/ ConsumeTimeouts(w) \/ ConsumeIo(w)
           \/ HandleFin(w) \/ PrepareFound(w)
  BY <1>2, Zenon DEF CanStartRun, RunNativeLoop, EnterRun, ArmWakePolls, CollectReadyCqes,
     RunCpuBatch, ConsumeTimeouts, ConsumeIo, HandleFin, PrepareFound, lifeVars, stopVars
<1>3. CASE \/ BeginWaitLink(w) \/ BeginWaitDec(w) \/ RearmWakePolls(w) \/ WaitReturns(w)
           \/ EndWaitUnlink(w) \/ EndWaitInc(w) \/ DecideAfterWait(w) \/ AbortInflight(w)
           \/ LeaveRun(w) \/ ReleaseSlot(w) \/ WorkerEnv(w)
  BY <1>3, Zenon DEF BeginWaitLink, BeginWaitDec, RearmWakePolls, WaitReturns, LeaveKernel,
     EndWaitUnlink, EndWaitInc, DecideAfterWait, AbortInflight, LeaveRun, ReleaseSlot,
     WorkerEnv, RunCall, WaitTimesOut, WaitInterrupted, WaitFails, KernelCompletes,
     lifeVars, stopVars
<1> QED
  BY <1>1, <1>2, <1>3 DEF WorkerStep


\* What a publisher's step leaves alone.
LEMMA ClientKeeps ==
  ASSUME NEW c \in Clients, ClientCall(c) \/ ClientStep(c)
  PROVE  UNCHANGED <<ph, st, life, stopReq, stopped, spc, taken>>
  BY Zenon DEF ClientCall, Publish, StartTimerWait, ClientStep, WakeIfAllSleeping, LoadAwake,
     LoadRunning, WakeOneSleeping, workerUnchanged, loopVars, lifeVars, stopVars

\* What a step of a thread inside stop() leaves alone, and what it never takes back.
LEMMA StopKeeps ==
  ASSUME CallsOK, NEW t \in Workers \cup Stoppers, StopCall(t) \/ StopStep(t)
  PROVE  /\ UNCHANGED <<ph, st>>
         /\ \A u \in (Workers \cup Stoppers) \ {t} : spc'[u] = spc[u]
         /\ (life => life') /\ (stopReq => stopReq') /\ (stopped => stopped')
<1>1. UNCHANGED <<ph, st>>
  BY Zenon DEF StopCall, StopStep, ElectStopper, JoinStopped, AbortTimerWaits, PublishLife,
     WakeWorkers, WorkersGone, DrainTake, DrainExecute, DrainNext, workerUnchanged, loopVars
<1>2. \A u \in (Workers \cup Stoppers) \ {t} : spc'[u] = spc[u]
  BY Zenon DEF StopCall, StopStep, ElectStopper, JoinStopped, AbortTimerWaits, PublishLife,
     WakeWorkers, WorkersGone, DrainTake, DrainExecute, DrainNext, GotoStop, CallsOK
<1>3. life => life'
  BY Zenon DEF StopCall, StopStep, ElectStopper, JoinStopped, AbortTimerWaits, PublishLife,
     WakeWorkers, WorkersGone, DrainTake, DrainExecute, DrainNext, lifeVars
<1>4. stopReq => stopReq'
  BY Zenon DEF StopCall, StopStep, ElectStopper, JoinStopped, AbortTimerWaits, PublishLife,
     WakeWorkers, WorkersGone, DrainTake, DrainExecute, DrainNext, lifeVars
<1>5. stopped => stopped'
  BY Zenon DEF StopCall, StopStep, ElectStopper, JoinStopped, AbortTimerWaits, PublishLife,
     WakeWorkers, WorkersGone, DrainTake, DrainExecute, DrainNext, lifeVars
<1> QED
  BY <1>1, <1>2, <1>3, <1>4, <1>5, Zenon

(***************************************************************************)
(* life_state and stopped.                                                 *)
(***************************************************************************)
\* begin_stop() stores life_state before stop_internal() waits for the workers.
LEMMA LifeStep ==
  ASSUME CallsOK, LifePublished, [Next]_vars
  PROVE  LifePublished'
<1> USE DEF Draining
<1>1. ASSUME NEW w \in Workers, WorkerStep(w) \/ WorkerEnv(w) PROVE LifePublished'
  <2>1. /\ UNCHANGED <<life, stopped>>
        /\ \A t \in Workers \cup Stoppers : spc'[t] = spc[t] \/ spc'[t] = "elect"
    BY <1>1, WorkerKeeps DEF CallsOK
  <2> QED
    BY <2>1 DEF LifePublished
<1>2. ASSUME NEW c \in Clients, ClientCall(c) \/ ClientStep(c) PROVE LifePublished'
  BY <1>2, ClientKeeps DEF LifePublished
<1>3. ASSUME NEW t \in Workers \cup Stoppers, StopCall(t) \/ StopStep(t)
      PROVE  LifePublished'
  <2>1. spc'[t] \in {"wake", "wait"} \cup Draining => life'
    BY <1>3, Zenon
       DEF StopCall, StopStep, ElectStopper, JoinStopped, AbortTimerWaits, PublishLife,
       WakeWorkers, WorkersGone, DrainTake, DrainExecute, DrainNext, GotoStop, StopAt,
       StopReturn, CallsOK, LifePublished, lifeVars
  <2>2. stopped' => life'
    BY <1>3, Zenon
       DEF StopCall, StopStep, ElectStopper, JoinStopped, AbortTimerWaits, PublishLife,
       WakeWorkers, WorkersGone, DrainTake, DrainExecute, DrainNext, StopAt, LifePublished,
       lifeVars
  <2> QED
    BY <1>3, <2>1, <2>2, StopKeeps DEF LifePublished
<1>4. CASE Terminated \/ UNCHANGED vars
  <2>1. UNCHANGED <<life, stopped, spc>>
    BY <1>4 DEF Terminated, vars, lifeVars, stopVars
  <2> QED
    BY <2>1 DEF LifePublished
<1> QED
  BY <1>1, <1>2, <1>3, <1>4 DEF Next

\* The wait of stop_internal() ends when running_workers counts nobody but the
\* worker it may run on.
LEMMA GoneMeansLeft ==
  ASSUME LoopOK, CountersAgree, InStop, NEW t \in Workers \cup Stoppers, WorkersGone(t)
  PROVE  \A w \in Workers \ {t} : Left(w)
<1>1. IsFiniteSet(RunningSet) /\ Cardinality(RunningSet) \in Nat
  BY WorkersAssumption, FS_Subset, FS_CardinalityType DEF RunningSet
<1>2. Cardinality(RunningSet) <= SelfCount(t) /\ spc[t] = "wait"
  BY DEF WorkersGone, CountersAgree, StopAt
<1>3. RunningSet \subseteq {t}
  <2>1. CASE SelfCount(t) = 0
    BY <1>1, <1>2, <2>1, FS_EmptySet
  <2>2. CASE SelfCount(t) # 0
    <3>1. SelfCount(t) = 1 /\ t \in Workers
      BY <2>2 DEF SelfCount
    <3>2. t \in RunningSet
      BY <1>2, <3>1 DEF InStop, Exited, RunningSet
    <3>3. /\ IsFiniteSet(RunningSet \ {t})
          /\ Cardinality(RunningSet \ {t}) = Cardinality(RunningSet) - 1
      BY <1>1, <3>2, FS_RemoveElement
    <3>4. Cardinality(RunningSet \ {t}) \in Nat
      BY <3>3, FS_CardinalityType
    <3>5. Cardinality(RunningSet \ {t}) = 0
      BY <1>1, <1>2, <3>1, <3>3, <3>4
    <3> QED
      BY <3>3, <3>5, FS_EmptySet
  <2> QED
    BY <2>1, <2>2
<1> QED
  BY <1>3 DEF RunningSet, Left

\* While the shared queues are drained, and after stopped is set, no worker comes
\* back: run() called late finds life_state set.
LEMMA LeftStep ==
  ASSUME LoopOK, CallsOK, CountersAgree, InStop, LifePublished, OneStopper, OthersLeft,
         [Next]_vars
  PROVE  OthersLeft'
<1>1. ASSUME NEW w \in Workers, WorkerStep(w) \/ WorkerEnv(w) PROVE OthersLeft'
  <2>1. /\ UNCHANGED stopped
        /\ \A t \in Workers \cup Stoppers : spc'[t] \in Draining => spc[t] \in Draining
    BY <1>1, WorkerKeeps DEF CallsOK, Draining
  <2>2. \A v \in Workers : life /\ Left(v) => Left(v)'
    BY <1>1, WorkerMoves DEF Alone, Left, At
  <2> QED
    BY <2>1, <2>2, Zenon DEF OthersLeft, LifePublished
<1>2. ASSUME NEW c \in Clients, ClientCall(c) \/ ClientStep(c) PROVE OthersLeft'
  BY <1>2, ClientKeeps, Zenon DEF OthersLeft, Left, At
<1>3. ASSUME NEW t \in Workers \cup Stoppers, StopCall(t) \/ StopStep(t)
      PROVE  OthersLeft'
  <2>1. \A w \in Workers : Left(w)' <=> Left(w)
    BY <1>3, StopKeeps DEF Left, At
  <2>2. spc'[t] \in Draining => \A w \in Workers \ {t} : Left(w)
    <3>1. CASE WorkersGone(t)
      BY <3>1, GoneMeansLeft
    <3>2. CASE ~WorkersGone(t)
      <4>1. spc'[t] \in Draining => spc[t] \in Draining
        BY <1>3, <3>2, Zenon DEF StopCall, StopStep, ElectStopper, JoinStopped, AbortTimerWaits,
           PublishLife, WakeWorkers, DrainTake, DrainExecute, DrainNext, GotoStop, StopAt,
           StopReturn, CallsOK, Draining
      <4> QED
        BY <4>1 DEF OthersLeft
    <3> QED
      BY <3>1, <3>2
  <2>3. stopped' => stopped \/ spc[t] \in Draining
    BY <1>3, Zenon
       DEF StopCall, StopStep, ElectStopper, JoinStopped, AbortTimerWaits, PublishLife,
       WakeWorkers, WorkersGone, DrainTake, DrainExecute, DrainNext, StopAt, Draining,
       lifeVars
  <2> QED
    BY <1>3, <2>1, <2>2, <2>3, StopKeeps, Zenon DEF OthersLeft
<1>4. CASE Terminated \/ UNCHANGED vars
  <2>1. UNCHANGED <<ph, st, stopped, spc>>
    BY <1>4 DEF Terminated, vars, loopVars, lifeVars, stopVars
  <2> QED
    BY <2>1 DEF OthersLeft, Left, At
<1> QED
  BY <1>1, <1>2, <1>3, <1>4 DEF Next

\* stopped is stored by the elected thread, and stop_requested elects no other.
LEMMA OverStep ==
  ASSUME CallsOK, OneStopper, StopOver, [Next]_vars
  PROVE  StopOver'
<1> USE DEF Elected, Draining
<1>1. ASSUME NEW w \in Workers, WorkerStep(w) \/ WorkerEnv(w) PROVE StopOver'
  <2>1. UNCHANGED <<stopReq, stopped, taken>>
        /\ \A t \in Workers \cup Stoppers : spc'[t] \in Elected => spc[t] \in Elected
    BY <1>1, WorkerKeeps DEF CallsOK
  <2> QED
    BY <2>1, Zenon DEF StopOver
<1>2. ASSUME NEW c \in Clients, ClientCall(c) \/ ClientStep(c) PROVE StopOver'
  BY <1>2, ClientKeeps, Zenon DEF StopOver
<1>3. ASSUME NEW t \in Workers \cup Stoppers, StopCall(t) \/ StopStep(t)
      PROVE  StopOver'
  <2>1. CASE spc[t] \in Elected
    <3>1. ~stopped /\ stopReq
      BY <2>1 DEF StopOver, OneStopper
    <3>2. stopped' => taken' = {} /\ spc'[t] \notin Elected
      BY <1>3, <3>1, Zenon DEF StopCall, StopStep, ElectStopper, JoinStopped, AbortTimerWaits,
         PublishLife, WakeWorkers, WorkersGone, DrainTake, DrainExecute, DrainNext, GotoStop,
         StopReturn, CallsOK, lifeVars
    <3>3. \A u \in (Workers \cup Stoppers) \ {t} : spc'[u] \notin Elected
      BY <1>3, <2>1, StopKeeps, Zenon DEF OneStopper
    <3> QED
      BY <1>3, <3>1, <3>2, <3>3, StopKeeps DEF StopOver
  <2>2. CASE spc[t] \notin Elected
    <3>1. UNCHANGED <<stopped, taken>>
      BY <1>3, <2>2, Zenon DEF StopCall, StopStep, ElectStopper, JoinStopped, AbortTimerWaits,
         PublishLife, WakeWorkers, WorkersGone, DrainTake, DrainExecute, DrainNext, StopAt,
         lifeVars
    <3>2. stopReq => spc'[t] \notin Elected
      BY <1>3, <2>2, Zenon DEF StopCall, StopStep, ElectStopper, JoinStopped, AbortTimerWaits,
         PublishLife, WakeWorkers, WorkersGone, DrainTake, DrainExecute, DrainNext, StopAt,
         GotoStop, StopReturn, CallsOK
    <3> QED
      BY <1>3, <3>1, <3>2, StopKeeps, Zenon DEF StopOver
  <2> QED
    BY <2>1, <2>2
<1>4. CASE Terminated \/ UNCHANGED vars
  BY <1>4, Zenon DEF Terminated, vars, lifeVars, stopVars, StopOver
<1> QED
  BY <1>1, <1>2, <1>3, <1>4 DEF Next


(***************************************************************************)
(* The shared queues.                                                      *)
(***************************************************************************)
\* Only a worker in its loop touches the shared queues; it leaves the last
\* run_cpu_batch() only when it found the CPU queue empty and the last
\* consume_io_tasks() only when it found the I/O queue empty.
LEMMA WorkerQueues ==
  ASSUME LoopOK, NEW w \in Workers, WorkerStep(w) \/ WorkerEnv(w)
  PROVE  /\ Exited(w) \/ st[w] = "out" => UNCHANGED <<cpuQ, ioQ>>
         /\ st[w] = "io3" => UNCHANGED cpuQ
         /\ st'[w] = "io3" => UNCHANGED <<cpuQ, ioQ>> /\ (cpuQ = {} \/ st[w] = "io3")
         /\ st'[w] = "out" => UNCHANGED <<cpuQ, ioQ>> /\ (ioQ = {} \/ st[w] = "out")
<1> DEFINE Goal ==
      /\ Exited(w) \/ st[w] = "out" => UNCHANGED <<cpuQ, ioQ>>
      /\ st[w] = "io3" => UNCHANGED cpuQ
      /\ st'[w] = "io3" => UNCHANGED <<cpuQ, ioQ>> /\ (cpuQ = {} \/ st[w] = "io3")
      /\ st'[w] = "out" => UNCHANGED <<cpuQ, ioQ>> /\ (ioQ = {} \/ st[w] = "out")
<1>0. ph \in [Workers -> Phases] /\ st \in [Workers -> Steps] /\ StepOf(ph[w], st[w])
  BY DEF LoopOK
<1>1. CASE CollectReadyCqes(w) \/ (\E x \in Ops : ExecuteTask(w, x)) \/ AbortInflight(w)
  <2>1. /\ st[w] \in {"cqe", "cqe1", "exec", "exec1", "exec3", "abort"}
        /\ GotoNext(w) \/ GotoFound(w) \/ UNCHANGED <<ph, st>>
    BY <1>1, Zenon DEF CollectReadyCqes, ExecuteTask, AbortInflight
  <2>2. st'[w] \notin {"io3", "out"}
    BY <2>1, NextStays, FoundStays, Zenon
  <2> QED
    BY <1>0, <2>1, <2>2 DEF Exited, StepOf
<1>2. CASE RunCpuBatch(w)
  <2>1. /\ st[w] \in {"cpu", "cpu1", "cpu3"} /\ UNCHANGED ioQ
        /\ \/ cpuQ = {} /\ UNCHANGED cpuQ /\ GotoNext(w)
           \/ \E s \in {"exec", "exec1", "exec3"} : Goto(w, ph[w], s)
    BY <1>2, Zenon DEF RunCpuBatch
  <2>2. CASE cpuQ = {} /\ UNCHANGED cpuQ /\ GotoNext(w)
    BY <2>1, <2>2, NextStays, Zenon
  <2>3. CASE \E s \in {"exec", "exec1", "exec3"} : Goto(w, ph[w], s)
    BY <1>0, <2>1, <2>3 DEF Goto, Exited, StepOf
  <2> QED
    BY <2>1, <2>2, <2>3, Zenon
<1>3. CASE ConsumeIo(w)
  <2>1. /\ st[w] \in {"io", "io3"} /\ UNCHANGED cpuQ
        /\ \/ ioQ = {} /\ UNCHANGED ioQ /\ GotoNext(w)
           \/ GotoFound(w)
    BY <1>3, Zenon DEF ConsumeIo
  <2> QED
    BY <2>1, NextStays, FoundStays, Zenon
<1>4. CASE ~(CollectReadyCqes(w) \/ (\E x \in Ops : ExecuteTask(w, x)) \/ AbortInflight(w)
             \/ RunCpuBatch(w) \/ ConsumeIo(w))
  <2>1. UNCHANGED <<cpuQ, ioQ>>
    BY <1>4, Zenon
       DEF WorkerStep, WorkerEnv, CanStartRun, RunNativeLoop, EnterRun, ArmWakePolls,
       ConsumeTimeouts, HandleFin, PrepareFound, BeginWaitLink, BeginWaitDec,
       RearmWakePolls, WaitReturns, LeaveKernel, EndWaitUnlink, EndWaitInc, DecideAfterWait,
       LeaveRun, ReleaseSlot, RunCall, WaitTimesOut, WaitInterrupted, WaitFails,
       KernelCompletes, sharedQ
  <2>2. st'[w] \in {"io3", "out"} => st'[w] = st[w]
    <3>1. CASE ConsumeTimeouts(w)
      <4>1. /\ st[w] \in {"tmr", "tmr1", "tmr3"}
            /\ GotoNext(w) \/ GotoFound(w) \/ Goto(w, "rearm", "none")
        BY <3>1, Zenon DEF ConsumeTimeouts
      <4>2. CASE Goto(w, "rearm", "none")
        BY <1>0, <4>2 DEF Goto
      <4> QED
        BY <4>1, <4>2, NextStays, FoundStays, Zenon
    <3>2. CASE ~ConsumeTimeouts(w)
      BY <1>0, <1>4, <3>2, Zenon
         DEF WorkerStep, WorkerEnv, CanStartRun, RunNativeLoop, EnterRun,
         ArmWakePolls, HandleFin, StartWait, PrepareFound, BeginWaitLink, BeginWaitDec,
         RearmWakePolls, WaitReturns, LeaveKernel, EndWaitUnlink, EndWaitInc,
         DecideAfterWait, LeaveRun, ReleaseSlot, RunCall, WaitTimesOut, WaitInterrupted,
         WaitFails, KernelCompletes, loopVars, Goto, StepOf
    <3> QED
      BY <3>1, <3>2, Zenon
  <2> QED
    BY <2>1, <2>2, Zenon
<1> QED
  BY <1>1, <1>2, <1>3, <1>4, Zenon

\* Nobody publishes to a context whose life_state is set.
LEMMA ClientQueues ==
  ASSUME life, NEW c \in Clients, ClientCall(c) \/ ClientStep(c)
  PROVE  UNCHANGED <<cpuQ, ioQ>>
  BY Zenon DEF ClientCall, Publish, Rejects, StartTimerWait, ClientStep, WakeIfAllSleeping,
     LoadAwake, LoadRunning, WakeOneSleeping, sharedQ

\* Between the moment running_workers falls to the stopping thread's own count and
\* stopped, and after it, a shared queue is filled only by the worker that empties it.
LEMMA QueuesStep ==
  ASSUME PlacesOK, LoopOK, CallsOK, InStop, OneStopper, LifePublished, OthersLeft,
         StopOver, QueuesDrained, [Next]_vars
  PROVE  QueuesDrained'
<1> DEFINE CpuDone == {"xcpu", "io", "xio", "tmr", "xtmr"}
           IoDone == {"xio", "tmr", "xtmr"}
<1>0. CpuDone \subseteq Draining /\ IoDone \subseteq Draining
  BY DEF Draining
<1>1. ASSUME NEW w \in Workers, WorkerStep(w) \/ WorkerEnv(w) PROVE QueuesDrained'
  <2>1. /\ UNCHANGED stopped
        /\ \A t \in Workers \cup Stoppers : spc'[t] = spc[t] \/ spc'[t] = "elect"
    BY <1>1, WorkerKeeps DEF CallsOK
  <2>2. Left(w) => Exited(w)
    BY DEF Left, Exited, At
  <2>3. ASSUME NEW t \in Stoppers, spc'[t] \in Draining
        PROVE  UNCHANGED <<cpuQ, ioQ>> /\ spc'[t] = spc[t]
    <3>1. spc'[t] = spc[t]
      BY <2>1, <2>3 DEF Draining
    <3>2. Left(w)
      BY <2>3, <3>1, StoppersAssumption DEF OthersLeft
    <3> QED
      BY <1>1, <2>2, <3>1, <3>2, WorkerQueues, Zenon
  <2>4. ASSUME NEW t \in Stoppers
        PROVE  /\ spc'[t] \in CpuDone => cpuQ' = {}
               /\ spc'[t] \in IoDone => ioQ' = {}
    BY <1>0, <2>3, Zenon DEF QueuesDrained
  <2>5. ASSUME stopped
        PROVE  /\ cpuQ' # {} => \E v \in Workers : DrainsCpu(v)'
               /\ ioQ' # {} => \E v \in Workers : DrainsIo(v)'
    <3>1. CASE Exited(w) \/ st[w] = "out"
      <4>1. UNCHANGED <<cpuQ, ioQ>>
        BY <1>1, <3>1, WorkerQueues
      <4>2. \A v \in Workers : /\ DrainsCpu(v) => DrainsCpu(v)'
                               /\ DrainsIo(v) => DrainsIo(v)'
        BY <1>1, <3>1, WorkerMoves, Zenon DEF DrainsCpu, DrainsIo, Alone, Exited
      <4> QED
        BY <2>5, <4>1, <4>2 DEF QueuesDrained
    <3>2. CASE ~(Exited(w) \/ st[w] = "out")
      <4>1. ~Exited(w)'
        BY <1>1, <3>2, WorkerMoves, Zenon
      <4>2. \A v \in Workers \ {w} : ~DrainsCpu(v) /\ ~DrainsIo(v)
        BY <2>2, <2>5, <3>2, Zenon DEF OthersLeft, Left, Exited, At, DrainsCpu, DrainsIo
      <4>3. CASE st'[w] = "out"
        <5>1. UNCHANGED <<cpuQ, ioQ>> /\ ioQ = {} /\ st[w] = "io3"
          BY <1>1, <3>2, <4>3, WorkerQueues, WorkerMoves, Zenon
        <5>2. cpuQ = {}
          BY <2>5, <4>2, <5>1 DEF QueuesDrained, DrainsCpu
        <5> QED
          BY <5>1, <5>2
      <4>4. CASE st'[w] = "io3"
        <5>1. UNCHANGED <<cpuQ, ioQ>> /\ (cpuQ = {} \/ st[w] = "io3")
          BY <1>1, <4>4, WorkerQueues, Zenon
        <5>2. cpuQ = {}
          BY <2>5, <4>2, <5>1 DEF QueuesDrained, DrainsCpu
        <5> QED
          BY <4>1, <4>4, <5>1, <5>2 DEF DrainsIo
      <4>5. CASE st'[w] \notin {"io3", "out"}
        BY <4>1, <4>5 DEF DrainsCpu, DrainsIo
      <4> QED
        BY <4>3, <4>4, <4>5
    <3> QED
      BY <3>1, <3>2
  <2> QED
    BY <2>1, <2>4, <2>5, Zenon DEF QueuesDrained
<1>2. ASSUME NEW c \in Clients, ClientCall(c) \/ ClientStep(c) PROVE QueuesDrained'
  <2>1. UNCHANGED <<ph, st, stopped, spc>>
    BY <1>2, ClientKeeps
  <2>2. life => UNCHANGED <<cpuQ, ioQ>>
    BY <1>2, ClientQueues
  <2>3. /\ \A t \in Stoppers : spc[t] \in CpuDone \cup IoDone => life
        /\ stopped => life
    BY <1>0 DEF LifePublished
  <2> QED
    BY <2>1, <2>2, <2>3 DEF QueuesDrained, DrainsCpu, DrainsIo, Exited
<1>3. ASSUME NEW t \in Workers \cup Stoppers, StopCall(t) \/ StopStep(t)
      PROVE  QueuesDrained'
  <2>1. /\ UNCHANGED <<ph, st>>
        /\ \A u \in (Workers \cup Stoppers) \ {t} : spc'[u] = spc[u]
    BY <1>3, StopKeeps, Zenon
  <2>2. \A v \in Workers : (DrainsCpu(v)' <=> DrainsCpu(v)) /\ (DrainsIo(v)' <=> DrainsIo(v))
    BY <2>1 DEF DrainsCpu, DrainsIo, Exited
  <2>3. CASE spc[t] \notin Draining
    <3>1. UNCHANGED <<cpuQ, ioQ, stopped>> /\ spc'[t] \notin CpuDone \cup IoDone
      BY <1>3, <2>3, Zenon DEF StopCall, StopStep, ElectStopper, JoinStopped, AbortTimerWaits,
         PublishLife, WakeWorkers, WorkersGone, DrainTake, DrainExecute, DrainNext, StopAt,
         GotoStop, StopReturn, CallsOK, Draining, sharedQ, lifeVars
    <3> QED
      BY <2>1, <2>2, <3>1, Zenon DEF QueuesDrained
  <2>4. CASE spc[t] \in Draining
    <3>1. ~stopped
      BY <2>4 DEF StopOver, Elected
    <3>2. \A u \in Stoppers \ {t} : spc'[u] \notin Draining
      BY <2>1, <2>4, Zenon DEF OneStopper, Elected
    <3>3. t \in Stoppers => /\ spc'[t] \in CpuDone => cpuQ' = {}
                            /\ spc'[t] \in IoDone => ioQ' = {}
      <4> SUFFICES ASSUME t \in Stoppers
                   PROVE  /\ spc'[t] \in CpuDone => cpuQ' = {}
                          /\ spc'[t] \in IoDone => ioQ' = {}
        OBVIOUS
      <4>1. CASE \E x \in Ops : DrainExecute(t, x)
        <5>1. UNCHANGED <<cpuQ, ioQ>>
          BY <4>1, StoppersAssumption, Zenon DEF DrainExecute, StartKids, Placed
        <5>2. spc'[t] = spc[t] \/ spc'[t] = "join"
          BY <4>1, Zenon DEF DrainExecute, GotoStop, CallsOK
        <5> QED
          BY <5>1, <5>2 DEF QueuesDrained
      <4>2. CASE DrainTake(t)
        BY <4>2 DEF DrainTake, StopAt, GotoStop, CallsOK, QueuesDrained
      <4>3. CASE DrainNext(t)
        BY <4>3 DEF DrainNext, StopAt, GotoStop, StopReturn, CallsOK, QueuesDrained, sharedQ
      <4> QED
        BY <1>3, <2>4, <4>1, <4>2, <4>3, Zenon
           DEF StopCall, StopStep, ElectStopper, JoinStopped,
           AbortTimerWaits, PublishLife, WakeWorkers, WorkersGone, StopAt, Draining
    <3>4. stopped' => \/ t \in Stoppers /\ cpuQ' = {} /\ ioQ' = {}
                      \/ t \in Workers /\ DrainsCpu(t) /\ DrainsIo(t)
      <4> SUFFICES ASSUME stopped'
                   PROVE  \/ t \in Stoppers /\ cpuQ' = {} /\ ioQ' = {}
                          \/ t \in Workers /\ DrainsCpu(t) /\ DrainsIo(t)
        OBVIOUS
      <4>1. DrainNext(t) /\ spc[t] = "xtmr" /\ UNCHANGED <<cpuQ, ioQ>>
        BY <1>3, <3>1, Zenon DEF StopCall, StopStep, ElectStopper, JoinStopped, AbortTimerWaits,
           PublishLife, WakeWorkers, WorkersGone, DrainTake, DrainExecute, DrainNext, StopAt,
           lifeVars, sharedQ
      <4>2. t \in Stoppers => cpuQ = {} /\ ioQ = {}
        BY <4>1 DEF QueuesDrained
      <4>3. t \in Workers => DrainsCpu(t) /\ DrainsIo(t)
        BY <4>1 DEF InStop, DrainsCpu, DrainsIo
      <4> QED
        BY <4>1, <4>2, <4>3
    <3> QED
      BY <1>0, <2>2, <3>2, <3>3, <3>4, Zenon DEF QueuesDrained
  <2> QED
    BY <2>3, <2>4
<1>4. CASE Terminated \/ UNCHANGED vars
  <2>1. UNCHANGED <<ph, st, stopped, spc, cpuQ, ioQ>>
    BY <1>4 DEF Terminated, vars, loopVars, lifeVars, stopVars, sharedQ
  <2> QED
    BY <2>1, Zenon DEF QueuesDrained, DrainsCpu, DrainsIo, Exited
<1> QED
  BY <1>1, <1>2, <1>3, <1>4 DEF Next


\* start_timer_wait() links timer waits, and nothing else does.
LEMMA TimersStep ==
  ASSUME TimersHoldWaits, [Next]_vars
  PROVE  TimersHoldWaits'
<1> USE DEF TimersHoldWaits
<1>1. ASSUME NEW w \in Workers, WorkerStep(w) \/ WorkerEnv(w) PROVE TimersHoldWaits'
  <2>1. CASE ConsumeTimeouts(w)
    BY <2>1, Zenon DEF ConsumeTimeouts, timerQ
  <2>2. CASE ~ConsumeTimeouts(w)
    BY <1>1, <2>2, Zenon DEF WorkerStep, WorkerEnv, CanStartRun, RunNativeLoop, EnterRun,
       ArmWakePolls, CollectReadyCqes, RunCpuBatch, ExecuteTask, ConsumeIo, HandleFin,
       PrepareFound, BeginWaitLink, BeginWaitDec, RearmWakePolls, WaitReturns, LeaveKernel,
       EndWaitUnlink, EndWaitInc, DecideAfterWait, AbortInflight, LeaveRun, ReleaseSlot,
       RunCall, WaitTimesOut, WaitInterrupted, WaitFails, KernelCompletes, timerQ
  <2> QED
    BY <2>1, <2>2
<1>2. ASSUME NEW c \in Clients, ClientCall(c) \/ ClientStep(c) PROVE TimersHoldWaits'
  BY <1>2, Zenon
     DEF ClientCall, Publish, StartTimerWait, ClientStep, WakeIfAllSleeping, LoadAwake,
     LoadRunning, WakeOneSleeping, timerQ
<1>3. ASSUME NEW t \in Workers \cup Stoppers, StopCall(t) \/ StopStep(t)
      PROVE  TimersHoldWaits'
  BY <1>3, Zenon
     DEF StopCall, StopStep, ElectStopper, JoinStopped, AbortTimerWaits, PublishLife,
     WakeWorkers, WorkersGone, DrainTake, DrainExecute, DrainNext, timerQ
<1>4. CASE Terminated \/ UNCHANGED vars
  BY <1>4 DEF Terminated, vars, timerQ
<1> QED
  BY <1>1, <1>2, <1>3, <1>4 DEF Next

(***************************************************************************)
(* The invariant and what it gives.                                        *)
(***************************************************************************)
\* A context that was not started has nothing to drain.
LEMMA StopInit == Init => StopInv
<1> SUFFICES ASSUME Init PROVE StopInv
  OBVIOUS
<1>1. InStop /\ OwnDrained
  BY DEF Init, InStop, OwnDrained
<1>2. LifePublished /\ OthersLeft /\ QueuesDrained /\ StopOver
  BY DEF Init, LifePublished, OthersLeft, QueuesDrained, StopOver, Draining
<1>3. TimersHoldWaits
  BY DEF Init, TimersHoldWaits
<1> QED
  BY <1>1, <1>2, <1>3 DEF StopInv

\* Every step keeps the last thread that can touch the queues known.
LEMMA StopInvStep == TypeInv /\ PlaceInv /\ StopInv /\ [Next]_vars => StopInv'
<1> SUFFICES ASSUME TypeInv, PlaceInv, StopInv, [Next]_vars PROVE StopInv'
  OBVIOUS
<1>1. PlacesOK /\ LoopOK /\ CallsOK /\ CountersAgree /\ OneStopper
  BY DEF TypeInv, PlaceInv
<1>2. /\ InStop /\ OwnDrained /\ LifePublished /\ OthersLeft /\ QueuesDrained /\ StopOver
      /\ TimersHoldWaits
  BY DEF StopInv
<1>3. InStop' /\ OwnDrained' /\ LifePublished'
  BY <1>1, <1>2, InStopStep, OwnDrainedStep, LifeStep
<1>4. OthersLeft' /\ StopOver' /\ TimersHoldWaits'
  BY <1>1, <1>2, LeftStep, OverStep, TimersStep
<1>5. QueuesDrained'
  BY <1>1, <1>2, QueuesStep
<1> QED
  BY <1>3, <1>4, <1>5 DEF StopInv

\* The stop invariant holds in every reachable state.
THEOREM StopInvariant == Spec => []StopInv
  BY StopInit, StopInvStep, TypeInvariant, PlaceInvariant, PTL DEF Spec

\* When stop() has finished and the worker it may have run on is out of its loop, every
\* CPU and I/O operation that was ever started has reached its receiver exactly once:
\* no publish_cpu() or publish_io() slips in between the life_state store and the
\* drains, and no drain leaves a queue to a thread that is gone.
THEOREM StoppedMeansDeliveredCorrect == Spec => []StoppedMeansDelivered
<1>1. TypeInv /\ PlaceInv /\ StopInv => StoppedMeansDelivered
  <2> SUFFICES ASSUME TypeInv, PlaceInv, StopInv, stopped, \A w \in Workers : Exited(w),
                      NEW op \in (CpuOps \cup IoOps) \ idle
               PROVE  completed[op] = 1
    BY DEF StoppedMeansDelivered
  <2>1. op \in Ops /\ Single(op) /\ completed[op] \in Nat
    BY DEF Ops, PlaceInv, TypeInv, PlacesOK
  <2>2. ASSUME NEW w \in Workers PROVE Own(op, w) = 0
    <3>1. localCpu[w] = {} /\ localIo[w] = {} /\ retry[w] = {} /\ inflight[w] = {}
      BY Zenon DEF StopInv, OwnDrained
    <3>2. StepOf(ph[w], st[w]) /\ Exited(w)
      BY DEF TypeInv, LoopOK
    <3>3. batch[w] = {}
      BY <3>2, Zenon DEF PlaceInv, BatchesRun, Executing, StepOf, Exited
    <3> QED
      BY <3>1, <3>3 DEF Own, OwnQueue, OwnRing, In
  <2>3. cpuQ = {} /\ ioQ = {} /\ taken = {}
    BY DEF StopInv, QueuesDrained, StopOver, DrainsCpu, DrainsIo
  <2>4. op \notin waits /\ op \notin ready
    BY OpsAssumption DEF StopInv, TimersHoldWaits
  <2>5. Outside(op) = completed[op]
    BY <2>1, <2>3, <2>4 DEF Outside, Queued, Timed, In
  <2> QED
    BY <2>1, <2>2, <2>5 DEF Single
<1> QED
  BY <1>1, TypeInvariant, PlaceInvariant, StopInvariant, PTL

(***************************************************************************)
(* Stopping from outside.                                                  *)
(***************************************************************************)
\* No worker is inside stop(), and a stop() or join() that returned has seen stopped,
\* which was set when every worker had left.
StoppedOutside ==
  /\ \A w \in Workers : spc[w] = "none"
  /\ stopped => \A w \in Workers : Left(w)
  /\ \A s \in Stoppers : spc[s] = "returned" => stopped

\* No receiver and no signal handler brings stop() onto a worker.
LEMMA StoppedOutsideStep ==
  ASSUME StopOps = {}, SignalWorkers = {}, LoopOK, CallsOK, LifePublished, OthersLeft,
         StoppedOutside, [Next]_vars
  PROVE  StoppedOutside'
<1>1. ASSUME NEW w \in Workers, WorkerStep(w) \/ WorkerEnv(w) PROVE StoppedOutside'
  <2>1. UNCHANGED spc
    <3>1. ASSUME NEW x \in Ops, ExecuteTask(w, x) PROVE UNCHANGED spc
      BY <3>1, Zenon DEF ExecuteTask
    <3>2. CASE ~\E x \in Ops : ExecuteTask(w, x)
      BY <1>1, <3>2, Zenon DEF WorkerStep, WorkerEnv, CanStartRun, RunNativeLoop, EnterRun,
         ArmWakePolls, CollectReadyCqes, RunCpuBatch, ConsumeTimeouts, ConsumeIo, HandleFin,
         PrepareFound, BeginWaitLink, BeginWaitDec, RearmWakePolls, WaitReturns,
         LeaveKernel, EndWaitUnlink, EndWaitInc, DecideAfterWait, AbortInflight, LeaveRun,
         ReleaseSlot, RunCall, WaitTimesOut, WaitInterrupted, WaitFails, KernelCompletes,
         stopVars
    <3> QED
      BY <3>1, <3>2
  <2>2. UNCHANGED stopped
    BY <1>1, WorkerKeeps
  <2>3. \A v \in Workers : life /\ Left(v) => Left(v)'
    BY <1>1, WorkerMoves DEF Alone, Left, At
  <2> QED
    BY <2>1, <2>2, <2>3 DEF StoppedOutside, LifePublished
<1>2. ASSUME NEW c \in Clients, ClientCall(c) \/ ClientStep(c) PROVE StoppedOutside'
  <2>1. UNCHANGED <<ph, st, stopped, spc>>
    BY <1>2, ClientKeeps
  <2> QED
    BY <2>1, Zenon DEF StoppedOutside, Left, At
<1>3. ASSUME NEW t \in Workers \cup Stoppers, StopCall(t) \/ StopStep(t)
      PROVE  StoppedOutside'
  <2>1. t \in Stoppers /\ t \notin Workers
    <3>1. StopStep(t) => spc[t] # "none"
      BY Zenon
         DEF StopStep, ElectStopper, JoinStopped, AbortTimerWaits, PublishLife, WakeWorkers,
         WorkersGone, DrainTake, DrainExecute, DrainNext, StopAt
    <3>2. StopCall(t) => t \in Stoppers
      BY DEF StopCall
    <3> QED
      BY <1>3, <3>1, <3>2, StoppersAssumption DEF StoppedOutside
  <2>2. \A w \in Workers : Left(w)' <=> Left(w)
    BY <1>3, StopKeeps, Zenon DEF Left, At
  <2>3. stopped' => stopped \/ spc[t] \in Draining
    BY <1>3, Zenon
       DEF StopCall, StopStep, ElectStopper, JoinStopped, AbortTimerWaits, PublishLife,
       WakeWorkers, WorkersGone, DrainTake, DrainExecute, DrainNext, StopAt, Draining,
       lifeVars
  <2>4. spc'[t] = "returned" => stopped'
    BY <1>3, <2>1, Zenon DEF StopCall, StopStep, ElectStopper, JoinStopped, AbortTimerWaits,
       PublishLife, WakeWorkers, WorkersGone, DrainTake, DrainExecute, DrainNext, GotoStop,
       StopAt, StopReturn, CallsOK, lifeVars
  <2> QED
    BY <1>3, <2>1, <2>2, <2>3, <2>4, StopKeeps, Zenon DEF StoppedOutside, OthersLeft
<1>4. CASE Terminated \/ UNCHANGED vars
  <2>1. UNCHANGED <<ph, st, stopped, spc>>
    BY <1>4 DEF Terminated, vars, loopVars, lifeVars, stopVars
  <2> QED
    BY <2>1, Zenon DEF StoppedOutside, Left, At
<1> QED
  BY <1>1, <1>2, <1>3, <1>4 DEF Next

\* When the context is stopped from threads outside it only, stop() and join() return
\* after every worker has given up its native context: class.h's promise for join().
\* (A receiver or a signal handler that stops the context breaks it: the worker it runs
\* on is still in its loop when the other callers return.)
THEOREM StopMeansWorkersExitedCorrect ==
  ASSUME StopOps = {}, SignalWorkers = {}
  PROVE  Spec => []StopMeansWorkersExited
<1>1. Init => StoppedOutside
  BY Zenon DEF Init, StoppedOutside
<1>2. TypeInv /\ StopInv /\ StoppedOutside /\ [Next]_vars => StoppedOutside'
  BY StoppedOutsideStep DEF TypeInv, StopInv
<1>3. StoppedOutside => StopMeansWorkersExited
  BY DEF StoppedOutside, StopMeansWorkersExited, Left, Exited, At
<1> QED
  BY <1>1, <1>2, <1>3, TypeInvariant, StopInvariant, PTL DEF Spec
=============================================================================
