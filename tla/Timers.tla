------------------------------- MODULE Timers -------------------------------
(***************************************************************************)
(* The timers of an io_context: steady_timer objects, the waits on them,   *)
(* the timer mutex and the fetch gate, and the workers that fetch due      *)
(* waits and sleep until the next deadline.                                *)
(*                                                                         *)
(* A thread that calls the timer API reads the clock, then takes the mutex *)
(* and changes the structure, then releases the mutex, then wakes a worker *)
(* if all of them sleep; workers and the clock move in between.            *)
(***************************************************************************)
EXTENDS TimerHeap

CONSTANTS
  Waits,      \* timer_wait_operation objects
  Workers,    \* threads inside run()
  Callers,    \* threads that call the timer API
  Early,      \* the order in which timers were constructed before run()
  EarlyExpiries, \* their expiries
  NewExpiries,   \* the expiries later calls ask for
  MaxTime,    \* bound on the clock
  MaxCalls    \* bound on the number of API calls

Times == 0..MaxTime

ASSUME TimersAssumption ==
  /\ MaxTime \in Nat /\ MaxTime < Never /\ MaxCalls \in Nat
  /\ Early \in Seq(Slots) /\ IsInjective(Early)
  /\ EarlyExpiries \subseteq [Slots -> Times] /\ NewExpiries \subseteq Times

VARIABLES
  h,           \* timer_state_data
  registered,  \* slots whose context is set
  contexts,    \* contexts[s]: has the context of s been set, has it been null
  submitted,   \* submitted[s]: the waits linked to s, head first
  ready,       \* timers_.ready, head first
  kind,        \* kind[w]: the completion kind staged for w
  outcome,     \* outcome[w]: what the receiver of w was told
  now,
  holder,      \* the thread inside timers_.mutex
  call,        \* call[t]: the API call of thread t
  calls,       \* number of calls so far
  phase,       \* phase[w]: where worker w is in its loop
  deadline,    \* deadline[w]: the time the blocking wait ends
  fetched,     \* fetched[w]: the deadline comes from a fetch that succeeded
  signal,      \* signal[w]: a byte is in w's wake channel
  batch        \* batch[w]: the waits w executes

callerVars == <<registered, contexts, submitted, kind, holder, call, calls>>
workerVars == <<phase, deadline, fetched, batch>>
vars == <<h, callerVars, ready, outcome, now, workerVars, signal>>

Idle == [name |-> "idle", slot |-> None, to |-> None, wait |-> None, at |-> 0,
         clock |-> 0, wake |-> FALSE]

\* The slot goes to the heap when its expiry is in the future of the clock read
\* before the lock, to the inactive list otherwise.
Place(g, s, clock) == IF g.expiry[s] > clock THEN push_heap(g, s) ELSE push_inactive(g, s)

Displace(g, s) == IF s \in g.active THEN erase_heap(g, s) ELSE erase_inactive(g, s)

Init ==
  /\ \E expiry \in EarlyExpiries :
       h = FoldLeft(LAMBDA g, s : Place(g, s, 0), EmptyHeap(expiry), Early)
  /\ registered = ToSet(Early) /\ submitted = [s \in Slots |-> <<>>]
  /\ contexts = [s \in Slots |-> {s \in registered}]
  /\ ready = <<>>
  /\ kind = [w \in Waits |-> "none"] /\ outcome = [w \in Waits |-> "none"]
  /\ now = 0 /\ holder = None
  /\ call = [t \in Callers |-> Idle] /\ calls = 0
  /\ phase = [w \in Workers |-> "ready"] /\ deadline = [w \in Workers |-> Never]
  /\ fetched = [w \in Workers |-> TRUE]
  /\ signal = [w \in Workers |-> FALSE] /\ batch = [w \in Workers |-> <<>>]

(***************************************************************************)
(* The locked helpers, on the structure, the waits and the ready list.     *)
(***************************************************************************)
\* enqueue_timer_operations_locked(): prepend one by one.
Enqueue(list, ops) == Reverse(ops) \o list

Staged(ops, k) == [w \in Waits |-> IF Contains(ops, w) THEN k ELSE kind[w]]

Registered(c, g) ==
  [wake |-> heap_deadline(g) < heap_deadline(h), same |-> FALSE,
   h |-> g, registered |-> registered \cup {c.slot},
   submitted |-> [submitted EXCEPT ![c.slot] = <<>>],
   ready |-> ready, kind |-> kind]

Untouched == [wake |-> FALSE, same |-> TRUE]

register_timer_locked(c) ==
  IF c.slot \in registered THEN Untouched
  ELSE Registered(c, Place([Alone(h, c.slot) EXCEPT !.expiry[c.slot] = c.at],
                           c.slot, c.clock))

\* Mutant: the cancelled waits stay linked to their timer.
CancelWaitsKept(s) ==
  [wake |-> submitted[s] # <<>>, same |-> FALSE, h |-> h, registered |-> registered,
   submitted |-> submitted, ready |-> Enqueue(ready, submitted[s]),
   kind |-> Staged(submitted[s], "canceled")]

\* take_timer_operations_locked() and the canceled completions.
CancelWaits(s) ==
  [wake |-> submitted[s] # <<>>, same |-> FALSE, h |-> h, registered |-> registered,
   submitted |-> [submitted EXCEPT ![s] = <<>>],
   ready |-> Enqueue(ready, submitted[s]),
   kind |-> Staged(submitted[s], "canceled")]

unregister_timer_locked(c) ==
  IF c.slot \notin registered THEN Untouched
  ELSE [CancelWaits(c.slot) EXCEPT !.h = Displace(h, c.slot),
                                   !.registered = @ \ {c.slot}]

cancel_timer_locked(c) ==
  IF c.slot \notin registered THEN Untouched ELSE CancelWaits(c.slot)

\* The structure with the expiry of the slot replaced.
Moved(c) == Place([Displace(h, c.slot) EXCEPT !.expiry[c.slot] = c.at], c.slot, c.clock)

\* The waits are cancelled; an earlier deadline asks for a wake-up of its own.
Rescheduled(c, g) ==
  [CancelWaits(c.slot) EXCEPT
     !.h = g, !.wake = @ \/ heap_deadline(g) < heap_deadline(h)]

\* Mutant: only a cancelled wait asks for a wake-up.
set_timer_expiry_quiet(c) ==
  IF c.slot \notin registered THEN Untouched
  ELSE [CancelWaits(c.slot) EXCEPT !.h = Moved(c)]

set_timer_expiry_locked(c) ==
  IF c.slot \notin registered THEN Untouched ELSE Rescheduled(c, Moved(c))

\* A completion staged for one wait.
StageOne(w, k) ==
  [wake |-> TRUE, same |-> FALSE, h |-> h, registered |-> registered,
   submitted |-> submitted, ready |-> Cons(w, ready), kind |-> [kind EXCEPT ![w] = k]]

start_timer_wait_locked(c) ==
  IF c.slot \notin registered THEN StageOne(c.wait, "canceled")
  ELSE IF c.slot \notin h.active THEN StageOne(c.wait, "value")
  ELSE [wake |-> FALSE, same |-> FALSE, h |-> h, registered |-> registered,
        submitted |-> [submitted EXCEPT ![c.slot] = Cons(c.wait, @)],
        ready |-> ready, kind |-> [kind EXCEPT ![c.wait] = "linked"]]

queue_timer_completion(c) == StageOne(c.wait, "stopped")

\* The waits linked to a list of timers.
Linked(slots) == FoldLeft(LAMBDA acc, s : acc \o submitted[s], <<>>, slots)

AbortSlots(g, order) ==
  [wake |-> FALSE, same |-> FALSE, h |-> g, registered |-> registered \ ToSet(order),
   submitted |-> [s \in Slots |-> IF Contains(order, s) THEN <<>> ELSE submitted[s]],
   ready |-> Enqueue(ready, Linked(order)), kind |-> Staged(Linked(order), "canceled")]

\* abort_pending_timer_waits(): pop the heap, then the inactive list.  r is the
\* structure and the timers popped so far.
PopRoot(r) ==
  IF r[1].heap = None THEN r ELSE <<pop_heap(r[1]), Append(r[2], r[1].heap)>>

AbortInactive(g, popped, rest) ==
  AbortSlots(FoldLeft(erase_inactive, g, rest), popped \o rest)

AbortRest(r) == AbortInactive(r[1], r[2], ListFrom(r[1], r[1].inactive))

abort_pending_timer_waits ==
  AbortRest(FoldLeft(LAMBDA r, i : PopRoot(r), <<h, <<>>>>,
                     [i \in 1..Cardinality(Slots) |-> i]))

Effect(c) ==
  CASE c.name = "register"   -> register_timer_locked(c)
    [] c.name = "unregister" -> unregister_timer_locked(c)
    [] c.name = "move"       -> unregister_timer_locked(c)
    [] c.name = "cancel"     -> cancel_timer_locked(c)
    [] c.name = "expires_at" -> set_timer_expiry_locked(c)
    [] c.name = "start"      -> start_timer_wait_locked(c)
    [] c.name = "stopped"    -> queue_timer_completion(c)
    [] c.name = "abort"      -> abort_pending_timer_waits

(***************************************************************************)
(* The timer API.                                                          *)
(***************************************************************************)
\* Mutations of one timer are serialized by their callers.
Free(s) == \A t \in Callers : call[t].slot # s /\ call[t].to # s

CanCall(t) == call[t].name = "idle" /\ calls < MaxCalls /\ calls' = calls + 1

Begin(t, c) ==
  /\ CanCall(t)
  /\ call' = [call EXCEPT ![t] = c @@ [clock |-> now] @@ Idle]
  /\ UNCHANGED <<h, registered, contexts, submitted, kind, holder, ready, outcome, now,
                 workerVars, signal>>

\* steady_timer(context, expiry).
Construct(t, s, at) ==
  /\ s \notin registered /\ Free(s)
  /\ Begin(t, [name |-> "register", slot |-> s, at |-> at])

\* ~steady_timer(), and the moves through transfer_from().
Destroy(t, s) ==
  /\ s \in registered /\ Free(s)
  /\ Begin(t, [name |-> "unregister", slot |-> s])

Move(t, s, to) ==
  /\ s \in registered /\ to \notin registered /\ s # to /\ Free(s) /\ Free(to)
  /\ Begin(t, [name |-> "move", slot |-> s, to |-> to, at |-> h.expiry[s]])

Cancel(t, s) ==
  /\ s \in registered /\ Free(s)
  /\ Begin(t, [name |-> "cancel", slot |-> s])

ExpiresAt(t, s, at) ==
  /\ s \in registered /\ Free(s)
  /\ Begin(t, [name |-> "expires_at", slot |-> s, at |-> at])

\* expires_at() on an unregistered slot writes the saved expiry through.
ExpiresAtUnregistered(t, s, at) ==
  /\ s \notin registered /\ Free(s) /\ CanCall(t)
  /\ h' = [h EXCEPT !.expiry[s] = at]
  /\ UNCHANGED <<registered, contexts, submitted, kind, holder, call, ready, outcome, now,
                 workerVars, signal>>

\* timer_wait_operation: a wait captures the context of its timer when it is
\* connected, at any earlier moment.  start() stages it with that context, which
\* may have been taken from the timer since; a wait that captured none is completed
\* inline.
StartWait(t, w, s) ==
  /\ kind[w] = "none" /\ \A u \in Callers : call[u].wait # w
  /\ \/ /\ TRUE \in contexts[s]
        /\ \E name \in {"start", "stopped"} :
             Begin(t, [name |-> name, slot |-> s, wait |-> w])
     \/ /\ FALSE \in contexts[s] /\ CanCall(t)
        /\ kind' = [kind EXCEPT ![w] = "inline"]
        /\ outcome' \in {[outcome EXCEPT ![w] = "canceled"],
                         [outcome EXCEPT ![w] = "stopped"]}
        /\ UNCHANGED <<h, registered, contexts, submitted, holder, call, ready, now,
                       workerVars, signal>>

\* begin_stop().
Abort(t) == registered # {} /\ Begin(t, [name |-> "abort"])

\* What a call still has to remember: the wake-up, and the other half of a move.
Returning(c, wake) ==
  [Idle EXCEPT !.name = "locked", !.slot = c.slot, !.to = c.to, !.wake = wake,
               !.at = IF c.to = None THEN 0 ELSE c.at]

Applied(t, e) ==
  /\ IF e.same THEN UNCHANGED <<h, registered, submitted, ready, kind>>
     ELSE /\ h' = e.h /\ registered' = e.registered /\ submitted' = e.submitted
          /\ ready' = e.ready /\ kind' = e.kind
  /\ call' = [call EXCEPT ![t] = Returning(@, e.wake)]

\* The locked function, with the mutex held until Unlock.
Locked(t) ==
  /\ call[t].name \notin {"idle", "locked", "wake"} /\ holder = None
  /\ Applied(t, Effect(call[t]))
  /\ contexts' = [s \in Slots |-> contexts[s] \cup {s \in registered'}]
  /\ holder' = t
  /\ UNCHANGED <<calls, outcome, now, workerVars, signal>>

Unlock(t) ==
  /\ holder = t
  /\ holder' = None
  /\ call' = [call EXCEPT ![t].name = "wake"]
  /\ UNCHANGED <<calls, h, registered, contexts, submitted, kind, ready, outcome, now,
                 workerVars, signal>>

\* wake_one_if_all_workers_sleeping().
Sleeping == {w \in Workers : phase[w] \in {"timeout", "block"}}

Wakes(c) == c.wake /\ Sleeping = Workers

\* The end of the call: the wake-up, and the second half of a move.
WakeAndReturn(t) ==
  /\ call[t].name = "wake"
  /\ IF Wakes(call[t]) THEN \E w \in Workers : signal' = [signal EXCEPT ![w] = TRUE]
     ELSE UNCHANGED signal
  /\ call' = [call EXCEPT ![t] =
       IF @.to = None THEN Idle
       ELSE [Idle EXCEPT !.name = "register", !.slot = call[t].to, !.at = call[t].at,
                         !.clock = now]]
  /\ UNCHANGED <<calls, h, registered, contexts, submitted, kind, holder, ready, outcome,
                 now, workerVars>>

(***************************************************************************)
(* The workers: a pass fetches once; a worker without work counts as       *)
(* sleeping, fetches again with the deadline, and blocks.                  *)
(***************************************************************************)
Fetching == {"ready", "timeout"}

\* One round of drain_expired_timers_locked(): pop the root when it is due.
ExpireRoot(d) ==
  IF heap_deadline(d.h) > now THEN d
  ELSE [h |-> push_inactive(pop_heap(d.h), d.h.heap), due |-> Append(d.due, d.h.heap)]

\* Mutant: one due timer per fetch.
DrainOne == ExpireRoot([h |-> h, due |-> <<>>])

Drain == FoldLeft(LAMBDA d, i : ExpireRoot(d), [h |-> h, due |-> <<>>],
                  [i \in 1..Cardinality(Slots) |-> i])

\* Where a fetch that brought nothing leads; d is the deadline it returned.
NothingFetched(w, d, ok) ==
  LET p == IF phase[w] = "ready" THEN "timeout" ELSE "block"
  IN /\ phase' = [phase EXCEPT ![w] = p]
     /\ deadline' = [deadline EXCEPT ![w] = IF p = "block" THEN d ELSE Never]
     /\ fetched' = [fetched EXCEPT ![w] = ok \/ p # "block"]

\* try_fetch_timeout_operations(): another worker is behind the gate or a caller
\* holds the mutex ...
FetchBusy(w) ==
  /\ phase[w] \in Fetching
  /\ holder # None \/ \E v \in Workers \ {w} : phase[v] \in Fetching
  /\ NothingFetched(w, Never, FALSE)
  /\ UNCHANGED <<h, callerVars, ready, outcome, now, batch, signal>>

\* ... or the due timers are drained and the ready list is taken and, after
\* reverse_ready_operations() and the two reversals of the local queue,
\* executed from its tail.
Taken(w, g, list) ==
  /\ batch' = [batch EXCEPT ![w] = Reverse(list)]
  /\ IF list = <<>> THEN NothingFetched(w, heap_deadline(g), TRUE)
     ELSE phase' = [phase EXCEPT ![w] = "exec"] /\ UNCHANGED <<deadline, fetched>>

Drained(w, d, due) ==
  /\ h' = d.h
  /\ submitted' = [s \in Slots |-> IF Contains(d.due, s) THEN <<>> ELSE submitted[s]]
  /\ kind' = Staged(due, "value")
  /\ ready' = <<>>
  /\ Taken(w, d.h, due \o ready)

FetchWith(w, d) ==
  Drained(w, d, FoldLeft(LAMBDA acc, s : Enqueue(acc, submitted[s]), <<>>, d.due))

Fetch(w) ==
  /\ phase[w] \in Fetching /\ holder = None
  /\ FetchWith(w, Drain)
  /\ UNCHANGED <<calls, registered, contexts, holder, call, outcome, now, signal>>

\* timer_wait_operation::execute().
Execute(w) ==
  /\ phase[w] = "exec"
  /\ outcome' = [outcome EXCEPT ![Head(batch[w])] = kind[Head(batch[w])]]
  /\ batch' = [batch EXCEPT ![w] = Tail(@)]
  /\ phase' = [phase EXCEPT ![w] = IF Len(batch[w]) > 1 THEN "exec" ELSE "ready"]
  /\ UNCHANGED <<h, callerVars, ready, now, deadline, fetched, signal>>

\* The blocking wait ends with a wake-up or at its deadline.
Unblock(w) ==
  /\ phase[w] = "block" /\ (signal[w] \/ deadline[w] <= now)
  /\ signal' = [signal EXCEPT ![w] = FALSE]
  /\ phase' = [phase EXCEPT ![w] = "ready"]
  /\ deadline' = [deadline EXCEPT ![w] = Never]
  /\ fetched' = [fetched EXCEPT ![w] = TRUE]
  /\ UNCHANGED <<h, callerVars, ready, outcome, now, batch>>

Tick ==
  /\ now < MaxTime /\ now' = now + 1
  /\ UNCHANGED <<h, callerVars, ready, outcome, workerVars, signal>>

Call(t) ==
  \/ \E s \in Slots : \/ \E at \in NewExpiries : \/ Construct(t, s, at) \/ ExpiresAt(t, s, at)
                                           \/ ExpiresAtUnregistered(t, s, at)
                      \/ Destroy(t, s) \/ Cancel(t, s)
                      \/ \E to \in Slots : Move(t, s, to)
                      \/ \E w \in Waits : StartWait(t, w, s)
  \/ Abort(t)

Worker(w) == FetchBusy(w) \/ Fetch(w) \/ Execute(w) \/ Unblock(w)

Next ==
  \/ \E t \in Callers : Call(t) \/ Locked(t) \/ Unlock(t) \/ WakeAndReturn(t)
  \/ \E w \in Workers : Worker(w)
  \/ Tick

Spec == Init /\ [][Next]_vars

(***************************************************************************)
(* Properties.                                                             *)
(***************************************************************************)
\* Every registered timer is in exactly one of the heap and the inactive list,
\* every unregistered one in neither, and both containers are well formed after
\* any sequence of inserts, cuts out of the middle and pops.
ContainersWellFormed ==
  /\ BackLinked(h) /\ HeapShaped(h)
  /\ Inactive(h) = registered \ h.active /\ h.active \subseteq registered

\* A wait is linked to one timer, or staged, or being executed, or delivered:
\* no path drops one or lists it twice.
WaitsAccounted ==
  \A w \in Waits :
    LET places == Cardinality({s \in Slots : Contains(submitted[s], w)})
                  + Len(SelectSeq(ready, LAMBDA x : x = w))
                  + Cardinality({v \in Workers : Contains(batch[v], w)})
                  + (IF outcome[w] # "none" THEN 1 ELSE 0)
    IN places = IF kind[w] = "none" THEN 0 ELSE 1

\* A worker that fetched its deadline sleeps no longer than the earliest timer
\* allows while all workers sleep, unless a wake-up is on its way: the caller
\* that moved the deadline forward still holds its call, or a byte is already
\* in a wake channel.
WakeOnItsWay ==
  \/ \E w \in Workers : signal[w]
  \/ \E t \in Callers : call[t].wake \/ (call[t].name = "register" /\ holder # t)

SleepCoversDeadline ==
  (\A w \in Workers : phase[w] = "block" /\ fetched[w]) =>
    \/ \E w \in Workers : deadline[w] <= heap_deadline(h)
    \/ WakeOnItsWay

(***************************************************************************)
(* The pointer structure implements the sets of TimerPromise.              *)
(***************************************************************************)
Promise == INSTANCE TimerPromise WITH
  active  <- h.active,
  expired <- registered \ h.active,
  expiry  <- h.expiry,
  pending <- [s \in Slots |-> ToSet(submitted[s])]

\* Heap, inactive list, ready list, mutex and fetch implement the promise: the
\* pop loop expires exactly the timers that are due, an erase removes exactly
\* one, and every settled wait is delivered once with the kind it was settled
\* with.
KeepsPromise == Promise!Spec
=============================================================================
