---------------------------- MODULE TimerPromise ----------------------------
(***************************************************************************)
(* What the timers of an io_context promise, without heap, lists, locks or *)
(* workers: timers are sets, a wait is pending on one timer until it is    *)
(* settled with one completion kind, and is delivered once with that kind. *)
(***************************************************************************)
EXTENDS Integers, FiniteSets

CONSTANTS Slots, Waits, Times   \* Times: the expiries that may be asked for

VARIABLES
  active,    \* registered timers that have not expired
  expired,   \* registered timers that have
  expiry,
  pending,   \* pending[s]: the waits that s will settle
  kind,      \* kind[w]: "none", "linked", or how w was settled
  outcome,   \* outcome[w]: what the receiver was told
  now

vars == <<active, expired, expiry, pending, kind, outcome, now>>

Settled == {"value", "canceled", "stopped", "inline"}

Init ==
  /\ now = 0 /\ expiry \in [Slots -> Times]
  /\ active \subseteq Slots /\ expired \subseteq Slots \ active
  /\ \A s \in active : expiry[s] > now
  /\ \A s \in expired : expiry[s] <= now
  /\ pending = [s \in Slots |-> {}]
  /\ kind = [w \in Waits |-> "none"] /\ outcome = [w \in Waits |-> "none"]

\* Every wait of ops is settled with k.
Settle(ops, k) == kind' = [w \in Waits |-> IF w \in ops THEN k ELSE kind[w]]

\* The timer s is set to at.  A clock value read a little earlier decides, so
\* that an expiry just reached may still count as future.
Schedule(s, at) ==
  /\ expiry' = [expiry EXCEPT ![s] = at]
  /\ \E clock \in 0..now :
       /\ active' = IF at > clock THEN active \cup {s} ELSE active \ {s}
       /\ expired' = IF at > clock THEN expired \ {s} ELSE expired \cup {s}

Register(s, at) ==
  /\ s \notin active \cup expired
  /\ Schedule(s, at)
  /\ UNCHANGED <<pending, kind, outcome, now>>

SetExpiry(s, at) ==
  /\ s \in active \cup expired
  /\ Schedule(s, at)
  /\ Settle(pending[s], "canceled")
  /\ pending' = [pending EXCEPT ![s] = {}]
  /\ UNCHANGED <<outcome, now>>

\* An unregistered timer only remembers its expiry.
RememberExpiry(s, at) ==
  /\ s \notin active \cup expired
  /\ expiry' = [expiry EXCEPT ![s] = at]
  /\ UNCHANGED <<active, expired, pending, kind, outcome, now>>

Cancel(s) ==
  /\ s \in active \cup expired
  /\ Settle(pending[s], "canceled")
  /\ pending' = [pending EXCEPT ![s] = {}]
  /\ UNCHANGED <<active, expired, expiry, outcome, now>>

\* Destruction of one timer, and the stop of the context for all of them.
Unregister(gone) ==
  /\ gone \subseteq active \cup expired
  /\ active' = active \ gone /\ expired' = expired \ gone
  /\ Settle(UNION {pending[s] : s \in gone}, "canceled")
  /\ pending' = [s \in Slots |-> IF s \in gone THEN {} ELSE pending[s]]
  /\ UNCHANGED <<expiry, outcome, now>>

\* A wait on an active timer is linked to it; on an expired one it is settled
\* with value, on an unregistered one with canceled.
StartWait(w, s) ==
  /\ kind[w] = "none"
  /\ pending' = IF s \in active THEN [pending EXCEPT ![s] = @ \cup {w}] ELSE pending
  /\ kind' = [kind EXCEPT ![w] = IF s \in active THEN "linked"
                                 ELSE IF s \in expired THEN "value" ELSE "canceled"]
  /\ UNCHANGED <<active, expired, expiry, outcome, now>>

\* A wait whose token is already cancelled.
StartStopped(w) ==
  /\ kind[w] = "none" /\ kind' = [kind EXCEPT ![w] = "stopped"]
  /\ UNCHANGED <<active, expired, expiry, pending, outcome, now>>

StartInline(w) ==
  /\ kind[w] = "none" /\ kind' = [kind EXCEPT ![w] = "inline"]
  /\ \E k \in {"canceled", "stopped"} : outcome' = [outcome EXCEPT ![w] = k]
  /\ UNCHANGED <<active, expired, expiry, pending, now>>

\* All timers that are due expire together, and their waits get value.
Expire ==
  LET due == {s \in active : expiry[s] <= now} IN
  /\ active' = active \ due /\ expired' = expired \cup due
  /\ Settle(UNION {pending[s] : s \in due}, "value")
  /\ pending' = [s \in Slots |-> IF s \in due THEN {} ELSE pending[s]]
  /\ UNCHANGED <<expiry, outcome, now>>

Deliver(w) ==
  /\ kind[w] \in Settled \ {"inline"} /\ outcome[w] = "none"
  /\ outcome' = [outcome EXCEPT ![w] = kind[w]]
  /\ UNCHANGED <<active, expired, expiry, pending, kind, now>>

Tick ==
  /\ now' = now + 1
  /\ UNCHANGED <<active, expired, expiry, pending, kind, outcome>>

Next ==
  \/ \E s \in Slots : \/ \E at \in Times : Register(s, at) \/ SetExpiry(s, at)
                                           \/ RememberExpiry(s, at)
                      \/ Cancel(s) \/ Unregister({s})
                      \/ \E w \in Waits : StartWait(w, s)
  \/ Unregister(active \cup expired)
  \/ \E w \in Waits : StartStopped(w) \/ StartInline(w) \/ Deliver(w)
  \/ Expire \/ Tick

Spec == Init /\ [][Next]_vars
=============================================================================
