------------------------------ MODULE ApiClient ------------------------------
(***************************************************************************)
(* The CoW API client: the retry loop of CowApiClient._request and the     *)
(* AsyncRateLimiter its callers share.                                     *)
(*                                                                         *)
(* A caller is a coroutine inside _request; several clients, one per       *)
(* chain, share one limiter.  A coroutine gives up control only where it   *)
(* sleeps or awaits the transport; in particular the limiter's lock is     *)
(* never held across an await, so taking a slot is one step.               *)
(*                                                                         *)
(* Times are whole units, counted from the present: Tick lets one pass.    *)
(* _next is kept as `free`, how far ahead of loop.time() it lies (a _next  *)
(* in the past serves as the present, _reserve takes the later of both).   *)
(* The comparison of a remembered epoch with the current one is kept as    *)
(* `stale`: slow_down, the only writer of _epoch, outdates what every      *)
(* sleeping caller remembers.                                              *)
(***************************************************************************)
EXTENDS Integers

CONSTANTS
  Callers,
  BaseInterval, MaxInterval,  \* of the limiter, in units
  MaxAttempts,                \* of _request
  Overshoot,                  \* how late the event loop wakes a sleeper
  MaxBacklog                  \* bound on the slots taken ahead of new calls

ASSUME ClientParameters ==
  /\ BaseInterval \in Nat \ {0}
  /\ MaxInterval \in Nat /\ BaseInterval <= MaxInterval
  /\ MaxAttempts \in Nat \ {0}
  /\ MaxBacklog \in Nat

(* A sleeper is at most so late that its slot is not another one's.         *)
ASSUME LateByLessThanAnInterval ==
  Overshoot \in Nat /\ Overshoot < BaseInterval

VARIABLES
  free,      \* _next - loop.time(), when positive
  interval,  \* interval_seconds
  pc,        \* where each caller is in _request
  wait,      \* slot - loop.time() of each sleeping caller
  stale,     \* the callers that remember an older epoch
  attempt,   \* the attempt each caller is making
  since,     \* history: time since the last admission, up to BaseInterval
  quiet      \* history: what is left of the interval after a slow_down

limiterVars == <<free, interval, stale>>
vars == <<limiterVars, pc, wait, attempt, since, quiet>>

(* sleeping: in limiter.wait().  sending: the transport has the request.    *)
(* resting: between a retryable answer and the next attempt.                *)
PCs == {"idle", "sleeping", "sending", "resting"}

TypeOK ==
  /\ free \in Nat
  /\ interval \in BaseInterval .. MaxInterval
  /\ pc \in [Callers -> PCs]
  /\ wait \in [Callers -> Int]
  /\ stale \in SUBSET Callers
  /\ attempt \in [Callers -> 0 .. MaxAttempts - 1]
  /\ since \in 0 .. BaseInterval
  /\ quiet \in 0 .. MaxInterval

Init ==
  /\ free = 0
  /\ interval = BaseInterval
  /\ pc = [c \in Callers |-> "idle"]
  /\ wait = [c \in Callers |-> 0]
  /\ stale = {}
  /\ attempt = [c \in Callers |-> 0]
  /\ since = BaseInterval
  /\ quiet = 0

Smaller(a, b) == IF a < b THEN a ELSE b
Larger(a, b) == IF a > b THEN a ELSE b

Goto(c, label) == pc' = [pc EXCEPT ![c] = label]

-----------------------------------------------------------------------------
(* AsyncRateLimiter. *)

Slot == Larger(0, free)

(* A mutated _reserve: the spacing is counted from the present. *)
SpacedFromNow == interval

Spaced == Slot + interval

(* A mutated wait(): the epoch is read once, before the loop. *)
HoistedEpoch(c) == stale

CurrentEpoch(c) == stale \ {c}

(* wait() returns. *)
Admit(c) ==
  /\ Goto(c, "sending")
  /\ wait' = [wait EXCEPT ![c] = 0]
  /\ since' = 0

(* One round of wait()'s loop, up to its sleep or its return. *)
Reserve(c) ==
  /\ free' = Spaced
  /\ stale' = CurrentEpoch(c)
  /\ IF Slot > 0
       THEN /\ Goto(c, "sleeping")
            /\ wait' = [wait EXCEPT ![c] = Slot]
            /\ UNCHANGED since
       ELSE Admit(c)

(* A mutated check: slots reserved at the old spacing stay good. *)
NeverStale(c) == FALSE

Stale(c) == c \in stale

(* The sleep ends, on time or late. *)
Wake(c) ==
  /\ pc[c] = "sleeping"
  /\ wait[c] <= 0
  /\ IF Stale(c)
       THEN Reserve(c)
       ELSE Admit(c) /\ UNCHANGED <<free, stale>>
  /\ UNCHANGED <<interval, attempt, quiet>>

Doubled(n) == Smaller(MaxInterval, Larger(BaseInterval, 2 * n))

(* A mutated recovery: the base rate is no floor. *)
RecoveredBelowBase(n) == (9 * n) \div 10

Recovered(n) == Larger(BaseInterval, (9 * n) \div 10)

SlowDown ==
  /\ interval' = Doubled(interval)
  /\ stale' = {c \in Callers : pc[c] = "sleeping"}
  /\ free' = Larger(free, Doubled(interval))
  /\ quiet' = Doubled(interval)

SpeedUp ==
  /\ interval' = Recovered(interval)
  /\ UNCHANGED <<free, stale, quiet>>

-----------------------------------------------------------------------------
(* _request. *)

Call(c) ==
  /\ pc[c] = "idle"
  /\ free <= MaxBacklog
  /\ attempt' = [attempt EXCEPT ![c] = 0]
  /\ Reserve(c)
  /\ UNCHANGED <<interval, quiet>>

(* 2xx. *)
Answered(c) ==
  /\ pc[c] = "sending"
  /\ SpeedUp
  /\ Goto(c, "idle")
  /\ UNCHANGED <<wait, attempt, since>>

(* 404, or another status that is not retried, or the transport raises. *)
Refused(c) ==
  /\ pc[c] = "sending"
  /\ Goto(c, "idle")
  /\ UNCHANGED <<limiterVars, wait, attempt, since, quiet>>

(* 408, 425, 500, 502, 503 or 504. *)
Failed(c) ==
  /\ pc[c] = "sending"
  /\ Goto(c, "resting")
  /\ UNCHANGED <<limiterVars, wait, attempt, since, quiet>>

(* 403 or 429. *)
Throttled(c) ==
  /\ pc[c] = "sending"
  /\ SlowDown
  /\ Goto(c, "resting")
  /\ UNCHANGED <<wait, attempt, since>>

(* The sleep between attempts ends; its length is the server's choice       *)
(* (Retry-After) and a random share, so any.                                *)
NextAttempt(c) ==
  /\ pc[c] = "resting"
  /\ attempt[c] + 1 < MaxAttempts
  /\ attempt' = [attempt EXCEPT ![c] = @ + 1]
  /\ Reserve(c)
  /\ UNCHANGED <<interval, quiet>>

(* The loop is over: CowApiError. *)
GiveUp(c) ==
  /\ pc[c] = "resting"
  /\ attempt[c] + 1 >= MaxAttempts
  /\ Goto(c, "idle")
  /\ UNCHANGED <<limiterVars, wait, attempt, since, quiet>>

(* The batch deadline of the caller cancels it; its slot stays taken. *)
Cancel(c) ==
  /\ pc[c] # "idle"
  /\ Goto(c, "idle")
  /\ stale' = stale \ {c}
  /\ wait' = [wait EXCEPT ![c] = 0]
  /\ UNCHANGED <<free, interval, attempt, since, quiet>>

Tick ==
  /\ \A c \in Callers : pc[c] = "sleeping" => wait[c] > -Overshoot
  /\ free' = Larger(0, free - 1)
  /\ wait' = [c \in Callers |->
                IF pc[c] = "sleeping" THEN wait[c] - 1 ELSE wait[c]]
  /\ since' = Smaller(BaseInterval, since + 1)
  /\ quiet' = Larger(0, quiet - 1)
  /\ UNCHANGED <<interval, stale, pc, attempt>>

-----------------------------------------------------------------------------

Proceed(c) ==
  \/ Wake(c) \/ Answered(c) \/ Refused(c) \/ Failed(c) \/ Throttled(c)
  \/ NextAttempt(c) \/ GiveUp(c)

Next == Tick \/ \E c \in Callers : Call(c) \/ Cancel(c) \/ Proceed(c)

Spec == Init /\ [][Next]_vars

(* Time passes, and every sleep and every request comes to an end (the      *)
(* transport has a timeout).                                                *)
Fairness == WF_vars(Tick) /\ \A c \in Callers : WF_vars(Proceed(c))

FairSpec == Spec /\ Fairness

-----------------------------------------------------------------------------
(* Properties.                                                              *)

Admits(c) == pc[c] # "sending" /\ pc'[c] = "sending"

(* Two requests, of whichever callers, are never closer than the base       *)
(* interval less what the event loop was late by: invalidated slots,        *)
(* cancelled callers and changes of rate included (AsyncRateLimiter: "Paces *)
(* requests to one per interval_seconds across every caller sharing it",    *)
(* "an overshoot delays only the coroutine that overshot").                 *)
AdmissionsPaced ==
  [][\A c \in Callers : Admits(c) => since >= BaseInterval - Overshoot]_vars

(* After a throttling answer no request starts before the new interval has  *)
(* passed, although slots had been reserved in it (slow_down: "Nothing      *)
(* reserved before now may be admitted before one new interval has          *)
(* elapsed").                                                               *)
ThrottleTakesEffect == [][\A c \in Callers : Admits(c) => quiet = 0]_vars

(* Once throttling has ceased, every call ends: no waiter chases an epoch   *)
(* or a slot for ever, and no request is retried for ever.                  *)
CallsEnd ==
  <>[][\A c \in Callers : ~Throttled(c)]_vars
    => \A c \in Callers : []<>(pc[c] = "idle")

=============================================================================
