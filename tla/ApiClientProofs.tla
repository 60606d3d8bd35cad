--------------------------- MODULE ApiClientProofs ---------------------------
(***************************************************************************)
(* Proofs about ApiClient, for any number of callers, any intervals and    *)
(* any lateness of the event loop shorter than the base interval.          *)
(*                                                                         *)
(* Neither property is inductive.  Pacing needs that every slot is at      *)
(* least the base interval from every other and from the last admission    *)
(* (SlotsApart, SlotsAfterAdmission); throttling needs that no slot of the *)
(* current epoch lies in the quiet interval (SlotsAfterQuiet).             *)
(***************************************************************************)
EXTENDS ApiClient, TLAPS

Sleeping == {c \in Callers : pc[c] = "sleeping"}

SlotsApart ==
  /\ \A c \in Sleeping : wait[c] >= -Overshoot /\ wait[c] + BaseInterval <= free
  /\ \A c, d \in Sleeping :
       c # d => wait[c] + BaseInterval <= wait[d] \/ wait[d] + BaseInterval <= wait[c]

SlotsAfterAdmission ==
  /\ since + free >= BaseInterval - Overshoot
  /\ \A c \in Sleeping :
       \/ since >= BaseInterval - Overshoot
       \/ since + wait[c] >= BaseInterval - Overshoot

SlotsAfterQuiet ==
  /\ quiet <= free
  /\ \A c \in Sleeping : c \notin stale /\ quiet > 0 => wait[c] >= quiet

IInv == TypeOK /\ SlotsApart /\ SlotsAfterAdmission /\ SlotsAfterQuiet

-----------------------------------------------------------------------------
(* The initial states satisfy the invariant: nobody sleeps. *)
LEMMA InitInv == Init => IInv
BY ClientParameters, LateByLessThanAnInterval
   DEF Init, IInv, TypeOK, PCs, SlotsApart, SlotsAfterAdmission,
       SlotsAfterQuiet, Sleeping

(* Changes of rate keep the interval between its bounds. *)
LEMMA RatesBounded ==
  ASSUME NEW n \in BaseInterval .. MaxInterval
  PROVE  /\ Doubled(n) \in BaseInterval .. MaxInterval
         /\ Recovered(n) \in BaseInterval .. MaxInterval
BY ClientParameters DEF Doubled, Recovered, Smaller, Larger

(* A slot taken keeps the invariant; the three actions that take one share  *)
(* this step, whatever else they do to attempt.                             *)
LEMMA ReserveKeepsInv ==
  ASSUME IInv, NEW c \in Callers, Reserve(c),
         attempt' \in [Callers -> 0 .. MaxAttempts - 1],
         UNCHANGED <<interval, quiet>>
  PROVE  IInv'
<1> USE ClientParameters, LateByLessThanAnInterval
<1>1. /\ free' = free + interval
      /\ stale' = stale \ {c}
      /\ free >= 0 /\ interval >= BaseInterval /\ interval <= MaxInterval
  BY DEF IInv, TypeOK, Reserve, Spaced, Slot, CurrentEpoch, Larger
<1>2. CASE free > 0
  <2>1. /\ pc' = [pc EXCEPT ![c] = "sleeping"]
        /\ wait' = [wait EXCEPT ![c] = free]
        /\ since' = since
    BY <1>2 DEF IInv, TypeOK, Reserve, Goto, Slot, Larger
  <2>2. Sleeping' \subseteq Sleeping \cup {c}
    BY <2>1 DEF IInv, TypeOK, Sleeping
  <2>3. TypeOK'
    BY <1>1, <2>1 DEF IInv, TypeOK, PCs
  <2>4. SlotsApart'
    BY <1>1, <1>2, <2>1, <2>2 DEF IInv, TypeOK, SlotsApart, Sleeping
  <2>5. SlotsAfterAdmission'
    BY <1>1, <1>2, <2>1, <2>2 DEF IInv, TypeOK, SlotsAfterAdmission, Sleeping
  <2>6. SlotsAfterQuiet'
    BY <1>1, <1>2, <2>1, <2>2 DEF IInv, TypeOK, SlotsAfterQuiet, Sleeping
  <2> QED BY <2>3, <2>4, <2>5, <2>6 DEF IInv
<1>3. CASE free = 0
  <2>1. /\ pc' = [pc EXCEPT ![c] = "sending"]
        /\ wait' = [wait EXCEPT ![c] = 0]
        /\ since' = 0
    BY <1>3 DEF IInv, TypeOK, Reserve, Admit, Goto, Slot, Larger
  <2>2. Sleeping = {}
    BY <1>3 DEF IInv, TypeOK, SlotsApart, Sleeping
  <2>3. Sleeping' = {}
    BY <2>1, <2>2 DEF IInv, TypeOK, Sleeping
  <2>4. TypeOK'
    BY <1>1, <2>1 DEF IInv, TypeOK, PCs
  <2>5. SlotsApart' /\ SlotsAfterAdmission' /\ SlotsAfterQuiet'
    BY <1>1, <1>3, <2>1, <2>3
       DEF IInv, TypeOK, SlotsApart, SlotsAfterAdmission, SlotsAfterQuiet
  <2> QED BY <2>4, <2>5 DEF IInv
<1> QED BY <1>1, <1>2, <1>3 DEF IInv, TypeOK

(* A slot of the current epoch that is due is admitted: the slots left are  *)
(* all an interval later.                                                   *)
LEMMA AdmitKeepsInv ==
  ASSUME IInv, NEW c \in Callers, pc[c] = "sleeping", wait[c] <= 0, Admit(c),
         UNCHANGED <<free, stale, interval, attempt, quiet>>
  PROVE  IInv'
<1> USE ClientParameters, LateByLessThanAnInterval
<1>1. /\ pc' = [pc EXCEPT ![c] = "sending"]
      /\ wait' = [wait EXCEPT ![c] = 0]
      /\ since' = 0
  BY DEF Admit, Goto
<1>2. Sleeping' \subseteq Sleeping /\ c \notin Sleeping' /\ c \in Sleeping
  BY <1>1 DEF IInv, TypeOK, Sleeping
<1>3. TypeOK'
  BY <1>1 DEF IInv, TypeOK, PCs
<1>4. \A d \in Sleeping' : wait'[d] = wait[d]
  BY <1>1, <1>2 DEF IInv, TypeOK, Sleeping
<1>5. \A d \in Sleeping' : wait[d] >= BaseInterval - Overshoot
  BY <1>2 DEF IInv, TypeOK, SlotsApart, Sleeping
<1>6. SlotsApart'
  BY <1>2, <1>4 DEF IInv, TypeOK, SlotsApart, Sleeping
<1>7. SlotsAfterAdmission'
  BY <1>1, <1>2, <1>4, <1>5 DEF IInv, TypeOK, SlotsApart, SlotsAfterAdmission, Sleeping
<1>8. SlotsAfterQuiet'
  BY <1>2, <1>4 DEF IInv, TypeOK, SlotsAfterQuiet, Sleeping
<1> QED BY <1>3, <1>6, <1>7, <1>8 DEF IInv

(* Leaving without a slot, with one given up or after an answer: there are  *)
(* no new sleepers, and _next does not move back.                           *)
LEMMA LeaveKeepsInv ==
  ASSUME IInv, TypeOK', Sleeping' \subseteq Sleeping,
         \A d \in Sleeping' : wait'[d] = wait[d],
         free' >= free, since' = since,
         \/ quiet' = quiet /\ \A d \in Sleeping' : d \in stale => d \in stale'
         \/ quiet' <= free' /\ Sleeping' \subseteq stale'
  PROVE  IInv'
<1> USE ClientParameters, LateByLessThanAnInterval
<1>1. SlotsApart'
  <2>1. \A d \in Sleeping' :
          d \in Sleeping /\ d \in Callers /\ wait'[d] = wait[d] /\ wait[d] \in Int
    BY DEF IInv, TypeOK, Sleeping
  <2>2. free \in Nat /\ free' \in Nat /\ free' >= free
    BY DEF IInv, TypeOK
  <2>3. \A d \in Sleeping' :
          wait'[d] >= -Overshoot /\ wait'[d] + BaseInterval <= free'
    BY <2>1, <2>2 DEF IInv, SlotsApart
  <2>4. \A d, e \in Sleeping' :
          d # e => \/ wait'[d] + BaseInterval <= wait'[e]
                   \/ wait'[e] + BaseInterval <= wait'[d]
    BY <2>1 DEF IInv, SlotsApart
  <2> QED BY <2>3, <2>4 DEF SlotsApart
<1>2. SlotsAfterAdmission'
  <2>1. free \in Nat /\ free' \in Nat /\ since \in Int
    BY DEF IInv, TypeOK
  <2>2. since + free >= BaseInterval - Overshoot
    BY DEF IInv, SlotsAfterAdmission
  <2>3. since' + free' >= BaseInterval - Overshoot
    BY <2>1, <2>2
  <2>4. \A d \in Sleeping' :
          \/ since' >= BaseInterval - Overshoot
          \/ since' + wait'[d] >= BaseInterval - Overshoot
    BY DEF IInv, SlotsAfterAdmission
  <2> QED BY <2>3, <2>4 DEF SlotsAfterAdmission
<1>3. SlotsAfterQuiet'
  BY DEF IInv, TypeOK, SlotsAfterQuiet, Sleeping
<1> QED BY <1>1, <1>2, <1>3 DEF IInv

(* Time moves every slot, _next, and both histories by one. *)
LEMMA TickKeepsInv == IInv /\ Tick => IInv'
<1> SUFFICES ASSUME IInv, Tick PROVE IInv'
  OBVIOUS
<1> USE ClientParameters, LateByLessThanAnInterval
<1>1. Sleeping' = Sleeping
  BY DEF Tick, Sleeping
<1>2. \A d \in Sleeping : wait'[d] = wait[d] - 1 /\ wait[d] > -Overshoot
  BY DEF IInv, TypeOK, Tick, Sleeping
<1>3. TypeOK'
  BY DEF IInv, TypeOK, Tick, Smaller, Larger
<1>4. SlotsApart'
  BY <1>1, <1>2 DEF IInv, TypeOK, SlotsApart, Tick, Larger, Sleeping
<1>5. SlotsAfterAdmission'
  BY <1>1, <1>2 DEF IInv, TypeOK, SlotsAfterAdmission, Tick, Smaller, Larger, Sleeping
<1>6. SlotsAfterQuiet'
  BY <1>1, <1>2 DEF IInv, TypeOK, SlotsAfterQuiet, Tick, Larger, Sleeping
<1> QED BY <1>3, <1>4, <1>5, <1>6 DEF IInv

(* Every step keeps the invariant. *)
LEMMA NextInv == IInv /\ [Next]_vars => IInv'
<1> SUFFICES ASSUME IInv, [Next]_vars PROVE IInv'
  OBVIOUS
<1> USE ClientParameters
<1>1. CASE Tick
  BY <1>1, TickKeepsInv
<1>2. ASSUME NEW c \in Callers, Call(c) PROVE IInv'
  <2>1. attempt' \in [Callers -> 0 .. MaxAttempts - 1]
    BY <1>2 DEF IInv, TypeOK, Call
  <2> QED BY <1>2, <2>1, ReserveKeepsInv DEF Call
<1>3. ASSUME NEW c \in Callers, NextAttempt(c) PROVE IInv'
  <2>1. attempt' \in [Callers -> 0 .. MaxAttempts - 1]
    BY <1>3 DEF IInv, TypeOK, NextAttempt
  <2> QED BY <1>3, <2>1, ReserveKeepsInv DEF NextAttempt
<1>4. ASSUME NEW c \in Callers, Wake(c) PROVE IInv'
  <2>1. CASE Stale(c)
    <3>1. attempt' \in [Callers -> 0 .. MaxAttempts - 1]
      BY <1>4 DEF IInv, TypeOK, Wake
    <3> QED BY <1>4, <2>1, <3>1, ReserveKeepsInv DEF Wake
  <2>2. CASE ~Stale(c)
    BY <1>4, <2>2, AdmitKeepsInv DEF Wake
  <2> QED BY <2>1, <2>2
<1>5. ASSUME NEW c \in Callers, Cancel(c) PROVE IInv'
  <2>1. TypeOK'
    BY <1>5 DEF IInv, TypeOK, PCs, Cancel, Goto
  <2>2. Sleeping' \subseteq Sleeping /\ c \notin Sleeping'
    BY <1>5 DEF IInv, TypeOK, Sleeping, Cancel, Goto
  <2>3. \A d \in Sleeping' : wait'[d] = wait[d] /\ (d \in stale => d \in stale')
    BY <1>5, <2>2 DEF IInv, TypeOK, Sleeping, Cancel
  <2>4. free' >= free /\ since' = since /\ quiet' = quiet
    BY <1>5 DEF IInv, TypeOK, Cancel
  <2> QED BY <2>1, <2>2, <2>3, <2>4, LeaveKeepsInv
<1>6. ASSUME NEW c \in Callers, Throttled(c) PROVE IInv'
  <2>1. Doubled(interval) \in BaseInterval .. MaxInterval
    BY RatesBounded DEF IInv, TypeOK
  <2>2. TypeOK'
    BY <1>6, <2>1 DEF IInv, TypeOK, PCs, Throttled, SlowDown, Goto, Larger
  <2>3. Sleeping' \subseteq Sleeping /\ wait' = wait
    BY <1>6 DEF IInv, TypeOK, Sleeping, Throttled, Goto
  <2>4. Sleeping' \subseteq stale'
    BY <1>6, <2>3 DEF Sleeping, Throttled, SlowDown
  <2>5. free' >= free /\ quiet' <= free' /\ since' = since
    BY <1>6, <2>1 DEF IInv, TypeOK, Throttled, SlowDown, Larger
  <2> QED BY <2>2, <2>3, <2>4, <2>5, LeaveKeepsInv
<1>7. ASSUME NEW c \in Callers,
             Answered(c) \/ Refused(c) \/ Failed(c) \/ GiveUp(c)
      PROVE IInv'
  <2>1. Recovered(interval) \in BaseInterval .. MaxInterval
    BY RatesBounded DEF IInv, TypeOK
  <2>2. /\ \E label \in {"idle", "resting"} : pc' = [pc EXCEPT ![c] = label]
        /\ UNCHANGED <<free, stale, wait, attempt, since, quiet>>
        /\ interval' \in {interval, Recovered(interval)}
    BY <1>7 DEF Answered, Refused, Failed, GiveUp, SpeedUp, Goto, limiterVars
  <2>3. TypeOK'
    BY <2>1, <2>2 DEF IInv, TypeOK, PCs
  <2>4. Sleeping' \subseteq Sleeping
    BY <2>2 DEF IInv, TypeOK, Sleeping
  <2>5. free' >= free
    BY <2>2 DEF IInv, TypeOK
  <2> QED BY <2>2, <2>3, <2>4, <2>5, LeaveKeepsInv
<1>8. CASE UNCHANGED vars
  <2>1. /\ TypeOK' /\ Sleeping' = Sleeping
        /\ UNCHANGED <<free, stale, wait, since, quiet>> /\ free' >= free
    BY <1>8 DEF IInv, TypeOK, Sleeping, vars, limiterVars
  <2> QED BY <2>1, LeaveKeepsInv
<1> QED
  BY <1>1, <1>2, <1>3, <1>4, <1>5, <1>6, <1>7, <1>8 DEF Next, Proceed

(* Every state of the client satisfies the invariant. *)
LEMMA Invariance == Spec => []IInv
BY InitInv, NextInv, PTL DEF Spec

-----------------------------------------------------------------------------
(* The variables of the client keep their types: in particular the interval *)
(* stays between its bounds, whatever sequence of answers arrives.          *)
THEOREM TypeCorrect == Spec => []TypeOK
<1>1. IInv => TypeOK
  BY DEF IInv
<1> QED BY Invariance, <1>1, PTL

(* A step that starts a request is a slot that is due, or one that was free *)
(* at once.                                                                 *)
LEMMA AdmittingStep ==
  ASSUME IInv, [Next]_vars, NEW c \in Callers, Admits(c)
  PROVE  \/ pc[c] = "sleeping" /\ wait[c] <= 0 /\ c \notin stale
         \/ free = 0
<1>1. free \in Nat /\ pc \in [Callers -> PCs]
  BY DEF IInv, TypeOK
<1>2. ASSUME NEW d \in Callers, Reserve(d) PROVE d = c => free = 0
  BY <1>1, <1>2 DEF Admits, Reserve, Goto, Slot, Larger
<1>3. ASSUME NEW d \in Callers, d # c,
             Call(d) \/ Cancel(d) \/ Proceed(d)
      PROVE  pc'[c] = pc[c]
  BY <1>1, <1>3
     DEF Call, Cancel, Proceed, Wake, Answered, Refused, Failed, Throttled,
         NextAttempt, GiveUp, Reserve, Admit, Goto
<1>4. CASE Call(c) \/ NextAttempt(c)
  BY <1>2, <1>4 DEF Call, NextAttempt
<1>5. CASE Wake(c)
  BY <1>2, <1>5 DEF Wake, Stale
<1>6. ASSUME Cancel(c) \/ Answered(c) \/ Refused(c) \/ Failed(c)
             \/ Throttled(c) \/ GiveUp(c)
      PROVE  pc'[c] # "sending"
  BY <1>1, <1>6 DEF Cancel, Answered, Refused, Failed, Throttled, GiveUp, Goto
<1>7. CASE Tick \/ UNCHANGED vars
  BY <1>7 DEF Tick, vars, Admits
<1> QED
  BY <1>3, <1>4, <1>5, <1>6, <1>7 DEF Next, Proceed, Admits

(* Two requests are never closer than the base interval less the lateness   *)
(* of the event loop.                                                       *)
THEOREM Paced == Spec => AdmissionsPaced
<1>1. IInv /\ [Next]_vars
        => [\A c \in Callers : Admits(c) => since >= BaseInterval - Overshoot]_vars
  <2> SUFFICES ASSUME IInv, [Next]_vars, NEW c \in Callers, Admits(c)
               PROVE  since >= BaseInterval - Overshoot
    OBVIOUS
  <2>1. CASE free = 0
    BY <2>1, LateByLessThanAnInterval, ClientParameters
       DEF IInv, TypeOK, SlotsAfterAdmission
  <2>2. CASE pc[c] = "sleeping" /\ wait[c] <= 0
    BY <2>2, LateByLessThanAnInterval, ClientParameters
       DEF IInv, TypeOK, SlotsAfterAdmission, Sleeping
  <2> QED BY <2>1, <2>2, AdmittingStep
<1> QED BY <1>1, Invariance, PTL DEF Spec, AdmissionsPaced

(* No request starts in the interval that follows a throttling answer.      *)
THEOREM Throttles == Spec => ThrottleTakesEffect
<1>1. IInv /\ [Next]_vars => [\A c \in Callers : Admits(c) => quiet = 0]_vars
  <2> SUFFICES ASSUME IInv, [Next]_vars, NEW c \in Callers, Admits(c)
               PROVE  quiet = 0
    OBVIOUS
  <2>1. CASE free = 0
    BY <2>1, ClientParameters DEF IInv, TypeOK, SlotsAfterQuiet
  <2>2. CASE pc[c] = "sleeping" /\ wait[c] <= 0 /\ c \notin stale
    BY <2>2, ClientParameters DEF IInv, TypeOK, SlotsAfterQuiet, Sleeping
  <2> QED BY <2>1, <2>2, AdmittingStep
<1> QED BY <1>1, Invariance, PTL DEF Spec, ThrottleTakesEffect

=============================================================================
