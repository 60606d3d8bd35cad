------------------------ MODULE WorkQueueChargeProofs ------------------------
(***************************************************************************)
(* The retry budget, for every set of workers and items: an attempt that   *)
(* was only abandoned costs an item nothing.                               *)
(*                                                                         *)
(* AttemptsAreCharged is not inductive.  A release writes back one attempt *)
(* less, but only if its revision outranks what the table shows, so the    *)
(* invariant follows the version of an unended attempt: while the row is a *)
(* running version its revision is the one of its attempt, its worker is   *)
(* not past that attempt (Billed), and once no lease stands behind it its  *)
(* attempt has been charged (LeaseBehindRunning).                          *)
(***************************************************************************)
EXTENDS WorkQueueProofs

Charged(i) ==
  row[i].attempts <= charges[i] + (IF row[i].status = "pending" THEN 0 ELSE 1)

LeaseBehindRunning(i) ==
  row[i].status = "running" =>
    /\ row[i].owner \in Workers
    /\ row[i].revision = row[i].attempts * 10 + 1
    /\ i \notin live[row[i].owner] => row[i].attempts <= charges[i]

Billed(k, i) ==
  /\ attempt[k][i] <= charges[i] + 1
  /\ stage[k][i] # "out" =>
       attempt[k][i] > 0 /\ phase[k] \in {"working", "releasing"}
  /\ row[i].status = "running" /\ row[i].owner = k =>
       /\ attempt[k][i] > 0 => row[i].attempts <= attempt[k][i]
       /\ stage[k][i] # "dead"

ItemInv(i) ==
  Charged(i) /\ LeaseBehindRunning(i) /\ \A k \in Workers : Billed(k, i)

ChargeInv == TypeOK /\ \A i \in Items : ItemInv(i)

(* What TypeOK says of one item and one worker. *)
LEMMA ItemTypes ==
  ASSUME TypeOK, NEW i \in Items, NEW k \in Workers
  PROVE  /\ row[i] \in Row /\ row[i].attempts \in 0 .. AttemptLimit
         /\ row[i].revision \in Int
         /\ charges[i] \in 0 .. AttemptLimit
         /\ attempt[k][i] \in 0 .. AttemptLimit
         /\ stage[k][i] \in Stage
         /\ live[k] \in SUBSET Items
         /\ AttemptLimit \in Nat
BY RevisionHeadroom DEF TypeOK, Row

(* A version of an attempt under work gives way to every terminal one. *)
LEMMA TerminalReplacesRunning ==
  ASSUME NEW current \in Row, current.status = "running",
         current.revision = current.attempts * 10 + 1,
         NEW a \in 0 .. AttemptLimit, NEW v,
         v \in {DoneRow(a), DeadRow(a), UnavailableRow(a)}
  PROVE  Put(current, v) = v
<1>1. current.attempts \in 0 .. AttemptLimit /\ current.revision \in Int
  BY DEF Row
<1>2. v.revision \in {MaxRevision, MaxRevision - 1, MaxRevision - 2}
  BY DEF DoneRow, DeadRow, UnavailableRow, Version
<1>3. v.revision >= current.revision
  BY <1>1, <1>2, RevisionHeadroom
<1> QED BY <1>3 DEF Put

(* The step of one item's worker that inserts v, and charges the attempt or *)
(* not: what is left to show is about v alone.                              *)
LEMMA OutcomeKeeps ==
  ASSUME TypeOK, NEW i \in Items, ItemInv(i), NEW k \in Workers,
         phase[k] = "working", stage[k][i] # "out",
         NEW a, a = attempt[k][i],
         NEW v, row'[i] = Put(row[i], v),
         NEW s \in Stage, stage'[k][i] = s,
         \A l \in Workers : l # k => stage'[l][i] = stage[l][i],
         \A l \in Workers : l # k => live'[l] = live[l],
         attempt' = attempt, phase' = phase,
         charges'[i] \in Int,
         \/ /\ v \in {DoneRow(a), DeadRow(a), UnavailableRow(a)}
            /\ charges'[i] = charges[i]
         \/ /\ v = RetryRow(a) /\ s # "dead"
            /\ charges'[i] = IF charges[i] < AttemptLimit
                               THEN charges[i] + 1 ELSE charges[i]
  PROVE  ItemInv(i)'
<1> USE RevisionHeadroom
<1>1. /\ row[i] \in Row /\ row[i].attempts \in 0 .. AttemptLimit
      /\ charges[i] \in 0 .. AttemptLimit
      /\ a \in 0 .. AttemptLimit
      /\ a > 0 /\ a <= charges[i] + 1
  BY ItemTypes DEF ItemInv, Billed
<1>2. charges'[i] >= charges[i]
  BY <1>1
<1>3. CASE v \in {DoneRow(a), DeadRow(a), UnavailableRow(a)} /\ charges'[i] = charges[i]
  <2>1. v.status \notin {"running", "pending"} /\ v.attempts = a
    BY <1>3 DEF DoneRow, DeadRow, UnavailableRow, Version
  <2>2. row[i].status = "running" => row'[i] = v
    BY <1>1, <1>3, TerminalReplacesRunning DEF ItemInv, LeaseBehindRunning
  <2>3. row'[i] = v \/ row'[i] = row[i]
    BY DEF Put
  <2>4. row'[i].status # "running"
    BY <2>1, <2>2, <2>3
  <2>5. Charged(i)'
    BY <1>1, <1>3, <2>1, <2>3 DEF ItemInv, Charged
  <2>6. \A l \in Workers : Billed(l, i)'
    BY <1>1, <1>3, <2>4 DEF ItemInv, Billed
  <2> QED BY <2>4, <2>5, <2>6 DEF ItemInv, LeaseBehindRunning
<1>4. CASE /\ v = RetryRow(a) /\ s # "dead"
           /\ charges'[i] = IF charges[i] < AttemptLimit
                              THEN charges[i] + 1 ELSE charges[i]
  <2>1. v.status = "pending" /\ v.attempts = a
    BY <1>4 DEF RetryRow, Version
  <2>2. row'[i] = v \/ row'[i] = row[i]
    BY DEF Put
  <2>3. a <= charges'[i] /\ (row[i].attempts <= charges[i] + 1 => row[i].attempts <= charges'[i])
    BY <1>1, <1>4
  <2>4. Charged(i)'
    BY <1>1, <1>2, <2>1, <2>2, <2>3 DEF ItemInv, Charged
  <2>5. LeaseBehindRunning(i)'
    BY <1>1, <1>2, <2>1, <2>2, <2>3 DEF ItemInv, LeaseBehindRunning, Charged
  <2>6. \A l \in Workers : Billed(l, i)'
    <3> SUFFICES ASSUME NEW l \in Workers PROVE Billed(l, i)'
      OBVIOUS
    <3>1. attempt[l][i] \in 0 .. AttemptLimit /\ Billed(l, i)
      BY ItemTypes DEF ItemInv
    <3> QED BY <1>1, <1>2, <1>4, <2>1, <2>2, <3>1 DEF Billed
  <2> QED BY <2>4, <2>5, <2>6 DEF ItemInv
<1> QED BY <1>3, <1>4

(* A step that leaves the version of an item as it is, apart from due: what *)
(* it may do to leases, batches and charges.                                *)
LEMMA QuietStepKeeps ==
  ASSUME TypeOK, TypeOK', NEW i \in Items, ItemInv(i),
         row'[i].status = row[i].status, row'[i].attempts = row[i].attempts,
         row'[i].revision = row[i].revision, row'[i].owner = row[i].owner,
         charges'[i] >= charges[i],
         \A l \in Workers :
           i \in live[l] /\ row[i].status = "running" /\ row[i].owner = l =>
             i \in live'[l] \/ row[i].attempts <= charges'[i],
         \A l \in Workers :
           /\ \/ attempt'[l][i] = attempt[l][i]
              \/ attempt'[l][i] = 0 /\ stage'[l][i] = "out"
           /\ stage'[l][i] = "dead" => stage[l][i] = "dead"
           /\ stage'[l][i] # "out" =>
                stage[l][i] # "out" /\ phase'[l] \in {"working", "releasing"}
  PROVE  ItemInv(i)'
<1>1. /\ row[i].attempts \in Int /\ charges[i] \in Int /\ charges'[i] \in Int
      /\ charges[i] >= 0
  BY RevisionHeadroom DEF TypeOK, Row
<1>2. Charged(i)'
  BY <1>1 DEF ItemInv, Charged
<1>3. LeaseBehindRunning(i)'
  BY <1>1 DEF ItemInv, LeaseBehindRunning
<1>4. ASSUME NEW l \in Workers PROVE Billed(l, i)'
  <2>1. attempt[l][i] \in Int
    BY ItemTypes
  <2> QED BY <1>1, <2>1 DEF ItemInv, Billed
<1> QED BY <1>2, <1>3, <1>4 DEF ItemInv

(* An item that a step writes no version of and moves in no batch. *)
LEMMA BystanderKeeps ==
  ASSUME TypeOK, TypeOK', NEW i \in Items, ItemInv(i),
         row'[i] = row[i], charges'[i] = charges[i],
         \A l \in Workers : (i \in live[l] => i \in live'[l])
                            /\ stage'[l][i] = stage[l][i],
         UNCHANGED <<attempt, phase>>
  PROVE  ItemInv(i)'
<1>1. \A l \in Workers :
        stage[l][i] # "out" => phase[l] \in {"working", "releasing"}
  BY DEF ItemInv, Billed
<1>2. charges'[i] >= charges[i]
  BY RevisionHeadroom DEF TypeOK
<1> QED BY <1>1, <1>2, QuietStepKeeps

-----------------------------------------------------------------------------
(* One item of a batch. *)
LEMMA ItemStepKeepsCharges ==
  ASSUME ChargeInv, TypeOK', NEW k \in Workers, NEW i \in Items,
         ItemStep(k, i) \/ ItemFault(k, i)
  PROVE  ChargeInv'
<1> DEFINE a == attempt[k][i]
<1>0. TypeOK /\ ItemInv(i) /\ \A j \in Items : ItemInv(j)
  BY DEF ChargeInv
<1>1. ASSUME NEW j \in Items, j # i PROVE ItemInv(j)'
  <2>1. /\ row'[j] = row[j] /\ charges'[j] = charges[j]
        /\ \A l \in Workers : (j \in live[l] => j \in live'[l])
                              /\ stage'[l][j] = stage[l][j]
        /\ UNCHANGED <<attempt, phase>>
    <3>1. \A v : InsertOne(i, v) => row'[j] = row[j]
      BY <1>1 DEF InsertOne, Insert
    <3>2. \A s : SetStage(k, i, s) => \A l \in Workers : stage'[l][j] = stage[l][j]
      BY <1>0, <1>1 DEF SetStage, TypeOK
    <3>3. EndLease(k, i) => \A l \in Workers : j \in live[l] => j \in live'[l]
      BY <1>0, <1>1 DEF EndLease, TypeOK
    <3>4. Charge(i) => charges'[j] = charges[j]
      BY <1>0, <1>1 DEF Charge, TypeOK
    <3>5. CASE ItemStep(k, i)
      BY <3>1, <3>2, <3>3, <3>4, <3>5
         DEF ItemStep, Succeed, Unavailable, HandlerRaises, Retry, Bury,
             DeadLetter, queueVars
    <3>6. CASE ItemFault(k, i)
      BY <3>1, <3>2, <3>3, <3>4, <3>6
         DEF ItemFault, EnqueueRaises, SuccessUnacknowledged, FinishRaises,
             queueVars, batchVars
    <3> QED BY <3>5, <3>6
  <2> QED BY <1>0, <2>1, BystanderKeeps
<1>2. ItemInv(i)'
  <2>1. \A v, s : /\ InsertOne(i, v) => row'[i] = Put(row[i], v)
                  /\ SetStage(k, i, s) => /\ stage'[k][i] = s
                                          /\ \A l \in Workers :
                                               l # k => stage'[l][i] = stage[l][i]
    BY <1>0 DEF InsertOne, Insert, SetStage, TypeOK
  <2>2. EndLease(k, i) => \A l \in Workers : l # k => live'[l] = live[l]
    BY <1>0 DEF EndLease, TypeOK
  <2>3. Charge(i) => charges'[i] = IF charges[i] < AttemptLimit
                                     THEN charges[i] + 1 ELSE charges[i]
    BY <1>0 DEF Charge, TypeOK
  <2>4. charges[i] \in Int /\ charges'[i] \in Int /\ charges[i] >= charges[i]
    BY <1>0, RevisionHeadroom DEF TypeOK
  <2>5. {"out", "processing", "failed", "dead", "stuck"} = Stage
    BY DEF Stage
  <2>6. ASSUME NEW v \in {DoneRow(a), DeadRow(a), UnavailableRow(a)},
               NEW s \in Stage, InsertOne(i, v), SetStage(k, i, s),
               EndLease(k, i) \/ UNCHANGED live,
               phase[k] = "working", stage[k][i] # "out",
               UNCHANGED <<attempt, phase, charges>>
        PROVE  ItemInv(i)'
    BY <1>0, <2>1, <2>2, <2>4, <2>6, OutcomeKeeps
  <2>7. ASSUME NEW s \in Stage \ {"dead"}, InsertOne(i, RetryRow(a)),
               SetStage(k, i, s), EndLease(k, i), Charge(i),
               phase[k] = "working", stage[k][i] # "out",
               UNCHANGED <<attempt, phase>>
        PROVE  ItemInv(i)'
    BY <1>0, <2>1, <2>2, <2>3, <2>4, <2>7, OutcomeKeeps
  <2>8. ASSUME NEW s \in {"out", "failed", "stuck"}, SetStage(k, i, s),
               phase[k] = "working", stage[k][i] # "out",
               UNCHANGED <<row, attempt, phase, charges>>,
               UNCHANGED live \/ (stage[k][i] = "dead" /\ EndLease(k, i))
        PROVE  ItemInv(i)'
    <3>1. \A l \in Workers :
            i \in live[l] /\ row[i].status = "running" /\ row[i].owner = l =>
              i \in live'[l]
      BY <1>0, <2>2, <2>8 DEF ItemInv, Billed
    <3>2. \A l \in Workers :
            /\ stage'[l][i] = "dead" => stage[l][i] = "dead"
            /\ stage'[l][i] # "out" =>
                 stage[l][i] # "out" /\ phase'[l] \in {"working", "releasing"}
      BY <1>0, <2>1, <2>8 DEF ItemInv, Billed
    <3> QED BY <1>0, <2>4, <2>8, <3>1, <3>2, QuietStepKeeps
  <2>9. CASE Succeed(k, i)
    BY <2>5, <2>6, <2>9 DEF Succeed
  <2>10. CASE Unavailable(k, i)
    BY <2>5, <2>6, <2>10 DEF Unavailable
  <2>11. CASE HandlerRaises(k, i)
    BY <2>8, <2>11 DEF HandlerRaises, queueVars
  <2>12. CASE Retry(k, i)
    BY <2>5, <2>7, <2>12 DEF Retry
  <2>13. CASE Bury(k, i)
    BY <2>5, <2>6, <2>13 DEF Bury
  <2>14. CASE DeadLetter(k, i)
    BY <2>8, <2>14 DEF DeadLetter
  <2>15. CASE EnqueueRaises(k, i)
    BY <1>0, <2>15, BystanderKeeps DEF EnqueueRaises, queueVars, batchVars
  <2>16. CASE SuccessUnacknowledged(k, i)
    BY <2>5, <2>6, <2>16 DEF SuccessUnacknowledged
  <2>17. CASE FinishRaises(k, i)
    <3>1. phase[k] = "working" /\ stage[k][i] # "out" /\ SetStage(k, i, "stuck")
          /\ UNCHANGED <<attempt, phase>>
      BY <2>17 DEF FinishRaises
    <3>2. CASE InsertOne(i, UnavailableRow(a)) /\ UNCHANGED <<live, charges>>
      BY <2>5, <2>6, <3>1, <3>2
    <3>3. CASE InsertOne(i, RetryRow(a)) /\ EndLease(k, i) /\ Charge(i)
      BY <2>5, <2>7, <3>1, <3>3
    <3>4. CASE InsertOne(i, DeadRow(a)) /\ UNCHANGED <<live, charges>>
      BY <2>5, <2>6, <3>1, <3>4
    <3>5. CASE UNCHANGED <<row, oldest, live, charges>>
      BY <2>8, <3>1, <3>5
    <3> QED BY <2>17, <3>2, <3>3, <3>4, <3>5 DEF FinishRaises
  <2> QED
    BY <2>9, <2>10, <2>11, <2>12, <2>13, <2>14, <2>15, <2>16, <2>17
       DEF ItemStep, ItemFault
<1> QED BY <1>1, <1>2 DEF ChargeInv

(* A whole batch. *)
LEMMA BatchStepKeepsCharges ==
  ASSUME ChargeInv, TypeOK', NEW k \in Workers, BatchStep(k) \/ ProcessFault(k)
  PROVE  ChargeInv'
<1> SUFFICES ASSUME NEW i \in Items PROVE ItemInv(i)'
  BY DEF ChargeInv
<1> DEFINE a == attempt[k][i]
<1>0. TypeOK /\ ItemInv(i) /\ a \in 0 .. AttemptLimit /\ AttemptLimit \in Nat
  BY ItemTypes DEF ChargeInv
<1>1. charges[i] \in Int /\ charges[i] >= 0 /\ charges[i] >= charges[i]
      /\ row[i].attempts \in Int
  BY <1>0, RevisionHeadroom DEF TypeOK, Row
<1>2. \A l \in Workers :
        stage[l][i] # "out" => phase[l] \in {"working", "releasing"}
  BY <1>0 DEF ItemInv, Billed
<1>3. OutOfBatch(k) =>
        \A l \in Workers :
          /\ IF l = k THEN attempt'[l][i] = 0 /\ stage'[l][i] = "out"
                      ELSE /\ attempt'[l][i] = attempt[l][i]
                           /\ stage'[l][i] = stage[l][i]
                           /\ phase'[l] = phase[l]
  BY <1>0 DEF OutOfBatch, TypeOK
<1>4. ASSUME OutOfBatch(k), UNCHANGED <<row, live, charges>>
      PROVE  ItemInv(i)'
  BY <1>0, <1>1, <1>2, <1>3, <1>4, QuietStepKeeps
<1>5. CASE BatchReturns(k)
  BY <1>4, <1>5 DEF BatchReturns, queueVars
<1>6. CASE ReleaseRaises(k) \/ Crash(k)
  BY <1>4, <1>6 DEF ReleaseRaises, Crash, queueVars
<1>7. CASE PurgeRaises(k)
  BY <1>0, <1>7, BystanderKeeps DEF PurgeRaises, queueVars, batchVars
<1>8. CASE BatchDeadline(k)
  <2>1. \A l \in Workers :
          stage'[l][i] # "out" => phase'[l] \in {"working", "releasing"}
    BY <1>0, <1>2, <1>8 DEF BatchDeadline, TypeOK
  <2> QED BY <1>0, <1>1, <1>8, <2>1, QuietStepKeeps DEF BatchDeadline, queueVars
<1>9. CASE LeaseSelect(k)
  <2>1. PICK ids \in SUBSET {j \in Items : Leasable(j)} :
          attempt' = [attempt EXCEPT ![k] =
                        [j \in Items |->
                           IF j \in ids THEN row[j].attempts + 1 ELSE 0]]
    BY <1>9, Zenon DEF LeaseSelect
  <2>2. /\ attempt'[k][i] = IF i \in ids THEN row[i].attempts + 1 ELSE 0
        /\ \A l \in Workers : l # k => attempt'[l][i] = attempt[l][i]
    BY <1>0, <2>1 DEF TypeOK
  <2>3. UNCHANGED <<row, stage, live, charges>> /\ stage[k][i] = "out"
        /\ \A l \in Workers : l # k => phase'[l] = phase[l]
    BY <1>0, <1>2, <1>9 DEF LeaseSelect, queueVars, TypeOK
  <2>4. i \in ids => row[i].attempts <= charges[i]
    BY <1>0, <1>1, <2>1 DEF Leasable, ItemInv, Charged, LeaseBehindRunning
  <2>5. Charged(i)' /\ LeaseBehindRunning(i)'
    BY <1>0, <2>3 DEF ItemInv, Charged, LeaseBehindRunning
  <2>6. ASSUME NEW l \in Workers PROVE Billed(l, i)'
    <3>1. CASE l = k
      BY <1>0, <1>1, <2>2, <2>3, <2>4, <3>1 DEF Billed
    <3>2. CASE l # k
      BY <1>0, <2>2, <2>3, <3>2 DEF ItemInv, Billed
    <3> QED BY <3>1, <3>2
  <2> QED BY <2>5, <2>6 DEF ItemInv
<1>10. ASSUME InsertLeases(k), UNCHANGED charges, i \in Leased(k),
              \A l \in Workers : l # k => /\ attempt'[l][i] = attempt[l][i]
                                          /\ stage'[l][i] = stage[l][i]
                                          /\ phase'[l] = phase[l],
              \/ /\ attempt'[k][i] = a /\ stage'[k][i] = "processing"
                 /\ phase'[k] = "working"
              \/ attempt'[k][i] = 0 /\ stage'[k][i] = "out"
       PROVE  ItemInv(i)'
  <2>1. a > 0 /\ a <= charges[i] + 1
    BY <1>0, <1>10 DEF Leased, ItemInv, Billed
  <2>2. row'[i] = Put(row[i], LeaseRow(k, a))
    BY <1>10 DEF InsertLeases, Insert
  <2>3. /\ \A l \in Workers : i \in live[l] => i \in live'[l]
        /\ i \in live'[k]
    BY <1>0, <1>10 DEF InsertLeases, TypeOK
  <2>4. /\ LeaseRow(k, a).status = "running" /\ LeaseRow(k, a).owner = k
        /\ LeaseRow(k, a).attempts = a /\ LeaseRow(k, a).revision = a * 10 + 1
    BY DEF LeaseRow, Version
  <2>5. row'[i] = LeaseRow(k, a) \/ row'[i] = row[i]
    BY <2>2 DEF Put
  <2>6. Charged(i)' /\ LeaseBehindRunning(i)'
    BY <1>0, <1>10, <2>1, <2>3, <2>4, <2>5
       DEF ItemInv, Charged, LeaseBehindRunning
  <2>7. ASSUME NEW l \in Workers PROVE Billed(l, i)'
    <3>1. CASE l = k
      BY <1>0, <1>1, <1>10, <2>1, <2>4, <2>5, <3>1 DEF ItemInv, Billed
    <3>2. CASE l # k
      BY <1>0, <1>10, <2>4, <2>5, <3>2 DEF ItemInv, Billed
    <3> QED BY <3>1, <3>2
  <2> QED BY <2>6, <2>7 DEF ItemInv
<1>11. ASSUME InsertLeases(k), i \notin Leased(k)
       PROVE  row'[i] = row[i] /\ \A l \in Workers : i \in live[l] => i \in live'[l]
  BY <1>0, <1>11 DEF InsertLeases, Insert, TypeOK
<1>12. CASE LeaseInsert(k)
  <2>1. /\ \A l \in Workers : l # k => /\ stage'[l][i] = stage[l][i]
                                       /\ phase'[l] = phase[l]
        /\ attempt' = attempt /\ charges' = charges /\ phase'[k] = "working"
        /\ stage'[k][i] = IF i \in Leased(k) THEN "processing" ELSE "out"
        /\ InsertLeases(k) /\ stage[k][i] = "out"
    BY <1>0, <1>2, <1>12 DEF LeaseInsert, TypeOK
  <2>2. CASE i \in Leased(k)
    BY <1>10, <2>1, <2>2
  <2>3. CASE i \notin Leased(k)
    <3>1. \A l \in Workers :
            stage'[l][i] # "out" =>
              stage[l][i] # "out" /\ phase'[l] \in {"working", "releasing"}
      BY <1>2, <2>1, <2>3
    <3>2. \A l \in Workers : stage'[l][i] = stage[l][i]
      BY <2>1, <2>3
    <3> QED BY <1>0, <1>1, <1>11, <2>1, <2>3, <3>1, <3>2, QuietStepKeeps
  <2> QED BY <2>2, <2>3
<1>13. CASE LeaseInsertRaises(k)
  <2>1. CASE UNCHANGED <<row, oldest, live>>
    BY <1>4, <1>13, <2>1 DEF LeaseInsertRaises
  <2>2. CASE InsertLeases(k) /\ i \in Leased(k)
    BY <1>3, <1>10, <1>13, <2>2 DEF LeaseInsertRaises
  <2>3. CASE InsertLeases(k) /\ i \notin Leased(k)
    BY <1>0, <1>1, <1>2, <1>3, <1>11, <1>13, <2>3, QuietStepKeeps
       DEF LeaseInsertRaises
  <2> QED BY <1>13, <2>1, <2>2, <2>3 DEF LeaseInsertRaises
<1>14. CASE Release(k)
  <2>0. OutOfBatch(k) /\ charges' = charges
        /\ \A l \in Workers : l # k => live'[l] = live[l]
    BY <1>0, <1>14 DEF Release, TypeOK
  <2>1. CASE i \notin Pending(k)
    <3>1. row'[i] = row[i] /\ \A l \in Workers : i \in live[l] => i \in live'[l]
      BY <1>0, <1>14, <2>1 DEF Release, Insert, TypeOK
    <3> QED BY <1>0, <1>1, <1>2, <1>3, <2>0, <3>1, QuietStepKeeps
  <2>2. CASE i \in Pending(k)
    <3>1. a > 0 /\ a <= charges[i] + 1
      BY <1>0, <2>2 DEF Pending, ItemInv, Billed
    <3>2. row'[i] = Put(row[i], ReleaseRow(a))
      BY <1>14, <2>2 DEF Release, Insert
    <3>3. /\ ReleaseRow(a).status = "pending"
          /\ ReleaseRow(a).attempts = a - 1
          /\ ReleaseRow(a).revision = a * 10 + 2
      BY <1>0, <3>1 DEF ReleaseRow, Version
    <3>4. row'[i] = ReleaseRow(a) \/ row'[i] = row[i]
      BY <3>2 DEF Put
    <3>5. row[i].status = "running" /\ row[i].owner = k => row'[i] = ReleaseRow(a)
      BY <1>0, <1>1, <3>1, <3>2, <3>3
         DEF ItemInv, LeaseBehindRunning, Billed, Put
    <3>6. Charged(i)'
      BY <1>0, <1>1, <2>0, <3>1, <3>3, <3>4 DEF ItemInv, Charged
    <3>7. LeaseBehindRunning(i)'
      BY <1>0, <2>0, <3>3, <3>4, <3>5 DEF ItemInv, LeaseBehindRunning
    <3>8. ASSUME NEW l \in Workers PROVE Billed(l, i)'
      BY <1>0, <1>1, <1>3, <2>0, <3>3, <3>4 DEF ItemInv, Billed
    <3> QED BY <3>6, <3>7, <3>8 DEF ItemInv
  <2> QED BY <2>1, <2>2
<1> QED
  BY <1>5, <1>6, <1>7, <1>8, <1>9, <1>12, <1>13, <1>14 DEF BatchStep, ProcessFault

-----------------------------------------------------------------------------
(* A version without a charge, the enqueued or the absent one: it bills no  *)
(* attempt and stands for no lease.                                         *)
LEMMA FreeVersionKeeps ==
  ASSUME TypeOK, TypeOK', NEW i \in Items, ItemInv(i),
         row'[i] = row[i] \/ row'[i] = Absent \/ row'[i] = EnqueueRow,
         UNCHANGED <<batchVars, charges>>
  PROVE  ItemInv(i)'
<1>1. CASE row'[i] = row[i]
  BY <1>1, BystanderKeeps DEF batchVars
<1>2. CASE row'[i] # row[i]
  <2>1. row'[i].attempts = 0 /\ row'[i].status \in {"absent", "pending"}
    BY <1>2 DEF Absent, EnqueueRow, Version
  <2>2. charges'[i] \in Int /\ charges'[i] >= 0
    BY RevisionHeadroom DEF TypeOK
  <2>3. Charged(i)' /\ LeaseBehindRunning(i)'
    BY <2>1, <2>2 DEF Charged, LeaseBehindRunning
  <2>4. ASSUME NEW l \in Workers PROVE Billed(l, i)'
    BY <2>1 DEF ItemInv, Billed, batchVars
  <2> QED BY <2>3, <2>4 DEF ItemInv
<1> QED BY <1>1, <1>2

(* The lapse of a lease charges the attempt it stood behind. *)
LEMMA LapseKeepsCharges ==
  ASSUME ChargeInv, TypeOK', NEW k \in Workers, NEW i \in Items,
         LeaseLapses(k, i), NEW j \in Items
  PROVE  ItemInv(j)'
<1>0. TypeOK /\ ItemInv(j)
  BY DEF ChargeInv
<1>1. UNCHANGED <<row, phase, stage, attempt>>
  BY DEF LeaseLapses, queueVars
<1>2. CASE j # i
  <2>1. charges'[j] = charges[j] /\ \A l \in Workers : j \in live[l] => j \in live'[l]
    BY <1>0, <1>2 DEF LeaseLapses, EndLease, Charge, TypeOK
  <2> QED BY <1>0, <1>1, <2>1, BystanderKeeps
<1>3. CASE j = i
  <2>1. /\ row[i].attempts \in 0 .. AttemptLimit /\ charges[i] \in 0 .. AttemptLimit
        /\ AttemptLimit \in Nat
    BY <1>0, RevisionHeadroom DEF TypeOK, Row
  <2>2. charges'[i] = IF charges[i] < AttemptLimit THEN charges[i] + 1 ELSE charges[i]
    BY <1>0 DEF LeaseLapses, Charge, TypeOK
  <2>3. charges'[i] >= charges[i]
    BY <2>1, <2>2
  <2>4. row[i].status = "running" => row[i].attempts <= charges'[i]
    BY <1>0, <1>3, <2>1, <2>2 DEF ItemInv, Charged
  <2>5. \A l \in Workers :
          stage[l][i] # "out" => phase[l] \in {"working", "releasing"}
    BY <1>0, <1>3 DEF ItemInv, Billed
  <2> QED BY <1>0, <1>1, <1>3, <2>3, <2>4, <2>5, QuietStepKeeps
<1> QED BY <1>2, <1>3

(* The steps of the enqueue, the buffer, the purge and of time. *)
LEMMA OtherStepKeepsCharges ==
  ASSUME ChargeInv, TypeOK',
         \/ \E k \in Workers, i \in Items :
              Enqueue(k, i) \/ DedupLapses(k, i) \/ LeaseLapses(k, i)
         \/ \E k \in Workers : Purge(k)
         \/ \E i \in Items : Flush(i) \/ RetryDue(i) \/ TerminalAges(i)
         \/ LoseBuffer
         \/ UNCHANGED vars
  PROVE  ChargeInv'
<1> SUFFICES ASSUME NEW j \in Items PROVE ItemInv(j)'
  BY DEF ChargeInv
<1>0. TypeOK /\ ItemInv(j)
  BY DEF ChargeInv
<1>1. ASSUME NEW k \in Workers, NEW i \in Items,
             Enqueue(k, i) \/ DedupLapses(k, i)
      PROVE  ItemInv(j)'
  BY <1>0, <1>1, FreeVersionKeeps DEF Enqueue, DedupLapses, queueVars
<1>2. ASSUME NEW k \in Workers, NEW i \in Items, LeaseLapses(k, i)
      PROVE  ItemInv(j)'
  BY <1>2, LapseKeepsCharges
<1>3. ASSUME NEW k \in Workers, Purge(k) PROVE ItemInv(j)'
  <2>1. CASE PurgeSelect(k)
    BY <1>0, <2>1, FreeVersionKeeps DEF PurgeSelect, queueVars
  <2>2. CASE PurgeDelete(k)
    <3>1. row'[j] = Absent \/ row'[j] = row[j]
      BY <2>2 DEF PurgeDelete
    <3> QED BY <1>0, <2>2, <3>1, FreeVersionKeeps DEF PurgeDelete
  <2> QED BY <1>3, <2>1, <2>2 DEF Purge
<1>4. ASSUME NEW i \in Items, Flush(i) PROVE ItemInv(j)'
  <2>1. row'[j] = EnqueueRow \/ row'[j] = row[j]
    BY <1>4 DEF Flush, InsertOne, Insert, Put
  <2> QED BY <1>0, <1>4, <2>1, FreeVersionKeeps DEF Flush
<1>5. ASSUME NEW i \in Items, RetryDue(i) PROVE ItemInv(j)'
  <2>1. /\ row'[j].status = row[j].status /\ row'[j].attempts = row[j].attempts
        /\ row'[j].revision = row[j].revision /\ row'[j].owner = row[j].owner
    BY <1>0, <1>5 DEF RetryDue, Version, TypeOK
  <2>2. UNCHANGED <<phase, stage, attempt, live, charges>>
    BY <1>5 DEF RetryDue, batchVars
  <2>3. charges'[j] >= charges[j]
    BY <1>0, <2>2, RevisionHeadroom DEF TypeOK
  <2>4. \A l \in Workers :
          stage[l][j] # "out" => phase[l] \in {"working", "releasing"}
    BY <1>0 DEF ItemInv, Billed
  <2> QED BY <1>0, <2>1, <2>2, <2>3, <2>4, QuietStepKeeps
<1>6. ASSUME NEW i \in Items, TerminalAges(i) PROVE ItemInv(j)'
  BY <1>0, <1>6, FreeVersionKeeps DEF TerminalAges
<1>7. CASE LoseBuffer
  BY <1>0, <1>7, FreeVersionKeeps DEF LoseBuffer
<1>8. CASE UNCHANGED vars
  BY <1>0, <1>8, FreeVersionKeeps DEF vars, queueVars
<1> QED BY <1>1, <1>2, <1>3, <1>4, <1>5, <1>6, <1>7, <1>8

(* No item has been leased, so none is billed. *)
LEMMA InitCharges == Init => ChargeInv
<1> SUFFICES ASSUME Init PROVE ChargeInv
  OBVIOUS
<1>1. TypeOK
  BY QueueParameters, RevisionHeadroom, NoOwnerIsNoWorker
     DEF Init, TypeOK, Row, Absent, Version, Stage, Phase
<1>2. ASSUME NEW i \in Items PROVE ItemInv(i)
  <2>1. row[i].attempts = 0 /\ row[i].status = "absent" /\ charges[i] = 0
    BY DEF Init, Absent, Version
  <2>2. \A k \in Workers : attempt[k][i] = 0 /\ stage[k][i] = "out"
    BY DEF Init
  <2> QED BY <2>1, <2>2 DEF ItemInv, Charged, LeaseBehindRunning, Billed
<1> QED BY <1>1, <1>2 DEF ChargeInv

(* The attempts column never runs ahead of the attempts that failed or      *)
(* whose lease ran out: what release_work gives back is all that an         *)
(* abandoned batch had taken from an item's budget.                         *)
THEOREM AbandonedAttemptsAreFree == Spec => []AttemptsAreCharged
<1>1. ChargeInv /\ TypeOK' /\ [Next]_vars => ChargeInv'
  <2> SUFFICES ASSUME ChargeInv, TypeOK', [Next]_vars PROVE ChargeInv'
    OBVIOUS
  <2>1. CASE \E k \in Workers, i \in Items : ItemStep(k, i) \/ ItemFault(k, i)
    BY <2>1, ItemStepKeepsCharges
  <2>2. CASE \E k \in Workers : BatchStep(k) \/ ProcessFault(k)
    BY <2>2, BatchStepKeepsCharges
  <2>3. CASE \/ \E k \in Workers, i \in Items :
                  Enqueue(k, i) \/ DedupLapses(k, i) \/ LeaseLapses(k, i)
             \/ \E k \in Workers : Purge(k)
             \/ \E i \in Items : Flush(i) \/ RetryDue(i) \/ TerminalAges(i)
             \/ LoseBuffer
             \/ UNCHANGED vars
    BY <2>3, OtherStepKeepsCharges
  <2> QED BY <2>1, <2>2, <2>3 DEF Next
<1>2. ChargeInv => AttemptsAreCharged
  BY DEF ChargeInv, ItemInv, Charged, AttemptsAreCharged
<1> QED BY <1>1, <1>2, InitCharges, TypeCorrect, PTL DEF Spec

=============================================================================
