--------------------------- MODULE WorkQueueProofs ---------------------------
(***************************************************************************)
(* Theorems about WorkQueue for every set of workers and items, every      *)
(* batch size, retry budget and number of faults.                          *)
(***************************************************************************)
EXTENDS WorkQueue, TLAPS

(* Every version the queue writes is a row, with a revision that fits. *)
LEMMA VersionTypes ==
  ASSUME NEW k \in Workers, NEW a \in 0 .. AttemptLimit
  PROVE  /\ EnqueueRow \in Row /\ Absent \in Row
         /\ LeaseRow(k, a) \in Row
         /\ ReleaseRow(a) \in Row /\ RetryRow(a) \in Row
         /\ DoneRow(a) \in Row /\ DeadRow(a) \in Row /\ UnavailableRow(a) \in Row
BY RevisionHeadroom, SMT
   DEF EnqueueRow, Absent, LeaseRow, ReleaseRow, RetryRow, DoneRow, DeadRow,
       UnavailableRow, Version, Row, Open, TERMINAL_WORK_STATUSES

LEMMA InsertTypes ==
  ASSUME row \in [Items -> Row],
         oldest \in [Items -> {"none", "fresh", "aged"}],
         NEW ids \in SUBSET Items, NEW new,
         \A i \in ids : new[i] \in Row,
         Insert(ids, new)
  PROVE  /\ row' \in [Items -> Row]
         /\ oldest' \in [Items -> {"none", "fresh", "aged"}]
BY Zenon DEF Insert, Put

LEMMA InsertOneTypes ==
  ASSUME row \in [Items -> Row],
         oldest \in [Items -> {"none", "fresh", "aged"}],
         NEW i \in Items, NEW version \in Row,
         InsertOne(i, version)
  PROVE  /\ row' \in [Items -> Row]
         /\ oldest' \in [Items -> {"none", "fresh", "aged"}]
BY InsertTypes DEF InsertOne

(* What the steps of one item of a batch leave of the type invariant. *)
LEMMA ItemStepTypes ==
  ASSUME TypeOK, NEW k \in Workers, NEW i \in Items,
         ItemStep(k, i) \/ ItemFault(k, i)
  PROVE  TypeOK'
<1> DEFINE a == attempt[k][i]
<1> USE DEF TypeOK
<1>0. a \in 0 .. AttemptLimit
  OBVIOUS
<1>1. /\ DoneRow(a) \in Row /\ DeadRow(a) \in Row /\ RetryRow(a) \in Row
      /\ UnavailableRow(a) \in Row
  BY <1>0, VersionTypes, Zenon
<1>2. \A s \in Stage : SetStage(k, i, s) => stage' \in [Workers -> [Items -> Stage]]
  BY DEF SetStage
<1>3. EndLease(k, i) => live' \in [Workers -> SUBSET Items]
  BY DEF EndLease
<1>4. Charge(i) => charges' \in [Items -> 0 .. AttemptLimit]
  BY RevisionHeadroom DEF Charge
<1>5. Fault => faults' \in 0 .. MaxFaults
  BY QueueParameters DEF Fault
<1>6. \A v \in Row : InsertOne(i, v) => /\ row' \in [Items -> Row]
                                      /\ oldest' \in [Items -> {"none", "fresh", "aged"}]
  BY InsertOneTypes, Zenon
<1>7. {"out", "processing", "failed", "dead", "stuck"} = Stage
  BY DEF Stage
<1> HIDE DEF a
<1>8. CASE Succeed(k, i)
  BY <1>1, <1>2, <1>3, <1>6, <1>7, <1>8 DEF Succeed, a
<1>9. CASE Unavailable(k, i)
  BY <1>1, <1>2, <1>3, <1>6, <1>7, <1>9 DEF Unavailable, a
<1>10. CASE HandlerRaises(k, i)
  BY <1>2, <1>7, <1>10 DEF HandlerRaises, queueVars
<1>11. CASE Retry(k, i)
  BY <1>1, <1>2, <1>3, <1>4, <1>6, <1>7, <1>11 DEF Retry, a
<1>12. CASE Bury(k, i)
  BY <1>1, <1>2, <1>6, <1>7, <1>12 DEF Bury, a
<1>13. CASE DeadLetter(k, i)
  BY <1>2, <1>3, <1>7, <1>13 DEF DeadLetter
<1>14. CASE EnqueueRaises(k, i)
  BY <1>5, <1>14 DEF EnqueueRaises, queueVars, batchVars
<1>15. CASE SuccessUnacknowledged(k, i)
  BY <1>1, <1>2, <1>5, <1>6, <1>7, <1>15 DEF SuccessUnacknowledged, a
<1>16. CASE FinishRaises(k, i)
  BY <1>1, <1>2, <1>3, <1>4, <1>5, <1>6, <1>7, <1>16 DEF FinishRaises, a
<1>17. QED
  BY <1>8, <1>9, <1>10, <1>11, <1>12, <1>13, <1>14, <1>15, <1>16
     DEF ItemStep, ItemFault

LEMMA ProcessStepTypes ==
  ASSUME TypeOK, NEW k \in Workers,
         BatchStep(k) \/ ProcessFault(k) \/ Purge(k)
  PROVE  TypeOK'
<1> USE DEF TypeOK
<1>1. OutOfBatch(k) => /\ phase' \in [Workers -> Phase]
                       /\ stage' \in [Workers -> [Items -> Stage]]
                       /\ attempt' \in [Workers -> [Items -> 0 .. AttemptLimit]]
  BY RevisionHeadroom DEF OutOfBatch, Phase, Stage
<1>2. Fault => faults' \in 0 .. MaxFaults
  BY QueueParameters DEF Fault
<1>3. InsertLeases(k) => /\ row' \in [Items -> Row]
                         /\ oldest' \in [Items -> {"none", "fresh", "aged"}]
                         /\ live' \in [Workers -> SUBSET Items]
  <2> SUFFICES ASSUME InsertLeases(k)
               PROVE  /\ row' \in [Items -> Row]
                      /\ oldest' \in [Items -> {"none", "fresh", "aged"}]
                      /\ live' \in [Workers -> SUBSET Items]
    OBVIOUS
  <2> DEFINE new == [i \in Leased(k) |-> LeaseRow(k, attempt[k][i])]
  <2>1. Leased(k) \in SUBSET Items
    BY DEF Leased
  <2>2. \A i \in Leased(k) : new[i] \in Row
    BY <2>1, VersionTypes
  <2>3. Insert(Leased(k), new)
    BY DEF InsertLeases
  <2> HIDE DEF new
  <2>4. /\ row' \in [Items -> Row]
        /\ oldest' \in [Items -> {"none", "fresh", "aged"}]
    BY <2>1, <2>2, <2>3, InsertTypes
  <2>5. live' \in [Workers -> SUBSET Items]
    BY <2>1 DEF InsertLeases
  <2> QED
    BY <2>4, <2>5
<1>4. CASE LeaseSelect(k)
  <2>1. PICK ids \in SUBSET {i \in Items : Leasable(i)} :
          attempt' = [attempt EXCEPT ![k] =
                        [i \in Items |->
                           IF i \in ids THEN row[i].attempts + 1 ELSE 0]]
    BY <1>4, Zenon DEF LeaseSelect
  <2>2. \A i \in ids : row[i].attempts + 1 \in 0 .. AttemptLimit
    BY RevisionHeadroom DEF Leasable, Row
  <2>3. attempt' \in [Workers -> [Items -> 0 .. AttemptLimit]]
    BY <2>1, <2>2, RevisionHeadroom
  <2> QED
    BY <1>4, <2>3 DEF LeaseSelect, Phase, queueVars
<1>5. CASE LeaseInsert(k)
  BY <1>3, <1>5 DEF LeaseInsert, Phase, Stage
<1>6. CASE BatchReturns(k)
  BY <1>1, <1>6 DEF BatchReturns, queueVars
<1>7. CASE Release(k)
  <2> DEFINE new == [i \in Pending(k) |-> ReleaseRow(attempt[k][i])]
  <2>1. Pending(k) \in SUBSET Items
    BY DEF Pending
  <2>2. \A i \in Pending(k) : new[i] \in Row
    BY <2>1, VersionTypes
  <2>3. Insert(Pending(k), new)
    BY <1>7 DEF Release
  <2> HIDE DEF new
  <2>4. /\ row' \in [Items -> Row]
        /\ oldest' \in [Items -> {"none", "fresh", "aged"}]
    BY <2>1, <2>2, <2>3, InsertTypes
  <2> QED
    BY <1>1, <1>7, <2>4 DEF Release
<1>8. CASE LeaseInsertRaises(k)
  BY <1>1, <1>2, <1>3, <1>8 DEF LeaseInsertRaises
<1>9. CASE BatchDeadline(k)
  BY <1>2, <1>9 DEF BatchDeadline, Phase, queueVars
<1>10. CASE ReleaseRaises(k)
  BY <1>1, <1>2, <1>10 DEF ReleaseRaises, queueVars
<1>11. CASE PurgeRaises(k)
  BY <1>2, <1>11 DEF PurgeRaises, queueVars, batchVars
<1>12. CASE Crash(k)
  BY <1>1, <1>2, <1>12 DEF Crash, queueVars
<1>13. CASE PurgeSelect(k)
  BY <1>13 DEF PurgeSelect, queueVars, batchVars
<1>14. CASE PurgeDelete(k)
  BY <1>14, VersionTypes DEF PurgeDelete, batchVars
<1>15. QED
  BY <1>4, <1>5, <1>6, <1>7, <1>8, <1>9, <1>10, <1>11, <1>12, <1>13, <1>14
     DEF BatchStep, ProcessFault, Purge

LEMMA OtherStepTypes ==
  ASSUME TypeOK,
         \/ \E k \in Workers, i \in Items :
              Enqueue(k, i) \/ DedupLapses(k, i) \/ LeaseLapses(k, i)
         \/ \E i \in Items : Flush(i) \/ RetryDue(i) \/ TerminalAges(i)
         \/ LoseBuffer
  PROVE  TypeOK'
<1> USE DEF TypeOK
<1>1. ASSUME NEW k \in Workers, NEW i \in Items, Enqueue(k, i)
      PROVE  TypeOK'
  BY <1>1 DEF Enqueue, batchVars
<1>2. ASSUME NEW k \in Workers, NEW i \in Items, DedupLapses(k, i)
      PROVE  TypeOK'
  BY <1>2 DEF DedupLapses, batchVars, queueVars
<1>3. ASSUME NEW k \in Workers, NEW i \in Items, LeaseLapses(k, i)
      PROVE  TypeOK'
  BY <1>3, QueueParameters, RevisionHeadroom
     DEF LeaseLapses, EndLease, Charge, Fault, queueVars
<1>4. ASSUME NEW i \in Items, Flush(i)
      PROVE  TypeOK'
  <2>1. EnqueueRow \in Row
    BY RevisionHeadroom DEF EnqueueRow, Version, Row, Open
  <2>2. /\ row' \in [Items -> Row]
        /\ oldest' \in [Items -> {"none", "fresh", "aged"}]
    BY <1>4, <2>1, InsertOneTypes DEF Flush
  <2> QED
    BY <1>4, <2>2 DEF Flush, batchVars
<1>5. ASSUME NEW i \in Items, RetryDue(i)
      PROVE  TypeOK'
  BY <1>5 DEF RetryDue, Row, Version, batchVars
<1>6. ASSUME NEW i \in Items, TerminalAges(i)
      PROVE  TypeOK'
  BY <1>6 DEF TerminalAges, batchVars
<1>7. CASE LoseBuffer
  BY <1>7, QueueParameters DEF LoseBuffer, Fault, batchVars
<1>8. QED
  BY <1>1, <1>2, <1>3, <1>4, <1>5, <1>6, <1>7

(* Every reachable state is of the declared type; in particular the         *)
(* attempts column stays within its width and every revision written fits   *)
(* below MAX_REVISION.                                                      *)
THEOREM TypeCorrect == Spec => []TypeOK
<1>1. Init => TypeOK
  BY RevisionHeadroom, QueueParameters
     DEF Init, TypeOK, Row, Absent, Version, Phase, Stage
<1>2. TypeOK /\ [Next]_vars => TypeOK'
  <2> SUFFICES ASSUME TypeOK, [Next]_vars PROVE TypeOK'
    OBVIOUS
  <2>1. CASE UNCHANGED vars
    BY <2>1 DEF TypeOK, vars, queueVars, batchVars
  <2>2. CASE Next
    BY <2>2, ItemStepTypes, ProcessStepTypes, OtherStepTypes, Zenon DEF Next
  <2> QED
    BY <2>1, <2>2
<1> QED
  BY <1>1, <1>2, PTL DEF Spec

-----------------------------------------------------------------------------
(***************************************************************************)
(* The ledger.  A terminal version outranks every version a later attempt  *)
(* can write because its revision says which status it has; that is the    *)
(* part of the inductive invariant about revisions.  The part about chosen *)
(* says that what the purge has selected stays terminal and aged until it  *)
(* is deleted, which needs that nobody else deletes.                       *)
(***************************************************************************)

RevisionTellsStatus(r) ==
  /\ r.status = "absent" => r.revision = -1
  /\ r.status \in Open => r.revision \in 0 .. (10 * AttemptLimit + 2)
  /\ r.status = "unavailable_from_public_api" => r.revision = MaxRevision - 2
  /\ r.status = "dead" => r.revision = MaxRevision - 1
  /\ r.status = "done" => r.revision = MaxRevision

RowsTellStatus == \A i \in Items : RevisionTellsStatus(row[i])

OldestTellsTerminal ==
  \A i \in Items :
    oldest[i] = "none" <=> row[i].status \notin TERMINAL_WORK_STATUSES

ChosenAreAged ==
  \A k \in Workers : \A i \in chosen[k] : k \in Purgers /\ oldest[i] = "aged"

QueueInv == TypeOK /\ RowsTellStatus /\ OldestTellsTerminal /\ ChosenAreAged

(* A version some operation may write. *)
Writable == {r \in Row : r.status # "absent" /\ RevisionTellsStatus(r)}

LEMMA WritableVersions ==
  ASSUME NEW k \in Workers, NEW a \in 0 .. AttemptLimit
  PROVE  /\ EnqueueRow \in Writable
         /\ LeaseRow(k, a) \in Writable
         /\ ReleaseRow(a) \in Writable /\ RetryRow(a) \in Writable
         /\ DoneRow(a) \in Writable /\ DeadRow(a) \in Writable
         /\ UnavailableRow(a) \in Writable
<1> USE RevisionHeadroom DEF Version, Open
<1>0. /\ EnqueueRow \in Row
      /\ LeaseRow(k, a) \in Row
      /\ ReleaseRow(a) \in Row /\ RetryRow(a) \in Row
      /\ DoneRow(a) \in Row /\ DeadRow(a) \in Row /\ UnavailableRow(a) \in Row
  BY VersionTypes, Zenon
<1>1. EnqueueRow \in Row /\ EnqueueRow.status # "absent" /\ RevisionTellsStatus(EnqueueRow)
  BY <1>0 DEF EnqueueRow, RevisionTellsStatus
<1>2. /\ LeaseRow(k, a) \in Row /\ LeaseRow(k, a).status # "absent"
      /\ RevisionTellsStatus(LeaseRow(k, a))
  BY <1>0 DEF LeaseRow, RevisionTellsStatus
<1>3. /\ ReleaseRow(a) \in Row /\ ReleaseRow(a).status # "absent"
      /\ RevisionTellsStatus(ReleaseRow(a))
  BY <1>0 DEF ReleaseRow, RevisionTellsStatus
<1>4. /\ RetryRow(a) \in Row /\ RetryRow(a).status # "absent"
      /\ RevisionTellsStatus(RetryRow(a))
  BY <1>0 DEF RetryRow, RevisionTellsStatus
<1>5. /\ DoneRow(a) \in Row /\ DoneRow(a).status # "absent"
      /\ RevisionTellsStatus(DoneRow(a))
  BY <1>0 DEF DoneRow, RevisionTellsStatus
<1>6. /\ DeadRow(a) \in Row /\ DeadRow(a).status # "absent"
      /\ RevisionTellsStatus(DeadRow(a))
  BY <1>0 DEF DeadRow, RevisionTellsStatus
<1>7. /\ UnavailableRow(a) \in Row /\ UnavailableRow(a).status # "absent"
      /\ RevisionTellsStatus(UnavailableRow(a))
  BY <1>0 DEF UnavailableRow, RevisionTellsStatus
<1> QED
  BY <1>1, <1>2, <1>3, <1>4, <1>5, <1>6, <1>7 DEF Writable

LedgerMoves(from, to) ==
  to = from \/ Ledger!Advances(from, to) \/ Ledger!Forgotten(from, to)

(* The merge never lowers an item's place in the ledger. *)
LEMMA PutRises ==
  ASSUME NEW current \in Row, RevisionTellsStatus(current), NEW new \in Writable
  PROVE  /\ Put(current, new) \in Row
         /\ RevisionTellsStatus(Put(current, new))
         /\ Put(current, new).status \in TERMINAL_WORK_STATUSES <=>
              \/ current.status \in TERMINAL_WORK_STATUSES
              \/ new.status \in TERMINAL_WORK_STATUSES
         /\ LedgerMoves(LedgerState(current), LedgerState(Put(current, new)))
<1> USE RevisionHeadroom
<1>1. new \in Row /\ new.status # "absent" /\ RevisionTellsStatus(new)
  BY DEF Writable
<1>2. current.revision \in Int /\ new.revision \in Int
  BY <1>1 DEF Row
<1>3. /\ current.status \in {"absent"} \cup Open \cup TERMINAL_WORK_STATUSES
      /\ new.status \in Open \cup TERMINAL_WORK_STATUSES
  BY <1>1 DEF Row
<1>4. CASE new.revision >= current.revision
  <2>1. Put(current, new) = new
    BY <1>4 DEF Put
  <2>2. current.status \in TERMINAL_WORK_STATUSES =>
          new.status \in TERMINAL_WORK_STATUSES
    BY <1>1, <1>2, <1>3, <1>4
       DEF RevisionTellsStatus, TERMINAL_WORK_STATUSES, Open
  <2>3. LedgerMoves(LedgerState(current), LedgerState(new))
    BY <1>1, <1>2, <1>3, <1>4
       DEF RevisionTellsStatus, TERMINAL_WORK_STATUSES, Open, LedgerMoves,
           LedgerState, Ledger!Advances, Ledger!Rank
  <2> QED
    BY <1>1, <2>1, <2>2, <2>3
<1>5. CASE ~(new.revision >= current.revision)
  <2>1. Put(current, new) = current
    BY <1>5 DEF Put
  <2>2. new.status \in TERMINAL_WORK_STATUSES =>
          current.status \in TERMINAL_WORK_STATUSES
    BY <1>1, <1>2, <1>3, <1>5
       DEF RevisionTellsStatus, TERMINAL_WORK_STATUSES, Open
  <2> QED
    BY <2>1, <2>2 DEF LedgerMoves
<1>6. QED
  BY <1>4, <1>5

(* A step that inserts versions into work_items. *)
Writes ==
  \E ids \in SUBSET Items :
    \E new \in [ids -> Writable] : Insert(ids, new)

LEMMA WritesOne ==
  ASSUME NEW i \in Items, NEW version \in Writable, InsertOne(i, version)
  PROVE  Writes
<1>1. [j \in {i} |-> version] \in [{i} -> Writable]
  OBVIOUS
<1>2. QED
  BY <1>1 DEF InsertOne, Writes

(* What an insert does to the parts of QueueInv and to the ledger. *)
LEMMA WritesKeep ==
  ASSUME QueueInv, Writes
  PROVE  /\ RowsTellStatus' /\ OldestTellsTerminal'
         /\ \A i \in Items : /\ oldest[i] = "aged" => oldest'[i] = "aged"
                             /\ LedgerMoves(LedgerState(row[i]), LedgerState(row'[i]))
<1>0. PICK ids \in SUBSET Items : \E new \in [ids -> Writable] : Insert(ids, new)
  BY DEF Writes
<1>1. PICK new \in [ids -> Writable] : Insert(ids, new)
  BY <1>0
<1> SUFFICES ASSUME NEW i \in Items
             PROVE  /\ RevisionTellsStatus(row'[i])
                    /\ (oldest'[i] = "none") <=>
                         (row'[i].status \notin TERMINAL_WORK_STATUSES)
                    /\ oldest[i] = "aged" => oldest'[i] = "aged"
                    /\ LedgerMoves(LedgerState(row[i]), LedgerState(row'[i]))
  BY DEF RowsTellStatus, OldestTellsTerminal
<1>2. /\ row[i] \in Row /\ RevisionTellsStatus(row[i])
      /\ oldest[i] = "none" <=> row[i].status \notin TERMINAL_WORK_STATUSES
  BY DEF QueueInv, TypeOK, RowsTellStatus, OldestTellsTerminal
<1>3. CASE i \in ids
  <2>1. new[i] \in Writable
    BY <1>1, <1>3
  <2>2. /\ row'[i] = Put(row[i], new[i])
        /\ oldest'[i] = IF /\ new[i].status \in TERMINAL_WORK_STATUSES
                           /\ oldest[i] = "none"
                          THEN "fresh" ELSE oldest[i]
    BY <1>1, <1>3 DEF Insert
  <2> QED
    BY <1>2, <2>1, <2>2, PutRises
<1>4. CASE i \notin ids
  <2>1. row'[i] = row[i] /\ oldest'[i] = oldest[i]
    BY <1>1, <1>4 DEF Insert
  <2> QED
    BY <1>2, <2>1 DEF LedgerMoves
<1>5. QED
  BY <1>3, <1>4

ChosenShrinks == \A k \in Workers : chosen'[k] \subseteq chosen[k]

(* What the steps do to work_items, one lemma per group of actions. *)
LEMMA ItemStepWrites ==
  ASSUME TypeOK, NEW k \in Workers, NEW i \in Items,
         ItemStep(k, i) \/ ItemFault(k, i)
  PROVE  /\ Writes \/ UNCHANGED <<row, oldest>>
         /\ UNCHANGED chosen
<1> DEFINE a == attempt[k][i]
<1>1. /\ DoneRow(a) \in Writable /\ DeadRow(a) \in Writable
      /\ RetryRow(a) \in Writable /\ UnavailableRow(a) \in Writable
  <2>1. a \in 0 .. AttemptLimit
    BY DEF TypeOK
  <2> QED
    BY <2>1, WritableVersions, Zenon
<1>2. \A v \in Writable : InsertOne(i, v) => Writes
  BY WritesOne, Zenon
<1>3. CASE ItemStep(k, i)
  BY <1>1, <1>2, <1>3
     DEF ItemStep, Succeed, Unavailable, HandlerRaises, Retry, Bury, DeadLetter,
         queueVars
<1>4. CASE ItemFault(k, i)
  BY <1>1, <1>2, <1>4
     DEF ItemFault, EnqueueRaises, SuccessUnacknowledged, FinishRaises, queueVars
<1>5. QED
  BY <1>3, <1>4

LEMMA BatchStepWrites ==
  ASSUME TypeOK, NEW k \in Workers, BatchStep(k) \/ ProcessFault(k)
  PROVE  /\ Writes \/ UNCHANGED <<row, oldest>>
         /\ ChosenShrinks
<1>1. ASSUME NEW new, NEW ids \in SUBSET Items, new \in [ids -> Writable],
             Insert(ids, new)
      PROVE  Writes
  BY <1>1 DEF Writes
<1>2. InsertLeases(k) => Writes
  <2>1. Leased(k) \in SUBSET Items
    BY DEF Leased
  <2>2. [i \in Leased(k) |-> LeaseRow(k, attempt[k][i])] \in [Leased(k) -> Writable]
    <3>1. \A i \in Leased(k) : LeaseRow(k, attempt[k][i]) \in Writable
      BY <2>1, WritableVersions DEF TypeOK
    <3> QED
      BY <3>1
  <2> QED
    BY <1>1, <2>1, <2>2, Zenon DEF InsertLeases
<1>3. CASE LeaseInsert(k) \/ LeaseInsertRaises(k)
  BY <1>2, <1>3 DEF LeaseInsert, LeaseInsertRaises, ChosenShrinks
<1>4. CASE Release(k)
  <2>1. Pending(k) \in SUBSET Items
    BY DEF Pending
  <2>2. [i \in Pending(k) |-> ReleaseRow(attempt[k][i])] \in [Pending(k) -> Writable]
    <3>1. \A i \in Pending(k) : ReleaseRow(attempt[k][i]) \in Writable
      BY <2>1, WritableVersions DEF TypeOK
    <3> QED
      BY <3>1
  <2>3. Writes
    BY <1>1, <1>4, <2>1, <2>2, Zenon DEF Release
  <2> QED
    BY <1>4, <2>3 DEF Release, ChosenShrinks
<1>5. CASE LeaseSelect(k) \/ BatchReturns(k) \/ BatchDeadline(k) \/ ReleaseRaises(k)
  BY <1>5
     DEF LeaseSelect, BatchReturns, BatchDeadline, ReleaseRaises, queueVars,
         ChosenShrinks
<1>6. CASE PurgeRaises(k) \/ Crash(k)
  BY <1>6 DEF PurgeRaises, Crash, queueVars, ChosenShrinks, TypeOK
<1>7. QED
  BY <1>3, <1>4, <1>5, <1>6 DEF BatchStep, ProcessFault

(* The steps that neither insert nor leave the table alone. *)
LEMMA StepKinds ==
  ASSUME TypeOK, Next
  PROVE  \/ /\ Writes \/ UNCHANGED <<row, oldest>>
            /\ ChosenShrinks
         \/ \E k \in Workers : Purge(k)
         \/ \E i \in Items : RetryDue(i) \/ TerminalAges(i)
<1>1. ASSUME NEW k \in Workers, NEW i \in Items,
             ItemStep(k, i) \/ ItemFault(k, i)
      PROVE  (Writes \/ UNCHANGED <<row, oldest>>) /\ ChosenShrinks
  BY <1>1, ItemStepWrites DEF ChosenShrinks
<1>2. ASSUME NEW k \in Workers, BatchStep(k) \/ ProcessFault(k)
      PROVE  (Writes \/ UNCHANGED <<row, oldest>>) /\ ChosenShrinks
  BY <1>2, BatchStepWrites
<1>3. ASSUME NEW k \in Workers, NEW i \in Items,
             Enqueue(k, i) \/ DedupLapses(k, i) \/ LeaseLapses(k, i)
      PROVE  UNCHANGED <<row, oldest>> /\ ChosenShrinks
  BY <1>3 DEF Enqueue, DedupLapses, LeaseLapses, queueVars, ChosenShrinks
<1>4. ASSUME NEW i \in Items, Flush(i)
      PROVE  Writes /\ ChosenShrinks
  <2>1. EnqueueRow \in Writable
    BY RevisionHeadroom
       DEF EnqueueRow, Version, Writable, RevisionTellsStatus, Row, Open,
           TERMINAL_WORK_STATUSES
  <2> QED
    BY <1>4, <2>1, WritesOne DEF Flush, ChosenShrinks
<1>5. CASE LoseBuffer
  BY <1>5 DEF LoseBuffer, ChosenShrinks
<1>6. QED
  BY <1>1, <1>2, <1>3, <1>4, <1>5 DEF Next

LEMMA QueueInvStep ==
  ASSUME QueueInv, [Next]_vars, TypeOK'
  PROVE  /\ QueueInv'
         /\ \A i \in Items : LedgerMoves(LedgerState(row[i]), LedgerState(row'[i]))
<1> USE DEF QueueInv
<1>1. ASSUME Writes \/ UNCHANGED <<row, oldest>>, ChosenShrinks
      PROVE  /\ QueueInv'
             /\ \A i \in Items : LedgerMoves(LedgerState(row[i]), LedgerState(row'[i]))
  <2>1. CASE Writes
    <3>1. ChosenAreAged'
      BY <1>1, <2>1, WritesKeep DEF ChosenAreAged, ChosenShrinks, TypeOK
    <3> QED
      BY <2>1, <3>1, WritesKeep
  <2>2. CASE UNCHANGED <<row, oldest>>
    BY <1>1, <2>2
       DEF ChosenAreAged, ChosenShrinks, RowsTellStatus, OldestTellsTerminal,
           LedgerMoves
  <2> QED
    BY <1>1, <2>1, <2>2
<1>2. ASSUME NEW k \in Workers, PurgeSelect(k)
      PROVE  /\ QueueInv'
             /\ \A i \in Items : LedgerMoves(LedgerState(row[i]), LedgerState(row'[i]))
  <2>1. ChosenAreAged'
    BY <1>2 DEF PurgeSelect, Purgeable, ChosenAreAged, TypeOK, queueVars
  <2> QED
    BY <1>2, <2>1
       DEF PurgeSelect, queueVars, RowsTellStatus, OldestTellsTerminal, LedgerMoves
<1>3. ASSUME NEW k \in Workers, PurgeDelete(k)
      PROVE  /\ QueueInv'
             /\ \A i \in Items : LedgerMoves(LedgerState(row[i]), LedgerState(row'[i]))
  <2>1. PICK ids \in SUBSET chosen[k] :
          /\ row' = [i \in Items |-> IF i \in ids THEN Absent ELSE row[i]]
          /\ oldest' = [i \in Items |-> IF i \in ids THEN "none" ELSE oldest[i]]
          /\ chosen' = [chosen EXCEPT ![k] = @ \ ids]
    BY <1>3, Zenon DEF PurgeDelete
  <2>2. \A i \in ids : row[i].status \in TERMINAL_WORK_STATUSES
    BY DEF ChosenAreAged, OldestTellsTerminal, TypeOK
  <2>3. RowsTellStatus' /\ OldestTellsTerminal'
    BY <2>1
       DEF RowsTellStatus, OldestTellsTerminal, RevisionTellsStatus, Absent,
           Version, Open, TERMINAL_WORK_STATUSES
  <2>4. ChosenAreAged'
    <3> SUFFICES ASSUME NEW l \in Workers, NEW i \in chosen'[l]
                 PROVE  l \in Purgers /\ oldest'[i] = "aged"
      BY DEF ChosenAreAged
    <3>1. i \in chosen[l] /\ i \in Items /\ (l = k => i \notin ids)
      BY <2>1 DEF TypeOK
    <3>2. l \in Purgers /\ oldest[i] = "aged"
      BY <3>1 DEF ChosenAreAged
    <3>3. i \notin ids
      BY <3>1, <3>2, OnePurger DEF ChosenAreAged
    <3> QED
      BY <2>1, <3>1, <3>2, <3>3
  <2>5. \A i \in Items : LedgerMoves(LedgerState(row[i]), LedgerState(row'[i]))
    BY <2>1, <2>2
       DEF LedgerMoves, LedgerState, Ledger!Forgotten, Ledger!Closed, Absent,
           Version, Open, TERMINAL_WORK_STATUSES
  <2> QED
    BY <2>3, <2>4, <2>5
<1>4. ASSUME NEW i \in Items, RetryDue(i)
      PROVE  /\ QueueInv'
             /\ \A j \in Items : LedgerMoves(LedgerState(row[j]), LedgerState(row'[j]))
  <2>1. /\ \A j \in Items : /\ row'[j].status = row[j].status
                            /\ row'[j].revision = row[j].revision
        /\ UNCHANGED <<oldest, chosen>>
    BY <1>4 DEF RetryDue, Version, TypeOK
  <2> QED
    BY <2>1
       DEF RowsTellStatus, RevisionTellsStatus, OldestTellsTerminal, ChosenAreAged,
           LedgerMoves, LedgerState
<1>5. ASSUME NEW i \in Items, TerminalAges(i)
      PROVE  /\ QueueInv'
             /\ \A j \in Items : LedgerMoves(LedgerState(row[j]), LedgerState(row'[j]))
  BY <1>5
     DEF TerminalAges, RowsTellStatus, OldestTellsTerminal, ChosenAreAged,
         LedgerMoves, TypeOK
<1>6. CASE UNCHANGED vars
  BY <1>1, <1>6 DEF vars, queueVars, ChosenShrinks
<1>7. CASE Next
  BY <1>1, <1>2, <1>3, <1>4, <1>5, <1>7, StepKinds DEF Purge
<1>8. QED
  BY <1>6, <1>7

LEMMA QueueInvInit == Init => QueueInv
BY RevisionHeadroom, QueueParameters
   DEF Init, QueueInv, TypeOK, RowsTellStatus, RevisionTellsStatus,
       OldestTellsTerminal, ChosenAreAged, Row, Absent, Version, Phase, Stage,
       Open, TERMINAL_WORK_STATUSES

LEMMA QueueInvHolds == Spec => []QueueInv
<1>1. QueueInv /\ [Next]_vars /\ TypeOK' => QueueInv'
  BY QueueInvStep
<1>2. QED
  BY <1>1, QueueInvInit, TypeCorrect, PTL DEF Spec

(* A terminal-status version anywhere in the table means that FINAL reads   *)
(* the item as terminal, for every number of workers and attempts: what the *)
(* purge's SELECT without FINAL rests on.                                   *)
THEOREM TerminalVersionsWin == Spec => []TerminalVersionWins
<1>1. QueueInv => TerminalVersionWins
  BY DEF QueueInv, OldestTellsTerminal, TerminalVersionWins
<1>2. QED
  BY <1>1, QueueInvHolds, PTL

(* No item selected by the purge becomes open work before it is deleted,    *)
(* whatever the workers and the scanners do meanwhile.                      *)
THEOREM PurgeIsSafe == Spec => []PurgeTakesNoOpenWork
<1>1. QueueInv => PurgeTakesNoOpenWork
  BY DEF QueueInv, TypeOK, ChosenAreAged, OldestTellsTerminal, PurgeTakesNoOpenWork
<1>2. QED
  BY <1>1, QueueInvHolds, PTL

(* The queue implements the ledger: no sequence of leases, lapses, retries, *)
(* releases, replayed enqueues and crashes of any number of workers lowers  *)
(* an item's outcome, and only the purge forgets it.                        *)
THEOREM QueueImplementsLedger == Spec => ImplementsLedger
<1> DEFINE mapped == [i \in Items |-> LedgerState(row[i])]
<1>1. Init => Ledger!Init
  BY DEF Init, Ledger!Init, LedgerState, Absent, Version, Open
<1>2. QueueInv /\ QueueInv' /\ [Next]_vars => [Ledger!Next]_mapped
  <2> SUFFICES ASSUME QueueInv, QueueInv', [Next]_vars
               PROVE  Ledger!Next
    OBVIOUS
  <2>1. \A i \in Items : LedgerMoves(LedgerState(row[i]), LedgerState(row'[i]))
    BY QueueInvStep DEF QueueInv
  <2>2. mapped' \in [Items -> Ledger!ItemState]
    BY DEF QueueInv, TypeOK, Row, LedgerState, Ledger!ItemState, Ledger!Closed,
           Open, TERMINAL_WORK_STATUSES
  <2> QED
    BY <2>1, <2>2 DEF Ledger!Next, LedgerMoves
<1>3. QED
  BY <1>1, <1>2, QueueInvHolds, PTL DEF Spec, ImplementsLedger, Ledger!Spec

=============================================================================
