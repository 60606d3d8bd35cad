------------------------------ MODULE WorkQueue ------------------------------
(***************************************************************************)
(* The enrichment work queue: the table work_items behind ClickHouseStore  *)
(* (enqueue_work_many, lease_work, release_work, finish_work,              *)
(* purge_finished_work), the batch loop that drains it                     *)
(* (EnrichmentService.run_once) and the retention loop.                    *)
(*                                                                         *)
(* A worker is an indexer process.  Every await of the code that touches   *)
(* the queue is a step boundary: lease_work's SELECT and its INSERT, each  *)
(* finish_work insert, release_work, purge's SELECT and each of its        *)
(* DELETEs.  Time is not counted: a deadline that has been set may pass at *)
(* any later step (LeaseLapses, RetryDue, TerminalAges, DedupLapses), in   *)
(* any order, which admits every relative speed of the processes.          *)
(*                                                                         *)
(* MaxFaults bounds crashes, raised inserts, lost buffers, deadlines and   *)
(* leases that lapse under a working holder.                               *)
(***************************************************************************)
EXTENDS WorkItems, FiniteSets

CONSTANTS
  Items,         \* work_ids of one (environment, chain_id), live kinds
  Purgers,       \* the processes whose _purge_loop runs (purge_enabled)
  MaxAttempts,   \* RuntimeConfig.max_attempts
  LeaseLimit,    \* RuntimeConfig.enrich_batch
  PurgeChunk,    \* PURGE_DELETE_CHUNK
  MaxFaults      \* bound on the faults of a behaviour

ASSUME QueueParameters ==
  /\ MaxAttempts \in 1 .. AttemptLimit
  /\ LeaseLimit \in Nat \ {0}
  /\ PurgeChunk \in Nat \ {0}
  /\ MaxFaults \in Nat

(* "Purging is serialized process-wide" and is switched off while the      *)
(* purge-work command runs: one purger at a time.                          *)
ASSUME OnePurger ==
  /\ Purgers \subseteq Workers
  /\ \A p, q \in Purgers : p = q

VARIABLES
  row,       \* FINAL row of each work_id
  oldest,    \* age of the oldest terminal-status version, what the purge reads
  letters,   \* work_ids with a row in dead_letters
  buffer,    \* revision-0 rows acknowledged at the async insert buffer
  recent,    \* _RecentEnqueues of each process: ids it suppresses
  phase,     \* where each process is in run_once
  stage,     \* where each item of its batch is; "out" when not pending
  attempt,   \* WorkItem.attempts of each item of its batch
  live,      \* leases whose lease_until lies ahead and that nobody ended
  chosen,    \* work_ids a purge has selected and not yet deleted
  charges,   \* history: attempts of the item that failed or were abandoned
  faults     \* history: faults so far

queueVars == <<row, oldest, letters, buffer>>
batchVars == <<phase, stage, attempt, live>>
vars == <<queueVars, recent, batchVars, chosen, charges, faults>>

Phase == {"idle", "selected", "working", "releasing"}

(* processing: the handler runs.  failed: it raised, the verdict is not    *)
(* written.  dead: the dead row is written, its dead letter is not.        *)
(* stuck: finish_work raised, the task ended and the item is still in      *)
(* run_once's pending set.                                                 *)
Stage == {"out", "processing", "failed", "dead", "stuck"}

TypeOK ==
  /\ row \in [Items -> Row]
  /\ oldest \in [Items -> {"none", "fresh", "aged"}]
  /\ letters \in SUBSET Items
  /\ buffer \in SUBSET Items
  /\ recent \in [Workers -> SUBSET Items]
  /\ phase \in [Workers -> Phase]
  /\ stage \in [Workers -> [Items -> Stage]]
  /\ attempt \in [Workers -> [Items -> 0 .. AttemptLimit]]
  /\ live \in [Workers -> SUBSET Items]
  /\ chosen \in [Workers -> SUBSET Items]
  /\ charges \in [Items -> 0 .. AttemptLimit]
  /\ faults \in 0 .. MaxFaults

Init ==
  /\ row = [i \in Items |-> Absent]
  /\ oldest = [i \in Items |-> "none"]
  /\ letters = {}
  /\ buffer = {}
  /\ recent = [k \in Workers |-> {}]
  /\ phase = [k \in Workers |-> "idle"]
  /\ stage = [k \in Workers |-> [i \in Items |-> "out"]]
  /\ attempt = [k \in Workers |-> [i \in Items |-> 0]]
  /\ live = [k \in Workers |-> {}]
  /\ chosen = [k \in Workers |-> {}]
  /\ charges = [i \in Items |-> 0]
  /\ faults = 0

Fault ==
  /\ faults < MaxFaults
  /\ faults' = faults + 1

(* One INSERT INTO work_items of the version new[i] for each i of ids. *)
Insert(ids, new) ==
  /\ row' = [i \in Items |-> IF i \in ids THEN Put(row[i], new[i]) ELSE row[i]]
  /\ oldest' =
       [i \in Items |->
          IF /\ i \in ids
             /\ new[i].status \in TERMINAL_WORK_STATUSES
             /\ oldest[i] = "none"
            THEN "fresh" ELSE oldest[i]]

InsertOne(i, version) == Insert({i}, [j \in {i} |-> version])

SetStage(k, i, s) == stage' = [stage EXCEPT ![k][i] = s]

(* The lease of i ends with the write that ends the attempt. *)
EndLease(k, i) == live' = [live EXCEPT ![k] = @ \ {i}]

Pending(k) == {i \in Items : stage[k][i] # "out"}

Active(k) == {i \in Items : stage[k][i] \notin {"out", "stuck"}}

OutOfBatch(k) ==
  /\ phase' = [phase EXCEPT ![k] = "idle"]
  /\ stage' = [stage EXCEPT ![k] = [i \in Items |-> "out"]]
  /\ attempt' = [attempt EXCEPT ![k] = [i \in Items |-> 0]]

Charge(i) ==
  charges' = [charges EXCEPT ![i] = IF @ < AttemptLimit THEN @ + 1 ELSE @]

-----------------------------------------------------------------------------
(* enqueue_work_many: take_new marks the id, then the revision-0 row goes   *)
(* to the async insert buffer (durable=False).                              *)

Enqueue(k, i) ==
  /\ i \notin recent[k]
  /\ recent' = [recent EXCEPT ![k] = @ \cup {i}]
  /\ buffer' = buffer \cup {i}
  /\ UNCHANGED <<row, oldest, letters, batchVars, chosen, charges, faults>>

(* The insert raises after take_new has marked the id. *)
EnqueueRaises(k, i) ==
  /\ Fault
  /\ i \notin recent[k]
  /\ recent' = [recent EXCEPT ![k] = @ \cup {i}]
  /\ UNCHANGED <<queueVars, batchVars, chosen, charges>>

(* A mutated expiry: an id that is due to lapse is stamped anew. *)
DedupRenews(k, i) ==
  /\ i \in recent[k]
  /\ recent' = [recent EXCEPT ![k] = @ \cup {i}]
  /\ UNCHANGED <<queueVars, batchVars, chosen, charges, faults>>

(* The TTL passes, or the size cap evicts the id. *)
DedupLapses(k, i) ==
  /\ i \in recent[k]
  /\ recent' = [recent EXCEPT ![k] = @ \ {i}]
  /\ UNCHANGED <<queueVars, batchVars, chosen, charges, faults>>

Flush(i) ==
  /\ i \in buffer
  /\ buffer' = buffer \ {i}
  /\ InsertOne(i, EnqueueRow)
  /\ UNCHANGED <<letters, recent, batchVars, chosen, charges, faults>>

LoseBuffer ==
  /\ Fault
  /\ buffer # {}
  /\ buffer' = {}
  /\ UNCHANGED <<row, oldest, letters, recent, batchVars, chosen, charges>>

-----------------------------------------------------------------------------
(* lease_work: a FINAL read, then an insert of running versions. *)

(* A mutated predicate: lease-expired items are not picked up again. *)
LeasablePendingOnly(i) ==
  /\ row[i].attempts < AttemptLimit
  /\ row[i].status = "pending" /\ row[i].due

Leasable(i) ==
  /\ row[i].attempts < AttemptLimit
  /\ \/ row[i].status = "pending" /\ row[i].due
     \/ row[i].status = "running" /\ i \notin live[row[i].owner]

(* Which of the leasable items fill the LIMIT is ORDER BY's business; any   *)
(* choice is allowed here.                                                  *)
LeaseSelect(k) ==
  /\ phase[k] = "idle"
  /\ LET leasable == {i \in Items : Leasable(i)}
     IN \E ids \in SUBSET leasable :
          /\ ids # {}
          /\ ids = leasable \/ Cardinality(ids) = LeaseLimit
          /\ Cardinality(ids) <= LeaseLimit
          /\ attempt' = [attempt EXCEPT ![k] =
                           [i \in Items |->
                              IF i \in ids THEN row[i].attempts + 1 ELSE 0]]
  /\ phase' = [phase EXCEPT ![k] = "selected"]
  /\ UNCHANGED <<queueVars, recent, stage, live, chosen, charges, faults>>

Leased(k) == {i \in Items : attempt[k][i] > 0}

InsertLeases(k) ==
  /\ Insert(Leased(k), [i \in Leased(k) |-> LeaseRow(k, attempt[k][i])])
  /\ live' = [live EXCEPT ![k] = @ \cup Leased(k)]

LeaseInsert(k) ==
  /\ phase[k] = "selected"
  /\ InsertLeases(k)
  /\ phase' = [phase EXCEPT ![k] = "working"]
  /\ stage' = [stage EXCEPT ![k] =
                 [i \in Items |->
                    IF i \in Leased(k) THEN "processing" ELSE "out"]]
  /\ UNCHANGED <<letters, buffer, recent, attempt, chosen, charges, faults>>

(* The insert raises, having been applied or not; run_once ends. *)
LeaseInsertRaises(k) ==
  /\ Fault
  /\ phase[k] = "selected"
  /\ \/ InsertLeases(k)
     \/ UNCHANGED <<row, oldest, live>>
  /\ OutOfBatch(k)
  /\ UNCHANGED <<letters, buffer, recent, chosen, charges>>

-----------------------------------------------------------------------------
(* _process_and_finish, one item of a batch. *)

(* process() returns and finish_work(item, True) is acknowledged. *)
Succeed(k, i) ==
  /\ phase[k] = "working" /\ stage[k][i] = "processing"
  /\ InsertOne(i, DoneRow(attempt[k][i]))
  /\ SetStage(k, i, "out")
  /\ EndLease(k, i)
  /\ UNCHANGED <<letters, buffer, recent, phase, attempt, chosen, charges, faults>>

(* CompetitionUnavailable. *)
Unavailable(k, i) ==
  /\ phase[k] = "working" /\ stage[k][i] = "processing"
  /\ InsertOne(i, UnavailableRow(attempt[k][i]))
  /\ SetStage(k, i, "out")
  /\ EndLease(k, i)
  /\ UNCHANGED <<letters, buffer, recent, phase, attempt, chosen, charges, faults>>

(* process() raises, or finish_work(item, True) does with nothing written. *)
HandlerRaises(k, i) ==
  /\ phase[k] = "working" /\ stage[k][i] = "processing"
  /\ SetStage(k, i, "failed")
  /\ UNCHANGED <<queueVars, recent, phase, attempt, live, chosen, charges, faults>>

(* finish_work(item, True) raises although its row was written. *)
SuccessUnacknowledged(k, i) ==
  /\ Fault
  /\ phase[k] = "working" /\ stage[k][i] = "processing"
  /\ InsertOne(i, DoneRow(attempt[k][i]))
  /\ SetStage(k, i, "failed")
  /\ UNCHANGED <<letters, buffer, recent, phase, attempt, live, chosen, charges>>

(* A mutated verdict: the budget is never exhausted. *)
ExhaustedNever(k, i) == FALSE

Exhausted(k, i) == attempt[k][i] >= MaxAttempts

Retry(k, i) ==
  /\ phase[k] = "working" /\ stage[k][i] = "failed"
  /\ ~Exhausted(k, i)
  /\ InsertOne(i, RetryRow(attempt[k][i]))
  /\ SetStage(k, i, "out")
  /\ EndLease(k, i)
  /\ Charge(i)
  /\ UNCHANGED <<letters, buffer, recent, phase, attempt, chosen, faults>>

(* The first of finish_work's two inserts for an exhausted item ... *)
Bury(k, i) ==
  /\ phase[k] = "working" /\ stage[k][i] = "failed"
  /\ Exhausted(k, i)
  /\ InsertOne(i, DeadRow(attempt[k][i]))
  /\ SetStage(k, i, "dead")
  /\ UNCHANGED <<letters, buffer, recent, phase, attempt, live, chosen, charges, faults>>

(* ... and the second. *)
DeadLetter(k, i) ==
  /\ phase[k] = "working" /\ stage[k][i] = "dead"
  /\ letters' = letters \cup {i}
  /\ SetStage(k, i, "out")
  /\ EndLease(k, i)
  /\ UNCHANGED <<row, oldest, buffer, recent, phase, attempt, chosen, charges, faults>>

(* finish_work raises from an except branch, its row written or not.  The   *)
(* task ends; gather(return_exceptions=True) swallows the error.            *)
FinishRaises(k, i) ==
  /\ Fault
  /\ phase[k] = "working"
  /\ \/ /\ stage[k][i] = "processing"
        /\ InsertOne(i, UnavailableRow(attempt[k][i]))
        /\ UNCHANGED <<live, charges>>
     \/ /\ stage[k][i] = "failed" /\ ~Exhausted(k, i)
        /\ InsertOne(i, RetryRow(attempt[k][i]))
        /\ EndLease(k, i)
        /\ Charge(i)
     \/ /\ stage[k][i] = "failed" /\ Exhausted(k, i)
        /\ InsertOne(i, DeadRow(attempt[k][i]))
        /\ UNCHANGED <<live, charges>>
     \/ /\ stage[k][i] \in {"processing", "failed", "dead"}
        /\ UNCHANGED <<row, oldest, live, charges>>
  /\ SetStage(k, i, "stuck")
  /\ UNCHANGED <<letters, buffer, recent, phase, attempt, chosen>>

-----------------------------------------------------------------------------
(* The end of run_once, and of the process. *)

(* gather returns in time.  Stuck items are not released: their leases have *)
(* to lapse.                                                                *)
BatchReturns(k) ==
  /\ phase[k] = "working" /\ Active(k) = {}
  /\ OutOfBatch(k)
  /\ UNCHANGED <<queueVars, recent, live, chosen, charges, faults>>

(* wait_for times out: every task is cancelled. *)
BatchDeadline(k) ==
  /\ Fault
  /\ phase[k] = "working" /\ Active(k) # {}
  /\ phase' = [phase EXCEPT ![k] = "releasing"]
  /\ UNCHANGED <<queueVars, recent, stage, attempt, live, chosen, charges>>

(* release_work(stranded): everything still in the pending set. *)
Release(k) ==
  /\ phase[k] = "releasing"
  /\ Insert(Pending(k), [i \in Pending(k) |-> ReleaseRow(attempt[k][i])])
  /\ live' = [live EXCEPT ![k] = @ \ Pending(k)]
  /\ OutOfBatch(k)
  /\ UNCHANGED <<letters, buffer, recent, chosen, charges, faults>>

ReleaseRaises(k) ==
  /\ Fault
  /\ phase[k] = "releasing"
  /\ OutOfBatch(k)
  /\ UNCHANGED <<queueVars, recent, live, chosen, charges>>

(* The process dies and restarts with nothing in memory. *)
Crash(k) ==
  /\ Fault
  /\ OutOfBatch(k)
  /\ recent' = [recent EXCEPT ![k] = {}]
  /\ chosen' = [chosen EXCEPT ![k] = {}]
  /\ UNCHANGED <<queueVars, live, charges>>

-----------------------------------------------------------------------------
(* purge_finished_work: a SELECT without FINAL, then DELETEs in chunks. *)

(* A mutated SELECT: neither status nor age. *)
PurgeableInAnyStatus(i) == row[i].status # "absent"

Purgeable(i) == oldest[i] = "aged"

PurgeSelect(k) ==
  /\ k \in Purgers
  /\ chosen[k] = {}
  /\ \E ids \in SUBSET {i \in Items : Purgeable(i)} :
       /\ ids # {}
       /\ chosen' = [chosen EXCEPT ![k] = ids]
  /\ UNCHANGED <<queueVars, recent, batchVars, charges, faults>>

PurgeDelete(k) ==
  /\ \E ids \in SUBSET chosen[k] :
       /\ ids # {}
       /\ ids = chosen[k] \/ Cardinality(ids) = PurgeChunk
       /\ Cardinality(ids) <= PurgeChunk
       /\ row' = [i \in Items |-> IF i \in ids THEN Absent ELSE row[i]]
       /\ oldest' = [i \in Items |-> IF i \in ids THEN "none" ELSE oldest[i]]
       /\ chosen' = [chosen EXCEPT ![k] = @ \ ids]
  /\ UNCHANGED <<letters, buffer, recent, batchVars, charges, faults>>

PurgeRaises(k) ==
  /\ Fault
  /\ chosen[k] # {}
  /\ chosen' = [chosen EXCEPT ![k] = {}]
  /\ UNCHANGED <<queueVars, recent, batchVars, charges>>

-----------------------------------------------------------------------------
(* Time passes. *)

(* lease_until passes.  The lease of an item nobody works on any more       *)
(* lapses in due course; one that lapses under its holder is a fault.       *)
LeaseLapses(k, i) ==
  /\ i \in live[k]
  /\ IF i \in Active(k) THEN Fault ELSE faults' = faults
  /\ EndLease(k, i)
  /\ Charge(i)
  /\ UNCHANGED <<queueVars, recent, phase, stage, attempt, chosen>>

RetryDue(i) ==
  /\ row[i].status = "pending" /\ ~row[i].due
  /\ row' = [row EXCEPT ![i] =
                 Version(@.status, @.attempts, @.revision, @.owner, TRUE)]
  /\ UNCHANGED <<oldest, letters, buffer, recent, batchVars, chosen, charges, faults>>

TerminalAges(i) ==
  /\ oldest[i] = "fresh"
  /\ oldest' = [oldest EXCEPT ![i] = "aged"]
  /\ UNCHANGED <<row, letters, buffer, recent, batchVars, chosen, charges, faults>>

-----------------------------------------------------------------------------

ItemStep(k, i) ==
  \/ Succeed(k, i) \/ Unavailable(k, i) \/ HandlerRaises(k, i)
  \/ Retry(k, i) \/ Bury(k, i) \/ DeadLetter(k, i)

ItemFault(k, i) ==
  \/ EnqueueRaises(k, i) \/ SuccessUnacknowledged(k, i) \/ FinishRaises(k, i)

BatchStep(k) ==
  \/ LeaseSelect(k) \/ LeaseInsert(k) \/ BatchReturns(k) \/ Release(k)

ProcessFault(k) ==
  \/ LeaseInsertRaises(k) \/ BatchDeadline(k) \/ ReleaseRaises(k)
  \/ PurgeRaises(k) \/ Crash(k)

Purge(k) == PurgeSelect(k) \/ PurgeDelete(k)

Next ==
  \/ \E k \in Workers, i \in Items :
       \/ Enqueue(k, i) \/ DedupLapses(k, i)
       \/ ItemStep(k, i) \/ ItemFault(k, i) \/ LeaseLapses(k, i)
  \/ \E k \in Workers : BatchStep(k) \/ ProcessFault(k) \/ Purge(k)
  \/ \E i \in Items : Flush(i) \/ RetryDue(i) \/ TerminalAges(i)
  \/ LoseBuffer

Spec == Init /\ [][Next]_vars

(* _resilient_loop calls run_once again whatever the last call did, asyncio *)
(* runs every ready task, the server flushes its buffer on a timer, and     *)
(* time passes.  Nothing is assumed of the purge or of the faults.          *)
Fairness ==
  /\ \A k \in Workers :
       /\ WF_vars(LeaseSelect(k)) /\ WF_vars(LeaseInsert(k))
       /\ WF_vars(BatchReturns(k)) /\ WF_vars(Release(k))
       /\ \A i \in Items :
            WF_vars(ItemStep(k, i)) /\ WF_vars(LeaseLapses(k, i))
  /\ \A i \in Items : WF_vars(Flush(i)) /\ WF_vars(RetryDue(i))

(* The rediscovery contract of ClickHouseConfig: what is still wanted is    *)
(* enqueued again and again, and suppression runs out.                      *)
Rediscovery ==
  \A k \in Workers, i \in Items :
    WF_vars(Enqueue(k, i)) /\ WF_vars(DedupLapses(k, i))

FairSpec == Spec /\ Fairness

-----------------------------------------------------------------------------
(* Properties.                                                              *)

(* A terminal-status version anywhere in the table means that FINAL reads   *)
(* the item as terminal: what purge_finished_work relies on when it deletes *)
(* every version of an id after a SELECT without FINAL (clickhouse.py       *)
(* TERMINAL_WORK_STATUSES).                                                 *)
TerminalVersionWins ==
  \A i \in Items :
    oldest[i] # "none" => row[i].status \in TERMINAL_WORK_STATUSES

(* Between the purge's SELECT and its DELETEs no chosen item becomes open   *)
(* work again, so retention never deletes an item that is still to be done. *)
PurgeTakesNoOpenWork ==
  \A k \in Workers : \A i \in chosen[k] :
    row[i].status \in TERMINAL_WORK_STATUSES

(* The attempts column never runs ahead of the attempts that really failed  *)
(* or whose lease ran out: a batch abandoned at its deadline costs an item  *)
(* nothing of its retry budget (release_work), whatever the interleaving.   *)
AttemptsAreCharged ==
  \A i \in Items :
    row[i].attempts <= charges[i] + (IF row[i].status = "pending" THEN 0 ELSE 1)

(* An item a worker has under an unexpired lease carries its attempt in the *)
(* table ("lease_work increments `attempts` for every item it hands out").  *)
LeaseRecorded ==
  \A k \in Workers : \A i \in Active(k) \cap live[k] :
    phase[k] = "working" =>
      \/ row[i].status \in TERMINAL_WORK_STATUSES
      \/ row[i].attempts >= attempt[k][i]

(* The queue implements the ledger: an item's outcome is never undone or    *)
(* lowered by a late retry, a release, a replayed enqueue or a second       *)
(* worker, and only retention forgets it (README, "API enrichment").        *)
LedgerState(r) == IF r.status \in Open THEN "open" ELSE r.status

Ledger == INSTANCE WorkLedger WITH item <- [i \in Items |-> LedgerState(row[i])]

ImplementsLedger == Ledger!Spec

(* Every item that reaches the table reaches an outcome, through crashes,   *)
(* raised inserts, deadlines and lapsed leases, without being rediscovered. *)
QueuedItemFinishes ==
  \A i \in Items :
    row[i].status \in Open ~> row[i].status \in TERMINAL_WORK_STATUSES

(* Work that keeps being rediscovered is done again and again, whatever the *)
(* buffer loses, the suppression hides and the purge deletes ("a missing    *)
(* pending row is rediscovered, not lost").                                 *)
RediscoveredItemFinishes ==
  Rediscovery =>
    \A i \in Items : []<>(row[i].status \in TERMINAL_WORK_STATUSES)

=============================================================================
