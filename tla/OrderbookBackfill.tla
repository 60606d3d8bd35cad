-------------------------- MODULE OrderbookBackfill --------------------------
(***************************************************************************)
(* The orderbook backfill of one chain: seed-orders and seed-owners put    *)
(* work of their own kinds into work_items, drain leases and processes it  *)
(* until nothing is open, and the purge of `continuous` deletes what is    *)
(* finished.  The versions and the merge are those of WorkItems; Workers   *)
(* are the drain processes.                                                *)
(*                                                                         *)
(* An order is a number, in the order of creation.  The key of a uid batch *)
(* is canonical (sorted), so a batch is its set of orders and the key of   *)
(* an owner item is the owner.  As in WorkQueue time is not counted, and   *)
(* every await at which another process may change what the code goes on   *)
(* to use is a step boundary.  The semaphore of the drain is left out: any *)
(* number of items of a batch are under way together.                      *)
(***************************************************************************)
EXTENDS WorkItems, FiniteSets

CONSTANTS
  Owners,         \* trader addresses
  OwnerOf,        \* the owner of each order
  Tradable,       \* the orders that may get a trade
  Served,         \* the orders the API still serves
  BatchSize,      \* UID_BATCH_SIZE
  EnqueueChunk,   \* ENQUEUE_CHUNK
  LeaseLimit,     \* DRAIN_LEASE_LIMIT
  PageLimit,      \* limit of iter_account_orders
  MaxPages,       \* RuntimeConfig.backfill_max_pages_per_owner
  MaxAttempts,    \* RuntimeConfig.max_attempts
  MaxFaults,      \* bound on exceptions, crashes and lapses under a holder
  MaxLosses       \* bound on losses of the server's insert buffers

Orders == DOMAIN OwnerOf

ASSUME BackfillParameters ==
  /\ IsFiniteSet(Orders) /\ Orders = 1 .. Cardinality(Orders)
  /\ OwnerOf \in [Orders -> Owners]
  /\ Tradable \subseteq Orders /\ Served \subseteq Orders
  /\ BatchSize \in Nat \ {0} /\ EnqueueChunk \in Nat \ {0}
  /\ LeaseLimit \in Nat \ {0} /\ PageLimit \in Nat \ {0}
  /\ MaxPages \in Nat \ {0}
  /\ MaxAttempts \in 1 .. AttemptLimit
  /\ MaxFaults \in Nat /\ MaxLosses \in Nat

(* A work_id names the kind of its item: no owner is a batch.               *)
ASSUME OwnersAreNoBatches == \A w \in Owners, ids \in SUBSET Orders : w # ids

(* order_uids_batch and owner_orders_backfill. *)
Batches == {ids \in SUBSET Tradable : Cardinality(ids) \in 1 .. BatchSize}
Items == Owners \cup Batches

VARIABLES
  placed,    \* the API: orders 1 .. placed exist
  traded,    \* trades: the orders with a trade
  recent,    \* those with a trade of the last --since-days days
  orders,    \* the rows of orders
  orderBuf,  \* its insert buffer
  row,       \* FINAL row of each work item
  workBuf,   \* revision-0 rows at the insert buffer of work_items
  seeding,   \* items the seed command has still to enqueue
  pc,        \* where each drain is in its loop
  stage,     \* where each item of its batch is
  attempt,   \* WorkItem.attempts of each item of its batch
  pages,     \* pages of each owner item stored so far
  began,     \* history: orders that existed when the item's processing began
  live,      \* leases that have not lapsed and that nobody ended
  faults, losses

worldVars == <<placed, traded, recent>>
tableVars == <<orders, orderBuf, row, workBuf>>
drainVars == <<pc, stage, attempt, pages, began, live>>
boundVars == <<faults, losses>>
vars == <<worldVars, tableVars, seeding, drainVars, boundVars>>

(* raising: an item's finish_work raised, gather has raised with it, and    *)
(* the other items run on while drain closes its clients.                   *)
PCs == {"off", "lease", "insert", "work", "raising", "count", "sleep"}

(* paging: an owner item between two pages.  stored: process() is done.     *)
Stage == {"out", "processing", "paging", "stored", "truncated", "failed"}

TypeOK ==
  /\ placed \in 0 .. Cardinality(Orders)
  /\ traded \in SUBSET Tradable /\ recent \in SUBSET traded
  /\ orders \in SUBSET Orders /\ orderBuf \in SUBSET Orders
  /\ row \in [Items -> Row]
  /\ workBuf \in SUBSET Items /\ seeding \in SUBSET Items
  /\ pc \in [Workers -> PCs]
  /\ stage \in [Workers -> [Items -> Stage]]
  /\ attempt \in [Workers -> [Items -> 0 .. AttemptLimit]]
  /\ pages \in [Workers -> [Items -> 0 .. MaxPages]]
  /\ began \in [Workers -> [Items -> 0 .. Cardinality(Orders)]]
  /\ live \in [Workers -> SUBSET Items]
  /\ faults \in 0 .. MaxFaults /\ losses \in 0 .. MaxLosses

None == [i \in Items |-> 0]

Init ==
  /\ placed = 0 /\ traded = {} /\ recent = {}
  /\ orders = {} /\ orderBuf = {}
  /\ row = [i \in Items |-> Absent]
  /\ workBuf = {} /\ seeding = {}
  /\ pc = [d \in Workers |-> "off"]
  /\ stage = [d \in Workers |-> [i \in Items |-> "out"]]
  /\ attempt = [d \in Workers |-> None]
  /\ pages = [d \in Workers |-> None]
  /\ began = [d \in Workers |-> None]
  /\ live = [d \in Workers |-> {}]
  /\ faults = 0 /\ losses = 0

Fault == faults < MaxFaults /\ faults' = faults + 1

Goto(d, label) == pc' = [pc EXCEPT ![d] = label]

-----------------------------------------------------------------------------
(* The market. *)

Place ==
  /\ placed < Cardinality(Orders)
  /\ placed' = placed + 1
  /\ UNCHANGED <<traded, recent, tableVars, seeding, drainVars, boundVars>>

(* A fill is indexed: at the head, or by a backfill of old blocks.  An      *)
(* order that is filled in parts may come back into the window.             *)
Trade(u) ==
  /\ u \in Tradable \ recent /\ u <= placed
  /\ traded' = traded \cup {u}
  /\ recent' \in {recent, recent \cup {u}}
  /\ UNCHANGED <<placed, tableVars, seeding, drainVars, boundVars>>

(* Its last fill is older than the window.                                  *)
Ages(u) ==
  /\ u \in recent
  /\ recent' = recent \ {u}
  /\ UNCHANGED <<placed, traded, tableVars, seeding, drainVars, boundVars>>

-----------------------------------------------------------------------------
(* seed_orders and seed_owners.  The seeder is a process of its own with    *)
(* nothing to suppress: the items of a run are distinct.                    *)

(* The anti-join of stream_missing_traded_order_uids. *)
Missing(uids) == uids \ orders

(* Newest first, BatchSize at a time. *)
UidBatches(missing) ==
  LET rank(u) == Cardinality({v \in missing : v > u})
  IN {{v \in missing : rank(v) \div BatchSize = rank(u) \div BatchSize} :
        u \in missing}

Seed(items) ==
  /\ seeding = {} /\ items # {}
  /\ seeding' = items
  /\ UNCHANGED <<worldVars, tableVars, drainVars, boundVars>>

(* The one-off full seed, without --since-days. *)
SeedOrders == Seed(UidBatches(Missing(traded)))

(* A periodic sweep sees only the window. *)
SeedRecent == Seed(UidBatches(Missing(recent)))

SeedOwners == Seed({OwnerOf[u] : u \in traded})

(* One enqueue_work_many. *)
SeedChunk ==
  /\ \E chunk \in SUBSET seeding :
       /\ chunk # {}
       /\ chunk = seeding \/ Cardinality(chunk) = EnqueueChunk
       /\ Cardinality(chunk) <= EnqueueChunk
       /\ seeding' = seeding \ chunk
       /\ workBuf' = workBuf \cup chunk
  /\ UNCHANGED <<worldVars, orders, orderBuf, row, drainVars, boundVars>>

SeedEnds ==
  /\ Fault
  /\ seeding # {} /\ seeding' = {}
  /\ UNCHANGED <<worldVars, tableVars, drainVars, losses>>

-----------------------------------------------------------------------------
(* drain: one round of its loop. *)

OutOfBatch(d) ==
  /\ stage' = [stage EXCEPT ![d] = [i \in Items |-> "out"]]
  /\ attempt' = [attempt EXCEPT ![d] = None]
  /\ pages' = [pages EXCEPT ![d] = None]
  /\ began' = [began EXCEPT ![d] = None]

(* What a step of the loop that touches no item leaves alone. *)
Elsewhere ==
  UNCHANGED <<worldVars, tableVars, seeding, stage, attempt, pages, began, live>>

Start(d) ==
  /\ pc[d] = "off" /\ Goto(d, "lease")
  /\ Elsewhere /\ UNCHANGED boundVars

(* run_seconds have elapsed. *)
Deadline(d) ==
  /\ pc[d] = "lease" /\ Goto(d, "off")
  /\ Elsewhere /\ UNCHANGED boundVars

(* A mutated predicate: what a dead drain left running is not taken over. *)
LeasablePendingOnly(i) ==
  /\ row[i].attempts < AttemptLimit
  /\ row[i].status = "pending" /\ row[i].due

Leasable(i) ==
  /\ row[i].attempts < AttemptLimit
  /\ \/ row[i].status = "pending" /\ row[i].due
     \/ row[i].status = "running" /\ i \notin live[row[i].owner]

LeaseSelect(d) ==
  /\ pc[d] = "lease"
  /\ LET leasable == {i \in Items : Leasable(i)}
     IN \E ids \in SUBSET leasable :
          /\ ids # {}
          /\ ids = leasable \/ Cardinality(ids) = LeaseLimit
          /\ Cardinality(ids) <= LeaseLimit
          /\ attempt' = [attempt EXCEPT ![d] =
                           [i \in Items |->
                              IF i \in ids THEN row[i].attempts + 1 ELSE 0]]
  /\ Goto(d, "insert")
  /\ UNCHANGED <<worldVars, tableVars, seeding, stage, pages, began, live,
                 boundVars>>

LeaseNothing(d) ==
  /\ pc[d] = "lease"
  /\ \A i \in Items : ~Leasable(i)
  /\ Goto(d, "count")
  /\ Elsewhere /\ UNCHANGED boundVars

Leased(d) == {i \in Items : attempt[d][i] > 0}

InsertLeases(d) ==
  /\ row' = [i \in Items |->
               IF i \in Leased(d) THEN Put(row[i], LeaseRow(d, attempt[d][i]))
                                  ELSE row[i]]
  /\ live' = [live EXCEPT ![d] = @ \cup Leased(d)]

LeaseInsert(d) ==
  /\ pc[d] = "insert"
  /\ InsertLeases(d)
  /\ Goto(d, "work")
  /\ stage' = [stage EXCEPT ![d] =
                 [i \in Items |->
                    IF i \in Leased(d) THEN "processing" ELSE "out"]]
  /\ UNCHANGED <<worldVars, orders, orderBuf, workBuf, seeding, attempt, pages,
                 began, boundVars>>

Outstanding == {i \in Items : row[i].status \in Open}

(* "drained", or wait for what is scheduled or leased by others. *)
Count(d) ==
  /\ pc[d] = "count"
  /\ Goto(d, IF Outstanding = {} THEN "off" ELSE "sleep")
  /\ Elsewhere /\ UNCHANGED boundVars

SleepEnds(d) ==
  /\ pc[d] = "sleep" /\ Goto(d, "lease")
  /\ Elsewhere /\ UNCHANGED boundVars

(* gather returns. *)
BatchDone(d) ==
  /\ pc[d] = "work"
  /\ \A i \in Items : stage[d][i] = "out"
  /\ Goto(d, "lease")
  /\ Elsewhere /\ UNCHANGED boundVars

(* A query or the lease's insert raises, the insert perhaps applied. *)
DrainRaises(d) ==
  /\ Fault
  /\ \/ pc[d] \in {"lease", "insert", "count"} /\ UNCHANGED <<row, live>>
     \/ pc[d] = "insert" /\ InsertLeases(d)
  /\ Goto(d, "off") /\ OutOfBatch(d)
  /\ UNCHANGED <<worldVars, orders, orderBuf, workBuf, seeding, losses>>

(* The process is gone: after gather raised, or by Ctrl-C or a crash.       *)
Exit(d) ==
  /\ pc[d] # "off"
  /\ IF pc[d] = "raising" THEN UNCHANGED faults ELSE Fault
  /\ Goto(d, "off") /\ OutOfBatch(d)
  /\ UNCHANGED <<worldVars, tableVars, seeding, live, losses>>

-----------------------------------------------------------------------------
(* _process_and_finish, one item. *)

Busy(d, i, label) ==
  /\ pc[d] \in {"work", "raising"}
  /\ stage[d][i] = label

SetStage(d, i, label) == stage' = [stage EXCEPT ![d][i] = label]

(* get_orders_by_uids: what is no longer served comes back without an order. *)
ByUids(uids) == uids \cap Served

(* One by_uids call, and store_orders of what it returns. *)
ProcessBatch(d, i) ==
  /\ i \notin Owners /\ Busy(d, i, "processing")
  /\ orderBuf' = orderBuf \cup ByUids(i)
  /\ SetStage(d, i, "stored")
  /\ UNCHANGED <<worldVars, orders, row, workBuf, seeding, pc, attempt, pages,
                 began, live, boundVars>>

(* The account's orders at the API, newest first: what lies behind the      *)
(* first `offset` of them, at most PageLimit.                               *)
Listing(owner) == {u \in Served : u <= placed /\ OwnerOf[u] = owner}

Page(owner, offset) ==
  {u \in Listing(owner) :
     Cardinality({v \in Listing(owner) : v > u}) \in offset .. offset + PageLimit - 1}

(* A mutated end: a full page is taken for the last one. *)
LastWhenFull(rows) == Cardinality(rows) <= PageLimit

LastPage(rows) == Cardinality(rows) < PageLimit

(* A page is fetched and stored; every page before it was a full one.       *)
StorePage(d, i) ==
  /\ i \in Owners
  /\ Busy(d, i, "processing") \/ Busy(d, i, "paging")
  /\ LET rows == Page(i, pages[d][i] * PageLimit)
         stored == pages[d][i] + (IF rows = {} THEN 0 ELSE 1)
     IN /\ orderBuf' = orderBuf \cup rows
        /\ pages' = [pages EXCEPT ![d][i] = stored]
        /\ SetStage(d, i, IF rows # {} /\ stored >= MaxPages THEN "truncated"
                          ELSE IF LastPage(rows) THEN "stored" ELSE "paging")
  /\ began' = [began EXCEPT ![d][i] =
                 IF stage[d][i] = "processing" THEN placed ELSE @]
  /\ UNCHANGED <<worldVars, orders, row, workBuf, seeding, pc, attempt, live,
                 boundVars>>

(* process() raises, or finish_work(item, True) does with nothing written. *)
HandlerRaises(d, i) ==
  /\ pc[d] \in {"work", "raising"} /\ stage[d][i] \notin {"out", "failed"}
  /\ SetStage(d, i, "failed")
  /\ UNCHANGED <<worldVars, tableVars, seeding, pc, attempt, pages, began,
                 live, boundVars>>

Write(i, version) == row' = [row EXCEPT ![i] = Put(@, version)]

EndLease(d, i) == live' = [live EXCEPT ![d] = @ \ {i}]

(* The item's task returns or raises. *)
EndTask(d, i) ==
  /\ SetStage(d, i, "out")
  /\ attempt' = [attempt EXCEPT ![d][i] = 0]
  /\ pages' = [pages EXCEPT ![d][i] = 0]
  /\ began' = [began EXCEPT ![d][i] = 0]

Exhausted(d, i) == attempt[d][i] >= MaxAttempts

(* A mutated verdict: an item that is given up counts as finished. *)
VerdictGivenUpIsDone(d, i) ==
  IF Exhausted(d, i) THEN DoneRow(attempt[d][i]) ELSE RetryRow(attempt[d][i])

Verdict(d, i) ==
  IF Exhausted(d, i) THEN DeadRow(attempt[d][i]) ELSE RetryRow(attempt[d][i])

Processed(d, i) == Busy(d, i, "stored") \/ Busy(d, i, "truncated")

Succeed(d, i) ==
  /\ Processed(d, i)
  /\ Write(i, DoneRow(attempt[d][i]))
  /\ EndTask(d, i) /\ EndLease(d, i)
  /\ UNCHANGED <<worldVars, orders, orderBuf, workBuf, seeding, pc, boundVars>>

(* finish_work(item, True) raises although its row was written. *)
SuccessUnacknowledged(d, i) ==
  /\ Fault
  /\ Processed(d, i)
  /\ Write(i, DoneRow(attempt[d][i]))
  /\ SetStage(d, i, "failed")
  /\ UNCHANGED <<worldVars, orders, orderBuf, workBuf, seeding, pc, attempt,
                 pages, began, live, losses>>

Fail(d, i) ==
  /\ Busy(d, i, "failed")
  /\ Write(i, Verdict(d, i))
  /\ EndTask(d, i) /\ EndLease(d, i)
  /\ UNCHANGED <<worldVars, orders, orderBuf, workBuf, seeding, pc, boundVars>>

(* finish_work raises in the except branch, its row written or not: gather  *)
(* raises, and so does drain.                                               *)
FinishRaises(d, i) ==
  /\ Fault
  /\ Busy(d, i, "failed")
  /\ Write(i, Verdict(d, i)) \/ UNCHANGED row
  /\ EndTask(d, i) /\ Goto(d, "raising")
  /\ UNCHANGED <<worldVars, orders, orderBuf, workBuf, seeding, live, losses>>

-----------------------------------------------------------------------------
(* The server's buffers, the purge, time. *)

FlushWork(i) ==
  /\ i \in workBuf
  /\ workBuf' = workBuf \ {i}
  /\ Write(i, EnqueueRow)
  /\ UNCHANGED <<worldVars, orders, orderBuf, seeding, drainVars, boundVars>>

FlushOrders ==
  /\ orderBuf # {}
  /\ orders' = orders \cup orderBuf /\ orderBuf' = {}
  /\ UNCHANGED <<worldVars, row, workBuf, seeding, drainVars, boundVars>>

LoseBuffers ==
  /\ losses < MaxLosses /\ losses' = losses + 1
  /\ orderBuf # {} \/ workBuf # {}
  /\ orderBuf' = {} /\ workBuf' = {}
  /\ UNCHANGED <<worldVars, orders, row, seeding, drainVars, faults>>

(* purge_finished_work knows no kinds; WorkQueue has its steps. *)
Purge(i) ==
  /\ row[i].status \in TERMINAL_WORK_STATUSES
  /\ row' = [row EXCEPT ![i] = Absent]
  /\ UNCHANGED <<worldVars, orders, orderBuf, workBuf, seeding, drainVars,
                 boundVars>>

LeaseLapses(d, i) ==
  /\ i \in live[d]
  /\ IF stage[d][i] # "out" THEN Fault ELSE UNCHANGED faults
  /\ EndLease(d, i)
  /\ UNCHANGED <<worldVars, tableVars, seeding, pc, stage, attempt, pages,
                 began, losses>>

RetryDue(i) ==
  /\ row[i].status = "pending" /\ ~row[i].due
  /\ row' = [row EXCEPT ![i] =
                 Version(@.status, @.attempts, @.revision, @.owner, TRUE)]
  /\ UNCHANGED <<worldVars, orders, orderBuf, workBuf, seeding, drainVars,
                 boundVars>>

-----------------------------------------------------------------------------

LoopStep(d) ==
  \/ LeaseSelect(d) \/ LeaseNothing(d) \/ LeaseInsert(d) \/ Count(d)
  \/ SleepEnds(d) \/ BatchDone(d)

ItemStep(d, i) ==
  \/ ProcessBatch(d, i) \/ StorePage(d, i) \/ HandlerRaises(d, i)
  \/ Succeed(d, i) \/ Fail(d, i)

Next ==
  \/ Place \/ \E u \in Tradable : Trade(u) \/ Ages(u)
  \/ SeedOrders \/ SeedRecent \/ SeedOwners \/ SeedChunk \/ SeedEnds
  \/ \E d \in Workers :
       \/ Start(d) \/ Deadline(d) \/ LoopStep(d) \/ DrainRaises(d) \/ Exit(d)
       \/ \E i \in Items :
            \/ ItemStep(d, i) \/ SuccessUnacknowledged(d, i)
            \/ FinishRaises(d, i) \/ LeaseLapses(d, i)
  \/ \E i \in Items : FlushWork(i) \/ Purge(i) \/ RetryDue(i)
  \/ FlushOrders \/ LoseBuffers

Spec == Init /\ [][Next]_vars

(* A drain that runs goes on (and, with run_seconds, has time to lease),    *)
(* asyncio runs every ready task, buffers are flushed on a timer, time      *)
(* passes.                                                                  *)
Fairness ==
  /\ \A d \in Workers :
       /\ SF_vars(LoopStep(d)) /\ WF_vars(pc[d] = "raising" /\ Exit(d))
       /\ \A i \in Items : WF_vars(ItemStep(d, i)) /\ WF_vars(LeaseLapses(d, i))
  /\ \A i \in Items : WF_vars(FlushWork(i)) /\ WF_vars(RetryDue(i))
  /\ WF_vars(FlushOrders)

(* The periodic sweep: seed-orders with --since-days and drain are run      *)
(* again and again, `continuous` purges, and the API does not fail for      *)
(* ever.  Nothing repeats the full seed.                                    *)
Sweep ==
  /\ <>[][\A d \in Workers, i \in Items : ~HandlerRaises(d, i)]_vars
  /\ SF_vars(SeedRecent) /\ WF_vars(SeedChunk)
  /\ \A d \in Workers : WF_vars(Start(d))
  /\ \A i \in Items : WF_vars(Purge(i))

FairSpec == Spec /\ Fairness

-----------------------------------------------------------------------------
(* Properties.                                                              *)

Acknowledged == orders \cup orderBuf

(* A batch that is done has every order the API serves of it in orders,     *)
(* as long as the server loses nothing: whatever is retried, taken over     *)
(* from a dead drain or finished twice (README, "Resume semantics").        *)
DoneBatchIsStored ==
  losses = 0 =>
    \A i \in Batches :
      row[i].status = "done" => i \cap Served \subseteq Acknowledged

(* An owner whose listing was read to its end is done only once every order *)
(* that existed when the reading began is stored, although the listing      *)
(* grows while it is paged through by offset (iter_account_orders).         *)
DoneOwnerIsStored ==
  [][losses = 0 =>
       \A d \in Workers, i \in Owners :
         Succeed(d, i) /\ stage[d][i] = "stored" =>
           {u \in Listing(i) : u <= began[d][i]} \subseteq Acknowledged]_vars

(* A drain ends once nothing new is seeded, through failing items whose     *)
(* retries are due later and leases left behind by dead drains (drain:      *)
(* "until the queue is empty"): it is never stuck in its loop.              *)
DrainEnds ==
  <>[][\A i \in Items : ~FlushWork(i)]_vars
    => \A d \in Workers : []<>(pc[d] = "off")

(* The periodic sweep stores a traded order the API serves before its last  *)
(* fill leaves the window, whatever was lost or died on the way: none stays *)
(* in the window for ever and unstored (README, "Resume semantics": "The    *)
(* uid pass is additionally self-healing via its anti-join").  What left    *)
(* the window unstored is missing until a full seed.                        *)
SweepCovers ==
  Sweep => \A u \in Served \cap Tradable :
             []<>(u \in recent => u \in orders)

=============================================================================
