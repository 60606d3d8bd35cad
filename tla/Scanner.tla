------------------------------- MODULE Scanner -------------------------------
(***************************************************************************)
(* Chain ingestion: HistoricalIndexer.scan and what drives it (the scan    *)
(* loop of `continuous` with its finality rescan, the one-shot `backfill`  *)
(* and `repair` commands), the RPC client it reads from, the inserts it    *)
(* makes and the checkpoint it commits.                                    *)
(*                                                                         *)
(* A fork of a block is a version number; the pair <<b, v>> stands for the *)
(* logs of fork v of block b, for the events decoded from them and for the *)
(* work they imply, according to the table it is in.  Every await is a     *)
(* step boundary.  Rows of the asynchronous tables are acknowledged at the *)
(* server's insert buffer and reach the table when it is flushed.          *)
(***************************************************************************)
EXTENDS Integers, FiniteSets

CONSTANTS
  Services,        \* processes running `continuous`
  Backfills,       \* processes running `backfill --from-block --to-block`
  Repairs,         \* processes running `repair`
  FromBlocks,      \* the --from-block values of Backfills; NoBound when omitted
  Start,           \* deployment.start_block
  MaxBlock,        \* bound on the chain
  MaxForks,        \* bound on the versions of a block
  Logs,            \* the forks <<b, v>> that carry logs of the contracts
  SafeLag,         \* how far the "safe" block is behind the latest
  Finality,        \* chain.finality_blocks
  ReorgDepth,      \* how deep the chain reorganises
  MinRange, InitRange, MaxRange,   \* eth_getLogs range sizes
  ProviderLimit,   \* blocks the provider serves in one eth_getLogs
  AsyncInsertWait, \* ClickHouseConfig.async_insert_wait
  Suppress,        \* enqueue_dedup_ttl_seconds > 0
  MaxFaults,       \* bound on exceptions and process crashes
  MaxLosses        \* bound on crashes of the server that lose its buffers

NoBound == 0   \* --from-block is omitted

Scanners == Services \cup Backfills \cup Repairs
Blocks == 1 .. MaxBlock
Forks == 0 .. MaxForks

ASSUME ScannerParameters ==
  /\ MaxBlock \in Nat /\ MaxForks \in Nat /\ Start \in Blocks
  /\ Logs \subseteq Blocks \X Forks
  /\ FromBlocks \subseteq Blocks \cup {NoBound}
  /\ SafeLag \in Nat /\ Finality \in Nat \ {0} /\ ReorgDepth \in Nat
  /\ MinRange \in Nat \ {0} /\ InitRange \in Nat \ {0} /\ MaxRange \in Nat \ {0}
  /\ MinRange <= InitRange /\ InitRange <= MaxRange
  /\ ProviderLimit \in Nat
  /\ AsyncInsertWait \in BOOLEAN /\ Suppress \in BOOLEAN
  /\ MaxFaults \in Nat /\ MaxLosses \in Nat

NoCheckpoint == 0   \* no row in indexing_checkpoints
NoFork == -1        \* no header of the block

(* derived: trades, settlements, interactions and order_events. *)
Tables == {"raw_rpc_logs", "decoded_events", "derived", "work_items"}

(* The tables whose rows a range commits with its checkpoint. *)
RangeTables == Tables \ {"work_items"}

VARIABLES
  latest,      \* the chain: its highest block
  canon,       \* the chain: the canonical fork of each block
  header,      \* chain_blocks: the fork whose header was observed last
  table,       \* the rows of each of Tables
  headerBuf,   \* the insert buffer of chain_blocks
  rowBuf,      \* the insert buffers of the other tables
  checkpoint,  \* the newest row of indexing_checkpoints
  recent,      \* _RecentEnqueues of each process
  pc, mode, cursor, end, size, upper, \* scan's control and its locals
  logs,        \* what get_logs returned for the range
  headers,     \* what get_blocks returned for the range
  current,     \* the checkpoint that checkpoint() has read
  faults, losses

chainVars == <<latest, canon>>
storeVars == <<header, table, headerBuf, rowBuf>>
rangeVars == <<mode, cursor, end, size, upper>>
fetchVars == <<logs, headers, current>>
boundVars == <<faults, losses>>
vars == <<chainVars, storeVars, checkpoint, recent, pc, rangeVars, fetchVars,
          boundVars>>

Modes == {"forward", "rescan", "backfill", "repair"}

(* rescan: the scan of scan_action is done, the finality rescan is next.   *)
(* The other names say which call of the range loop comes next.            *)
PCs == {"idle", "rescan", "get_logs", "get_blocks", "store_blocks",
        "store_raw_logs", "store_events", "store_derived", "enqueue_work",
        "get_checkpoint", "insert_checkpoint"}

TypeOK ==
  /\ latest \in 0 .. MaxBlock
  /\ canon \in [Blocks -> Forks]
  /\ header \in [Blocks -> Forks \cup {NoFork}]
  /\ headerBuf \in [Blocks -> Forks \cup {NoFork}]
  /\ table \in [Tables -> SUBSET Logs]
  /\ rowBuf \in [Tables -> SUBSET Logs]
  /\ checkpoint \in Blocks \cup {NoCheckpoint}
  /\ recent \in [Scanners -> SUBSET Logs]
  /\ pc \in [Scanners -> PCs]
  /\ mode \in [Scanners -> Modes]
  /\ cursor \in [Scanners -> 0 .. MaxBlock + 1]
  /\ end \in [Scanners -> 0 .. MaxBlock]
  /\ size \in [Scanners -> 0 .. MaxRange]
  /\ upper \in [Scanners -> 0 .. MaxBlock]
  /\ logs \in [Scanners -> SUBSET Logs]
  /\ headers \in [Scanners -> [Blocks -> Forks \cup {NoFork}]]
  /\ current \in [Scanners -> Blocks \cup {NoCheckpoint}]
  /\ faults \in 0 .. MaxFaults
  /\ losses \in 0 .. MaxLosses

NoHeaders == [b \in Blocks |-> NoFork]

Init ==
  /\ latest = 0
  /\ canon = [b \in Blocks |-> 0]
  /\ header = NoHeaders /\ headerBuf = NoHeaders
  /\ table = [t \in Tables |-> {}] /\ rowBuf = [t \in Tables |-> {}]
  /\ checkpoint = NoCheckpoint
  /\ recent = [s \in Scanners |-> {}]
  /\ pc = [s \in Scanners |-> "idle"]
  /\ mode = [s \in Scanners |-> "forward"]
  /\ cursor = [s \in Scanners |-> 0]
  /\ end = [s \in Scanners |-> 0]
  /\ size = [s \in Scanners |-> 0]
  /\ upper = [s \in Scanners |-> 0]
  /\ logs = [s \in Scanners |-> {}]
  /\ headers = [s \in Scanners |-> NoHeaders]
  /\ current = [s \in Scanners |-> NoCheckpoint]
  /\ faults = 0 /\ losses = 0

Smaller(a, b) == IF a < b THEN a ELSE b
Larger(a, b) == IF a > b THEN a ELSE b

Fault == faults < MaxFaults /\ faults' = faults + 1

Goto(s, label) == pc' = [pc EXCEPT ![s] = label]

ClearFetched(s) ==
  /\ logs' = [logs EXCEPT ![s] = {}]
  /\ headers' = [headers EXCEPT ![s] = NoHeaders]
  /\ current' = [current EXCEPT ![s] = NoCheckpoint]

(* scan() returns or raises: its locals are gone. *)
LeaveScan(s, label) ==
  /\ Goto(s, label)
  /\ mode' = [mode EXCEPT ![s] = "forward"]
  /\ cursor' = [cursor EXCEPT ![s] = 0]
  /\ end' = [end EXCEPT ![s] = 0]
  /\ size' = [size EXCEPT ![s] = 0]
  /\ upper' = [upper EXCEPT ![s] = 0]
  /\ ClearFetched(s)

-----------------------------------------------------------------------------
(* The chain. *)

Mine ==
  /\ latest < MaxBlock
  /\ latest' = latest + 1
  /\ UNCHANGED <<canon, storeVars, checkpoint, recent, pc, rangeVars,
                 fetchVars, boundVars>>

Reorg ==
  \E b \in Blocks :
    /\ b <= latest /\ b > latest - ReorgDepth
    /\ \A c \in b .. MaxBlock : canon[c] < MaxForks
    /\ canon' = [c \in Blocks |-> IF c >= b THEN canon[c] + 1 ELSE canon[c]]
    /\ UNCHANGED <<latest, storeVars, checkpoint, recent, pc, rangeVars,
                   fetchVars, boundVars>>

(* safe_head: the block tagged "safe", or latest - finality_blocks from a   *)
(* provider without the tag; SafeLag = Finality is that fallback.           *)
SafeHead == Larger(0, latest - SafeLag)

-----------------------------------------------------------------------------
(* The start of a scan. *)

StartRange(s, m, from, to) ==
  /\ mode' = [mode EXCEPT ![s] = m]
  /\ cursor' = [cursor EXCEPT ![s] = from]
  /\ end' = [end EXCEPT ![s] = to]
  /\ size' = [size EXCEPT ![s] = InitRange]
  /\ Goto(s, "get_logs")
  /\ UNCHANGED <<upper, chainVars, storeVars, checkpoint, recent, fetchVars,
                 boundVars>>

(* A mutated resume: scanning starts at the block after next. *)
ResumeSkippingOne(cp) == IF cp = NoCheckpoint THEN Start ELSE cp + 2

ResumeBlock(cp) == IF cp = NoCheckpoint THEN Start ELSE cp + 1

(* scan() of `continuous`: from the checkpoint to the safe head. *)
BeginForward(s) ==
  /\ s \in Services
  /\ pc[s] = "idle"
  /\ ResumeBlock(checkpoint) <= SafeHead
  /\ StartRange(s, "forward", ResumeBlock(checkpoint), SafeHead)

(* The scan finds nothing new and returns 0; the rescan still follows. *)
NothingNew(s) ==
  /\ s \in Services
  /\ pc[s] = "idle"
  /\ ResumeBlock(checkpoint) > SafeHead
  /\ Goto(s, "rescan")
  /\ UNCHANGED <<chainVars, storeVars, checkpoint, recent, rangeVars,
                 fetchVars, boundVars>>

BeginRescan(s) ==
  /\ pc[s] = "rescan"
  /\ SafeHead >= 1
  /\ StartRange(s, "rescan", Larger(1, SafeHead - Finality + 1), SafeHead)

EmptyRescan(s) ==
  /\ pc[s] = "rescan"
  /\ SafeHead < 1
  /\ Goto(s, "idle")
  /\ UNCHANGED <<chainVars, storeVars, checkpoint, recent, rangeVars,
                 fetchVars, boundVars>>

(* The commands, with the operator's bounds.  A repair always has both. *)
BeginBackfill(s) ==
  /\ s \in Backfills
  /\ pc[s] = "idle"
  /\ \E bound \in FromBlocks, to \in Blocks :
       LET from == IF bound = NoBound THEN ResumeBlock(checkpoint) ELSE bound
       IN /\ from <= Smaller(to, SafeHead)
          /\ StartRange(s, "backfill", from, Smaller(to, SafeHead))

BeginRepair(s) ==
  /\ s \in Repairs
  /\ pc[s] = "idle"
  /\ \E from \in Blocks, to \in Blocks :
       /\ from <= Smaller(to, SafeHead)
       /\ StartRange(s, "repair", from, Smaller(to, SafeHead))

-----------------------------------------------------------------------------
(* One range: fetch. *)

Top(s) == Smaller(cursor[s] + size[s] - 1, end[s])

(* A mutated filter: toBlock is taken for exclusive. *)
FetchedExclusive(s) == cursor[s] .. Top(s) - 1

Fetched(s) == cursor[s] .. Top(s)

TooLarge(s) == Top(s) - cursor[s] + 1 > ProviderLimit

(* A mutated reaction: the same range is asked for again. *)
SameRange(n) == n

HalvedRange(n) == Larger(MinRange, n \div 2)

(* The provider refuses what exceeds its limit, and at times a range that   *)
(* does not ("request timed out" is one of the markers).                    *)
Refused(s) == IF TooLarge(s) THEN UNCHANGED faults ELSE Fault

(* RpcRangeTooLarge: halve ... *)
HalveRange(s) ==
  /\ pc[s] = "get_logs"
  /\ Refused(s)
  /\ size[s] > MinRange
  /\ size' = [size EXCEPT ![s] = HalvedRange(size[s])]
  /\ UNCHANGED <<chainVars, storeVars, checkpoint, recent, pc, mode, cursor,
                 end, upper, fetchVars, losses>>

(* ... or raise at the minimum. *)
RangeExhausted(s) ==
  /\ pc[s] = "get_logs"
  /\ Refused(s)
  /\ size[s] <= MinRange
  /\ LeaveScan(s, "idle")
  /\ UNCHANGED <<chainVars, storeVars, checkpoint, recent, losses>>

(* One request for all contracts; the requests by contract that replace it  *)
(* at a provider that takes no list (-32602) are not told apart.            *)
GetLogs(s) ==
  /\ pc[s] = "get_logs"
  /\ ~TooLarge(s)
  /\ upper' = [upper EXCEPT ![s] = Top(s)]
  /\ logs' = [logs EXCEPT ![s] =
                {r \in Logs : r[1] \in Fetched(s) /\ r[2] = canon[r[1]]}]
  /\ Goto(s, "get_blocks")
  /\ UNCHANGED <<chainVars, storeVars, checkpoint, recent, mode, cursor, end,
                 size, headers, current, boundVars>>

(* A mutated rescan: only the headers a forward scan needs. *)
StoresNoExtraBlocks(m) == FALSE

StoresAllBlocks(m) == m \in {"rescan", "repair"}

WantedBlocks(s) ==
  IF StoresAllBlocks(mode[s]) THEN cursor[s] .. upper[s]
  ELSE {upper[s]} \cup {r[1] : r \in logs[s]}

(* The requests of get_blocks run together and come back in any order,      *)
(* after the logs: a reorganisation may lie between any two of these reads. *)
GetBlocks(s) ==
  /\ pc[s] = "get_blocks"
  /\ \E b \in WantedBlocks(s) :
       /\ headers[s][b] = NoFork
       /\ headers' = [headers EXCEPT ![s][b] = canon[b]]
       /\ IF \A c \in WantedBlocks(s) : headers'[s][c] # NoFork
            THEN Goto(s, "store_blocks") ELSE UNCHANGED pc
  /\ UNCHANGED <<chainVars, storeVars, checkpoint, recent, rangeVars, logs,
                 current, boundVars>>

-----------------------------------------------------------------------------
(* One range: store. *)

(* ReplacingMergeTree(observed_at): the header stored last is the one read. *)
Observed(old, new) ==
  [b \in Blocks |-> IF new[b] # NoFork THEN new[b] ELSE old[b]]

StoreBlocks(s) ==
  /\ pc[s] = "store_blocks"
  /\ IF AsyncInsertWait
       THEN header' = Observed(header, headers[s]) /\ UNCHANGED headerBuf
       ELSE headerBuf' = Observed(headerBuf, headers[s]) /\ UNCHANGED header
  /\ Goto(s, "store_raw_logs")
  /\ UNCHANGED <<chainVars, table, rowBuf, checkpoint, recent, rangeVars,
                 fetchVars, boundVars>>

InsertRows(t, rows) ==
  IF AsyncInsertWait
    THEN table' = [table EXCEPT ![t] = @ \cup rows] /\ UNCHANGED rowBuf
    ELSE rowBuf' = [rowBuf EXCEPT ![t] = @ \cup rows] /\ UNCHANGED table

StoreRawLogs(s) ==
  /\ pc[s] = "store_raw_logs"
  /\ InsertRows("raw_rpc_logs", logs[s])
  /\ Goto(s, "store_events")
  /\ UNCHANGED <<chainVars, header, headerBuf, checkpoint, recent, rangeVars,
                 fetchVars, boundVars>>

(* store_events: the inserts into decoded_events and the derived tables. *)
StoreEvents(s) ==
  /\ \/ /\ pc[s] = "store_events"
        /\ InsertRows("decoded_events", logs[s])
        /\ Goto(s, "store_derived")
     \/ /\ pc[s] = "store_derived"
        /\ InsertRows("derived", logs[s])
        /\ Goto(s, "enqueue_work")
  /\ UNCHANGED <<chainVars, header, headerBuf, checkpoint, recent, rangeVars,
                 fetchVars, boundVars>>

(* A mutated flag: the rescan and repair commit what they scanned, too. *)
AlwaysUpdatesCheckpoint(m) == TRUE

UpdatesCheckpoint(m) == m \in {"forward", "backfill"}

(* A mutated growth: the maximum is forgotten. *)
GrownPastMaximum(n) == 2 * n

GrownRange(n) == Smaller(MaxRange, 2 * n)

(* cursor = upper + 1, and a range twice as large, until the end is passed. *)
NextRange(s) ==
  IF upper[s] >= end[s]
    THEN LeaveScan(s, IF mode[s] = "forward" THEN "rescan" ELSE "idle")
    ELSE /\ cursor' = [cursor EXCEPT ![s] = upper[s] + 1]
         /\ size' = [size EXCEPT ![s] = GrownRange(size[s])]
         /\ Goto(s, "get_logs")
         /\ ClearFetched(s)
         /\ UNCHANGED <<mode, end, upper>>

AfterRows(s) ==
  IF UpdatesCheckpoint(mode[s])
    THEN Goto(s, "get_checkpoint") /\ UNCHANGED <<rangeVars, fetchVars>>
    ELSE NextRange(s)

(* take_new and the insert of what it lets through. *)
Fresh(s) == IF Suppress THEN logs[s] \ recent[s] ELSE logs[s]

Remember(s) ==
  recent' = IF Suppress THEN [recent EXCEPT ![s] = @ \cup logs[s]] ELSE recent

EnqueueWork(s) ==
  /\ pc[s] = "enqueue_work"
  /\ InsertRows("work_items", Fresh(s))
  /\ Remember(s)
  /\ AfterRows(s)
  /\ UNCHANGED <<chainVars, header, headerBuf, checkpoint, boundVars>>

(* The insert raises; the ids stay remembered. *)
EnqueueRaises(s) ==
  /\ Fault
  /\ pc[s] = "enqueue_work"
  /\ Remember(s)
  /\ LeaveScan(s, "idle")
  /\ UNCHANGED <<chainVars, storeVars, checkpoint, losses>>

-----------------------------------------------------------------------------
(* One range: commit.  checkpoint() reads the newest row, then inserts. *)

GetCheckpoint(s) ==
  /\ pc[s] = "get_checkpoint"
  /\ current' = [current EXCEPT ![s] = checkpoint]
  /\ Goto(s, "insert_checkpoint")
  /\ UNCHANGED <<chainVars, storeVars, checkpoint, recent, rangeVars, logs,
                 headers, boundVars>>

Behind(s) == current[s] # NoCheckpoint /\ upper[s] < current[s]

InsertCheckpoint(s) ==
  /\ pc[s] = "insert_checkpoint"
  /\ checkpoint' = IF Behind(s) THEN checkpoint ELSE upper[s]
  /\ NextRange(s)
  /\ UNCHANGED <<chainVars, storeVars, recent, boundVars>>

-----------------------------------------------------------------------------
(* Failures, the server's buffers, time. *)

(* An RPC or ClickHouse call raises: the scan is abandoned, and the loop    *)
(* starts another from the checkpoint.                                      *)
Raises(s) ==
  /\ Fault
  /\ pc[s] # "idle"
  /\ LeaveScan(s, "idle")
  /\ UNCHANGED <<chainVars, storeVars, checkpoint, recent, losses>>

Crash(s) ==
  /\ Fault
  /\ LeaveScan(s, "idle")
  /\ recent' = [recent EXCEPT ![s] = {}]
  /\ UNCHANGED <<chainVars, storeVars, checkpoint, losses>>

FlushHeaders ==
  /\ headerBuf # NoHeaders
  /\ header' = Observed(header, headerBuf)
  /\ headerBuf' = NoHeaders
  /\ UNCHANGED <<chainVars, table, rowBuf, checkpoint, recent, pc, rangeVars,
                 fetchVars, boundVars>>

FlushRows(t) ==
  /\ rowBuf[t] # {}
  /\ table' = [table EXCEPT ![t] = @ \cup rowBuf[t]]
  /\ rowBuf' = [rowBuf EXCEPT ![t] = {}]
  /\ UNCHANGED <<chainVars, header, headerBuf, checkpoint, recent, pc,
                 rangeVars, fetchVars, boundVars>>

LoseBuffers ==
  /\ losses < MaxLosses
  /\ headerBuf # NoHeaders \/ \E t \in Tables : rowBuf[t] # {}
  /\ losses' = losses + 1
  /\ headerBuf' = NoHeaders
  /\ rowBuf' = [t \in Tables |-> {}]
  /\ UNCHANGED <<chainVars, header, table, checkpoint, recent, pc, rangeVars,
                 fetchVars, faults>>

(* A mutated expiry: an id that is due to lapse is stamped anew. *)
DedupRenews(s, r) ==
  /\ r \in recent[s]
  /\ recent' = [recent EXCEPT ![s] = @ \cup {r}]
  /\ UNCHANGED <<chainVars, storeVars, checkpoint, pc, rangeVars, fetchVars,
                 boundVars>>

(* The TTL since its last write has passed, or the size cap evicts the id. *)
DedupLapses(s, r) ==
  /\ r \in recent[s]
  /\ recent' = [recent EXCEPT ![s] = @ \ {r}]
  /\ UNCHANGED <<chainVars, storeVars, checkpoint, pc, rangeVars, fetchVars,
                 boundVars>>

-----------------------------------------------------------------------------

ServiceStep(s) ==
  \/ BeginForward(s) \/ NothingNew(s) \/ BeginRescan(s) \/ EmptyRescan(s)

RangeStep(s) ==
  \/ GetLogs(s) \/ HalveRange(s) \/ RangeExhausted(s) \/ GetBlocks(s)
  \/ StoreBlocks(s) \/ StoreRawLogs(s) \/ StoreEvents(s) \/ EnqueueWork(s)
  \/ GetCheckpoint(s) \/ InsertCheckpoint(s)

Next ==
  \/ Mine \/ Reorg
  \/ \E s \in Scanners :
       \/ ServiceStep(s) \/ BeginBackfill(s) \/ BeginRepair(s)
       \/ RangeStep(s)
       \/ EnqueueRaises(s) \/ Raises(s) \/ Crash(s)
       \/ \E r \in Logs : DedupLapses(s, r)
  \/ FlushHeaders \/ (\E t \in Tables : FlushRows(t)) \/ LoseBuffers

Spec == Init /\ [][Next]_vars

(* The scan loop never stops, a call that does not raise returns, blocks    *)
(* keep coming, the server flushes its buffers on a timer and suppression   *)
(* runs out.  No operator need ever run a command, and none keeps           *)
(* `continuous` from its turn for good by running commands instead.         *)
Fairness ==
  /\ WF_vars(Mine)
  /\ \A s \in Scanners : SF_vars(ServiceStep(s)) /\ WF_vars(RangeStep(s))
  /\ WF_vars(FlushHeaders)
  /\ \A t \in Tables : WF_vars(FlushRows(t))
  /\ \A s \in Scanners, r \in Logs : WF_vars(DedupLapses(s, r))

FairSpec == Spec /\ Fairness

-----------------------------------------------------------------------------
(* Properties.                                                              *)

Committed == {b \in Blocks : Start <= b /\ b <= checkpoint}

(* Rows that readers see, and rows that were at least acknowledged. *)
Stored(t) == table[t]
Acknowledged(t) == table[t] \cup rowBuf[t]

(* The logs of some fork of b, up to the canonical one, are in rows(t).     *)
CoveredBy(b, rows) ==
  \E v \in 0 .. canon[b] : <<b, v>> \in Logs => <<b, v>> \in rows

(* The checkpoint never passes a block whose rows were not all acknowledged *)
(* by the server: whatever raises or crashes between the inserts of a       *)
(* range, and however ranges shrink and grow, no block is skipped, as long  *)
(* as the server itself loses nothing, and whichever of two processes       *)
(* commits last (README, "Recovering from failures": "resumes from its last *)
(* committed checkpoint with no data loss").                                *)
CommittedRangesAcknowledged ==
  losses = 0 =>
    \A b \in Committed, t \in RangeTables : CoveredBy(b, Acknowledged(t))

(* The same of the rows a reader sees: nothing at or below the checkpoint   *)
(* is partially written (clickhouse.py, SYNC_INSERT_TABLES: "a checkpoint   *)
(* acked before its rows were flushed would expose partially-written        *)
(* ranges").                                                                *)
CommittedRangesStored ==
  \A b \in Committed, t \in RangeTables : CoveredBy(b, Stored(t))

(* The work implied by every block at or below the checkpoint was written.  *)
(* It is so without suppression (theorem WorkIsWritten); with it an enqueue *)
(* that raised has remembered the ids it did not write.                     *)
CommittedWorkWritten ==
  \A b \in Committed : CoveredBy(b, Acknowledged("work_items"))

(* The work of a committed block is in the table sooner or later            *)
(* (enqueue_work_many: "a missing pending row is rediscovered, not lost").  *)
WorkIsRediscovered ==
  \A b \in Blocks : b \in Committed ~> CoveredBy(b, Stored("work_items"))

(* Of two processes that commit, one may insert a lower number than the     *)
(* other did since it read, so this does not hold, although "checkpoint     *)
(* monotonicity is only enforced in the application layer" (migrations/008) *)
(* and the modes "interleave safely" (README.md:126).  No run lists it: as  *)
(* a PROPERTY in ScannerDefault.cfg TLC refutes it.                         *)
CheckpointNeverFalls == [][checkpoint' >= checkpoint]_vars

(* The *_canonical views: events whose block hash is the one observed last, *)
(* at or below the checkpoint (migrations/008).                             *)
CanonicalEvents ==
  {r \in Stored("decoded_events") : header[r[1]] = r[2] /\ r[1] <= checkpoint}

Window == {b \in Committed : b > SafeHead - Finality /\ b <= SafeHead}

(* Once the chain stops reorganising, the views show in the finality window *)
(* exactly the events of the canonical forks: replaced forks drop out and   *)
(* replacing ones come in, although logs and headers are read at different  *)
(* times.                                                                   *)
WindowConverges ==
  <>[](\A b \in Window : \A v \in Forks :
         <<b, v>> \in CanonicalEvents <=> (v = canon[b] /\ <<b, v>> \in Logs))

(* The work of the finality window is written in the end: what an enqueue   *)
(* remembered and then failed to write is written by a later rescan, once   *)
(* the suppression has lapsed (_RecentEnqueues: "the TTL simply lets an id  *)
(* through again").  Below the window nothing enqueues it again.            *)
WindowWorkWritten ==
  <>[](\A b \in Window :
         <<b, canon[b]>> \in Logs => <<b, canon[b]>> \in Stored("work_items"))

(* Every safe block is eventually committed, through range errors, raised   *)
(* calls and restarts.                                                      *)
CheckpointCatchesUp == <>(checkpoint >= MaxBlock - SafeLag)

=============================================================================
