---------------------------- MODULE ExportImport ----------------------------
(***************************************************************************)
(* Import of an export bundle: ExportImportService.run, what it calls of   *)
(* the store and of the adapters, and the operator who repeats the command *)
(* until it exits normally.  `continuous` stores some of the same orders   *)
(* meanwhile.                                                              *)
(*                                                                         *)
(* The bundle is a sequence of files, a file a sequence of batches, a      *)
(* batch a sequence of rows.  A row is a record key and a variant: the     *)
(* variants of an order differ in what immutable_hash covers.  Of a table  *)
(* that nobody reads here only the acknowledged rows are kept; those of    *)
(* `orders` and `import_files` reach the table when their insert buffer is *)
(* flushed, unless inserts wait for that.                                  *)
(***************************************************************************)
EXTENDS Integers, Sequences

CONSTANTS
  Keys,        \* record keys
  Variants,    \* what a row says of its record
  Malformed,   \* the variant that normalisation rejects
  Bundle,      \* manifest.files: the dataset and the batches of each
  LiveVariant, \* for each order `continuous` stores, what the API says of it
  Enqueue,     \* --enqueue-enrichment
  Waits,       \* the settings of async_insert_wait
  MaxLive,     \* bound on the stores of `continuous`
  MaxFaults    \* bound on exceptions and crashes

LiveKeys == DOMAIN LiveVariant
Files == DOMAIN Bundle
Datasets == {"orders", "other"}
Rows == [key : Keys, variant : Variants \cup {Malformed}]

ASSUME ImportParameters ==
  /\ Malformed \notin Variants
  /\ Bundle \in Seq([dataset : Datasets, batches : Seq(Seq(Rows))])
  /\ LiveKeys \subseteq Keys /\ \A k \in LiveKeys : LiveVariant[k] \in Variants
  /\ Enqueue \in BOOLEAN /\ Waits \subseteq BOOLEAN
  /\ MaxLive \in Nat /\ MaxFaults \in Nat

(* Each batch of a run and each live store takes the next time stamp. *)
NoTime == 0

NoOrder == [variant |-> Malformed, source |-> "none", at |-> NoTime]
OrderRow == [variant : Variants, source : {"export", "api"}, at : Nat \ {NoTime}]

VARIABLES
  wait,       \* async_insert_wait of this process
  orders,     \* orders: the row of each key that FINAL returns
  orderBuf,   \* the insert buffer of orders
  fileStatus, \* import_files: the newest row of each file
  fileBuf,    \* the insert buffer of import_files
  runStatus,  \* import_runs: the newest row of the bundle
  raw,        \* raw_export_rows, as <<dataset, row>>
  others,     \* the rows of the other datasets' tables
  conflicts,  \* import_conflicts
  queued,     \* order_uid items that were enqueued
  pc, file, batch,    \* the call that comes next, of which file and batch
  todo,       \* the rows of the batch whose order_immutable_hash is due
  taken,      \* output["orders"] of the batch, of each order the last row
  refused,    \* conflicts of the batch
  stamp,      \* now of normalize_export_rows
  liveStamp,  \* now of a store_orders that is under way, for each key
  clock, lives, faults,
  settled     \* history: orders an import has no business with any more

orderVars == <<orders, orderBuf>>
fileVars == <<fileStatus, fileBuf>>
ackVars == <<raw, others, conflicts, queued>>
localVars == <<file, batch, todo, taken, refused, stamp>>
liveVars == <<liveStamp, lives>>
vars == <<wait, orderVars, fileVars, runStatus, ackVars, pc, localVars,
          liveVars, clock, faults, settled>>

FileStates == {"none", "failed", "complete"}

(* idle: no run, or the last one failed; done: it succeeded. *)
PCs == {"idle", "done", "running", "select", "normalize", "order_hash",
        "raw", "table_rows", "conflicts", "enqueue", "complete", "failed",
        "run_complete", "run_failed"}

TypeOK ==
  /\ wait \in Waits
  /\ orders \in [Keys -> OrderRow \cup {NoOrder}]
  /\ orderBuf \in [Keys -> OrderRow \cup {NoOrder}]
  /\ fileStatus \in [Files -> FileStates] /\ fileBuf \in [Files -> FileStates]
  /\ runStatus \in {"none", "running", "complete", "failed"}
  /\ raw \subseteq Datasets \X Rows /\ others \subseteq Rows
  /\ conflicts \subseteq Rows /\ queued \subseteq Keys
  /\ pc \in PCs
  /\ file \in 0 .. Len(Bundle) + 1 /\ batch \in Nat
  /\ todo \subseteq Nat /\ taken \subseteq [key : Keys, variant : Variants]
  /\ refused \subseteq Rows /\ stamp \in Nat
  /\ liveStamp \in [LiveKeys -> Nat]
  /\ clock \in Nat /\ lives \in 0 .. MaxLive
  /\ faults \in 0 .. MaxFaults
  /\ settled \subseteq Keys

Init ==
  /\ wait \in Waits
  /\ orders = [k \in Keys |-> NoOrder] /\ orderBuf = [k \in Keys |-> NoOrder]
  /\ fileStatus = [f \in Files |-> "none"] /\ fileBuf = [f \in Files |-> "none"]
  /\ runStatus = "none"
  /\ raw = {} /\ others = {} /\ conflicts = {} /\ queued = {}
  /\ pc = "idle" /\ file = 0 /\ batch = 0 /\ todo = {}
  /\ taken = {} /\ refused = {} /\ stamp = NoTime
  /\ liveStamp = [k \in LiveKeys |-> NoTime]
  /\ clock = NoTime /\ lives = 0 /\ faults = 0
  /\ settled = {}

-----------------------------------------------------------------------------
(* The store. *)

(* ReplacingMergeTree(observed_at): the newest row, of equals the last. *)
Newest(old, new) == IF new.at >= old.at THEN new ELSE old

Merged(old, new) == [k \in Keys |-> Newest(old[k], new[k])]

InsertOrders(new) ==
  IF wait THEN orders' = Merged(orders, new) /\ UNCHANGED orderBuf
          ELSE orderBuf' = Merged(orderBuf, new) /\ UNCHANGED orders

(* The batch has a row of k to insert.                                      *)
Taken(k) == \E row \in taken : row.key = k

(* The order is in the table, observed after whatever an import may still  *)
(* write of it.                                                            *)
OutOfReach(k) ==
  /\ orders[k] # NoOrder
  /\ Taken(k) => orders[k].at > stamp
  /\ orderBuf[k].source = "export" => orders[k].at > orderBuf[k].at

Settle == settled' = settled \cup {k \in Keys : OutOfReach(k)'}

FlushOrders ==
  /\ orderBuf # [k \in Keys |-> NoOrder]
  /\ orders' = Merged(orders, orderBuf)
  /\ orderBuf' = [k \in Keys |-> NoOrder]
  /\ UNCHANGED <<wait, fileVars, runStatus, ackVars, pc, localVars, liveVars,
                 clock, faults>>

FlushFiles ==
  /\ \E f \in Files : fileBuf[f] # "none"
  /\ fileStatus' = [f \in Files |-> IF fileBuf[f] = "none" THEN fileStatus[f]
                                    ELSE fileBuf[f]]
  /\ fileBuf' = [f \in Files |-> "none"]
  /\ UNCHANGED <<wait, orderVars, runStatus, ackVars, pc, localVars, liveVars,
                 clock, faults>>

(* The newest acknowledged row of a file, buffered or not. *)
Acknowledged(f) == IF fileBuf[f] # "none" THEN fileBuf[f] ELSE fileStatus[f]

RecordFile(f, status) ==
  IF wait THEN fileStatus' = [fileStatus EXCEPT ![f] = status] /\ UNCHANGED fileBuf
          ELSE fileBuf' = [fileBuf EXCEPT ![f] = status] /\ UNCHANGED fileStatus

-----------------------------------------------------------------------------
(* store_orders of `continuous`: the stamp first, the row later. *)

LiveBegin(k) ==
  /\ lives < MaxLive /\ liveStamp[k] = NoTime
  /\ lives' = lives + 1 /\ clock' = clock + 1
  /\ liveStamp' = [liveStamp EXCEPT ![k] = clock']
  /\ UNCHANGED <<wait, orderVars, fileVars, runStatus, ackVars, pc, localVars,
                 faults>>

LiveStore(k) ==
  /\ liveStamp[k] # NoTime
  /\ InsertOrders([o \in Keys |-> IF o # k THEN NoOrder
                     ELSE [variant |-> LiveVariant[k], source |-> "api",
                           at |-> liveStamp[k]]])
  /\ liveStamp' = [liveStamp EXCEPT ![k] = NoTime]
  /\ UNCHANGED <<wait, fileVars, runStatus, ackVars, pc, localVars, lives,
                 clock, faults>>

-----------------------------------------------------------------------------
(* The control of a run.  A call returns, or raises with or without its    *)
(* effect.                                                                 *)

Fault == faults < MaxFaults /\ faults' = faults + 1

Returns(then) == pc' = then /\ UNCHANGED faults
Raises(handler) == pc' = handler /\ Fault

(* After an effect: the call may raise although it was carried out. *)
Acknowledges(then, handler) == Returns(then) \/ Raises(handler)

ClearBatch == taken' = {} /\ refused' = {} /\ stamp' = NoTime /\ todo' = {}

KeepBatch == UNCHANGED <<taken, refused, stamp, todo>>

storeVars == <<wait, orderVars, fileVars, runStatus, ackVars, liveVars>>

(* import-export, at first or after a run that failed. *)
Resume ==
  /\ pc = "idle"
  /\ pc' = "running"
  /\ UNCHANGED <<storeVars, localVars, clock, faults>>

(* The row "running" is inserted outside of both try blocks. *)
RecordRunning ==
  /\ pc = "running"
  /\ \/ runStatus' = "running" /\ Acknowledges("select", "idle")
     \/ UNCHANGED runStatus /\ Raises("idle")
  /\ file' = IF pc' = "select" THEN 1 ELSE 0
  /\ UNCHANGED <<wait, orderVars, fileVars, ackVars, liveVars, batch,
                 todo, taken, refused, stamp, clock>>

Batches(f) == Bundle[f].batches
Current == Batches(file)[batch]
RowsOf(seq) == {seq[i] : i \in DOMAIN seq}
OrdersFile(f) == Bundle[f].dataset = "orders"

(* A mutated resume: any row of the file counts. *)
FileRecorded(f) == fileStatus[f] # "none"

ImportFileDone(f) == fileStatus[f] = "complete"

(* The next file: skipped, or inspected and begun.  A query that raises or *)
(* a damaged file ends the run and leaves no row of the file.              *)
SelectFile ==
  /\ pc = "select" /\ file <= Len(Bundle)
  /\ \/ /\ ImportFileDone(file)
        /\ file' = file + 1 /\ UNCHANGED <<pc, batch, faults>>
     \/ /\ ~ImportFileDone(file)
        /\ Returns(IF Batches(file) = <<>> THEN "complete" ELSE "normalize")
        /\ batch' = 1 /\ UNCHANGED file
     \/ Raises("run_failed") /\ UNCHANGED <<file, batch>>
  /\ UNCHANGED <<storeVars, todo, taken, refused, stamp, clock>>

EndOfBundle ==
  /\ pc = "select" /\ file > Len(Bundle)
  /\ Returns("run_complete")
  /\ UNCHANGED <<storeVars, localVars, clock>>

-----------------------------------------------------------------------------
(* One batch: normalize_export_rows, then the inserts of import_rows. *)

(* A mutated normalisation: the row that was rejected is taken as well. *)
HashedWithRejected == IF OrdersFile(file) THEN DOMAIN Current ELSE {}

(* The rows that need order_immutable_hash: orders that are not rejected.  *)
Hashed ==
  {i \in DOMAIN Current : OrdersFile(file) /\ Current[i].variant # Malformed}

(* iter_rows reads the next batch, and now is taken before any hash.       *)
BeginBatch ==
  /\ pc = "normalize"
  /\ \/ /\ todo' = Hashed
        /\ IF todo' = {}
             THEN Returns("raw") /\ UNCHANGED <<clock, stamp>>
             ELSE /\ Returns("order_hash")
                  /\ clock' = clock + 1 /\ stamp' = clock'
     \/ Raises("failed") /\ UNCHANGED <<clock, stamp, todo>>
  /\ UNCHANGED <<wait, orderVars, fileVars, runStatus, ackVars, liveVars, file,
                 batch, taken, refused>>

IsNew(k) == orders[k] = NoOrder

(* A mutated check: any order that exists is a duplicate. *)
MismatchIsDuplicate(k, v) == FALSE

Mismatch(k, v) == orders[k] # NoOrder /\ orders[k].variant # v

(* order_immutable_hash, one query per row, in the order of the batch.     *)
OrderHash ==
  /\ pc = "order_hash"
  /\ \/ \E i \in todo :
          LET row == Current[i]
          IN /\ \A j \in todo : i <= j
             /\ taken' = IF IsNew(row.key)
                           THEN {r \in taken : r.key # row.key} \cup {row} ELSE taken
             /\ refused' = IF Mismatch(row.key, row.variant)
                             THEN refused \cup {row} ELSE refused
             /\ todo' = todo \ {i}
             /\ Returns(IF todo' = {} THEN "raw" ELSE "order_hash")
             /\ UNCHANGED stamp
     \/ ClearBatch /\ Raises("failed")
  /\ UNCHANGED <<storeVars, file, batch, clock>>

(* An insert of import_rows: on, or out of the batch. *)
OnOrFailed == IF pc' = "failed" THEN ClearBatch ELSE KeepBatch

InsertRawRows ==
  /\ pc = "raw"
  /\ \/ /\ raw' = raw \cup ({Bundle[file].dataset} \X RowsOf(Current))
        /\ Acknowledges("table_rows", "failed")
     \/ UNCHANGED raw /\ Raises("failed")
  /\ OnOrFailed
  /\ UNCHANGED <<wait, orderVars, fileVars, runStatus, others, conflicts,
                 queued, liveVars,
                 file, batch, clock>>

(* A mutated clock: now is taken when the rows are inserted. *)
ObservedAtInsert == clock + 1

ObservedAt == stamp

TakenOrders ==
  [k \in Keys |->
     IF ~Taken(k) THEN NoOrder
     ELSE [variant |-> (CHOOSE row \in taken : row.key = k).variant,
           source |-> "export", at |-> ObservedAt]]

(* The rows of another dataset are taken as they are. *)
TakenOthers == {r \in RowsOf(Current) : r.variant # Malformed}

InsertTableRows ==
  /\ pc = "table_rows"
  /\ \/ /\ IF OrdersFile(file)
             THEN InsertOrders(TakenOrders) /\ UNCHANGED others
             ELSE others' = others \cup TakenOthers /\ UNCHANGED orderVars
        /\ Acknowledges("conflicts", "failed")
     \/ UNCHANGED <<orderVars, others>> /\ Raises("failed")
  /\ refused' = IF pc' = "failed" THEN {} ELSE refused
  /\ taken' = {} /\ stamp' = NoTime /\ todo' = {}
  /\ UNCHANGED <<wait, fileVars, runStatus, raw, conflicts, queued, liveVars,
                 file, batch, clock>>

(* A mutated loop: the last batch is left out. *)
AfterBatchButLast == IF batch + 1 < Len(Batches(file)) THEN "normalize" ELSE "complete"

AfterBatch == IF batch < Len(Batches(file)) THEN "normalize" ELSE "complete"

AfterInserts == IF Enqueue /\ OrdersFile(file) THEN "enqueue" ELSE AfterBatch

InsertConflicts ==
  /\ pc = "conflicts"
  /\ \/ conflicts' = conflicts \cup refused /\ Acknowledges(AfterInserts, "failed")
     \/ UNCHANGED conflicts /\ Raises("failed")
  /\ ClearBatch
  /\ batch' = IF pc' = "normalize" THEN batch + 1 ELSE batch
  /\ UNCHANGED <<wait, orderVars, fileVars, runStatus, raw, others, queued,
                 liveVars, file, clock>>

(* enqueue_work, one call per row; a call that raises ends it midway. *)
EnqueueRows ==
  /\ pc = "enqueue"
  /\ \/ /\ queued' = queued \cup {r.key : r \in RowsOf(Current)}
        /\ Returns(AfterBatch)
     \/ /\ \E n \in 0 .. Len(Current) :
             queued' = queued \cup {Current[i].key : i \in 1 .. n}
        /\ Raises("failed")
  /\ batch' = IF pc' = "normalize" THEN batch + 1 ELSE batch
  /\ UNCHANGED <<wait, orderVars, fileVars, runStatus, raw, others, conflicts,
                 liveVars, file, todo, taken, refused, stamp, clock>>

-----------------------------------------------------------------------------
(* The end of a file and of a run. *)

RecordFileComplete ==
  /\ pc = "complete"
  /\ \/ RecordFile(file, "complete") /\ Acknowledges("select", "failed")
     \/ UNCHANGED fileVars /\ Raises("failed")
  /\ file' = IF pc' = "select" THEN file + 1 ELSE file
  /\ batch' = 0
  /\ UNCHANGED <<wait, orderVars, runStatus, ackVars, liveVars, todo,
                 taken, refused, stamp, clock>>

(* The inner except: the row "failed", and raise. *)
RecordFileFailed ==
  /\ pc = "failed"
  /\ pc' = "run_failed"
  /\ \/ RecordFile(file, "failed") /\ UNCHANGED faults
     \/ UNCHANGED fileVars /\ Fault
  /\ file' = 0 /\ batch' = 0
  /\ UNCHANGED <<wait, orderVars, runStatus, ackVars, liveVars, todo,
                 taken, refused, stamp, clock>>

(* Both run records end the command when they return; "complete" is still  *)
(* inside of the outer try.                                                *)
RecordRunComplete ==
  /\ pc = "run_complete"
  /\ \/ runStatus' = "complete" /\ Acknowledges("done", "run_failed")
     \/ UNCHANGED runStatus /\ Raises("run_failed")
  /\ file' = 0 /\ batch' = 0
  /\ UNCHANGED <<wait, orderVars, fileVars, ackVars, liveVars, todo,
                 taken, refused, stamp, clock>>

RecordRunFailed ==
  /\ pc = "run_failed"
  /\ pc' = "idle"
  /\ \/ runStatus' = "failed" /\ UNCHANGED faults
     \/ UNCHANGED runStatus /\ Fault
  /\ file' = 0 /\ batch' = 0
  /\ UNCHANGED <<wait, orderVars, fileVars, ackVars, liveVars, todo,
                 taken, refused, stamp, clock>>

Crash ==
  /\ pc \notin {"idle", "done"}
  /\ Fault
  /\ pc' = "idle" /\ file' = 0 /\ batch' = 0
  /\ ClearBatch
  /\ UNCHANGED <<storeVars, clock>>

RunStep ==
  \/ RecordRunning \/ SelectFile \/ EndOfBundle \/ BeginBatch \/ OrderHash
  \/ InsertRawRows \/ InsertTableRows \/ InsertConflicts \/ EnqueueRows
  \/ RecordFileComplete \/ RecordFileFailed \/ RecordRunComplete \/ RecordRunFailed

Next ==
  /\ \/ Resume \/ RunStep \/ Crash
     \/ FlushOrders \/ FlushFiles
     \/ \E k \in LiveKeys : LiveBegin(k) \/ LiveStore(k)
  /\ Settle

(* The command runs on until it ends, the operator repeats it after a      *)
(* failure, the buffers are flushed, a store that is under way ends.       *)
Fairness ==
  /\ WF_vars((RunStep \/ Resume) /\ Settle)
  /\ WF_vars(FlushOrders /\ Settle) /\ WF_vars(FlushFiles /\ Settle)
  /\ \A k \in LiveKeys : WF_vars(LiveStore(k) /\ Settle)

Spec == Init /\ [][Next]_vars /\ Fairness

-----------------------------------------------------------------------------
(* Properties. *)

Whole(f) == Acknowledged(f) = "complete"

RowsIn(f) == UNION {RowsOf(Batches(f)[b]) : b \in DOMAIN Batches(f)}

(* Every row of the file was acknowledged: the raw row, the row of its     *)
(* dataset unless it was rejected, an order under its key, and its work    *)
(* item if asked for.                                                      *)
Stored(f) ==
  \A row \in RowsIn(f) :
    /\ <<Bundle[f].dataset, row>> \in raw
    /\ row.variant # Malformed =>
         IF OrdersFile(f)
           THEN orders[row.key] # NoOrder \/ orderBuf[row.key] # NoOrder
           ELSE row \in others
    /\ Enqueue /\ OrdersFile(f) => row.key \in queued

(* What is recorded as complete, a file or a run, was stored.  It takes a  *)
(* batch that failed, a record that was written and raised, or a resume    *)
(* that skips too much to break it (export_import.py:44-87).               *)
CompletedImportIsStored ==
  \A f \in Files : Whole(f) \/ runStatus = "complete" => Stored(f)

(* With inserts that wait, of an order that only the bundle has every      *)
(* variant in a complete file is the stored one or is quarantined,         *)
(* whichever run and whichever file came first (adapters.py:121-140): a    *)
(* batch that contradicts itself excepted, whose last row is stored.       *)
MismatchQuarantined ==
  wait => \A f \in Files : Whole(f) /\ OrdersFile(f) =>
    \A row \in RowsIn(f) :
      row.variant # Malformed /\ row.key \notin LiveKeys =>
        orders[row.key].variant = row.variant \/ row \in conflicts

(* An import never changes a settled order: not one that it could read,    *)
(* and not one that `continuous` observed later than the batch, however    *)
(* the two inserts and the flushes are ordered (adapters.py:115,           *)
(* README.md:250).                                                         *)
SettledOrderIsKept ==
  [][\A k \in settled : orders'[k].variant # orders[k].variant
                           => orders'[k].source = "api"]_vars

(* Repeating the command after failures ends with a complete run, and with *)
(* every order of the bundle in the table.                                 *)
ImportConverges ==
  <>[](runStatus = "complete" /\ \A f \in Files : Stored(f)
       /\ orderBuf = [k \in Keys |-> NoOrder])

=============================================================================
