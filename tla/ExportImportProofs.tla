-------------------------- MODULE ExportImportProofs -------------------------
(***************************************************************************)
(* Theorems about ExportImport for every bundle, either setting of the     *)
(* inserts and every bound on faults and live stores.  The fairness of     *)
(* Spec is not used.                                                       *)
(***************************************************************************)
EXTENDS ExportImport, TLAPS

-----------------------------------------------------------------------------
(* The bundle. *)

LEMMA BundleTypes ==
  /\ Len(Bundle) \in Nat /\ Files = 1 .. Len(Bundle)
  /\ \A f \in Files :
       /\ Bundle[f].dataset \in Datasets
       /\ Batches(f) \in Seq(Seq(Rows))
       /\ Len(Batches(f)) \in Nat /\ DOMAIN Batches(f) = 1 .. Len(Batches(f))
       /\ \A b \in DOMAIN Batches(f) : Batches(f)[b] \in Seq(Rows)
<1>1. Bundle \in Seq([dataset : Datasets, batches : Seq(Seq(Rows))])
  BY ImportParameters
<1>2. Len(Bundle) \in Nat /\ Files = 1 .. Len(Bundle)
  BY <1>1 DEF Files
<1>3. ASSUME NEW f \in Files
      PROVE  /\ Bundle[f].dataset \in Datasets
             /\ Batches(f) \in Seq(Seq(Rows))
  <2>1. ASSUME NEW T, NEW s \in Seq(T), NEW i \in DOMAIN s
        PROVE  s[i] \in T
    OBVIOUS
  <2>2. Bundle[f] \in [dataset : Datasets, batches : Seq(Seq(Rows))]
    BY <1>1, <2>1, Zenon DEF Files
  <2> QED
    BY <2>2 DEF Batches
<1>4. ASSUME NEW s \in Seq(Seq(Rows))
      PROVE  /\ Len(s) \in Nat /\ DOMAIN s = 1 .. Len(s)
             /\ \A b \in DOMAIN s : s[b] \in Seq(Rows)
  OBVIOUS
<1> QED
  BY <1>2, <1>3, <1>4

LEMMA RowTypes ==
  ASSUME NEW f \in Files, NEW b \in DOMAIN Batches(f)
  PROVE  /\ Batches(f)[b] \in Seq(Rows)
         /\ \A i \in DOMAIN Batches(f)[b] : Batches(f)[b][i] \in Rows
         /\ RowsOf(Batches(f)[b]) \subseteq Rows
<1>1. Batches(f)[b] \in Seq(Rows)
  BY BundleTypes
<1>2. ASSUME NEW s \in Seq(Rows)
      PROVE  \A i \in DOMAIN s : s[i] \in Rows
  OBVIOUS
<1>3. \A i \in DOMAIN Batches(f)[b] : Batches(f)[b][i] \in Rows
  BY <1>1, <1>2
<1> QED
  BY <1>1, <1>3 DEF RowsOf

-----------------------------------------------------------------------------
(* Rows of orders: a row that is there is newer than one that is not.      *)

OrderOrNone == OrderRow \cup {NoOrder}

LEMMA OrderTypes ==
  /\ NoOrder.at = 0 /\ NoOrder.source = "none" /\ NoOrder.variant = Malformed
  /\ \A r \in OrderRow :
       /\ r.at \in Nat \ {0} /\ r # NoOrder
       /\ r.variant \in Variants /\ r.source \in {"export", "api"}
BY DEF OrderRow, NoOrder, NoTime

LEMMA NewestTypes ==
  ASSUME NEW old \in OrderOrNone, NEW new \in OrderOrNone
  PROVE  /\ Newest(old, new) \in OrderOrNone
         /\ old # NoOrder \/ new # NoOrder => Newest(old, new) # NoOrder
         /\ Newest(old, NoOrder) = old
         /\ Newest(NoOrder, new) = new
<1> USE DEF OrderOrNone
<1>1. old.at \in Nat /\ new.at \in Nat /\ NoOrder.at = 0
  BY OrderTypes
<1>2. /\ old.at = 0 <=> old = NoOrder
      /\ new.at = 0 <=> new = NoOrder
  BY OrderTypes
<1> QED
  BY <1>1, <1>2 DEF Newest

LEMMA MergedTypes ==
  ASSUME NEW old \in [Keys -> OrderOrNone], NEW new \in [Keys -> OrderOrNone]
  PROVE  /\ Merged(old, new) \in [Keys -> OrderOrNone]
         /\ \A k \in Keys :
              /\ Merged(old, new)[k] = Newest(old[k], new[k])
              /\ old[k] # NoOrder \/ new[k] # NoOrder => Merged(old, new)[k] # NoOrder
              /\ new[k] = NoOrder => Merged(old, new)[k] = old[k]
BY NewestTypes DEF Merged

-----------------------------------------------------------------------------
(* The type invariant.                                                     *)

InBatch == {"normalize", "order_hash", "raw", "table_rows", "conflicts", "enqueue"}

Hashing == {"order_hash", "raw", "table_rows"}

(* Between two calls `file` and `batch` are of the bundle, a batch holds   *)
(* rows, one of each order and stamped, only until they are inserted, and  *)
(* inserts that wait leave the buffers empty.                              *)
LocalsOK ==
  /\ pc \in InBatch => file \in Files /\ batch \in DOMAIN Batches(file)
  /\ pc \in {"complete", "failed"} => file \in Files
  /\ pc = "select" => file \in 1 .. Len(Bundle) + 1
  /\ pc \notin Hashing => taken = {}
  /\ pc = "order_hash" => todo \subseteq Hashed
  /\ pc # "order_hash" => todo = {}
  /\ pc = "order_hash" \/ taken # {} => stamp # NoTime
  /\ \A r, s \in taken : r.key = s.key => r = s
  /\ wait => orderBuf = [k \in Keys |-> NoOrder] /\ fileBuf = [f \in Files |-> "none"]

TypeInv == TypeOK /\ LocalsOK

LEMMA TypeInit == Init => TypeInv
<1> SUFFICES ASSUME Init PROVE TypeInv
  OBVIOUS
<1>1. TypeOK
  BY BundleTypes, ImportParameters
     DEF Init, TypeOK, FileStates, PCs, NoTime
<1>2. LocalsOK
  BY DEF Init, LocalsOK, InBatch, Hashing
<1> QED
  BY <1>1, <1>2 DEF TypeInv

LEMMA InsertTypes ==
  ASSUME TypeInv, NEW new \in [Keys -> OrderOrNone], InsertOrders(new)
  PROVE  /\ orders' \in [Keys -> OrderOrNone] /\ orderBuf' \in [Keys -> OrderOrNone]
         /\ wait => orderBuf' = orderBuf
<1>1. orders \in [Keys -> OrderOrNone] /\ orderBuf \in [Keys -> OrderOrNone]
  BY DEF TypeInv, TypeOK, OrderOrNone
<1> QED
  BY <1>1, MergedTypes DEF InsertOrders

LEMMA RecordTypes ==
  ASSUME TypeInv, NEW f \in Files, NEW status \in FileStates, RecordFile(f, status)
  PROVE  /\ fileStatus' \in [Files -> FileStates] /\ fileBuf' \in [Files -> FileStates]
         /\ wait => fileBuf' = fileBuf
BY DEF TypeInv, TypeOK, RecordFile

LEMMA FaultTypes ==
  ASSUME TypeInv, Fault \/ UNCHANGED faults
  PROVE  faults' \in 0 .. MaxFaults
<1>1. MaxFaults \in Nat
  BY ImportParameters
<1> QED
  BY <1>1 DEF TypeInv, TypeOK, Fault

LEMMA SettleTypes ==
  ASSUME TypeInv, Settle
  PROVE  settled' \subseteq Keys
BY DEF TypeInv, TypeOK, Settle

(* The rows that may be hashed are good ones. *)
LEMMA HashedTypes ==
  ASSUME TypeInv, pc \in InBatch
  PROVE  /\ Current \in Seq(Rows) /\ RowsOf(Current) \subseteq Rows
         /\ \A i \in DOMAIN Current : i \in Nat /\ Current[i] \in Rows
         /\ \A i \in Hashed :
              /\ i \in DOMAIN Current /\ OrdersFile(file)
              /\ Current[i] \in [key : Keys, variant : Variants]
<1>1. file \in Files /\ batch \in DOMAIN Batches(file)
  BY DEF TypeInv, LocalsOK
<1>2. /\ Current \in Seq(Rows) /\ RowsOf(Current) \subseteq Rows
      /\ \A i \in DOMAIN Current : Current[i] \in Rows
  BY <1>1, RowTypes DEF Current
<1>3. \A i \in DOMAIN Current : i \in Nat
  BY <1>2
<1>4. \A i \in Hashed : i \in DOMAIN Current /\ OrdersFile(file) /\ Current[i].variant # Malformed
  BY DEF Hashed
<1>5. \A r \in Rows : r.variant # Malformed => r \in [key : Keys, variant : Variants]
  BY DEF Rows
<1> QED
  BY <1>2, <1>3, <1>4, <1>5

LEMMA TakenTypes ==
  ASSUME TypeInv, stamp # NoTime \/ taken = {}
  PROVE  /\ TakenOrders \in [Keys -> OrderOrNone]
         /\ \A k \in Keys :
              /\ Taken(k) => TakenOrders[k] # NoOrder
              /\ ~Taken(k) => TakenOrders[k] = NoOrder
         /\ \A row \in taken :
              TakenOrders[row.key] =
                [variant |-> row.variant, source |-> "export", at |-> stamp]
<1> USE DEF TypeInv, TypeOK
<1>1. ASSUME NEW k \in Keys, Taken(k)
      PROVE  /\ TakenOrders[k] \in OrderRow
             /\ \A row \in taken : row.key = k =>
                  TakenOrders[k] = [variant |-> row.variant, source |-> "export", at |-> stamp]
  <2>1. (CHOOSE row \in taken : row.key = k) \in taken
        /\ (CHOOSE row \in taken : row.key = k).key = k
    BY <1>1 DEF Taken
  <2>2. stamp \in Nat \ {NoTime}
    BY <1>1 DEF Taken, NoTime
  <2>3. PICK row \in taken : row = (CHOOSE r \in taken : r.key = k) /\ row.key = k
    BY <2>1
  <2>4. row.variant \in Variants
    OBVIOUS
  <2>5. TakenOrders[k] = [variant |-> row.variant, source |-> "export", at |-> stamp]
    BY <1>1, <2>3 DEF TakenOrders, ObservedAt
  <2>6. \A r \in taken : r.key = k => r = row
    BY <2>3 DEF LocalsOK
  <2> QED
    BY <2>2, <2>4, <2>5, <2>6 DEF OrderRow
<1>2. \A k \in Keys : ~Taken(k) => TakenOrders[k] = NoOrder
  BY DEF TakenOrders
<1>3. \A row \in taken : row.key \in Keys /\ Taken(row.key)
  BY DEF Taken
<1>4. TakenOrders = [k \in Keys |-> TakenOrders[k]]
  BY DEF TakenOrders
<1> QED
  BY <1>1, <1>2, <1>3, <1>4, OrderTypes DEF OrderOrNone

-----------------------------------------------------------------------------
(* The type invariant, action by action.                                   *)

LEMMA ServerTypes ==
  ASSUME TypeInv, Settle,
         \/ FlushOrders \/ FlushFiles
         \/ \E k \in LiveKeys : LiveBegin(k) \/ LiveStore(k)
  PROVE  TypeInv'
<1> USE DEF TypeInv, TypeOK, orderVars, fileVars, ackVars, localVars, liveVars
<1>0. settled' \subseteq Keys
  BY SettleTypes
<1>1. CASE FlushOrders
  <2>1. ~wait
    BY <1>1 DEF FlushOrders, LocalsOK
  <2>2. orders' \in [Keys -> OrderOrNone] /\ orderBuf' \in [Keys -> OrderOrNone]
    BY <1>1, MergedTypes DEF FlushOrders, OrderOrNone
  <2>3. TypeOK'
    BY <1>0, <1>1, <2>2 DEF FlushOrders, OrderOrNone
  <2>4. LocalsOK'
    BY <1>1, <2>1 DEF FlushOrders, LocalsOK, Hashed, Current, Batches, OrdersFile
  <2> QED
    BY <2>3, <2>4
<1>2. CASE FlushFiles
  <2>1. ~wait
    BY <1>2 DEF FlushFiles, LocalsOK
  <2>2. fileStatus' \in [Files -> FileStates] /\ fileBuf' \in [Files -> FileStates]
    BY <1>2 DEF FlushFiles, FileStates
  <2>3. TypeOK'
    BY <1>0, <1>2, <2>2 DEF FlushFiles
  <2>4. LocalsOK'
    BY <1>2, <2>1 DEF FlushFiles, LocalsOK, Hashed, Current, Batches, OrdersFile
  <2> QED
    BY <2>3, <2>4
<1>3. ASSUME NEW k \in LiveKeys, LiveBegin(k)
      PROVE  TypeInv'
  <2>1. lives' \in 0 .. MaxLive /\ clock' \in Nat
    BY <1>3, ImportParameters DEF LiveBegin
  <2>2. liveStamp' \in [LiveKeys -> Nat]
    BY <1>3, <2>1 DEF LiveBegin
  <2>3. TypeOK'
    BY <1>0, <1>3, <2>1, <2>2 DEF LiveBegin
  <2>4. LocalsOK'
    BY <1>3 DEF LiveBegin, LocalsOK, Hashed, Current, Batches, OrdersFile
  <2> QED
    BY <2>3, <2>4
<1>4. ASSUME NEW k \in LiveKeys, LiveStore(k)
      PROVE  TypeInv'
  <2> DEFINE new == [o \in Keys |-> IF o # k THEN NoOrder
                       ELSE [variant |-> LiveVariant[k], source |-> "api",
                             at |-> liveStamp[k]]]
  <2>1. new \in [Keys -> OrderOrNone]
    BY <1>4, ImportParameters DEF LiveStore, OrderOrNone, OrderRow, NoTime
  <2>2. InsertOrders(new)
    BY <1>4 DEF LiveStore
  <2> HIDE DEF new
  <2>3. /\ orders' \in [Keys -> OrderOrNone] /\ orderBuf' \in [Keys -> OrderOrNone]
        /\ wait => orderBuf' = orderBuf
    BY <2>1, <2>2, InsertTypes
  <2>4. liveStamp' \in [LiveKeys -> Nat]
    BY <1>4 DEF LiveStore, NoTime
  <2>5. TypeOK'
    BY <1>0, <1>4, <2>3, <2>4 DEF LiveStore, OrderOrNone
  <2>6. LocalsOK'
    BY <1>4, <2>3 DEF LiveStore, LocalsOK, Hashed, Current, Batches, OrdersFile
  <2> QED
    BY <2>5, <2>6
<1> QED
  BY <1>1, <1>2, <1>3, <1>4

(* The calls around the files. *)
LEMMA ControlTypes ==
  ASSUME TypeInv, Settle,
         \/ Resume \/ Crash \/ RecordRunning \/ SelectFile \/ EndOfBundle
         \/ RecordRunComplete \/ RecordRunFailed
  PROVE  TypeInv'
<1> USE DEF TypeInv, TypeOK, storeVars, orderVars, fileVars, ackVars, localVars,
            liveVars
<1>0. /\ settled' \subseteq Keys
      /\ Len(Bundle) \in Nat /\ Files = 1 .. Len(Bundle)
  BY SettleTypes, BundleTypes
<1>1. CASE Resume
  BY <1>0, <1>1 DEF Resume, PCs, LocalsOK, InBatch, Hashing
<1>2. CASE Crash
  <2>1. faults' \in 0 .. MaxFaults
    BY <1>2, FaultTypes DEF Crash
  <2> QED
    BY <1>0, <1>2, <2>1 DEF Crash, ClearBatch, PCs, NoTime, LocalsOK, InBatch, Hashing
<1>3. CASE RecordRunning
  <2>1. faults' \in 0 .. MaxFaults /\ pc' \in {"select", "idle"}
    BY <1>3, FaultTypes DEF RecordRunning, Acknowledges, Returns, Raises
  <2> QED
    BY <1>0, <1>3, <2>1 DEF RecordRunning, PCs, LocalsOK, InBatch, Hashing
<1>4. CASE SelectFile
  <2>1. file \in Files /\ taken = {} /\ todo = {}
    BY <1>0, <1>4 DEF SelectFile, LocalsOK, Hashing
  <2>2. CASE file' = file + 1 /\ UNCHANGED <<pc, batch, faults>>
    BY <1>0, <1>4, <2>1, <2>2 DEF SelectFile, LocalsOK, InBatch, Hashing
  <2>3. CASE /\ Returns(IF Batches(file) = <<>> THEN "complete" ELSE "normalize")
             /\ batch' = 1 /\ UNCHANGED file
    <3>1. Batches(file) # <<>> => 1 \in DOMAIN Batches(file)
      <4>1. ASSUME NEW s \in Seq(Seq(Rows)), s # <<>>
            PROVE  1 \in DOMAIN s
        BY <4>1
      <4> QED
        BY <2>1, <4>1, BundleTypes
    <3>2. Batches(file)' = Batches(file)
      BY <2>3 DEF Batches
    <3>3. pc' = "complete" \/ (pc' = "normalize" /\ 1 \in DOMAIN Batches(file))
      BY <2>3, <3>1 DEF Returns
    <3> QED
      BY <1>0, <1>4, <2>1, <2>3, <3>2, <3>3
         DEF SelectFile, Returns, PCs, LocalsOK, InBatch, Hashing
  <2>4. CASE Raises("run_failed") /\ UNCHANGED <<file, batch>>
    <3>1. faults' \in 0 .. MaxFaults
      BY <2>4, FaultTypes DEF Raises
    <3> QED
      BY <1>0, <1>4, <2>1, <2>4, <3>1
         DEF SelectFile, Raises, PCs, LocalsOK, InBatch, Hashing
  <2> QED
    BY <1>4, <2>2, <2>3, <2>4 DEF SelectFile
<1>5. CASE EndOfBundle
  BY <1>0, <1>5 DEF EndOfBundle, Returns, PCs, LocalsOK, InBatch, Hashing
<1>6. CASE RecordRunComplete
  <2>1. faults' \in 0 .. MaxFaults /\ pc' \in {"done", "run_failed"}
    BY <1>6, FaultTypes DEF RecordRunComplete, Acknowledges, Returns, Raises
  <2> QED
    BY <1>0, <1>6, <2>1 DEF RecordRunComplete, PCs, LocalsOK, InBatch, Hashing
<1>7. CASE RecordRunFailed
  <2>1. faults' \in 0 .. MaxFaults
    BY <1>7, FaultTypes DEF RecordRunFailed
  <2> QED
    BY <1>0, <1>7, <2>1 DEF RecordRunFailed, PCs, LocalsOK, InBatch, Hashing
<1> QED
  BY <1>1, <1>2, <1>3, <1>4, <1>5, <1>6, <1>7

LEMMA AfterBatchTypes ==
  ASSUME TypeInv, pc \in InBatch
  PROVE  /\ file \in Files /\ batch \in DOMAIN Batches(file) /\ batch \in Nat
         /\ \/ AfterBatch = "normalize" /\ batch + 1 \in DOMAIN Batches(file)
            \/ AfterBatch = "complete" /\ \A b \in DOMAIN Batches(file) : b <= batch
<1>1. file \in Files /\ batch \in DOMAIN Batches(file) /\ batch \in Nat
  BY DEF TypeInv, TypeOK, LocalsOK
<1>2. Len(Batches(file)) \in Nat /\ DOMAIN Batches(file) = 1 .. Len(Batches(file))
  BY <1>1, BundleTypes
<1>3. CASE batch < Len(Batches(file))
  BY <1>1, <1>2, <1>3 DEF AfterBatch
<1>4. CASE ~(batch < Len(Batches(file)))
  BY <1>1, <1>2, <1>4 DEF AfterBatch
<1> QED
  BY <1>1, <1>3, <1>4

(* The calls of a batch up to its last query. *)
LEMMA NormalizeTypes ==
  ASSUME TypeInv, Settle, BeginBatch \/ OrderHash
  PROVE  TypeInv'
<1> USE DEF TypeInv, TypeOK, storeVars, orderVars, fileVars, ackVars, localVars,
            liveVars
<1>0. /\ settled' \subseteq Keys /\ faults' \in 0 .. MaxFaults
      /\ pc \in {"normalize", "order_hash"}
  BY SettleTypes, FaultTypes DEF BeginBatch, OrderHash, Returns, Raises
<1>1. /\ file \in Files /\ batch \in DOMAIN Batches(file)
      /\ UNCHANGED <<file, batch, wait, orders, orderBuf, fileStatus, fileBuf>>
  BY <1>0 DEF LocalsOK, InBatch, BeginBatch, OrderHash
<1>2. Batches(file)' = Batches(file) /\ Hashed' = Hashed
  BY <1>1 DEF Batches, Hashed, Current, OrdersFile
<1>3. \A i \in Hashed : i \in Nat /\ Current[i] \in [key : Keys, variant : Variants]
  BY <1>0, HashedTypes DEF InBatch
<1>4. wait' => /\ orderBuf' = [k \in Keys |-> NoOrder]
               /\ fileBuf' = [f \in Files |-> "none"]
  BY <1>1 DEF LocalsOK
<1>5. CASE BeginBatch
  <2>1. taken = {} /\ todo = {} /\ taken' = {} /\ clock' \in Nat
    BY <1>5 DEF BeginBatch, LocalsOK, Hashing, NoTime
  <2>2. \/ pc' = "raw" /\ todo' = {} /\ stamp' = stamp
        \/ pc' = "order_hash" /\ todo' = Hashed /\ stamp' \in Nat \ {0}
        \/ pc' = "failed" /\ todo' = {} /\ stamp' = stamp
    BY <1>5, <2>1 DEF BeginBatch, Returns, Raises
  <2>3. TypeOK'
    BY <1>0, <1>3, <1>5, <2>1, <2>2 DEF BeginBatch, PCs
  <2>4. LocalsOK'
    BY <1>0, <1>1, <1>2, <1>4, <2>1, <2>2 DEF LocalsOK, InBatch, Hashing, NoTime
  <2> QED
    BY <2>3, <2>4
<1>6. CASE OrderHash /\ ClearBatch /\ Raises("failed")
  BY <1>0, <1>1, <1>4, <1>6
     DEF OrderHash, ClearBatch, Raises, NoTime, PCs, LocalsOK, InBatch, Hashing
<1>7. CASE OrderHash /\ ~(ClearBatch /\ Raises("failed"))
  <2>1. pc = "order_hash" /\ todo \subseteq Hashed /\ stamp # NoTime
    BY <1>7 DEF OrderHash, LocalsOK
  <2>2. PICK i \in todo :
          /\ taken' = IF IsNew(Current[i].key)
                        THEN {r \in taken : r.key # Current[i].key} \cup {Current[i]}
                        ELSE taken
          /\ refused' = IF Mismatch(Current[i].key, Current[i].variant)
                          THEN refused \cup {Current[i]} ELSE refused
          /\ todo' = todo \ {i}
          /\ pc' = IF todo' = {} THEN "raw" ELSE "order_hash"
          /\ UNCHANGED stamp
    BY <1>7 DEF OrderHash, Returns
  <2>3. Current[i] \in [key : Keys, variant : Variants] /\ Current[i] \in Rows
    BY <1>3, <2>1 DEF Rows
  <2>4. /\ taken' \subseteq [key : Keys, variant : Variants]
        /\ \A r, s \in taken' : r.key = s.key => r = s
    BY <2>2, <2>3 DEF LocalsOK
  <2>5. TypeOK'
    BY <1>0, <1>7, <2>2, <2>3, <2>4 DEF OrderHash, PCs
  <2>6. LocalsOK'
    BY <1>1, <1>2, <1>4, <2>1, <2>2, <2>4 DEF LocalsOK, InBatch, Hashing
  <2> QED
    BY <2>5, <2>6
<1> QED
  BY <1>5, <1>6, <1>7

(* The inserts of a batch. *)
LEMMA BatchTypes ==
  ASSUME TypeInv, Settle,
         InsertRawRows \/ InsertTableRows \/ InsertConflicts \/ EnqueueRows
  PROVE  TypeInv'
<1> USE DEF TypeInv, TypeOK, orderVars, fileVars, ackVars, localVars, liveVars
<1>0. /\ settled' \subseteq Keys /\ faults' \in 0 .. MaxFaults
      /\ pc \in InBatch
  BY SettleTypes, FaultTypes
     DEF InsertRawRows, InsertTableRows, InsertConflicts, EnqueueRows,
         Acknowledges, Returns, Raises, InBatch
<1>1. /\ file \in Files /\ batch \in DOMAIN Batches(file) /\ todo = {}
      /\ UNCHANGED <<file, wait, fileStatus, fileBuf>>
  BY <1>0 DEF LocalsOK, InsertRawRows, InsertTableRows, InsertConflicts, EnqueueRows
<1>2. Batches(file)' = Batches(file)
  BY <1>1 DEF Batches
<1>3. RowsOf(Current) \subseteq Rows /\ \A i \in DOMAIN Current : Current[i] \in Rows
  BY <1>0, HashedTypes
<1>4. wait' => fileBuf' = [f \in Files |-> "none"]
  BY <1>1 DEF LocalsOK
<1>5. CASE InsertRawRows
  <2>1. raw' \subseteq Datasets \X Rows
    <3>1. {Bundle[file].dataset} \X RowsOf(Current) \subseteq Datasets \X Rows
      BY <1>1, <1>3, BundleTypes
    <3> QED
      BY <1>5, <3>1 DEF InsertRawRows
  <2>2. /\ pc' \in {"table_rows", "failed"}
        /\ \/ taken' = {} /\ refused' = {} /\ stamp' = NoTime /\ todo' = {}
           \/ pc' # "failed" /\ UNCHANGED <<taken, refused, stamp, todo>>
    BY <1>5 DEF InsertRawRows, Acknowledges, Returns, Raises, OnOrFailed,
                ClearBatch, KeepBatch
  <2>3. TypeOK'
    BY <1>0, <1>1, <1>5, <2>1, <2>2 DEF InsertRawRows, PCs, NoTime
  <2>4. LocalsOK'
    BY <1>1, <1>2, <1>4, <1>5, <2>2 DEF InsertRawRows, LocalsOK, InBatch, Hashing
  <2> QED
    BY <2>3, <2>4
<1>6. CASE InsertTableRows
  <2>1. pc' \in {"conflicts", "failed"}
    BY <1>6 DEF InsertTableRows, Acknowledges, Returns, Raises
  <2>2. /\ orders' \in [Keys -> OrderOrNone] /\ orderBuf' \in [Keys -> OrderOrNone]
        /\ wait => orderBuf' = orderBuf
    <3>1. TakenOrders \in [Keys -> OrderOrNone]
      BY <1>6, TakenTypes DEF LocalsOK
    <3>2. CASE InsertOrders(TakenOrders)
      BY <3>1, <3>2, InsertTypes
    <3>3. CASE UNCHANGED orderVars
      BY <3>3 DEF OrderOrNone
    <3> QED
      BY <1>6, <3>2, <3>3 DEF InsertTableRows
  <2>3. others' \subseteq Rows
    BY <1>3, <1>6 DEF InsertTableRows, TakenOthers
  <2>4. TypeOK'
    BY <1>0, <1>1, <1>6, <2>1, <2>2, <2>3
       DEF InsertTableRows, PCs, NoTime, OrderOrNone
  <2>5. LocalsOK'
    BY <1>1, <1>2, <1>4, <1>6, <2>1, <2>2
       DEF InsertTableRows, LocalsOK, InBatch, Hashing
  <2> QED
    BY <2>4, <2>5
<1>7. CASE InsertConflicts
  <2>1. pc' \in {AfterBatch, "enqueue", "failed"}
    BY <1>7 DEF InsertConflicts, AfterInserts, Acknowledges, Returns, Raises
  <2>2. \/ pc' = "normalize" /\ batch' = batch + 1 /\ batch + 1 \in DOMAIN Batches(file)
        \/ pc' \in {"complete", "enqueue", "failed"} /\ batch' = batch
    BY <1>0, <1>7, <2>1, AfterBatchTypes DEF InsertConflicts
  <2>3. TypeOK'
    BY <1>0, <1>1, <1>7, <2>2 DEF InsertConflicts, ClearBatch, PCs, NoTime
  <2>4. LocalsOK'
    BY <1>1, <1>2, <1>4, <1>7, <2>2
       DEF InsertConflicts, ClearBatch, LocalsOK, InBatch, Hashing
  <2> QED
    BY <2>3, <2>4
<1>8. CASE EnqueueRows
  <2>1. pc' \in {AfterBatch, "failed"}
    BY <1>8 DEF EnqueueRows, Returns, Raises
  <2>2. \/ pc' = "normalize" /\ batch' = batch + 1 /\ batch + 1 \in DOMAIN Batches(file)
        \/ pc' \in {"complete", "failed"} /\ batch' = batch
    BY <1>0, <1>8, <2>1, AfterBatchTypes DEF EnqueueRows
  <2>3. queued' \subseteq Keys
    <3>1. Current \in Seq(Rows) /\ Len(Current) \in Nat
      BY <1>0, HashedTypes
    <3>2. \A i \in 1 .. Len(Current) : Current[i].key \in Keys
      BY <1>3, <3>1 DEF Rows
    <3>3. \A r \in RowsOf(Current) : r.key \in Keys
      BY <1>3 DEF Rows
    <3>4. CASE queued' = queued \cup {r.key : r \in RowsOf(Current)}
      BY <3>3, <3>4
    <3>5. CASE \E n \in 0 .. Len(Current) :
                 queued' = queued \cup {Current[i].key : i \in 1 .. n}
      BY <3>1, <3>2, <3>5
    <3> QED
      BY <1>8, <3>4, <3>5 DEF EnqueueRows
  <2>4. TypeOK'
    BY <1>0, <1>1, <1>8, <2>2, <2>3 DEF EnqueueRows, PCs
  <2>5. LocalsOK'
    BY <1>1, <1>2, <1>4, <1>8, <2>2 DEF EnqueueRows, LocalsOK, InBatch, Hashing
  <2> QED
    BY <2>4, <2>5
<1> QED
  BY <1>5, <1>6, <1>7, <1>8

LEMMA FileTypes ==
  ASSUME TypeInv, Settle, RecordFileComplete \/ RecordFileFailed
  PROVE  TypeInv'
<1> USE DEF TypeInv, TypeOK, orderVars, fileVars, ackVars, localVars, liveVars
<1>0. /\ settled' \subseteq Keys /\ faults' \in 0 .. MaxFaults
      /\ file \in Files /\ taken = {} /\ todo = {}
      /\ Len(Bundle) \in Nat /\ Files = 1 .. Len(Bundle)
  BY SettleTypes, FaultTypes, BundleTypes
     DEF RecordFileComplete, RecordFileFailed, Acknowledges, Returns, Raises,
         LocalsOK, Hashing
<1>1. /\ fileStatus' \in [Files -> FileStates] /\ fileBuf' \in [Files -> FileStates]
      /\ wait => fileBuf' = fileBuf
  <2>1. CASE RecordFile(file, "complete") \/ RecordFile(file, "failed")
    BY <1>0, <2>1, RecordTypes DEF FileStates
  <2> QED
    BY <2>1 DEF RecordFileComplete, RecordFileFailed
<1>2. CASE RecordFileComplete
  <2>1. \/ pc' = "select" /\ file' = file + 1
        \/ pc' = "failed" /\ file' = file
    BY <1>2 DEF RecordFileComplete, Acknowledges, Returns, Raises
  <2>2. TypeOK'
    BY <1>0, <1>1, <1>2, <2>1 DEF RecordFileComplete, PCs
  <2>3. LocalsOK'
    BY <1>0, <1>1, <1>2, <2>1 DEF RecordFileComplete, LocalsOK, InBatch, Hashing
  <2> QED
    BY <2>2, <2>3
<1>3. CASE RecordFileFailed
  <2>1. TypeOK'
    BY <1>0, <1>1, <1>3 DEF RecordFileFailed, PCs
  <2>2. LocalsOK'
    BY <1>0, <1>1, <1>3 DEF RecordFileFailed, LocalsOK, InBatch, Hashing
  <2> QED
    BY <2>1, <2>2
<1> QED
  BY <1>2, <1>3

LEMMA TypeStep == TypeInv /\ [Next]_vars => TypeInv'
<1> SUFFICES ASSUME TypeInv, [Next]_vars PROVE TypeInv'
  OBVIOUS
<1>1. CASE UNCHANGED vars
  BY <1>1 DEF vars, orderVars, fileVars, ackVars, localVars, liveVars, TypeInv,
     TypeOK, LocalsOK, Hashed, Current, Batches, OrdersFile
<1> QED
  BY <1>1, ServerTypes, ControlTypes, NormalizeTypes, BatchTypes, FileTypes
     DEF Next, RunStep

LEMMA TypeInvariant == Spec => []TypeInv
BY TypeInit, TypeStep, PTL DEF Spec

(* The state always has its type, and a row that normalisation rejects     *)
(* never becomes an order (export_import.py, adapters.py).                 *)
THEOREM TypeCorrect == Spec => []TypeOK
<1>1. TypeInv => TypeOK
  BY DEF TypeInv
<1> QED
  BY TypeInvariant, <1>1, PTL

-----------------------------------------------------------------------------
(* What is complete was stored.                                            *)

Held(k) == orders[k] # NoOrder \/ orderBuf[k] # NoOrder

RowRaw(f, row) == <<Bundle[f].dataset, row>> \in raw

RowKept(f, row) ==
  row.variant # Malformed =>
    IF OrdersFile(f) THEN Held(row.key) ELSE row \in others

RowQueued(f, row) == Enqueue /\ OrdersFile(f) => row.key \in queued

RowStored(f, row) == RowRaw(f, row) /\ RowKept(f, row) /\ RowQueued(f, row)

BatchStored(f, b) == \A row \in RowsOf(Batches(f)[b]) : RowStored(f, row)

(* A record that says complete, in the table or in its buffer, even one    *)
(* that a later "failed" hides, and every file behind the current one.     *)
FilesStored ==
  /\ \A f \in Files :
       fileStatus[f] = "complete" \/ fileBuf[f] = "complete" => Stored(f)
  /\ runStatus = "complete" \/ pc = "run_complete" => \A f \in Files : Stored(f)
  /\ pc \in InBatch \cup {"select", "complete"} =>
       \A f \in Files : f < file => Stored(f)
  /\ pc = "complete" => Stored(file)

BatchesStored ==
  pc \in InBatch => \A b \in DOMAIN Batches(file) : b < batch => BatchStored(file, b)

(* The rows of the batch: hashed, raw, in their table.                     *)
RowsStored ==
  /\ pc \in Hashing =>
       \A i \in Hashed \ todo : Held(Current[i].key) \/ Taken(Current[i].key)
  /\ pc \in {"table_rows", "conflicts", "enqueue"} =>
       \A row \in RowsOf(Current) : RowRaw(file, row)
  /\ pc \in {"conflicts", "enqueue"} =>
       \A row \in RowsOf(Current) : RowKept(file, row)

StoredInv == FilesStored /\ BatchesStored /\ RowsStored

LEMMA StoredInit == Init => StoredInv
BY DEF Init, StoredInv, FilesStored, BatchesStored, RowsStored, InBatch, Hashing

(* Nothing that was acknowledged is lost. *)
LEMMA HeldStays ==
  ASSUME TypeInv, [Next]_vars, NEW k \in Keys, Held(k)
  PROVE  Held(k)'
<1> USE DEF Held
<1>0. orders \in [Keys -> OrderOrNone] /\ orderBuf \in [Keys -> OrderOrNone]
  BY DEF TypeInv, TypeOK, OrderOrNone
<1>1. CASE UNCHANGED orderVars
  BY <1>1 DEF orderVars
<1>2. ASSUME NEW new \in [Keys -> OrderOrNone], InsertOrders(new)
      PROVE  Held(k)'
  BY <1>0, <1>2, MergedTypes DEF InsertOrders
<1>3. CASE FlushOrders
  BY <1>0, <1>3, MergedTypes DEF FlushOrders
<1>4. ASSUME NEW o \in LiveKeys, LiveStore(o)
      PROVE  Held(k)'
  <2> DEFINE new == [x \in Keys |-> IF x # o THEN NoOrder
                       ELSE [variant |-> LiveVariant[o], source |-> "api",
                             at |-> liveStamp[o]]]
  <2>1. new \in [Keys -> OrderOrNone]
    BY <1>4, ImportParameters
       DEF LiveStore, OrderOrNone, OrderRow, NoTime, TypeInv, TypeOK
  <2>2. InsertOrders(new)
    BY <1>4 DEF LiveStore
  <2> HIDE DEF new
  <2> QED
    BY <1>2, <2>1, <2>2
<1>5. CASE InsertTableRows
  <2>1. TakenOrders \in [Keys -> OrderOrNone]
    BY TakenTypes DEF TypeInv, LocalsOK
  <2> QED
    BY <1>1, <1>2, <1>5, <2>1 DEF InsertTableRows
<1>6. CASE \/ Resume \/ Crash \/ FlushFiles \/ UNCHANGED vars
           \/ \E o \in LiveKeys : LiveBegin(o)
  BY <1>1, <1>6 DEF Resume, Crash, FlushFiles, LiveBegin, vars, storeVars
<1>7. CASE RunStep /\ ~InsertTableRows
  BY <1>1, <1>7 DEF RunStep, storeVars, RecordRunning, SelectFile, EndOfBundle,
     BeginBatch, OrderHash, InsertRawRows, InsertConflicts, EnqueueRows,
     RecordFileComplete, RecordFileFailed, RecordRunComplete, RecordRunFailed
<1> QED
  BY <1>3, <1>4, <1>5, <1>6, <1>7 DEF Next

LEMMA AckStays ==
  ASSUME TypeInv, [Next]_vars
  PROVE  /\ raw \subseteq raw' /\ others \subseteq others'
         /\ queued \subseteq queued' /\ conflicts \subseteq conflicts'
<1>1. CASE \/ Resume \/ Crash \/ FlushFiles \/ FlushOrders \/ UNCHANGED vars
           \/ \E o \in LiveKeys : LiveBegin(o) \/ LiveStore(o)
  BY <1>1 DEF Resume, Crash, FlushFiles, FlushOrders, LiveBegin, LiveStore, vars,
     storeVars, ackVars
<1>2. CASE \/ RecordRunning \/ SelectFile \/ EndOfBundle \/ BeginBatch \/ OrderHash
           \/ RecordFileComplete \/ RecordFileFailed \/ RecordRunComplete
           \/ RecordRunFailed
  BY <1>2 DEF RecordRunning, SelectFile, EndOfBundle, BeginBatch, OrderHash,
     RecordFileComplete, RecordFileFailed, RecordRunComplete, RecordRunFailed,
     storeVars, ackVars
<1>3. CASE InsertRawRows \/ InsertTableRows \/ InsertConflicts \/ EnqueueRows
  BY <1>3 DEF InsertRawRows, InsertTableRows, InsertConflicts, EnqueueRows, ackVars
<1> QED
  BY <1>1, <1>2, <1>3 DEF Next, RunStep

LEMMA StoredStays ==
  ASSUME TypeInv, [Next]_vars, NEW f \in Files
  PROVE  /\ \A row \in Rows :
              /\ RowRaw(f, row) => RowRaw(f, row)'
              /\ RowKept(f, row) => RowKept(f, row)'
              /\ RowStored(f, row) => RowStored(f, row)'
         /\ \A b \in DOMAIN Batches(f) : BatchStored(f, b) => BatchStored(f, b)'
         /\ Stored(f) => Stored(f)'
<1>1. ASSUME NEW row \in Rows
      PROVE  /\ RowRaw(f, row) => RowRaw(f, row)'
             /\ RowKept(f, row) => RowKept(f, row)'
             /\ RowQueued(f, row) => RowQueued(f, row)'
  <2>1. row.key \in Keys
    BY DEF Rows
  <2> QED
    BY <2>1, HeldStays, AckStays DEF RowRaw, RowKept, RowQueued, OrdersFile
<1>2. ASSUME NEW row \in Rows, RowStored(f, row)
      PROVE  RowStored(f, row)'
  BY <1>1, <1>2 DEF RowStored
<1>3. ASSUME NEW b \in DOMAIN Batches(f), BatchStored(f, b)
      PROVE  BatchStored(f, b)'
  <2>1. RowsOf(Batches(f)[b]) \subseteq Rows
    BY RowTypes
  <2> QED
    BY <1>2, <1>3, <2>1 DEF BatchStored, Batches
<1>4. ASSUME Stored(f)
      PROVE  Stored(f)'
  <2>1. RowsIn(f) \subseteq Rows
    BY RowTypes DEF RowsIn
  <2>2. \A row \in RowsIn(f) : RowStored(f, row)
    BY <1>4 DEF Stored, RowStored, RowRaw, RowKept, RowQueued, Held
  <2>3. \A row \in RowsIn(f) : RowStored(f, row)'
    BY <1>2, <2>1, <2>2
  <2> QED
    BY <2>3 DEF Stored, RowStored, RowRaw, RowKept, RowQueued, Held, RowsIn,
                Batches, OrdersFile
<1> QED
  BY <1>1, <1>2, <1>3, <1>4

LEMMA StoredWhole ==
  ASSUME NEW f \in Files, \A b \in DOMAIN Batches(f) : BatchStored(f, b)'
  PROVE  Stored(f)'
BY DEF Stored, RowsIn, BatchStored, RowStored, RowRaw, RowKept, RowQueued, Held,
       Batches, OrdersFile

(* What a step keeps of the batch it leaves alone. *)
LEMMA SameBatchStays ==
  ASSUME TypeInv, StoredInv, [Next]_vars, UNCHANGED <<file, batch>>,
         pc \in InBatch
  PROVE  /\ \A f \in Files : f < file => Stored(f)'
         /\ \A b \in DOMAIN Batches(file) : b < batch => BatchStored(file, b)'
         /\ RowsOf(Current)' = RowsOf(Current) /\ Hashed' = Hashed /\ Current' = Current
         /\ \A row \in RowsOf(Current) :
              /\ row \in Rows
              /\ RowRaw(file, row) => RowRaw(file, row)'
              /\ RowKept(file, row) => RowKept(file, row)'
         /\ \A i \in DOMAIN Current : Held(Current[i].key) => Held(Current[i].key)'
<1>1. file \in Files
  BY DEF TypeInv, LocalsOK
<1>2. \A f \in Files : f < file => Stored(f)'
  BY StoredStays DEF StoredInv, FilesStored
<1>3. \A b \in DOMAIN Batches(file) : b < batch => BatchStored(file, b)'
  <2>1. \A b \in DOMAIN Batches(file) : BatchStored(file, b) => BatchStored(file, b)'
    BY <1>1, StoredStays DEF Batches
  <2> QED
    BY <2>1 DEF StoredInv, BatchesStored, BatchStored, Batches, RowStored, RowRaw,
       RowKept, RowQueued, OrdersFile
<1>4. RowsOf(Current)' = RowsOf(Current) /\ Hashed' = Hashed /\ Current' = Current
  BY DEF RowsOf, Current, Batches, Hashed, OrdersFile
<1>5. ASSUME NEW row \in RowsOf(Current)
      PROVE  /\ row \in Rows
             /\ RowRaw(file, row) => RowRaw(file, row)'
             /\ RowKept(file, row) => RowKept(file, row)'
  <2>1. row \in Rows
    BY HashedTypes
  <2> QED
    BY <1>1, <2>1, StoredStays DEF RowRaw, RowKept, OrdersFile
<1>6. ASSUME NEW i \in DOMAIN Current, Held(Current[i].key)
      PROVE  Held(Current[i].key)'
  <2>1. Current[i].key \in Keys
    BY HashedTypes DEF Rows
  <2>2. Held(Current[i].key)'
    <3>1. \A k \in Keys : Held(k) => Held(k)'
      BY HeldStays
    <3> QED
      BY <1>4, <1>6, <2>1, <3>1 DEF Held
  <2> QED
    BY <2>2
<1> QED
  BY <1>2, <1>3, <1>4, <1>5, <1>6

(* Steps of others: the buffers, `continuous`. *)
LEMMA ServerStored ==
  ASSUME TypeInv, StoredInv, [Next]_vars,
         \/ FlushOrders \/ FlushFiles \/ UNCHANGED vars
         \/ \E k \in LiveKeys : LiveBegin(k) \/ LiveStore(k)
  PROVE  StoredInv'
<1> USE DEF StoredInv
<1>1. UNCHANGED <<pc, file, batch, todo, taken, runStatus>>
  BY DEF FlushOrders, FlushFiles, LiveBegin, LiveStore, vars, localVars
<1>2. \A f \in Files :
        fileStatus'[f] = "complete" \/ fileBuf'[f] = "complete" =>
          fileStatus[f] = "complete" \/ fileBuf[f] = "complete"
  BY DEF FlushOrders, FlushFiles, LiveBegin, LiveStore, vars, fileVars
<1>3. \A f \in Files : Stored(f) => Stored(f)'
  BY StoredStays
<1>4. FilesStored'
  <2>1. pc = "complete" => file \in Files
    BY DEF TypeInv, LocalsOK
  <2>2. ASSUME pc = "complete"
        PROVE  Stored(file)'
    BY <1>1, <1>3, <2>1, <2>2 DEF FilesStored
  <2>3. ASSUME NEW f \in Files, f < file, pc \in InBatch \cup {"select", "complete"}
        PROVE  Stored(f)'
    BY <1>3, <2>3 DEF FilesStored
  <2> QED
    BY <1>1, <1>2, <1>3, <2>2, <2>3 DEF FilesStored
<1>5. CASE pc \in InBatch
  <2>1. BatchesStored'
    BY <1>1, <1>5, SameBatchStays DEF BatchesStored, Batches
  <2>2. \A k : Taken(k)' = Taken(k)
    BY <1>1 DEF Taken
  <2>3. ASSUME pc \in Hashing, NEW i \in Hashed \ todo
        PROVE  Held(Current[i].key)' \/ Taken(Current[i].key)'
    <3>1. i \in DOMAIN Current
      BY DEF Hashed
    <3> QED
      BY <1>1, <1>5, <2>2, <2>3, <3>1, SameBatchStays DEF RowsStored
  <2>4. ASSUME NEW row \in RowsOf(Current)
        PROVE  /\ pc \in {"table_rows", "conflicts", "enqueue"} => RowRaw(file, row)'
               /\ pc \in {"conflicts", "enqueue"} => RowKept(file, row)'
    BY <1>1, <1>5, SameBatchStays DEF RowsStored
  <2>5. /\ RowsOf(Current)' = RowsOf(Current) /\ Hashed' = Hashed
        /\ Current' = Current
    BY <1>1, <1>5, SameBatchStays
  <2>6. RowsStored'
    BY <1>1, <2>3, <2>4, <2>5 DEF RowsStored
  <2> QED
    BY <1>4, <2>1, <2>6
<1>6. CASE pc \notin InBatch
  BY <1>1, <1>4, <1>6 DEF BatchesStored, RowsStored, InBatch, Hashing
<1> QED
  BY <1>5, <1>6

LEMMA ControlStored ==
  ASSUME TypeInv, StoredInv, [Next]_vars,
         \/ Resume \/ Crash \/ RecordRunning \/ SelectFile \/ EndOfBundle
         \/ RecordRunComplete \/ RecordRunFailed
  PROVE  StoredInv'
<1> USE DEF StoredInv
<1>0. Len(Bundle) \in Nat /\ Files = 1 .. Len(Bundle)
  BY BundleTypes
<1>1. \A f \in Files : Stored(f) => Stored(f)'
  BY StoredStays
<1>2. UNCHANGED fileVars
  BY DEF Resume, Crash, RecordRunning, SelectFile, EndOfBundle,
     RecordRunComplete, RecordRunFailed, storeVars
<1>3. \A f \in Files :
        fileStatus'[f] = "complete" \/ fileBuf'[f] = "complete" => Stored(f)'
  BY <1>1, <1>2 DEF FilesStored, fileVars
<1>4. CASE Resume \/ Crash \/ RecordRunFailed
  <2>1. pc' \in {"running", "idle"} /\ (runStatus' = "complete" => runStatus = "complete")
    BY <1>4 DEF Resume, Crash, RecordRunFailed, storeVars
  <2> QED
    BY <1>1, <1>3, <2>1
       DEF FilesStored, BatchesStored, RowsStored, InBatch, Hashing
<1>5. CASE RecordRunning
  <2>1. /\ pc' = "idle" \/ (pc' = "select" /\ file' = 1)
        /\ runStatus' = "complete" => runStatus = "complete"
    <3>1. pc' \in {"idle", "select"} /\ (runStatus' = "running" \/ runStatus' = runStatus)
      BY <1>5 DEF RecordRunning, Acknowledges, Returns, Raises
    <3>2. file' = IF pc' = "select" THEN 1 ELSE 0
      BY <1>5 DEF RecordRunning
    <3>3. runStatus' = "complete" => runStatus = "complete"
      BY <3>1
    <3> QED
      BY <3>1, <3>2, <3>3
  <2> QED
    BY <1>0, <1>1, <1>3, <2>1
       DEF FilesStored, BatchesStored, RowsStored, InBatch, Hashing
<1>6. CASE SelectFile
  <2>1. pc = "select" /\ file \in Files /\ runStatus' = runStatus
    BY <1>0, <1>6 DEF SelectFile, TypeInv, LocalsOK, storeVars
  <2>2. CASE ImportFileDone(file) /\ file' = file + 1 /\ pc' = pc
    <3>1. \A f \in Files : f < file' => f < file \/ f = file
      BY <1>0, <2>1, <2>2
    <3>2. Stored(file)
      BY <2>1, <2>2 DEF ImportFileDone, FilesStored
    <3>3. \A f \in Files : f < file' => Stored(f)'
      BY <1>1, <2>1, <3>1, <3>2 DEF FilesStored
    <3> QED
      BY <1>1, <1>3, <2>1, <2>2, <3>3
         DEF FilesStored, BatchesStored, RowsStored, InBatch, Hashing
  <2>3. CASE Raises("run_failed")
    BY <1>1, <1>3, <2>1, <2>3
       DEF Raises, FilesStored, BatchesStored, RowsStored, InBatch, Hashing
  <2>4. CASE /\ Returns(IF Batches(file) = <<>> THEN "complete" ELSE "normalize")
             /\ batch' = 1 /\ file' = file
    <3>1. \A f \in Files : f < file' => Stored(f)'
      BY <1>1, <2>1, <2>4 DEF FilesStored
    <3>2. CASE Batches(file) = <<>>
      <4>1. PICK f \in Files : f = file
        BY <2>1
      <4>2. \A b \in DOMAIN Batches(f) : FALSE
        <5>1. DOMAIN Batches(f) = 1 .. Len(Batches(f)) /\ Len(<<>>) = 0
          BY BundleTypes
        <5> QED
          BY <3>2, <4>1, <5>1
      <4>3. Stored(f)'
        BY <4>2, StoredWhole
      <4>4. Stored(file)'
        BY <2>4, <4>1, <4>3
      <4> QED
        BY <1>1, <1>3, <2>1, <2>4, <3>1, <3>2, <4>4
           DEF Returns, FilesStored, BatchesStored, RowsStored, InBatch, Hashing
    <3>3. CASE Batches(file) # <<>>
      <4>1. \A b \in DOMAIN Batches(file)' : ~(b < batch')
        <5>1. DOMAIN Batches(file)' = 1 .. Len(Batches(file)) /\ Len(Batches(file)) \in Nat
          BY <2>1, <2>4, BundleTypes DEF Batches
        <5> QED
          BY <2>4, <5>1
      <4> QED
        BY <1>1, <1>3, <2>1, <2>4, <3>1, <3>3, <4>1
           DEF Returns, FilesStored, BatchesStored, RowsStored, InBatch, Hashing
    <3> QED
      BY <3>2, <3>3
  <2> QED
    BY <1>6, <2>2, <2>3, <2>4 DEF SelectFile
<1>7. CASE EndOfBundle
  <2>1. pc = "select" /\ pc' = "run_complete" /\ file \in 1 .. Len(Bundle) + 1
    BY <1>7 DEF EndOfBundle, Returns, TypeInv, LocalsOK
  <2>2. \A f \in Files : f < file
    BY <1>0, <1>7, <2>1 DEF EndOfBundle
  <2>3. \A f \in Files : Stored(f)'
    BY <1>1, <2>1, <2>2 DEF FilesStored
  <2> QED
    BY <2>1, <2>3 DEF FilesStored, BatchesStored, RowsStored, InBatch, Hashing
<1>8. CASE RecordRunComplete
  <2>1. pc = "run_complete" /\ pc' \in {"done", "run_failed"}
    BY <1>8 DEF RecordRunComplete, Acknowledges, Returns, Raises
  <2> QED
    BY <1>1, <2>1 DEF FilesStored, BatchesStored, RowsStored, InBatch, Hashing
<1> QED
  BY <1>4, <1>5, <1>6, <1>7, <1>8

(* What no step inside of a file changes. *)
LEMMA FilesStay ==
  ASSUME TypeInv, StoredInv, [Next]_vars, pc \in InBatch,
         UNCHANGED <<file, fileVars, runStatus>>,
         pc' \in InBatch \cup {"failed"}
  PROVE  FilesStored'
<1>1. \A f \in Files : Stored(f) => Stored(f)'
  BY StoredStays
<1>2. pc' \notin {"complete", "run_complete", "select"}
  BY DEF InBatch
<1> QED
  BY <1>1, <1>2 DEF StoredInv, FilesStored, fileVars

LEMMA NormalizeStored ==
  ASSUME TypeInv, StoredInv, [Next]_vars, BeginBatch \/ OrderHash
  PROVE  StoredInv'
<1> USE DEF StoredInv
<1>1. /\ pc \in InBatch /\ pc' \in {"raw", "order_hash", "failed"}
      /\ UNCHANGED <<file, batch, fileVars, runStatus, orderVars>>
  BY DEF BeginBatch, OrderHash, Returns, Raises, InBatch, storeVars
<1>2. FilesStored'
  BY <1>1, FilesStay DEF InBatch
<1>3. CASE pc' = "failed"
  BY <1>2, <1>3 DEF BatchesStored, RowsStored, InBatch, Hashing
<1>4. CASE pc' # "failed"
  <2>1. BatchesStored'
    BY <1>1, SameBatchStays DEF BatchesStored, Batches
  <2>2. /\ Hashed' = Hashed /\ Current' = Current
        /\ \A i \in DOMAIN Current : Held(Current[i].key) => Held(Current[i].key)'
    BY <1>1, SameBatchStays
  <2>3. ASSUME NEW i \in Hashed \ todo'
        PROVE  Held(Current[i].key)' \/ Taken(Current[i].key)'
    <3>0. i \in DOMAIN Current
      BY DEF Hashed
    <3>1. CASE BeginBatch
      BY <1>4, <2>3, <3>1 DEF BeginBatch, Raises
    <3>2. CASE OrderHash
      <4>1. pc = "order_hash"
        BY <3>2 DEF OrderHash
      <4>2. PICK j \in todo :
              /\ taken' = IF IsNew(Current[j].key)
                            THEN {r \in taken : r.key # Current[j].key} \cup {Current[j]}
                            ELSE taken
              /\ todo' = todo \ {j}
        BY <1>4, <3>2 DEF OrderHash, Raises
      <4>3. CASE i = j
        <5>1. IsNew(Current[j].key) => Taken(Current[j].key)'
          BY <2>2, <4>2 DEF Taken
        <5>2. ~IsNew(Current[j].key) => Held(Current[j].key)'
          BY <1>1, <2>2 DEF IsNew, Held, orderVars
        <5> QED
          BY <4>3, <5>1, <5>2
      <4>4. CASE i # j
        <5>1. Held(Current[i].key) \/ Taken(Current[i].key)
          BY <2>3, <4>1, <4>2, <4>4 DEF RowsStored, Hashing
        <5>2. Taken(Current[i].key) => Taken(Current[i].key)'
          BY <2>2, <4>2 DEF Taken
        <5> QED
          BY <2>2, <3>0, <5>1, <5>2
      <4> QED
        BY <4>3, <4>4
    <3> QED
      BY <3>1, <3>2
  <2>4. RowsStored'
    BY <1>1, <2>2, <2>3 DEF RowsStored
  <2> QED
    BY <1>2, <2>1, <2>4
<1> QED
  BY <1>3, <1>4

(* The batch becomes the last one that was stored. *)
LEMMA NextBatchStored ==
  ASSUME TypeInv, StoredInv, [Next]_vars, pc \in InBatch,
         UNCHANGED <<file, fileVars, runStatus>>,
         pc' = AfterBatch, batch' = IF pc' = "normalize" THEN batch + 1 ELSE batch,
         \A row \in RowsOf(Current) : RowStored(file, row)'
  PROVE  StoredInv'
<1>1. file \in Files /\ batch \in DOMAIN Batches(file) /\ batch \in Nat
  BY AfterBatchTypes
<1>2. PICK f \in Files : f = file
  BY <1>1
<1>3. /\ Batches(f)' = Batches(f)
      /\ DOMAIN Batches(f) \subseteq Int
  BY BundleTypes DEF Batches
<1>4. \A b \in DOMAIN Batches(f) : b < batch => BatchStored(f, b)'
  <2>1. \A b \in DOMAIN Batches(f) : BatchStored(f, b) => BatchStored(f, b)'
    BY StoredStays
  <2> QED
    BY <1>2, <2>1 DEF StoredInv, BatchesStored
<1>5. \A b \in DOMAIN Batches(f) : b = batch => BatchStored(f, b)'
  BY <1>2, <1>3 DEF BatchStored, RowsOf, Current, RowStored, RowRaw, RowKept,
                    RowQueued, OrdersFile
<1>6. \A b \in DOMAIN Batches(f) : b <= batch => BatchStored(f, b)'
  BY <1>1, <1>3, <1>4, <1>5
<1>7. \A g \in Files : Stored(g) => Stored(g)'
  BY StoredStays
<1>8. CASE AfterBatch = "normalize"
  <2>1. FilesStored'
    BY <1>8, FilesStay DEF InBatch
  <2>2. \A b \in DOMAIN Batches(f) : b < batch' => BatchStored(f, b)'
    BY <1>1, <1>3, <1>6, <1>8
  <2>3. BatchesStored'
    BY <1>2, <1>3, <2>2 DEF BatchesStored, BatchStored, Batches, RowStored, RowRaw,
       RowKept, RowQueued, OrdersFile
  <2> QED
    BY <1>8, <2>1, <2>3 DEF StoredInv, RowsStored, Hashing
<1>9. CASE AfterBatch = "complete" /\ \A b \in DOMAIN Batches(file) : b <= batch
  <2>1. Stored(f)'
    BY <1>2, <1>6, <1>9, StoredWhole
  <2>2. Stored(file)'
    BY <1>2, <2>1
  <2>3. FilesStored'
    BY <1>7, <1>9, <2>2 DEF StoredInv, FilesStored, fileVars
  <2> QED
    BY <1>9, <2>3 DEF StoredInv, BatchesStored, RowsStored, InBatch, Hashing
<1> QED
  BY <1>8, <1>9, AfterBatchTypes

LEMMA InsertStored ==
  ASSUME TypeInv, StoredInv, [Next]_vars,
         InsertRawRows \/ InsertTableRows \/ InsertConflicts \/ EnqueueRows
  PROVE  StoredInv'
<1> USE DEF StoredInv
<1>1. /\ pc \in InBatch /\ UNCHANGED <<file, fileVars, runStatus>>
      /\ pc' \in {"table_rows", "conflicts", "enqueue", "failed", AfterBatch}
  BY DEF InsertRawRows, InsertTableRows, InsertConflicts, EnqueueRows, AfterInserts,
     Acknowledges, Returns, Raises, InBatch
<1>2. file \in Files /\ todo = {}
  BY <1>1 DEF TypeInv, LocalsOK, InsertRawRows, InsertTableRows, InsertConflicts,
              EnqueueRows
<1>3. CASE pc' = "failed"
  <2>1. FilesStored'
    BY <1>1, <1>3, FilesStay
  <2> QED
    BY <1>3, <2>1 DEF BatchesStored, RowsStored, InBatch, Hashing
<1>4. CASE InsertRawRows /\ pc' = "table_rows"
  <2>1. /\ raw' = raw \cup ({Bundle[file].dataset} \X RowsOf(Current))
        /\ UNCHANGED <<batch, taken, todo>>
    BY <1>4 DEF InsertRawRows, Raises, OnOrFailed, KeepBatch
  <2>2. FilesStored'
    BY <1>1, <1>4, FilesStay DEF InBatch
  <2>3. BatchesStored'
    BY <1>1, <2>1, SameBatchStays DEF BatchesStored, Batches
  <2>4. /\ RowsOf(Current)' = RowsOf(Current) /\ Hashed' = Hashed /\ Current' = Current
        /\ \A i \in DOMAIN Current : Held(Current[i].key) => Held(Current[i].key)'
    BY <1>1, <2>1, SameBatchStays
  <2>5. \A row \in RowsOf(Current) : RowRaw(file, row)'
    BY <1>1, <2>1 DEF RowRaw
  <2>6. ASSUME NEW i \in Hashed \ todo
        PROVE  Held(Current[i].key)' \/ Taken(Current[i].key)'
    <3>1. Held(Current[i].key) \/ Taken(Current[i].key)
      BY <1>4, <2>6 DEF InsertRawRows, RowsStored, Hashing
    <3>2. Taken(Current[i].key) => Taken(Current[i].key)'
      BY <2>1, <2>4 DEF Taken
    <3>3. i \in DOMAIN Current
      BY DEF Hashed
    <3> QED
      BY <2>4, <3>1, <3>2, <3>3
  <2>7. RowsStored'
    BY <1>4, <2>1, <2>4, <2>5, <2>6 DEF RowsStored
  <2> QED
    BY <2>2, <2>3, <2>7
<1>5. CASE InsertTableRows /\ pc' = "conflicts"
  <2>1. /\ IF OrdersFile(file)
             THEN InsertOrders(TakenOrders)
             ELSE others' = others \cup TakenOthers
        /\ UNCHANGED <<batch, todo>> /\ pc = "table_rows"
    BY <1>2, <1>5 DEF InsertTableRows, Raises
  <2>2. FilesStored'
    BY <1>1, <1>5, FilesStay DEF InBatch
  <2>3. BatchesStored'
    BY <1>1, <2>1, SameBatchStays DEF BatchesStored, Batches
  <2>4. /\ RowsOf(Current)' = RowsOf(Current) /\ Hashed' = Hashed /\ Current' = Current
        /\ \A i \in DOMAIN Current : Held(Current[i].key) => Held(Current[i].key)'
        /\ \A row \in RowsOf(Current) :
             row \in Rows /\ (RowRaw(file, row) => RowRaw(file, row)')
    BY <1>1, <2>1, SameBatchStays
  <2>5. \A row \in RowsOf(Current) : RowRaw(file, row)'
    BY <2>1, <2>4 DEF RowsStored
  <2>6. ASSUME NEW row \in RowsOf(Current), row.variant # Malformed, OrdersFile(file)
        PROVE  Held(row.key)'
    <3>1. PICK i \in DOMAIN Current : row = Current[i]
      BY DEF RowsOf
    <3>2. i \in Hashed \ todo
      BY <1>2, <2>6, <3>1 DEF Hashed
    <3>3. CASE Held(row.key)
      <4>1. Held(Current[i].key)'
        BY <2>4, <3>1, <3>3
      <4>2. Current[i].key = row.key
        BY <3>1
      <4> QED
        BY <2>4, <4>1, <4>2 DEF Held
    <3>4. CASE Taken(row.key)
      <4>1. /\ TakenOrders \in [Keys -> OrderOrNone] /\ row.key \in Keys
            /\ TakenOrders[row.key] # NoOrder
        BY <2>4, <3>4, TakenTypes DEF TypeInv, LocalsOK, Rows, Taken
      <4>2. orders \in [Keys -> OrderOrNone] /\ orderBuf \in [Keys -> OrderOrNone]
        BY DEF TypeInv, TypeOK, OrderOrNone
      <4>3. InsertOrders(TakenOrders)
        BY <2>1, <2>6
      <4> QED
        BY <4>1, <4>2, <4>3, MergedTypes DEF InsertOrders, Held
    <3> QED
      BY <2>1, <3>1, <3>2, <3>3, <3>4 DEF RowsStored, Hashing
  <2>7. \A row \in RowsOf(Current) : RowKept(file, row)'
    <3>1. ASSUME NEW row \in RowsOf(Current), row.variant # Malformed, ~OrdersFile(file)
          PROVE  row \in others'
      BY <2>1, <3>1 DEF TakenOthers
    <3> QED
      BY <1>1, <2>6, <3>1 DEF RowKept, OrdersFile
  <2>8. RowsStored'
    BY <1>1, <1>5, <2>4, <2>5, <2>7 DEF RowsStored, Hashing
  <2> QED
    BY <2>2, <2>3, <2>8
<1>6. CASE InsertConflicts /\ pc' # "failed"
  <2>1. pc = "conflicts" /\ pc' = AfterInserts /\ batch' = IF pc' = "normalize" THEN batch + 1 ELSE batch
    BY <1>6 DEF InsertConflicts, Acknowledges, Returns, Raises
  <2>2. /\ raw' = raw /\ others' = others /\ queued' = queued /\ orders' = orders
        /\ orderBuf' = orderBuf
    BY <1>6 DEF InsertConflicts, orderVars
  <2>3. \A row \in RowsOf(Current) : RowRaw(file, row)' /\ RowKept(file, row)'
    BY <1>1, <2>1, <2>2 DEF RowsStored, RowRaw, RowKept, Held, OrdersFile
  <2>4. CASE Enqueue /\ OrdersFile(file)
    <3>1. pc' = "enqueue" /\ batch' = batch
      BY <2>1, <2>4 DEF AfterInserts
    <3>2. FilesStored'
      BY <1>1, <3>1, FilesStay DEF InBatch
    <3>3. BatchesStored'
      BY <1>1, <3>1, SameBatchStays DEF BatchesStored, Batches
    <3>4. RowsOf(Current)' = RowsOf(Current)
      BY <1>1, <3>1, SameBatchStays
    <3> QED
      BY <2>3, <3>1, <3>2, <3>3, <3>4 DEF RowsStored, Hashing
  <2>5. CASE ~(Enqueue /\ OrdersFile(file))
    <3>1. pc' = AfterBatch
      BY <2>1, <2>5 DEF AfterInserts
    <3>2. \A row \in RowsOf(Current) : RowStored(file, row)'
      BY <1>1, <2>3, <2>5 DEF RowStored, RowQueued, OrdersFile
    <3> QED
      BY <1>1, <2>1, <3>1, <3>2, NextBatchStored
  <2> QED
    BY <2>4, <2>5
<1>7. CASE EnqueueRows /\ pc' # "failed"
  <2>1. /\ pc = "enqueue" /\ pc' = AfterBatch
        /\ batch' = IF pc' = "normalize" THEN batch + 1 ELSE batch
        /\ queued' = queued \cup {r.key : r \in RowsOf(Current)}
    BY <1>7 DEF EnqueueRows, Returns, Raises
  <2>2. UNCHANGED <<raw, others, orders, orderBuf>>
    BY <1>7 DEF EnqueueRows, orderVars
  <2>3. \A row \in RowsOf(Current) : RowStored(file, row)'
    BY <1>1, <2>1, <2>2
       DEF RowsStored, RowStored, RowRaw, RowKept, RowQueued, Held, OrdersFile
  <2> QED
    BY <1>1, <2>1, <2>3, NextBatchStored
<1>8. pc' = "failed" \/ (InsertRawRows /\ pc' = "table_rows")
        \/ (InsertTableRows /\ pc' = "conflicts") \/ (InsertConflicts /\ pc' # "failed")
        \/ (EnqueueRows /\ pc' # "failed")
  BY DEF InsertRawRows, InsertTableRows, Acknowledges, Returns, Raises
<1> QED
  BY <1>3, <1>4, <1>5, <1>6, <1>7, <1>8

LEMMA RecordStored ==
  ASSUME TypeInv, StoredInv, [Next]_vars, RecordFileComplete \/ RecordFileFailed
  PROVE  StoredInv'
<1> USE DEF StoredInv
<1>0. /\ file \in Files /\ Files = 1 .. Len(Bundle) /\ Len(Bundle) \in Nat
      /\ runStatus' = runStatus
  BY BundleTypes DEF TypeInv, LocalsOK, RecordFileComplete, RecordFileFailed
<1>1. \A f \in Files : Stored(f) => Stored(f)'
  BY StoredStays
<1>2. ASSUME NEW status, RecordFile(file, status) \/ UNCHANGED fileVars,
             status = "complete" => Stored(file),
             NEW f \in Files, fileStatus'[f] = "complete" \/ fileBuf'[f] = "complete"
      PROVE  Stored(f)'
  <2>1. Stored(f)
    BY <1>2 DEF RecordFile, fileVars, FilesStored, TypeInv, TypeOK
  <2> QED
    BY <1>1, <2>1
<1>3. CASE RecordFileFailed
  <2>1. pc' = "run_failed"
    BY <1>3 DEF RecordFileFailed
  <2>2. ASSUME NEW f \in Files, fileStatus'[f] = "complete" \/ fileBuf'[f] = "complete"
        PROVE  Stored(f)'
    BY <1>2, <1>3, <2>2 DEF RecordFileFailed
  <2> QED
    BY <1>0, <1>1, <2>1, <2>2
       DEF FilesStored, BatchesStored, RowsStored, InBatch, Hashing
<1>4. CASE RecordFileComplete
  <2>1. /\ pc = "complete"
        /\ \/ pc' = "select" /\ file' = file + 1
           \/ pc' = "failed"
    BY <1>4 DEF RecordFileComplete, Acknowledges, Returns, Raises
  <2>2. Stored(file)
    BY <2>1 DEF FilesStored
  <2>3. ASSUME NEW f \in Files, fileStatus'[f] = "complete" \/ fileBuf'[f] = "complete"
        PROVE  Stored(f)'
    BY <1>2, <1>4, <2>2, <2>3 DEF RecordFileComplete
  <2>4. ASSUME pc' = "select", NEW f \in Files, f < file'
        PROVE  Stored(f)'
    <3>1. f < file \/ f = file
      BY <1>0, <2>1, <2>4
    <3> QED
      BY <1>1, <2>1, <2>2, <3>1 DEF FilesStored
  <2> QED
    BY <1>0, <1>1, <2>1, <2>3, <2>4
       DEF FilesStored, BatchesStored, RowsStored, InBatch, Hashing
<1> QED
  BY <1>3, <1>4

LEMMA StoredStep == TypeInv /\ StoredInv /\ [Next]_vars => StoredInv'
<1> SUFFICES ASSUME TypeInv, StoredInv, [Next]_vars PROVE StoredInv'
  OBVIOUS
<1> QED
  BY ServerStored, ControlStored, NormalizeStored, InsertStored, RecordStored
     DEF Next, RunStep

(* A file or a run is recorded as complete only when every row was stored: *)
(* raw, in its table unless it was rejected, and enqueued if asked for,    *)
(* through exceptions with or without their effect, crashes and resumes at *)
(* any call, beside the stores of `continuous` (ExportImportService.run).  *)
THEOREM CompleteIsStored == Spec => []CompletedImportIsStored
<1>1. StoredInv => CompletedImportIsStored
  BY DEF StoredInv, FilesStored, CompletedImportIsStored, Whole, Acknowledged
<1> QED
  BY TypeInvariant, StoredInit, StoredStep, <1>1, PTL DEF Spec

-----------------------------------------------------------------------------
(* A settled order is kept.                                                *)

SettledInv == \A k \in settled : OutOfReach(k)

(* Two stores of one row: the newer one stays. *)
LEMMA NewestKeeps ==
  ASSUME NEW old \in OrderOrNone, NEW new \in OrderOrNone
  PROVE  /\ Newest(old, new) \in {old, new}
         /\ Newest(old, new).at >= old.at /\ old.at \in Nat /\ new.at \in Nat
         /\ new.at < old.at => Newest(old, new) = old
         /\ Newest(old, new) # old => new # NoOrder /\ new.at >= old.at
<1>1. old.at \in Nat /\ new.at \in Nat /\ NoOrder.at = 0
  BY OrderTypes DEF OrderOrNone
<1>2. old.at = 0 => old = NoOrder
  BY OrderTypes DEF OrderOrNone
<1> QED
  BY <1>1, <1>2 DEF Newest

LEMMA OutOfReachStep ==
  ASSUME TypeInv, [Next]_vars, NEW k \in Keys, OutOfReach(k)
  PROVE  /\ OutOfReach(k)'
         /\ orders'[k] = orders[k] \/ orders'[k].source = "api"
<1> USE DEF OutOfReach
<1>0. /\ orders \in [Keys -> OrderOrNone] /\ orderBuf \in [Keys -> OrderOrNone]
      /\ orders[k] \in OrderOrNone /\ orderBuf[k] \in OrderOrNone
      /\ orders[k].at \in Nat \ {0} /\ orderBuf[k].at \in Nat /\ stamp \in Nat
  BY OrderTypes DEF TypeInv, TypeOK, OrderOrNone
<1>1. CASE /\ UNCHANGED orderVars
           /\ taken' = {} \/ (taken' \subseteq taken /\ stamp' = stamp)
  <2>1. Taken(k)' => Taken(k) /\ stamp' = stamp
    BY <1>1 DEF Taken
  <2> QED
    BY <1>1, <2>1 DEF orderVars
<1>2. ASSUME NEW new \in [Keys -> OrderOrNone], InsertOrders(new)
      PROVE  \/ orders' = orders /\ orderBuf'[k] = Newest(orderBuf[k], new[k])
             \/ orders'[k] = Newest(orders[k], new[k]) /\ orderBuf' = orderBuf
  BY <1>0, <1>2, MergedTypes DEF InsertOrders
<1>3. CASE FlushOrders
  <2>1. orders'[k] = Newest(orders[k], orderBuf[k]) /\ orderBuf'[k] = NoOrder
    BY <1>0, <1>3, MergedTypes DEF FlushOrders
  <2>2. taken' = taken /\ stamp' = stamp
    BY <1>3 DEF FlushOrders, localVars
  <2>3. /\ orders'[k] \in {orders[k], orderBuf[k]} /\ orders'[k].at >= orders[k].at
        /\ orders'[k] = orders[k] \/ (orderBuf[k] # NoOrder /\ orderBuf[k].at >= orders[k].at)
    BY <1>0, <2>1, NewestKeeps
  <2>4. orders'[k] = orders[k] \/ orders'[k].source = "api"
    BY <1>0, <2>3, OrderTypes DEF OrderOrNone
  <2>5. orders'[k] # NoOrder /\ orders'[k].at \in Nat
    BY <1>0, <2>3, OrderTypes DEF OrderOrNone
  <2>6. Taken(k)' => orders'[k].at > stamp'
    BY <1>0, <2>2, <2>3, <2>5 DEF Taken
  <2> QED
    BY <2>1, <2>4, <2>5, <2>6, OrderTypes
<1>4. ASSUME NEW o \in LiveKeys, LiveStore(o)
      PROVE  /\ OutOfReach(k)'
             /\ orders'[k] = orders[k] \/ orders'[k].source = "api"
  <2> DEFINE new == [x \in Keys |-> IF x # o THEN NoOrder
                       ELSE [variant |-> LiveVariant[o], source |-> "api",
                             at |-> liveStamp[o]]]
  <2>1. new \in [Keys -> OrderOrNone]
    BY <1>4, ImportParameters
       DEF LiveStore, OrderOrNone, OrderRow, NoTime, TypeInv, TypeOK
  <2>2. InsertOrders(new) /\ taken' = taken /\ stamp' = stamp
    BY <1>4 DEF LiveStore, localVars
  <2>3. new[k] \in OrderOrNone /\ (new[k] = NoOrder \/ new[k].source = "api")
    BY <2>1
  <2> HIDE DEF new
  <2>4. CASE orders' = orders /\ orderBuf'[k] = Newest(orderBuf[k], new[k])
    <3>1. orderBuf'[k] = orderBuf[k] \/ orderBuf'[k].source # "export"
      BY <1>0, <2>3, <2>4, NewestKeeps, OrderTypes
    <3> QED
      BY <2>2, <2>4, <3>1 DEF Taken
  <2>5. CASE orders'[k] = Newest(orders[k], new[k]) /\ orderBuf' = orderBuf
    <3>1. /\ orders'[k] \in {orders[k], new[k]} /\ orders'[k].at >= orders[k].at
          /\ orders'[k] = orders[k] \/ new[k] # NoOrder
      BY <1>0, <2>3, <2>5, NewestKeeps
    <3>2. orders'[k].at \in Nat /\ orders'[k] # NoOrder
      BY <1>0, <2>3, <3>1, OrderTypes DEF OrderOrNone
    <3> QED
      BY <1>0, <2>2, <2>3, <2>5, <3>1, <3>2 DEF Taken
  <2> QED
    BY <1>2, <2>1, <2>2, <2>4, <2>5
<1>5. CASE InsertTableRows
  <2>1. TakenOrders \in [Keys -> OrderOrNone] /\ TakenOrders[k] \in OrderOrNone
    BY TakenTypes DEF TypeInv, LocalsOK
  <2>2. taken' = {}
    BY <1>5 DEF InsertTableRows
  <2>3. TakenOrders[k] = NoOrder \/ (TakenOrders[k].at = stamp /\ Taken(k))
    <3>1. CASE Taken(k)
      <4>1. PICK row \in taken : row.key = k
        BY <3>1 DEF Taken
      <4>2. TakenOrders[row.key] =
              [variant |-> row.variant, source |-> "export", at |-> stamp]
        BY TakenTypes DEF TypeInv, LocalsOK
      <4> QED
        BY <3>1, <4>1, <4>2
    <3> QED
      BY <3>1, TakenTypes DEF TypeInv, LocalsOK
  <2>4. TakenOrders[k].at < orders[k].at
    BY <1>0, <2>3, OrderTypes
  <2>5. CASE InsertOrders(TakenOrders)
    <3>1. CASE orders' = orders /\ orderBuf'[k] = Newest(orderBuf[k], TakenOrders[k])
      <4>1. orderBuf'[k] \in {orderBuf[k], TakenOrders[k]}
        BY <1>0, <2>1, <3>1, NewestKeeps
      <4> QED
        BY <2>2, <2>4, <3>1, <4>1 DEF Taken
    <3>2. CASE orders'[k] = Newest(orders[k], TakenOrders[k]) /\ orderBuf' = orderBuf
      <4>1. orders'[k] = orders[k]
        BY <1>0, <2>1, <2>4, <3>2, NewestKeeps
      <4> QED
        BY <2>2, <3>2, <4>1 DEF Taken
    <3> QED
      BY <1>2, <2>1, <2>5, <3>1, <3>2
  <2> QED
    BY <1>1, <1>5, <2>2, <2>5 DEF InsertTableRows
<1>6. CASE OrderHash
  <2>1. CASE ClearBatch
    BY <1>1, <1>6, <2>1 DEF OrderHash, ClearBatch, storeVars
  <2>2. CASE ~ClearBatch
    <3>1. PICK i \in todo :
            /\ taken' = IF IsNew(Current[i].key)
                          THEN {r \in taken : r.key # Current[i].key} \cup {Current[i]}
                          ELSE taken
            /\ UNCHANGED stamp
      BY <1>6, <2>2 DEF OrderHash
    <3>2. Taken(k)' => Taken(k)
      BY <3>1 DEF Taken, IsNew
    <3> QED
      BY <1>6, <3>1, <3>2 DEF OrderHash, storeVars, orderVars
  <2> QED
    BY <2>1, <2>2
<1>7. CASE \/ Resume \/ Crash \/ FlushFiles \/ UNCHANGED vars
           \/ (\E o \in LiveKeys : LiveBegin(o)) \/ RecordRunning \/ SelectFile
           \/ EndOfBundle \/ RecordRunComplete \/ RecordRunFailed
           \/ RecordFileComplete \/ RecordFileFailed \/ InsertRawRows
           \/ InsertConflicts \/ EnqueueRows
  <2>1. UNCHANGED orderVars
    BY <1>7 DEF Resume, Crash, FlushFiles, LiveBegin, vars, storeVars, RecordRunning,
       SelectFile, EndOfBundle, RecordRunComplete, RecordRunFailed,
       RecordFileComplete, RecordFileFailed, InsertRawRows, InsertConflicts, EnqueueRows
  <2>2. taken' = {} \/ (taken' = taken /\ stamp' = stamp)
    BY <1>7 DEF Resume, Crash, FlushFiles, LiveBegin, vars, localVars, RecordRunning,
       SelectFile, EndOfBundle, RecordRunComplete, RecordRunFailed,
       RecordFileComplete, RecordFileFailed, InsertRawRows, InsertConflicts,
       EnqueueRows, ClearBatch, OnOrFailed, KeepBatch
  <2> QED
    BY <1>1, <2>1, <2>2
<1>8. CASE BeginBatch
  <2>1. taken' = {} /\ UNCHANGED orderVars
    BY <1>8 DEF BeginBatch, TypeInv, LocalsOK, Hashing
  <2> QED
    BY <1>1, <2>1
<1> QED
  BY <1>3, <1>4, <1>5, <1>6, <1>7, <1>8 DEF Next, RunStep

LEMMA SettledStep == TypeInv /\ SettledInv /\ [Next]_vars => SettledInv'
<1> SUFFICES ASSUME TypeInv, SettledInv, [Next]_vars, NEW k \in settled'
             PROVE  OutOfReach(k)'
  BY DEF SettledInv
<1>1. CASE Next
  <2>1. CASE k \in settled
    BY <2>1, OutOfReachStep DEF SettledInv, TypeInv, TypeOK
  <2>2. CASE k \notin settled
    BY <1>1, <2>2 DEF Next, Settle
  <2> QED
    BY <2>1, <2>2
<1>2. CASE UNCHANGED vars
  <2>1. k \in settled
    BY <1>2 DEF vars
  <2> QED
    BY <2>1, OutOfReachStep DEF SettledInv, TypeInv, TypeOK
<1> QED
  BY <1>1, <1>2

(* No import, and no flush of what it wrote, changes an order that the     *)
(* table holds and that was observed after the rows an import still has of *)
(* it: neither a repeated import, whose hash query finds the order, nor    *)
(* one that read nothing and inserts after `continuous` has stored it      *)
(* (normalize_export_rows takes now before the first hash).                *)
THEOREM SettledOrdersAreKept == Spec => SettledOrderIsKept
<1>1. Init => SettledInv
  BY DEF Init, SettledInv
<1>2. TypeInv /\ SettledInv /\ [Next]_vars =>
        [\A k \in settled : orders'[k].variant # orders[k].variant
                              => orders'[k].source = "api"]_vars
  BY OutOfReachStep DEF SettledInv, TypeInv, TypeOK
<1> QED
  BY TypeInvariant, <1>1, SettledStep, <1>2, PTL DEF Spec, SettledOrderIsKept

-----------------------------------------------------------------------------
(* What contradicts the table is quarantined.                              *)

(* No batch contradicts itself. *)
BatchesAgree ==
  \A f \in Files : OrdersFile(f) => \A b \in DOMAIN Batches(f) :
    \A r, s \in RowsOf(Batches(f)[b]) :
      r.key = s.key /\ r.variant # Malformed /\ s.variant # Malformed => r = s

Agrees(row) ==
  row.variant # Malformed /\ row.key \notin LiveKeys =>
    orders[row.key].variant = row.variant \/ row \in conflicts

BatchAgrees(f, b) == OrdersFile(f) => \A row \in RowsOf(Batches(f)[b]) : Agrees(row)

FileAgrees(f) == \A b \in DOMAIN Batches(f) : BatchAgrees(f, b)

FilesAgree == \A f \in Files : fileStatus[f] = "complete" => FileAgrees(f)

(* The file that is to be recorded, and the batches behind the current one. *)
ReadAgree ==
  /\ pc = "complete" => FileAgrees(file)
  /\ pc \in InBatch => \A b \in DOMAIN Batches(file) : b < batch => BatchAgrees(file, b)

(* A row that was hashed and does not agree yet is to be inserted, in the  *)
(* table or in the quarantine.                                             *)
HashedAgree ==
  /\ pc \in Hashing \cup {"conflicts"} =>
       \A i \in Hashed \ todo : Agrees(Current[i]) \/ Current[i] \in taken \cup refused
  /\ pc = "enqueue" => \A i \in Hashed : Agrees(Current[i])

(* Nobody else stores the orders of the bundle between the hash of one and *)
(* its insert, `continuous` excepted.                                      *)
TakenAreNew == \A row \in taken : row.key \notin LiveKeys => orders[row.key] = NoOrder

MismatchInv == wait => FilesAgree /\ ReadAgree /\ HashedAgree /\ TakenAreNew

LEMMA MismatchInit == Init => MismatchInv
BY DEF Init, MismatchInv, FilesAgree, ReadAgree, HashedAgree, TakenAreNew, InBatch,
       Hashing

(* Of an order that `continuous` does not store, the row changes only when *)
(* an import inserts it.                                                   *)
LEMMA OwnOrderStays ==
  ASSUME TypeInv, wait, [Next]_vars, NEW k \in Keys \ LiveKeys
  PROVE  \/ orders'[k] = orders[k]
         \/ InsertTableRows /\ Taken(k)
<1>0. orders \in [Keys -> OrderOrNone] /\ orderBuf = [x \in Keys |-> NoOrder]
  BY DEF TypeInv, TypeOK, LocalsOK, OrderOrNone
<1>1. CASE UNCHANGED orderVars
  BY <1>1 DEF orderVars
<1>2. ASSUME NEW new \in [Keys -> OrderOrNone], InsertOrders(new), new[k] = NoOrder
      PROVE  orders'[k] = orders[k]
  BY <1>0, <1>2, MergedTypes DEF InsertOrders
<1>3. CASE FlushOrders
  BY <1>0, <1>3 DEF FlushOrders
<1>4. ASSUME NEW o \in LiveKeys, LiveStore(o)
      PROVE  orders'[k] = orders[k]
  <2> DEFINE new == [x \in Keys |-> IF x # o THEN NoOrder
                       ELSE [variant |-> LiveVariant[o], source |-> "api",
                             at |-> liveStamp[o]]]
  <2>1. new \in [Keys -> OrderOrNone]
    BY <1>4, ImportParameters
       DEF LiveStore, OrderOrNone, OrderRow, NoTime, TypeInv, TypeOK
  <2>2. InsertOrders(new) /\ new[k] = NoOrder
    BY <1>4 DEF LiveStore
  <2> HIDE DEF new
  <2> QED
    BY <1>2, <2>1, <2>2
<1>5. CASE InsertTableRows
  <2>1. /\ TakenOrders \in [Keys -> OrderOrNone]
        /\ ~Taken(k) => TakenOrders[k] = NoOrder
    BY TakenTypes DEF TypeInv, LocalsOK
  <2> QED
    BY <1>1, <1>2, <1>5, <2>1 DEF InsertTableRows
<1>6. CASE \/ Resume \/ Crash \/ FlushFiles \/ UNCHANGED vars
           \/ \E o \in LiveKeys : LiveBegin(o)
  BY <1>1, <1>6 DEF Resume, Crash, FlushFiles, LiveBegin, vars, storeVars
<1>7. CASE RunStep /\ ~InsertTableRows
  BY <1>1, <1>7 DEF RunStep, storeVars, RecordRunning, SelectFile, EndOfBundle,
     BeginBatch, OrderHash, InsertRawRows, InsertConflicts, EnqueueRows,
     RecordFileComplete, RecordFileFailed, RecordRunComplete, RecordRunFailed
<1> QED
  BY <1>3, <1>4, <1>5, <1>6, <1>7 DEF Next

LEMMA AgreesStays ==
  ASSUME TypeInv, wait, TakenAreNew, [Next]_vars
  PROVE  /\ \A row \in Rows : Agrees(row) => Agrees(row)'
         /\ \A f \in Files : \A b \in DOMAIN Batches(f) :
              BatchAgrees(f, b) => BatchAgrees(f, b)'
         /\ \A f \in Files : FileAgrees(f) => FileAgrees(f)'
<1>1. ASSUME NEW row \in Rows, Agrees(row)
      PROVE  Agrees(row)'
  <2>1. CASE row.variant # Malformed /\ row.key \notin LiveKeys
    <3>1. row.key \in Keys \ LiveKeys
      BY <2>1 DEF Rows
    <3>2. conflicts \subseteq conflicts'
      BY AckStays
    <3>3. CASE orders'[row.key] = orders[row.key]
      BY <1>1, <3>2, <3>3 DEF Agrees
    <3>4. CASE Taken(row.key)
      <4>1. orders[row.key].variant = Malformed
        BY <3>1, <3>4, OrderTypes DEF Taken, TakenAreNew
      <4> QED
        BY <1>1, <2>1, <3>2, <4>1 DEF Agrees
    <3> QED
      BY <3>1, <3>3, <3>4, OwnOrderStays
  <2> QED
    BY <2>1 DEF Agrees
<1>2. ASSUME NEW f \in Files, NEW b \in DOMAIN Batches(f), BatchAgrees(f, b)
      PROVE  BatchAgrees(f, b)'
  <2>1. RowsOf(Batches(f)[b]) \subseteq Rows
    BY RowTypes
  <2> QED
    BY <1>1, <1>2, <2>1 DEF BatchAgrees, Batches, OrdersFile
<1> QED
  BY <1>1, <1>2 DEF FileAgrees, Batches

LEMMA TakenAreNewStep ==
  ASSUME TypeInv, wait, TakenAreNew, [Next]_vars
  PROVE  TakenAreNew'
<1> SUFFICES ASSUME NEW row \in taken', row.key \notin LiveKeys
             PROVE  orders'[row.key] = NoOrder
  BY DEF TakenAreNew
<1>1. CASE InsertTableRows
  BY <1>1 DEF InsertTableRows
<1>2. CASE OrderHash
  <2>1. UNCHANGED orders
    BY <1>2 DEF OrderHash, storeVars, orderVars
  <2>2. row \in taken \/ IsNew(row.key)
    BY <1>2 DEF OrderHash, ClearBatch
  <2> QED
    BY <2>1, <2>2 DEF IsNew, TakenAreNew
<1>3. CASE ~InsertTableRows /\ ~OrderHash
  <2>1. taken' = {} \/ taken' = taken
    BY <1>3 DEF Next, RunStep, Resume, Crash, FlushFiles, FlushOrders, LiveBegin,
       LiveStore, vars, localVars, RecordRunning, SelectFile, EndOfBundle,
       RecordRunComplete, RecordRunFailed, RecordFileComplete, RecordFileFailed,
       BeginBatch, InsertRawRows, InsertConflicts, EnqueueRows, ClearBatch,
       OnOrFailed, KeepBatch
  <2>2. row \in taken /\ row.key \in Keys \ LiveKeys
    BY <2>1 DEF TypeInv, TypeOK
  <2>3. orders[row.key] = NoOrder
    BY <2>2 DEF TakenAreNew
  <2> QED
    BY <1>3, <2>2, <2>3, OwnOrderStays
<1> QED
  BY <1>1, <1>2, <1>3

(* Steps that leave the batch and what was read of it alone. *)
LEMMA SameBatchAgrees ==
  ASSUME TypeInv, wait, TakenAreNew, [Next]_vars, ReadAgree,
         UNCHANGED <<file, batch>>, pc \in InBatch
  PROVE  /\ \A b \in DOMAIN Batches(file)' : b < batch' => BatchAgrees(file, b)'
         /\ Hashed' = Hashed /\ Current' = Current
         /\ \A i \in Hashed : Agrees(Current[i]) => Agrees(Current[i])'
<1>1. PICK f \in Files : f = file
  BY DEF TypeInv, LocalsOK
<1>2. \A b \in DOMAIN Batches(f) : b < batch => BatchAgrees(f, b)'
  BY <1>1, AgreesStays DEF ReadAgree
<1>3. \A b \in DOMAIN Batches(file)' : b < batch' => BatchAgrees(file, b)'
  BY <1>1, <1>2 DEF Batches, BatchAgrees, OrdersFile, Agrees
<1>4. Hashed' = Hashed /\ Current' = Current
  BY DEF Hashed, Current, Batches, OrdersFile
<1>5. \A i \in Hashed : Agrees(Current[i]) => Agrees(Current[i])'
  <2>1. ASSUME NEW i \in Hashed, Agrees(Current[i])
        PROVE  Agrees(Current[i])'
    <3>1. PICK row \in Rows : row = Current[i]
      BY HashedTypes DEF Rows
    <3>2. Agrees(row)'
      BY <2>1, <3>1, AgreesStays
    <3> QED
      BY <1>4, <3>1, <3>2
  <2> QED
    BY <2>1
<1> QED
  BY <1>3, <1>4, <1>5

LEMMA RowIsHashed ==
  ASSUME NEW row \in RowsOf(Current), row.variant # Malformed, OrdersFile(file)
  PROVE  \E i \in Hashed : row = Current[i]
BY DEF RowsOf, Hashed

(* The batch becomes the last one that was read. *)
LEMMA NextBatchAgrees ==
  ASSUME TypeInv, wait, TakenAreNew, [Next]_vars, ReadAgree,
         pc \in InBatch, UNCHANGED file, pc' = AfterBatch,
         batch' = IF pc' = "normalize" THEN batch + 1 ELSE batch,
         OrdersFile(file) => \A row \in RowsOf(Current) : Agrees(row)'
  PROVE  ReadAgree' /\ HashedAgree'
<1>1. file \in Files /\ batch \in DOMAIN Batches(file) /\ batch \in Nat
  BY AfterBatchTypes
<1>2. PICK f \in Files : f = file
  BY <1>1
<1>3. Batches(f)' = Batches(f) /\ DOMAIN Batches(f) \subseteq Int
  BY BundleTypes DEF Batches
<1>4. \A b \in DOMAIN Batches(f) : b = batch => BatchAgrees(f, b)'
  BY <1>2, <1>3 DEF BatchAgrees, Current, RowsOf, OrdersFile, Agrees
<1>5. \A b \in DOMAIN Batches(f) : b < batch => BatchAgrees(f, b)'
  BY <1>2, AgreesStays DEF ReadAgree
<1>6. \A b \in DOMAIN Batches(f) : b <= batch => BatchAgrees(f, b)'
  BY <1>1, <1>3, <1>4, <1>5
<1>7. CASE AfterBatch = "normalize"
  <2>1. \A b \in DOMAIN Batches(f) : b < batch' => BatchAgrees(f, b)'
    BY <1>1, <1>3, <1>6, <1>7
  <2> QED
    BY <1>2, <1>3, <1>7, <2>1
       DEF ReadAgree, HashedAgree, Hashing, BatchAgrees, Batches, OrdersFile, Agrees
<1>8. CASE AfterBatch = "complete" /\ \A b \in DOMAIN Batches(file) : b <= batch
  <2>1. \A b \in DOMAIN Batches(f) : BatchAgrees(f, b)'
    BY <1>2, <1>6, <1>8
  <2>2. FileAgrees(file)'
    BY <1>2, <1>3, <2>1 DEF FileAgrees, BatchAgrees, Batches, OrdersFile, Agrees
  <2> QED
    BY <1>8, <2>2 DEF ReadAgree, HashedAgree, Hashing, InBatch
<1> QED
  BY <1>7, <1>8, AfterBatchTypes

(* The calls of a batch. *)
LEMMA BatchMismatch ==
  ASSUME BatchesAgree, TypeInv, wait, FilesAgree, ReadAgree, HashedAgree, TakenAreNew,
         [Next]_vars, pc' # "failed",
         \/ BeginBatch \/ OrderHash \/ InsertRawRows \/ InsertTableRows
         \/ InsertConflicts \/ EnqueueRows
  PROVE  ReadAgree' /\ HashedAgree'
<1>1. /\ pc \in InBatch /\ UNCHANGED file
      /\ file \in Files /\ batch \in DOMAIN Batches(file)
  BY DEF TypeInv, LocalsOK, BeginBatch, OrderHash, InsertRawRows, InsertTableRows,
         InsertConflicts, EnqueueRows, InBatch
<1>2. ASSUME UNCHANGED batch, pc' \in InBatch, HashedAgree'
      PROVE  ReadAgree' /\ HashedAgree'
  BY <1>1, <1>2, SameBatchAgrees DEF ReadAgree, InBatch
<1>3. \A i \in Hashed : Current[i] \in [key : Keys, variant : Variants]
  BY <1>1, HashedTypes
<1>4. CASE BeginBatch
  <2>1. UNCHANGED batch /\ pc' \in {"raw", "order_hash"} /\ todo' = Hashed
    BY <1>4 DEF BeginBatch, Returns, Raises
  <2>2. Hashed' = Hashed
    BY <1>1, <2>1, SameBatchAgrees
  <2> QED
    BY <1>2, <2>1, <2>2 DEF HashedAgree, InBatch
<1>5. CASE OrderHash
  <2>1. /\ UNCHANGED <<batch, orderVars, conflicts>> /\ pc = "order_hash"
        /\ todo \subseteq Hashed
    BY <1>5 DEF OrderHash, storeVars, ackVars, TypeInv, LocalsOK
  <2>2. PICK i \in todo :
          /\ taken' = IF IsNew(Current[i].key)
                        THEN {r \in taken : r.key # Current[i].key} \cup {Current[i]}
                        ELSE taken
          /\ refused' = IF Mismatch(Current[i].key, Current[i].variant)
                          THEN refused \cup {Current[i]} ELSE refused
          /\ todo' = todo \ {i} /\ pc' \in {"raw", "order_hash"}
    BY <1>5 DEF OrderHash, Returns, Raises
  <2>3. /\ Hashed' = Hashed /\ Current' = Current
        /\ \A j \in Hashed : Agrees(Current[j]) => Agrees(Current[j])'
    BY <1>1, <2>1, SameBatchAgrees
  <2>4. Agrees(Current[i])' \/ Current[i] \in taken' \cup refused'
    BY <2>1, <2>2, <2>3 DEF IsNew, Mismatch, Agrees, orderVars
  <2>5. ASSUME NEW j \in Hashed \ todo, Current[j] \in taken
        PROVE  Current[j] \in taken'
    <3>1. Current[j].key = Current[i].key => Current[j] = Current[i]
      <4>1. Current[i] \in RowsOf(Current) /\ Current[j] \in RowsOf(Current)
            /\ OrdersFile(file)
        BY <2>1 DEF RowsOf, Hashed
      <4>2. Current[i].variant # Malformed /\ Current[j].variant # Malformed
        BY <2>1 DEF Hashed
      <4>3. \A r, s \in RowsOf(Current) :
              r.key = s.key /\ r.variant # Malformed /\ s.variant # Malformed => r = s
        BY <1>1, <4>1 DEF BatchesAgree, Current
      <4> QED
        BY <4>1, <4>2, <4>3
    <3> QED
      BY <2>2, <2>5, <3>1
  <2>6. ASSUME NEW j \in Hashed \ todo'
        PROVE  Agrees(Current[j])' \/ Current[j] \in taken' \cup refused'
    <3>1. CASE j = i
      BY <2>4, <3>1
    <3>2. CASE j \in Hashed \ todo
      <4>1. Agrees(Current[j]) \/ Current[j] \in taken \cup refused
        BY <2>1, <3>2 DEF HashedAgree, Hashing
      <4>2. refused \subseteq refused'
        BY <2>2
      <4> QED
        BY <2>3, <2>5, <3>2, <4>1, <4>2
    <3> QED
      BY <2>2, <2>6, <3>1, <3>2
  <2>7. HashedAgree'
    BY <2>2, <2>3, <2>6 DEF HashedAgree
  <2> QED
    BY <1>2, <2>1, <2>2, <2>7 DEF InBatch
<1>6. CASE InsertRawRows
  <2>1. /\ pc = "raw" /\ pc' = "table_rows"
        /\ UNCHANGED <<batch, taken, refused, todo>>
    BY <1>6 DEF InsertRawRows, Acknowledges, Returns, Raises, OnOrFailed, KeepBatch
  <2>2. /\ Hashed' = Hashed /\ Current' = Current
        /\ \A j \in Hashed : Agrees(Current[j]) => Agrees(Current[j])'
    BY <1>1, <2>1, SameBatchAgrees
  <2>3. \A i \in Hashed \ todo : Agrees(Current[i]) \/ Current[i] \in taken \cup refused
    BY <2>1 DEF HashedAgree, Hashing
  <2>4. \A i \in Hashed' \ todo' :
          Agrees(Current[i])' \/ Current'[i] \in taken' \cup refused'
    BY <2>1, <2>2, <2>3
  <2> QED
    BY <1>2, <2>1, <2>4 DEF HashedAgree, InBatch
<1>7. CASE InsertTableRows
  <2>1. /\ pc = "table_rows" /\ pc' = "conflicts" /\ todo = {} /\ todo' = {}
        /\ UNCHANGED <<batch, refused>>
    BY <1>7 DEF InsertTableRows, Acknowledges, Returns, Raises, TypeInv, LocalsOK
  <2>2. /\ Hashed' = Hashed /\ Current' = Current
        /\ \A j \in Hashed : Agrees(Current[j]) => Agrees(Current[j])'
    BY <1>1, <2>1, SameBatchAgrees
  <2>3. ASSUME NEW row \in taken, OrdersFile(file)
        PROVE  Agrees(row)'
    <3>1. CASE row.key \notin LiveKeys
      <4>1. orders[row.key] = NoOrder
        BY <3>1 DEF TakenAreNew
      <4>2. /\ TakenOrders \in [Keys -> OrderOrNone]
            /\ TakenOrders[row.key] =
                 [variant |-> row.variant, source |-> "export", at |-> stamp]
        BY TakenTypes DEF TypeInv, LocalsOK
      <4>3. InsertOrders(TakenOrders)
        BY <1>7, <2>1, <2>3 DEF InsertTableRows, Raises
      <4>4. row.key \in Keys /\ orders \in [Keys -> OrderOrNone]
        BY DEF TypeInv, TypeOK, OrderOrNone
      <4>5. orders'[row.key] = Newest(NoOrder, TakenOrders[row.key])
        BY <4>1, <4>2, <4>3, <4>4, MergedTypes DEF InsertOrders
      <4>6. TakenOrders[row.key] \in OrderOrNone /\ NoOrder \in OrderOrNone
        BY <4>2, <4>4 DEF OrderOrNone
      <4>7. orders'[row.key] = TakenOrders[row.key]
        BY <4>5, <4>6, NewestTypes
      <4> QED
        BY <4>2, <4>7 DEF Agrees
    <3> QED
      BY <3>1 DEF Agrees
  <2>4. ASSUME NEW i \in Hashed
        PROVE  Agrees(Current[i])' \/ Current[i] \in refused'
    <3>1. Agrees(Current[i]) \/ Current[i] \in taken \cup refused
      BY <2>1 DEF HashedAgree, Hashing
    <3>2. CASE Current[i] \in taken
      <4>1. PICK row \in taken : row = Current[i]
        BY <3>2
      <4>2. Agrees(row)'
        BY <2>3, <4>1 DEF Hashed
      <4> QED
        BY <2>2, <4>1, <4>2
    <3> QED
      BY <2>1, <2>2, <3>1, <3>2
  <2>5. HashedAgree'
    BY <2>1, <2>2, <2>4 DEF HashedAgree
  <2> QED
    BY <1>2, <2>1, <2>5 DEF InBatch
<1>8. CASE InsertConflicts
  <2>1. /\ pc = "conflicts" /\ pc' = AfterInserts /\ todo = {} /\ taken = {}
        /\ orders' = orders /\ conflicts' = conflicts \cup refused
        /\ batch' = IF pc' = "normalize" THEN batch + 1 ELSE batch
    BY <1>8 DEF InsertConflicts, Acknowledges, Returns, Raises, TypeInv, LocalsOK,
       Hashing, orderVars
  <2>2. \A i \in Hashed : Agrees(Current[i]) \/ Current[i] \in refused
    BY <2>1 DEF HashedAgree
  <2>3. CASE Enqueue /\ OrdersFile(file)
    <3>1. pc' = "enqueue" /\ batch' = batch
      BY <2>1, <2>3 DEF AfterInserts
    <3>2. Hashed' = Hashed /\ Current' = Current
      BY <1>1, <3>1, SameBatchAgrees
    <3>3. \A i \in Hashed : Agrees(Current[i])'
      BY <2>1, <2>2, <3>2 DEF Agrees
    <3>4. HashedAgree'
      BY <3>1, <3>2, <3>3 DEF HashedAgree, Hashing
    <3> QED
      BY <1>2, <3>1, <3>4 DEF InBatch
  <2>4. CASE ~(Enqueue /\ OrdersFile(file))
    <3>1. pc' = AfterBatch
      BY <2>1, <2>4 DEF AfterInserts
    <3>2. \A row : row \in conflicts \cup refused \/ Agrees(row) => Agrees(row)'
      BY <2>1 DEF Agrees
    <3>3. ASSUME OrdersFile(file), NEW row \in RowsOf(Current), row.variant # Malformed
          PROVE  Agrees(row)'
      BY <2>2, <3>2, <3>3, RowIsHashed
    <3>4. \A row : row.variant = Malformed => Agrees(row)'
      BY DEF Agrees
    <3> QED
      BY <1>1, <2>1, <3>1, <3>3, <3>4, NextBatchAgrees
  <2> QED
    BY <2>3, <2>4
<1>9. CASE EnqueueRows
  <2>1. /\ pc = "enqueue" /\ pc' = AfterBatch
        /\ batch' = IF pc' = "normalize" THEN batch + 1 ELSE batch
    BY <1>9 DEF EnqueueRows, Returns, Raises
  <2>2. RowsOf(Current) \subseteq Rows
    BY <1>1, HashedTypes
  <2>3. ASSUME OrdersFile(file), NEW row \in RowsOf(Current), row.variant # Malformed
        PROVE  Agrees(row)'
    <3>1. Agrees(row)
      BY <2>1, <2>3, RowIsHashed DEF HashedAgree
    <3> QED
      BY <2>2, <3>1, AgreesStays
  <2>4. \A row : row.variant = Malformed => Agrees(row)'
    BY DEF Agrees
  <2> QED
    BY <1>1, <2>1, <2>3, <2>4, NextBatchAgrees
<1> QED
  BY <1>4, <1>5, <1>6, <1>7, <1>8, <1>9

(* The records of the files. *)
LEMMA FilesAgreeStep ==
  ASSUME TypeInv, wait, FilesAgree, ReadAgree, TakenAreNew, [Next]_vars
  PROVE  FilesAgree'
<1>1. \A f \in Files : FileAgrees(f) => FileAgrees(f)'
  BY AgreesStays
<1>2. CASE UNCHANGED fileStatus
  BY <1>1, <1>2 DEF FilesAgree
<1>3. CASE RecordFileFailed
  <2>1. ASSUME NEW f \in Files, fileStatus'[f] = "complete"
        PROVE  fileStatus[f] = "complete"
    BY <1>3, <2>1 DEF RecordFileFailed, RecordFile, fileVars, TypeInv, TypeOK
  <2> QED
    BY <1>1, <2>1 DEF FilesAgree
<1>4. CASE RecordFileComplete
  <2>1. file \in Files /\ FileAgrees(file)
    BY <1>4 DEF RecordFileComplete, ReadAgree, TypeInv, LocalsOK
  <2>2. ASSUME NEW f \in Files, fileStatus'[f] = "complete"
        PROVE  fileStatus[f] = "complete" \/ f = file
    BY <1>4, <2>2 DEF RecordFileComplete, RecordFile, fileVars, TypeInv, TypeOK
  <2> QED
    BY <1>1, <2>1, <2>2 DEF FilesAgree
<1>5. CASE FlushFiles
  BY <1>5 DEF FlushFiles, TypeInv, LocalsOK
<1>6. CASE ~(RecordFileFailed \/ RecordFileComplete \/ FlushFiles)
  BY <1>2, <1>6 DEF Next, RunStep, Resume, Crash, FlushOrders, LiveBegin,
     LiveStore, vars, fileVars, storeVars, RecordRunning, SelectFile, EndOfBundle,
     RecordRunComplete, RecordRunFailed, BeginBatch, OrderHash, InsertRawRows,
     InsertTableRows, InsertConflicts, EnqueueRows
<1> QED
  BY <1>3, <1>4, <1>5, <1>6

(* The calls around the batches and the steps of others. *)
LEMMA OtherMismatch ==
  ASSUME TypeInv, wait, ReadAgree, HashedAgree, TakenAreNew, [Next]_vars,
         \/ pc' = "failed"
         \/ ~(\/ BeginBatch \/ OrderHash \/ InsertRawRows \/ InsertTableRows
              \/ InsertConflicts \/ EnqueueRows)
  PROVE  ReadAgree' /\ HashedAgree'
<1>1. CASE pc' \notin InBatch \cup {"complete"}
  BY <1>1 DEF ReadAgree, HashedAgree, InBatch, Hashing
<1>2. CASE UNCHANGED <<pc, file, batch, todo, taken, refused>>
  <2>1. CASE pc \in InBatch
    <3>1. /\ \A b \in DOMAIN Batches(file)' : b < batch' => BatchAgrees(file, b)'
          /\ Hashed' = Hashed /\ Current' = Current
          /\ \A i \in Hashed : Agrees(Current[i]) => Agrees(Current[i])'
      BY <1>2, <2>1, SameBatchAgrees
    <3>2. HashedAgree'
      BY <1>2, <3>1 DEF HashedAgree
    <3>3. ReadAgree'
      BY <1>2, <2>1, <3>1 DEF ReadAgree, InBatch
    <3> QED
      BY <3>2, <3>3
  <2>2. CASE pc = "complete"
    <3>1. PICK f \in Files : f = file
      BY <2>2 DEF TypeInv, LocalsOK
    <3>2. FileAgrees(f)'
      BY <2>2, <3>1, AgreesStays DEF ReadAgree
    <3>3. FileAgrees(file)'
      BY <1>2, <3>1, <3>2
    <3> QED
      BY <1>2, <2>2, <3>3 DEF ReadAgree, HashedAgree, InBatch, Hashing
  <2> QED
    BY <1>1, <1>2, <2>1, <2>2
<1>3. CASE SelectFile
  <2>1. CASE Batches(file) = <<>> /\ UNCHANGED file /\ pc' = "complete"
    <3>1. \A b \in DOMAIN Batches(file)' : FALSE
      BY <2>1 DEF Batches
    <3> QED
      BY <2>1, <3>1 DEF FileAgrees, ReadAgree, HashedAgree, InBatch, Hashing
  <2>2. CASE pc' = "normalize" /\ batch' = 1 /\ UNCHANGED file
    <3>1. file \in Files
      BY <1>3, BundleTypes DEF SelectFile, TypeInv, LocalsOK
    <3>2. \A b \in DOMAIN Batches(file)' : ~(b < batch')
      <4>1. DOMAIN Batches(file)' = 1 .. Len(Batches(file)) /\ Len(Batches(file)) \in Nat
        BY <2>2, <3>1, BundleTypes DEF Batches
      <4> QED
        BY <2>2, <4>1
    <3> QED
      BY <2>2, <3>2 DEF ReadAgree, HashedAgree, Hashing
  <2> QED
    BY <1>1, <1>3, <2>1, <2>2 DEF SelectFile, Returns, Raises, InBatch
<1>4. \/ pc' \notin InBatch \cup {"complete"}
      \/ UNCHANGED <<pc, file, batch, todo, taken, refused>>
      \/ SelectFile
  <2>1. CASE \/ FlushOrders \/ FlushFiles \/ UNCHANGED vars
             \/ \E k \in LiveKeys : LiveBegin(k) \/ LiveStore(k)
    BY <2>1 DEF FlushOrders, FlushFiles, LiveBegin, LiveStore, vars, localVars
  <2>2. CASE \/ Resume \/ Crash \/ RecordRunning \/ EndOfBundle \/ RecordRunComplete
             \/ RecordRunFailed \/ RecordFileComplete \/ RecordFileFailed
             \/ pc' = "failed"
    BY <2>2 DEF Resume, Crash, RecordRunning, EndOfBundle, RecordRunComplete,
       RecordRunFailed, RecordFileComplete, RecordFileFailed, Acknowledges,
       Returns, Raises, InBatch
  <2> QED
    BY <2>1, <2>2 DEF Next, RunStep
<1> QED
  BY <1>1, <1>2, <1>3, <1>4

LEMMA MismatchStep ==
  ASSUME BatchesAgree, TypeInv, MismatchInv, [Next]_vars
  PROVE  MismatchInv'
<1>1. wait' = wait
  BY DEF Next, RunStep, Resume, Crash, FlushFiles, FlushOrders, LiveBegin, LiveStore,
     vars, storeVars, RecordRunning, SelectFile, EndOfBundle, RecordRunComplete,
     RecordRunFailed, RecordFileComplete, RecordFileFailed, BeginBatch, OrderHash,
     InsertRawRows, InsertTableRows, InsertConflicts, EnqueueRows
<1>2. ASSUME wait
      PROVE  FilesAgree' /\ ReadAgree' /\ HashedAgree' /\ TakenAreNew'
  BY <1>2, FilesAgreeStep, BatchMismatch, OtherMismatch, TakenAreNewStep
     DEF MismatchInv
<1> QED
  BY <1>1, <1>2 DEF MismatchInv

(* With inserts that wait, of the orders that only the bundle has no row   *)
(* of a complete file is lost to another variant: it is the stored row, or *)
(* it is in the quarantine, whichever file, batch or run stored the other  *)
(* one.  The one case the hypothesis leaves out is a batch with two        *)
(* variants of one order: normalize_export_rows asks for every hash before *)
(* the first insert, and the last row wins.                                *)
THEOREM MismatchesAreQuarantined ==
  ASSUME BatchesAgree
  PROVE  Spec => []MismatchQuarantined
<1>1. TypeInv /\ MismatchInv => MismatchQuarantined
  <2> SUFFICES ASSUME TypeInv, MismatchInv, wait, NEW f \in Files, Whole(f),
                      OrdersFile(f), NEW row \in RowsIn(f), row.variant # Malformed,
                      row.key \notin LiveKeys
               PROVE  orders[row.key].variant = row.variant \/ row \in conflicts
    BY DEF MismatchQuarantined
  <2>1. FileAgrees(f)
    BY DEF Whole, Acknowledged, TypeInv, LocalsOK, MismatchInv, FilesAgree
  <2> QED
    BY <2>1 DEF FileAgrees, BatchAgrees, Agrees, RowsIn
<1>2. TypeInv /\ MismatchInv /\ [Next]_vars => MismatchInv'
  BY MismatchStep
<1> QED
  BY TypeInvariant, MismatchInit, <1>1, <1>2, PTL DEF Spec

=============================================================================
