---------------------------- MODULE ScannerProofs ----------------------------
(***************************************************************************)
(* Theorems about Scanner for every chain, every set of processes and      *)
(* every range size and provider limit.                                    *)
(***************************************************************************)
EXTENDS Scanner, TLAPS

Scanning(s) == pc[s] \notin {"idle", "rescan"}

(* The locals of a scan: the cursor has not passed the end, a range is not *)
(* empty, and its upper end lies between the two.                          *)
LocalsOK(s) ==
  Scanning(s) =>
    /\ 1 <= cursor[s] /\ cursor[s] <= end[s] /\ 1 <= size[s]
    /\ pc[s] # "get_logs" => cursor[s] <= upper[s] /\ upper[s] <= end[s]

TypeInv == TypeOK /\ \A s \in Scanners : LocalsOK(s)

LEMMA LeaveScanTypes ==
  ASSUME TypeInv, NEW s \in Scanners, NEW label \in {"idle", "rescan"},
         LeaveScan(s, label)
  PROVE  /\ pc' \in [Scanners -> PCs] /\ mode' \in [Scanners -> Modes]
         /\ cursor' \in [Scanners -> 0 .. MaxBlock + 1]
         /\ end' \in [Scanners -> 0 .. MaxBlock]
         /\ size' \in [Scanners -> 0 .. MaxRange]
         /\ upper' \in [Scanners -> 0 .. MaxBlock]
         /\ logs' \in [Scanners -> SUBSET Logs]
         /\ headers' \in [Scanners -> [Blocks -> Forks \cup {NoFork}]]
         /\ current' \in [Scanners -> Blocks \cup {NoCheckpoint}]
         /\ \A p \in Scanners : LocalsOK(p)'
<1> USE ScannerParameters DEF TypeInv, TypeOK
<1>1. NoHeaders \in [Blocks -> Forks \cup {NoFork}]
  BY DEF NoHeaders
<1>2. /\ logs' \in [Scanners -> SUBSET Logs]
      /\ headers' \in [Scanners -> [Blocks -> Forks \cup {NoFork}]]
      /\ current' \in [Scanners -> Blocks \cup {NoCheckpoint}]
  BY <1>1 DEF LeaveScan, ClearFetched
<1>3. pc' = [pc EXCEPT ![s] = label]
  BY DEF LeaveScan, Goto
<1>4. ASSUME NEW p \in Scanners
      PROVE  LocalsOK(p)'
  <2>1. CASE p = s
    BY <1>3, <2>1 DEF LocalsOK, Scanning
  <2>2. CASE p # s
    BY <1>3, <2>2 DEF LocalsOK, Scanning, LeaveScan
  <2> QED
    BY <2>1, <2>2
<1> QED
  BY <1>2, <1>3, <1>4 DEF LeaveScan, Modes, PCs

LEMMA StartRangeTypes ==
  ASSUME TypeInv, NEW s \in Scanners, NEW m \in Modes,
         NEW from \in Int, NEW to \in Int,
         1 <= from, from <= to, to <= MaxBlock,
         StartRange(s, m, from, to)
  PROVE  TypeInv'
<1> USE ScannerParameters DEF TypeInv, TypeOK
<1>1. TypeOK'
  BY DEF StartRange, Goto, PCs, chainVars, storeVars, fetchVars, boundVars
<1>2. ASSUME NEW p \in Scanners
      PROVE  LocalsOK(p)'
  <2>1. CASE p = s
    BY <2>1 DEF LocalsOK, Scanning, StartRange, Goto
  <2>2. CASE p # s
    BY <2>2 DEF LocalsOK, Scanning, StartRange, Goto
  <2> QED
    BY <2>1, <2>2
<1> QED
  BY <1>1, <1>2

LEMMA SafeHeadTypes ==
  ASSUME TypeOK
  PROVE  /\ SafeHead \in 0 .. MaxBlock
         /\ ResumeBlock(checkpoint) \in 1 .. MaxBlock + 1
BY ScannerParameters
   DEF TypeOK, SafeHead, Larger, ResumeBlock, Blocks, NoCheckpoint

LEMMA InsertRowsTypes ==
  ASSUME TypeOK, NEW t \in Tables, NEW rows \in SUBSET Logs,
         InsertRows(t, rows)
  PROVE  /\ table' \in [Tables -> SUBSET Logs]
         /\ rowBuf' \in [Tables -> SUBSET Logs]
<1> USE DEF TypeOK
<1>1. CASE AsyncInsertWait
  <2>1. table' = [table EXCEPT ![t] = table[t] \cup rows] /\ rowBuf' = rowBuf
    BY <1>1 DEF InsertRows
  <2> QED
    BY <2>1
<1>2. CASE ~AsyncInsertWait
  <2>1. rowBuf' = [rowBuf EXCEPT ![t] = rowBuf[t] \cup rows] /\ table' = table
    BY <1>2 DEF InsertRows
  <2> QED
    BY <2>1
<1> QED
  BY <1>1, <1>2

LEMMA NextRangeTypes ==
  ASSUME TypeInv, NEW s \in Scanners,
         pc[s] \in {"enqueue_work", "insert_checkpoint"},
         NextRange(s)
  PROVE  /\ pc' \in [Scanners -> PCs] /\ mode' \in [Scanners -> Modes]
         /\ cursor' \in [Scanners -> 0 .. MaxBlock + 1]
         /\ end' \in [Scanners -> 0 .. MaxBlock]
         /\ size' \in [Scanners -> 0 .. MaxRange]
         /\ upper' \in [Scanners -> 0 .. MaxBlock]
         /\ logs' \in [Scanners -> SUBSET Logs]
         /\ headers' \in [Scanners -> [Blocks -> Forks \cup {NoFork}]]
         /\ current' \in [Scanners -> Blocks \cup {NoCheckpoint}]
         /\ \A p \in Scanners : LocalsOK(p)'
<1>1. CASE upper[s] >= end[s]
  <2>1. LeaveScan(s, IF mode[s] = "forward" THEN "rescan" ELSE "idle")
    BY <1>1 DEF NextRange
  <2> QED
    BY <2>1, LeaveScanTypes
<1>2. CASE ~(upper[s] >= end[s])
  <2> USE ScannerParameters DEF TypeInv, TypeOK
  <2>1. /\ cursor' = [cursor EXCEPT ![s] = upper[s] + 1]
        /\ size' = [size EXCEPT ![s] = GrownRange(size[s])]
        /\ pc' = [pc EXCEPT ![s] = "get_logs"]
        /\ ClearFetched(s)
        /\ UNCHANGED <<mode, end, upper>>
    BY <1>2 DEF NextRange, Goto
  <2>2. NoHeaders \in [Blocks -> Forks \cup {NoFork}]
    BY DEF NoHeaders
  <2>3. /\ logs' \in [Scanners -> SUBSET Logs]
        /\ headers' \in [Scanners -> [Blocks -> Forks \cup {NoFork}]]
        /\ current' \in [Scanners -> Blocks \cup {NoCheckpoint}]
    BY <2>1, <2>2 DEF ClearFetched
  <2>4. LocalsOK(s) /\ Scanning(s)
    BY DEF Scanning
  <2>5. GrownRange(size[s]) \in 1 .. MaxRange
    BY <2>4 DEF GrownRange, Smaller, LocalsOK
  <2>6. upper[s] + 1 \in 1 .. end[s]
    BY <1>2, <2>4 DEF LocalsOK
  <2>7. ASSUME NEW p \in Scanners
        PROVE  LocalsOK(p)'
    <3>1. CASE p = s
      BY <2>1, <2>5, <2>6, <3>1 DEF LocalsOK, Scanning
    <3>2. CASE p # s
      BY <2>1, <3>2 DEF LocalsOK, Scanning
    <3> QED
      BY <3>1, <3>2
  <2>8. /\ cursor' \in [Scanners -> 0 .. MaxBlock + 1]
        /\ size' \in [Scanners -> 0 .. MaxRange]
    <3>1. upper[s] + 1 \in 0 .. MaxBlock + 1 /\ GrownRange(size[s]) \in 0 .. MaxRange
      BY <2>5, <2>6
    <3> QED
      BY <2>1, <3>1
  <2>9. pc' \in [Scanners -> PCs]
    BY <2>1 DEF PCs
  <2> QED
    BY <2>1, <2>3, <2>7, <2>8, <2>9
<1> QED
  BY <1>1, <1>2 DEF TypeInv, TypeOK

-----------------------------------------------------------------------------
(* Every step preserves the type invariant.                                *)

LEMMA TypeInit ==
  Init => TypeInv
<1> SUFFICES ASSUME Init PROVE TypeInv
  OBVIOUS
<1> USE ScannerParameters DEF Init
<1>1. NoHeaders \in [Blocks -> Forks \cup {NoFork}]
  BY DEF NoHeaders
<1>2. TypeOK
  BY <1>1 DEF TypeOK, PCs, Modes, Forks
<1>3. \A s \in Scanners : LocalsOK(s)
  BY DEF LocalsOK, Scanning
<1> QED
  BY <1>2, <1>3 DEF TypeInv

(* The locals of a scan that a step leaves alone stay in order.            *)
LEMMA LocalsStay ==
  ASSUME TypeInv, UNCHANGED <<pc, cursor, end, size, upper>>
  PROVE  \A p \in Scanners : LocalsOK(p)'
BY DEF TypeInv, LocalsOK, Scanning

LEMMA ChainTypes ==
  ASSUME TypeInv, Mine \/ Reorg
  PROVE  TypeInv'
<1> USE ScannerParameters DEF TypeInv, TypeOK, storeVars, rangeVars, fetchVars, boundVars
<1>1. CASE Mine
  <2>1. TypeOK'
    BY <1>1 DEF Mine
  <2> QED
    BY <1>1, <2>1, LocalsStay DEF Mine
<1>2. CASE Reorg
  <2>1. PICK b \in Blocks :
          /\ \A c \in b .. MaxBlock : canon[c] < MaxForks
          /\ canon' = [c \in Blocks |-> IF c >= b THEN canon[c] + 1 ELSE canon[c]]
          /\ UNCHANGED <<latest, storeVars, checkpoint, recent, pc, rangeVars,
                         fetchVars, boundVars>>
    BY <1>2, Zenon DEF Reorg
  <2>2. ASSUME NEW c \in Blocks, c >= b
        PROVE  canon[c] + 1 \in Forks
    <3>1. c \in b .. MaxBlock /\ canon[c] \in Forks
      BY <2>2 DEF Blocks
    <3> QED
      BY <2>1, <3>1 DEF Forks
  <2>3. canon' \in [Blocks -> Forks]
    BY <2>1, <2>2
  <2>4. TypeOK'
    BY <2>1, <2>3
  <2> QED
    BY <2>1, <2>4, LocalsStay
<1> QED
  BY <1>1, <1>2

LEMMA ServiceTypes ==
  ASSUME TypeInv, NEW s \in Scanners,
         ServiceStep(s) \/ BeginBackfill(s) \/ BeginRepair(s)
  PROVE  TypeInv'
<1>1. /\ SafeHead \in 0 .. MaxBlock
      /\ ResumeBlock(checkpoint) \in 1 .. MaxBlock + 1
  BY SafeHeadTypes DEF TypeInv
<1>2. CASE BeginForward(s)
  <2>1. /\ ResumeBlock(checkpoint) <= SafeHead
        /\ StartRange(s, "forward", ResumeBlock(checkpoint), SafeHead)
    BY <1>2 DEF BeginForward
  <2> QED
    BY <1>1, <2>1, StartRangeTypes, ScannerParameters DEF Modes
<1>3. CASE BeginRescan(s)
  <2> DEFINE from == Larger(1, SafeHead - Finality + 1)
  <2>1. SafeHead >= 1 /\ StartRange(s, "rescan", from, SafeHead)
    BY <1>3 DEF BeginRescan
  <2>2. from \in Int /\ 1 <= from /\ from <= SafeHead
    BY <1>1, <2>1, ScannerParameters DEF Larger
  <2> HIDE DEF from
  <2> QED
    BY <1>1, <2>1, <2>2, StartRangeTypes, ScannerParameters DEF Modes
<1>4. CASE BeginBackfill(s)
  <2>1. PICK bound \in FromBlocks, to \in Blocks :
          LET from == IF bound = NoBound THEN ResumeBlock(checkpoint) ELSE bound
          IN /\ from <= Smaller(to, SafeHead)
             /\ StartRange(s, "backfill", from, Smaller(to, SafeHead))
    BY <1>4 DEF BeginBackfill
  <2> DEFINE from == IF bound = NoBound THEN ResumeBlock(checkpoint) ELSE bound
             upto == Smaller(to, SafeHead)
  <2>2. from <= upto /\ StartRange(s, "backfill", from, upto)
    BY <2>1
  <2>3. from \in Int /\ 1 <= from /\ upto \in Int /\ upto <= MaxBlock
    BY <1>1, ScannerParameters DEF Smaller, Blocks, NoBound
  <2> HIDE DEF from, upto
  <2> QED
    BY <2>2, <2>3, StartRangeTypes DEF Modes
<1>5. CASE BeginRepair(s)
  <2>1. PICK from \in Blocks, to \in Blocks :
          /\ from <= Smaller(to, SafeHead)
          /\ StartRange(s, "repair", from, Smaller(to, SafeHead))
    BY <1>5 DEF BeginRepair
  <2> DEFINE upto == Smaller(to, SafeHead)
  <2>2. from \in Int /\ 1 <= from /\ upto \in Int /\ upto <= MaxBlock
    BY <1>1, ScannerParameters DEF Smaller, Blocks
  <2>3. from <= upto /\ StartRange(s, "repair", from, upto)
    BY <2>1
  <2> HIDE DEF upto
  <2> QED
    BY <2>2, <2>3, StartRangeTypes DEF Modes
<1>6. CASE NothingNew(s) \/ EmptyRescan(s)
  <2>1. PICK label \in {"idle", "rescan"} :
          /\ Goto(s, label)
          /\ UNCHANGED <<chainVars, storeVars, checkpoint, recent, rangeVars,
                         fetchVars, boundVars>>
    BY <1>6 DEF NothingNew, EmptyRescan
  <2> USE DEF TypeInv, TypeOK, chainVars, storeVars, rangeVars, fetchVars, boundVars
  <2>2. pc' = [pc EXCEPT ![s] = label] /\ pc' \in [Scanners -> PCs]
    BY <2>1 DEF Goto, PCs
  <2>3. TypeOK'
    BY <2>1, <2>2
  <2>4. ASSUME NEW p \in Scanners
        PROVE  LocalsOK(p)'
    <3>1. CASE p = s
      BY <2>2, <3>1 DEF LocalsOK, Scanning
    <3>2. CASE p # s
      BY <2>1, <2>2, <3>2 DEF LocalsOK, Scanning
    <3> QED
      BY <3>1, <3>2
  <2> QED
    BY <2>3, <2>4
<1> QED
  BY <1>2, <1>3, <1>4, <1>5, <1>6 DEF ServiceStep

LEMMA RangeLocals ==
  ASSUME TypeInv, NEW s \in Scanners,
         pc[s] \notin {"idle", "rescan", "get_logs"},
         NEW label \in PCs, Goto(s, label),
         UNCHANGED <<cursor, end, size, upper>>
  PROVE  /\ pc' \in [Scanners -> PCs]
         /\ \A p \in Scanners : LocalsOK(p)'
<1> USE DEF TypeInv, TypeOK
<1>1. pc' = [pc EXCEPT ![s] = label] /\ pc' \in [Scanners -> PCs]
  BY DEF Goto
<1>2. ASSUME NEW p \in Scanners
      PROVE  LocalsOK(p)'
  <2>1. CASE p = s
    BY <1>1, <2>1 DEF LocalsOK, Scanning
  <2>2. CASE p # s
    BY <1>1, <2>2 DEF LocalsOK, Scanning
  <2> QED
    BY <2>1, <2>2
<1> QED
  BY <1>1, <1>2

LEMMA ObservedTypes ==
  ASSUME NEW old \in [Blocks -> Forks \cup {NoFork}],
         NEW new \in [Blocks -> Forks \cup {NoFork}]
  PROVE  Observed(old, new) \in [Blocks -> Forks \cup {NoFork}]
BY DEF Observed

LEMMA FetchTypes ==
  ASSUME TypeInv, NEW s \in Scanners,
         GetLogs(s) \/ HalveRange(s) \/ RangeExhausted(s) \/ GetBlocks(s)
  PROVE  TypeInv'
<1> USE ScannerParameters
    DEF TypeInv, TypeOK, chainVars, storeVars, rangeVars, fetchVars, boundVars
<1>1. CASE GetLogs(s)
  <2>1. /\ pc[s] = "get_logs"
        /\ upper' = [upper EXCEPT ![s] = Top(s)]
        /\ pc' = [pc EXCEPT ![s] = "get_blocks"]
        /\ UNCHANGED <<cursor, end, size>>
    BY <1>1 DEF GetLogs, Goto
  <2>2. cursor[s] <= Top(s) /\ Top(s) <= end[s] /\ Top(s) \in 0 .. MaxBlock
    <3>1. /\ cursor[s] \in Nat /\ size[s] \in Nat /\ end[s] \in 0 .. MaxBlock
          /\ LocalsOK(s)
      OBVIOUS
    <3>2. cursor[s] <= end[s] /\ 1 <= size[s]
      BY <2>1, <3>1 DEF LocalsOK, Scanning
    <3> QED
      BY <3>1, <3>2 DEF Top, Smaller
  <2>3. logs' \in [Scanners -> SUBSET Logs]
    BY <1>1 DEF GetLogs
  <2>4. TypeOK'
    BY <1>1, <2>1, <2>2, <2>3 DEF GetLogs, PCs
  <2>5. ASSUME NEW p \in Scanners
        PROVE  LocalsOK(p)'
    <3>1. CASE p = s
      BY <2>1, <2>2, <3>1 DEF LocalsOK, Scanning
    <3>2. CASE p # s
      BY <2>1, <3>2 DEF LocalsOK, Scanning
    <3> QED
      BY <3>1, <3>2
  <2> QED
    BY <2>4, <2>5
<1>2. faults' \in 0 .. MaxFaults
  BY DEF GetLogs, HalveRange, RangeExhausted, GetBlocks, Refused, Fault
<1>3. CASE HalveRange(s)
  <2>1. /\ pc[s] = "get_logs" /\ size[s] > MinRange
        /\ size' = [size EXCEPT ![s] = HalvedRange(size[s])]
        /\ UNCHANGED <<pc, cursor, end, upper>>
    BY <1>3 DEF HalveRange
  <2>2. HalvedRange(size[s]) \in 1 .. MaxRange
    <3>1. size[s] \in Nat /\ size[s] <= MaxRange
      OBVIOUS
    <3>2. size[s] \div 2 \in Int /\ size[s] \div 2 <= size[s]
      BY <3>1
    <3> QED
      BY <3>1, <3>2 DEF HalvedRange, Larger
  <2>3. TypeOK'
    BY <1>2, <1>3, <2>1, <2>2 DEF HalveRange
  <2>4. ASSUME NEW p \in Scanners
        PROVE  LocalsOK(p)'
    <3>1. CASE p = s
      <4>1. LocalsOK(s) /\ size'[s] \in 1 .. MaxRange
        BY <2>1, <2>2
      <4> QED
        BY <2>1, <3>1, <4>1 DEF LocalsOK, Scanning
    <3>2. CASE p # s
      BY <2>1, <3>2 DEF LocalsOK, Scanning
    <3> QED
      BY <3>1, <3>2
  <2> QED
    BY <2>3, <2>4
<1>4. CASE RangeExhausted(s)
  <2>1. /\ LeaveScan(s, "idle")
        /\ UNCHANGED <<chainVars, storeVars, checkpoint, recent, losses>>
    BY <1>4 DEF RangeExhausted
  <2> QED
    BY <1>2, <2>1, LeaveScanTypes
<1>5. CASE GetBlocks(s)
  <2>1. PICK b \in WantedBlocks(s) :
          headers' = [headers EXCEPT ![s] = [@ EXCEPT ![b] = canon[b]]]
    BY <1>5 DEF GetBlocks
  <2>2. headers' \in [Scanners -> [Blocks -> Forks \cup {NoFork}]]
    <3>1. headers[s] \in [Blocks -> Forks \cup {NoFork}]
      OBVIOUS
    <3>2. b \in Blocks => canon[b] \in Forks
      OBVIOUS
    <3> DEFINE got == [headers[s] EXCEPT ![b] = canon[b]]
    <3>3. got \in [Blocks -> Forks \cup {NoFork}]
      BY <3>1, <3>2
    <3>4. headers' = [headers EXCEPT ![s] = got]
      BY <2>1
    <3> HIDE DEF got
    <3> QED
      BY <3>3, <3>4
  <2>3. /\ pc[s] = "get_blocks"
        /\ Goto(s, "store_blocks") \/ UNCHANGED pc
        /\ UNCHANGED <<chainVars, storeVars, checkpoint, recent, rangeVars,
                       logs, current, boundVars>>
    BY <1>5 DEF GetBlocks
  <2>4. pc' \in [Scanners -> PCs] /\ \A p \in Scanners : LocalsOK(p)'
    <3>1. CASE Goto(s, "store_blocks")
      BY <2>3, <3>1, RangeLocals DEF PCs
    <3>2. CASE UNCHANGED pc
      BY <2>3, <3>2, LocalsStay
    <3> QED
      BY <2>3, <3>1, <3>2
  <2> QED
    BY <2>2, <2>3, <2>4
<1> QED
  BY <1>1, <1>3, <1>4, <1>5

LEMMA StoreTypes ==
  ASSUME TypeInv, NEW s \in Scanners,
         StoreBlocks(s) \/ StoreRawLogs(s) \/ StoreEvents(s)
  PROVE  TypeInv'
<1> USE ScannerParameters
    DEF TypeInv, TypeOK, chainVars, storeVars, rangeVars, fetchVars, boundVars
<1>1. CASE StoreBlocks(s)
  <2>1. /\ pc[s] = "store_blocks" /\ Goto(s, "store_raw_logs")
        /\ UNCHANGED <<chainVars, table, rowBuf, checkpoint, recent, rangeVars,
                       fetchVars, boundVars>>
    BY <1>1 DEF StoreBlocks
  <2>2. /\ header' \in [Blocks -> Forks \cup {NoFork}]
        /\ headerBuf' \in [Blocks -> Forks \cup {NoFork}]
    <3>1. /\ Observed(header, headers[s]) \in [Blocks -> Forks \cup {NoFork}]
          /\ Observed(headerBuf, headers[s]) \in [Blocks -> Forks \cup {NoFork}]
      BY ObservedTypes
    <3> QED
      BY <1>1, <3>1 DEF StoreBlocks
  <2>3. pc' \in [Scanners -> PCs] /\ \A p \in Scanners : LocalsOK(p)'
    BY <2>1, RangeLocals DEF PCs
  <2> QED
    BY <2>1, <2>2, <2>3
<1>2. CASE StoreRawLogs(s) \/ StoreEvents(s)
  <2>1. PICK t \in Tables, label \in {"store_events", "store_derived", "enqueue_work"} :
          /\ pc[s] \in {"store_raw_logs", "store_events", "store_derived"}
          /\ InsertRows(t, logs[s])
          /\ Goto(s, label)
          /\ UNCHANGED <<chainVars, header, headerBuf, checkpoint, recent,
                         rangeVars, fetchVars, boundVars>>
    BY <1>2 DEF StoreRawLogs, StoreEvents, Tables
  <2>2. /\ table' \in [Tables -> SUBSET Logs]
        /\ rowBuf' \in [Tables -> SUBSET Logs]
    BY <2>1, InsertRowsTypes
  <2>3. pc' \in [Scanners -> PCs] /\ \A p \in Scanners : LocalsOK(p)'
    BY <2>1, RangeLocals DEF PCs
  <2> QED
    BY <2>1, <2>2, <2>3
<1> QED
  BY <1>1, <1>2

LEMMA CommitTypes ==
  ASSUME TypeInv, NEW s \in Scanners,
         EnqueueWork(s) \/ GetCheckpoint(s) \/ InsertCheckpoint(s)
  PROVE  TypeInv'
<1> USE ScannerParameters
    DEF TypeInv, TypeOK, chainVars, storeVars, rangeVars, fetchVars, boundVars
<1>1. CASE EnqueueWork(s)
  <2>1. /\ pc[s] = "enqueue_work"
        /\ InsertRows("work_items", Fresh(s))
        /\ Remember(s)
        /\ AfterRows(s)
        /\ UNCHANGED <<chainVars, header, headerBuf, checkpoint, boundVars>>
    BY <1>1 DEF EnqueueWork
  <2>2. /\ table' \in [Tables -> SUBSET Logs]
        /\ rowBuf' \in [Tables -> SUBSET Logs]
    BY <2>1, InsertRowsTypes DEF Fresh, Tables
  <2>3. recent' \in [Scanners -> SUBSET Logs]
    BY <2>1 DEF Remember
  <2>4. CASE UpdatesCheckpoint(mode[s])
    <3>1. /\ Goto(s, "get_checkpoint")
          /\ UNCHANGED <<rangeVars, fetchVars>>
      BY <2>1, <2>4 DEF AfterRows
    <3>2. pc' \in [Scanners -> PCs] /\ \A p \in Scanners : LocalsOK(p)'
      BY <2>1, <3>1, RangeLocals DEF PCs
    <3> QED
      BY <2>1, <2>2, <2>3, <3>1, <3>2
  <2>5. CASE ~UpdatesCheckpoint(mode[s])
    <3>1. NextRange(s)
      BY <2>1, <2>5 DEF AfterRows
    <3> QED
      BY <2>1, <2>2, <2>3, <3>1, NextRangeTypes
  <2> QED
    BY <2>4, <2>5
<1>2. CASE GetCheckpoint(s)
  <2>1. /\ pc[s] = "get_checkpoint" /\ Goto(s, "insert_checkpoint")
        /\ current' = [current EXCEPT ![s] = checkpoint]
        /\ UNCHANGED <<chainVars, storeVars, checkpoint, recent, rangeVars,
                       logs, headers, boundVars>>
    BY <1>2 DEF GetCheckpoint
  <2>2. pc' \in [Scanners -> PCs] /\ \A p \in Scanners : LocalsOK(p)'
    BY <2>1, RangeLocals DEF PCs
  <2> QED
    BY <2>1, <2>2
<1>3. CASE InsertCheckpoint(s)
  <2>1. /\ pc[s] = "insert_checkpoint" /\ NextRange(s)
        /\ checkpoint' = IF Behind(s) THEN checkpoint ELSE upper[s]
        /\ UNCHANGED <<chainVars, storeVars, recent, boundVars>>
    BY <1>3 DEF InsertCheckpoint
  <2>2. checkpoint' \in Blocks \cup {NoCheckpoint}
    <3>1. upper[s] \in Int /\ cursor[s] \in Int /\ end[s] \in 0 .. MaxBlock
          /\ LocalsOK(s)
      OBVIOUS
    <3>2. 1 <= cursor[s] /\ cursor[s] <= upper[s] /\ upper[s] <= end[s]
      BY <2>1, <3>1 DEF LocalsOK, Scanning
    <3>3. upper[s] \in Blocks
      BY <3>1, <3>2 DEF Blocks
    <3> QED
      BY <2>1, <3>3
  <2> QED
    BY <2>1, <2>2, NextRangeTypes
<1> QED
  BY <1>1, <1>2, <1>3

LEMMA FailureTypes ==
  ASSUME TypeInv, NEW s \in Scanners,
         EnqueueRaises(s) \/ Raises(s) \/ Crash(s)
  PROVE  TypeInv'
<1> USE ScannerParameters
    DEF TypeInv, TypeOK, chainVars, storeVars, rangeVars, fetchVars, boundVars
<1>1. /\ LeaveScan(s, "idle")
      /\ UNCHANGED <<chainVars, storeVars, checkpoint, losses>>
  BY DEF EnqueueRaises, Raises, Crash
<1>2. faults' \in 0 .. MaxFaults
  BY DEF EnqueueRaises, Raises, Crash, Fault
<1>3. recent' \in [Scanners -> SUBSET Logs]
  BY DEF EnqueueRaises, Raises, Crash, Remember
<1> QED
  BY <1>1, <1>2, <1>3, LeaveScanTypes

LEMMA ServerTypes ==
  ASSUME TypeInv,
         \/ FlushHeaders \/ LoseBuffers
         \/ \E t \in Tables : FlushRows(t)
         \/ \E s \in Scanners, r \in Logs : DedupLapses(s, r)
  PROVE  TypeInv'
<1> USE ScannerParameters
    DEF TypeInv, TypeOK, chainVars, storeVars, rangeVars, fetchVars, boundVars
<1>1. NoHeaders \in [Blocks -> Forks \cup {NoFork}]
  BY DEF NoHeaders
<1>2. CASE FlushHeaders
  <2>1. TypeOK'
    BY <1>1, <1>2, ObservedTypes DEF FlushHeaders
  <2> QED
    BY <1>2, <2>1, LocalsStay DEF FlushHeaders
<1>3. CASE LoseBuffers
  <2>1. TypeOK'
    BY <1>1, <1>3 DEF LoseBuffers
  <2> QED
    BY <1>3, <2>1, LocalsStay DEF LoseBuffers
<1>4. ASSUME NEW t \in Tables, FlushRows(t)
      PROVE  TypeInv'
  <2>1. table' \in [Tables -> SUBSET Logs] /\ rowBuf' \in [Tables -> SUBSET Logs]
    BY <1>4 DEF FlushRows
  <2>2. TypeOK'
    BY <1>4, <2>1 DEF FlushRows
  <2> QED
    BY <1>4, <2>2, LocalsStay DEF FlushRows
<1>5. ASSUME NEW s \in Scanners, NEW r \in Logs, DedupLapses(s, r)
      PROVE  TypeInv'
  <2>1. recent' \in [Scanners -> SUBSET Logs]
    BY <1>5 DEF DedupLapses
  <2>2. TypeOK'
    BY <1>5, <2>1 DEF DedupLapses
  <2> QED
    BY <1>5, <2>2, LocalsStay DEF DedupLapses
<1> QED
  BY <1>2, <1>3, <1>4, <1>5

LEMMA TypeStep ==
  TypeInv /\ [Next]_vars => TypeInv'
<1> SUFFICES ASSUME TypeInv, [Next]_vars PROVE TypeInv'
  OBVIOUS
<1>1. CASE Mine \/ Reorg
  BY <1>1, ChainTypes
<1>2. ASSUME NEW s \in Scanners,
             \/ ServiceStep(s) \/ BeginBackfill(s) \/ BeginRepair(s)
             \/ RangeStep(s)
             \/ EnqueueRaises(s) \/ Raises(s) \/ Crash(s)
             \/ \E r \in Logs : DedupLapses(s, r)
      PROVE  TypeInv'
  <2>1. CASE RangeStep(s)
    BY <2>1, FetchTypes, StoreTypes, CommitTypes DEF RangeStep
  <2> QED
    BY <1>2, <2>1, ServiceTypes, FailureTypes, ServerTypes
<1>3. CASE FlushHeaders \/ (\E t \in Tables : FlushRows(t)) \/ LoseBuffers
  BY <1>3, ServerTypes
<1>4. CASE UNCHANGED vars
  <2>1. TypeOK'
    BY <1>4 DEF TypeInv, TypeOK, vars, chainVars, storeVars, rangeVars,
                fetchVars, boundVars
  <2> QED
    BY <1>4, <2>1, LocalsStay DEF TypeInv, vars, rangeVars
<1> QED
  BY <1>1, <1>2, <1>3, <1>4 DEF Next

LEMMA TypeInvariant == Spec => []TypeInv
<1> QED
  BY TypeInit, TypeStep, PTL DEF Spec

(* The scanner's state always has its type: in particular no range runs    *)
(* past the chain, and no range size leaves the bounds of the              *)
(* configuration, however ranges are halved and doubled (historical.py,    *)
(* scan; rpc.py, get_logs).                                                *)
THEOREM TypeCorrect == Spec => []TypeOK
<1>1. TypeInv => TypeOK
  BY DEF TypeInv
<1> QED
  BY TypeInvariant, <1>1, PTL

-----------------------------------------------------------------------------
(* What a checkpoint covers.                                               *)

(* Acknowledged rows stay: nothing was lost, or rows never wait in a       *)
(* buffer.                                                                 *)
Lossless == losses = 0 \/ AsyncInsertWait

BuffersUnused == AsyncInsertWait => \A t \in Tables : rowBuf[t] = {}

(* The tables whose rows a checkpoint vouches for.  With suppression the   *)
(* work of a range may be written by nobody (EnqueueRaises).               *)
CommitTables == IF Suppress THEN RangeTables ELSE Tables

Covered(b) == \A t \in CommitTables : CoveredBy(b, Acknowledged(t))

Committing == {"get_checkpoint", "insert_checkpoint"}
AfterDerived == {"enqueue_work"} \cup Committing
AfterEvents == {"store_derived"} \cup AfterDerived
AfterRawLogs == {"store_events"} \cup AfterEvents
AfterLogs == {"get_blocks", "store_blocks", "store_raw_logs"} \cup AfterRawLogs

(* The logs of the whole range are in memory ...                           *)
LogsComplete(s) ==
  pc[s] \in AfterLogs => \A b \in cursor[s] .. upper[s] : CoveredBy(b, logs[s])

(* ... and in every table that was written so far.                         *)
RowsWritten(s) ==
  /\ pc[s] \in AfterRawLogs => logs[s] \subseteq Acknowledged("raw_rpc_logs")
  /\ pc[s] \in AfterEvents => logs[s] \subseteq Acknowledged("decoded_events")
  /\ pc[s] \in AfterDerived => logs[s] \subseteq Acknowledged("derived")
  /\ pc[s] \in Committing /\ ~Suppress =>
       logs[s] \subseteq Acknowledged("work_items")

(* Everything below the range of a scan that commits is covered.           *)
PrefixCovered(s) ==
  Scanning(s) /\ UpdatesCheckpoint(mode[s]) =>
    \A b \in Blocks : Start <= b /\ b < cursor[s] => Covered(b)

RangeOK(s) == LogsComplete(s) /\ RowsWritten(s) /\ PrefixCovered(s)

CommitOK(s) == pc[s] \in Committing => UpdatesCheckpoint(mode[s])

RangesInv ==
  /\ BuffersUnused
  /\ Lossless => /\ \A b \in Committed : Covered(b)
                 /\ \A s \in Scanners : RangeOK(s) /\ CommitOK(s)

(* What the operator may do: a backfill starts no higher than where the    *)
(* scan would resume.  Nothing in the code checks it.                      *)
NoGap ==
  \A s \in Backfills :
    BeginBackfill(s) => cursor'[s] <= Larger(Start, ResumeBlock(checkpoint))

(* What a step does to what was read and written before: forks only get    *)
(* newer, acknowledged rows stay.                                          *)
Grown ==
  /\ \A b \in Blocks : canon[b] <= canon'[b]
  /\ \A t \in Tables : Acknowledged(t) \subseteq Acknowledged(t)'

LEMMA CoveredStays ==
  ASSUME TypeOK, TypeOK', NEW b \in Blocks, canon[b] <= canon'[b],
         NEW rows, NEW more, rows \subseteq more, CoveredBy(b, rows)
  PROVE  \E v \in 0 .. canon'[b] : <<b, v>> \in Logs => <<b, v>> \in more
<1> USE ScannerParameters DEF TypeOK, Forks
<1>1. PICK v \in 0 .. canon[b] : <<b, v>> \in Logs => <<b, v>> \in rows
  BY DEF CoveredBy
<1>2. v \in 0 .. canon'[b]
  <2>1. canon[b] \in Int /\ canon'[b] \in Int
    OBVIOUS
  <2> QED
    BY <2>1
<1> QED
  BY <1>1, <1>2

LEMMA GrownCovered ==
  ASSUME TypeOK, TypeOK', Grown, NEW b \in Blocks, Covered(b)
  PROVE  Covered(b)'
<1>1. ASSUME NEW t \in CommitTables
      PROVE  CoveredBy(b, Acknowledged(t))'
  <2>1. t \in Tables
    BY DEF CommitTables, RangeTables
  <2>2. /\ CoveredBy(b, Acknowledged(t))
        /\ Acknowledged(t) \subseteq Acknowledged(t)'
        /\ canon[b] <= canon'[b]
    BY <2>1 DEF Covered, Grown
  <2>3. \E v \in 0 .. canon'[b] : <<b, v>> \in Logs => <<b, v>> \in Acknowledged(t)'
    BY <2>2, CoveredStays
  <2> QED
    BY <2>3 DEF CoveredBy
<1> QED
  BY <1>1 DEF Covered, CommitTables

(* What the locals promise outlives any step that leaves them alone.       *)
LEMMA LogsStay ==
  ASSUME TypeInv, TypeOK', Grown, NEW s \in Scanners,
         pc[s] \in AfterLogs, LogsComplete(s),
         cursor'[s] = cursor[s], upper'[s] = upper[s], logs'[s] = logs[s]
  PROVE  LogsComplete(s)'
<1> SUFFICES ASSUME NEW b \in cursor[s] .. upper[s]
             PROVE  CoveredBy(b, logs[s])'
  BY DEF LogsComplete, AfterLogs, AfterRawLogs, AfterEvents, AfterDerived, Committing
<1>1. CoveredBy(b, logs[s])
  BY DEF LogsComplete
<1>2. b \in Blocks
  <2>1. LocalsOK(s) /\ cursor[s] \in Int /\ upper[s] \in 0 .. MaxBlock
    BY DEF TypeInv, TypeOK
  <2>2. 1 <= cursor[s]
    BY <2>1 DEF LocalsOK, Scanning, AfterLogs, AfterRawLogs, AfterEvents,
                AfterDerived, Committing
  <2> QED
    BY <2>1, <2>2, ScannerParameters DEF Blocks
<1>3. canon[b] <= canon'[b]
  BY <1>2 DEF Grown
<1>4. \E v \in 0 .. canon'[b] : <<b, v>> \in Logs => <<b, v>> \in logs[s]
  BY <1>1, <1>2, <1>3, CoveredStays DEF TypeInv
<1> QED
  BY <1>4 DEF CoveredBy

LEMMA PrefixStays ==
  ASSUME TypeInv, TypeOK', Grown, NEW s \in Scanners,
         Scanning(s), PrefixCovered(s),
         mode'[s] = mode[s], cursor'[s] = cursor[s]
  PROVE  PrefixCovered(s)'
<1> SUFFICES ASSUME UpdatesCheckpoint(mode[s]),
                    NEW b \in Blocks, Start <= b, b < cursor[s]
             PROVE  Covered(b)'
  BY DEF PrefixCovered, Scanning, UpdatesCheckpoint
<1>1. Covered(b)
  BY DEF PrefixCovered
<1> QED
  BY <1>1, GrownCovered DEF TypeInv

(* Out of a scan nothing is promised, whatever comes of it.                *)
LEMMA OutOfScan ==
  ASSUME NEW s \in Scanners, pc'[s] \in {"idle", "rescan"}
  PROVE  RangeOK(s)' /\ CommitOK(s)'
BY DEF RangeOK, CommitOK, LogsComplete, RowsWritten, PrefixCovered, Scanning,
       AfterLogs, AfterRawLogs, AfterEvents, AfterDerived, Committing

(* A scanner that does not move keeps what its locals promise.             *)
LEMMA RangeStays ==
  ASSUME TypeInv, TypeOK', Grown, NEW s \in Scanners, RangeOK(s),
         pc'[s] = pc[s], mode'[s] = mode[s], cursor'[s] = cursor[s],
         upper'[s] = upper[s], logs'[s] = logs[s]
  PROVE  RangeOK(s)'
<1>1. LogsComplete(s)'
  <2>1. CASE pc[s] \in AfterLogs
    BY <2>1, LogsStay DEF RangeOK
  <2>2. CASE pc[s] \notin AfterLogs
    BY <2>2 DEF LogsComplete, AfterLogs, AfterRawLogs, AfterEvents,
                AfterDerived, Committing
  <2> QED
    BY <2>1, <2>2
<1>2. RowsWritten(s)'
  <2>1. \A t \in Tables : logs[s] \subseteq Acknowledged(t) => logs[s] \subseteq Acknowledged(t)'
    BY DEF Grown
  <2>2. RowsWritten(s) /\ Tables = {"raw_rpc_logs", "decoded_events", "derived", "work_items"}
    BY DEF RangeOK, Tables
  <2> QED
    BY <2>1, <2>2
       DEF RowsWritten, AfterRawLogs, AfterEvents, AfterDerived, Committing
<1>3. PrefixCovered(s)'
  <2>1. CASE Scanning(s)
    BY <2>1, PrefixStays DEF RangeOK
  <2>2. CASE ~Scanning(s)
    BY <2>2 DEF PrefixCovered, Scanning
  <2> QED
    BY <2>1, <2>2
<1> QED
  BY <1>1, <1>2, <1>3 DEF RangeOK

(* A scanner that goes on to the next call of its range.                   *)
LEMMA RangeMoves ==
  ASSUME TypeInv, TypeOK', Grown, NEW s \in Scanners, RangeOK(s),
         pc[s] \in AfterLogs, RowsWritten(s)',
         mode'[s] = mode[s], cursor'[s] = cursor[s],
         upper'[s] = upper[s], logs'[s] = logs[s]
  PROVE  RangeOK(s)'
<1>1. LogsComplete(s)'
  BY LogsStay DEF RangeOK
<1>2. PrefixCovered(s)'
  BY PrefixStays DEF RangeOK, Scanning, AfterLogs, AfterRawLogs, AfterEvents,
                     AfterDerived, Committing
<1> QED
  BY <1>1, <1>2 DEF RangeOK

(* What a range has covered by the time it commits.                        *)
LEMMA RangeDone ==
  ASSUME TypeInv, NEW s \in Scanners, RangeOK(s), CommitOK(s),
         pc[s] \in Committing, NEW b \in Blocks, Start <= b, b <= upper[s]
  PROVE  Covered(b)
<1>1. cursor[s] \in Int /\ upper[s] \in Int
  BY DEF TypeInv, TypeOK
<1>2. CASE b < cursor[s]
  <2>1. Scanning(s) /\ UpdatesCheckpoint(mode[s])
    BY DEF CommitOK, Committing, Scanning
  <2> QED
    BY <1>2, <2>1 DEF RangeOK, PrefixCovered
<1>3. CASE ~(b < cursor[s])
  <2>1. b \in cursor[s] .. upper[s]
    BY <1>1, <1>3 DEF Blocks
  <2>2. CoveredBy(b, logs[s])
    BY <2>1 DEF RangeOK, LogsComplete, AfterLogs, AfterRawLogs, AfterEvents,
                AfterDerived
  <2>3. \A t \in CommitTables : logs[s] \subseteq Acknowledged(t)
    BY DEF RangeOK, RowsWritten, CommitTables, RangeTables, Tables,
           AfterRawLogs, AfterEvents, AfterDerived
  <2> QED
    BY <2>2, <2>3 DEF Covered, CoveredBy
<1> QED
  BY <1>2, <1>3

(* The next range, or the end of the scan.                                 *)
LEMMA NextRangeOK ==
  ASSUME TypeInv, NEW s \in Scanners, Scanning(s), NextRange(s),
         UpdatesCheckpoint(mode[s]) =>
           \A b \in Blocks : Start <= b /\ b <= upper[s] => Covered(b)'
  PROVE  RangeOK(s)' /\ CommitOK(s)'
<1>1. CASE upper[s] >= end[s]
  <2>1. LeaveScan(s, IF mode[s] = "forward" THEN "rescan" ELSE "idle")
    BY <1>1 DEF NextRange
  <2>2. pc'[s] \in {"idle", "rescan"}
    BY <2>1 DEF LeaveScan, Goto, TypeInv, TypeOK
  <2> QED
    BY <2>2, OutOfScan
<1>2. CASE ~(upper[s] >= end[s])
  <2>1. /\ cursor'[s] = upper[s] + 1 /\ pc'[s] = "get_logs" /\ mode' = mode
    BY <1>2 DEF NextRange, Goto, TypeInv, TypeOK
  <2>2. upper[s] \in Int
    BY DEF TypeInv, TypeOK
  <2>3. \A b \in Blocks : b < upper[s] + 1 => b <= upper[s]
    BY <2>2 DEF Blocks
  <2>4. PrefixCovered(s)'
    BY <2>1, <2>3 DEF PrefixCovered, UpdatesCheckpoint
  <2> QED
    BY <2>1, <2>4 DEF RangeOK, CommitOK, LogsComplete, RowsWritten, AfterLogs,
                      AfterRawLogs, AfterEvents, AfterDerived, Committing
<1> QED
  BY <1>1, <1>2

-----------------------------------------------------------------------------
(* What one step does to the rows, and to the scanners it is not a step of. *)

LEMMA InsertedRows ==
  ASSUME TypeOK, NEW t \in Tables, NEW rows \in SUBSET Logs, InsertRows(t, rows)
  PROVE  /\ \A u \in Tables : Acknowledged(u) \subseteq Acknowledged(u)'
         /\ rows \subseteq Acknowledged(t)'
         /\ BuffersUnused => BuffersUnused'
<1> USE DEF TypeOK
<1>1. CASE AsyncInsertWait
  <2>1. table' = [table EXCEPT ![t] = table[t] \cup rows] /\ rowBuf' = rowBuf
    BY <1>1 DEF InsertRows
  <2> QED
    BY <2>1 DEF Acknowledged, BuffersUnused
<1>2. CASE ~AsyncInsertWait
  <2>1. rowBuf' = [rowBuf EXCEPT ![t] = rowBuf[t] \cup rows] /\ table' = table
    BY <1>2 DEF InsertRows
  <2> QED
    BY <1>2, <2>1 DEF Acknowledged, BuffersUnused
<1> QED
  BY <1>1, <1>2

(* The steps, by what they do to rows and forks.                           *)
LEMMA StepShapes ==
  ASSUME TypeInv, [Next]_vars
  PROVE  \/ UNCHANGED <<canon, table, rowBuf, losses>>
         \/ Reorg
         \/ \E t \in Tables, rows \in SUBSET Logs :
              InsertRows(t, rows) /\ UNCHANGED <<canon, losses>>
         \/ \E t \in Tables : FlushRows(t)
         \/ LoseBuffers
<1> USE DEF storeVars, chainVars, boundVars
<1>1. CASE Mine
  BY <1>1 DEF Mine
<1>2. ASSUME NEW s \in Scanners, RangeStep(s)
      PROVE  \/ UNCHANGED <<canon, table, rowBuf, losses>>
             \/ \E t \in Tables, rows \in SUBSET Logs :
                  InsertRows(t, rows) /\ UNCHANGED <<canon, losses>>
  <2>1. CASE GetLogs(s) \/ GetBlocks(s) \/ GetCheckpoint(s)
    BY <2>1 DEF GetLogs, GetBlocks, GetCheckpoint
  <2>2. CASE HalveRange(s) \/ RangeExhausted(s)
    BY <2>2 DEF HalveRange, RangeExhausted
  <2>3. CASE StoreBlocks(s)
    BY <2>3 DEF StoreBlocks
  <2>4. CASE StoreRawLogs(s) \/ StoreEvents(s) \/ EnqueueWork(s)
    <3>1. logs[s] \in SUBSET Logs /\ Fresh(s) \in SUBSET Logs
      BY DEF TypeInv, TypeOK, Fresh
    <3>2. PICK t \in Tables, rows \in {logs[s], Fresh(s)} :
            InsertRows(t, rows) /\ UNCHANGED <<canon, losses>>
      BY <2>4 DEF StoreRawLogs, StoreEvents, EnqueueWork, Tables
    <3> QED
      BY <3>1, <3>2
  <2>5. CASE InsertCheckpoint(s)
    BY <2>5 DEF InsertCheckpoint
  <2> QED
    BY <1>2, <2>1, <2>2, <2>3, <2>4, <2>5 DEF RangeStep
<1>3. ASSUME NEW s \in Scanners,
             \/ ServiceStep(s) \/ BeginBackfill(s) \/ BeginRepair(s)
             \/ EnqueueRaises(s) \/ Raises(s) \/ Crash(s)
             \/ \E r \in Logs : DedupLapses(s, r)
      PROVE  UNCHANGED <<canon, table, rowBuf, losses>>
  BY <1>3 DEF ServiceStep, BeginForward, NothingNew, BeginRescan, EmptyRescan,
              BeginBackfill, BeginRepair, StartRange, EnqueueRaises, Raises,
              Crash, DedupLapses
<1>4. CASE FlushHeaders
  BY <1>4 DEF FlushHeaders
<1>5. CASE UNCHANGED vars
  BY <1>5 DEF vars
<1> QED
  BY <1>1, <1>2, <1>3, <1>4, <1>5 DEF Next

LEMMA GrowStep ==
  ASSUME TypeInv, TypeInv', BuffersUnused, [Next]_vars
  PROVE  /\ BuffersUnused'
         /\ Lossless' => Lossless /\ Grown
<1> USE DEF TypeInv, TypeOK
<1>0. canon \in [Blocks -> Int] /\ canon' \in [Blocks -> Int]
  BY ScannerParameters DEF Forks
<1>1. CASE UNCHANGED <<canon, table, rowBuf, losses>>
  BY <1>0, <1>1 DEF BuffersUnused, Lossless, Grown, Acknowledged
<1>2. CASE Reorg
  <2>1. /\ \A b \in Blocks : canon[b] <= canon'[b]
        /\ UNCHANGED <<table, rowBuf, losses>>
    BY <1>0, <1>2 DEF Reorg, storeVars, boundVars
  <2> QED
    BY <2>1 DEF BuffersUnused, Lossless, Grown, Acknowledged
<1>3. ASSUME NEW t \in Tables, NEW rows \in SUBSET Logs,
             InsertRows(t, rows), UNCHANGED <<canon, losses>>
      PROVE  BuffersUnused' /\ (Lossless' => Lossless /\ Grown)
  <2>1. \A u \in Tables : Acknowledged(u) \subseteq Acknowledged(u)'
    BY <1>3, InsertedRows
  <2>2. BuffersUnused'
    BY <1>3, InsertedRows
  <2>3. \A b \in Blocks : canon[b] <= canon'[b]
    BY <1>0, <1>3
  <2> QED
    BY <1>3, <2>1, <2>2, <2>3 DEF Lossless, Grown
<1>4. ASSUME NEW t \in Tables, FlushRows(t)
      PROVE  BuffersUnused' /\ (Lossless' => Lossless /\ Grown)
  <2>1. /\ table' = [table EXCEPT ![t] = table[t] \cup rowBuf[t]]
        /\ rowBuf' = [rowBuf EXCEPT ![t] = {}]
        /\ UNCHANGED <<canon, losses>>
    BY <1>4 DEF FlushRows, chainVars, boundVars
  <2> QED
    BY <1>0, <2>1 DEF BuffersUnused, Lossless, Grown, Acknowledged
<1>5. CASE LoseBuffers
  <2>1. /\ losses' = losses + 1 /\ rowBuf' = [t \in Tables |-> {}]
        /\ UNCHANGED <<canon, table>>
    BY <1>5 DEF LoseBuffers, chainVars
  <2>2. Lossless' => AsyncInsertWait
    <3>1. losses \in Nat
      BY ScannerParameters
    <3> QED
      BY <2>1, <3>1 DEF Lossless
  <2> QED
    BY <1>0, <2>1, <2>2 DEF BuffersUnused, Lossless, Grown, Acknowledged
<1> QED
  BY <1>1, <1>2, <1>3, <1>4, <1>5, StepShapes

(* No step of s touches the locals of another scanner.                     *)
Alone(s) ==
  \A p \in Scanners \ {s} :
    /\ pc'[p] = pc[p] /\ mode'[p] = mode[p] /\ cursor'[p] = cursor[p]
    /\ upper'[p] = upper[p] /\ logs'[p] = logs[p] /\ current'[p] = current[p]

LEMMA LeaveAlone ==
  ASSUME TypeInv, NEW s \in Scanners, NEW label, LeaveScan(s, label)
  PROVE  Alone(s)
BY DEF LeaveScan, ClearFetched, Goto, Alone, TypeInv, TypeOK

LEMMA NextRangeAlone ==
  ASSUME TypeInv, NEW s \in Scanners, NextRange(s)
  PROVE  Alone(s)
<1>1. CASE upper[s] >= end[s]
  BY <1>1, LeaveAlone DEF NextRange
<1>2. CASE ~(upper[s] >= end[s])
  BY <1>2 DEF NextRange, ClearFetched, Goto, Alone, TypeInv, TypeOK
<1> QED
  BY <1>1, <1>2

LEMMA StepAlone ==
  ASSUME TypeInv, NEW s \in Scanners,
         \/ ServiceStep(s) \/ BeginBackfill(s) \/ BeginRepair(s)
         \/ RangeStep(s)
         \/ EnqueueRaises(s) \/ Raises(s) \/ Crash(s)
         \/ \E r \in Logs : DedupLapses(s, r)
  PROVE  Alone(s)
<1> USE DEF rangeVars, fetchVars
<1>1. CASE ServiceStep(s) \/ BeginBackfill(s) \/ BeginRepair(s)
  BY <1>1 DEF ServiceStep, BeginForward, NothingNew, BeginRescan, EmptyRescan,
              BeginBackfill, BeginRepair, StartRange, Goto, Alone, TypeInv, TypeOK
<1>2. CASE EnqueueRaises(s) \/ Raises(s) \/ Crash(s) \/ RangeExhausted(s)
  BY <1>2, LeaveAlone DEF EnqueueRaises, Raises, Crash, RangeExhausted
<1>3. CASE \E r \in Logs : DedupLapses(s, r)
  BY <1>3 DEF DedupLapses, Alone
<1>4. CASE GetLogs(s) \/ HalveRange(s) \/ GetBlocks(s) \/ GetCheckpoint(s)
  BY <1>4 DEF GetLogs, HalveRange, GetBlocks, GetCheckpoint, Goto, Alone,
              TypeInv, TypeOK
<1>5. CASE StoreBlocks(s) \/ StoreRawLogs(s) \/ StoreEvents(s)
  BY <1>5 DEF StoreBlocks, StoreRawLogs, StoreEvents, Goto, Alone, TypeInv, TypeOK
<1>6. CASE EnqueueWork(s)
  <2>1. CASE UpdatesCheckpoint(mode[s])
    BY <1>6, <2>1 DEF EnqueueWork, AfterRows, Goto, Alone, TypeInv, TypeOK
  <2>2. CASE ~UpdatesCheckpoint(mode[s])
    BY <1>6, <2>2, NextRangeAlone DEF EnqueueWork, AfterRows
  <2> QED
    BY <2>1, <2>2
<1>7. CASE InsertCheckpoint(s)
  BY <1>7, NextRangeAlone DEF InsertCheckpoint
<1> QED
  BY <1>1, <1>2, <1>3, <1>4, <1>5, <1>6, <1>7 DEF RangeStep

-----------------------------------------------------------------------------
(* Every step preserves RangesInv.                                         *)

(* A scan that begins: below its first block everything is covered.        *)
LEMMA BeginRange ==
  ASSUME TypeInv, TypeOK', Grown, \A b \in Committed : Covered(b),
         NEW s \in Scanners, NEW m \in Modes, NEW from \in Int, NEW to,
         StartRange(s, m, from, to),
         UpdatesCheckpoint(m) =>
           from <= ResumeBlock(checkpoint) \/ from <= Start
  PROVE  RangeOK(s)' /\ CommitOK(s)'
<1>1. pc'[s] = "get_logs" /\ mode'[s] = m /\ cursor'[s] = from
  BY DEF StartRange, Goto, TypeInv, TypeOK
<1>2. ASSUME UpdatesCheckpoint(m), NEW b \in Blocks, Start <= b, b < from
      PROVE  Covered(b)'
  <2>1. checkpoint \in Nat /\ b \in Nat /\ Start \in Nat
    BY ScannerParameters DEF TypeInv, TypeOK, Blocks, NoCheckpoint
  <2>2. b < ResumeBlock(checkpoint)
    BY <1>2, <2>1 DEF ResumeBlock
  <2>3. b \in Committed
    BY <1>2, <2>1, <2>2 DEF Committed, ResumeBlock, NoCheckpoint
  <2> QED
    BY <2>3, GrownCovered DEF TypeInv
<1>3. PrefixCovered(s)'
  BY <1>1, <1>2 DEF PrefixCovered, UpdatesCheckpoint
<1> QED
  BY <1>1, <1>3 DEF RangeOK, CommitOK, LogsComplete, RowsWritten, AfterLogs,
                    AfterRawLogs, AfterEvents, AfterDerived, Committing

LEMMA BeginOK ==
  ASSUME TypeInv, TypeOK', Grown, \A b \in Committed : Covered(b), NoGap,
         NEW s \in Scanners,
         ServiceStep(s) \/ BeginBackfill(s) \/ BeginRepair(s)
  PROVE  RangeOK(s)' /\ CommitOK(s)'
<1>1. /\ SafeHead \in 0 .. MaxBlock
      /\ ResumeBlock(checkpoint) \in 1 .. MaxBlock + 1
  BY SafeHeadTypes DEF TypeInv
<1>2. CASE BeginForward(s)
  BY <1>1, <1>2, BeginRange, ScannerParameters DEF BeginForward, Modes
<1>3. CASE BeginRescan(s)
  <2>1. StartRange(s, "rescan", Larger(1, SafeHead - Finality + 1), SafeHead)
    BY <1>3 DEF BeginRescan
  <2>2. Larger(1, SafeHead - Finality + 1) \in Int
    BY <1>1, ScannerParameters DEF Larger
  <2> QED
    BY <2>1, <2>2, BeginRange DEF Modes, UpdatesCheckpoint
<1>4. CASE BeginBackfill(s)
  <2>1. s \in Backfills
    BY <1>4 DEF BeginBackfill
  <2>2. PICK bound \in FromBlocks, to \in Blocks :
          StartRange(s, "backfill",
                     IF bound = NoBound THEN ResumeBlock(checkpoint) ELSE bound,
                     Smaller(to, SafeHead))
    BY <1>4 DEF BeginBackfill
  <2> DEFINE from == IF bound = NoBound THEN ResumeBlock(checkpoint) ELSE bound
  <2>3. from \in Int
    BY <1>1, ScannerParameters DEF Blocks, NoBound
  <2>4. cursor'[s] = from
    BY <2>2 DEF StartRange, TypeInv, TypeOK
  <2>5. cursor'[s] <= Larger(Start, ResumeBlock(checkpoint))
    BY <1>4, <2>1 DEF NoGap
  <2>6. from <= ResumeBlock(checkpoint) \/ from <= Start
    BY <2>4, <2>5 DEF Larger
  <2>7. StartRange(s, "backfill", from, Smaller(to, SafeHead))
    BY <2>2
  <2> HIDE DEF from
  <2> QED
    BY <2>3, <2>6, <2>7, BeginRange DEF Modes
<1>5. CASE BeginRepair(s)
  <2>1. PICK from \in Blocks, to \in Blocks :
          StartRange(s, "repair", from, Smaller(to, SafeHead))
    BY <1>5 DEF BeginRepair
  <2>2. from \in Int
    BY DEF Blocks
  <2> QED
    BY <2>1, <2>2, BeginRange DEF Modes, UpdatesCheckpoint
<1>6. CASE NothingNew(s) \/ EmptyRescan(s)
  <2>1. pc'[s] \in {"idle", "rescan"}
    BY <1>6 DEF NothingNew, EmptyRescan, Goto, TypeInv, TypeOK
  <2> QED
    BY <2>1, OutOfScan
<1> QED
  BY <1>2, <1>3, <1>4, <1>5, <1>6 DEF ServiceStep

LEMMA RangeStepOK ==
  ASSUME TypeInv, TypeOK', Grown, NEW s \in Scanners,
         RangeOK(s), CommitOK(s), RangeStep(s)
  PROVE  RangeOK(s)' /\ CommitOK(s)'
<1> USE DEF rangeVars, fetchVars, AfterLogs, AfterRawLogs, AfterEvents,
            AfterDerived, Committing
<1>0. /\ pc \in [Scanners -> PCs] /\ logs \in [Scanners -> SUBSET Logs]
      /\ upper \in [Scanners -> Int] /\ cursor \in [Scanners -> Int]
  BY DEF TypeInv, TypeOK
<1>1. CASE GetLogs(s)
  <2>1. /\ pc[s] = "get_logs" /\ pc'[s] = "get_blocks"
        /\ mode'[s] = mode[s] /\ cursor'[s] = cursor[s] /\ canon' = canon
        /\ upper'[s] = Top(s)
        /\ logs'[s] = {r \in Logs : r[1] \in Fetched(s) /\ r[2] = canon[r[1]]}
    BY <1>0, <1>1 DEF GetLogs, Goto, chainVars
  <2>2. cursor[s] \in 1 .. MaxBlock /\ Top(s) \in Int /\ Top(s) <= MaxBlock
    <3>1. /\ cursor[s] \in Int /\ size[s] \in Int /\ end[s] \in 0 .. MaxBlock
          /\ LocalsOK(s)
      BY DEF TypeInv, TypeOK
    <3>2. 1 <= cursor[s] /\ cursor[s] <= end[s]
      BY <2>1, <3>1 DEF LocalsOK, Scanning
    <3> QED
      BY <3>1, <3>2, ScannerParameters DEF Top, Smaller
  <2>3. ASSUME NEW b \in cursor[s] .. Top(s)
        PROVE  CoveredBy(b, logs[s])'
    <3>1. b \in Blocks
      BY <2>2, ScannerParameters DEF Blocks
    <3>2. canon[b] \in 0 .. canon'[b]
      BY <2>1, <3>1 DEF TypeInv, TypeOK, Forks
    <3>3. <<b, canon[b]>> \in Logs => <<b, canon[b]>> \in logs'[s]
      BY <2>1 DEF Fetched
    <3> QED
      BY <3>2, <3>3 DEF CoveredBy
  <2>4. LogsComplete(s)'
    BY <2>1, <2>3 DEF LogsComplete
  <2>5. PrefixCovered(s)'
    BY <2>1, PrefixStays DEF Scanning, RangeOK
  <2> QED
    BY <2>1, <2>4, <2>5 DEF RangeOK, CommitOK, RowsWritten
<1>2. CASE HalveRange(s)
  <2>1. /\ pc' = pc /\ mode' = mode /\ cursor' = cursor /\ upper' = upper
        /\ logs' = logs
    BY <1>2 DEF HalveRange
  <2> QED
    BY <2>1, RangeStays DEF CommitOK, UpdatesCheckpoint
<1>3. CASE RangeExhausted(s)
  <2>1. pc'[s] = "idle"
    BY <1>0, <1>3 DEF RangeExhausted, LeaveScan, Goto
  <2> QED
    BY <2>1, OutOfScan
<1>4. CASE GetBlocks(s) \/ StoreBlocks(s)
  <2>1. /\ pc[s] \in {"get_blocks", "store_blocks"}
        /\ pc'[s] \in {"get_blocks", "store_blocks", "store_raw_logs"}
        /\ mode' = mode /\ cursor' = cursor /\ upper' = upper /\ logs' = logs
    BY <1>0, <1>4 DEF GetBlocks, StoreBlocks, Goto
  <2>2. RowsWritten(s)' /\ CommitOK(s)'
    BY <2>1 DEF RowsWritten, CommitOK
  <2> QED
    BY <2>1, <2>2, RangeMoves
<1>5. CASE StoreRawLogs(s) \/ StoreEvents(s)
  <2>1. PICK t \in {"raw_rpc_logs", "decoded_events", "derived"} :
          /\ InsertRows(t, logs[s])
          /\ \/ t = "raw_rpc_logs" /\ pc[s] = "store_raw_logs" /\ pc'[s] = "store_events"
             \/ t = "decoded_events" /\ pc[s] = "store_events" /\ pc'[s] = "store_derived"
             \/ t = "derived" /\ pc[s] = "store_derived" /\ pc'[s] = "enqueue_work"
          /\ mode' = mode /\ cursor' = cursor /\ upper' = upper /\ logs' = logs
    BY <1>0, <1>5 DEF StoreRawLogs, StoreEvents, Goto
  <2>2. logs[s] \subseteq Acknowledged(t)'
    BY <1>0, <2>1, InsertedRows DEF TypeInv, Tables
  <2>3. \A u \in Tables : logs[s] \subseteq Acknowledged(u) => logs[s] \subseteq Acknowledged(u)'
    BY DEF Grown
  <2>4. RowsWritten(s)' /\ CommitOK(s)'
    BY <2>1, <2>2, <2>3 DEF RangeOK, RowsWritten, CommitOK, Tables
  <2> QED
    BY <2>1, <2>4, RangeMoves
<1>6. CASE EnqueueWork(s)
  <2>1. /\ pc[s] = "enqueue_work" /\ InsertRows("work_items", Fresh(s))
        /\ AfterRows(s)
    BY <1>6 DEF EnqueueWork
  <2>2. CASE UpdatesCheckpoint(mode[s])
    <3>1. /\ pc'[s] = "get_checkpoint"
          /\ mode' = mode /\ cursor' = cursor /\ upper' = upper /\ logs' = logs
      BY <1>0, <2>1, <2>2 DEF AfterRows, Goto
    <3>2. Fresh(s) \in SUBSET Logs /\ "work_items" \in Tables
      BY <1>0 DEF Fresh, Tables
    <3>3. Fresh(s) \subseteq Acknowledged("work_items")'
      BY <2>1, <3>2, InsertedRows DEF TypeInv
    <3>4. ~Suppress => logs[s] \subseteq Acknowledged("work_items")'
      BY <3>3 DEF Fresh
    <3>5. \A u \in Tables : logs[s] \subseteq Acknowledged(u) => logs[s] \subseteq Acknowledged(u)'
      BY DEF Grown
    <3>6. RowsWritten(s)' /\ CommitOK(s)'
      BY <2>1, <2>2, <3>1, <3>4, <3>5
         DEF RangeOK, RowsWritten, CommitOK, Tables, UpdatesCheckpoint
    <3> QED
      BY <2>1, <3>1, <3>6, RangeMoves
  <2>3. CASE ~UpdatesCheckpoint(mode[s])
    <3>1. NextRange(s) /\ Scanning(s)
      BY <2>1, <2>3 DEF AfterRows, Scanning
    <3> QED
      BY <2>3, <3>1, NextRangeOK
  <2> QED
    BY <2>2, <2>3
<1>7. CASE GetCheckpoint(s)
  <2>1. /\ pc[s] = "get_checkpoint" /\ pc'[s] = "insert_checkpoint"
        /\ mode' = mode /\ cursor' = cursor /\ upper' = upper /\ logs' = logs
    BY <1>0, <1>7 DEF GetCheckpoint, Goto
  <2>2. \A u \in Tables : logs[s] \subseteq Acknowledged(u) => logs[s] \subseteq Acknowledged(u)'
    BY DEF Grown
  <2>3. RowsWritten(s)' /\ CommitOK(s)'
    BY <2>1, <2>2 DEF RangeOK, RowsWritten, CommitOK, Tables, UpdatesCheckpoint
  <2> QED
    BY <2>1, <2>3, RangeMoves
<1>8. CASE InsertCheckpoint(s)
  <2>1. pc[s] = "insert_checkpoint" /\ NextRange(s)
    BY <1>8 DEF InsertCheckpoint
  <2>2. ASSUME NEW b \in Blocks, Start <= b, b <= upper[s]
        PROVE  Covered(b)'
    BY <2>1, <2>2, RangeDone, GrownCovered DEF TypeInv
  <2> QED
    BY <2>1, <2>2, NextRangeOK DEF Scanning
<1> QED
  BY <1>1, <1>2, <1>3, <1>4, <1>5, <1>6, <1>7, <1>8 DEF RangeStep

(* Only the insert of a scan moves the checkpoint.                         *)
LEMMA CheckpointMoves ==
  ASSUME [Next]_vars, ~(\E s \in Scanners : InsertCheckpoint(s))
  PROVE  checkpoint' = checkpoint
<1>1. ASSUME NEW s \in Scanners, RangeStep(s)
      PROVE  checkpoint' = checkpoint
  BY <1>1 DEF RangeStep, GetLogs, HalveRange, RangeExhausted, GetBlocks,
              StoreBlocks, StoreRawLogs, StoreEvents, EnqueueWork, GetCheckpoint
<1>2. ASSUME NEW s \in Scanners,
             \/ ServiceStep(s) \/ BeginBackfill(s) \/ BeginRepair(s)
             \/ EnqueueRaises(s) \/ Raises(s) \/ Crash(s)
             \/ \E r \in Logs : DedupLapses(s, r)
      PROVE  checkpoint' = checkpoint
  BY <1>2 DEF ServiceStep, BeginForward, NothingNew, BeginRescan, EmptyRescan,
              BeginBackfill, BeginRepair, StartRange, EnqueueRaises, Raises,
              Crash, DedupLapses
<1>3. CASE Mine \/ Reorg \/ FlushHeaders \/ (\E t \in Tables : FlushRows(t)) \/ LoseBuffers
  BY <1>3 DEF Mine, Reorg, FlushHeaders, FlushRows, LoseBuffers
<1>4. CASE UNCHANGED vars
  BY <1>4 DEF vars
<1> QED
  BY <1>1, <1>2, <1>3, <1>4 DEF Next

LEMMA RangesInit ==
  Init => RangesInv
<1> SUFFICES ASSUME Init PROVE RangesInv
  OBVIOUS
<1>1. \A s \in Scanners : RangeOK(s) /\ CommitOK(s)
  BY DEF Init, RangeOK, CommitOK, LogsComplete, RowsWritten, PrefixCovered,
         Scanning, AfterLogs, AfterRawLogs, AfterEvents, AfterDerived, Committing
<1>2. Committed = {}
  BY ScannerParameters DEF Init, Committed, NoCheckpoint, Blocks
<1>3. BuffersUnused
  BY DEF Init, BuffersUnused
<1> QED
  BY <1>1, <1>2, <1>3 DEF RangesInv

LEMMA RangesStep ==
  ASSUME TypeInv, TypeInv', RangesInv, NoGap, [Next]_vars
  PROVE  RangesInv'
<1>1. /\ BuffersUnused'
      /\ Lossless' => Lossless /\ Grown
  BY GrowStep DEF RangesInv
<1>2. TypeOK /\ TypeOK'
  BY DEF TypeInv
<1>3. ASSUME Lossless'
      PROVE  \A b \in Committed' : Covered(b)'
  <2>1. Lossless /\ Grown
    BY <1>1, <1>3
  <2>2. ASSUME NEW b \in Blocks, Covered(b)
        PROVE  Covered(b)'
    BY <1>2, <2>1, <2>2, GrownCovered
  <2>3. CASE checkpoint' = checkpoint
    <3>1. Committed' = Committed
      BY <2>3 DEF Committed
    <3>2. \A b \in Committed : b \in Blocks /\ Covered(b)
      BY <2>1 DEF RangesInv, Committed
    <3> QED
      BY <2>2, <3>1, <3>2
  <2>4. ASSUME NEW s \in Scanners, InsertCheckpoint(s), checkpoint' # checkpoint
        PROVE  \A b \in Committed' : Covered(b)'
    <3>1. checkpoint' = upper[s] /\ pc[s] \in Committing
      BY <2>4 DEF InsertCheckpoint, Committing
    <3>2. \A b \in Committed' : b \in Blocks /\ Start <= b /\ b <= upper[s]
      BY <3>1 DEF Committed
    <3>3. \A b \in Committed' : Covered(b)
      BY <2>1, <3>1, <3>2, RangeDone DEF RangesInv
    <3> QED
      BY <2>2, <3>2, <3>3
  <2> QED
    BY <2>3, <2>4, CheckpointMoves
<1>4. ASSUME Lossless', NEW p \in Scanners
      PROVE  RangeOK(p)' /\ CommitOK(p)'
  <2>1. Grown /\ RangeOK(p) /\ CommitOK(p) /\ \A b \in Committed : Covered(b)
    BY <1>1, <1>4 DEF RangesInv
  <2>2. CASE /\ pc'[p] = pc[p] /\ mode'[p] = mode[p] /\ cursor'[p] = cursor[p]
             /\ upper'[p] = upper[p] /\ logs'[p] = logs[p]
    BY <1>2, <2>1, <2>2, RangeStays DEF CommitOK, UpdatesCheckpoint
  <2>3. CASE RangeStep(p)
    BY <1>2, <2>1, <2>3, RangeStepOK
  <2>4. CASE ServiceStep(p) \/ BeginBackfill(p) \/ BeginRepair(p)
    BY <1>2, <2>1, <2>4, BeginOK
  <2>5. CASE EnqueueRaises(p) \/ Raises(p) \/ Crash(p)
    <3>1. pc'[p] = "idle"
      BY <1>2, <2>5 DEF EnqueueRaises, Raises, Crash, LeaveScan, Goto, TypeOK
    <3> QED
      BY <3>1, OutOfScan
  <2>6. CASE \E r \in Logs : DedupLapses(p, r)
    BY <2>2, <2>6 DEF DedupLapses, rangeVars, fetchVars
  <2>7. ASSUME NEW s \in Scanners \ {p},
               \/ ServiceStep(s) \/ BeginBackfill(s) \/ BeginRepair(s)
               \/ RangeStep(s)
               \/ EnqueueRaises(s) \/ Raises(s) \/ Crash(s)
               \/ \E r \in Logs : DedupLapses(s, r)
        PROVE  RangeOK(p)' /\ CommitOK(p)'
    <3>1. Alone(s)
      BY <2>7, StepAlone
    <3> QED
      BY <2>2, <3>1 DEF Alone
  <2>8. CASE \/ Mine \/ Reorg \/ FlushHeaders \/ LoseBuffers
             \/ \E t \in Tables : FlushRows(t)
             \/ UNCHANGED vars
    BY <2>2, <2>8 DEF Mine, Reorg, FlushHeaders, LoseBuffers, FlushRows, vars,
                      rangeVars, fetchVars
  <2> QED
    BY <2>3, <2>4, <2>5, <2>6, <2>7, <2>8 DEF Next
<1> QED
  BY <1>1, <1>3, <1>4 DEF RangesInv

LEMMA RangesInvariant == Spec /\ [][NoGap]_vars => []RangesInv
<1>1. TypeInv /\ UNCHANGED vars => NoGap
  BY DEF NoGap, BeginBackfill, StartRange, Goto, TypeInv, TypeOK, Scanners,
         vars
<1>2. TypeInv /\ TypeInv' /\ RangesInv /\ [NoGap]_vars /\ [Next]_vars
        => RangesInv'
  BY <1>1, RangesStep
<1> QED
  BY <1>2, RangesInit, TypeInvariant, PTL DEF Spec

(* An operator who never names a first block above the deployment's start  *)
(* leaves no gap.                                                          *)
LEMMA LowBackfills ==
  ASSUME \A b \in FromBlocks : b <= Start
  PROVE  TypeInv => NoGap
<1> SUFFICES ASSUME TypeInv, NEW s \in Backfills, BeginBackfill(s)
             PROVE  cursor'[s] <= Larger(Start, ResumeBlock(checkpoint))
  BY DEF NoGap
<1>1. PICK bound \in FromBlocks, to \in Blocks :
        StartRange(s, "backfill",
                   IF bound = NoBound THEN ResumeBlock(checkpoint) ELSE bound,
                   Smaller(to, SafeHead))
  BY DEF BeginBackfill
<1>2. cursor'[s] = IF bound = NoBound THEN ResumeBlock(checkpoint) ELSE bound
  BY <1>1 DEF StartRange, TypeInv, TypeOK, Scanners
<1>3. bound \in Int /\ bound <= Start /\ Start \in Int
  BY ScannerParameters DEF Blocks, NoBound
<1>4. ResumeBlock(checkpoint) \in Int
  BY SafeHeadTypes DEF TypeInv
<1> QED
  BY <1>2, <1>3, <1>4 DEF Larger

LEMMA CoveredCommitted ==
  ASSUME \A b \in FromBlocks : b <= Start
  PROVE  Spec => []RangesInv
<1>1. TypeInv => NoGap
  BY LowBackfills
<1> QED
  BY <1>1, RangesInvariant, TypeInvariant, PTL DEF Spec

LEMMA RangesAcknowledged ==
  ASSUME RangesInv
  PROVE  CommittedRangesAcknowledged
<1> SUFFICES ASSUME losses = 0, NEW b \in Committed, NEW t \in RangeTables
             PROVE  CoveredBy(b, Acknowledged(t))
  BY DEF CommittedRangesAcknowledged
<1>1. Covered(b) /\ t \in CommitTables
  BY DEF RangesInv, Lossless, CommitTables, RangeTables
<1> QED
  BY <1>1 DEF Covered

(* As long as the server loses nothing, everything at or below the         *)
(* checkpoint was acknowledged, wherever calls raise and processes crash   *)
(* between the inserts of a range (historical.py, scan; clickhouse.py,     *)
(* checkpoint), if backfills start no higher than the resume block: the    *)
(* code commits whatever range the operator names.                         *)
THEOREM NoGapAcknowledged ==
  Spec /\ [][NoGap]_vars => []CommittedRangesAcknowledged
<1>1. RangesInv => CommittedRangesAcknowledged
  BY RangesAcknowledged
<1> QED
  BY <1>1, RangesInvariant, PTL

(* The same of an operator whose first blocks are never above the start of *)
(* the deployment, as in the runs.                                         *)
THEOREM RangesAreAcknowledged ==
  ASSUME \A b \in FromBlocks : b <= Start
  PROVE  Spec => []CommittedRangesAcknowledged
<1>1. RangesInv => CommittedRangesAcknowledged
  BY RangesAcknowledged
<1> QED
  BY <1>1, CoveredCommitted, PTL

(* With synchronous inserts the rows are in the tables, and a crash of the *)
(* server loses none of them: no reader ever sees a committed range that   *)
(* is partially written (clickhouse.py, SYNC_INSERT_TABLES).               *)
THEOREM RangesAreStored ==
  ASSUME \A b \in FromBlocks : b <= Start, AsyncInsertWait
  PROVE  Spec => []CommittedRangesStored
<1>1. RangesInv => CommittedRangesStored
  <2> SUFFICES ASSUME RangesInv, NEW b \in Committed, NEW t \in RangeTables
               PROVE  CoveredBy(b, Stored(t))
    BY DEF CommittedRangesStored
  <2>1. Covered(b) /\ t \in CommitTables /\ t \in Tables
    BY DEF RangesInv, Lossless, CommitTables, RangeTables
  <2>2. rowBuf[t] = {}
    BY <2>1 DEF RangesInv, BuffersUnused
  <2>3. Acknowledged(t) = Stored(t)
    BY <2>2 DEF Acknowledged, Stored
  <2>4. CoveredBy(b, Acknowledged(t))
    BY <2>1 DEF Covered
  <2> QED
    BY <2>3, <2>4
<1> QED
  BY <1>1, CoveredCommitted, PTL

(* Without suppression, and with a server that loses nothing, the work of  *)
(* every committed block was written (clickhouse.py, enqueue_work_many).   *)
(* With suppression it need not be: EnqueueRaises, and the runs            *)
(* scan_suppressed and scan_durable.                                       *)
THEOREM WorkIsWritten ==
  ASSUME \A b \in FromBlocks : b <= Start, ~Suppress,
         AsyncInsertWait \/ MaxLosses = 0
  PROVE  Spec => []CommittedWorkWritten
<1>1. TypeInv /\ RangesInv => CommittedWorkWritten
  <2> SUFFICES ASSUME TypeInv, RangesInv, NEW b \in Committed
               PROVE  CoveredBy(b, Acknowledged("work_items"))
    BY DEF CommittedWorkWritten
  <2>1. Lossless
    BY DEF Lossless, TypeInv, TypeOK
  <2>2. Covered(b)
    BY <2>1 DEF RangesInv
  <2> QED
    BY <2>2 DEF Covered, CommitTables, Tables
<1> QED
  BY <1>1, CoveredCommitted, TypeInvariant, PTL

=============================================================================
