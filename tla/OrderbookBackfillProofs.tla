----------------------- MODULE OrderbookBackfillProofs -----------------------
(***************************************************************************)
(* Theorems about OrderbookBackfill for every set of owners and orders,    *)
(* every batch and page size and any number of drains.                     *)
(***************************************************************************)
EXTENDS OrderbookBackfill, FiniteSetTheorems, TLAPS

(***************************************************************************)
(* Ranks.  A listing and the missing uids are cut into pieces by rank: the *)
(* number of members above.  Ranks of different members differ, and those  *)
(* of n members are 0 .. n - 1.                                            *)
(***************************************************************************)
Above(S, u) == {v \in S : v > u}
Rank(S, u) == Cardinality(Above(S, u))

LEMMA RankType ==
  ASSUME NEW S \in SUBSET Int, IsFiniteSet(S), NEW u \in S
  PROVE  Rank(S, u) \in 0 .. Cardinality(S) - 1
<1>1. Above(S, u) \in SUBSET S /\ u \notin Above(S, u)
  BY DEF Above
<1>2. /\ IsFiniteSet(Above(S, u))
      /\ Rank(S, u) <= Cardinality(S)
      /\ Cardinality(S) = Rank(S, u) => S = Above(S, u)
  BY <1>1, FS_Subset DEF Rank
<1>3. Rank(S, u) # Cardinality(S)
  BY <1>1, <1>2
<1>4. Rank(S, u) \in Nat /\ Cardinality(S) \in Nat
  BY <1>2, FS_CardinalityType DEF Rank
<1> QED
  BY <1>2, <1>3, <1>4

LEMMA RankOrder ==
  ASSUME NEW S \in SUBSET Int, IsFiniteSet(S),
         NEW u \in S, NEW v \in S, u < v
  PROVE  Rank(S, v) < Rank(S, u)
<1>1. /\ Above(S, v) \in SUBSET Above(S, u) /\ Above(S, u) \in SUBSET S
      /\ v \in Above(S, u) /\ v \notin Above(S, v)
  <2>1. \A w \in S : w \in Int
    OBVIOUS
  <2>2. u \in Int /\ v \in Int /\ ~(v > v) /\ v > u
    OBVIOUS
  <2>3. \A w \in S : w > v => w > u
    BY <2>1, <2>2
  <2> QED
    BY <2>2, <2>3 DEF Above
<1>2. IsFiniteSet(Above(S, u))
  BY <1>1, FS_Subset
<1>3. /\ Rank(S, v) <= Rank(S, u)
      /\ Rank(S, u) = Rank(S, v) => Above(S, u) = Above(S, v)
  <2>1. ASSUME NEW B, IsFiniteSet(B), NEW A \in SUBSET B
        PROVE  /\ Cardinality(A) <= Cardinality(B)
               /\ Cardinality(B) = Cardinality(A) => B = A
    BY <2>1, FS_Subset
  <2> QED
    BY <1>1, <1>2, <2>1, Zenon DEF Rank
<1>4. Rank(S, u) # Rank(S, v)
  BY <1>1, <1>3
<1>5. Rank(S, u) \in Int /\ Rank(S, v) \in Int
  BY RankType
<1> QED
  BY <1>3, <1>4, <1>5

LEMMA RankInjective ==
  ASSUME NEW S \in SUBSET Int, IsFiniteSet(S),
         NEW u \in S, NEW v \in S, Rank(S, u) = Rank(S, v)
  PROVE  u = v
<1>1. Rank(S, u) \in Int /\ u \in Int /\ v \in Int
  BY RankType
<1>2. CASE u < v
  BY <1>1, <1>2, RankOrder
<1>3. CASE v < u
  BY <1>1, <1>3, RankOrder
<1> QED
  BY <1>1, <1>2, <1>3

(* Every rank below the number of members is taken.                        *)
LEMMA RankSurjective ==
  ASSUME NEW S \in SUBSET Int, IsFiniteSet(S),
         NEW k \in 0 .. Cardinality(S) - 1
  PROVE  \E u \in S : Rank(S, u) = k
<1> DEFINE T == 0 .. Cardinality(S) - 1
           f == [u \in S |-> Rank(S, u)]
<1>1. Cardinality(S) \in Nat
  BY FS_CardinalityType
<1>2. IsFiniteSet(T) /\ Cardinality(T) = Cardinality(S)
  BY <1>1, FS_Interval
<1>3. f \in [S -> T]
  BY RankType
<1>4. \A u, v \in S : f[u] = f[v] => u = v
  BY RankInjective
<1>5. f \in Injection(S, T)
  BY <1>3, <1>4 DEF Injection, IsInjective
<1>6. f \in Surjection(S, T)
  BY <1>2, <1>5, FS_Injection
<1>7. k \in T
  OBVIOUS
<1>8. \E u \in S : f[u] = k
  BY <1>6, <1>7 DEF Surjection
<1> QED
  BY <1>8

(* A piece of n consecutive ranks has at most n members ...                *)
LEMMA PieceBound ==
  ASSUME NEW S \in SUBSET Int, IsFiniteSet(S), NEW a \in Int, NEW n \in Nat,
         NEW P \in SUBSET S, \A u \in P : Rank(S, u) \in a .. a + n - 1
  PROVE  IsFiniteSet(P) /\ Cardinality(P) <= n
<1> DEFINE T == a .. a + n - 1
           f == [u \in P |-> Rank(S, u)]
<1>1. IsFiniteSet(T) /\ Cardinality(T) = n
  BY FS_Interval
<1>2. f \in [P -> T]
  OBVIOUS
<1>3. \A u, v \in P : f[u] = f[v] => u = v
  BY RankInjective
<1>4. f \in Injection(P, T)
  BY <1>2, <1>3 DEF Injection, IsInjective
<1> QED
  BY <1>1, <1>4, FS_Injection

(* ... and exactly n if there are members behind it.                       *)
LEMMA PieceFull ==
  ASSUME NEW S \in SUBSET Int, IsFiniteSet(S), NEW a \in Nat, NEW n \in Nat,
         NEW w \in S, Rank(S, w) >= a + n
  PROVE  Cardinality({u \in S : Rank(S, u) \in a .. a + n - 1}) = n
<1> DEFINE P == {u \in S : Rank(S, u) \in a .. a + n - 1}
           T == a .. a + n - 1
           f == [u \in P |-> Rank(S, u)]
<1>1. IsFiniteSet(T) /\ Cardinality(T) = n
  BY FS_Interval
<1>2. f \in [P -> T]
  OBVIOUS
<1>3. \A u, v \in P : f[u] = f[v] => u = v
  BY RankInjective
<1>4. f \in Injection(P, T)
  BY <1>2, <1>3 DEF Injection, IsInjective
<1>5. \A k \in T : \E u \in P : f[u] = k
  <2> SUFFICES ASSUME NEW k \in T PROVE \E u \in P : f[u] = k
    OBVIOUS
  <2>1. Rank(S, w) \in 0 .. Cardinality(S) - 1
    BY RankType
  <2>2. k \in 0 .. Cardinality(S) - 1
    <3>1. Cardinality(S) \in Nat
      BY FS_CardinalityType
    <3> QED
      BY <2>1, <3>1
  <2>3. PICK u \in S : Rank(S, u) = k
    BY <2>2, RankSurjective
  <2>4. u \in P /\ f[u] = k
    BY <2>3
  <2> QED
    BY <2>4
<1>6. f \in Surjection(P, T)
  BY <1>2, <1>5 DEF Surjection
<1> QED
  BY <1>1, <1>4, <1>6, FS_Injection

-----------------------------------------------------------------------------
(* The batches of seed_orders.                                             *)

LEMMA DivisionPiece ==
  ASSUME NEW n \in Nat, NEW b \in Nat \ {0}
  PROVE  n \in b * (n \div b) .. b * (n \div b) + b - 1
OBVIOUS

LEMMA OrdersFinite ==
  /\ Orders \subseteq Int
  /\ \A P \in SUBSET Orders : P \in SUBSET Int /\ IsFiniteSet(P)
  /\ Cardinality(Orders) \in Nat
<1>1. IsFiniteSet(Orders) /\ Orders = 1 .. Cardinality(Orders)
  BY BackfillParameters
<1>2. Cardinality(Orders) \in Nat
  BY <1>1, FS_CardinalityType
<1>3. Orders \subseteq Int
  BY <1>1, <1>2
<1>4. \A P \in SUBSET Orders : IsFiniteSet(P)
  BY <1>1, FS_Subset
<1> QED
  BY <1>2, <1>3, <1>4

LEMMA UidBatchTypes ==
  ASSUME NEW missing \in SUBSET Tradable
  PROVE  UidBatches(missing) \subseteq Batches
<1> SUFFICES ASSUME NEW u \in missing
             PROVE  {v \in missing : Rank(missing, v) \div BatchSize
                                       = Rank(missing, u) \div BatchSize} \in Batches
  BY DEF UidBatches, Rank, Above
<1> DEFINE q == Rank(missing, u) \div BatchSize
           P == {v \in missing : Rank(missing, v) \div BatchSize = q}
<1>1. missing \in SUBSET Tradable /\ missing \in SUBSET Orders
  BY BackfillParameters
<1>2. missing \in SUBSET Int /\ IsFiniteSet(missing)
  BY <1>1, OrdersFinite
<1>3. \A v \in missing : Rank(missing, v) \in Nat
  BY <1>2, RankType
<1>4. q \in Int /\ BatchSize \in Nat \ {0}
  BY <1>3, BackfillParameters
<1>5. P \in SUBSET missing /\ u \in P
  OBVIOUS
<1>6. ASSUME NEW v \in P
      PROVE  Rank(missing, v) \in BatchSize * q .. BatchSize * q + BatchSize - 1
  BY <1>3, <1>4, <1>6, DivisionPiece
<1>7. BatchSize * q \in Int /\ BatchSize \in Nat
  BY <1>4
<1> HIDE DEF P, q
<1>8. IsFiniteSet(P) /\ Cardinality(P) <= BatchSize
  BY <1>2, <1>5, <1>6, <1>7, PieceBound
<1>9. Cardinality(P) \in Nat /\ Cardinality(P) # 0
  BY <1>5, <1>8, FS_CardinalityType, FS_EmptySet
<1>10. P \in Batches
  BY <1>1, <1>4, <1>5, <1>8, <1>9 DEF Batches
<1> QED
  BY <1>10 DEF P, q

-----------------------------------------------------------------------------
(* The type invariant.                                                     *)

(* Outside of a batch no item is under way; an item that pages has a page  *)
(* left; what existed when an item began existed before now.               *)
StageOK(d) ==
  /\ pc[d] \notin {"work", "raising"} => \A i \in Items : stage[d][i] = "out"
  /\ \A i \in Items :
       /\ stage[d][i] \in {"out", "processing"} => pages[d][i] = 0
       /\ stage[d][i] = "paging" => pages[d][i] < MaxPages
       /\ began[d][i] <= placed

TypeInv == TypeOK /\ \A d \in Workers : StageOK(d)

LEMMA VersionTypes ==
  ASSUME NEW d \in Workers, NEW a \in 0 .. AttemptLimit
  PROVE  /\ EnqueueRow \in Row /\ Absent \in Row
         /\ LeaseRow(d, a) \in Row /\ RetryRow(a) \in Row
         /\ DoneRow(a) \in Row /\ DeadRow(a) \in Row
BY RevisionHeadroom, SMT
   DEF EnqueueRow, Absent, LeaseRow, RetryRow, DoneRow, DeadRow, Version, Row,
       Open, TERMINAL_WORK_STATUSES

LEMMA WriteTypes ==
  ASSUME TypeOK, NEW i \in Items, NEW version \in Row, Write(i, version)
  PROVE  row' \in [Items -> Row]
BY Zenon DEF TypeOK, Write, Put

LEMMA InsertTypes ==
  ASSUME TypeOK, NEW d \in Workers, InsertLeases(d)
  PROVE  row' \in [Items -> Row] /\ live' \in [Workers -> SUBSET Items]
<1> USE DEF TypeOK
<1>1. ASSUME NEW i \in Items
      PROVE  Put(row[i], LeaseRow(d, attempt[d][i])) \in Row
  <2>1. LeaseRow(d, attempt[d][i]) \in Row /\ row[i] \in Row
    BY VersionTypes
  <2> QED
    BY <2>1, Zenon DEF Put
<1>2. row' \in [Items -> Row]
  BY <1>1 DEF InsertLeases
<1>3. live' \in [Workers -> SUBSET Items]
  BY DEF InsertLeases, Leased
<1> QED
  BY <1>2, <1>3

LEMMA TypeInit ==
  Init => TypeInv
<1> SUFFICES ASSUME Init PROVE TypeInv
  OBVIOUS
<1> USE BackfillParameters, RevisionHeadroom DEF Init, None
<1>1. Cardinality(Orders) \in Nat
  BY OrdersFinite
<1>2. Absent \in Row
  BY SMT DEF Absent, Version, Row, Open, TERMINAL_WORK_STATUSES
<1>3. row \in [Items -> Row]
  BY <1>2
<1>4. TypeOK
  BY <1>1, <1>3 DEF TypeOK, PCs, Stage
<1>5. ASSUME NEW d \in Workers
      PROVE  StageOK(d)
  <2>1. \A i \in Items : /\ stage[d][i] = "out" /\ pages[d][i] = 0
                         /\ began[d][i] = 0 /\ placed = 0
    OBVIOUS
  <2> QED
    BY <2>1 DEF StageOK
<1> QED
  BY <1>4, <1>5 DEF TypeInv

LEMMA StagesStay ==
  ASSUME TypeInv, UNCHANGED <<placed, pc, stage, pages, began>>
  PROVE  \A d \in Workers : StageOK(d)'
BY DEF TypeInv, StageOK

LEMMA MarketTypes ==
  ASSUME TypeInv, Place \/ \E u \in Tradable : Trade(u) \/ Ages(u)
  PROVE  TypeInv'
<1> USE DEF TypeInv, TypeOK, tableVars, drainVars, boundVars
<1>0. Cardinality(Orders) \in Nat
  BY OrdersFinite
<1>1. CASE Place
  <2>1. placed' = placed + 1 /\ placed' \in 0 .. Cardinality(Orders)
    BY <1>0, <1>1 DEF Place
  <2>2. TypeOK'
    BY <1>1, <2>1 DEF Place
  <2>3. ASSUME NEW d \in Workers
        PROVE  StageOK(d)'
    <3>1. StageOK(d) /\ \A i \in Items : began[d][i] \in Int
      BY <1>0
    <3>2. placed \in Int /\ UNCHANGED <<pc, stage, pages, began>>
      BY <1>1 DEF Place
    <3> QED
      BY <2>1, <3>1, <3>2 DEF StageOK
  <2> QED
    BY <2>2, <2>3
<1>2. ASSUME NEW u \in Tradable, Trade(u) \/ Ages(u)
      PROVE  TypeInv'
  <2>1. traded' \in SUBSET Tradable /\ recent' \in SUBSET traded'
    BY <1>2 DEF Trade, Ages
  <2>2. TypeOK'
    BY <1>2, <2>1 DEF Trade, Ages
  <2> QED
    BY <1>2, <2>2, StagesStay DEF Trade, Ages
<1> QED
  BY <1>1, <1>2

LEMMA SeedTypes ==
  ASSUME TypeInv, SeedOrders \/ SeedRecent \/ SeedOwners \/ SeedChunk \/ SeedEnds
  PROVE  TypeInv'
<1> USE DEF TypeInv, TypeOK, worldVars, tableVars, drainVars, boundVars
<1>1. CASE SeedOrders \/ SeedRecent \/ SeedOwners
  <2>1. \A missing \in {Missing(traded), Missing(recent)} :
          UidBatches(missing) \in SUBSET Items
    <3>1. \A missing \in SUBSET Tradable : UidBatches(missing) \in SUBSET Items
      BY UidBatchTypes DEF Items
    <3>2. Missing(traded) \in SUBSET Tradable /\ Missing(recent) \in SUBSET Tradable
      BY DEF Missing
    <3> QED
      BY <3>1, <3>2
  <2>2. {OwnerOf[u] : u \in traded} \in SUBSET Items
    BY BackfillParameters DEF Items
  <2>3. PICK items \in {UidBatches(Missing(traded)), UidBatches(Missing(recent)),
                         {OwnerOf[u] : u \in traded}} : Seed(items)
    BY <1>1 DEF SeedOrders, SeedRecent, SeedOwners
  <2>4. TypeOK'
    BY <2>1, <2>2, <2>3 DEF Seed
  <2> QED
    BY <2>3, <2>4, StagesStay DEF Seed
<1>2. CASE SeedChunk
  <2>1. seeding' \in SUBSET Items /\ workBuf' \in SUBSET Items
    BY <1>2 DEF SeedChunk
  <2>2. TypeOK'
    BY <1>2, <2>1 DEF SeedChunk
  <2> QED
    BY <1>2, <2>2, StagesStay DEF SeedChunk
<1>3. CASE SeedEnds
  <2>1. TypeOK'
    BY <1>3, BackfillParameters DEF SeedEnds, Fault
  <2> QED
    BY <1>3, <2>1, StagesStay DEF SeedEnds
<1> QED
  BY <1>1, <1>2, <1>3

LEMMA LoopTypes ==
  ASSUME TypeInv, NEW d \in Workers,
         \/ Start(d) \/ Deadline(d) \/ LoopStep(d) \/ DrainRaises(d) \/ Exit(d)
  PROVE  TypeInv'
<1> USE DEF TypeInv, TypeOK, worldVars, tableVars, drainVars, boundVars
<1>0. None \in [Items -> 0 .. 0]
  BY DEF None
<1>1. ASSUME NEW label \in PCs \ {"work", "raising"}, Goto(d, label),
             \A i \in Items : stage[d][i] = "out",
             UNCHANGED <<placed, stage, pages, began>>
      PROVE  pc' \in [Workers -> PCs] /\ \A e \in Workers : StageOK(e)'
  BY <1>1 DEF Goto, StageOK
<1>2. CASE Start(d) \/ Deadline(d) \/ LeaseNothing(d) \/ Count(d) \/ SleepEnds(d)
             \/ BatchDone(d)
  <2>1. PICK label \in PCs \ {"work", "raising"} : Goto(d, label)
    BY <1>2 DEF Start, Deadline, LeaseNothing, Count, SleepEnds, BatchDone, PCs
  <2>2. Elsewhere /\ UNCHANGED boundVars
    BY <1>2 DEF Start, Deadline, LeaseNothing, Count, SleepEnds, BatchDone
  <2>3. \A i \in Items : stage[d][i] = "out"
    BY <1>2 DEF Start, Deadline, LeaseNothing, Count, SleepEnds, BatchDone, StageOK
  <2>4. pc' \in [Workers -> PCs] /\ \A e \in Workers : StageOK(e)'
    BY <1>1, <2>1, <2>2, <2>3 DEF Elsewhere
  <2> QED
    BY <2>2, <2>4 DEF Elsewhere
<1>3. CASE LeaseSelect(d)
  <2>1. PICK ids \in SUBSET {i \in Items : Leasable(i)} :
          attempt' = [attempt EXCEPT ![d] =
                        [i \in Items |-> IF i \in ids THEN row[i].attempts + 1 ELSE 0]]
    BY <1>3 DEF LeaseSelect
  <2>2. \A i \in ids : row[i].attempts + 1 \in 0 .. AttemptLimit
    BY RevisionHeadroom DEF Leasable, Row
  <2>3. [i \in Items |-> IF i \in ids THEN row[i].attempts + 1 ELSE 0]
           \in [Items -> 0 .. AttemptLimit]
    BY <2>2, RevisionHeadroom
  <2>4. attempt' \in [Workers -> [Items -> 0 .. AttemptLimit]]
    BY <2>1, <2>3
  <2>5. /\ Goto(d, "insert") /\ \A i \in Items : stage[d][i] = "out"
        /\ UNCHANGED <<worldVars, tableVars, seeding, stage, pages, began, live,
                       boundVars>>
    BY <1>3 DEF LeaseSelect, StageOK
  <2>6. pc' \in [Workers -> PCs] /\ \A e \in Workers : StageOK(e)'
    BY <1>1, <2>5 DEF PCs
  <2> QED
    BY <2>4, <2>5, <2>6
<1>4. CASE LeaseInsert(d)
  <2>1. row' \in [Items -> Row] /\ live' \in [Workers -> SUBSET Items]
    BY <1>4, InsertTypes DEF LeaseInsert
  <2>2. /\ pc[d] = "insert" /\ pc' = [pc EXCEPT ![d] = "work"]
        /\ stage' = [stage EXCEPT ![d] =
                      [i \in Items |-> IF i \in Leased(d) THEN "processing" ELSE "out"]]
        /\ UNCHANGED <<worldVars, orders, orderBuf, workBuf, seeding, attempt,
                       pages, began, boundVars>>
    BY <1>4 DEF LeaseInsert, Goto
  <2>3. pc' \in [Workers -> PCs]
    BY <2>2 DEF PCs
  <2>4. [i \in Items |-> IF i \in Leased(d) THEN "processing" ELSE "out"]
          \in [Items -> Stage]
    BY DEF Stage
  <2>5. stage' \in [Workers -> [Items -> Stage]]
    BY <2>2, <2>4
  <2>6. ASSUME NEW e \in Workers
        PROVE  StageOK(e)'
    <3>1. CASE e = d
      <4>1. \A i \in Items : pages[d][i] = 0
        BY <2>2 DEF StageOK
      <4>2. \A i \in Items : stage'[d][i] \in {"processing", "out"}
        BY <2>2
      <4>3. pc'[d] = "work" /\ \A i \in Items : began[d][i] <= placed
        BY <2>2 DEF StageOK
      <4> QED
        BY <2>2, <3>1, <4>1, <4>2, <4>3 DEF StageOK
    <3>2. CASE e # d
      BY <2>2, <3>2 DEF StageOK
    <3> QED
      BY <3>1, <3>2
  <2> QED
    BY <2>1, <2>2, <2>3, <2>5, <2>6
<1>5. CASE DrainRaises(d) \/ Exit(d)
  <2>1. /\ pc' = [pc EXCEPT ![d] = "off"] /\ OutOfBatch(d)
        /\ UNCHANGED <<worldVars, orders, orderBuf, workBuf, seeding, losses>>
    BY <1>5 DEF DrainRaises, Exit, Goto
  <2>2. faults' \in 0 .. MaxFaults
    BY <1>5, BackfillParameters DEF DrainRaises, Exit, Fault
  <2>3. row' \in [Items -> Row] /\ live' \in [Workers -> SUBSET Items]
    BY <1>5, InsertTypes DEF DrainRaises, Exit
  <2>4. [i \in Items |-> "out"] \in [Items -> Stage]
    BY DEF Stage
  <2>5. /\ pc' \in [Workers -> PCs] /\ stage' \in [Workers -> [Items -> Stage]]
    BY <2>1, <2>4 DEF PCs, OutOfBatch
  <2>6. /\ 0 \in 0 .. AttemptLimit /\ 0 \in 0 .. MaxPages
        /\ 0 \in 0 .. Cardinality(Orders)
    BY OrdersFinite, RevisionHeadroom, BackfillParameters
  <2>7. /\ attempt' \in [Workers -> [Items -> 0 .. AttemptLimit]]
        /\ pages' \in [Workers -> [Items -> 0 .. MaxPages]]
        /\ began' \in [Workers -> [Items -> 0 .. Cardinality(Orders)]]
    BY <2>1, <2>6 DEF OutOfBatch, None
  <2>8. ASSUME NEW e \in Workers
        PROVE  StageOK(e)'
    <3>1. CASE e = d
      <4>1. \A i \in Items : /\ stage'[d][i] = "out" /\ pages'[d][i] = 0
                             /\ began'[d][i] = 0
        BY <2>1 DEF OutOfBatch, None
      <4>2. placed' >= 0
        BY <2>1, OrdersFinite
      <4> QED
        BY <3>1, <4>1, <4>2 DEF StageOK
    <3>2. CASE e # d
      <4>1. /\ pc'[e] = pc[e] /\ stage'[e] = stage[e] /\ pages'[e] = pages[e]
            /\ began'[e] = began[e] /\ placed' = placed
        BY <2>1, <3>2 DEF OutOfBatch
      <4> QED
        BY <4>1 DEF StageOK
    <3> QED
      BY <3>1, <3>2
  <2> QED
    BY <2>1, <2>2, <2>3, <2>5, <2>7, <2>8
<1> QED
  BY <1>2, <1>3, <1>4, <1>5 DEF LoopStep

(* A step of one item that leaves the others of all batches alone.         *)
LEMMA ItemStageOK ==
  ASSUME TypeInv, NEW d \in Workers, NEW i \in Items,
         pc[d] \in {"work", "raising"}, pc'[d] \in {"work", "raising"},
         \A e \in Workers \ {d} : pc'[e] = pc[e],
         placed' = placed,
         \A e \in Workers, j \in Items :
           e # d \/ j # i => /\ stage'[e][j] = stage[e][j]
                             /\ pages'[e][j] = pages[e][j]
                             /\ began'[e][j] = began[e][j],
         stage'[d][i] \in {"out", "processing"} => pages'[d][i] = 0,
         stage'[d][i] = "paging" => pages'[d][i] < MaxPages,
         began'[d][i] <= placed
  PROVE  \A e \in Workers : StageOK(e)'
<1> SUFFICES ASSUME NEW e \in Workers PROVE StageOK(e)'
  OBVIOUS
<1>1. StageOK(e)
  BY DEF TypeInv
<1>2. CASE e = d
  <2>1. pc'[e] \in {"work", "raising"}
    BY <1>2
  <2>2. ASSUME NEW j \in Items
        PROVE  /\ stage'[e][j] \in {"out", "processing"} => pages'[e][j] = 0
               /\ stage'[e][j] = "paging" => pages'[e][j] < MaxPages
               /\ began'[e][j] <= placed'
    <3>1. CASE j = i
      BY <1>2, <3>1
    <3>2. CASE j # i
      BY <1>1, <3>2 DEF StageOK
    <3> QED
      BY <3>1, <3>2
  <2> QED
    BY <2>1, <2>2 DEF StageOK
<1>3. CASE e # d
  <2>1. /\ pc'[e] = pc[e] /\ placed' = placed
        /\ \A j \in Items : /\ stage'[e][j] = stage[e][j]
                            /\ pages'[e][j] = pages[e][j]
                            /\ began'[e][j] = began[e][j]
    BY <1>3
  <2> QED
    BY <1>1, <2>1 DEF StageOK
<1> QED
  BY <1>2, <1>3

(* A page that is the last one, or one that leaves room for another.       *)
LEMMA PageTypes ==
  ASSUME TypeInv, NEW d \in Workers, NEW i \in Items, StorePage(d, i)
  PROVE  TypeInv'
<1> DEFINE rows == Page(i, pages[d][i] * PageLimit)
           stored == pages[d][i] + (IF rows = {} THEN 0 ELSE 1)
           label == IF rows # {} /\ stored >= MaxPages THEN "truncated"
                    ELSE IF LastPage(rows) THEN "stored" ELSE "paging"
           start == IF stage[d][i] = "processing" THEN placed ELSE began[d][i]
<1> USE DEF TypeInv, TypeOK
<1>0. placed \in Nat /\ placed \in 0 .. Cardinality(Orders)
  BY OrdersFinite
<1>1. pc[d] \in {"work", "raising"} /\ stage[d][i] \in {"processing", "paging"}
  BY DEF StorePage, Busy
<1>2. pages[d][i] < MaxPages /\ pages[d][i] \in Nat /\ MaxPages \in Nat \ {0}
  <2>1. MaxPages \in Nat \ {0}
    BY BackfillParameters
  <2>2. StageOK(d) /\ pages[d][i] \in Nat
    BY <2>1
  <2> QED
    BY <1>1, <2>1, <2>2 DEF StageOK
<1>3. stored \in 0 .. MaxPages
  BY <1>2
<1>4. label \in Stage /\ label \notin {"out", "processing"}
  BY DEF Stage
<1>5. label = "paging" => stored < MaxPages
  <2>1. rows = {} => LastPage(rows)
    <3>1. Cardinality({}) = 0 /\ PageLimit \in Nat \ {0}
      BY FS_EmptySet, BackfillParameters
    <3>2. LastPage({})
      BY <3>1 DEF LastPage
    <3> HIDE DEF rows
    <3> QED
      BY <3>2
  <2>2. label = "paging" => rows # {} /\ ~(stored >= MaxPages)
    BY <2>1
  <2> HIDE DEF label, stored
  <2> QED
    BY <1>2, <1>3, <2>2
<1>6. start \in 0 .. Cardinality(Orders) /\ start <= placed
  <2>1. StageOK(d)
    OBVIOUS
  <2> QED
    BY <1>0, <2>1 DEF StageOK
<1>7. rows \in SUBSET Orders
  BY BackfillParameters DEF Page, Listing
<1>8. /\ orderBuf' = orderBuf \cup rows
      /\ pages' = [pages EXCEPT ![d][i] = stored]
      /\ stage' = [stage EXCEPT ![d][i] = label]
      /\ began' = [began EXCEPT ![d][i] = start]
      /\ UNCHANGED <<worldVars, orders, row, workBuf, seeding, pc, attempt,
                     live, boundVars>>
  <2>1. began' = [began EXCEPT ![d][i] = start]
    BY DEF StorePage
  <2>2. /\ orderBuf' = orderBuf \cup rows
        /\ pages' = [pages EXCEPT ![d][i] = stored]
        /\ stage' = [stage EXCEPT ![d][i] = label]
    BY Zenon DEF StorePage, SetStage
  <2> QED
    BY <2>1, <2>2 DEF StorePage
<1> HIDE DEF rows, stored, label, start
<1>9. /\ pages' \in [Workers -> [Items -> 0 .. MaxPages]]
      /\ stage' \in [Workers -> [Items -> Stage]]
      /\ began' \in [Workers -> [Items -> 0 .. Cardinality(Orders)]]
  BY <1>3, <1>4, <1>6, <1>8
<1>10. TypeOK'
  BY <1>7, <1>8, <1>9 DEF worldVars, boundVars
<1>11. /\ stage'[d][i] = label /\ pages'[d][i] = stored /\ began'[d][i] = start
       /\ \A e \in Workers, j \in Items :
            e # d \/ j # i => /\ stage'[e][j] = stage[e][j]
                              /\ pages'[e][j] = pages[e][j]
                              /\ began'[e][j] = began[e][j]
  BY <1>8
<1>12. \A e \in Workers : StageOK(e)'
  <2>1. /\ pc' = pc /\ placed' = placed
        /\ stage'[d][i] \in {"out", "processing"} => pages'[d][i] = 0
        /\ stage'[d][i] = "paging" => pages'[d][i] < MaxPages
        /\ began'[d][i] <= placed
    BY <1>4, <1>5, <1>6, <1>8, <1>11 DEF worldVars
  <2>2. pc'[d] \in {"work", "raising"} /\ \A e \in Workers \ {d} : pc'[e] = pc[e]
    BY <1>1, <2>1
  <2> HIDE DEF TypeInv, TypeOK
  <2> QED
    BY <1>1, <1>11, <2>1, <2>2, ItemStageOK
<1> QED
  BY <1>10, <1>12

LEMMA HandlerTypes ==
  ASSUME TypeInv, NEW d \in Workers, NEW i \in Items,
         ProcessBatch(d, i) \/ HandlerRaises(d, i) \/ SuccessUnacknowledged(d, i)
  PROVE  TypeInv'
<1> USE DEF TypeInv, TypeOK, worldVars, tableVars, boundVars
<1>1. PICK label \in {"stored", "failed"} : SetStage(d, i, label)
  BY DEF ProcessBatch, HandlerRaises, SuccessUnacknowledged
<1>2. /\ pc[d] \in {"work", "raising"} /\ stage[d][i] # "out"
      /\ UNCHANGED <<worldVars, orders, workBuf, seeding, pc, attempt, pages,
                     began, live, losses>>
  BY DEF ProcessBatch, HandlerRaises, SuccessUnacknowledged, Processed, Busy
<1>3. stage' = [stage EXCEPT ![d][i] = label] /\ label \in Stage
  BY <1>1 DEF SetStage, Stage
<1>4. stage' \in [Workers -> [Items -> Stage]]
  BY <1>3
<1>5. orderBuf' \in SUBSET Orders
  <2>1. ByUids(i) \in SUBSET Orders
    BY BackfillParameters DEF ByUids
  <2> QED
    BY <2>1 DEF ProcessBatch, HandlerRaises, SuccessUnacknowledged
<1>6. row' \in [Items -> Row] /\ faults' \in 0 .. MaxFaults
  <2>1. DoneRow(attempt[d][i]) \in Row
    BY VersionTypes
  <2> QED
    BY <2>1, WriteTypes, BackfillParameters
       DEF ProcessBatch, HandlerRaises, SuccessUnacknowledged, Fault
<1>7. TypeOK'
  BY <1>2, <1>4, <1>5, <1>6
<1>8. /\ stage'[d][i] = label
      /\ \A e \in Workers, j \in Items :
           e # d \/ j # i => stage'[e][j] = stage[e][j]
  BY <1>3
<1>9. began[d][i] <= placed
  BY DEF StageOK
<1>10. \A e \in Workers : StageOK(e)'
  <2>1. /\ pc' = pc /\ placed' = placed /\ pages' = pages /\ began' = began
        /\ label \notin {"out", "processing", "paging"}
    BY <1>1, <1>2
  <2> HIDE DEF TypeInv, TypeOK, worldVars, tableVars, boundVars
  <2> QED
    BY <1>2, <1>8, <1>9, <2>1, ItemStageOK
<1> QED
  BY <1>7, <1>10

LEMMA TaskEndTypes ==
  ASSUME TypeInv, NEW d \in Workers, NEW i \in Items,
         Succeed(d, i) \/ Fail(d, i) \/ FinishRaises(d, i)
  PROVE  TypeInv'
<1> USE DEF TypeInv, TypeOK, worldVars, tableVars, boundVars
<1>1. /\ EndTask(d, i) /\ pc[d] \in {"work", "raising"}
      /\ UNCHANGED <<worldVars, orders, orderBuf, workBuf, seeding, losses>>
  BY DEF Succeed, Fail, FinishRaises, Processed, Busy
<1>2. pc' = pc \/ pc' = [pc EXCEPT ![d] = "raising"]
  BY DEF Succeed, Fail, FinishRaises, Goto
<1>3. pc' \in [Workers -> PCs]
  BY <1>2 DEF PCs
<1>4. row' \in [Items -> Row] /\ faults' \in 0 .. MaxFaults
  <2>1. /\ DoneRow(attempt[d][i]) \in Row /\ DeadRow(attempt[d][i]) \in Row
        /\ RetryRow(attempt[d][i]) \in Row
    BY VersionTypes
  <2>2. Verdict(d, i) \in Row
    BY <2>1 DEF Verdict
  <2>3. row' \in [Items -> Row]
    BY <2>1, <2>2, WriteTypes DEF Succeed, Fail, FinishRaises
  <2>4. faults' \in 0 .. MaxFaults
    BY BackfillParameters DEF Succeed, Fail, FinishRaises, Fault
  <2> QED
    BY <2>3, <2>4
<1>5. live' \in [Workers -> SUBSET Items]
  BY DEF Succeed, Fail, FinishRaises, EndLease
<1>6. /\ stage' = [stage EXCEPT ![d][i] = "out"]
      /\ attempt' = [attempt EXCEPT ![d][i] = 0]
      /\ pages' = [pages EXCEPT ![d][i] = 0]
      /\ began' = [began EXCEPT ![d][i] = 0]
  BY <1>1 DEF EndTask, SetStage
<1>7. /\ "out" \in Stage /\ 0 \in 0 .. AttemptLimit /\ 0 \in 0 .. MaxPages
      /\ 0 \in 0 .. Cardinality(Orders)
  BY OrdersFinite, RevisionHeadroom, BackfillParameters DEF Stage
<1>8. /\ stage' \in [Workers -> [Items -> Stage]]
      /\ attempt' \in [Workers -> [Items -> 0 .. AttemptLimit]]
      /\ pages' \in [Workers -> [Items -> 0 .. MaxPages]]
      /\ began' \in [Workers -> [Items -> 0 .. Cardinality(Orders)]]
  BY <1>6, <1>7
<1>9. TypeOK'
  BY <1>1, <1>3, <1>4, <1>5, <1>8
<1>10. /\ stage'[d][i] = "out" /\ pages'[d][i] = 0 /\ began'[d][i] = 0
       /\ \A e \in Workers, j \in Items :
            e # d \/ j # i => /\ stage'[e][j] = stage[e][j]
                              /\ pages'[e][j] = pages[e][j]
                              /\ began'[e][j] = began[e][j]
  BY <1>6
<1>11. began'[d][i] <= placed
  BY <1>10, OrdersFinite
<1>12. pc'[d] \in {"work", "raising"} /\ \A e \in Workers \ {d} : pc'[e] = pc[e]
  BY <1>1, <1>2
<1>13. \A e \in Workers : StageOK(e)'
  BY <1>1, <1>10, <1>11, <1>12, ItemStageOK
<1> QED
  BY <1>9, <1>13

LEMMA ServerTypes ==
  ASSUME TypeInv,
         \/ FlushOrders \/ LoseBuffers
         \/ \E i \in Items : FlushWork(i) \/ Purge(i) \/ RetryDue(i)
         \/ \E d \in Workers, i \in Items : LeaseLapses(d, i)
  PROVE  TypeInv'
<1> USE DEF TypeInv, TypeOK, worldVars, tableVars, drainVars, boundVars
<1>1. CASE FlushOrders \/ LoseBuffers
  <2>1. TypeOK'
    BY <1>1, BackfillParameters DEF FlushOrders, LoseBuffers
  <2> QED
    BY <1>1, <2>1, StagesStay DEF FlushOrders, LoseBuffers
<1>2. ASSUME NEW i \in Items, FlushWork(i) \/ Purge(i) \/ RetryDue(i)
      PROVE  TypeInv'
  <2>1. row' \in [Items -> Row]
    <3>1. EnqueueRow \in Row /\ Absent \in Row
      BY RevisionHeadroom, SMT
         DEF EnqueueRow, Absent, Version, Row, Open, TERMINAL_WORK_STATUSES
    <3>2. Version(row[i].status, row[i].attempts, row[i].revision, row[i].owner, TRUE)
            \in Row
      BY DEF Version, Row
    <3> QED
      BY <1>2, <3>1, <3>2, WriteTypes DEF FlushWork, Purge, RetryDue
  <2>2. TypeOK'
    BY <1>2, <2>1 DEF FlushWork, Purge, RetryDue
  <2> QED
    BY <1>2, <2>2, StagesStay DEF FlushWork, Purge, RetryDue
<1>3. ASSUME NEW d \in Workers, NEW i \in Items, LeaseLapses(d, i)
      PROVE  TypeInv'
  <2>1. live' \in [Workers -> SUBSET Items] /\ faults' \in 0 .. MaxFaults
    BY <1>3, BackfillParameters DEF LeaseLapses, EndLease, Fault
  <2>2. TypeOK'
    BY <1>3, <2>1 DEF LeaseLapses
  <2> QED
    BY <1>3, <2>2, StagesStay DEF LeaseLapses
<1> QED
  BY <1>1, <1>2, <1>3

LEMMA TypeStep ==
  TypeInv /\ [Next]_vars => TypeInv'
<1> SUFFICES ASSUME TypeInv, [Next]_vars PROVE TypeInv'
  OBVIOUS
<1>1. CASE UNCHANGED vars
  <2>1. TypeOK'
    BY <1>1 DEF TypeInv, TypeOK, vars, worldVars, tableVars, drainVars, boundVars
  <2> QED
    BY <1>1, <2>1, StagesStay DEF TypeInv, vars, worldVars, drainVars
<1>2. ASSUME NEW d \in Workers, NEW i \in Items,
             \/ ItemStep(d, i) \/ SuccessUnacknowledged(d, i)
             \/ FinishRaises(d, i) \/ LeaseLapses(d, i)
      PROVE  TypeInv'
  BY <1>2, HandlerTypes, PageTypes, TaskEndTypes, ServerTypes DEF ItemStep
<1> QED
  BY <1>1, <1>2, MarketTypes, SeedTypes, LoopTypes, ServerTypes DEF Next

LEMMA TypeInvariant == Spec => []TypeInv
<1> QED
  BY TypeInit, TypeStep, PTL DEF Spec

(* The backfill's state always has its type: no batch of the anti-join is  *)
(* larger than UID_BATCH_SIZE, no attempt passes the width of its column,  *)
(* and no owner is paged past its limit (backfill_orderbook.py).           *)
THEOREM TypeCorrect == Spec => []TypeOK
<1>1. TypeInv => TypeOK
  BY DEF TypeInv
<1> QED
  BY TypeInvariant, <1>1, PTL

-----------------------------------------------------------------------------
(* What one step does to an item of a batch, to a row, to what is stored.  *)

LEMMA NestedExcept ==
  ASSUME NEW A, NEW B, NEW S, NEW f \in [A -> [B -> S]],
         NEW a \in A, NEW b \in B, NEW v, NEW g, g = [f EXCEPT ![a][b] = v],
         NEW x \in A, NEW y \in B
  PROVE  g[x][y] = IF x = a /\ y = b THEN v ELSE f[x][y]
OBVIOUS

(* An item is processed by its own steps only.                             *)
LEMMA StageShapes ==
  ASSUME TypeInv, [Next]_vars, NEW e \in Workers, NEW j \in Items
  PROVE  \/ /\ stage'[e][j] = stage[e][j] /\ pages'[e][j] = pages[e][j]
            /\ began'[e][j] = began[e][j]
         \/ stage'[e][j] \in {"out", "processing", "failed"}
         \/ ProcessBatch(e, j)
         \/ StorePage(e, j)
<1> USE DEF TypeInv, TypeOK, drainVars
<1>1. CASE UNCHANGED <<stage, pages, began>>
  BY <1>1
<1>2. CASE \/ Place \/ (\E u \in Tradable : Trade(u) \/ Ages(u))
           \/ SeedOrders \/ SeedRecent \/ SeedOwners \/ SeedChunk \/ SeedEnds
           \/ (\E i \in Items : FlushWork(i) \/ Purge(i) \/ RetryDue(i))
           \/ FlushOrders \/ LoseBuffers \/ UNCHANGED vars
  BY <1>1, <1>2 DEF Place, Trade, Ages, SeedOrders, SeedRecent, SeedOwners,
     Seed, SeedChunk, SeedEnds, FlushWork, Purge, RetryDue, FlushOrders, LoseBuffers, vars
<1>3. ASSUME NEW d \in Workers,
             Start(d) \/ Deadline(d) \/ LoopStep(d) \/ DrainRaises(d) \/ Exit(d)
      PROVE  \/ UNCHANGED <<stage, pages, began>>
             \/ /\ stage'[e][j] = stage[e][j] /\ pages'[e][j] = pages[e][j]
                /\ began'[e][j] = began[e][j]
             \/ stage'[e][j] \in {"out", "processing"}
  <2>1. CASE LeaseInsert(d)
    BY <2>1 DEF LeaseInsert
  <2>2. CASE DrainRaises(d) \/ Exit(d)
    <3>1. stage' = [stage EXCEPT ![d] = [i \in Items |-> "out"]]
      BY <2>2 DEF DrainRaises, Exit, OutOfBatch
    <3>2. pages' = [pages EXCEPT ![d] = None] /\ began' = [began EXCEPT ![d] = None]
      BY <2>2 DEF DrainRaises, Exit, OutOfBatch
    <3>3. CASE e = d
      BY <3>1, <3>3
    <3>4. CASE e # d
      BY <3>1, <3>2, <3>4
    <3> QED
      BY <3>3, <3>4
  <2>3. CASE \/ Start(d) \/ Deadline(d) \/ LeaseSelect(d) \/ LeaseNothing(d)
             \/ Count(d) \/ SleepEnds(d) \/ BatchDone(d)
    BY <2>3 DEF Start, Deadline, LeaseSelect, LeaseNothing, Count, SleepEnds,
                BatchDone, Elsewhere
  <2> QED
    BY <1>3, <2>1, <2>2, <2>3 DEF LoopStep
<1>4. ASSUME NEW d \in Workers, NEW i \in Items,
             \/ HandlerRaises(d, i) \/ Succeed(d, i) \/ Fail(d, i)
             \/ SuccessUnacknowledged(d, i) \/ FinishRaises(d, i) \/ LeaseLapses(d, i)
      PROVE  \/ /\ stage'[e][j] = stage[e][j] /\ pages'[e][j] = pages[e][j]
                /\ began'[e][j] = began[e][j]
             \/ stage'[e][j] \in {"out", "failed"}
  <2>1. CASE HandlerRaises(d, i) \/ SuccessUnacknowledged(d, i)
    <3>1. stage' = [stage EXCEPT ![d][i] = "failed"] /\ UNCHANGED <<pages, began>>
      BY <2>1 DEF HandlerRaises, SuccessUnacknowledged, SetStage
    <3> HIDE DEF TypeInv
    <3> QED
      BY <3>1, NestedExcept
  <2>2. CASE Succeed(d, i) \/ Fail(d, i) \/ FinishRaises(d, i)
    <3>1. /\ stage' = [stage EXCEPT ![d][i] = "out"]
          /\ pages' = [pages EXCEPT ![d][i] = 0]
          /\ began' = [began EXCEPT ![d][i] = 0]
      BY <2>2 DEF Succeed, Fail, FinishRaises, EndTask, SetStage
    <3> QED
      BY <3>1, NestedExcept
  <2>3. CASE LeaseLapses(d, i)
    BY <2>3 DEF LeaseLapses
  <2> QED
    BY <1>4, <2>1, <2>2, <2>3
<1>5. ASSUME NEW d \in Workers, NEW i \in Items,
             ProcessBatch(d, i) \/ StorePage(d, i)
      PROVE  \/ /\ stage'[e][j] = stage[e][j] /\ pages'[e][j] = pages[e][j]
                /\ began'[e][j] = began[e][j]
             \/ ProcessBatch(e, j) \/ StorePage(e, j)
  <2>1. CASE e = d /\ j = i
    BY <1>5, <2>1
  <2>2. CASE (e # d \/ j # i) /\ ProcessBatch(d, i)
    BY <2>2 DEF ProcessBatch, SetStage
  <2>3. CASE (e # d \/ j # i) /\ StorePage(d, i)
    BY <2>3 DEF StorePage, SetStage
  <2> QED
    BY <1>5, <2>1, <2>2, <2>3
<1> QED
  BY <1>1, <1>2, <1>3, <1>4, <1>5 DEF Next, ItemStep

(* Only a handler that is through makes an item done.                      *)
LEMMA DoneShapes ==
  ASSUME TypeInv, [Next]_vars, NEW j \in Items, row'[j].status = "done"
  PROVE  \/ row[j].status = "done"
         \/ \E d \in Workers : stage[d][j] \in {"stored", "truncated"}
<1> USE DEF TypeInv, TypeOK, tableVars, drainVars
<1>1. CASE UNCHANGED row
  BY <1>1
<1>2. ASSUME NEW i \in Items, NEW version, version.status # "done",
             Write(i, version)
      PROVE  row[j].status = "done"
  BY <1>2 DEF Write, Put
<1>3. CASE \/ Place \/ (\E u \in Tradable : Trade(u) \/ Ages(u))
           \/ SeedOrders \/ SeedRecent \/ SeedOwners \/ SeedChunk \/ SeedEnds
           \/ FlushOrders \/ LoseBuffers \/ UNCHANGED vars
  BY <1>1, <1>3 DEF Place, Trade, Ages, SeedOrders, SeedRecent, SeedOwners,
     Seed, SeedChunk, SeedEnds, FlushOrders, LoseBuffers, vars
<1>4. ASSUME NEW d \in Workers, InsertLeases(d)
      PROVE  row[j].status = "done"
  <2>1. /\ row'[j] = row[j] \/ row'[j] = Put(row[j], LeaseRow(d, attempt[d][j]))
    BY <1>4 DEF InsertLeases
  <2>2. LeaseRow(d, attempt[d][j]).status = "running"
    BY DEF LeaseRow, Version
  <2> QED
    BY <2>1, <2>2 DEF Put
<1>5. ASSUME NEW d \in Workers,
             Start(d) \/ Deadline(d) \/ LoopStep(d) \/ DrainRaises(d) \/ Exit(d)
      PROVE  UNCHANGED row \/ InsertLeases(d)
  BY <1>5 DEF Start, Deadline, LoopStep, LeaseSelect, LeaseNothing, LeaseInsert,
              Count, SleepEnds, BatchDone, Elsewhere, DrainRaises, Exit
<1>6. ASSUME NEW d \in Workers, NEW i \in Items,
             ProcessBatch(d, i) \/ StorePage(d, i) \/ HandlerRaises(d, i)
               \/ LeaseLapses(d, i)
      PROVE  UNCHANGED row
  BY <1>6 DEF ProcessBatch, StorePage, HandlerRaises, LeaseLapses
<1>7. ASSUME NEW d \in Workers, NEW i \in Items, Fail(d, i) \/ FinishRaises(d, i)
      PROVE  row[j].status = "done"
  <2>1. Verdict(d, i).status # "done"
    BY DEF Verdict, DeadRow, RetryRow, Version
  <2> QED
    BY <1>1, <1>2, <1>7, <2>1 DEF Fail, FinishRaises
<1>8. ASSUME NEW d \in Workers, NEW i \in Items,
             Succeed(d, i) \/ SuccessUnacknowledged(d, i)
      PROVE  \/ row[j].status = "done"
             \/ stage[d][j] \in {"stored", "truncated"}
  <2>1. Write(i, DoneRow(attempt[d][i])) /\ stage[d][i] \in {"stored", "truncated"}
    BY <1>8 DEF Succeed, SuccessUnacknowledged, Processed, Busy
  <2>2. CASE i = j
    BY <2>1, <2>2
  <2>3. CASE i # j
    BY <2>1, <2>3 DEF Write
  <2> QED
    BY <2>2, <2>3
<1>9. ASSUME NEW i \in Items, FlushWork(i) \/ Purge(i) \/ RetryDue(i)
      PROVE  row[j].status = "done"
  <2>1. CASE FlushWork(i)
    BY <1>2, <2>1 DEF FlushWork, EnqueueRow, Version
  <2>2. CASE Purge(i)
    BY <2>2 DEF Purge, Absent, Version
  <2>3. CASE RetryDue(i)
    BY <2>3 DEF RetryDue, Version
  <2> QED
    BY <1>9, <2>1, <2>2, <2>3
<1> QED
  BY <1>1, <1>3, <1>4, <1>5, <1>6, <1>7, <1>8, <1>9 DEF Next, ItemStep

(* What was acknowledged stays, unless the server loses it.                *)
LEMMA StoredGrows ==
  ASSUME TypeInv, [Next]_vars, losses' = 0
  PROVE  losses = 0 /\ Acknowledged \subseteq Acknowledged' /\ placed <= placed'
<1> USE DEF TypeInv, TypeOK, worldVars, tableVars, drainVars, boundVars
<1>0. placed \in Int /\ losses \in Nat
  BY BackfillParameters, OrdersFinite
<1>1. CASE LoseBuffers
  BY <1>0, <1>1 DEF LoseBuffers
<1>2. CASE FlushOrders
  BY <1>0, <1>2 DEF FlushOrders, Acknowledged
<1>3. CASE Place \/ (\E u \in Tradable : Trade(u) \/ Ages(u))
  BY <1>0, <1>3 DEF Place, Trade, Ages, Acknowledged
<1>6. CASE \/ SeedOrders \/ SeedRecent \/ SeedOwners \/ SeedChunk \/ SeedEnds
           \/ (\E i \in Items : FlushWork(i) \/ Purge(i) \/ RetryDue(i))
           \/ UNCHANGED vars
  <2>1. UNCHANGED <<placed, orders, orderBuf, losses>>
    BY <1>6 DEF SeedOrders, SeedRecent, SeedOwners, Seed, SeedChunk,
       SeedEnds, FlushWork, Purge, RetryDue, vars
  <2> QED
    BY <1>0, <2>1 DEF Acknowledged
<1>4. ASSUME NEW d \in Workers,
             Start(d) \/ Deadline(d) \/ LoopStep(d) \/ DrainRaises(d) \/ Exit(d)
      PROVE  UNCHANGED <<placed, orders, orderBuf, losses>>
  BY <1>4 DEF Start, Deadline, LoopStep, LeaseSelect, LeaseNothing, LeaseInsert,
              Count, SleepEnds, BatchDone, Elsewhere, DrainRaises, Exit
<1>5. ASSUME NEW d \in Workers, NEW i \in Items,
             \/ ItemStep(d, i) \/ SuccessUnacknowledged(d, i)
             \/ FinishRaises(d, i) \/ LeaseLapses(d, i)
      PROVE  UNCHANGED <<placed, orders, losses>> /\ orderBuf \subseteq orderBuf'
  BY <1>5, Zenon DEF ItemStep, ProcessBatch, StorePage, HandlerRaises, Succeed, Fail,
              SuccessUnacknowledged, FinishRaises, LeaseLapses
<1> QED
  BY <1>0, <1>1, <1>2, <1>3, <1>4, <1>5, <1>6 DEF Next, Acknowledged

-----------------------------------------------------------------------------
(* Batches.                                                                *)

(* A batch that was processed, whether its verdict is written or not, has  *)
(* what the API serves of it acknowledged.                                 *)
Settled(i) ==
  \/ row[i].status = "done"
  \/ \E d \in Workers : stage[d][i] \in {"stored", "truncated"}

BatchInv ==
  losses = 0 =>
    \A i \in Batches : Settled(i) => i \cap Served \subseteq Acknowledged

LEMMA BatchInit == Init => BatchInv
BY DEF Init, BatchInv, Settled, Absent, Version, Items

LEMMA BatchStep ==
  TypeInv /\ BatchInv /\ [Next]_vars => BatchInv'
<1> SUFFICES ASSUME TypeInv, BatchInv, [Next]_vars, losses' = 0,
                    NEW i \in Batches, Settled(i)'
             PROVE  i \cap Served \subseteq Acknowledged'
  BY DEF BatchInv
<1>1. losses = 0 /\ Acknowledged \subseteq Acknowledged'
  BY StoredGrows
<1>2. i \in Items /\ i \notin Owners
  <2>1. i \in SUBSET Orders
    BY BackfillParameters DEF Batches
  <2> QED
    BY <2>1, OwnersAreNoBatches DEF Items
<1>3. CASE Settled(i)
  BY <1>1, <1>3 DEF BatchInv
<1>4. CASE ~Settled(i)
  <2>1. PICK e \in Workers : stage'[e][i] \in {"stored", "truncated"}
    <3>1. row'[i].status # "done"
      BY <1>2, <1>4, DoneShapes DEF Settled
    <3> QED
      BY <3>1 DEF Settled
  <2>2. stage[e][i] \notin {"stored", "truncated"}
    BY <1>4 DEF Settled
  <2>3. ProcessBatch(e, i) \/ StorePage(e, i)
    BY <1>2, <2>1, <2>2, StageShapes
  <2>4. ProcessBatch(e, i)
    BY <1>2, <2>3 DEF StorePage
  <2> QED
    BY <2>4 DEF ProcessBatch, ByUids, Acknowledged, tableVars
<1> QED
  BY <1>3, <1>4

(* A uid batch whose item is done has every order of it that the API       *)
(* serves in orders or in its insert buffer, as long as the server loses   *)
(* no buffer: through exceptions, retries, drains that die in the middle   *)
(* of a batch and items processed by two drains at once                    *)
(* (_process_and_finish finishes an item only after store_orders).         *)
THEOREM BatchesAreStored == Spec => []DoneBatchIsStored
<1>1. BatchInv => DoneBatchIsStored
  BY DEF BatchInv, DoneBatchIsStored, Settled
<1> QED
  BY TypeInvariant, BatchInit, BatchStep, <1>1, PTL DEF Spec

-----------------------------------------------------------------------------
(* Owners.                                                                 *)

(* The pages read so far are stored, as far as they existed when the       *)
(* reading began: what is placed since then only pushes them down.         *)
PagesStored(d, i) ==
  \A u \in Listing(i) :
    u <= began[d][i] /\ Rank(Listing(i), u) < pages[d][i] * PageLimit =>
      u \in Acknowledged

ListingStored(d, i) ==
  \A u \in Listing(i) : u <= began[d][i] => u \in Acknowledged

OwnerInv ==
  losses = 0 =>
    \A d \in Workers, i \in Owners :
      /\ stage[d][i] = "paging" => PagesStored(d, i)
      /\ stage[d][i] = "stored" => ListingStored(d, i)

LEMMA OwnerInit == Init => OwnerInv
BY DEF Init, OwnerInv, Items

LEMMA ListingTypes ==
  \A i \in Owners : Listing(i) \in SUBSET Int /\ IsFiniteSet(Listing(i))
<1>1. \A i \in Owners : Listing(i) \in SUBSET Orders
  BY BackfillParameters DEF Listing
<1> QED
  BY <1>1, OrdersFinite

(* A listing that grows only pushes down what it had.                      *)
LEMMA ListingGrows ==
  ASSUME placed \in Nat, placed' \in Nat, placed <= placed',
         NEW i \in Owners, NEW u \in Listing(i)', u <= placed
  PROVE  u \in Listing(i) /\ Rank(Listing(i), u) <= Rank(Listing(i)', u)
<1>1. Listing(i) \subseteq Listing(i)' /\ u \in Listing(i)
  <2>1. Served \subseteq Int
    BY BackfillParameters, OrdersFinite
  <2>2. \A v \in Served : v <= placed => v <= placed'
    BY <2>1
  <2>3. Listing(i) \subseteq Listing(i)'
    BY <2>2 DEF Listing
  <2>4. u \in Served /\ OwnerOf[u] = i
    BY DEF Listing
  <2> QED
    BY <2>3, <2>4 DEF Listing
<1>2. IsFiniteSet(Listing(i)')
  <2>1. Listing(i)' \in SUBSET Orders
    BY BackfillParameters DEF Listing
  <2> QED
    BY <2>1, OrdersFinite
<1>3. Above(Listing(i)', u) \in SUBSET Listing(i)'
      /\ Above(Listing(i), u) \in SUBSET Above(Listing(i)', u)
  BY <1>1 DEF Above
<1>4. IsFiniteSet(Above(Listing(i)', u))
  BY <1>2, <1>3, FS_Subset
<1>5. Cardinality(Above(Listing(i), u)) <= Cardinality(Above(Listing(i)', u))
  BY <1>3, <1>4, FS_Subset
<1> QED
  BY <1>1, <1>5 DEF Rank

(* What a page adds to the pages before it.                                *)
LEMMA PageStores ==
  ASSUME TypeInv, OwnerInv, losses = 0, NEW d \in Workers, NEW i \in Owners,
         i \in Items, StorePage(d, i),
         NEW u \in Listing(i), u <= began'[d][i],
         Rank(Listing(i), u) < pages[d][i] * PageLimit + PageLimit
  PROVE  u \in Acknowledged'
<1> DEFINE n == pages[d][i] * PageLimit
<1>1. stage[d][i] \in {"processing", "paging"}
  BY DEF StorePage, Busy
<1>2. orders' = orders /\ orderBuf' = orderBuf \cup Page(i, n)
  BY DEF StorePage
<1>3. PageLimit \in Nat \ {0} /\ pages[d][i] \in Nat /\ n \in Nat
  <2>1. PageLimit \in Nat \ {0} /\ MaxPages \in Nat
    BY BackfillParameters
  <2>2. pages[d][i] \in Nat
    BY <2>1 DEF TypeInv, TypeOK
  <2> QED
    BY <2>1, <2>2
<1>4. Rank(Listing(i), u) \in Nat
  <2>1. Rank(Listing(i), u) \in 0 .. Cardinality(Listing(i)) - 1
    BY ListingTypes, RankType
  <2> QED
    BY <2>1
<1>5. CASE Rank(Listing(i), u) < n
  <2>1. stage[d][i] = "paging"
    <3>1. stage[d][i] = "processing" => pages[d][i] = 0
      BY DEF TypeInv, StageOK
    <3>2. stage[d][i] = "processing" => n = 0
      BY <1>3, <3>1
    <3> QED
      BY <1>1, <1>4, <1>5, <3>2
  <2>2. began'[d][i] = began[d][i]
    <3>1. began' = [began EXCEPT ![d][i] = @]
      BY <2>1 DEF StorePage
    <3> QED
      BY <3>1 DEF TypeInv, TypeOK
  <2>3. PagesStored(d, i)
    BY <2>1 DEF OwnerInv
  <2> QED
    BY <1>2, <1>5, <2>2, <2>3 DEF PagesStored, Acknowledged
<1>6. CASE Rank(Listing(i), u) >= n
  <2>1. Rank(Listing(i), u) \in n .. n + PageLimit - 1
    BY <1>3, <1>4, <1>6
  <2>2. u \in Page(i, n)
    BY <2>1 DEF Page, Rank, Above
  <2> QED
    BY <1>2, <2>2 DEF Acknowledged
<1> QED
  BY <1>3, <1>4, <1>5, <1>6

LEMMA OwnerStep ==
  TypeInv /\ OwnerInv /\ [Next]_vars /\ TypeInv' => OwnerInv'
<1> SUFFICES ASSUME TypeInv, OwnerInv, [Next]_vars, TypeInv', losses' = 0,
                    NEW d \in Workers, NEW i \in Owners
             PROVE  /\ stage'[d][i] = "paging" => PagesStored(d, i)'
                    /\ stage'[d][i] = "stored" => ListingStored(d, i)'
  BY DEF OwnerInv
<1>1. losses = 0 /\ Acknowledged \subseteq Acknowledged' /\ placed <= placed'
  BY StoredGrows
<1>2. i \in Items
  BY DEF Items
<1>3. placed \in Nat /\ placed' \in Nat
  BY OrdersFinite DEF TypeInv, TypeOK
<1>4. /\ PageLimit \in Nat \ {0} /\ pages[d][i] \in Nat
      /\ began[d][i] \in Nat /\ began[d][i] <= placed
  <2>1. PageLimit \in Nat \ {0} /\ MaxPages \in Nat
    BY BackfillParameters
  <2>2. pages[d][i] \in Nat /\ began[d][i] \in Nat
    BY <1>2, <2>1 DEF TypeInv, TypeOK
  <2> QED
    BY <1>2, <2>1, <2>2 DEF TypeInv, StageOK
<1>5. \A u \in Listing(i)' : u \in Int
  BY BackfillParameters, OrdersFinite DEF Listing
<1>6. CASE /\ stage'[d][i] = stage[d][i] /\ pages'[d][i] = pages[d][i]
           /\ began'[d][i] = began[d][i]
  <2>1. ASSUME NEW u \in Listing(i)', u <= began'[d][i]
        PROVE  u \in Listing(i) /\ Rank(Listing(i), u) <= Rank(Listing(i)', u)
    <3>1. u <= placed
      BY <1>3, <1>4, <1>5, <1>6, <2>1
    <3> QED
      BY <1>1, <1>3, <2>1, <3>1, ListingGrows
  <2>2. ASSUME stage'[d][i] = "paging",
               NEW u \in Listing(i)', u <= began'[d][i],
               Rank(Listing(i)', u) < pages'[d][i] * PageLimit
        PROVE  u \in Acknowledged'
    <3>1. PagesStored(d, i) /\ u \in Listing(i) /\ u <= began[d][i]
      BY <1>1, <1>6, <2>1, <2>2 DEF OwnerInv
    <3>2. Rank(Listing(i), u) \in Int /\ Rank(Listing(i)', u) \in Int
      <4>1. Rank(Listing(i), u) \in 0 .. Cardinality(Listing(i)) - 1
        BY <3>1, ListingTypes, RankType
      <4>2. Listing(i)' \in SUBSET Orders
        BY BackfillParameters DEF Listing
      <4>3. Listing(i)' \in SUBSET Int /\ IsFiniteSet(Listing(i)')
        BY <4>2, OrdersFinite
      <4>4. Rank(Listing(i)', u) \in 0 .. Cardinality(Listing(i)') - 1
        BY <4>3, <2>2, RankType
      <4> QED
        BY <4>1, <4>4
    <3>3. Rank(Listing(i), u) < pages[d][i] * PageLimit
      <4>1. pages[d][i] * PageLimit \in Int
        BY <1>4
      <4>2. Rank(Listing(i)', u) < pages[d][i] * PageLimit
        BY <1>6, <2>2
      <4> QED
        BY <2>1, <2>2, <3>2, <4>1, <4>2
    <3> QED
      BY <1>1, <3>1, <3>3 DEF PagesStored
  <2>3. ASSUME stage'[d][i] = "stored", NEW u \in Listing(i)', u <= began'[d][i]
        PROVE  u \in Acknowledged'
    BY <1>1, <1>6, <2>1, <2>3 DEF OwnerInv, ListingStored
  <2> QED
    BY <2>2, <2>3 DEF PagesStored, ListingStored
<1>7. CASE StorePage(d, i)
  <2> DEFINE rows == Page(i, pages[d][i] * PageLimit)
             stored == pages[d][i] + (IF rows = {} THEN 0 ELSE 1)
  <2>1. Listing(i)' = Listing(i)
    BY <1>7 DEF StorePage, worldVars, Listing
  <2>2. pages'[d][i] = stored
    <3>1. pages' = [pages EXCEPT ![d][i] = stored]
      BY <1>7 DEF StorePage
    <3> HIDE DEF stored
    <3> QED
      BY <1>2, <3>1 DEF TypeInv, TypeOK
  <2>3. /\ stage'[d][i] = "paging" => ~LastPage(rows)
        /\ stage'[d][i] = "stored" => LastPage(rows)
    <3>1. stage' = [stage EXCEPT ![d][i] =
                      IF rows # {} /\ stored >= MaxPages THEN "truncated"
                      ELSE IF LastPage(rows) THEN "stored" ELSE "paging"]
      BY <1>7, Zenon DEF StorePage, SetStage
    <3> HIDE DEF stored, rows
    <3> QED
      BY <1>2, <3>1 DEF TypeInv, TypeOK
  <2>4. ASSUME NEW u \in Listing(i), u <= began'[d][i],
               Rank(Listing(i), u) < pages[d][i] * PageLimit + PageLimit
        PROVE  u \in Acknowledged'
    BY <1>1, <1>2, <1>7, <2>4, PageStores
  <2>5. stage'[d][i] = "paging" => pages'[d][i] = pages[d][i] + 1
    <3>1. Cardinality({}) = 0
      BY FS_EmptySet
    <3>2. rows = {} => LastPage(rows)
      BY <1>4, <3>1 DEF LastPage
    <3> QED
      BY <2>2, <2>3, <3>2
  <2>6. stage'[d][i] = "paging" => PagesStored(d, i)'
    <3>1. (pages[d][i] + 1) * PageLimit = pages[d][i] * PageLimit + PageLimit
      BY <1>4
    <3> QED
      BY <2>1, <2>4, <2>5, <3>1 DEF PagesStored
  <2>7. ASSUME LastPage(rows), NEW u \in Listing(i)
        PROVE  Rank(Listing(i), u) < pages[d][i] * PageLimit + PageLimit
    <3> DEFINE n == pages[d][i] * PageLimit
    <3>1. n \in Nat
      BY <1>4
    <3>2. rows = {v \in Listing(i) : Rank(Listing(i), v) \in n .. n + PageLimit - 1}
      BY DEF Page, Rank, Above
    <3>3. Cardinality(rows) < PageLimit
      BY <2>7 DEF LastPage
    <3>4. ~(Rank(Listing(i), u) >= n + PageLimit)
      <4> HIDE DEF rows, n
      <4>1. SUFFICES ASSUME Rank(Listing(i), u) >= n + PageLimit PROVE FALSE
        OBVIOUS
      <4>2. Listing(i) \in SUBSET Int /\ IsFiniteSet(Listing(i))
        BY ListingTypes
      <4>3. Cardinality(rows) = PageLimit
        BY <1>4, <3>1, <3>2, <4>1, <4>2, PieceFull
      <4> QED
        BY <1>4, <3>3, <4>3
    <3>5. Rank(Listing(i), u) \in Int
      <4>1. Rank(Listing(i), u) \in 0 .. Cardinality(Listing(i)) - 1
        BY ListingTypes, RankType
      <4> QED
        BY <4>1
    <3> QED
      BY <1>4, <3>1, <3>4, <3>5
  <2>8. stage'[d][i] = "stored" => ListingStored(d, i)'
    BY <2>1, <2>3, <2>4, <2>7 DEF ListingStored
  <2> QED
    BY <2>6, <2>8
<1>8. CASE ProcessBatch(d, i)
  BY <1>8 DEF ProcessBatch
<1> QED
  BY <1>2, <1>6, <1>7, <1>8, StageShapes

(* An owner whose listing was read to its end is finished only once every  *)
(* order of it that existed when the reading began is stored: orders       *)
(* placed meanwhile push the others to later offsets, where they are read  *)
(* again, and never to earlier ones (iter_account_orders), as long as the  *)
(* server loses no buffer.                                                 *)
THEOREM OwnersAreStored == Spec => DoneOwnerIsStored
<1>1. TypeInv /\ OwnerInv /\ [Next]_vars =>
        [losses = 0 =>
           \A d \in Workers, i \in Owners :
             Succeed(d, i) /\ stage[d][i] = "stored" =>
               {u \in Listing(i) : u <= began[d][i]} \subseteq Acknowledged]_vars
  BY DEF OwnerInv, ListingStored
<1> QED
  BY TypeInvariant, OwnerInit, OwnerStep, <1>1, PTL DEF Spec, DoneOwnerIsStored

=============================================================================
