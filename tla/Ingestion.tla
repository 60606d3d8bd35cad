------------------------------ MODULE Ingestion ------------------------------
(***************************************************************************)
(* How orders get into the store from the CoW API: EnrichmentService.      *)
(* run_once with a handler for each kind of work item, and the two loops   *)
(* of `continuous` beside it, the refresh of active orders and the capture *)
(* of the latest auction.                                                  *)
(*                                                                         *)
(* A handler is the sequence of calls it has still to make; an answer of   *)
(* the API puts the calls that depend on it in front.  A call returns, or  *)
(* raises with or without its effect.  A fetch stands for the request and  *)
(* for the store_api_payload after it, whose rows are not kept.  The queue *)
(* is reduced to the status and attempts of an item (WorkQueue has leases  *)
(* and revisions), and a listing to one page (OrderbookBackfill reads      *)
(* several).  Items of kind "token" are left to TokenPrices.  What the     *)
(* scanner enqueued is there at the start.  A row is visible once it is    *)
(* acknowledged, and no enqueue is suppressed (Scanner has the buffer and  *)
(* the suppression).  The API knows every app data; an order with an empty *)
(* life it does not serve.                                                 *)
(***************************************************************************)
EXTENDS Integers, Sequences, FiniteSets, FiniteSetsExt

CONSTANTS
  Orders, Owners, AppData, Txs, Auctions,
  OwnerOf,       \* of an order
  AppDataOf,     \* of an order: none or one full appDataHash
  SettledIn,     \* of a transaction: its orders
  AuctionOf,     \* of a transaction
  AuctionOrders, \* of an auction
  Life,          \* of an order: what the API says of it, one after the other
  Scenarios,     \* what there is to discover: items of the scanner, transactions
                 \* with a public competition, captures of the latest auction
  Misnamed,      \* keys of order_uid items that are no order uid
  BatchLimit,    \* RuntimeConfig.enrich_batch
  Concurrency,   \* RuntimeConfig.enrich_concurrency
  MaxAttempts,   \* RuntimeConfig.max_attempts
  MaxFaults      \* bound on exceptions, deadlines and crashes

Statuses == {"presignaturePending", "open", "fulfilled", "cancelled", "expired"}

OrderUids == Orders \cup Misnamed

Items ==
  ({"order_uid"} \X OrderUids) \cup ({"owner"} \X Owners)
    \cup ({"tx_hash", "tx_competition"} \X Txs)
    \cup ({"app_data"} \X AppData)

ASSUME IngestionParameters ==
  /\ OwnerOf \in [Orders -> Owners] /\ AppDataOf \in [Orders -> SUBSET AppData]
  /\ SettledIn \in [Txs -> SUBSET Orders] /\ AuctionOf \in [Txs -> Auctions]
  /\ AuctionOrders \in [Auctions -> SUBSET Orders]
  /\ Life \in [Orders -> Seq(Statuses)]
  /\ Scenarios \subseteq
       [seeds : SUBSET Items, public : SUBSET Txs, captures : Nat]
  /\ Misnamed \cap Orders = {}
  /\ {BatchLimit, Concurrency, MaxAttempts} \subseteq Nat \ {0}
  /\ MaxFaults \in Nat

ActiveLoop == <<"loop", "active">>
CaptureLoop == <<"loop", "capture">>
Loops == {ActiveLoop, CaptureLoop}

VARIABLES
  age,        \* the position of each order in its life
  public,     \* transactions whose competition the API serves
  queue,      \* work_items: status and attempts of each item
  orders,     \* orders: the status of each order in the table
  stored,     \* the rows of the other tables, as <<table, key>>
  worker,     \* run_once: idle, prefetch or gather
  pending,    \* its set of items that are not finished
  waiting,    \* those whose task has not got the semaphore
  prefetched, \* the answer to the prefetch: whether it succeeded, and rows
  todo,       \* the calls each item and loop has still to make
  captures,   \* captures still to come
  faults

runVars == <<worker, pending, waiting, prefetched>>
tables == <<queue, orders, stored>>
vars == <<age, public, tables, runVars, todo, captures, faults>>

Closed == {"done", "dead", "unavailable"}

Status(i) == queue[i].status

OrderRows == Orders \X Statuses

(* What the API says of an order; nothing of one that it does not serve. *)
Served(uids) == {<<o, Life[o][age[o]]>> : o \in {o \in uids \cap Orders : Life[o] # <<>>}}

Endpoints ==
  {"order", "trades:order", "order_status", "account_orders", "trades:owner",
   "transaction_orders", "competition:tx", "app_data", "competition:latest",
   "active_orders"}

Tables ==
  {"orders", "order_events", "trades", "protocol_fees", "solver_competitions",
   "competition_transactions", "competition_solutions", "auction_orders",
   "auction_prices", "app_data"}

Names == OrderUids \cup Owners \cup Txs \cup Auctions \cup AppData

Calls ==
  [op : {"fetch"}, endpoint : Endpoints, keys : SUBSET Names]
    \cup [op : {"store"}, tables : Seq(Tables), keys : SUBSET Names, rows : SUBSET OrderRows]
    \cup [op : {"enqueue"}, sets : SUBSET SUBSET Items]
    \cup [op : {"finish"}, outcome : {"done", "failed", "unavailable"}]

TypeOK ==
  /\ age \in [Orders -> Nat] /\ public \subseteq Txs
  /\ queue \in [Items -> [status : {"absent", "open"} \cup Closed,
                          attempts : 0 .. MaxAttempts + MaxFaults]]
  /\ orders \in [Orders -> Statuses \cup {"none"}]
  /\ stored \subseteq Tables \X Names
  /\ worker \in {"idle", "prefetch", "gather"}
  /\ pending \subseteq {i \in Items : Status(i) # "absent"} /\ waiting \subseteq pending
  /\ prefetched \in [ok : BOOLEAN, rows : SUBSET OrderRows]
  /\ todo \in [Items \cup Loops -> Seq(Calls)]
  /\ Cardinality({i \in Items : todo[i] # <<>>}) <= Concurrency
  /\ captures \in Nat /\ faults \in 0 .. MaxFaults

NoRows == [ok |-> TRUE, rows |-> {}]

Init ==
  /\ age = [o \in Orders |-> 1]
  /\ \E scenario \in Scenarios :
       /\ queue = [i \in Items |->
                     [status |-> IF i \in scenario.seeds THEN "open" ELSE "absent",
                      attempts |-> 0]]
       /\ public = scenario.public /\ captures = scenario.captures
  /\ orders = [o \in Orders |-> "none"] /\ stored = {}
  /\ worker = "idle" /\ pending = {} /\ waiting = {} /\ prefetched = NoRows
  /\ todo = [a \in Items \cup Loops |-> <<>>]
  /\ faults = 0

(* An order is signed, and is filled, expires or is cancelled. *)
StatusAdvances(o) ==
  /\ age[o] < Len(Life[o])
  /\ age' = [age EXCEPT ![o] = @ + 1]
  /\ UNCHANGED <<public, tables, runVars, todo, captures, faults>>

-----------------------------------------------------------------------------
(* The calls. *)

Fetch(endpoint, keys) == <<[op |-> "fetch", endpoint |-> endpoint, keys |-> keys]>>
Finish(outcome) == <<[op |-> "finish", outcome |-> outcome]>>

(* The inserts of a store_ method, one after the other. *)
Store(into, keys, rows) ==
  IF keys = {} THEN <<>>
  ELSE <<[op |-> "store", tables |-> into, keys |-> keys, rows |-> rows]>>

Uids(rows) == {row[1] : row \in rows}

StoreOrders(rows) == Store(<<"orders", "order_events">>, Uids(rows), rows)

StoreApiTrades(uids) == Store(<<"trades", "protocol_fees">>, uids, {})

CompetitionTables ==
  <<"solver_competitions", "competition_transactions", "competition_solutions",
    "auction_orders", "auction_prices">>

StoreCompetition(u) == Store(CompetitionTables, {u}, {})

StoreAppData(hash) == Store(<<"app_data">>, {hash}, {})

OrderItems(uids) == {"order_uid"} \X uids

FanoutOrder(o, includeOwner) ==
  OrderItems({o}) \cup ({"app_data"} \X AppDataOf[o])
    \cup (IF includeOwner THEN {<<"owner", OwnerOf[o]>>} ELSE {})

(* One enqueue after the other, in some order. *)
EnqueueEach(sets) == IF sets = {} THEN <<>> ELSE <<[op |-> "enqueue", sets |-> sets]>>

FanoutOrders(uids, includeOwner) == EnqueueEach({FanoutOrder(o, includeOwner) : o \in uids})

FanoutCompetition(u) ==
  IF AuctionOrders[u] = {} THEN <<>> ELSE EnqueueEach({OrderItems(AuctionOrders[u])})

-----------------------------------------------------------------------------
(* The API, and what a handler does with an answer. *)

Traded(uids) == {o \in uids : \E t \in Txs : o \in SettledIn[t]}

(* After the order of an order_uid item is known. *)
AfterOrder(uid, rows) ==
  StoreOrders(rows) \o FanoutOrders(Uids(rows), TRUE) \o Fetch("trades:order", {uid})

OwnedBy(w) == {o \in Orders : OwnerOf[o] = w}

(* The calls that an answer adds; several, if the API may answer several.  *)
Answers(call) ==
  LET key == CHOOSE k \in call.keys : TRUE
      endpoint == call.endpoint
  IN CASE endpoint = "order" -> {AfterOrder(key, Served({key}))}
       [] endpoint = "trades:order" ->
            {StoreApiTrades(Traded({key})) \o Fetch("order_status", {key})}
       [] endpoint = "order_status" -> {<<>>}
       [] endpoint = "account_orders" ->
            LET rows == Served(OwnedBy(key))
            IN {StoreOrders(rows) \o FanoutOrders(Uids(rows), FALSE)
                  \o Fetch("trades:owner", {key})}
       [] endpoint = "trades:owner" -> {StoreApiTrades(Traded(OwnedBy(key)))}
       [] endpoint = "transaction_orders" ->
            LET rows == Served(SettledIn[key])
            IN {StoreOrders(rows) \o FanoutOrders(Uids(rows), TRUE)}
       [] endpoint = "competition:tx" ->
            {StoreCompetition(AuctionOf[key]) \o FanoutCompetition(AuctionOf[key])}
       [] endpoint = "app_data" -> {StoreAppData(key)}
       [] endpoint = "competition:latest" ->
            {<<>>} \cup
              {StoreCompetition(u)
                 \o EnqueueEach({OrderItems({o}) : o \in AuctionOrders[u]}) : u \in Auctions}
       [] endpoint = "active_orders" -> {StoreOrders(Served(call.keys))}

(* The first call of the handler of an item. *)
Handler(i) ==
  CASE i[1] = "order_uid" ->
         IF prefetched.ok
           THEN AfterOrder(i[2], {row \in prefetched.rows : row[1] = i[2]})
           ELSE Fetch("order", {i[2]})
    [] i[1] = "owner" -> Fetch("account_orders", {i[2]})
    [] i[1] = "tx_hash" -> Fetch("transaction_orders", {i[2]})
    [] i[1] = "tx_competition" -> Fetch("competition:tx", {i[2]})
    [] i[1] = "app_data" -> Fetch("app_data", {i[2]})

(* normalize_order_uid raises on a key that is no uid. *)
Malformed(call) == call.keys \cap Misnamed # {}

Unavailable(call) == call.endpoint = "competition:tx" /\ call.keys \cap public = {}

-----------------------------------------------------------------------------
(* One call of an item's task or of a loop. *)

Fault == faults < MaxFaults /\ faults' = faults + 1

(* A mutated except branch: the handler goes on with its next call. *)
AfterRaiseGoesOn(a) == Tail(todo[a])

(* The except branch: of a task, or of _resilient_loop. *)
AfterRaise(a) == IF a \in Items THEN Finish("failed") ELSE <<>>

Goto(a, calls) == todo' = [todo EXCEPT ![a] = calls]

Returns(a) == Goto(a, Tail(todo[a])) /\ UNCHANGED faults
Raises(a) == Goto(a, AfterRaise(a)) /\ Fault

FetchCall(a, call) ==
  /\ \/ /\ ~Malformed(call) /\ ~Unavailable(call)
        /\ \E calls \in Answers(call) : Goto(a, calls \o Tail(todo[a]))
        /\ UNCHANGED faults
     \/ Malformed(call) /\ Goto(a, AfterRaise(a)) /\ UNCHANGED faults
     \/ Unavailable(call) /\ Goto(a, Finish("unavailable")) /\ UNCHANGED faults
     \/ Raises(a)
  /\ UNCHANGED tables

(* The first n inserts were carried out.  now is taken by store_orders     *)
(* itself, after the fetch: its rows are the newest.                       *)
Written(call, n) ==
  LET first == {call.tables[m] : m \in 1 .. n}
  IN /\ stored' = stored \cup (first \X call.keys)
     /\ orders' = IF "orders" \in first
                    THEN [o \in Orders |-> IF o \in call.keys
                            THEN (CHOOSE row \in call.rows : row[1] = o)[2] ELSE orders[o]]
                    ELSE orders

StoreCall(a, call) ==
  /\ \/ Written(call, Len(call.tables)) /\ Returns(a)
     \/ \E n \in 0 .. Len(call.tables) : Written(call, n) /\ Raises(a)
  /\ UNCHANGED queue

EnqueueCall(a, call) ==
  /\ \/ \E items \in call.sets :
          /\ queue' = [i \in Items |->
                         IF i \in items /\ Status(i) = "absent"
                           THEN [queue[i] EXCEPT !.status = "open"] ELSE queue[i]]
          /\ \/ /\ Goto(a, EnqueueEach(call.sets \ {items}) \o Tail(todo[a]))
                /\ UNCHANGED faults
             \/ Raises(a)
     \/ UNCHANGED queue /\ Raises(a)
  /\ UNCHANGED <<orders, stored>>

(* The status that finish_work leaves; a terminal one stays. *)
Outcome(i, outcome) ==
  IF Status(i) # "open" THEN Status(i)
  ELSE IF outcome # "failed" THEN outcome
  ELSE IF queue[i].attempts >= MaxAttempts THEN "dead" ELSE "open"

(* finish_work.  "done" is written inside of the try block, the others in  *)
(* an except branch, where an exception ends the task.                     *)
FinishCall(i, call) ==
  LET finished == [queue EXCEPT ![i].status = Outcome(i, call.outcome)]
  IN /\ \/ /\ queue' = finished /\ pending' = pending \ {i}
           /\ Goto(i, <<>>) /\ UNCHANGED faults
        \/ /\ queue' \in {queue, finished} /\ UNCHANGED pending
           /\ Goto(i, IF call.outcome = "done" THEN Finish("failed") ELSE <<>>)
           /\ Fault
     /\ UNCHANGED <<orders, stored>>

Call(a) ==
  /\ todo[a] # <<>>
  /\ LET call == Head(todo[a])
     IN \/ call.op = "fetch" /\ FetchCall(a, call) /\ UNCHANGED pending
        \/ call.op = "store" /\ StoreCall(a, call) /\ UNCHANGED pending
        \/ call.op = "enqueue" /\ EnqueueCall(a, call) /\ UNCHANGED pending
        \/ call.op = "finish" /\ FinishCall(a, call)
  /\ UNCHANGED <<age, public, worker, waiting, prefetched, captures>>

-----------------------------------------------------------------------------
(* run_once. *)

OpenItems == {i \in Items : Status(i) = "open"}

(* LIMIT takes as many as are due; one that was leased before may wait for *)
(* its retry or for the end of its lease.                                  *)
Lease(batch) ==
  /\ worker = "idle"
  /\ batch # {} /\ batch \subseteq OpenItems
  /\ \/ Cardinality(batch) = BatchLimit
     \/ \A i \in OpenItems \ batch : queue[i].attempts > 0
  /\ queue' = [i \in Items |->
                 IF i \in batch
                   THEN [queue[i] EXCEPT !.attempts = @ + 1]
                   ELSE queue[i]]
  /\ pending' = batch /\ waiting' = batch /\ worker' = "prefetch"
  /\ UNCHANGED <<age, public, orders, stored, prefetched, todo, captures, faults>>

(* _prefetch_orders: one request for the batch, or every item on its own.  *)
Prefetch ==
  /\ worker = "prefetch"
  /\ LET keys == {i[2] : i \in {i \in pending : i[1] = "order_uid"}}
     IN \/ /\ keys \cap Misnamed = {}
           /\ prefetched' = [ok |-> TRUE, rows |-> Served(keys)] /\ UNCHANGED faults
        \/ /\ keys \cap Misnamed # {}
           /\ prefetched' = [ok |-> FALSE, rows |-> {}] /\ UNCHANGED faults
        \/ /\ keys # {}
           /\ prefetched' = [ok |-> FALSE, rows |-> {}] /\ Fault
  /\ worker' = "gather"
  /\ UNCHANGED <<age, public, tables, pending, waiting, todo, captures>>

Running == {i \in pending : todo[i] # <<>>}

(* A mutated semaphore: one too many. *)
OneMoreTask == Cardinality(Running) <= Concurrency

FreeTask == Cardinality(Running) < Concurrency

Begin(i) ==
  /\ worker = "gather" /\ i \in waiting /\ FreeTask
  /\ waiting' = waiting \ {i}
  /\ Goto(i, Handler(i) \o Finish("done"))
  /\ UNCHANGED <<age, public, tables, worker, pending, prefetched, captures, faults>>

NoTasks == [a \in Items \cup Loops |-> IF a \in Items THEN <<>> ELSE todo[a]]

EndRun == pending' = {} /\ waiting' = {} /\ worker' = "idle" /\ prefetched' = NoRows

(* A mutated wait: for every item to be finished. *)
AllFinished == pending = {}

TasksEnded == waiting = {} /\ Running = {}

(* gather returns.  An item whose task raised keeps its lease until that   *)
(* lapses.                                                                 *)
BatchDone ==
  /\ worker = "gather" /\ TasksEnded
  /\ EndRun
  /\ UNCHANGED <<age, public, tables, todo, captures, faults>>

(* wait_for cancels the tasks; release_work gives the attempts back, unless *)
(* it raises.                                                              *)
Deadline ==
  /\ worker = "gather" /\ waiting \cup Running # {}
  /\ \/ queue' = [i \in Items |->
                    IF i \in pending /\ Status(i) = "open"
                      THEN [queue[i] EXCEPT !.attempts = @ - 1] ELSE queue[i]]
     \/ UNCHANGED queue
  /\ todo' = NoTasks /\ EndRun /\ Fault
  /\ UNCHANGED <<age, public, orders, stored, captures>>

(* The process dies; leases lapse. *)
Crash ==
  /\ todo' = [a \in Items \cup Loops |-> <<>>] /\ EndRun /\ Fault
  /\ UNCHANGED <<age, public, tables, captures>>

-----------------------------------------------------------------------------
(* The loops. *)

(* A mutated query: only open orders are refreshed. *)
ActiveIsOpen == {"open"}

ActiveStatuses == {"open", "presignaturePending"}

ActiveAction ==
  /\ todo[ActiveLoop] = <<>>
  /\ LET uids == {o \in Orders : orders[o] \in ActiveStatuses}
     IN uids # {} /\ Goto(ActiveLoop, Fetch("active_orders", uids))
  /\ UNCHANGED <<age, public, tables, runVars, captures, faults>>

CompetitionAction ==
  /\ todo[CaptureLoop] = <<>> /\ captures > 0
  /\ captures' = captures - 1
  /\ Goto(CaptureLoop, Fetch("competition:latest", {}))
  /\ UNCHANGED <<age, public, tables, runVars, faults>>

Batches == UNION {kSubset(n, Items) : n \in 1 .. BatchLimit}

WorkerStep ==
  \/ \E batch \in Batches : Lease(batch)
  \/ Prefetch \/ BatchDone
  \/ \E i \in Items : Begin(i) \/ Call(i)

Next ==
  \/ WorkerStep \/ Deadline \/ Crash
  \/ ActiveAction \/ CompetitionAction \/ \E loop \in Loops : Call(loop)
  \/ \E o \in Orders : StatusAdvances(o)

(* The loops run for ever, and a call ends. *)
Fairness ==
  /\ WF_vars(WorkerStep)
  /\ WF_vars(ActiveAction \/ Call(ActiveLoop)) /\ WF_vars(Call(CaptureLoop))

Spec == Init /\ [][Next]_vars /\ Fairness

-----------------------------------------------------------------------------
(* Properties. *)

(* The rows and the items that an item answers for. *)
ImpliedRows(i) ==
  CASE i[1] = "order_uid" ->
         {"trades", "protocol_fees"} \X Traded({i[2]})
    [] i[1] = "owner" -> {"trades", "protocol_fees"} \X Traded(OwnedBy(i[2]))
    [] i[1] = "tx_competition" -> Range(CompetitionTables) \X {AuctionOf[i[2]]}
    [] i[1] = "app_data" -> {<<"app_data", i[2]>>}
    [] OTHER -> {}

ImpliedOrders(i) ==
  {o \in Orders : /\ Life[o] # <<>>
                  /\ \/ i = <<"order_uid", o>> \/ i = <<"owner", OwnerOf[o]>>
                     \/ i[1] = "tx_hash" /\ o \in SettledIn[i[2]]}

ImpliedItems(i) ==
  (UNION {OrderItems({o}) \cup {<<"owner", OwnerOf[o]>>} \cup ({"app_data"} \X AppDataOf[o])
            : o \in ImpliedOrders(i)})
    \cup (IF i[1] = "tx_competition" THEN OrderItems(AuctionOrders[AuctionOf[i[2]]]) ELSE {})

(* What an item names was stored, and is queued, before the item is done:  *)
(* no handler that was interrupted, retried, cancelled at the deadline or  *)
(* run beside others leaves a hole in what can still be discovered         *)
(* (enrichment.py:159-193).                                                *)
DoneLeavesNoHole ==
  \A i \in Items : Status(i) = "done" =>
    /\ ImpliedRows(i) \subseteq stored
    /\ \A o \in ImpliedOrders(i) : orders[o] # "none"
    /\ \A j \in ImpliedItems(i) : Status(j) # "absent"

(* Every item that is queued is closed in the end, whatever shares its     *)
(* batch, its semaphore or its prefetch (enrichment.py:40-148).            *)
QueueDrains == <>[](OpenItems = {})

(* The status of every stored order settles on what the API says, although *)
(* a handler may write an answer that is older than the row it replaces    *)
(* (continuous.py:155-163, clickhouse.py:669 and 749).                     *)
StatusConverges == <>[](\A o \in Orders : orders[o] \in {"none", Life[o][age[o]]})

=============================================================================
