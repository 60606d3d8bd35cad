---------------------------- MODULE IngestionProofs ----------------------------
(***************************************************************************)
(* Theorems about Ingestion for every set of orders, owners, transactions  *)
(* and auctions, whatever the API has of them, and every batch size and    *)
(* number of tasks.  The fairness of Spec is not used.                     *)
(***************************************************************************)
EXTENDS Ingestion, FiniteSetTheorems, SequenceTheorems, TLAPS

-----------------------------------------------------------------------------
(* Sequences of calls. *)

LEMMA FirstOfRange ==
  ASSUME NEW S, NEW s \in Seq(S), s # <<>>
  PROVE  Range(s) = {Head(s)} \cup Range(Tail(s))
<1>1. /\ Len(s) \in Nat \ {0} /\ Tail(s) \in Seq(S) /\ Len(Tail(s)) = Len(s) - 1
      /\ Head(s) = s[1] /\ \A n \in 1 .. Len(s) - 1 : Tail(s)[n] = s[n + 1]
  BY HeadTailProperties, EmptySeq, LenProperties
<1>2. /\ Range(s) = {s[n] : n \in 1 .. Len(s)}
      /\ Range(Tail(s)) = {Tail(s)[n] : n \in 1 .. Len(s) - 1}
  <2>1. \A t \in Seq(S) : Range(t) = {t[n] : n \in 1 .. Len(t)}
    BY RangeEquality, Zenon
  <2>2. Range(Tail(s)) = {Tail(s)[n] : n \in 1 .. Len(Tail(s))}
    BY <1>1, <2>1, Zenon
  <2> QED
    BY <1>1, <2>1, <2>2
<1>3. ASSUME NEW n \in 1 .. Len(s)
      PROVE  s[n] = Head(s) \/ s[n] \in Range(Tail(s))
  <2>1. n = 1 \/ (n - 1 \in 1 .. Len(s) - 1 /\ Tail(s)[n - 1] = s[n])
    BY <1>1
  <2> QED
    BY <1>1, <1>2, <2>1
<1>4. Head(s) \in Range(s) /\ Range(Tail(s)) \subseteq Range(s)
  <2>1. 1 \in 1 .. Len(s) /\ \A n \in 1 .. Len(s) - 1 : n + 1 \in 1 .. Len(s)
    BY <1>1
  <2> QED
    BY <1>1, <1>2, <2>1
<1> QED
  BY <1>2, <1>3, <1>4

LEMMA RangeOfOne ==
  /\ Range(<<>>) = {}
  /\ \A S : <<>> \in Seq(S)
  /\ \A c : Range(<<c>>) = {c} /\ \A S : c \in S => <<c>> \in Seq(S)
BY DEF Range

LEMMA OneMore ==
  ASSUME NEW S, NEW s \in Seq(S), NEW e \in S
  PROVE  /\ s \o <<e>> \in Seq(S) /\ s \o <<e>> # <<>>
         /\ Range(s \o <<e>>) = Range(s) \cup {e}
         /\ s = <<>> => Head(s \o <<e>>) = e /\ Tail(s \o <<e>>) = <<>>
         /\ s # <<>> => /\ Head(s \o <<e>>) = Head(s)
                        /\ Tail(s \o <<e>>) = Tail(s) \o <<e>>
<1>1. s \o <<e>> = Append(s, e) /\ <<e>> \in Seq(S)
  BY AppendIsConcat
<1>2. Range(s \o <<e>>) = Range(s) \cup {e}
  <2>1. \A t \in Seq(S) : Range(s \o t) = Range(s) \cup Range(t)
    BY RangeConcatenation, Zenon
  <2> QED
    BY <1>1, <2>1, RangeOfOne
<1>3. s # <<>> => Append(Tail(s), e) = Tail(s) \o <<e>>
  BY AppendIsConcat, HeadTailProperties
<1> QED
  BY <1>1, <1>2, <1>3, AppendProperties, HeadTailAppend

LEMMA Prefixed ==
  ASSUME NEW S, NEW s \in Seq(S), NEW t \in Seq(S), NEW e \in S
  PROVE  s \o (t \o <<e>>) = (s \o t) \o <<e>>
<1>1. <<e>> \in Seq(S)
  OBVIOUS
<1> QED
  BY <1>1, ConcatAssociative

-----------------------------------------------------------------------------
(* Calls of the handlers. *)

Finishes == [op : {"finish"}, outcome : {"done", "failed", "unavailable"}]

DoneCall == [op |-> "finish", outcome |-> "done"]

TradeTables == {"trades", "protocol_fees"}

(* The keys of a request are of the kind its endpoint is about, and an     *)
(* insert into orders has a row for each key.                              *)
WellFormed(c) ==
  /\ c.op = "fetch" =>
       /\ c.endpoint \in {"order", "trades:order"} => \E u \in OrderUids : c.keys = {u}
       /\ c.endpoint \in {"account_orders", "trades:owner"} =>
            \E w \in Owners : c.keys = {w}
       /\ c.endpoint \in {"transaction_orders", "competition:tx"} =>
            \E t \in Txs : c.keys = {t}
       /\ c.endpoint = "app_data" => \E h \in AppData : c.keys = {h}
  /\ c.op = "store" /\ "orders" \in Range(c.tables) => c.keys = Uids(c.rows)

WorkCalls == {c \in Calls : c.op # "finish" /\ WellFormed(c)}

LEMMA CallTypes ==
  /\ WorkCalls \subseteq Calls /\ Finishes \subseteq Calls /\ DoneCall \in Finishes
  /\ \A c \in Finishes : c.op = "finish" /\ c \notin WorkCalls
  /\ \A c \in Calls : c.op \in {"fetch", "store", "enqueue", "finish"}
  /\ \A c \in Calls : c.op = "fetch" => c.endpoint \in Endpoints /\ c.keys \in SUBSET Names
  /\ \A c \in Calls : c.op = "store" =>
       /\ c.tables \in Seq(Tables) /\ c.keys \in SUBSET Names
       /\ c.rows \in SUBSET OrderRows
  /\ \A c \in Calls : c.op = "enqueue" => c.sets \in SUBSET SUBSET Items
  /\ \A c \in Calls : c.op = "finish" => c \in Finishes
BY DEF WorkCalls, Finishes, DoneCall, Calls

(* A task that has calls to make has one finish_work among them, the last. *)
Shape(s) == s = <<>> \/ \E t \in Seq(WorkCalls), f \in Finishes : s = t \o <<f>>

LEMMA ShapeOfOne ==
  ASSUME NEW f \in Finishes
  PROVE  /\ Shape(<<f>>)
         /\ \A s \in Seq(WorkCalls) :
              /\ Shape(s \o <<f>>) /\ s \o <<f>> # <<>>
              /\ s \in Seq(Calls) /\ s \o <<f>> \in Seq(Calls)
              /\ Range(s \o <<f>>) = Range(s) \cup {f}
              /\ s = <<>> => Head(s \o <<f>>) = f /\ Tail(s \o <<f>>) = <<>>
              /\ s # <<>> => /\ Head(s \o <<f>>) = Head(s)
                             /\ Tail(s \o <<f>>) = Tail(s) \o <<f>>
<1>1. <<>> \in Seq(WorkCalls) /\ <<>> \o <<f>> = <<f>>
  OBVIOUS
<1>2. Shape(<<f>>) /\ \A s \in Seq(WorkCalls) : Shape(s \o <<f>>)
  BY <1>1, Zenon DEF Shape
<1>3. f \in Calls /\ \A s \in Seq(WorkCalls) : s \in Seq(Calls)
  BY CallTypes, SeqMonotonic, Zenon
<1>4. \A s \in Seq(Calls) :
        /\ s \o <<f>> # <<>> /\ s \o <<f>> \in Seq(Calls)
        /\ Range(s \o <<f>>) = Range(s) \cup {f}
        /\ s = <<>> => Head(s \o <<f>>) = f /\ Tail(s \o <<f>>) = <<>>
        /\ s # <<>> => /\ Head(s \o <<f>>) = Head(s)
                       /\ Tail(s \o <<f>>) = Tail(s) \o <<f>>
  BY <1>3, OneMore
<1> QED
  BY <1>2, <1>3, <1>4, Zenon

LEMMA ShapeTypes ==
  ASSUME NEW s, Shape(s)
  PROVE  s \in Seq(Calls)
BY ShapeOfOne, RangeOfOne, Zenon DEF Shape

(* What the next call may be, and what is left of the task after it. *)
LEMMA ShapeSteps ==
  ASSUME NEW s, Shape(s), s # <<>>
  PROVE  /\ Head(s) \in Calls /\ Range(s) = {Head(s)} \cup Range(Tail(s))
         /\ \/ Head(s) \in Finishes /\ Tail(s) = <<>>
            \/ /\ Head(s) \in WorkCalls
               /\ Shape(Tail(s)) /\ Tail(s) # <<>>
               /\ \A calls \in Seq(WorkCalls) :
                    /\ Shape(calls \o Tail(s)) /\ calls \o Tail(s) # <<>>
                    /\ Range(calls \o Tail(s)) = Range(calls) \cup Range(Tail(s))
<1>1. PICK t \in Seq(WorkCalls), f \in Finishes : s = t \o <<f>>
  BY DEF Shape
<1>2. s \in Seq(Calls) /\ t \in Seq(Calls) /\ f \in Calls /\ <<f>> \in Seq(Calls)
  BY <1>1, ShapeTypes, ShapeOfOne, CallTypes, RangeOfOne, Zenon
<1>3. Head(s) \in Calls /\ Tail(s) \in Seq(Calls) /\ Range(s) = {Head(s)} \cup Range(Tail(s))
  BY <1>2, HeadTailProperties, FirstOfRange, Zenon
<1>4. CASE t = <<>>
  BY <1>1, <1>3, <1>4, ShapeOfOne, Zenon
<1>5. CASE t # <<>>
  <2>1. Head(t) \in WorkCalls /\ Tail(t) \in Seq(WorkCalls)
    BY <1>5, HeadTailProperties, Zenon
  <2>2. Head(s) = Head(t) /\ Tail(s) = Tail(t) \o <<f>>
    BY <1>1, <1>5, ShapeOfOne, Zenon
  <2>3. Tail(s) # <<>> /\ Shape(Tail(s))
    BY <2>1, <2>2, ShapeOfOne, Zenon
  <2>4. ASSUME NEW calls \in Seq(WorkCalls)
        PROVE  /\ Shape(calls \o Tail(s)) /\ calls \o Tail(s) # <<>>
               /\ Range(calls \o Tail(s)) = Range(calls) \cup Range(Tail(s))
    <3>1. calls \o Tail(t) \in Seq(WorkCalls)
      BY <2>1, ConcatProperties, Zenon
    <3>2. calls \in Seq(Calls) /\ Tail(t) \in Seq(Calls)
      BY <2>1, ShapeOfOne, Zenon
    <3>3. calls \o (Tail(t) \o <<f>>) = (calls \o Tail(t)) \o <<f>>
      BY <1>2, <3>2, Prefixed
    <3>4. Range(calls \o Tail(s)) = Range(calls) \cup Range(Tail(s))
      <4>1. \A a, b \in Seq(Calls) : Range(a \o b) = Range(a) \cup Range(b)
        BY RangeConcatenation
      <4> QED
        BY <1>3, <3>2, <4>1, Zenon
    <3> QED
      BY <2>2, <3>1, <3>3, <3>4, ShapeOfOne, Zenon
  <2> QED
    BY <1>3, <2>1, <2>2, <2>3, <2>4
<1> QED
  BY <1>4, <1>5

-----------------------------------------------------------------------------
(* What a call gives to the item whose handler makes it. *)

(* What an item answers for: rows, orders and items. *)
Implied(i) ==
  ({"row"} \X ImpliedRows(i)) \cup ({"order"} \X ImpliedOrders(i))
    \cup ({"item"} \X ImpliedItems(i))

There(g) ==
  \/ g[1] = "row" /\ g[2] \in stored
  \/ g[1] = "order" /\ orders[g[2]] # "none"
  \/ g[1] = "item" /\ Status(g[2]) # "absent"

OrderGoals(o, includeOwner) ==
  {<<"order", o>>} \cup ({"item"} \X FanoutOrder(o, includeOwner))

(* What a request for key k and the calls that follow its answer give. *)
Promises(endpoint, k, g) ==
  \/ /\ endpoint \in {"order", "trades:order"}
     /\ g \in {"row"} \X (TradeTables \X Traded({k}))
  \/ /\ endpoint \in {"account_orders", "trades:owner"}
     /\ g \in {"row"} \X (TradeTables \X Traded(OwnedBy(k)))
  \/ /\ endpoint = "competition:tx"
     /\ \/ g \in {"row"} \X (Range(CompetitionTables) \X {AuctionOf[k]})
        \/ g \in {"item"} \X OrderItems(AuctionOrders[AuctionOf[k]])
  \/ endpoint = "app_data" /\ g = <<"row", <<"app_data", k>>>>
  \/ \E o \in Orders :
       /\ Life[o] # <<>>
       /\ \/ endpoint = "order" /\ o = k /\ g \in OrderGoals(o, TRUE)
          \/ endpoint = "account_orders" /\ OwnerOf[o] = k /\ g \in OrderGoals(o, FALSE)
          \/ endpoint = "transaction_orders" /\ o \in SettledIn[k] /\ g \in OrderGoals(o, TRUE)

Gives(c, g) ==
  \/ /\ c.op = "store"
     /\ \/ g \in {"row"} \X (Range(c.tables) \X c.keys)
        \/ "orders" \in Range(c.tables) /\ g \in {"order"} \X c.keys
  \/ c.op = "enqueue" /\ g \in {"item"} \X UNION c.sets
  \/ c.op = "fetch" /\ \E k \in c.keys : Promises(c.endpoint, k, g)

Given(calls, g) == \E c \in Range(calls) : Gives(c, g)

LEMMA GivenByPart ==
  /\ <<>> \in Seq(WorkCalls)
  /\ \A s, t \in Seq(WorkCalls) :
       /\ s \o t \in Seq(WorkCalls)
       /\ \A g : Given(s, g) \/ Given(t, g) => Given(s \o t, g)
<1>1. \A s, t \in Seq(WorkCalls) :
        s \o t \in Seq(WorkCalls) /\ Range(s \o t) = Range(s) \cup Range(t)
  BY ConcatProperties, RangeConcatenation
<1> QED
  BY <1>1, RangeOfOne, Zenon DEF Given

LEMMA GivenByOne ==
  ASSUME NEW c \in WorkCalls
  PROVE  <<c>> \in Seq(WorkCalls) /\ \A g : Gives(c, g) => Given(<<c>>, g)
BY RangeOfOne DEF Given

LEMMA TablesOf ==
  /\ Range(<<"orders", "order_events">>) = {"orders", "order_events"}
  /\ Range(<<"trades", "protocol_fees">>) = TradeTables
  /\ Range(<<"app_data">>) = {"app_data"}
  /\ <<"orders", "order_events">> \in Seq(Tables)
  /\ <<"trades", "protocol_fees">> \in Seq(Tables)
  /\ <<"app_data">> \in Seq(Tables) /\ CompetitionTables \in Seq(Tables)
  /\ "orders" \notin Range(CompetitionTables)
<1>1. /\ <<"orders", "order_events">> \in Seq(Tables)
      /\ <<"trades", "protocol_fees">> \in Seq(Tables)
      /\ <<"app_data">> \in Seq(Tables) /\ CompetitionTables \in Seq(Tables)
  BY DEF Tables, CompetitionTables
<1>2. \A a, b : Range(<<a, b>>) = {a, b}
  BY DEF Range
<1>3. Range(<<"app_data">>) = {"app_data"}
  BY RangeOfOne
<1>4. "orders" \notin Range(CompetitionTables)
  BY DEF Range, CompetitionTables
<1> QED
  BY <1>1, <1>2, <1>3, <1>4 DEF TradeTables

LEMMA StoreGives ==
  ASSUME NEW into \in Seq(Tables), NEW keys \in SUBSET Names,
         NEW rows \in SUBSET OrderRows,
         "orders" \in Range(into) => keys = Uids(rows)
  PROVE  /\ Store(into, keys, rows) \in Seq(WorkCalls)
         /\ \A g \in {"row"} \X (Range(into) \X keys) : Given(Store(into, keys, rows), g)
         /\ "orders" \in Range(into) =>
              \A o \in keys : Given(Store(into, keys, rows), <<"order", o>>)
<1> DEFINE c == [op |-> "store", tables |-> into, keys |-> keys, rows |-> rows]
<1>1. CASE keys = {}
  BY <1>1, RangeOfOne DEF Store
<1>2. CASE keys # {}
  <2>1. /\ c \in Calls /\ c.op = "store" /\ c.tables = into /\ c.keys = keys
        /\ c.rows = rows
    BY DEF Calls
  <2>2. c \in WorkCalls
    BY <2>1 DEF WorkCalls, WellFormed
  <2>3. Store(into, keys, rows) = <<c>>
    BY <1>2 DEF Store
  <2>4. /\ \A g \in {"row"} \X (Range(into) \X keys) : Gives(c, g)
        /\ "orders" \in Range(into) => \A o \in keys : Gives(c, <<"order", o>>)
    BY <2>1 DEF Gives
  <2> HIDE DEF c
  <2> QED
    BY <2>2, <2>3, <2>4, GivenByOne, Zenon
<1> QED
  BY <1>1, <1>2

LEMMA NamesAre ==
  /\ Orders \subseteq OrderUids /\ OrderUids \subseteq Names /\ Owners \subseteq Names
  /\ Txs \subseteq Names /\ Auctions \subseteq Names /\ AppData \subseteq Names
  /\ \A uids : OwnedBy(uids) \subseteq Orders
  /\ \A uids : Traded(uids) \subseteq uids
BY DEF Names, OrderUids, OwnedBy, Traded

LEMMA StoreOrdersGives ==
  ASSUME NEW rows \in SUBSET OrderRows
  PROVE  /\ Uids(rows) \in SUBSET Orders
         /\ StoreOrders(rows) \in Seq(WorkCalls)
         /\ \A o \in Uids(rows) : Given(StoreOrders(rows), <<"order", o>>)
<1>1. Uids(rows) \in SUBSET Orders
  BY DEF Uids, OrderRows
<1>2. Uids(rows) \in SUBSET Names
  BY <1>1, NamesAre
<1>3. "orders" \in Range(<<"orders", "order_events">>)
  BY TablesOf
<1> QED
  BY <1>1, <1>2, <1>3, TablesOf, StoreGives DEF StoreOrders

LEMMA StoreApiTradesGives ==
  ASSUME NEW uids \in SUBSET Orders
  PROVE  /\ StoreApiTrades(uids) \in Seq(WorkCalls)
         /\ \A g \in {"row"} \X (TradeTables \X uids) : Given(StoreApiTrades(uids), g)
<1>1. uids \in SUBSET Names /\ {} \in SUBSET OrderRows
  BY NamesAre
<1>2. "orders" \notin Range(<<"trades", "protocol_fees">>)
  BY TablesOf DEF TradeTables
<1> QED
  BY <1>1, <1>2, TablesOf, StoreGives DEF StoreApiTrades

LEMMA StoreOneGives ==
  /\ \A u \in Auctions :
       /\ StoreCompetition(u) \in Seq(WorkCalls)
       /\ \A g \in {"row"} \X (Range(CompetitionTables) \X {u}) :
            Given(StoreCompetition(u), g)
  /\ \A h \in AppData :
       /\ StoreAppData(h) \in Seq(WorkCalls)
       /\ Given(StoreAppData(h), <<"row", <<"app_data", h>>>>)
<1>1. {} \in SUBSET OrderRows /\ "orders" \notin Range(<<"app_data">>)
  BY TablesOf
<1>2. /\ \A u \in Auctions : {u} \in SUBSET Names
      /\ \A h \in AppData : {h} \in SUBSET Names
  BY NamesAre
<1>3. ASSUME NEW u \in Auctions
      PROVE  /\ StoreCompetition(u) \in Seq(WorkCalls)
             /\ \A g \in {"row"} \X (Range(CompetitionTables) \X {u}) :
                  Given(StoreCompetition(u), g)
  BY <1>1, <1>2, TablesOf, StoreGives DEF StoreCompetition
<1>4. ASSUME NEW h \in AppData
      PROVE  /\ StoreAppData(h) \in Seq(WorkCalls)
             /\ Given(StoreAppData(h), <<"row", <<"app_data", h>>>>)
  <2>1. <<"row", <<"app_data", h>>>> \in {"row"} \X (Range(<<"app_data">>) \X {h})
    BY TablesOf
  <2> QED
    BY <1>1, <1>2, <2>1, TablesOf, StoreGives DEF StoreAppData
<1> QED
  BY <1>3, <1>4

LEMMA EnqueueGives ==
  ASSUME NEW sets \in SUBSET SUBSET Items
  PROVE  /\ EnqueueEach(sets) \in Seq(WorkCalls)
         /\ \A items \in sets : \A j \in items : Given(EnqueueEach(sets), <<"item", j>>)
<1> DEFINE c == [op |-> "enqueue", sets |-> sets]
<1>1. CASE sets = {}
  BY <1>1, RangeOfOne DEF EnqueueEach
<1>2. CASE sets # {}
  <2>1. c \in Calls /\ c.op = "enqueue" /\ c.sets = sets
    BY DEF Calls
  <2>2. c \in WorkCalls
    BY <2>1 DEF WorkCalls, WellFormed
  <2>3. \A items \in sets : \A j \in items : Gives(c, <<"item", j>>)
    BY <2>1 DEF Gives
  <2>4. EnqueueEach(sets) = <<c>>
    BY <1>2 DEF EnqueueEach
  <2> HIDE DEF c
  <2> QED
    BY <2>2, <2>3, <2>4, GivenByOne, Zenon
<1> QED
  BY <1>1, <1>2

LEMMA FanoutGives ==
  ASSUME NEW uids \in SUBSET Orders, NEW includeOwner \in BOOLEAN
  PROVE  /\ \A o \in uids : FanoutOrder(o, includeOwner) \subseteq Items
         /\ FanoutOrders(uids, includeOwner) \in Seq(WorkCalls)
         /\ \A o \in uids : \A j \in FanoutOrder(o, includeOwner) :
              Given(FanoutOrders(uids, includeOwner), <<"item", j>>)
<1>1. ASSUME NEW o \in Orders
      PROVE  FanoutOrder(o, includeOwner) \subseteq Items
  <2>1. OwnerOf[o] \in Owners /\ AppDataOf[o] \subseteq AppData /\ o \in OrderUids
    BY IngestionParameters, NamesAre
  <2> QED
    BY <2>1 DEF FanoutOrder, OrderItems, Items
<1> DEFINE sets == {FanoutOrder(o, includeOwner) : o \in uids}
<1>2. sets \in SUBSET SUBSET Items /\ \A o \in uids : FanoutOrder(o, includeOwner) \in sets
  BY <1>1
<1>3. FanoutOrders(uids, includeOwner) = EnqueueEach(sets)
  BY DEF FanoutOrders
<1> HIDE DEF sets
<1> QED
  BY <1>1, <1>2, <1>3, EnqueueGives

LEMMA FetchGives ==
  ASSUME NEW endpoint \in Endpoints, NEW keys \in SUBSET Names,
         WellFormed([op |-> "fetch", endpoint |-> endpoint, keys |-> keys])
  PROVE  /\ Fetch(endpoint, keys) \in Seq(WorkCalls)
         /\ \A k \in keys : \A g : Promises(endpoint, k, g) => Given(Fetch(endpoint, keys), g)
<1> DEFINE c == [op |-> "fetch", endpoint |-> endpoint, keys |-> keys]
<1>1. c \in Calls /\ c.op = "fetch" /\ c.endpoint = endpoint /\ c.keys = keys
  BY DEF Calls
<1>2. c \in WorkCalls
  BY <1>1 DEF WorkCalls
<1>3. \A k \in keys : \A g : Promises(endpoint, k, g) => Gives(c, g)
  BY <1>1 DEF Gives
<1>4. Fetch(endpoint, keys) = <<c>>
  BY DEF Fetch
<1> HIDE DEF c
<1> QED
  BY <1>2, <1>3, <1>4, GivenByOne, Zenon

-----------------------------------------------------------------------------
(* What an answer, and a handler, give. *)

AgesOK == \A o \in Orders : Life[o] # <<>> => age[o] \in DOMAIN Life[o]

LEMMA ServedRows ==
  ASSUME AgesOK
  PROVE  \A uids : /\ Served(uids) \in SUBSET OrderRows
                   /\ Uids(Served(uids)) = {o \in uids \cap Orders : Life[o] # <<>>}
<1>1. ASSUME NEW o \in Orders, Life[o] # <<>>
      PROVE  Life[o][age[o]] \in Statuses
  <2>1. Life[o] \in Seq(Statuses) /\ age[o] \in DOMAIN Life[o]
    BY <1>1, IngestionParameters DEF AgesOK
  <2> QED
    BY <2>1, LenProperties, ElementOfSeq
<1> TAKE uids
<1>2. Served(uids) \in SUBSET OrderRows
  BY <1>1 DEF Served, OrderRows
<1>3. \A o : <<o, Life[o][age[o]]>>[1] = o
  OBVIOUS
<1>4. Uids(Served(uids)) = {o \in uids \cap Orders : Life[o] # <<>>}
  BY <1>3 DEF Served, Uids
<1> QED
  BY <1>2, <1>4

LEMMA OrdersAndFanout ==
  ASSUME NEW rows \in SUBSET OrderRows, NEW includeOwner \in BOOLEAN
  PROVE  /\ StoreOrders(rows) \o FanoutOrders(Uids(rows), includeOwner) \in Seq(WorkCalls)
         /\ \A o \in Uids(rows) : \A g \in OrderGoals(o, includeOwner) :
              Given(StoreOrders(rows) \o FanoutOrders(Uids(rows), includeOwner), g)
<1> DEFINE first == StoreOrders(rows)
           last == FanoutOrders(Uids(rows), includeOwner)
<1>1. /\ Uids(rows) \in SUBSET Orders /\ first \in Seq(WorkCalls)
      /\ \A o \in Uids(rows) : Given(first, <<"order", o>>)
  BY StoreOrdersGives
<1>2. /\ last \in Seq(WorkCalls)
      /\ \A o \in Uids(rows) : \A j \in FanoutOrder(o, includeOwner) :
           Given(last, <<"item", j>>)
  BY <1>1, FanoutGives
<1>3. \A o : \A g \in OrderGoals(o, includeOwner) :
        g = <<"order", o>> \/ \E j \in FanoutOrder(o, includeOwner) : g = <<"item", j>>
  BY DEF OrderGoals
<1>4. \A g : Given(first, g) \/ Given(last, g) => Given(first \o last, g)
  BY <1>1, <1>2, GivenByPart, Zenon
<1>5. first \o last \in Seq(WorkCalls)
  BY <1>1, <1>2, GivenByPart, Zenon
<1> HIDE DEF first, last
<1>6. \A o \in Uids(rows) : \A g \in OrderGoals(o, includeOwner) : Given(first \o last, g)
  <2> TAKE o \in Uids(rows)
  <2> TAKE g \in OrderGoals(o, includeOwner)
  <2>1. CASE g = <<"order", o>>
    BY <1>1, <1>4, <2>1, Zenon
  <2>2. CASE \E j \in FanoutOrder(o, includeOwner) : g = <<"item", j>>
    BY <1>2, <1>4, <2>2, Zenon
  <2> QED
    BY <1>3, <2>1, <2>2, Zenon
<1> QED
  BY <1>5, <1>6 DEF first, last

LEMMA TradedRows ==
  /\ \A u \in OrderUids \cap Orders : Traded({u}) \in SUBSET Orders
  /\ \A w \in Owners : Traded(OwnedBy(w)) \in SUBSET Orders
BY NamesAre

LEMMA AfterOrderGives ==
  ASSUME NEW uid \in Orders, NEW rows \in SUBSET OrderRows, Uids(rows) \subseteq {uid},
         Life[uid] # <<>> => uid \in Uids(rows)
  PROVE  /\ AfterOrder(uid, rows) \in Seq(WorkCalls)
         /\ \A g : Promises("order", uid, g) => Given(AfterOrder(uid, rows), g)
<1> DEFINE first == StoreOrders(rows) \o FanoutOrders(Uids(rows), TRUE)
           last == Fetch("trades:order", {uid})
<1>1. /\ first \in Seq(WorkCalls)
      /\ \A o \in Uids(rows) : \A g \in OrderGoals(o, TRUE) : Given(first, g)
  BY OrdersAndFanout
<1>2. /\ last \in Seq(WorkCalls)
      /\ \A g : Promises("trades:order", uid, g) => Given(last, g)
  <2>1. "trades:order" \in Endpoints /\ {uid} \in SUBSET Names
    BY NamesAre DEF Endpoints
  <2>2. WellFormed([op |-> "fetch", endpoint |-> "trades:order", keys |-> {uid}])
    BY NamesAre DEF WellFormed
  <2> QED
    BY <2>1, <2>2, FetchGives
<1>3. AfterOrder(uid, rows) = first \o last
  BY DEF AfterOrder
<1>4. \A g : Promises("order", uid, g) =>
        Promises("trades:order", uid, g) \/ (uid \in Uids(rows) /\ g \in OrderGoals(uid, TRUE))
  BY DEF Promises
<1> HIDE DEF first, last
<1>5. first \o last \in Seq(WorkCalls)
  BY <1>1, <1>2, GivenByPart, Zenon
<1>6. \A g : Given(first, g) \/ Given(last, g) => Given(first \o last, g)
  BY <1>1, <1>2, GivenByPart, Zenon
<1> QED
  BY <1>1, <1>2, <1>3, <1>4, <1>5, <1>6, Zenon

LEMMA FanoutCompetitionGives ==
  ASSUME NEW u \in Auctions
  PROVE  /\ OrderItems(AuctionOrders[u]) \subseteq Items
         /\ FanoutCompetition(u) \in Seq(WorkCalls)
         /\ \A j \in OrderItems(AuctionOrders[u]) : Given(FanoutCompetition(u), <<"item", j>>)
<1>1. AuctionOrders[u] \subseteq Orders
  BY IngestionParameters
<1>2. \A uids \in SUBSET Orders : OrderItems(uids) \subseteq Items
  BY NamesAre DEF OrderItems, Items
<1>3. {OrderItems(AuctionOrders[u])} \in SUBSET SUBSET Items
  BY <1>1, <1>2
<1>4. CASE AuctionOrders[u] = {}
  BY <1>1, <1>2, <1>4, RangeOfOne DEF FanoutCompetition, OrderItems
<1>5. CASE AuctionOrders[u] # {}
  BY <1>1, <1>2, <1>3, <1>5, EnqueueGives DEF FanoutCompetition
<1> QED
  BY <1>4, <1>5

LEMMA OneKey ==
  ASSUME NEW c \in WorkCalls, c.op = "fetch"
  PROVE  /\ c.endpoint \in Endpoints /\ c.keys \in SUBSET Names
         /\ \A g : Gives(c, g) => \E k \in c.keys : Promises(c.endpoint, k, g)
         /\ \A k : c.keys = {k} => (CHOOSE x \in c.keys : TRUE) = k
         /\ c.endpoint \in {"order", "trades:order"} => \E u \in OrderUids : c.keys = {u}
         /\ c.endpoint \in {"account_orders", "trades:owner"} => \E w \in Owners : c.keys = {w}
         /\ c.endpoint \in {"transaction_orders", "competition:tx"} =>
              \E t \in Txs : c.keys = {t}
         /\ c.endpoint = "app_data" => \E h \in AppData : c.keys = {h}
<1>1. c \in Calls /\ WellFormed(c)
  BY DEF WorkCalls
<1>2. c.endpoint \in Endpoints /\ c.keys \in SUBSET Names
  BY <1>1, CallTypes
<1>3. \A k : c.keys = {k} => (CHOOSE x \in c.keys : TRUE) = k
  OBVIOUS
<1> QED
  BY <1>1, <1>2, <1>3 DEF WellFormed, Gives

LEMMA AnswerOfOrder ==
  ASSUME AgesOK, NEW c \in WorkCalls, c.op = "fetch", ~Malformed(c),
         NEW calls \in Answers(c), c.endpoint \in {"order", "trades:order", "order_status"}
  PROVE  calls \in Seq(WorkCalls) /\ \A g : Gives(c, g) => Given(calls, g)
<1>1. CASE c.endpoint = "order"
  <2>1. PICK u \in OrderUids : c.keys = {u}
    BY <1>1, OneKey
  <2>2. u \in Orders
    BY <2>1 DEF Malformed, OrderUids
  <2>3. calls = AfterOrder(u, Served({u}))
    BY <1>1, <2>1, OneKey DEF Answers
  <2>4. /\ Served({u}) \in SUBSET OrderRows /\ Uids(Served({u})) \subseteq {u}
        /\ Life[u] # <<>> => u \in Uids(Served({u}))
    BY <2>2, ServedRows
  <2>5. /\ AfterOrder(u, Served({u})) \in Seq(WorkCalls)
        /\ \A g : Promises("order", u, g) => Given(AfterOrder(u, Served({u})), g)
    BY <2>2, <2>4, AfterOrderGives
  <2>6. \A g : Gives(c, g) => Promises("order", u, g)
    BY <1>1, <2>1, OneKey
  <2> QED
    BY <2>3, <2>5, <2>6
<1>2. CASE c.endpoint = "trades:order"
  <2>1. PICK u \in OrderUids : c.keys = {u}
    BY <1>2, OneKey
  <2>2. u \in Orders /\ Traded({u}) \in SUBSET Orders
    BY <2>1, NamesAre DEF Malformed, OrderUids
  <2> DEFINE first == StoreApiTrades(Traded({u}))
             last == Fetch("order_status", {u})
  <2>3. calls = first \o last
    BY <1>2, <2>1, OneKey DEF Answers
  <2>4. /\ first \in Seq(WorkCalls)
        /\ \A g \in {"row"} \X (TradeTables \X Traded({u})) : Given(first, g)
    BY <2>2, StoreApiTradesGives
  <2>5. last \in Seq(WorkCalls)
    <3>1. "order_status" \in Endpoints /\ {u} \in SUBSET Names
      BY NamesAre DEF Endpoints
    <3>2. WellFormed([op |-> "fetch", endpoint |-> "order_status", keys |-> {u}])
      BY DEF WellFormed
    <3> QED
      BY <3>1, <3>2, FetchGives
  <2>6. \A g : Promises("trades:order", u, g) => g \in {"row"} \X (TradeTables \X Traded({u}))
    BY DEF Promises
  <2>7. \A g : Gives(c, g) => Promises("trades:order", u, g)
    BY <1>2, <2>1, OneKey
  <2> HIDE DEF first, last
  <2> QED
    BY <2>3, <2>4, <2>5, <2>6, <2>7, GivenByPart, Zenon
<1>3. CASE c.endpoint = "order_status"
  <2>1. calls = <<>>
    BY <1>3 DEF Answers
  <2>2. \A k, g : ~Promises("order_status", k, g)
    BY DEF Promises
  <2> QED
    BY <1>3, <2>1, <2>2, OneKey, GivenByPart
<1> QED
  BY <1>1, <1>2, <1>3

LEMMA AnswerOfOwner ==
  ASSUME AgesOK, NEW c \in WorkCalls, c.op = "fetch",
         NEW calls \in Answers(c), c.endpoint \in {"account_orders", "trades:owner"}
  PROVE  calls \in Seq(WorkCalls) /\ \A g : Gives(c, g) => Given(calls, g)
<1>1. PICK w \in Owners : c.keys = {w}
  BY OneKey
<1>2. Traded(OwnedBy(w)) \in SUBSET Orders
  BY TradedRows
<1>3. \A g : Promises("trades:owner", w, g) =>
        g \in {"row"} \X (TradeTables \X Traded(OwnedBy(w)))
  BY DEF Promises
<1>4. CASE c.endpoint = "account_orders"
  <2> DEFINE rows == Served(OwnedBy(w))
             first == StoreOrders(rows) \o FanoutOrders(Uids(rows), FALSE)
             last == Fetch("trades:owner", {w})
  <2>1. calls = first \o last
    <3>1. calls = StoreOrders(rows) \o FanoutOrders(Uids(rows), FALSE) \o last
      BY <1>1, <1>4, OneKey DEF Answers
    <3> QED
      BY <3>1
  <2>2. /\ rows \in SUBSET OrderRows
        /\ Uids(rows) = {o \in OwnedBy(w) \cap Orders : Life[o] # <<>>}
    BY ServedRows
  <2>3. /\ first \in Seq(WorkCalls)
        /\ \A o \in Uids(rows) : \A g \in OrderGoals(o, FALSE) : Given(first, g)
    BY <2>2, OrdersAndFanout
  <2>4. /\ last \in Seq(WorkCalls)
        /\ \A g : Promises("trades:owner", w, g) => Given(last, g)
    <3>1. "trades:owner" \in Endpoints /\ {w} \in SUBSET Names
      BY NamesAre DEF Endpoints
    <3>2. WellFormed([op |-> "fetch", endpoint |-> "trades:owner", keys |-> {w}])
      BY DEF WellFormed
    <3> QED
      BY <3>1, <3>2, FetchGives
  <2>5. \A g : Promises("account_orders", w, g) =>
          \/ Promises("trades:owner", w, g)
          \/ \E o \in Uids(rows) : g \in OrderGoals(o, FALSE)
    BY <2>2 DEF Promises, OwnedBy
  <2>6. \A g : Gives(c, g) => Promises("account_orders", w, g)
    BY <1>1, <1>4, OneKey
  <2> HIDE DEF rows, first, last
  <2>7. calls \in Seq(WorkCalls) /\ \A g : Given(first, g) \/ Given(last, g) => Given(calls, g)
    BY <2>1, <2>3, <2>4, GivenByPart, Zenon
  <2> QED
    BY <2>3, <2>4, <2>5, <2>6, <2>7, Zenon
<1>5. CASE c.endpoint = "trades:owner"
  <2>1. calls = StoreApiTrades(Traded(OwnedBy(w)))
    BY <1>1, <1>5, OneKey DEF Answers
  <2>2. \A g : Gives(c, g) => Promises("trades:owner", w, g)
    BY <1>1, <1>5, OneKey
  <2> QED
    BY <1>2, <1>3, <2>1, <2>2, StoreApiTradesGives
<1> QED
  BY <1>4, <1>5

LEMMA AnswerOfTransaction ==
  ASSUME AgesOK, NEW c \in WorkCalls, c.op = "fetch",
         NEW calls \in Answers(c),
         c.endpoint \in {"transaction_orders", "competition:tx", "app_data"}
  PROVE  calls \in Seq(WorkCalls) /\ \A g : Gives(c, g) => Given(calls, g)
<1>1. CASE c.endpoint = "transaction_orders"
  <2>1. PICK t \in Txs : c.keys = {t}
    BY <1>1, OneKey
  <2> DEFINE rows == Served(SettledIn[t])
  <2>2. calls = StoreOrders(rows) \o FanoutOrders(Uids(rows), TRUE)
    BY <1>1, <2>1, OneKey DEF Answers
  <2>3. /\ rows \in SUBSET OrderRows
        /\ Uids(rows) = {o \in SettledIn[t] \cap Orders : Life[o] # <<>>}
    BY ServedRows
  <2>4. \A g : Promises("transaction_orders", t, g) =>
          \E o \in Uids(rows) : g \in OrderGoals(o, TRUE)
    BY <2>3 DEF Promises
  <2>5. \A g : Gives(c, g) => Promises("transaction_orders", t, g)
    BY <1>1, <2>1, OneKey
  <2> HIDE DEF rows
  <2> QED
    BY <2>2, <2>3, <2>4, <2>5, OrdersAndFanout
<1>2. CASE c.endpoint = "competition:tx"
  <2>1. PICK t \in Txs : c.keys = {t}
    BY <1>2, OneKey
  <2> DEFINE u == AuctionOf[t]
             first == StoreCompetition(u)
             last == FanoutCompetition(u)
  <2>2. calls = first \o last
    BY <1>2, <2>1, OneKey DEF Answers
  <2>3. u \in Auctions
    BY IngestionParameters
  <2> HIDE DEF u
  <2>4. /\ first \in Seq(WorkCalls)
        /\ \A g \in {"row"} \X (Range(CompetitionTables) \X {u}) : Given(first, g)
    BY <2>3, StoreOneGives
  <2>5. /\ last \in Seq(WorkCalls)
        /\ \A j \in OrderItems(AuctionOrders[u]) : Given(last, <<"item", j>>)
    BY <2>3, FanoutCompetitionGives
  <2>6. \A g : Promises("competition:tx", t, g) =>
          \/ g \in {"row"} \X (Range(CompetitionTables) \X {u})
          \/ \E j \in OrderItems(AuctionOrders[u]) : g = <<"item", j>>
    BY DEF Promises, u
  <2>7. \A g : Gives(c, g) => Promises("competition:tx", t, g)
    BY <1>2, <2>1, OneKey
  <2> HIDE DEF first, last
  <2>8. calls \in Seq(WorkCalls) /\ \A g : Given(first, g) \/ Given(last, g) => Given(calls, g)
    BY <2>2, <2>4, <2>5, GivenByPart, Zenon
  <2> QED
    BY <2>4, <2>5, <2>6, <2>7, <2>8, Zenon
<1>3. CASE c.endpoint = "app_data"
  <2>1. PICK h \in AppData : c.keys = {h}
    BY <1>3, OneKey
  <2>2. calls = StoreAppData(h)
    BY <1>3, <2>1, OneKey DEF Answers
  <2>3. \A g : Gives(c, g) => Promises("app_data", h, g)
    BY <1>3, <2>1, OneKey
  <2>4. \A g : Promises("app_data", h, g) => g = <<"row", <<"app_data", h>>>>
    BY DEF Promises
  <2> QED
    BY <2>2, <2>3, <2>4, StoreOneGives
<1> QED
  BY <1>1, <1>2, <1>3

(* A loop requests nothing that a task answers for: no item is closed.     *)
LoopCalls ==
  {c \in WorkCalls : c.op = "fetch" => c.endpoint \in {"competition:latest", "active_orders"}}

LEMMA LoopWrites ==
  /\ <<>> \in Seq(LoopCalls)
  /\ \A s, t \in Seq(LoopCalls) : s \o t \in Seq(LoopCalls)
  /\ \A into, keys, rows : Store(into, keys, rows) \in Seq(WorkCalls) =>
                            Store(into, keys, rows) \in Seq(LoopCalls)
  /\ \A sets : EnqueueEach(sets) \in Seq(WorkCalls) => EnqueueEach(sets) \in Seq(LoopCalls)
<1>1. \A c : <<c>> \in Seq(WorkCalls) /\ c.op # "fetch" => <<c>> \in Seq(LoopCalls)
  <2> SUFFICES ASSUME NEW c, <<c>> \in Seq(WorkCalls), c.op # "fetch"
               PROVE  <<c>> \in Seq(LoopCalls)
    OBVIOUS
  <2>1. c \in WorkCalls
    BY HeadTailProperties
  <2>2. c \in LoopCalls
    BY <2>1 DEF LoopCalls
  <2> QED
    BY <2>2, RangeOfOne
<1>2. \A into, keys, rows :
        \/ Store(into, keys, rows) = <<>>
        \/ Store(into, keys, rows)
              = <<[op |-> "store", tables |-> into, keys |-> keys, rows |-> rows]>>
  BY DEF Store
<1>3. \A sets : EnqueueEach(sets) = <<>>
                \/ EnqueueEach(sets) = <<[op |-> "enqueue", sets |-> sets]>>
  BY DEF EnqueueEach
<1>4. <<>> \in Seq(LoopCalls) /\ \A s, t \in Seq(LoopCalls) : s \o t \in Seq(LoopCalls)
  BY RangeOfOne, ConcatProperties
<1>5. \A sets : [op |-> "enqueue", sets |-> sets].op # "fetch"
  OBVIOUS
<1>6. ASSUME NEW into, NEW keys, NEW rows, Store(into, keys, rows) \in Seq(WorkCalls)
      PROVE  Store(into, keys, rows) \in Seq(LoopCalls)
  <2> DEFINE c == [op |-> "store", tables |-> into, keys |-> keys, rows |-> rows]
  <2>1. c.op # "fetch" /\ (Store(into, keys, rows) = <<>> \/ Store(into, keys, rows) = <<c>>)
    BY <1>2
  <2> HIDE DEF c
  <2>2. <<c>> \in Seq(WorkCalls) => <<c>> \in Seq(LoopCalls)
    BY <1>1, <2>1, Zenon
  <2> QED
    BY <1>4, <1>6, <2>1, <2>2
<1>7. \A sets : EnqueueEach(sets) \in Seq(WorkCalls) => EnqueueEach(sets) \in Seq(LoopCalls)
  BY <1>1, <1>3, <1>4, <1>5, Zenon
<1> QED
  BY <1>4, <1>6, <1>7

LEMMA AnswerOfLoop ==
  ASSUME AgesOK, NEW c \in WorkCalls, c.op = "fetch",
         NEW calls \in Answers(c), c.endpoint \in {"competition:latest", "active_orders"}
  PROVE  calls \in Seq(LoopCalls) /\ calls \in Seq(WorkCalls) /\ \A g : ~Gives(c, g)
<1>1. \A k, g : ~Promises(c.endpoint, k, g)
  BY DEF Promises
<1>2. \A g : ~Gives(c, g)
  BY <1>1, OneKey
<1>3. CASE c.endpoint = "competition:latest" /\ calls # <<>>
  <2>1. PICK u \in Auctions :
          calls = StoreCompetition(u)
                    \o EnqueueEach({OrderItems({o}) : o \in AuctionOrders[u]})
    BY <1>3 DEF Answers
  <2>2. {OrderItems({o}) : o \in AuctionOrders[u]} \in SUBSET SUBSET Items
    <3>1. \A o \in AuctionOrders[u] : o \in OrderUids
      BY IngestionParameters, NamesAre
    <3> QED
      BY <3>1 DEF OrderItems, Items
  <2> DEFINE first == StoreCompetition(u)
             last == EnqueueEach({OrderItems({o}) : o \in AuctionOrders[u]})
  <2>3. first \in Seq(WorkCalls) /\ last \in Seq(WorkCalls)
    BY <2>2, StoreOneGives, EnqueueGives
  <2>4. first \in Seq(LoopCalls) /\ last \in Seq(LoopCalls)
    BY <2>3, LoopWrites DEF StoreCompetition
  <2>5. calls = first \o last
    BY <2>1
  <2> HIDE DEF first, last
  <2> QED
    BY <1>2, <2>3, <2>4, <2>5, GivenByPart, LoopWrites, Zenon
<1>4. CASE calls = <<>>
  BY <1>2, <1>4, GivenByPart, LoopWrites
<1>5. CASE c.endpoint = "active_orders"
  <2>1. calls = StoreOrders(Served(c.keys)) /\ Served(c.keys) \in SUBSET OrderRows
    BY <1>5, ServedRows DEF Answers
  <2>2. calls \in Seq(WorkCalls)
    BY <2>1, StoreOrdersGives
  <2>3. calls \in Seq(LoopCalls)
    BY <2>1, <2>2, LoopWrites DEF StoreOrders
  <2> QED
    BY <1>2, <2>2, <2>3
<1> QED
  BY <1>3, <1>4, <1>5

LEMMA AnswerGives ==
  ASSUME AgesOK, NEW c \in WorkCalls, c.op = "fetch", ~Malformed(c),
         NEW calls \in Answers(c)
  PROVE  calls \in Seq(WorkCalls) /\ \A g : Gives(c, g) => Given(calls, g)
<1>1. c.endpoint \in Endpoints
  BY OneKey
<1> QED
  BY <1>1, AnswerOfOrder, AnswerOfOwner, AnswerOfTransaction, AnswerOfLoop DEF Endpoints

(* The request that the handler of an item makes first, or that the        *)
(* prefetch made for it.                                                   *)
FirstEndpoint(i) ==
  CASE i[1] = "order_uid" -> "order"
    [] i[1] = "owner" -> "account_orders"
    [] i[1] = "tx_hash" -> "transaction_orders"
    [] i[1] = "tx_competition" -> "competition:tx"
    [] i[1] = "app_data" -> "app_data"

LEMMA ItemKinds ==
  ASSUME NEW i \in Items
  PROVE  /\ i = <<i[1], i[2]>>
         /\ \/ i[1] = "order_uid" /\ i[2] \in OrderUids
            \/ i[1] = "owner" /\ i[2] \in Owners
            \/ i[1] = "tx_hash" /\ i[2] \in Txs
            \/ i[1] = "tx_competition" /\ i[2] \in Txs
            \/ i[1] = "app_data" /\ i[2] \in AppData
BY DEF Items

LEMMA ImpliedOrdersAre ==
  ASSUME NEW i \in Items, NEW o \in ImpliedOrders(i)
  PROVE  /\ o \in Orders /\ Life[o] # <<>>
         /\ \/ i[1] = "order_uid" /\ i[2] = o
            \/ i[1] = "owner" /\ i[2] = OwnerOf[o]
            \/ i[1] = "tx_hash" /\ o \in SettledIn[i[2]]
BY DEF ImpliedOrders

LEMMA ImpliedItemsAre ==
  ASSUME NEW i, NEW j \in ImpliedItems(i)
  PROVE  \/ i[1] = "tx_competition" /\ j \in OrderItems(AuctionOrders[AuctionOf[i[2]]])
         \/ \E o \in ImpliedOrders(i) :
              j \in OrderItems({o}) \cup {<<"owner", OwnerOf[o]>>}
                      \cup ({"app_data"} \X AppDataOf[o])
<1> DEFINE Of(o) == OrderItems({o}) \cup {<<"owner", OwnerOf[o]>>}
                      \cup ({"app_data"} \X AppDataOf[o])
           fanout == UNION {Of(o) : o \in ImpliedOrders(i)}
           auctioned == IF i[1] = "tx_competition"
                          THEN OrderItems(AuctionOrders[AuctionOf[i[2]]]) ELSE {}
<1>1. CASE j \in fanout
  <2> HIDE DEF Of
  <2>1. \E o \in ImpliedOrders(i) : j \in Of(o)
    BY <1>1, Zenon
  <2> QED
    BY <2>1 DEF Of
<1>2. CASE j \in auctioned
  BY <1>2
<1>3. ImpliedItems(i) = fanout \cup auctioned
  BY DEF ImpliedItems
<1>4. j \in fanout \/ j \in auctioned
  <2> HIDE DEF fanout, auctioned
  <2> QED
    BY <1>3
<1> QED
  BY <1>1, <1>2, <1>4

LEMMA FanoutIs ==
  \A o : /\ <<"order", o>> \in OrderGoals(o, TRUE) /\ <<"order", o>> \in OrderGoals(o, FALSE)
         /\ \A j \in OrderItems({o}) \cup {<<"owner", OwnerOf[o]>>}
                       \cup ({"app_data"} \X AppDataOf[o]) :
              /\ <<"item", j>> \in OrderGoals(o, TRUE)
              /\ j = <<"owner", OwnerOf[o]>> \/ <<"item", j>> \in OrderGoals(o, FALSE)
BY DEF OrderGoals, FanoutOrder

LEMMA ImpliedTypes ==
  ASSUME NEW i \in Items, NEW g \in Implied(i)
  PROVE  \/ g[1] = "row" /\ g[2] \in ImpliedRows(i) /\ g = <<"row", g[2]>>
         \/ /\ g[1] = "order" /\ g[2] \in ImpliedOrders(i) /\ g[2] \in Orders
            /\ g = <<"order", g[2]>>
         \/ /\ g[1] = "item" /\ g[2] \in ImpliedItems(i) /\ g[2] \in Items
            /\ g = <<"item", g[2]>>
<1>1. ASSUME NEW o \in Orders
      PROVE  OrderItems({o}) \cup {<<"owner", OwnerOf[o]>>} \cup ({"app_data"} \X AppDataOf[o])
               \subseteq Items
  <2>1. OwnerOf[o] \in Owners /\ AppDataOf[o] \subseteq AppData /\ o \in OrderUids
    BY IngestionParameters, NamesAre
  <2> QED
    BY <2>1 DEF OrderItems, Items
<1>2. i[1] = "tx_competition" => OrderItems(AuctionOrders[AuctionOf[i[2]]]) \subseteq Items
  BY ItemKinds, IngestionParameters, FanoutCompetitionGives
<1>3. ImpliedItems(i) \subseteq Items
  <2> SUFFICES ASSUME NEW j \in ImpliedItems(i)
               PROVE  j \in Items
    OBVIOUS
  <2>1. CASE i[1] = "tx_competition" /\ j \in OrderItems(AuctionOrders[AuctionOf[i[2]]])
    BY <1>2, <2>1
  <2>2. CASE \E o \in ImpliedOrders(i) :
               j \in OrderItems({o}) \cup {<<"owner", OwnerOf[o]>>}
                       \cup ({"app_data"} \X AppDataOf[o])
    BY <1>1, <2>2, ImpliedOrdersAre
  <2> QED
    BY <2>1, <2>2, ImpliedItemsAre, Zenon
<1>4. ImpliedOrders(i) \subseteq Orders
  BY ImpliedOrdersAre
<1> QED
  BY <1>3, <1>4 DEF Implied

(* The item itself is the one thing that its handler need not enqueue. *)
LEMMA ItemPromises ==
  ASSUME NEW i \in Items, NEW g \in Implied(i)
  PROVE  g = <<"item", i>> \/ Promises(FirstEndpoint(i), i[2], g)
<1>1. ASSUME NEW r \in ImpliedRows(i), g = <<"row", r>>
      PROVE  Promises(FirstEndpoint(i), i[2], g)
  BY <1>1, ItemKinds DEF ImpliedRows, FirstEndpoint, Promises, TradeTables
<1>2. ASSUME NEW o \in ImpliedOrders(i), g \in OrderGoals(o, i[1] # "owner")
      PROVE  Promises(FirstEndpoint(i), i[2], g)
  BY <1>2, ItemKinds, ImpliedOrdersAre DEF FirstEndpoint, Promises
<1>3. ASSUME NEW o \in ImpliedOrders(i), g = <<"order", o>>
      PROVE  Promises(FirstEndpoint(i), i[2], g)
  BY <1>2, <1>3, FanoutIs, Zenon
<1>4. ASSUME NEW j \in ImpliedItems(i), g = <<"item", j>>, j # i
      PROVE  Promises(FirstEndpoint(i), i[2], g)
  <2>1. CASE i[1] = "tx_competition" /\ j \in OrderItems(AuctionOrders[AuctionOf[i[2]]])
    BY <1>4, <2>1 DEF FirstEndpoint, Promises
  <2>2. CASE \E o \in ImpliedOrders(i) :
               j \in OrderItems({o}) \cup {<<"owner", OwnerOf[o]>>}
                       \cup ({"app_data"} \X AppDataOf[o])
    <3>1. PICK o \in ImpliedOrders(i) :
                 j \in OrderItems({o}) \cup {<<"owner", OwnerOf[o]>>}
                         \cup ({"app_data"} \X AppDataOf[o])
      BY <2>2
    <3>2. i[1] = "owner" => i = <<"owner", OwnerOf[o]>>
      BY ItemKinds, ImpliedOrdersAre
    <3>3. g \in OrderGoals(o, i[1] # "owner")
      <4>1. CASE i[1] = "owner"
        <5>1. <<"item", j>> \in OrderGoals(o, FALSE)
          BY <1>4, <3>1, <3>2, <4>1, FanoutIs, Zenon
        <5>2. (i[1] # "owner") = FALSE
          BY <4>1
        <5> QED
          BY <1>4, <5>1, <5>2
      <4>2. CASE i[1] # "owner"
        <5>1. <<"item", j>> \in OrderGoals(o, TRUE)
          BY <3>1, FanoutIs, Zenon
        <5>2. (i[1] # "owner") = TRUE
          BY <4>2
        <5> QED
          BY <1>4, <5>1, <5>2
      <4> QED
        BY <4>1, <4>2
    <3> QED
      BY <1>2, <3>3
  <2> QED
    BY <1>4, <2>1, <2>2, ImpliedItemsAre, Zenon
<1> QED
  BY <1>1, <1>3, <1>4, ImpliedTypes

(* The prefetch has a row for each order of the batch that the API serves. *)
PrefetchOK ==
  worker = "gather" /\ prefetched.ok =>
    \A i \in pending : i[1] = "order_uid" =>
      i[2] \in Orders /\ (Life[i[2]] # <<>> => i[2] \in Uids(prefetched.rows))

LEMMA HandlerGives ==
  ASSUME NEW i \in Items, i \in pending, worker = "gather", PrefetchOK,
         prefetched.rows \in SUBSET OrderRows
  PROVE  /\ Handler(i) \in Seq(WorkCalls)
         /\ \A g \in Implied(i) : g = <<"item", i>> \/ Given(Handler(i), g)
<1>1. CASE i[1] = "order_uid" /\ prefetched.ok
  <2> DEFINE rows == {row \in prefetched.rows : row[1] = i[2]}
  <2>1. Handler(i) = AfterOrder(i[2], rows) /\ FirstEndpoint(i) = "order"
    BY <1>1 DEF Handler, FirstEndpoint
  <2>2. /\ i[2] \in Orders /\ rows \in SUBSET OrderRows /\ Uids(rows) \subseteq {i[2]}
        /\ Life[i[2]] # <<>> => i[2] \in Uids(rows)
    BY <1>1 DEF PrefetchOK, Uids
  <2> HIDE DEF rows
  <2>3. /\ AfterOrder(i[2], rows) \in Seq(WorkCalls)
        /\ \A g : Promises("order", i[2], g) => Given(AfterOrder(i[2], rows), g)
    BY <2>2, AfterOrderGives
  <2> QED
    BY <2>1, <2>3, ItemPromises
<1>2. CASE ~(i[1] = "order_uid" /\ prefetched.ok)
  <2> DEFINE endpoint == FirstEndpoint(i)
  <2>1. Handler(i) = Fetch(endpoint, {i[2]})
    BY <1>2, ItemKinds DEF Handler, FirstEndpoint
  <2>2. endpoint \in Endpoints /\ {i[2]} \in SUBSET Names
    BY ItemKinds, NamesAre DEF FirstEndpoint, Endpoints
  <2>3. WellFormed([op |-> "fetch", endpoint |-> endpoint, keys |-> {i[2]}])
    BY ItemKinds DEF FirstEndpoint, WellFormed
  <2> HIDE DEF endpoint
  <2>4. /\ Fetch(endpoint, {i[2]}) \in Seq(WorkCalls)
        /\ \A g : Promises(endpoint, i[2], g) => Given(Fetch(endpoint, {i[2]}), g)
    BY <2>2, <2>3, FetchGives
  <2> QED
    BY <2>1, <2>4, ItemPromises DEF endpoint
<1> QED
  BY <1>1, <1>2

-----------------------------------------------------------------------------
(* Type correctness. *)

Tasks == {i \in Items : todo[i] # <<>>}

(* A task's item is in the batch and past the semaphore. *)
TasksOK ==
  /\ IsFiniteSet(Tasks)
  /\ \A i \in Items : Shape(todo[i])
  /\ \A loop \in Loops : todo[loop] \in Seq(LoopCalls)
  /\ Tasks \subseteq pending \ waiting
  /\ worker # "gather" => Tasks = {}
  /\ worker = "idle" => pending = {}

(* An attempt over the maximum is one that a fault kept from being charged *)
(* to a dead letter.                                                       *)
AttemptsOK ==
  \A i \in Items :
    /\ i \in pending => queue[i].attempts >= 1
    /\ queue[i].attempts <= MaxAttempts + faults
    /\ Status(i) = "absent" => queue[i].attempts = 0
    /\ Status(i) = "open" /\ i \notin waiting /\ todo[i] = <<>> =>
         queue[i].attempts < MaxAttempts + faults

TypeInv == TypeOK /\ AgesOK /\ TasksOK /\ AttemptsOK /\ PrefetchOK

Fits(a, calls) ==
  /\ a \in Items => Shape(calls)
  /\ a \in Loops => calls \in Seq(LoopCalls)

LEMMA LoopsAreNoItems ==
  /\ Loops \cap Items = {} /\ ActiveLoop \in Loops /\ CaptureLoop \in Loops
  /\ \A a \in Items \cup Loops : a \in Items \/ a \in Loops
BY DEF Loops, Items, ActiveLoop, CaptureLoop

LEMMA FitsTypes ==
  ASSUME NEW a \in Items \cup Loops, NEW calls, Fits(a, calls)
  PROVE  calls \in Seq(Calls)
<1>1. LoopCalls \subseteq Calls
  BY CallTypes DEF LoopCalls
<1>2. calls \in Seq(LoopCalls) => calls \in Seq(Calls)
  BY <1>1, SeqMonotonic, Zenon
<1> QED
  BY <1>2, ShapeTypes, LoopsAreNoItems DEF Fits

LEMMA FitsOne ==
  ASSUME NEW a \in Items \cup Loops
  PROVE  /\ Fits(a, <<>>) /\ Fits(a, AfterRaise(a))
         /\ a \in Items => \A f \in {"done", "failed", "unavailable"} :
                             /\ Fits(a, Finish(f)) /\ Finish(f) # <<>>
                             /\ Range(Finish(f)) = {[op |-> "finish", outcome |-> f]}
         /\ Range(<<>>) = {}
<1>1. ASSUME NEW f \in {"done", "failed", "unavailable"}
      PROVE  /\ Shape(Finish(f)) /\ Finish(f) # <<>>
             /\ Range(Finish(f)) = {[op |-> "finish", outcome |-> f]}
  <2>1. [op |-> "finish", outcome |-> f] \in Finishes
    BY DEF Finishes
  <2> QED
    BY <2>1, ShapeOfOne, RangeOfOne DEF Finish
<1>2. Shape(<<>>)
  BY DEF Shape
<1> QED
  BY <1>1, <1>2, LoopWrites, LoopsAreNoItems, RangeOfOne DEF Fits, AfterRaise

(* The next call of a task or of a loop, and what may be left after it. *)
LEMMA NextCall ==
  ASSUME TasksOK, NEW a \in Items \cup Loops, todo[a] # <<>>
  PROVE  LET call == Head(todo[a])
         IN /\ call \in Calls /\ Range(todo[a]) = {call} \cup Range(Tail(todo[a]))
            /\ call.op = "finish" => /\ a \in Items /\ call \in Finishes
                                     /\ Tail(todo[a]) = <<>>
            /\ call.op # "finish" =>
                 /\ call \in WorkCalls /\ (a \in Loops => call \in LoopCalls)
                 /\ Fits(a, Tail(todo[a])) /\ (a \in Items => Tail(todo[a]) # <<>>)
                 /\ \A calls \in Seq(WorkCalls) :
                      (a \in Loops => calls \in Seq(LoopCalls)) =>
                        /\ Fits(a, calls \o Tail(todo[a]))
                        /\ a \in Items => calls \o Tail(todo[a]) # <<>>
                        /\ Range(calls \o Tail(todo[a])) =
                             Range(calls) \cup Range(Tail(todo[a]))
<1> DEFINE s == todo[a]
<1>1. CASE a \in Items
  <2>1. Shape(s) /\ a \notin Loops
    BY <1>1, LoopsAreNoItems DEF TasksOK
  <2>2. /\ Head(s) \in Calls /\ Range(s) = {Head(s)} \cup Range(Tail(s))
        /\ \/ Head(s) \in Finishes /\ Tail(s) = <<>>
           \/ /\ Head(s) \in WorkCalls
              /\ Shape(Tail(s)) /\ Tail(s) # <<>>
              /\ \A calls \in Seq(WorkCalls) :
                   /\ Shape(calls \o Tail(s)) /\ calls \o Tail(s) # <<>>
                   /\ Range(calls \o Tail(s)) = Range(calls) \cup Range(Tail(s))
    BY <2>1, ShapeSteps
  <2>3. /\ Head(s) \in Finishes => Head(s).op = "finish"
        /\ Head(s) \in WorkCalls => Head(s).op # "finish"
    BY CallTypes DEF WorkCalls
  <2> HIDE DEF s
  <2>4. \A calls : Fits(a, calls) <=> Shape(calls)
    BY <1>1, <2>1 DEF Fits
  <2> QED
    BY <1>1, <2>1, <2>2, <2>3, <2>4 DEF s
<1>2. CASE a \in Loops
  <2>1. s \in Seq(LoopCalls) /\ a \notin Items /\ s # <<>>
    BY <1>2, LoopsAreNoItems DEF TasksOK
  <2>2. LoopCalls \subseteq WorkCalls /\ WorkCalls \subseteq Calls
    BY CallTypes DEF LoopCalls
  <2>3. /\ Head(s) \in LoopCalls /\ Tail(s) \in Seq(LoopCalls)
        /\ Range(s) = {Head(s)} \cup Range(Tail(s))
    BY <2>1, HeadTailProperties, FirstOfRange
  <2>4. Head(s).op # "finish"
    BY <2>2, <2>3 DEF WorkCalls
  <2>5. \A calls : Fits(a, calls) <=> calls \in Seq(LoopCalls)
    BY <1>2, <2>1 DEF Fits
  <2>6. \A calls \in Seq(LoopCalls) :
          /\ calls \o Tail(s) \in Seq(LoopCalls)
          /\ Range(calls \o Tail(s)) = Range(calls) \cup Range(Tail(s))
    <3>1. \A u, v \in Seq(LoopCalls) :
            u \o v \in Seq(LoopCalls) /\ Range(u \o v) = Range(u) \cup Range(v)
      BY ConcatProperties, RangeConcatenation
    <3> QED
      BY <2>3, <3>1, Zenon
  <2> HIDE DEF s
  <2> QED
    BY <1>2, <2>1, <2>2, <2>3, <2>4, <2>5, <2>6 DEF s
<1> QED
  BY <1>1, <1>2, LoopsAreNoItems

LEMMA Bounds ==
  /\ BatchLimit \in Nat \ {0} /\ Concurrency \in Nat \ {0}
  /\ MaxAttempts \in Nat \ {0} /\ MaxFaults \in Nat
BY IngestionParameters

LEMMA TaskUpdate ==
  ASSUME TypeOK, TasksOK, NEW a \in Items \cup Loops, todo[a] # <<>>,
         NEW calls, Fits(a, calls), Goto(a, calls)
  PROVE  /\ todo' \in [Items \cup Loops -> Seq(Calls)]
         /\ todo'[a] = calls /\ \A b \in Items \cup Loops : b # a => todo'[b] = todo[b]
         /\ \A i \in Items : Shape(todo'[i])
         /\ \A loop \in Loops : todo'[loop] \in Seq(LoopCalls)
         /\ Tasks' \subseteq Tasks /\ IsFiniteSet(Tasks')
         /\ Cardinality(Tasks') <= Concurrency
<1>1. todo \in [Items \cup Loops -> Seq(Calls)] /\ calls \in Seq(Calls)
  BY FitsTypes DEF TypeOK
<1>2. /\ todo' \in [Items \cup Loops -> Seq(Calls)]
      /\ todo'[a] = calls /\ \A b \in Items \cup Loops : b # a => todo'[b] = todo[b]
  BY <1>1 DEF Goto
<1>3. /\ \A i \in Items : Shape(todo'[i])
      /\ \A loop \in Loops : todo'[loop] \in Seq(LoopCalls)
  BY <1>2 DEF TasksOK, Fits
<1>4. Tasks' \subseteq Tasks
  BY <1>2 DEF Tasks
<1>5. IsFiniteSet(Tasks) /\ Cardinality(Tasks) <= Concurrency
  BY DEF TasksOK, TypeOK, Tasks
<1>6. IsFiniteSet(Tasks') /\ Cardinality(Tasks') <= Cardinality(Tasks)
  BY <1>4, <1>5, FS_Subset
<1>7. Cardinality(Tasks') \in Nat /\ Cardinality(Tasks) \in Nat
  BY <1>5, <1>6, FS_CardinalityType
<1> QED
  BY <1>2, <1>3, <1>4, <1>5, <1>6, <1>7, Bounds

QueueRows ==
  [status : {"absent", "open"} \cup Closed, attempts : 0 .. MaxAttempts + MaxFaults]

(* A step of a task or loop that does not end it. *)
LEMMA CallKeepsTypes ==
  ASSUME TypeInv, NEW a \in Items \cup Loops, todo[a] # <<>>,
         NEW calls, Fits(a, calls), Goto(a, calls), a \in Items => calls # <<>>,
         UNCHANGED faults \/ Fault,
         UNCHANGED <<age, public, worker, pending, waiting, prefetched, captures>>,
         orders' \in [Orders -> Statuses \cup {"none"}], stored' \subseteq Tables \X Names,
         queue' \in [Items -> QueueRows],
         \A i \in Items : \/ queue'[i] = queue[i]
                          \/ /\ Status(i) = "absent" /\ Status(i)' = "open"
                             /\ queue'[i].attempts = queue[i].attempts
  PROVE  TypeInv'
<1>1. /\ todo' \in [Items \cup Loops -> Seq(Calls)]
      /\ todo'[a] = calls /\ \A b \in Items \cup Loops : b # a => todo'[b] = todo[b]
      /\ \A i \in Items : Shape(todo'[i])
      /\ \A loop \in Loops : todo'[loop] \in Seq(LoopCalls)
      /\ Tasks' \subseteq Tasks /\ IsFiniteSet(Tasks')
      /\ Cardinality(Tasks') <= Concurrency
  BY TaskUpdate DEF TypeInv
<1>2. faults' \in 0 .. MaxFaults /\ faults <= faults' /\ faults \in Nat
  BY Bounds DEF TypeInv, TypeOK, Fault
<1>3. pending' \subseteq {i \in Items : Status(i)' # "absent"} /\ waiting' \subseteq pending'
  BY DEF TypeInv, TypeOK, Status
<1>4. TypeOK'
  <2>1. /\ age \in [Orders -> Nat] /\ public \subseteq Txs
        /\ worker \in {"idle", "prefetch", "gather"}
        /\ prefetched \in [ok : BOOLEAN, rows : SUBSET OrderRows] /\ captures \in Nat
    BY DEF TypeInv, TypeOK
  <2> QED
    BY <1>1, <1>2, <1>3, <2>1 DEF TypeOK, Tasks, QueueRows, Status
<1>5. AgesOK' /\ PrefetchOK'
  BY DEF TypeInv, AgesOK, PrefetchOK
<1>6. TasksOK'
  BY <1>1 DEF TypeInv, TasksOK
<1>7. AttemptsOK'
  <2> SUFFICES ASSUME NEW i \in Items
               PROVE  /\ i \in pending => queue'[i].attempts >= 1
                      /\ queue'[i].attempts <= MaxAttempts + faults'
                      /\ Status(i)' = "absent" => queue'[i].attempts = 0
                      /\ Status(i)' = "open" /\ i \notin waiting /\ todo'[i] = <<>> =>
                           queue'[i].attempts < MaxAttempts + faults'
    BY DEF AttemptsOK
  <2>1. /\ i \in pending => queue[i].attempts >= 1
        /\ queue[i].attempts <= MaxAttempts + faults
        /\ Status(i) = "absent" => queue[i].attempts = 0
        /\ Status(i) = "open" /\ i \notin waiting /\ todo[i] = <<>> =>
             queue[i].attempts < MaxAttempts + faults
        /\ queue[i].attempts \in Int /\ queue'[i].attempts \in Int
    BY DEF TypeInv, AttemptsOK, TypeOK, QueueRows
  <2>2. todo'[i] = <<>> => todo[i] = <<>>
    BY <1>1
  <2>3. CASE queue'[i] = queue[i]
    BY <1>2, <2>1, <2>2, <2>3, Bounds DEF Status
  <2>4. CASE /\ Status(i) = "absent" /\ Status(i)' = "open"
             /\ queue'[i].attempts = queue[i].attempts
    BY <1>2, <2>1, <2>4, Bounds
  <2> QED
    BY <2>3, <2>4
<1> QED
  BY <1>4, <1>5, <1>6, <1>7 DEF TypeInv

-----------------------------------------------------------------------------
(* What a call does to its task: the finish_work("done") at the end of a   *)
(* task comes after all that the task gave before the step.                *)

Keeps(a, calls) ==
  DoneCall \in Range(calls) =>
    /\ DoneCall \in Range(todo[a])
    /\ \A g : Given(todo[a], g) => There(g)' \/ Given(calls, g)

LEMMA Advance ==
  ASSUME TasksOK, NEW a \in Items \cup Loops, todo[a] # <<>>, Head(todo[a]).op # "finish",
         NEW calls \in Seq(WorkCalls), a \in Loops => calls \in Seq(LoopCalls),
         \A g : Gives(Head(todo[a]), g) => There(g)' \/ Given(calls, g)
  PROVE  /\ Fits(a, calls \o Tail(todo[a])) /\ Keeps(a, calls \o Tail(todo[a]))
         /\ a \in Items => calls \o Tail(todo[a]) # <<>>
<1> DEFINE rest == Tail(todo[a])
           next == calls \o rest
<1>1. /\ Fits(a, next) /\ (a \in Items => next # <<>>)
      /\ Range(todo[a]) = {Head(todo[a])} \cup Range(rest)
      /\ Range(next) = Range(calls) \cup Range(rest)
  BY NextCall
<1>2. DoneCall \notin Range(calls)
  <2>1. Range(calls) \subseteq WorkCalls
    BY RangeEquality, ElementOfSeq
  <2> QED
    BY <2>1, CallTypes
<1> HIDE DEF next, rest
<1>3. DoneCall \in Range(next) => DoneCall \in Range(todo[a])
  BY <1>1, <1>2
<1>4. \A g : Given(todo[a], g) => There(g)' \/ Given(next, g)
  BY <1>1, Zenon DEF Given
<1>5. Keeps(a, next)
  BY <1>3, <1>4 DEF Keeps
<1> QED
  BY <1>1, <1>5 DEF next, rest

LEMMA AdvanceTail ==
  ASSUME TasksOK, NEW a \in Items \cup Loops, todo[a] # <<>>, Head(todo[a]).op # "finish",
         \A g : Gives(Head(todo[a]), g) => There(g)'
  PROVE  /\ Fits(a, Tail(todo[a])) /\ Keeps(a, Tail(todo[a]))
         /\ a \in Items => Tail(todo[a]) # <<>>
<1>1. <<>> \in Seq(WorkCalls) /\ <<>> \in Seq(LoopCalls)
  BY LoopWrites, GivenByPart
<1>2. Fits(a, Tail(todo[a]))
  BY NextCall
<1>3. <<>> \o Tail(todo[a]) = Tail(todo[a])
  BY <1>2, FitsTypes, ConcatEmptySeq
<1> QED
  BY <1>1, <1>3, Advance

LEMMA AfterRaiseFits ==
  ASSUME NEW a \in Items \cup Loops
  PROVE  /\ Fits(a, AfterRaise(a)) /\ Keeps(a, AfterRaise(a))
         /\ a \in Items => AfterRaise(a) # <<>>
<1>1. DoneCall # [op |-> "finish", outcome |-> "failed"]
  BY DEF DoneCall
<1> QED
  BY <1>1, FitsOne DEF Keeps, AfterRaise

LEMMA FetchStep ==
  ASSUME TypeInv, NEW a \in Items \cup Loops, todo[a] # <<>>,
         Head(todo[a]).op = "fetch", FetchCall(a, Head(todo[a]))
  PROVE  /\ \E calls : /\ Fits(a, calls) /\ Keeps(a, calls) /\ Goto(a, calls)
                       /\ a \in Items => calls # <<>>
         /\ UNCHANGED faults \/ Fault
         /\ UNCHANGED tables
<1> DEFINE call == Head(todo[a])
<1>1. /\ TasksOK /\ AgesOK /\ call \in WorkCalls /\ call.op # "finish"
      /\ a \in Loops => call \in LoopCalls
  BY NextCall DEF TypeInv
<1>2. CASE /\ ~Malformed(call) /\ ~Unavailable(call)
           /\ \E calls \in Answers(call) : Goto(a, calls \o Tail(todo[a]))
           /\ UNCHANGED faults
  <2>1. PICK calls \in Answers(call) : Goto(a, calls \o Tail(todo[a]))
    BY <1>2
  <2>2. calls \in Seq(WorkCalls) /\ \A g : Gives(call, g) => Given(calls, g)
    BY <1>1, <1>2, AnswerGives
  <2>3. a \in Loops => calls \in Seq(LoopCalls)
    BY <1>1, AnswerOfLoop DEF LoopCalls
  <2>4. /\ Fits(a, calls \o Tail(todo[a])) /\ Keeps(a, calls \o Tail(todo[a]))
        /\ a \in Items => calls \o Tail(todo[a]) # <<>>
    BY <1>1, <2>2, <2>3, Advance
  <2> QED
    BY <1>2, <2>1, <2>4 DEF FetchCall
<1>3. CASE Goto(a, AfterRaise(a)) /\ (UNCHANGED faults \/ Fault)
  BY <1>3, AfterRaiseFits DEF FetchCall
<1>4. CASE Unavailable(call) /\ Goto(a, Finish("unavailable")) /\ UNCHANGED faults
  <2>1. a \in Items
    BY <1>1, <1>4, LoopsAreNoItems DEF Unavailable, LoopCalls
  <2>2. DoneCall # [op |-> "finish", outcome |-> "unavailable"]
    BY DEF DoneCall
  <2> QED
    BY <1>4, <2>1, <2>2, FitsOne DEF Keeps, FetchCall
<1>5. UNCHANGED tables
  BY DEF FetchCall
<1> QED
  BY <1>2, <1>3, <1>4, <1>5 DEF FetchCall, Raises

(* Nothing that is there goes. *)
Grows ==
  /\ stored \subseteq stored'
  /\ \A o \in Orders : orders[o] # "none" => orders'[o] # "none"
  /\ \A i \in Items : Status(i) # "absent" => Status(i)' # "absent"

LEMMA WrittenRows ==
  ASSUME TypeInv, NEW call \in WorkCalls, call.op = "store",
         NEW n \in 0 .. Len(call.tables), Written(call, n)
  PROVE  /\ orders' \in [Orders -> Statuses \cup {"none"}]
         /\ stored' \subseteq Tables \X Names
         /\ stored \subseteq stored'
         /\ \A o \in Orders : orders[o] # "none" => orders'[o] # "none"
         /\ n = Len(call.tables) => \A g : Gives(call, g) =>
              \/ g[1] = "row" /\ g[2] \in stored'
              \/ g[1] = "order" /\ orders'[g[2]] # "none"
<1> DEFINE first == {call.tables[m] : m \in 1 .. n}
<1>1. /\ call.tables \in Seq(Tables) /\ call.keys \in SUBSET Names
      /\ call.rows \in SUBSET OrderRows
      /\ "orders" \in Range(call.tables) => call.keys = Uids(call.rows)
  BY CallTypes DEF WorkCalls, WellFormed
<1>2. /\ Range(call.tables) = {call.tables[m] : m \in 1 .. Len(call.tables)}
      /\ Len(call.tables) \in Nat
  BY <1>1, RangeEquality, LenProperties
<1>3. first \subseteq Range(call.tables) /\ (n = Len(call.tables) => first = Range(call.tables))
  BY <1>2
<1>4. Range(call.tables) \subseteq Tables
  BY <1>1, <1>2, ElementOfSeq
<1>5. /\ stored' = stored \cup (first \X call.keys)
      /\ orders' = IF "orders" \in first
                     THEN [o \in Orders |-> IF o \in call.keys
                             THEN (CHOOSE row \in call.rows : row[1] = o)[2] ELSE orders[o]]
                     ELSE orders
  BY DEF Written
<1> HIDE DEF first
<1>6. stored' \subseteq Tables \X Names /\ stored \subseteq stored'
  BY <1>1, <1>3, <1>4, <1>5 DEF TypeInv, TypeOK
<1>7. ASSUME "orders" \in first, NEW o \in Orders, o \in call.keys
      PROVE  orders'[o] \in Statuses
  <2>1. \E row \in call.rows : row[1] = o
    BY <1>1, <1>3, <1>7 DEF Uids
  <2>2. (CHOOSE row \in call.rows : row[1] = o) \in call.rows
    BY <2>1
  <2>3. (CHOOSE row \in call.rows : row[1] = o)[2] \in Statuses
    BY <1>1, <2>2 DEF OrderRows
  <2> QED
    BY <1>5, <1>7, <2>3
<1>8. orders' \in [Orders -> Statuses \cup {"none"}]
  <2>1. orders \in [Orders -> Statuses \cup {"none"}]
    BY DEF TypeInv, TypeOK
  <2>2. CASE "orders" \in first
    <3>1. \A o \in Orders : orders'[o] \in Statuses \cup {"none"}
      BY <1>5, <1>7, <2>1, <2>2
    <3> QED
      BY <1>5, <2>2, <3>1
  <2>3. CASE "orders" \notin first
    BY <1>5, <2>1, <2>3
  <2> QED
    BY <2>2, <2>3
<1>9. \A s \in Statuses : s # "none"
  BY DEF Statuses
<1>10. \A o \in Orders : orders[o] # "none" => orders'[o] # "none"
  BY <1>5, <1>7, <1>9 DEF TypeInv, TypeOK
<1>11. ASSUME n = Len(call.tables), NEW g, Gives(call, g)
       PROVE  \/ g[1] = "row" /\ g[2] \in stored'
              \/ g[1] = "order" /\ orders'[g[2]] # "none"
  <2>1. \/ g \in {"row"} \X (Range(call.tables) \X call.keys)
        \/ "orders" \in Range(call.tables) /\ g \in {"order"} \X call.keys
    BY <1>11 DEF Gives
  <2>2. CASE g \in {"row"} \X (Range(call.tables) \X call.keys)
    BY <1>3, <1>5, <1>11, <2>2
  <2>3. CASE "orders" \in Range(call.tables) /\ g \in {"order"} \X call.keys
    <3>1. g[1] = "order" /\ g[2] \in call.keys /\ call.keys \subseteq Orders
      BY <1>1, <2>3 DEF Uids, OrderRows
    <3> QED
      BY <1>3, <1>7, <1>9, <1>11, <2>3, <3>1
  <2> QED
    BY <2>1, <2>2, <2>3
<1> QED
  BY <1>6, <1>8, <1>10, <1>11

LEMMA StoreStep ==
  ASSUME TypeInv, NEW a \in Items \cup Loops, todo[a] # <<>>,
         Head(todo[a]).op = "store", StoreCall(a, Head(todo[a]))
  PROVE  /\ \E calls : /\ Fits(a, calls) /\ Keeps(a, calls) /\ Goto(a, calls)
                       /\ a \in Items => calls # <<>>
         /\ UNCHANGED faults \/ Fault
         /\ UNCHANGED queue /\ Grows
         /\ orders' \in [Orders -> Statuses \cup {"none"}] /\ stored' \subseteq Tables \X Names
<1> DEFINE call == Head(todo[a])
<1>1. TasksOK /\ call \in WorkCalls /\ call.op = "store" /\ call.op # "finish"
  BY NextCall DEF TypeInv
<1>2. UNCHANGED queue
  BY DEF StoreCall
<1>3. Len(call.tables) \in 0 .. Len(call.tables)
  <2>1. call.tables \in Seq(Tables)
    BY <1>1, CallTypes DEF WorkCalls
  <2> QED
    BY <2>1, LenProperties
<1>4. PICK n \in 0 .. Len(call.tables) : Written(call, n)
  BY <1>3 DEF StoreCall
<1>5. /\ orders' \in [Orders -> Statuses \cup {"none"}] /\ stored' \subseteq Tables \X Names
      /\ Grows
  BY <1>1, <1>2, <1>4, WrittenRows DEF Grows, Status
<1>6. CASE Written(call, Len(call.tables)) /\ Returns(a)
  <2>1. \A g : Gives(call, g) => There(g)'
    BY <1>1, <1>3, <1>6, WrittenRows DEF There
  <2>2. /\ Fits(a, Tail(todo[a])) /\ Keeps(a, Tail(todo[a]))
        /\ a \in Items => Tail(todo[a]) # <<>>
    BY <1>1, <2>1, AdvanceTail
  <2> QED
    BY <1>2, <1>5, <1>6, <2>2 DEF Returns
<1>7. CASE Raises(a)
  BY <1>2, <1>5, <1>7, AfterRaiseFits DEF Raises
<1> QED
  BY <1>6, <1>7 DEF StoreCall

LEMMA QueueRowUpdates ==
  \A row \in QueueRows :
    /\ \A status \in {"absent", "open"} \cup Closed :
         /\ [row EXCEPT !.status = status] \in QueueRows
         /\ [row EXCEPT !.status = status].status = status
         /\ [row EXCEPT !.status = status].attempts = row.attempts
    /\ row.attempts < MaxAttempts + MaxFaults =>
         /\ [row EXCEPT !.attempts = @ + 1] \in QueueRows
         /\ [row EXCEPT !.attempts = @ + 1].status = row.status
         /\ [row EXCEPT !.attempts = @ + 1].attempts = row.attempts + 1
    /\ row.attempts >= 1 =>
         /\ [row EXCEPT !.attempts = @ - 1] \in QueueRows
         /\ [row EXCEPT !.attempts = @ - 1].status = row.status
         /\ [row EXCEPT !.attempts = @ - 1].attempts = row.attempts - 1
BY Bounds DEF QueueRows

LEMMA EnqueueStep ==
  ASSUME TypeInv, NEW a \in Items \cup Loops, todo[a] # <<>>,
         Head(todo[a]).op = "enqueue", EnqueueCall(a, Head(todo[a]))
  PROVE  /\ \E calls : /\ Fits(a, calls) /\ Keeps(a, calls) /\ Goto(a, calls)
                       /\ a \in Items => calls # <<>>
         /\ UNCHANGED faults \/ Fault
         /\ UNCHANGED <<orders, stored>> /\ Grows
         /\ queue' \in [Items -> QueueRows]
         /\ \A i \in Items : \/ queue'[i] = queue[i]
                             \/ /\ Status(i) = "absent" /\ Status(i)' = "open"
                                /\ queue'[i].attempts = queue[i].attempts
<1> DEFINE call == Head(todo[a])
<1>1. /\ TasksOK /\ call \in WorkCalls /\ call.op = "enqueue" /\ call.op # "finish"
      /\ call.sets \in SUBSET SUBSET Items
  BY NextCall, CallTypes DEF TypeInv, WorkCalls
<1>2. UNCHANGED <<orders, stored>>
  BY DEF EnqueueCall
<1>3. queue \in [Items -> QueueRows]
  BY DEF TypeInv, TypeOK, QueueRows
<1>4. CASE UNCHANGED queue /\ Raises(a)
  <2>1. Grows
    BY <1>2, <1>4 DEF Grows, Status
  <2> QED
    BY <1>2, <1>3, <1>4, <2>1, AfterRaiseFits DEF Raises
<1>5. ASSUME NEW items \in call.sets,
             queue' = [i \in Items |->
                         IF i \in items /\ Status(i) = "absent"
                           THEN [queue[i] EXCEPT !.status = "open"] ELSE queue[i]],
             \/ Goto(a, EnqueueEach(call.sets \ {items}) \o Tail(todo[a])) /\ UNCHANGED faults
             \/ Raises(a)
      PROVE  /\ \E calls : /\ Fits(a, calls) /\ Keeps(a, calls) /\ Goto(a, calls)
                           /\ a \in Items => calls # <<>>
             /\ UNCHANGED faults \/ Fault
             /\ Grows
             /\ queue' \in [Items -> QueueRows]
             /\ \A i \in Items : \/ queue'[i] = queue[i]
                                 \/ /\ Status(i) = "absent" /\ Status(i)' = "open"
                                    /\ queue'[i].attempts = queue[i].attempts
  <2>1. ASSUME NEW i \in Items
        PROVE  /\ queue'[i] \in QueueRows
               /\ i \in items => Status(i)' # "absent"
               /\ \/ queue'[i] = queue[i]
                  \/ /\ Status(i) = "absent" /\ Status(i)' = "open"
                     /\ queue'[i].attempts = queue[i].attempts
    <3>1. queue[i] \in QueueRows
      BY <1>3
    <3>2. CASE i \in items /\ Status(i) = "absent"
      <4>1. queue'[i] = [queue[i] EXCEPT !.status = "open"]
        BY <1>5, <3>2
      <4>2. /\ [queue[i] EXCEPT !.status = "open"] \in QueueRows
            /\ [queue[i] EXCEPT !.status = "open"].status = "open"
            /\ [queue[i] EXCEPT !.status = "open"].attempts = queue[i].attempts
        BY <3>1, QueueRowUpdates, Zenon
      <4>3. /\ queue'[i] \in QueueRows /\ queue'[i].status = "open"
            /\ queue'[i].attempts = queue[i].attempts
        BY <4>1, <4>2, Zenon
      <4> QED
        BY <3>2, <4>3 DEF Status
    <3>3. CASE ~(i \in items /\ Status(i) = "absent")
      <4>1. queue'[i] = queue[i]
        BY <1>5, <3>3
      <4> QED
        BY <3>1, <3>3, <4>1 DEF Status
    <3> QED
      BY <3>2, <3>3
  <2>2. queue' \in [Items -> QueueRows]
    <3>1. DOMAIN queue' = Items /\ queue' = [i \in Items |-> queue'[i]]
      BY <1>5
    <3> QED
      BY <2>1, <3>1
  <2>3. Grows
    BY <1>2, <2>1 DEF Grows, Status
  <2>4. CASE Goto(a, EnqueueEach(call.sets \ {items}) \o Tail(todo[a])) /\ UNCHANGED faults
    <3> DEFINE calls == EnqueueEach(call.sets \ {items})
    <3>1. /\ calls \in Seq(WorkCalls)
          /\ \A others \in call.sets \ {items} : \A j \in others : Given(calls, <<"item", j>>)
      BY <1>1, EnqueueGives
    <3>2. calls \in Seq(LoopCalls)
      BY <3>1, LoopWrites
    <3>3. ASSUME NEW g, Gives(call, g)
          PROVE  There(g)' \/ Given(calls, g)
      <4>1. PICK others \in call.sets : \E j \in others : g = <<"item", j>>
        BY <1>1, <3>3 DEF Gives
      <4>2. PICK j \in others : g = <<"item", j>>
        BY <4>1
      <4>3. CASE others = items
        <5>1. j \in Items
          BY <1>1
        <5> QED
          BY <2>1, <4>2, <4>3, <5>1 DEF There
      <4>4. CASE others # items
        BY <3>1, <4>2, <4>4
      <4> QED
        BY <4>3, <4>4
    <3>4. /\ Fits(a, calls \o Tail(todo[a])) /\ Keeps(a, calls \o Tail(todo[a]))
          /\ a \in Items => calls \o Tail(todo[a]) # <<>>
      BY <1>1, <3>1, <3>2, <3>3, Advance
    <3> QED
      BY <2>1, <2>2, <2>3, <2>4, <3>4
  <2>5. CASE Raises(a)
    BY <2>1, <2>2, <2>3, <2>5, AfterRaiseFits DEF Raises
  <2> QED
    BY <1>5, <2>4, <2>5
<1> QED
  BY <1>2, <1>4, <1>5 DEF EnqueueCall

(* finish_work closes its item only, as done only when the handler         *)
(* returned.                                                               *)
LEMMA FinishStep ==
  ASSUME TypeInv, NEW i \in Items, todo[i] # <<>>,
         Head(todo[i]).op = "finish", FinishCall(i, Head(todo[i])),
         UNCHANGED <<age, public, worker, waiting, prefetched, captures>>
  PROVE  /\ TypeInv' /\ Grows
         /\ \A j \in Items : j # i => todo'[j] = todo[j] /\ queue'[j] = queue[j]
         /\ DoneCall \notin Range(todo'[i])
         /\ Status(i)' = "done" => Status(i) = "done" \/ Range(todo[i]) = {DoneCall}
<1> DEFINE call == Head(todo[i])
           status == Outcome(i, call.outcome)
           finished == [queue EXCEPT ![i].status = status]
<1>1. /\ call \in Finishes /\ Range(todo[i]) = {call}
      /\ TasksOK /\ TypeOK /\ i \in Items \cup Loops
  <2>1. /\ call \in Finishes /\ Range(todo[i]) = {call} \cup Range(Tail(todo[i]))
        /\ Tail(todo[i]) = <<>>
    BY NextCall DEF TypeInv
  <2> QED
    BY <2>1, RangeOfOne DEF TypeInv
<1>2. /\ i \in pending /\ i \notin waiting /\ worker = "gather"
      /\ queue \in [Items -> QueueRows] /\ queue[i] \in QueueRows
      /\ Status(i) # "absent" /\ Status(i) \in {"open"} \cup Closed
  BY <1>1 DEF TasksOK, Tasks, TypeOK, QueueRows, Status
<1>3. /\ call.outcome \in {"done", "failed", "unavailable"}
      /\ call.outcome = "done" => call = DoneCall
  BY <1>1 DEF Finishes, DoneCall
<1>4. /\ status \in {"open"} \cup Closed
      /\ status = "done" => Status(i) = "done" \/ call.outcome = "done"
      /\ status = "open" => queue[i].attempts < MaxAttempts
  BY <1>2, <1>3, Bounds DEF Outcome, Closed, QueueRows
<1>5. /\ finished \in [Items -> QueueRows]
      /\ finished[i].status = status /\ finished[i].attempts = queue[i].attempts
      /\ \A j \in Items : j # i => finished[j] = queue[j]
  <2> DEFINE row == [queue[i] EXCEPT !.status = status]
  <2>1. finished = [queue EXCEPT ![i] = row]
    OBVIOUS
  <2>2. row \in QueueRows /\ row.status = status /\ row.attempts = queue[i].attempts
    BY <1>2, <1>4, QueueRowUpdates, Zenon
  <2> HIDE DEF row, finished, status
  <2> QED
    BY <1>2, <2>1, <2>2
<1> HIDE DEF finished, status
<1>6. PICK calls : /\ Goto(i, calls) /\ Fits(i, calls) /\ DoneCall \notin Range(calls)
                   /\ \/ /\ queue' = finished /\ pending' = pending \ {i} /\ calls = <<>>
                         /\ UNCHANGED faults
                      \/ /\ queue' \in {queue, finished} /\ UNCHANGED pending /\ Fault
  <2>1. DoneCall # [op |-> "finish", outcome |-> "failed"]
    BY DEF DoneCall
  <2>2. /\ Fits(i, <<>>) /\ DoneCall \notin Range(<<>>)
        /\ Fits(i, Finish("failed")) /\ DoneCall \notin Range(Finish("failed"))
    BY <1>1, <2>1, FitsOne
  <2>3. CASE /\ queue' = finished /\ pending' = pending \ {i}
             /\ Goto(i, <<>>) /\ UNCHANGED faults
    BY <2>2, <2>3
  <2>4. CASE /\ queue' \in {queue, finished} /\ UNCHANGED pending
             /\ Goto(i, IF call.outcome = "done" THEN Finish("failed") ELSE <<>>)
             /\ Fault
    BY <2>2, <2>4
  <2> QED
    BY <2>3, <2>4 DEF FinishCall, finished, status
<1>7. /\ todo' \in [Items \cup Loops -> Seq(Calls)]
      /\ todo'[i] = calls /\ \A b \in Items \cup Loops : b # i => todo'[b] = todo[b]
      /\ \A j \in Items : Shape(todo'[j])
      /\ \A loop \in Loops : todo'[loop] \in Seq(LoopCalls)
      /\ Tasks' \subseteq Tasks /\ IsFiniteSet(Tasks')
      /\ Cardinality(Tasks') <= Concurrency
  BY <1>1, <1>6, TaskUpdate
<1>8. UNCHANGED <<orders, stored>>
  BY DEF FinishCall
<1>9. /\ faults' \in 0 .. MaxFaults /\ faults <= faults' /\ faults \in Nat
      /\ Fault => faults' = faults + 1
  BY <1>1, <1>6, Bounds DEF TypeOK, Fault
<1>10. /\ queue' \in [Items -> QueueRows] /\ queue'[i].attempts = queue[i].attempts
       /\ Status(i)' = Status(i) \/ Status(i)' = status
       /\ \A j \in Items : j # i => queue'[j] = queue[j]
  BY <1>2, <1>5, <1>6 DEF Status
<1>11. pending' \subseteq pending /\ waiting \subseteq pending' /\ (calls # <<>> => i \in pending')
  BY <1>1, <1>2, <1>6 DEF TypeOK
<1>12. TypeOK'
  <2>1. /\ age \in [Orders -> Nat] /\ public \subseteq Txs
        /\ orders \in [Orders -> Statuses \cup {"none"}] /\ stored \subseteq Tables \X Names
        /\ worker \in {"idle", "prefetch", "gather"}
        /\ prefetched \in [ok : BOOLEAN, rows : SUBSET OrderRows] /\ captures \in Nat
    BY <1>1 DEF TypeOK
  <2>2. pending' \subseteq {j \in Items : Status(j)' # "absent"}
    <3>1. \A j \in pending : j \in Items /\ Status(j) # "absent"
      BY <1>1 DEF TypeOK
    <3>2. Status(i)' # "absent"
      BY <1>2, <1>4, <1>10 DEF Closed
    <3> QED
      BY <1>10, <1>11, <3>1, <3>2 DEF Status
  <2> QED
    BY <1>7, <1>8, <1>9, <1>10, <1>11, <2>1, <2>2 DEF TypeOK, Tasks, QueueRows, Status
<1>13. AgesOK' /\ PrefetchOK'
  BY <1>11 DEF TypeInv, AgesOK, PrefetchOK
<1>14. TasksOK'
  <2>1. Tasks' \subseteq pending' \ waiting
    BY <1>1, <1>6, <1>7, <1>11 DEF TasksOK, Tasks
  <2> QED
    BY <1>1, <1>2, <1>7, <2>1 DEF TasksOK
<1>15. AttemptsOK'
  <2> SUFFICES ASSUME NEW j \in Items
               PROVE  /\ j \in pending' => queue'[j].attempts >= 1
                      /\ queue'[j].attempts <= MaxAttempts + faults'
                      /\ Status(j)' = "absent" => queue'[j].attempts = 0
                      /\ Status(j)' = "open" /\ j \notin waiting /\ todo'[j] = <<>> =>
                           queue'[j].attempts < MaxAttempts + faults'
    BY DEF AttemptsOK
  <2>1. /\ j \in pending => queue[j].attempts >= 1
        /\ queue[j].attempts <= MaxAttempts + faults
        /\ Status(j) = "absent" => queue[j].attempts = 0
        /\ Status(j) = "open" /\ j \notin waiting /\ todo[j] = <<>> =>
             queue[j].attempts < MaxAttempts + faults
        /\ queue[j].attempts \in Int /\ queue'[j].attempts \in Int
    BY <1>2, <1>10 DEF TypeInv, AttemptsOK, QueueRows
  <2>2. CASE j # i
    BY <1>7, <1>9, <1>10, <1>11, <2>1, <2>2, Bounds DEF Status
  <2>3. CASE j = i
    <3>1. Status(i)' # "absent"
      BY <1>2, <1>4, <1>10 DEF Closed
    <3>2. CASE Fault
      BY <1>2, <1>9, <1>10, <2>1, <2>3, <3>1, <3>2, Bounds
    <3>3. CASE queue' = finished
      BY <1>2, <1>4, <1>5, <1>9, <1>10, <2>1, <2>3, <3>1, <3>3, Bounds DEF Status
    <3> QED
      BY <1>6, <3>2, <3>3
  <2> QED
    BY <2>2, <2>3
<1>16. Grows
  <2>1. Status(i)' # "absent"
    BY <1>2, <1>4, <1>10 DEF Closed
  <2> QED
    BY <1>8, <1>10, <2>1 DEF Grows, Status
<1>17. Status(i)' = "done" => Status(i) = "done" \/ Range(todo[i]) = {DoneCall}
  BY <1>1, <1>3, <1>4, <1>10
<1> QED
  BY <1>6, <1>7, <1>10, <1>12, <1>13, <1>14, <1>15, <1>16, <1>17 DEF TypeInv

-----------------------------------------------------------------------------
(* What is done leaves no hole: what its item answers for is there, and    *)
(* what a task that will be done answers for is there or still to come.    *)

Covered(i, calls) == \A g \in Implied(i) : There(g) \/ Given(calls, g)

HoleInv ==
  \A i \in Items :
    /\ Status(i) = "done" => Covered(i, <<>>)
    /\ DoneCall \in Range(todo[i]) => Covered(i, todo[i])

LEMMA CoveredStays ==
  ASSUME Grows, NEW i \in Items, NEW calls, Covered(i, calls)
  PROVE  \A g \in Implied(i) : There(g)' \/ Given(calls, g)
<1>1. ASSUME NEW g \in Implied(i), There(g)
      PROVE  There(g)'
  BY <1>1, ImpliedTypes DEF Grows, There
<1> QED
  BY <1>1 DEF Covered

(* A step in which the calls left to each task keep what it answers for,   *)
(* and no item is done.                                                    *)
LEMMA HoleStays ==
  ASSUME HoleInv, Grows,
         \A i \in Items : Status(i)' = "done" =>
           Status(i) = "done" \/ Range(todo[i]) = {DoneCall},
         \A i \in Items : \/ todo'[i] = todo[i] \/ DoneCall \notin Range(todo'[i])
                          \/ Keeps(i, todo'[i])
  PROVE  HoleInv'
<1> SUFFICES ASSUME NEW i \in Items
             PROVE  /\ Status(i)' = "done" => \A g \in Implied(i) : There(g)' \/ Given(<<>>, g)
                    /\ DoneCall \in Range(todo'[i]) =>
                         \A g \in Implied(i) : There(g)' \/ Given(todo'[i], g)
  BY DEF HoleInv, Covered
<1>1. ASSUME Status(i)' = "done"
      PROVE  \A g \in Implied(i) : There(g)' \/ Given(<<>>, g)
  <2>1. \A g : ~Gives(DoneCall, g)
    BY DEF Gives, DoneCall
  <2>2. Range(todo[i]) = {DoneCall} => \A g : ~Given(todo[i], g)
    BY <2>1 DEF Given
  <2>3. Covered(i, <<>>)
    <3>1. CASE Status(i) = "done"
      BY <3>1 DEF HoleInv
    <3>2. CASE Range(todo[i]) = {DoneCall}
      <4>1. Covered(i, todo[i])
        BY <3>2 DEF HoleInv
      <4> QED
        BY <2>2, <3>2, <4>1 DEF Covered
    <3> QED
      BY <1>1, <3>1, <3>2
  <2> QED
    BY <2>3, CoveredStays
<1>2. ASSUME DoneCall \in Range(todo'[i])
      PROVE  \A g \in Implied(i) : There(g)' \/ Given(todo'[i], g)
  <2>1. CASE todo'[i] = todo[i]
    <3>1. Covered(i, todo[i])
      BY <1>2, <2>1 DEF HoleInv
    <3>2. \A g \in Implied(i) : There(g)' \/ Given(todo[i], g)
      BY <3>1, CoveredStays
    <3> QED
      BY <2>1, <3>2
  <2>2. CASE Keeps(i, todo'[i])
    <3>1. /\ DoneCall \in Range(todo[i])
          /\ \A g : Given(todo[i], g) => There(g)' \/ Given(todo'[i], g)
      BY <1>2, <2>2 DEF Keeps
    <3>2. Covered(i, todo[i])
      BY <3>1 DEF HoleInv
    <3>3. \A g \in Implied(i) : There(g)' \/ Given(todo[i], g)
      BY <3>2, CoveredStays
    <3> QED
      BY <3>1, <3>3
  <2> QED
    BY <1>2, <2>1, <2>2
<1> QED
  BY <1>1, <1>2

LEMMA CallStep ==
  ASSUME TypeInv, NEW a \in Items \cup Loops, Call(a)
  PROVE  TypeInv' /\ (HoleInv => HoleInv')
<1> DEFINE call == Head(todo[a])
<1>1. /\ todo[a] # <<>> /\ TasksOK /\ TypeOK /\ queue \in [Items -> QueueRows]
      /\ UNCHANGED <<age, public, worker, waiting, prefetched, captures>>
  BY DEF Call, TypeInv, TypeOK, QueueRows
<1>2. CASE call.op = "finish" /\ FinishCall(a, call)
  <2>1. a \in Items
    BY <1>1, <1>2, NextCall
  <2>2. /\ TypeInv' /\ Grows
        /\ \A j \in Items : j # a => todo'[j] = todo[j] /\ queue'[j] = queue[j]
        /\ DoneCall \notin Range(todo'[a])
        /\ Status(a)' = "done" => Status(a) = "done" \/ Range(todo[a]) = {DoneCall}
    BY <1>1, <1>2, <2>1, FinishStep
  <2>3. \A i \in Items : Status(i)' = "done" =>
          Status(i) = "done" \/ Range(todo[i]) = {DoneCall}
    BY <2>2 DEF Status
  <2> QED
    BY <2>2, <2>3, HoleStays
<1>3. ASSUME NEW calls, Fits(a, calls), Keeps(a, calls), Goto(a, calls),
             a \in Items => calls # <<>>, UNCHANGED faults \/ Fault, UNCHANGED pending,
             Grows,
             orders' \in [Orders -> Statuses \cup {"none"}], stored' \subseteq Tables \X Names,
             queue' \in [Items -> QueueRows],
             \A i \in Items : \/ queue'[i] = queue[i]
                              \/ /\ Status(i) = "absent" /\ Status(i)' = "open"
                                 /\ queue'[i].attempts = queue[i].attempts
      PROVE  TypeInv' /\ (HoleInv => HoleInv')
  <2>1. TypeInv'
    BY <1>1, <1>3, CallKeepsTypes
  <2>2. todo'[a] = calls /\ \A b \in Items \cup Loops : b # a => todo'[b] = todo[b]
    BY <1>1, <1>3, TaskUpdate
  <2>3. \A i \in Items : Status(i)' = "done" => Status(i) = "done"
    BY <1>3 DEF Status
  <2>4. \A i \in Items : todo'[i] = todo[i] \/ Keeps(i, todo'[i])
    BY <1>3, <2>2
  <2> QED
    BY <1>3, <2>1, <2>3, <2>4, HoleStays
<1>4. CASE call.op = "fetch" /\ FetchCall(a, call) /\ UNCHANGED pending
  <2>1. /\ \E calls : /\ Fits(a, calls) /\ Keeps(a, calls) /\ Goto(a, calls)
                      /\ a \in Items => calls # <<>>
        /\ UNCHANGED faults \/ Fault
        /\ UNCHANGED tables
    BY <1>1, <1>4, FetchStep
  <2>2. /\ Grows
        /\ orders' \in [Orders -> Statuses \cup {"none"}] /\ stored' \subseteq Tables \X Names
        /\ queue' \in [Items -> QueueRows] /\ \A i \in Items : queue'[i] = queue[i]
    BY <1>1, <2>1 DEF TypeOK, tables, Grows, Status
  <2> QED
    BY <1>3, <1>4, <2>1, <2>2
<1>5. CASE call.op = "store" /\ StoreCall(a, call) /\ UNCHANGED pending
  <2>1. /\ \E calls : /\ Fits(a, calls) /\ Keeps(a, calls) /\ Goto(a, calls)
                      /\ a \in Items => calls # <<>>
        /\ UNCHANGED faults \/ Fault
        /\ UNCHANGED queue /\ Grows
        /\ orders' \in [Orders -> Statuses \cup {"none"}] /\ stored' \subseteq Tables \X Names
    BY <1>1, <1>5, StoreStep
  <2>2. queue' \in [Items -> QueueRows] /\ \A i \in Items : queue'[i] = queue[i]
    BY <1>1, <2>1
  <2> QED
    BY <1>3, <1>5, <2>1, <2>2
<1>6. CASE call.op = "enqueue" /\ EnqueueCall(a, call) /\ UNCHANGED pending
  <2>1. /\ \E calls : /\ Fits(a, calls) /\ Keeps(a, calls) /\ Goto(a, calls)
                      /\ a \in Items => calls # <<>>
        /\ UNCHANGED faults \/ Fault
        /\ UNCHANGED <<orders, stored>> /\ Grows
        /\ queue' \in [Items -> QueueRows]
        /\ \A i \in Items : \/ queue'[i] = queue[i]
                            \/ /\ Status(i) = "absent" /\ Status(i)' = "open"
                               /\ queue'[i].attempts = queue[i].attempts
    BY <1>1, <1>6, EnqueueStep
  <2>2. orders' \in [Orders -> Statuses \cup {"none"}] /\ stored' \subseteq Tables \X Names
    BY <1>1, <2>1 DEF TypeOK
  <2> QED
    BY <1>3, <1>6, <2>1, <2>2
<1> QED
  BY <1>2, <1>4, <1>5, <1>6 DEF Call

-----------------------------------------------------------------------------
(* The steps of run_once and of the loops. *)

LEMMA NoTasksLeft == IsFiniteSet({}) /\ Cardinality({}) <= Concurrency
BY FS_EmptySet, Bounds

LEMMA NothingDone ==
  ASSUME HoleInv, UNCHANGED <<orders, stored>>,
         \A i \in Items : Status(i)' = Status(i),
         \A i \in Items : \/ todo'[i] = todo[i] \/ DoneCall \notin Range(todo'[i])
                          \/ Keeps(i, todo'[i])
  PROVE  HoleInv'
<1>1. Grows
  BY DEF Grows
<1> QED
  BY <1>1, HoleStays

LEMMA InitEstablishes ==
  ASSUME Init
  PROVE  TypeInv /\ HoleInv
<1>1. PICK scenario \in Scenarios :
        /\ queue = [i \in Items |->
                      [status |-> IF i \in scenario.seeds THEN "open" ELSE "absent",
                       attempts |-> 0]]
        /\ public = scenario.public /\ captures = scenario.captures
  BY DEF Init
<1>2. scenario.public \subseteq Txs /\ scenario.captures \in Nat
  BY IngestionParameters
<1>3. /\ queue \in [Items -> QueueRows] /\ \A i \in Items : queue[i].attempts = 0
      /\ \A i \in Items : Status(i) # "done"
  BY <1>1, Bounds DEF QueueRows, Status
<1>4. /\ todo = [a \in Items \cup Loops |-> <<>>] /\ todo \in [Items \cup Loops -> Seq(Calls)]
      /\ Tasks = {} /\ \A i \in Items : Shape(todo[i])
      /\ \A loop \in Loops : todo[loop] \in Seq(LoopCalls)
  <2>1. todo = [a \in Items \cup Loops |-> <<>>]
    BY DEF Init
  <2>2. <<>> \in Seq(Calls) /\ <<>> \in Seq(LoopCalls) /\ Shape(<<>>)
    BY LoopWrites, RangeOfOne DEF Shape
  <2> QED
    BY <2>1, <2>2 DEF Tasks
<1>5. /\ age = [o \in Orders |-> 1] /\ orders = [o \in Orders |-> "none"] /\ stored = {}
      /\ worker = "idle" /\ pending = {} /\ waiting = {} /\ prefetched = NoRows /\ faults = 0
  BY DEF Init
<1>6. TypeOK
  <2>1. prefetched \in [ok : BOOLEAN, rows : SUBSET OrderRows]
    BY <1>5 DEF NoRows
  <2>2. Cardinality({i \in Items : todo[i] # <<>>}) <= Concurrency
    BY <1>4, NoTasksLeft DEF Tasks
  <2> QED
    BY <1>1, <1>2, <1>3, <1>4, <1>5, <2>1, <2>2, Bounds DEF TypeOK, QueueRows
<1>7. AgesOK
  <2> SUFFICES ASSUME NEW o \in Orders, Life[o] # <<>>
               PROVE  age[o] \in DOMAIN Life[o]
    BY DEF AgesOK
  <2>1. Life[o] \in Seq(Statuses)
    BY IngestionParameters
  <2>2. Len(Life[o]) \in Nat \ {0} /\ DOMAIN Life[o] = 1 .. Len(Life[o])
    BY <2>1, EmptySeq, LenProperties
  <2> QED
    BY <1>5, <2>2
<1>8. TasksOK /\ AttemptsOK /\ PrefetchOK
  BY <1>3, <1>4, <1>5, NoTasksLeft, Bounds DEF TasksOK, AttemptsOK, PrefetchOK
<1>9. HoleInv
  BY <1>3, <1>4, RangeOfOne DEF HoleInv
<1> QED
  BY <1>6, <1>7, <1>8, <1>9 DEF TypeInv

LEMMA LeaseStep ==
  ASSUME TypeInv, NEW batch \in SUBSET Items, Lease(batch)
  PROVE  TypeInv' /\ (HoleInv => HoleInv')
<1>1. /\ worker = "idle" /\ batch \subseteq OpenItems
      /\ pending' = batch /\ waiting' = batch /\ worker' = "prefetch"
      /\ UNCHANGED <<age, public, orders, stored, prefetched, todo, captures, faults>>
      /\ queue' = [i \in Items |-> IF i \in batch
                                     THEN [queue[i] EXCEPT !.attempts = @ + 1] ELSE queue[i]]
  BY DEF Lease
<1>2. /\ Tasks = {} /\ pending = {} /\ waiting = {} /\ faults \in 0 .. MaxFaults
      /\ queue \in [Items -> QueueRows]
  BY <1>1 DEF TypeInv, TasksOK, TypeOK, QueueRows
<1>3. ASSUME NEW i \in Items
      PROVE  /\ queue'[i] \in QueueRows /\ Status(i)' = Status(i)
             /\ i \notin batch => queue'[i] = queue[i]
             /\ i \in batch => /\ Status(i) = "open" /\ queue'[i].attempts >= 1
                               /\ queue'[i].attempts <= MaxAttempts + faults
  <2>1. queue[i] \in QueueRows
    BY <1>2
  <2>2. CASE i \in batch
    <3>1. Status(i) = "open" /\ todo[i] = <<>> /\ i \notin waiting
      BY <1>1, <1>2, <2>2 DEF OpenItems, Tasks
    <3>2. queue[i].attempts < MaxAttempts + faults /\ queue[i].attempts \in Nat
      BY <2>1, <3>1 DEF TypeInv, AttemptsOK, QueueRows
    <3>3. queue[i].attempts < MaxAttempts + MaxFaults
      BY <1>2, <3>2, Bounds
    <3>4. /\ [queue[i] EXCEPT !.attempts = @ + 1] \in QueueRows
          /\ [queue[i] EXCEPT !.attempts = @ + 1].status = queue[i].status
          /\ [queue[i] EXCEPT !.attempts = @ + 1].attempts = queue[i].attempts + 1
      BY <2>1, <3>3, QueueRowUpdates, Zenon
    <3>5. queue'[i] = [queue[i] EXCEPT !.attempts = @ + 1]
      BY <1>1, <2>2
    <3>6. /\ queue'[i] \in QueueRows /\ queue'[i].status = queue[i].status
          /\ queue'[i].attempts = queue[i].attempts + 1
      BY <3>4, <3>5, Zenon
    <3>7. queue[i].attempts + 1 >= 1 /\ queue[i].attempts + 1 <= MaxAttempts + faults
      BY <1>2, <3>2, Bounds
    <3> QED
      BY <2>2, <3>1, <3>6, <3>7 DEF Status
  <2>3. CASE i \notin batch
    BY <1>1, <2>1, <2>3 DEF Status
  <2> QED
    BY <2>2, <2>3
<1>4. queue' \in [Items -> QueueRows]
  <2>1. queue' = [i \in Items |-> queue'[i]]
    BY <1>1
  <2> QED
    BY <1>3, <2>1
<1>5. TypeOK'
  BY <1>1, <1>3, <1>4 DEF TypeInv, TypeOK, QueueRows, Status
<1>6. AgesOK' /\ PrefetchOK'
  BY <1>1 DEF TypeInv, AgesOK, PrefetchOK
<1>7. Tasks' = {} /\ TasksOK'
  BY <1>1, <1>2, NoTasksLeft DEF TypeInv, TasksOK, Tasks
<1>8. AttemptsOK'
  BY <1>1, <1>2, <1>3 DEF TypeInv, AttemptsOK
<1>9. HoleInv => HoleInv'
  BY <1>1, <1>3, NothingDone
<1> QED
  BY <1>5, <1>6, <1>7, <1>8, <1>9 DEF TypeInv

LEMMA PrefetchStep ==
  ASSUME TypeInv, Prefetch
  PROVE  TypeInv' /\ (HoleInv => HoleInv')
<1> DEFINE keys == {i[2] : i \in {i \in pending : i[1] = "order_uid"}}
<1>1. /\ worker = "prefetch" /\ worker' = "gather"
      /\ UNCHANGED <<age, public, queue, orders, stored, pending, waiting, todo, captures>>
      /\ \/ /\ keys \cap Misnamed = {} /\ UNCHANGED faults
            /\ prefetched' = [ok |-> TRUE, rows |-> Served(keys)]
         \/ /\ prefetched' = [ok |-> FALSE, rows |-> {}]
            /\ UNCHANGED faults \/ Fault
  BY DEF Prefetch, tables
<1>2. /\ faults' \in 0 .. MaxFaults /\ faults <= faults' /\ faults \in Nat
  BY <1>1, Bounds DEF TypeInv, TypeOK, Fault
<1>3. /\ Served(keys) \in SUBSET OrderRows
      /\ Uids(Served(keys)) = {o \in keys \cap Orders : Life[o] # <<>>}
  BY ServedRows DEF TypeInv
<1>4. TypeOK'
  <2>1. prefetched' \in [ok : BOOLEAN, rows : SUBSET OrderRows]
    <3>1. \A rows \in SUBSET OrderRows :
            /\ [ok |-> TRUE, rows |-> rows] \in [ok : BOOLEAN, rows : SUBSET OrderRows]
            /\ [ok |-> FALSE, rows |-> {}] \in [ok : BOOLEAN, rows : SUBSET OrderRows]
      OBVIOUS
    <3> HIDE DEF keys
    <3>2. CASE prefetched' = [ok |-> TRUE, rows |-> Served(keys)]
      BY <1>3, <3>1, <3>2, Zenon
    <3>3. CASE prefetched' = [ok |-> FALSE, rows |-> {}]
      BY <1>3, <3>1, <3>3, Zenon
    <3> QED
      BY <1>1, <3>2, <3>3
  <2> QED
    BY <1>1, <1>2, <2>1 DEF TypeInv, TypeOK, Status
<1>5. AgesOK' /\ TasksOK'
  BY <1>1 DEF TypeInv, AgesOK, TasksOK, Tasks
<1>6. PrefetchOK'
  <2> SUFFICES ASSUME prefetched'.ok, NEW i \in pending, i[1] = "order_uid"
               PROVE  /\ i[2] \in Orders
                      /\ Life[i[2]] # <<>> => i[2] \in Uids(prefetched'.rows)
    BY <1>1 DEF PrefetchOK
  <2>1. keys \cap Misnamed = {} /\ prefetched'.rows = Served(keys)
    BY <1>1
  <2>2. i[2] \in keys /\ i \in Items
    BY DEF TypeInv, TypeOK
  <2>3. i[2] \in Orders
    BY <2>1, <2>2, ItemKinds DEF OrderUids
  <2> QED
    BY <1>3, <2>1, <2>2, <2>3
<1>7. AttemptsOK'
  <2>1. \A i \in Items : queue[i].attempts \in Nat
    BY DEF TypeInv, TypeOK
  <2> QED
    BY <1>1, <1>2, <2>1, Bounds DEF TypeInv, AttemptsOK, Status
<1>8. HoleInv => HoleInv'
  BY <1>1, NothingDone DEF Status
<1> QED
  BY <1>4, <1>5, <1>6, <1>7, <1>8 DEF TypeInv

LEMMA BeginStep ==
  ASSUME TypeInv, NEW i \in Items, Begin(i)
  PROVE  TypeInv' /\ (HoleInv => HoleInv')
<1> DEFINE next == Handler(i) \o Finish("done")
<1>1. /\ worker = "gather" /\ i \in waiting /\ FreeTask
      /\ waiting' = waiting \ {i} /\ Goto(i, next)
      /\ UNCHANGED <<age, public, queue, orders, stored, worker, pending, prefetched,
                     captures, faults>>
  BY DEF Begin, tables
<1>2. /\ i \in pending /\ waiting \subseteq pending /\ pending \subseteq Items
      /\ prefetched.rows \in SUBSET OrderRows /\ TasksOK /\ PrefetchOK /\ todo[i] = <<>>
      /\ Status(i) # "absent" /\ todo \in [Items \cup Loops -> Seq(Calls)]
  BY <1>1 DEF TypeInv, TypeOK, TasksOK, Tasks
<1>3. /\ Handler(i) \in Seq(WorkCalls)
      /\ \A g \in Implied(i) : g = <<"item", i>> \/ Given(Handler(i), g)
  BY <1>1, <1>2, HandlerGives
<1>4. /\ DoneCall \in Finishes /\ Finish("done") = <<DoneCall>>
      /\ Shape(next) /\ next # <<>> /\ next \in Seq(Calls)
      /\ Range(next) = Range(Handler(i)) \cup {DoneCall}
  BY <1>3, ShapeOfOne, CallTypes DEF Finish, DoneCall
<1> HIDE DEF next
<1>5. /\ todo' \in [Items \cup Loops -> Seq(Calls)]
      /\ todo'[i] = next /\ \A b \in Items \cup Loops : b # i => todo'[b] = todo[b]
  BY <1>1, <1>2, <1>4 DEF Goto
<1>6. Tasks' = Tasks \cup {i} /\ i \notin Tasks
  BY <1>2, <1>4, <1>5 DEF Tasks
<1>7. IsFiniteSet(Tasks') /\ Cardinality(Tasks') <= Concurrency
  <2>1. Running = Tasks
    BY <1>2 DEF TasksOK, Tasks, Running
  <2>2. IsFiniteSet(Tasks) /\ Cardinality(Tasks) < Concurrency
    BY <1>1, <1>2, <2>1 DEF TasksOK, FreeTask
  <2>3. /\ IsFiniteSet(Tasks \cup {i}) /\ Cardinality(Tasks \cup {i}) = Cardinality(Tasks) + 1
        /\ Cardinality(Tasks) \in Nat
    BY <1>6, <2>2, FS_AddElement, FS_CardinalityType
  <2> QED
    BY <1>6, <2>2, <2>3, Bounds
<1>8. TypeOK'
  BY <1>1, <1>2, <1>5, <1>7 DEF TypeInv, TypeOK, Tasks, Status
<1>9. TasksOK'
  <2>1. \A loop \in Loops : todo'[loop] = todo[loop]
    BY <1>5, LoopsAreNoItems
  <2>2. \A j \in Items : Shape(todo'[j])
    BY <1>2, <1>4, <1>5 DEF TasksOK
  <2>3. Tasks' \subseteq pending \ waiting'
    BY <1>1, <1>2, <1>6 DEF TasksOK
  <2> QED
    BY <1>1, <1>2, <1>7, <2>1, <2>2, <2>3 DEF TasksOK
<1>10. AgesOK' /\ PrefetchOK'
  BY <1>1 DEF TypeInv, AgesOK, PrefetchOK
<1>11. AttemptsOK'
  BY <1>1, <1>4, <1>5 DEF TypeInv, AttemptsOK, Status
<1>12. ASSUME HoleInv
       PROVE  HoleInv'
  <2>1. Covered(i, next)
    <3>1. There(<<"item", i>>)
      BY <1>2 DEF There
    <3>2. \A g : Given(Handler(i), g) => Given(next, g)
      BY <1>4 DEF Given
    <3> QED
      BY <1>3, <3>1, <3>2 DEF Covered
  <2>2. \A g : There(g)' <=> There(g)
    BY <1>1 DEF There, Status
  <2>3. \A j \in Items : j # i => todo'[j] = todo[j]
    BY <1>5
  <2> QED
    BY <1>1, <1>5, <1>12, <2>1, <2>2, <2>3 DEF HoleInv, Covered, Status
<1> QED
  BY <1>8, <1>9, <1>10, <1>11, <1>12 DEF TypeInv

(* run_once is over, whichever way: no task is left. *)
LEMMA EndKeeps ==
  ASSUME TypeInv, EndRun, UNCHANGED <<age, public, orders, stored, captures>>,
         todo' \in [Items \cup Loops -> Seq(Calls)], \A i \in Items : todo'[i] = <<>>,
         \A loop \in Loops : todo'[loop] \in Seq(LoopCalls),
         queue' \in [Items -> QueueRows],
         \A i \in Items : /\ Status(i)' = Status(i)
                          /\ queue'[i].attempts <= queue[i].attempts,
         Fault \/ (UNCHANGED <<queue, todo, faults>> /\ waiting = {})
  PROVE  TypeInv' /\ (HoleInv => HoleInv')
<1>1. pending' = {} /\ waiting' = {} /\ worker' = "idle" /\ prefetched' = NoRows
  BY DEF EndRun
<1>2. Tasks' = {}
  BY DEF Tasks
<1>3. faults' \in 0 .. MaxFaults /\ faults \in Nat /\ (Fault => faults' = faults + 1)
  BY Bounds DEF TypeInv, TypeOK, Fault
<1>4. TypeOK'
  <2>1. NoRows \in [ok : BOOLEAN, rows : SUBSET OrderRows]
    BY DEF NoRows
  <2>2. Cardinality(Tasks') <= Concurrency
    BY <1>2, NoTasksLeft
  <2> QED
    BY <1>1, <1>3, <2>1, <2>2 DEF TypeInv, TypeOK, QueueRows, Tasks
<1>5. AgesOK' /\ PrefetchOK'
  BY <1>1 DEF TypeInv, AgesOK, PrefetchOK
<1>6. TasksOK'
  <2>1. Shape(<<>>)
    BY DEF Shape
  <2>2. \A i \in Items : Shape(todo'[i])
    BY <2>1
  <2> QED
    BY <1>1, <1>2, <2>2, NoTasksLeft DEF TasksOK
<1>7. AttemptsOK'
  <2> SUFFICES ASSUME NEW i \in Items
               PROVE  /\ queue'[i].attempts <= MaxAttempts + faults'
                      /\ Status(i)' = "absent" => queue'[i].attempts = 0
                      /\ Status(i)' = "open" => queue'[i].attempts < MaxAttempts + faults'
    BY <1>1 DEF AttemptsOK
  <2>1. /\ queue[i].attempts <= MaxAttempts + faults
        /\ Status(i) = "absent" => queue[i].attempts = 0
        /\ Status(i) = "open" /\ i \notin waiting /\ todo[i] = <<>> =>
             queue[i].attempts < MaxAttempts + faults
        /\ queue[i].attempts \in Nat /\ queue'[i].attempts \in Nat
    BY DEF TypeInv, AttemptsOK, TypeOK, QueueRows
  <2>2. Status(i)' = Status(i) /\ queue'[i].attempts <= queue[i].attempts
    OBVIOUS
  <2>3. CASE Fault
    BY <1>3, <2>1, <2>2, <2>3, Bounds
  <2>4. CASE UNCHANGED <<queue, todo, faults>> /\ waiting = {}
    <3>1. todo[i] = <<>> /\ i \notin waiting
      BY <2>4
    <3> QED
      BY <1>3, <2>1, <2>2, <2>4, <3>1, Bounds
  <2> QED
    BY <2>3, <2>4
<1>8. HoleInv => HoleInv'
  BY RangeOfOne, NothingDone
<1> QED
  BY <1>4, <1>5, <1>6, <1>7, <1>8 DEF TypeInv

LEMMA BatchDoneStep ==
  ASSUME TypeInv, BatchDone
  PROVE  TypeInv' /\ (HoleInv => HoleInv')
<1>1. /\ EndRun /\ UNCHANGED <<age, public, queue, orders, stored, todo, captures, faults>>
      /\ waiting = {} /\ Running = {}
  BY DEF BatchDone, TasksEnded, tables
<1>2. \A i \in Items : todo[i] = <<>>
  BY <1>1 DEF TypeInv, TasksOK, Tasks, Running
<1>3. /\ todo' \in [Items \cup Loops -> Seq(Calls)] /\ \A i \in Items : todo'[i] = <<>>
      /\ \A loop \in Loops : todo'[loop] \in Seq(LoopCalls)
      /\ queue' \in [Items -> QueueRows]
  BY <1>1, <1>2 DEF TypeInv, TypeOK, TasksOK, QueueRows
<1>4. \A i \in Items : Status(i)' = Status(i) /\ queue'[i].attempts <= queue[i].attempts
  <2>1. \A i \in Items : queue[i].attempts \in Nat
    BY DEF TypeInv, TypeOK
  <2> QED
    BY <1>1, <2>1 DEF Status
<1> QED
  BY <1>1, <1>3, <1>4, EndKeeps

LEMMA DeadlineStep ==
  ASSUME TypeInv, Deadline
  PROVE  TypeInv' /\ (HoleInv => HoleInv')
<1>1. /\ EndRun /\ UNCHANGED <<age, public, orders, stored, captures>> /\ Fault
      /\ todo' = NoTasks
      /\ \/ queue' = [i \in Items |->
                        IF i \in pending /\ Status(i) = "open"
                          THEN [queue[i] EXCEPT !.attempts = @ - 1] ELSE queue[i]]
         \/ UNCHANGED queue
  BY DEF Deadline
<1>2. queue \in [Items -> QueueRows] /\ todo \in [Items \cup Loops -> Seq(Calls)]
  BY DEF TypeInv, TypeOK, QueueRows
<1>3. /\ todo' \in [Items \cup Loops -> Seq(Calls)] /\ \A i \in Items : todo'[i] = <<>>
      /\ \A loop \in Loops : todo'[loop] \in Seq(LoopCalls)
  <2>1. <<>> \in Seq(Calls)
    BY RangeOfOne
  <2>2. \A loop \in Loops : todo'[loop] = todo[loop]
    BY <1>1, LoopsAreNoItems DEF NoTasks
  <2> QED
    BY <1>1, <1>2, <2>1, <2>2 DEF NoTasks, TypeInv, TasksOK
<1>4. ASSUME NEW i \in Items
      PROVE  /\ queue'[i] \in QueueRows /\ Status(i)' = Status(i)
             /\ queue'[i].attempts <= queue[i].attempts
  <2>1. queue[i] \in QueueRows /\ queue[i].attempts \in Nat
    BY <1>2 DEF QueueRows
  <2>2. CASE queue'[i] = queue[i]
    BY <2>1, <2>2 DEF Status
  <2>3. CASE i \in pending /\ queue'[i] = [queue[i] EXCEPT !.attempts = @ - 1]
    <3>1. queue[i].attempts >= 1
      BY <2>3 DEF TypeInv, AttemptsOK
    <3>2. /\ [queue[i] EXCEPT !.attempts = @ - 1] \in QueueRows
          /\ [queue[i] EXCEPT !.attempts = @ - 1].status = queue[i].status
          /\ [queue[i] EXCEPT !.attempts = @ - 1].attempts = queue[i].attempts - 1
      BY <2>1, <3>1, QueueRowUpdates, Zenon
    <3>3. /\ queue'[i] \in QueueRows /\ queue'[i].status = queue[i].status
          /\ queue'[i].attempts = queue[i].attempts - 1
      BY <2>3, <3>2, Zenon
    <3>4. queue[i].attempts - 1 <= queue[i].attempts
      BY <2>1
    <3> QED
      BY <3>3, <3>4 DEF Status
  <2> QED
    BY <1>1, <2>2, <2>3
<1>5. queue' \in [Items -> QueueRows]
  <2>1. queue' = [i \in Items |-> queue'[i]]
    BY <1>1, <1>2
  <2> QED
    BY <1>4, <2>1
<1> QED
  BY <1>1, <1>3, <1>4, <1>5, EndKeeps

LEMMA CrashStep ==
  ASSUME TypeInv, Crash
  PROVE  TypeInv' /\ (HoleInv => HoleInv')
<1>1. /\ EndRun /\ UNCHANGED <<age, public, queue, orders, stored, captures>> /\ Fault
      /\ todo' = [a \in Items \cup Loops |-> <<>>]
  BY DEF Crash, tables
<1>2. <<>> \in Seq(Calls) /\ <<>> \in Seq(LoopCalls)
  BY RangeOfOne
<1>3. /\ todo' \in [Items \cup Loops -> Seq(Calls)] /\ \A i \in Items : todo'[i] = <<>>
      /\ \A loop \in Loops : todo'[loop] \in Seq(LoopCalls)
  BY <1>1, <1>2
<1>4. /\ queue' \in [Items -> QueueRows]
      /\ \A i \in Items : Status(i)' = Status(i) /\ queue'[i].attempts <= queue[i].attempts
  <2>1. queue \in [Items -> QueueRows] /\ \A i \in Items : queue[i].attempts \in Nat
    BY DEF TypeInv, TypeOK, QueueRows
  <2> QED
    BY <1>1, <2>1 DEF Status
<1> QED
  BY <1>1, <1>3, <1>4, EndKeeps

(* A step that starts a loop's action. *)
LEMMA LoopStep ==
  ASSUME TypeInv, NEW loop \in Loops, NEW calls \in Seq(LoopCalls), Goto(loop, calls),
         captures' \in Nat, UNCHANGED <<age, public, tables, runVars, faults>>
  PROVE  TypeInv' /\ (HoleInv => HoleInv')
<1>1. /\ calls \in Seq(Calls)
      /\ todo \in [Items \cup Loops -> Seq(Calls)]
  BY FitsTypes, LoopsAreNoItems DEF Fits, TypeInv, TypeOK
<1>2. /\ todo' \in [Items \cup Loops -> Seq(Calls)] /\ todo'[loop] = calls
      /\ \A b \in Items \cup Loops : b # loop => todo'[b] = todo[b]
  BY <1>1 DEF Goto
<1>3. /\ \A i \in Items : todo'[i] = todo[i]
      /\ \A other \in Loops : todo'[other] \in Seq(LoopCalls)
  BY <1>2, LoopsAreNoItems DEF TypeInv, TasksOK
<1>4. Tasks' = Tasks
  BY <1>3 DEF Tasks
<1>5. UNCHANGED <<age, public, queue, orders, stored, worker, pending, waiting, prefetched, faults>>
  BY DEF tables, runVars
<1>6. TypeOK'
  <2>1. Cardinality(Tasks') <= Concurrency
    BY <1>4 DEF TypeInv, TypeOK, Tasks
  <2> QED
    BY <1>2, <1>5, <2>1 DEF TypeInv, TypeOK, Tasks, Status
<1>7. AgesOK' /\ PrefetchOK'
  BY <1>5 DEF TypeInv, AgesOK, PrefetchOK
<1>8. TasksOK' /\ AttemptsOK'
  BY <1>3, <1>4, <1>5 DEF TypeInv, TasksOK, AttemptsOK, Status
<1>9. HoleInv => HoleInv'
  BY <1>3, <1>5, NothingDone DEF Status
<1> QED
  BY <1>6, <1>7, <1>8, <1>9 DEF TypeInv

LEMMA ActiveStep ==
  ASSUME TypeInv, ActiveAction
  PROVE  TypeInv' /\ (HoleInv => HoleInv')
<1>1. PICK uids \in SUBSET Orders : Goto(ActiveLoop, Fetch("active_orders", uids))
  BY DEF ActiveAction
<1>2. Fetch("active_orders", uids) \in Seq(LoopCalls)
  <2>1. "active_orders" \in Endpoints /\ uids \in SUBSET Names
    BY NamesAre DEF Endpoints
  <2> DEFINE c == [op |-> "fetch", endpoint |-> "active_orders", keys |-> uids]
  <2>2. c \in LoopCalls
    BY <2>1 DEF LoopCalls, WorkCalls, WellFormed, Calls
  <2> HIDE DEF c
  <2>3. <<c>> \in Seq(LoopCalls)
    BY <2>2, RangeOfOne
  <2> QED
    BY <2>3 DEF Fetch, c
<1>3. UNCHANGED <<age, public, tables, runVars, faults>> /\ captures' \in Nat
  BY DEF ActiveAction, TypeInv, TypeOK
<1> QED
  BY <1>1, <1>2, <1>3, LoopStep, LoopsAreNoItems

LEMMA CompetitionStep ==
  ASSUME TypeInv, CompetitionAction
  PROVE  TypeInv' /\ (HoleInv => HoleInv')
<1>1. Goto(CaptureLoop, Fetch("competition:latest", {}))
  BY DEF CompetitionAction
<1>2. Fetch("competition:latest", {}) \in Seq(LoopCalls)
  <2>1. "competition:latest" \in Endpoints
    BY DEF Endpoints
  <2> DEFINE c == [op |-> "fetch", endpoint |-> "competition:latest", keys |-> {}]
  <2>2. c \in LoopCalls
    BY <2>1 DEF LoopCalls, WorkCalls, WellFormed, Calls
  <2> HIDE DEF c
  <2>3. <<c>> \in Seq(LoopCalls)
    BY <2>2, RangeOfOne
  <2> QED
    BY <2>3 DEF Fetch, c
<1>3. UNCHANGED <<age, public, tables, runVars, faults>> /\ captures' \in Nat
  BY DEF CompetitionAction, TypeInv, TypeOK
<1> QED
  BY <1>1, <1>2, <1>3, LoopStep, LoopsAreNoItems

LEMMA StatusAdvancesStep ==
  ASSUME TypeInv, NEW o \in Orders, StatusAdvances(o)
  PROVE  TypeInv' /\ (HoleInv => HoleInv')
<1>1. /\ age[o] < Len(Life[o]) /\ age' = [age EXCEPT ![o] = @ + 1]
      /\ UNCHANGED <<public, queue, orders, stored, worker, pending, waiting, prefetched,
                     todo, captures, faults>>
  BY DEF StatusAdvances, tables, runVars
<1>2. age \in [Orders -> Nat] /\ age' \in [Orders -> Nat]
  BY <1>1 DEF TypeInv, TypeOK
<1>3. AgesOK'
  <2> SUFFICES ASSUME NEW p \in Orders, Life[p] # <<>>
               PROVE  age'[p] \in DOMAIN Life[p]
    BY DEF AgesOK
  <2>1. Life[p] \in Seq(Statuses) /\ age[p] \in DOMAIN Life[p]
    BY IngestionParameters DEF TypeInv, AgesOK
  <2>2. DOMAIN Life[p] = 1 .. Len(Life[p]) /\ Len(Life[p]) \in Nat
    BY <2>1, LenProperties
  <2> QED
    BY <1>1, <1>2, <2>1, <2>2
<1>4. TypeOK' /\ TasksOK' /\ AttemptsOK' /\ PrefetchOK'
  BY <1>1, <1>2 DEF TypeInv, TypeOK, TasksOK, Tasks, AttemptsOK, PrefetchOK, Status
<1>5. HoleInv => HoleInv'
  BY <1>1, NothingDone DEF Status
<1> QED
  BY <1>3, <1>4, <1>5 DEF TypeInv

LEMMA NextKeeps ==
  ASSUME TypeInv, [Next]_vars
  PROVE  TypeInv' /\ (HoleInv => HoleInv')
<1>1. CASE \E batch \in Batches : Lease(batch)
  <2>1. PICK batch \in Batches : Lease(batch)
    BY <1>1
  <2>2. batch \in SUBSET Items
    BY <2>1 DEF Lease, OpenItems
  <2> QED
    BY <2>1, <2>2, LeaseStep
<1>2. CASE Prefetch
  BY <1>2, PrefetchStep
<1>3. CASE BatchDone
  BY <1>3, BatchDoneStep
<1>4. CASE \E i \in Items : Begin(i) \/ Call(i)
  BY <1>4, BeginStep, CallStep
<1>5. CASE Deadline
  BY <1>5, DeadlineStep
<1>6. CASE Crash
  BY <1>6, CrashStep
<1>7. CASE ActiveAction
  BY <1>7, ActiveStep
<1>8. CASE CompetitionAction
  BY <1>8, CompetitionStep
<1>9. CASE \E loop \in Loops : Call(loop)
  BY <1>9, CallStep
<1>10. CASE \E o \in Orders : StatusAdvances(o)
  BY <1>10, StatusAdvancesStep
<1>11. CASE UNCHANGED vars
  <2>1. UNCHANGED <<age, public, queue, orders, stored, worker, pending, waiting, prefetched,
                    todo, captures, faults>>
    BY <1>11 DEF vars, tables, runVars
  <2>2. TypeInv'
    BY <2>1 DEF TypeInv, TypeOK, AgesOK, TasksOK, Tasks, AttemptsOK, PrefetchOK, Status
  <2>3. HoleInv => HoleInv'
    BY <2>1, NothingDone DEF Status
  <2> QED
    BY <2>2, <2>3
<1> QED
  BY <1>1, <1>2, <1>3, <1>4, <1>5, <1>6, <1>7, <1>8, <1>9, <1>10, <1>11 DEF Next, WorkerStep

(* Every variable keeps its type: no item has more attempts than the       *)
(* maximum and the faults that kept it from being charged to a dead letter, *)
(* release_work never takes an attempt below zero, what is in a batch is   *)
(* queued, and the semaphore is never exceeded (enrichment.py:40-148).     *)
THEOREM TypeCorrect == Spec => []TypeOK
<1>1. Init => TypeInv
  BY InitEstablishes
<1>2. TypeInv /\ [Next]_vars => TypeInv'
  BY NextKeeps
<1>3. TypeInv => TypeOK
  BY DEF TypeInv
<1> QED
  BY <1>1, <1>2, <1>3, PTL DEF Spec

(* What an item names was stored, and is queued, before the item is done:  *)
(* no handler that was interrupted, retried, cancelled at the deadline or  *)
(* run beside others leaves a hole (enrichment.py:159-193).                *)
THEOREM NothingIsLeftOut == Spec => []DoneLeavesNoHole
<1>1. Init => TypeInv /\ HoleInv
  BY InitEstablishes
<1>2. TypeInv /\ HoleInv /\ [Next]_vars => TypeInv' /\ HoleInv'
  BY NextKeeps
<1>3. HoleInv => DoneLeavesNoHole
  <2> SUFFICES ASSUME HoleInv, NEW i \in Items, Status(i) = "done"
               PROVE  /\ ImpliedRows(i) \subseteq stored
                      /\ \A o \in ImpliedOrders(i) : orders[o] # "none"
                      /\ \A j \in ImpliedItems(i) : Status(j) # "absent"
    BY DEF DoneLeavesNoHole
  <2>1. \A g \in Implied(i) : There(g)
    <3>1. \A g : ~Given(<<>>, g)
      BY RangeOfOne DEF Given
    <3>2. Covered(i, <<>>)
      BY DEF HoleInv
    <3> QED
      BY <3>1, <3>2 DEF Covered
  <2>2. /\ \A r \in ImpliedRows(i) : <<"row", r>> \in Implied(i)
        /\ \A o \in ImpliedOrders(i) : <<"order", o>> \in Implied(i)
        /\ \A j \in ImpliedItems(i) : <<"item", j>> \in Implied(i)
    BY DEF Implied
  <2>3. /\ \A r : There(<<"row", r>>) => r \in stored
        /\ \A o : There(<<"order", o>>) => orders[o] # "none"
        /\ \A j : There(<<"item", j>>) => Status(j) # "absent"
    BY DEF There
  <2> QED
    BY <2>1, <2>2, <2>3
<1> QED
  BY <1>1, <1>2, <1>3, PTL DEF Spec

=============================================================================
