----------------------------- MODULE TokenPrices -----------------------------
(***************************************************************************)
(* What is kept of the tokens: native prices and ERC-20 metadata.  Three   *)
(* parts of `continuous` write them: the price sweep, the handler of the   *)
(* work items of kind "token", and the metadata sweep.                     *)
(*                                                                         *)
(* A token that the endpoint has no price for gets a row in the table of   *)
(* misses.  Of each table the newest row of a token counts: it is fresh    *)
(* until its window has passed.  A call of the store returns, or raises    *)
(* with or without its effect, which ends the sweep or the handler; rows   *)
(* that were acknowledged are flushed before the next sweep begins.        *)
(***************************************************************************)
EXTENDS Integers, FiniteSets, FiniteSetsExt

CONSTANTS
  Tokens,
  Contracts,     \* tokens that answer the getters of an ERC-20
  Early,         \* tokens that orders or trades have at first
  Unpriced,      \* tokens that have no price at first
  KnownLimit,    \* LIMIT of known_tokens
  ThrottleLimit, \* throttled requests in a row that end a price sweep
  MetadataSlots, \* tokens that a metadata sweep asks for
  MaxItems,      \* bound on the token items
  MaxLapses,     \* bound on the rows that leave their window
  MaxFaults      \* bound on exceptions

ASSUME TokenParameters ==
  /\ Contracts \subseteq Tokens
  /\ Early \subseteq Tokens /\ IsFiniteSet(Early) /\ Unpriced \subseteq Tokens
  /\ {KnownLimit, ThrottleLimit, MetadataSlots} \subseteq Nat \ {0}
  /\ {MaxItems, MaxLapses, MaxFaults} \subseteq Nat

VARIABLES
  seen,       \* tokens of orders and trades
  listed,     \* tokens that the endpoint has a price for
  price,      \* native_prices: none, fresh (price_refresh_seconds) or stale
  miss,       \* native_price_misses: none, fresh (price_miss_ttl_seconds) or stale
  metadata,   \* token_metadata: none, partial or whole
  sweep,      \* the price sweep: its next call
  known,      \* its tokens that are still to be asked for
  throttled,  \* its throttled requests in a row
  answer,     \* the answer it has to store, <<token, price or miss>>
  item,       \* the token items: of which token, and what the API answered
  pending,    \* the metadata sweep: tokens still to be asked for
  reading,    \* its next call
  asked,      \* history: rows of a price sweep in their window, <<token, table>>
  items, lapses, faults

sweepVars == <<sweep, known, throttled, answer>>
metadataVars == <<metadata, pending, reading>>
vars == <<seen, listed, price, miss, asked, sweepVars, metadataVars, item,
          items, lapses, faults>>

Ages == {"none", "fresh", "stale"}
Answers == {"price", "miss"}
NoItem == [token |-> "none", answer |-> "none"]

TypeOK ==
  /\ seen \subseteq Tokens /\ listed \subseteq Tokens
  /\ price \in [Tokens -> Ages] /\ miss \in [Tokens -> Ages]
  /\ metadata \in [Tokens -> {"none", "partial", "whole"}]
  /\ sweep \in {"idle", "prices", "misses", "ask", "store"}
  /\ known \subseteq Tokens /\ Cardinality(known) <= KnownLimit
  /\ throttled \in 0 .. ThrottleLimit - 1
  /\ answer \in Tokens \X Answers \cup {<<>>}
  /\ item \in [token : Tokens, answer : Answers \cup {"none"}] \cup {NoItem}
  /\ pending \subseteq Tokens /\ Cardinality(pending) <= MetadataSlots
  /\ reading \in {"idle", "ask"}
  /\ asked \subseteq Tokens \X Answers
  /\ items \in 0 .. MaxItems /\ lapses \in 0 .. MaxLapses /\ faults \in 0 .. MaxFaults

Init ==
  /\ seen = Early /\ listed = Tokens \ Unpriced
  /\ price = [k \in Tokens |-> "none"] /\ miss = [k \in Tokens |-> "none"]
  /\ metadata = [k \in Tokens |-> "none"]
  /\ sweep = "idle" /\ known = {} /\ throttled = 0 /\ answer = <<>>
  /\ item = NoItem
  /\ pending = {} /\ reading = "idle"
  /\ asked = {} /\ items = 0 /\ lapses = 0 /\ faults = 0

-----------------------------------------------------------------------------
(* The world: tokens appear, are listed, and rows grow old. *)

Appear(k) ==
  /\ k \notin seen /\ seen' = seen \cup {k}
  /\ UNCHANGED <<listed, price, miss, asked, sweepVars, metadataVars, item,
                 items, lapses, faults>>

List(k) ==
  /\ k \notin listed /\ listed' = listed \cup {k}
  /\ UNCHANGED <<seen, price, miss, asked, sweepVars, metadataVars, item,
                 items, lapses, faults>>

PriceLapses(k) ==
  /\ price[k] = "fresh" /\ lapses < MaxLapses
  /\ price' = [price EXCEPT ![k] = "stale"]
  /\ asked' = asked \ {<<k, "price">>} /\ lapses' = lapses + 1
  /\ UNCHANGED <<seen, listed, miss, sweepVars, metadataVars, item, items, faults>>

(* The bound is not for the miss of a token that has a price by now. *)
MissLapses(k) ==
  /\ miss[k] = "fresh"
  /\ \/ k \in listed /\ UNCHANGED lapses
     \/ lapses < MaxLapses /\ lapses' = lapses + 1
  /\ miss' = [miss EXCEPT ![k] = "stale"]
  /\ asked' = asked \ {<<k, "miss">>}
  /\ UNCHANGED <<seen, listed, price, sweepVars, metadataVars, item, items, faults>>

-----------------------------------------------------------------------------
(* Queries and answers. *)

Smaller(m, n) == IF m < n THEN m ELSE n

Fault == faults < MaxFaults /\ faults' = faults + 1

(* known_tokens: no ORDER BY, so any of them; a set whose members are taken *)
(* in any order.                                                           *)
KnownTokens == kSubset(Smaller(KnownLimit, Cardinality(seen)), seen)

FreshPrices == {k \in Tokens : price[k] = "fresh"}

(* A mutated cache: what once had no price is never asked for again. *)
EveryMiss == {k \in Tokens : miss[k] # "none"}

(* A mutated sweep: the misses are not read. *)
NoMisses == {}

RecentMisses == {k \in Tokens : miss[k] = "fresh"}

AnswerFor(k) == IF k \in listed THEN "price" ELSE "miss"

StorePrice(k) == price' = [price EXCEPT ![k] = "fresh"] /\ UNCHANGED miss

StoreMiss(k) == miss' = [miss EXCEPT ![k] = "fresh"] /\ UNCHANGED price

StoreAnswer(k, what) ==
  \/ what = "price" /\ StorePrice(k)
  \/ what = "miss" /\ StoreMiss(k)

-----------------------------------------------------------------------------
(* token_price_action. *)

(* A mutated block: one throttled request more is let pass. *)
ThrottlesLater(n) == n <= ThrottleLimit

Throttles(n) == n < ThrottleLimit

Leave == sweep' = "idle" /\ known' = {} /\ throttled' = 0 /\ answer' = <<>>

Aborts == Leave /\ Fault

SweepKnown ==
  /\ sweep = "idle"
  /\ known' \in KnownTokens /\ sweep' = "prices"
  /\ UNCHANGED <<throttled, answer, price, miss, asked, faults>>

SweepFreshPrices ==
  /\ sweep = "prices"
  /\ \/ /\ known' = known \ FreshPrices /\ sweep' = "misses"
        /\ UNCHANGED <<throttled, answer, faults>>
     \/ Aborts
  /\ UNCHANGED <<price, miss, asked>>

SweepRecentMisses ==
  /\ sweep = "misses"
  /\ \/ /\ known' = known \ RecentMisses /\ sweep' = "ask"
        /\ UNCHANGED <<throttled, answer, faults>>
     \/ Aborts
  /\ UNCHANGED <<price, miss, asked>>

SweepEnds ==
  /\ sweep = "ask" /\ known = {}
  /\ Leave
  /\ UNCHANGED <<price, miss, asked, faults>>

(* native_price answers ... *)
SweepAnswered(k) ==
  /\ sweep = "ask" /\ k \in known
  /\ answer' = <<k, AnswerFor(k)>>
  /\ known' = known \ {k} /\ throttled' = 0 /\ sweep' = "store"
  /\ UNCHANGED <<price, miss, asked, faults>>

(* ... or raises: a CowApiError passes the token over, and counts when it  *)
(* is a 403 or 429; any other exception ends the sweep.                    *)
SweepRefused(k) ==
  /\ sweep = "ask" /\ k \in known
  /\ \/ /\ Throttles(throttled + 1)
        /\ throttled' = throttled + 1 /\ known' = known \ {k}
        /\ UNCHANGED <<sweep, answer, faults>>
     \/ ~Throttles(throttled + 1) /\ Leave /\ UNCHANGED faults
     \/ known' = known \ {k} /\ UNCHANGED <<sweep, throttled, answer, faults>>
     \/ Aborts
  /\ UNCHANGED <<price, miss, asked>>

SweepStore ==
  /\ sweep = "store"
  /\ \/ /\ StoreAnswer(answer[1], answer[2])
        /\ asked' = asked \cup {answer}
        /\ \/ sweep' = "ask" /\ answer' = <<>> /\ UNCHANGED <<known, throttled, faults>>
           \/ Aborts
     \/ Aborts /\ UNCHANGED <<price, miss, asked>>

PriceSweep ==
  /\ \/ SweepKnown \/ SweepFreshPrices \/ SweepRecentMisses \/ SweepEnds
     \/ \E k \in Tokens : SweepAnswered(k) \/ SweepRefused(k)
     \/ SweepStore
  /\ UNCHANGED <<seen, listed, metadataVars, item, items, lapses>>

-----------------------------------------------------------------------------
(* The handler of a token item: the same question, whatever is fresh. *)

ItemAsk(k) ==
  /\ item = NoItem /\ k \in seen /\ items < MaxItems
  /\ items' = items + 1
  /\ item' = [token |-> k, answer |-> AnswerFor(k)]
  /\ UNCHANGED <<price, miss, asked, faults>>

ItemStore ==
  /\ item # NoItem
  /\ item' = NoItem
  /\ \/ StoreAnswer(item.token, item.answer) /\ (UNCHANGED faults \/ Fault)
     \/ UNCHANGED <<price, miss>> /\ Fault
  /\ UNCHANGED <<asked, items>>

TokenItem ==
  /\ (\E k \in Tokens : ItemAsk(k)) \/ ItemStore
  /\ UNCHANGED <<seen, listed, sweepVars, metadataVars, lapses>>

-----------------------------------------------------------------------------
(* token_metadata_action. *)

(* A mutated selection: the tokens that have metadata are not left out. *)
AskAgain(tokens) == tokens

WithoutMetadata(tokens) == {k \in tokens : metadata[k] = "none"}

(* tokens_with_metadata, then known_tokens. *)
MetadataSelect ==
  /\ reading = "idle"
  /\ \E tokens \in KnownTokens :
       LET without == WithoutMetadata(tokens)
       IN pending' \in kSubset(Smaller(MetadataSlots, Cardinality(without)), without)
  /\ reading' = IF pending' = {} THEN "idle" ELSE "ask"
  /\ UNCHANGED <<metadata, faults>>

StoreMetadata(k, what) == metadata' = [metadata EXCEPT ![k] = what]

(* fetch_token_metadata and store_token_metadata.  A getter that raises an *)
(* RpcError counts as not answered: if all do the token is passed over, if *)
(* some do what is stored is partial, for good.  Another exception ends    *)
(* the sweep, with or without the row.                                     *)
MetadataAsk ==
  /\ reading = "ask"
  /\ \E k \in pending :
       \/ /\ IF k \in Contracts THEN StoreMetadata(k, "whole") ELSE UNCHANGED metadata
          /\ pending' = pending \ {k} /\ UNCHANGED faults
       \/ /\ UNCHANGED metadata \/ (k \in Contracts /\ StoreMetadata(k, "partial"))
          /\ pending' = pending \ {k} /\ Fault
       \/ /\ UNCHANGED metadata \/ (k \in Contracts /\ StoreMetadata(k, "whole"))
          /\ pending' = {} /\ Fault
  /\ reading' = IF pending' = {} THEN "idle" ELSE "ask"

MetadataSweep ==
  /\ MetadataSelect \/ MetadataAsk
  /\ UNCHANGED <<seen, listed, price, miss, asked, sweepVars, item, items, lapses>>

-----------------------------------------------------------------------------

Next ==
  \/ PriceSweep \/ TokenItem \/ MetadataSweep
  \/ \E k \in Tokens : Appear(k) \/ List(k) \/ PriceLapses(k) \/ MissLapses(k)

(* The loops run for ever.  A token that is asked for again and again is   *)
(* answered some day, and the miss of a token that has a price lapses.     *)
Fairness ==
  /\ WF_vars(PriceSweep) /\ WF_vars(MetadataSweep) /\ WF_vars(ItemStore /\ TokenItem)
  /\ \A k \in Tokens : SF_vars(SweepAnswered(k) /\ PriceSweep)
  /\ \A k \in Unpriced : WF_vars(k \in listed /\ MissLapses(k))

Spec == Init /\ [][Next]_vars /\ Fairness

-----------------------------------------------------------------------------
(* Properties. *)

(* A sweep does not ask for a token again while an answer that a sweep     *)
(* stored for it is in its window: not after a sweep that was blocked,     *)
(* that an exception ended, or that raised although the row was written    *)
(* (config.py:204, continuous.py:166-180).                                 *)
AskedOncePerWindow ==
  [][\A k \in Tokens :
       SweepAnswered(k) => {<<k, "price">>, <<k, "miss">>} \cap asked = {}]_vars

(* Every known token that has a price has a fresh one in the end, although *)
(* it was taken for unpriced once, and a late answer of a token item may   *)
(* say so after a sweep has stored the price (config.py:211-214).          *)
PricesConverge == <>[](\A k \in seen \cap listed : price[k] = "fresh")

(* Every known contract gets its metadata, as long as the tokens without   *)
(* an answer, which every sweep selects again, leave it a slot and the     *)
(* query's limit leaves none out (continuous.py:141-153).                  *)
MetadataConverges ==
  /\ Cardinality(Tokens \ Contracts) < MetadataSlots
  /\ Cardinality(Tokens) <= KnownLimit
  => <>[](\A k \in seen \cap Contracts : metadata[k] # "none")

=============================================================================
