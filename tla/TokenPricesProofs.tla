-------------------------- MODULE TokenPricesProofs --------------------------
(***************************************************************************)
(* Theorems about TokenPrices for every set of tokens and every limit.     *)
(* The fairness of Spec is not used.                                       *)
(***************************************************************************)
EXTENDS TokenPrices, FiniteSetTheorems, TLAPS

-----------------------------------------------------------------------------
(* The LIMITs: a query returns at most that many tokens, and a sweep only  *)
(* drops tokens from what it has selected.                                 *)

LEMMA LimitedSelection ==
  ASSUME NEW S, IsFiniteSet(S), NEW n \in Nat,
         NEW P \in kSubset(Smaller(n, Cardinality(S)), S)
  PROVE  P \in SUBSET S /\ IsFiniteSet(P) /\ Cardinality(P) <= n
<1>1. P \in SUBSET S /\ Cardinality(P) = Smaller(n, Cardinality(S))
  BY DEF kSubset
<1>2. IsFiniteSet(P) /\ Cardinality(S) \in Nat
  BY <1>1, FS_Subset, FS_CardinalityType
<1> QED
  BY <1>1, <1>2 DEF Smaller

LEMMA FewerTokens ==
  ASSUME NEW S, IsFiniteSet(S), NEW n \in Nat, Cardinality(S) <= n,
         NEW P \in SUBSET S
  PROVE  Cardinality(P) <= n
<1>1. IsFiniteSet(P) /\ Cardinality(P) <= Cardinality(S)
  BY FS_Subset
<1>2. Cardinality(P) \in Nat /\ Cardinality(S) \in Nat
  BY <1>1, FS_CardinalityType
<1> QED
  BY <1>1, <1>2

LEMMA LimitTypes ==
  /\ KnownLimit \in Nat \ {0} /\ ThrottleLimit \in Nat \ {0}
  /\ MetadataSlots \in Nat \ {0}
  /\ MaxItems \in Nat /\ MaxLapses \in Nat /\ MaxFaults \in Nat
BY TokenParameters

-----------------------------------------------------------------------------
(* The type invariant: the two selections are of tokens that were seen,    *)
(* which are finitely many however many Tokens there are.                  *)
TypeInv ==
  /\ TypeOK
  /\ IsFiniteSet(seen) /\ known \subseteq seen /\ pending \subseteq seen
  /\ sweep = "store" => answer \in Tokens \X Answers

LEMMA TypeInit == Init => TypeInv
<1> SUFFICES ASSUME Init PROVE TypeInv
  OBVIOUS
<1>1. IsFiniteSet({}) /\ Cardinality({}) = 0
  BY FS_EmptySet
<1>2. IsFiniteSet(Early) /\ Early \subseteq Tokens
  BY TokenParameters
<1> QED
  BY <1>1, <1>2, LimitTypes DEF Init, TypeInv, TypeOK, Ages

LEMMA KnownTypes ==
  ASSUME TypeInv, NEW P \in KnownTokens
  PROVE  P \in SUBSET seen /\ IsFiniteSet(P) /\ Cardinality(P) <= KnownLimit
BY LimitTypes, LimitedSelection DEF TypeInv, KnownTokens

LEMMA WorldTypes ==
  ASSUME TypeInv, NEW k \in Tokens,
         Appear(k) \/ List(k) \/ PriceLapses(k) \/ MissLapses(k)
  PROVE  TypeInv'
<1> USE DEF TypeInv, TypeOK, sweepVars, metadataVars
<1>1. CASE Appear(k)
  <2>1. IsFiniteSet(seen')
    BY <1>1, FS_AddElement DEF Appear
  <2> QED
    BY <1>1, <2>1 DEF Appear
<1>2. CASE List(k)
  BY <1>2 DEF List
<1>3. CASE PriceLapses(k)
  <2>1. price' \in [Tokens -> Ages] /\ lapses' \in 0 .. MaxLapses
    BY <1>3, LimitTypes DEF PriceLapses, Ages
  <2> QED
    BY <1>3, <2>1 DEF PriceLapses
<1>4. CASE MissLapses(k)
  <2>1. miss' \in [Tokens -> Ages] /\ lapses' \in 0 .. MaxLapses
    BY <1>4, LimitTypes DEF MissLapses, Ages
  <2> QED
    BY <1>4, <2>1 DEF MissLapses
<1> QED
  BY <1>1, <1>2, <1>3, <1>4

LEMMA FaultTypes ==
  ASSUME TypeInv, Fault \/ UNCHANGED faults
  PROVE  faults' \in 0 .. MaxFaults
BY LimitTypes DEF TypeInv, TypeOK, Fault

LEMMA StoreTypes ==
  ASSUME TypeInv, NEW k \in Tokens, NEW what, StoreAnswer(k, what)
  PROVE  price' \in [Tokens -> Ages] /\ miss' \in [Tokens -> Ages]
BY DEF TypeInv, TypeOK, StoreAnswer, StorePrice, StoreMiss, Ages

(* A sweep drops tokens, or starts over with none. *)
LEMMA SweepTypes ==
  ASSUME TypeInv, PriceSweep
  PROVE  TypeInv'
<1> USE DEF TypeInv, TypeOK
<1>1. UNCHANGED <<seen, listed, metadata, pending, reading, item, items, lapses>>
  BY DEF PriceSweep, metadataVars
<1>2. Cardinality({}) = 0 /\ 0 <= KnownLimit /\ 0 \in 0 .. ThrottleLimit - 1
  BY FS_EmptySet, LimitTypes
<1>3. IsFiniteSet(known)
  BY FS_Subset
<1>4. \A P \in SUBSET known : Cardinality(P) <= KnownLimit
  BY <1>3, FewerTokens, LimitTypes
<1> DEFINE SweepOK ==
             /\ sweep' \in {"idle", "prices", "misses", "ask", "store"}
             /\ known' \subseteq seen /\ Cardinality(known') <= KnownLimit
             /\ throttled' \in 0 .. ThrottleLimit - 1
             /\ answer' \in Tokens \X Answers \cup {<<>>}
             /\ sweep' = "store" => answer' \in Tokens \X Answers
             /\ Fault \/ UNCHANGED faults
<1>5. Leave /\ (Fault \/ UNCHANGED faults) => SweepOK
  BY <1>2 DEF Leave
<1>6. Aborts => SweepOK
  BY <1>5 DEF Aborts
<1> DEFINE TablesOK ==
             /\ price' \in [Tokens -> Ages] /\ miss' \in [Tokens -> Ages]
             /\ asked' \subseteq Tokens \X Answers
<1>7. UNCHANGED <<price, miss, asked>> => TablesOK
  OBVIOUS
<1>8. CASE SweepKnown
  <2>1. SweepOK
    BY <1>8, KnownTypes DEF SweepKnown
  <2> QED
    BY <1>1, <1>7, <1>8, <2>1, FaultTypes DEF SweepKnown
<1>9. CASE SweepFreshPrices \/ SweepRecentMisses
  <2>1. CASE Aborts
    BY <1>1, <1>6, <1>7, <1>9, <2>1, FaultTypes DEF SweepFreshPrices, SweepRecentMisses
  <2>2. CASE ~Aborts
    <3>1. /\ known' \in SUBSET known /\ sweep' \in {"misses", "ask"}
          /\ UNCHANGED <<throttled, answer, faults>>
      BY <1>9, <2>2 DEF SweepFreshPrices, SweepRecentMisses
    <3>2. SweepOK
      BY <1>4, <3>1
    <3> QED
      BY <1>1, <1>7, <1>9, <3>2, FaultTypes DEF SweepFreshPrices, SweepRecentMisses
  <2> QED
    BY <2>1, <2>2
<1>10. CASE SweepEnds
  BY <1>1, <1>5, <1>7, <1>10, FaultTypes DEF SweepEnds
<1>11. ASSUME NEW k \in Tokens, SweepAnswered(k)
       PROVE  TypeInv'
  <2>1. AnswerFor(k) \in Answers
    BY DEF AnswerFor, Answers
  <2>2. known' \in SUBSET known
    BY <1>11 DEF SweepAnswered
  <2>3. SweepOK
    BY <1>2, <1>4, <1>11, <2>1, <2>2 DEF SweepAnswered
  <2> QED
    BY <1>1, <1>7, <1>11, <2>3, FaultTypes DEF SweepAnswered
<1>12. ASSUME NEW k \in Tokens, SweepRefused(k)
       PROVE  TypeInv'
  <2>1. CASE Leave /\ (Fault \/ UNCHANGED faults)
    BY <1>1, <1>5, <1>7, <1>12, <2>1, FaultTypes DEF SweepRefused
  <2>2. CASE ~(Leave /\ (Fault \/ UNCHANGED faults))
    <3>1. /\ known' \in SUBSET known /\ UNCHANGED <<sweep, answer, faults>>
          /\ \/ UNCHANGED throttled
             \/ throttled' = throttled + 1 /\ throttled + 1 < ThrottleLimit
      BY <1>12, <2>2 DEF SweepRefused, Throttles, Aborts
    <3>2. throttled' \in 0 .. ThrottleLimit - 1
      BY <3>1, LimitTypes
    <3>3. SweepOK
      BY <1>4, <3>1, <3>2
    <3> QED
      BY <1>1, <1>7, <1>12, <3>3, FaultTypes DEF SweepRefused
  <2> QED
    BY <2>1, <2>2
<1>13. CASE SweepStore
  <2>1. answer \in Tokens \X Answers /\ answer[1] \in Tokens
    BY <1>13 DEF SweepStore
  <2>2. TablesOK
    <3>1. CASE StoreAnswer(answer[1], answer[2]) /\ asked' = asked \cup {answer}
      BY <2>1, <3>1, StoreTypes
    <3> QED
      BY <1>7, <1>13, <3>1 DEF SweepStore
  <2>3. SweepOK
    <3>1. \/ sweep' = "ask" /\ answer' = <<>> /\ UNCHANGED <<known, throttled, faults>>
          \/ Aborts
      BY <1>13 DEF SweepStore
    <3> QED
      BY <1>6, <3>1
  <2> QED
    BY <1>1, <2>2, <2>3, FaultTypes
<1> QED
  BY <1>8, <1>9, <1>10, <1>11, <1>12, <1>13 DEF PriceSweep

LEMMA ItemTypes ==
  ASSUME TypeInv, TokenItem
  PROVE  TypeInv'
<1> USE DEF TypeInv, TypeOK, sweepVars, metadataVars
<1>1. ASSUME NEW k \in Tokens, ItemAsk(k)
      PROVE  TypeInv'
  <2>1. item' \in [token : Tokens, answer : Answers \cup {"none"}]
    BY <1>1 DEF ItemAsk, AnswerFor, Answers
  <2>2. items' \in 0 .. MaxItems
    BY <1>1, LimitTypes DEF ItemAsk
  <2> QED
    BY <1>1, <2>1, <2>2 DEF ItemAsk, TokenItem
<1>2. CASE ItemStore
  <2>1. item.token \in Tokens
    BY <1>2 DEF ItemStore
  <2>2. price' \in [Tokens -> Ages] /\ miss' \in [Tokens -> Ages]
    <3>1. CASE StoreAnswer(item.token, item.answer)
      BY <2>1, <3>1, StoreTypes
    <3> QED
      BY <1>2, <3>1 DEF ItemStore
  <2>3. faults' \in 0 .. MaxFaults
    BY <1>2, FaultTypes DEF ItemStore
  <2> QED
    BY <1>2, <2>2, <2>3 DEF ItemStore, TokenItem
<1> QED
  BY <1>1, <1>2 DEF TokenItem

LEMMA MetadataTypes ==
  ASSUME TypeInv, MetadataSweep
  PROVE  TypeInv'
<1> USE DEF TypeInv, TypeOK, sweepVars
<1>1. UNCHANGED <<seen, listed, price, miss, asked, sweepVars, item, items, lapses>>
  BY DEF MetadataSweep
<1>2. CASE MetadataSelect
  <2>1. PICK tokens \in KnownTokens :
          pending' \in kSubset(Smaller(MetadataSlots, Cardinality(WithoutMetadata(tokens))),
                               WithoutMetadata(tokens))
    BY <1>2 DEF MetadataSelect
  <2>2. tokens \in SUBSET seen /\ IsFiniteSet(tokens)
    BY KnownTypes
  <2>3. WithoutMetadata(tokens) \in SUBSET tokens
    BY DEF WithoutMetadata
  <2>4. IsFiniteSet(WithoutMetadata(tokens))
    BY <2>2, <2>3, FS_Subset
  <2>5. pending' \in SUBSET WithoutMetadata(tokens) /\ Cardinality(pending') <= MetadataSlots
    BY <2>1, <2>4, LimitedSelection, LimitTypes
  <2>6. reading' \in {"idle", "ask"} /\ UNCHANGED <<metadata, faults>>
    BY <1>2 DEF MetadataSelect
  <2> QED
    BY <1>1, <2>2, <2>3, <2>5, <2>6
<1>3. CASE MetadataAsk
  <2>1. pending' \in SUBSET pending /\ reading' \in {"idle", "ask"}
    BY <1>3 DEF MetadataAsk
  <2>2. metadata' \in [Tokens -> {"none", "partial", "whole"}]
    BY <1>3 DEF MetadataAsk, StoreMetadata
  <2>3. faults' \in 0 .. MaxFaults
    BY <1>3, FaultTypes DEF MetadataAsk
  <2>4. IsFiniteSet(pending)
    BY FS_Subset
  <2>5. Cardinality(pending') <= MetadataSlots
    BY <2>1, <2>4, FewerTokens, LimitTypes
  <2> QED
    BY <1>1, <2>1, <2>2, <2>3, <2>5
<1> QED
  BY <1>2, <1>3 DEF MetadataSweep

LEMMA TypeStep == TypeInv /\ [Next]_vars => TypeInv'
<1> SUFFICES ASSUME TypeInv, [Next]_vars PROVE TypeInv'
  OBVIOUS
<1>1. CASE UNCHANGED vars
  BY <1>1 DEF vars, sweepVars, metadataVars, TypeInv, TypeOK
<1> QED
  BY <1>1, WorldTypes, SweepTypes, ItemTypes, MetadataTypes DEF Next

LEMMA TypeInvariant == Spec => []TypeInv
BY TypeInit, TypeStep, PTL DEF Spec

(* The state always has its type: a sweep has never more tokens under way  *)
(* than the LIMIT of known_tokens and the slots of a metadata sweep, and   *)
(* never more throttled requests behind it than the threshold that ends it *)
(* (token_price_action, token_metadata_action).                            *)
THEOREM TypeCorrect == Spec => []TypeOK
<1>1. TypeInv => TypeOK
  BY DEF TypeInv
<1> QED
  BY TypeInvariant, <1>1, PTL

-----------------------------------------------------------------------------
(* A sweep does not repeat a question.                                     *)

(* An answer that is remembered is fresh in its table; once a sweep has    *)
(* read a table none of its tokens has a remembered answer there, and a    *)
(* token whose answer is to be stored has left the sweep.                  *)
AskedInv ==
  /\ \A k \in Tokens :
       /\ <<k, "price">> \in asked => price[k] = "fresh"
       /\ <<k, "miss">> \in asked => miss[k] = "fresh"
  /\ sweep = "misses" => \A k \in known : <<k, "price">> \notin asked
  /\ sweep \in {"ask", "store"} =>
       \A k \in known : <<k, "price">> \notin asked /\ <<k, "miss">> \notin asked
  /\ sweep = "store" => answer[1] \notin known

LEMMA AskedInit == Init => AskedInv
BY DEF Init, AskedInv

(* No row of the window is lost by an answer. *)
LEMMA StoreKeepsFresh ==
  ASSUME TypeInv, NEW k \in Tokens, NEW what, StoreAnswer(k, what),
         NEW j \in Tokens
  PROVE  /\ price[j] = "fresh" => price'[j] = "fresh"
         /\ miss[j] = "fresh" => miss'[j] = "fresh"
         /\ j = k /\ what = "price" => price'[j] = "fresh"
         /\ j = k /\ what = "miss" => miss'[j] = "fresh"
BY DEF TypeInv, TypeOK, StoreAnswer, StorePrice, StoreMiss

LEMMA SweepAsked ==
  ASSUME TypeInv, AskedInv, PriceSweep
  PROVE  AskedInv'
<1> USE DEF AskedInv
<1>0. known \in SUBSET Tokens
  BY DEF TypeInv, TypeOK
<1>1. CASE Leave /\ UNCHANGED <<price, miss, asked>>
  BY <1>1 DEF Leave
<1>2. CASE SweepKnown
  BY <1>2 DEF SweepKnown
<1>3. CASE SweepFreshPrices
  <2>1. CASE known' = known \ FreshPrices /\ sweep' = "misses"
    <3>1. \A k \in known' : k \in Tokens /\ price[k] # "fresh"
      BY <1>0, <2>1 DEF FreshPrices
    <3> QED
      BY <1>3, <2>1, <3>1 DEF SweepFreshPrices
  <2> QED
    BY <1>1, <1>3, <2>1 DEF SweepFreshPrices, Aborts
<1>4. CASE SweepRecentMisses
  <2>1. CASE known' = known \ RecentMisses /\ sweep' = "ask"
    <3>1. \A k \in known' : k \in Tokens /\ k \in known /\ miss[k] # "fresh"
      BY <1>0, <2>1 DEF RecentMisses
    <3> QED
      BY <1>4, <2>1, <3>1 DEF SweepRecentMisses
  <2> QED
    BY <1>1, <1>4, <2>1 DEF SweepRecentMisses, Aborts
<1>5. CASE SweepEnds
  BY <1>1, <1>5 DEF SweepEnds
<1>6. ASSUME NEW k \in Tokens, SweepAnswered(k)
      PROVE  AskedInv'
  BY <1>6 DEF SweepAnswered
<1>7. ASSUME NEW k \in Tokens, SweepRefused(k)
      PROVE  AskedInv'
  <2>1. CASE Leave
    BY <1>1, <1>7, <2>1 DEF SweepRefused
  <2>2. CASE known' = known \ {k} /\ sweep' = sweep
    BY <1>7, <2>2 DEF SweepRefused
  <2> QED
    BY <1>7, <2>1, <2>2 DEF SweepRefused, Aborts
<1>8. CASE SweepStore
  <2>1. answer \in Tokens \X Answers /\ answer[1] \notin known
    BY <1>8 DEF SweepStore, TypeInv
  <2>2. PICK k \in Tokens, what \in Answers : answer = <<k, what>>
    BY <2>1
  <2>3. CASE StoreAnswer(k, what) /\ asked' = asked \cup {<<k, what>>}
    <3>1. ASSUME NEW j \in Tokens
          PROVE  /\ <<j, "price">> \in asked' => price'[j] = "fresh"
                 /\ <<j, "miss">> \in asked' => miss'[j] = "fresh"
      BY <2>3, StoreKeepsFresh
    <3>2. CASE Aborts
      BY <3>1, <3>2 DEF Aborts, Leave
    <3>3. CASE sweep' = "ask" /\ known' = known
      <4>1. sweep = "store"
        BY <1>8 DEF SweepStore
      <4>2. k \notin known
        BY <2>1, <2>2
      <4> QED
        BY <2>3, <3>1, <3>3, <4>1, <4>2
    <3> QED
      BY <1>8, <3>2, <3>3 DEF SweepStore
  <2> QED
    BY <1>1, <1>8, <2>2, <2>3 DEF SweepStore, Aborts
<1> QED
  BY <1>2, <1>3, <1>4, <1>5, <1>6, <1>7, <1>8 DEF PriceSweep

LEMMA AskedStep == TypeInv /\ AskedInv /\ [Next]_vars => AskedInv'
<1> SUFFICES ASSUME TypeInv, AskedInv, [Next]_vars PROVE AskedInv'
  OBVIOUS
<1>0. known \in SUBSET Tokens /\ price \in [Tokens -> Ages] /\ miss \in [Tokens -> Ages]
  BY DEF TypeInv, TypeOK
<1>1. CASE PriceSweep
  BY <1>1, SweepAsked
<1>2. CASE TokenItem
  <2>1. UNCHANGED <<asked, sweep, known, answer>>
    BY <1>2 DEF TokenItem, sweepVars, ItemAsk, ItemStore
  <2>2. ASSUME NEW j \in Tokens
        PROVE  /\ price[j] = "fresh" => price'[j] = "fresh"
               /\ miss[j] = "fresh" => miss'[j] = "fresh"
    <3>1. CASE ItemStore
      <4>1. item.token \in Tokens
        BY <3>1 DEF ItemStore, TypeInv, TypeOK
      <4> QED
        BY <3>1, <4>1, StoreKeepsFresh DEF ItemStore
    <3> QED
      BY <1>2, <3>1 DEF TokenItem, ItemAsk
  <2> QED
    BY <2>1, <2>2 DEF AskedInv
<1>3. CASE MetadataSweep
  BY <1>3 DEF MetadataSweep, sweepVars, AskedInv
<1>4. ASSUME NEW k \in Tokens, Appear(k) \/ List(k)
      PROVE  AskedInv'
  BY <1>4 DEF Appear, List, sweepVars, AskedInv
<1>5. ASSUME NEW k \in Tokens, PriceLapses(k)
      PROVE  AskedInv'
  <2>1. \A j \in Tokens : j # k => price'[j] = price[j]
    BY <1>0, <1>5 DEF PriceLapses
  <2>2. asked' = asked \ {<<k, "price">>} /\ UNCHANGED <<miss, sweep, known, answer>>
    BY <1>5 DEF PriceLapses, sweepVars
  <2> QED
    BY <2>1, <2>2 DEF AskedInv
<1>6. ASSUME NEW k \in Tokens, MissLapses(k)
      PROVE  AskedInv'
  <2>1. \A j \in Tokens : j # k => miss'[j] = miss[j]
    BY <1>0, <1>6 DEF MissLapses
  <2>2. asked' = asked \ {<<k, "miss">>} /\ UNCHANGED <<price, sweep, known, answer>>
    BY <1>6 DEF MissLapses, sweepVars
  <2> QED
    BY <2>1, <2>2 DEF AskedInv
<1>7. CASE UNCHANGED vars
  BY <1>7 DEF vars, sweepVars, AskedInv
<1> QED
  BY <1>1, <1>2, <1>3, <1>4, <1>5, <1>6, <1>7 DEF Next

(* The endpoint is not asked again for what it has answered as long as the *)
(* row of the answer is in its window, in whatever order prices and misses *)
(* lapse, token items store answers of their own, and sweeps end by an     *)
(* exception, by a block, or with an answer that was written and raised    *)
(* (token_price_action reads both tables before it asks).                  *)
THEOREM AskedOnce == Spec => AskedOncePerWindow
<1>1. TypeInv /\ AskedInv /\ [Next]_vars =>
        [\A k \in Tokens :
           SweepAnswered(k) => {<<k, "price">>, <<k, "miss">>} \cap asked = {}]_vars
  BY DEF AskedInv, SweepAnswered
<1> QED
  BY TypeInvariant, AskedInit, AskedStep, <1>1, PTL DEF Spec, AskedOncePerWindow

=============================================================================
