---------------------------- MODULE PropertySearch ----------------------------
(***************************************************************************)
(* PropertySearchService (src/properties): what fits a lead's filters, how *)
(* they are relaxed one after the other, what is shown first, and what is  *)
(* known of the stock of a zone.                                           *)
(*                                                                         *)
(* Operators over `stock', the properties that are ACTIVE when the queries *)
(* run: a function from ids to their columns.  Ids are numbers, and their  *)
(* order stands for the database's own.  A filter that is not set is 0,    *)
(* "none" or {}: prices and rooms are positive.                            *)
(***************************************************************************)
EXTENDS Integers, Sequences, FiniteSets, SequencesExt

CONSTANTS
    Zones,
    Adjacent,       \* Adjacent[z]: the neighbouring zones of z, in order
    UsdRate,        \* USD_ARS_RATE
    CandidateLimit  \* CANDIDATE_LIMIT: rows a sort in memory starts from

ASSUME SearchAssumption ==
    /\ Adjacent \in [Zones -> Seq(Zones)]
    /\ UsdRate \in Nat \ {0}
    /\ CandidateLimit \in Nat

NoLabel == "none"
RESULT_LIMIT == 3
PRICE_TOLERANCE == 110            \* per cent
PRICE_RELAX_CAP == 125
PRICE_RELAX_CAP_FLEXIBLE == 150
AnyPrice == 0                     \* no limit to the price

-----------------------------------------------------------------------------
(* One query.                                                              *)

\* Mutant: a dollar counts as a peso.
BarePrice(row) == row.price

\* Stock in both currencies is compared in pesos.
toComparableArs(row) == IF row.currency = "USD" THEN row.price * UsdRate ELSE row.price

CurrencyPinned(f) == f.maxPrice # 0 /\ f.currency # "none"

FitsZone(row, zones) == zones = {} \/ row.zone \in zones

\* What is never relaxed.  (petsAllowed is a second garage.)
FitsHard(row, f) ==
    /\ row.operation = f.operation
    /\ FitsZone(row, f.zones)
    /\ CurrencyPinned(f) => row.currency = f.currency
    /\ f.garage => row.garage

\* One room means exactly one, more are a floor.
FitsRooms(row, n) == n = 0 \/ (IF n = 1 THEN row.rooms = 1 ELSE row.rooms >= n)

Within(row, f, factor) ==
    f.maxPrice = 0 \/ factor = AnyPrice \/ row.price * 100 <= f.maxPrice * factor

Hits(stock, f, attempt) ==
    {p \in DOMAIN stock: /\ FitsHard(stock[p], f)
                         /\ Within(stock[p], f, attempt.factor)
                         /\ attempt.rooms => FitsRooms(stock[p], f.minRooms)}

\* Rooms were asked for and this attempt gives them up: the closest go first.
ByProximity(f, attempt) == ~attempt.rooms /\ f.minRooms # 0

Distance(row, n) == IF row.rooms >= n THEN row.rooms - n ELSE n - row.rooms

SortKey(row, f, attempt) ==
    << IF ByProximity(f, attempt) THEN Distance(row, f.minRooms) ELSE 0,
       IF CurrencyPinned(f) THEN row.price ELSE toComparableArs(row) >>

Precedes(k, l) == k[1] < l[1] \/ (k[1] = l[1] /\ k[2] < l[2])

FirstOf(s, n) == SubSeq(s, 1, IF Len(s) < n THEN Len(s) ELSE n)

\* ids by their keys, those with equal keys by id: the k-th has k - 1 before it.
InOrder(ids, key) ==
    LET upTo(p) == {q \in ids: q = p \/ Precedes(key[q], key[p]) \/ (key[q] = key[p] /\ q < p)}
    IN [k \in 1 .. Cardinality(ids) |-> CHOOSE p \in ids: Cardinality(upTo(p)) = k]

Ranked(stock, ids, f, attempt) == InOrder(ids, [p \in ids |-> SortKey(stock[p], f, attempt)])

\* The rows the sort sees: all of them when the database sorts, otherwise any
\* CandidateLimit of them, since the query names no order.
Candidates(hits, f, attempt) ==
    IF (CurrencyPinned(f) /\ ~ByProximity(f, attempt)) \/ Cardinality(hits) <= CandidateLimit
    THEN {hits}
    ELSE {c \in SUBSET hits: Cardinality(c) = CandidateLimit}

\* What the query may answer.
query(stock, f, attempt) ==
    {FirstOf(Ranked(stock, c, f, attempt), RESULT_LIMIT) :
        c \in Candidates(Hits(stock, f, attempt), f, attempt)}

-----------------------------------------------------------------------------
(* Progressive relaxation.                                                 *)

Try(if, factor, rooms, label) ==
    IF if THEN << [factor |-> factor, rooms |-> rooms, label |-> label] >> ELSE <<>>

attempts(f) ==
    LET priced == f.maxPrice # 0
        roomed == f.minRooms # 0
        reach == IF priced THEN PRICE_RELAX_CAP ELSE AnyPrice
    IN Try(TRUE, PRICE_TOLERANCE, TRUE, NoLabel)
       \o Try(priced, PRICE_RELAX_CAP, TRUE, "price")
       \o Try(priced /\ f.flexible, PRICE_RELAX_CAP_FLEXIBLE, TRUE, "price")
       \o Try(roomed, reach, FALSE, "rooms")
       \o Try(priced, AnyPrice, TRUE, "over_budget")
       \o Try(priced /\ roomed, AnyPrice, FALSE, "over_budget")

hasStockInZone(stock, zones, operation) ==
    \/ zones = {}
    \/ \E p \in DOMAIN stock: /\ stock[p].zone \in zones
                              /\ operation \in {"none", stock[p].operation}

\* What the search may answer: the first attempt that finds something, or
\* nothing and whether the zone is to blame.
search(stock, f) ==
    LET tries == attempts(f)
        lucky == {i \in DOMAIN tries: Hits(stock, f, tries[i]) # {}}
        first == CHOOSE i \in lucky: \A j \in lucky: i <= j
    IN IF lucky # {}
       THEN {[found |-> s, relaxed |-> tries[first].label] : s \in query(stock, f, tries[first])}
       ELSE {[found |-> <<>>,
              relaxed |-> IF hasStockInZone(stock, f.zones, f.operation) THEN NoLabel
                          ELSE "empty_zone"]}

-----------------------------------------------------------------------------
(* The teaser: cheapest, middle one and dearest of the zones.              *)

pickPriceRange(s) ==
    IF Len(s) <= RESULT_LIMIT THEN s ELSE << s[1], s[(Len(s) \div 2) + 1], s[Len(s)] >>

teaserSearch(stock, operation, zones) ==
    LET ids == {p \in DOMAIN stock: stock[p].operation = operation /\ stock[p].zone \in zones}
    IN pickPriceRange(InOrder(ids, [p \in ids |-> <<0, toComparableArs(stock[p])>>]))

-----------------------------------------------------------------------------
(* Stock of zones.                                                         *)

zonesWithStock(stock, zones, operation) ==
    {z \in zones: hasStockInZone(stock, {z}, operation)}

StockOf(stock, zone, operation) ==
    Cardinality({p \in DOMAIN stock: /\ stock[p].zone = zone
                                     /\ operation \in {"none", stock[p].operation}})

\* The sets the groupBy may return: ties are the database's choice.
topStockZones(stock, operation, limit) ==
    LET stocked == zonesWithStock(stock, Zones, operation)
        size == IF Cardinality(stocked) < limit THEN Cardinality(stocked) ELSE limit
    IN {S \in SUBSET stocked:
          /\ Cardinality(S) = size
          /\ \A z \in S, y \in stocked \ S:
                StockOf(stock, z, operation) >= StockOf(stock, y, operation)}

\* The sets suggestAlternativeZones may offer instead of a zone: up to two
\* neighbours with stock, or else the two zones with most stock.
Suggestions(stock, zone, operation) ==
    LET near == FirstOf(SelectSeq(Adjacent[zone], LAMBDA z:
                            hasStockInZone(stock, {z}, operation)), 2)
    IN IF near # <<>> THEN {ToSet(near)} ELSE topStockZones(stock, operation, 2)
=============================================================================
