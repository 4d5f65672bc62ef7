---------------------------- MODULE CatalogSearch ----------------------------
(***************************************************************************)
(* What search and facets compute from the products: the filter they       *)
(* share, the order, the pages and the counts of the facets.  A shopper    *)
(* goes through the pages of one query while nobody changes the products.  *)
(* A product's text and attributes are sets of words, and its id, which    *)
(* breaks the ties, is a number.                                           *)
(***************************************************************************)
EXTENDS Naturals, FiniteSets

CONSTANTS
  ItemIds,
  Items,         \* bound: the products that may be in the catalogue
  Queries,       \* bound: the queries asked
  NoItem, NoQuery,
  PerPage          \* products on a page

VARIABLES catalogue, query, page, shown

searchVars == <<catalogue, query, page, shown>>

Sorts == {"price_asc", "price_desc", "rating", "newest", "relevance"}
Any == [q |-> {}, brands |-> {}, minPrice |-> 0, maxPrice |-> 99, minRating |-> 0, sort |-> "relevance"]

\* What a product and a query are made of; money and ratings count in their smallest units.
WordsThere == UNION ({item.words : item \in Items} \cup {q.q : q \in Queries})
BrandsThere == {item.brand : item \in Items} \cup UNION {q.brands : q \in Queries}
ItemRows == [active : BOOLEAN, words : SUBSET WordsThere, price : Nat, rating : Nat, votes : Nat,
             created : Nat, brand : BrandsThere]
QueryRows == [q : SUBSET WordsThere, brands : SUBSET BrandsThere, minPrice : Nat, maxPrice : Nat,
              minRating : Nat, sort : Sorts]

ASSUME CatalogSearchAssumption ==
  /\ ItemIds \subseteq Nat /\ IsFiniteSet(ItemIds)
  /\ Items \subseteq ItemRows
  /\ Queries \subseteq QueryRows /\ NoQuery \notin Queries
  /\ PerPage \in Nat \ {0}

\* buildWhere: every condition given must hold, of the brands one.
Matches(item, q) ==
  /\ item.active
  /\ q.q \subseteq item.words
  /\ q.brands = {} \/ item.brand \in q.brands
  /\ q.minPrice <= item.price /\ item.price <= q.maxPrice
  /\ q.minRating <= item.rating

\* orderBy: item i comes before item j.
First(keys, i, j) ==
  \E n \in DOMAIN keys :
    /\ \A m \in 1..(n - 1) : keys[m][1] = keys[m][2]
    /\ keys[n][1] < keys[n][2]
Before(c, sort, i, j) ==
  LET up(f) == <<c[i][f], c[j][f]>>
      down(f) == <<c[j][f], c[i][f]>>
      tiebreaker == <<i, j>>
  IN CASE sort = "price_asc" -> First(<<up("price"), tiebreaker>>, i, j)
       [] sort = "price_desc" -> First(<<down("price"), tiebreaker>>, i, j)
       [] sort = "rating" -> First(<<down("rating"), down("votes"), tiebreaker>>, i, j)
       [] sort = "newest" -> First(<<down("created"), tiebreaker>>, i, j)
       [] OTHER -> First(<<down("rating"), down("created"), tiebreaker>>, i, j)

Found(c, q) == {i \in ItemIds : Matches(c[i], q)}
Skipped(c, q, i) == Cardinality({j \in Found(c, q) : Before(c, q.sort, j, i)})
Page(c, q, n) ==
  {i \in Found(c, q) : Skipped(c, q, i) >= (n - 1) * PerPage /\ Skipped(c, q, i) < n * PerPage}
WholePages(c, q) == Cardinality(Found(c, q)) \div PerPage
TotalPages(c, q) ==
  LET total == Cardinality(Found(c, q))
  IN IF total = 0 THEN 1 ELSE (total + PerPage - 1) \div PerPage

\* The facets of a query: how many of what it finds each brand and each attribute
\* has, and the bounds of their prices.
BrandCount(c, q, b) == Cardinality({i \in Found(c, q) : c[i].brand = b})
AttributeCount(c, q, w) == Cardinality({i \in Found(c, q) : w \in c[i].words})
PriceBounds(c, q) ==
  LET prices == {c[i].price : i \in Found(c, q)}
  IN IF prices = {} THEN [min |-> 0, max |-> 0]
     ELSE [min |-> CHOOSE x \in prices : \A y \in prices : x <= y,
           max |-> CHOOSE x \in prices : \A y \in prices : y <= x]

SearchInit ==
  /\ catalogue = [i \in ItemIds |-> NoItem]
  /\ query = NoQuery
  /\ page = 0
  /\ shown = [i \in ItemIds |-> 0]

\* The products there are, and what the shopper asks of them.
AskQuery(c, q) ==
  /\ query = NoQuery
  /\ catalogue' = c /\ query' = q
  /\ UNCHANGED <<page, shown>>

TurnPage ==
  /\ query # NoQuery
  /\ page < TotalPages(catalogue, query)
  /\ page' = page + 1
  /\ shown' = [i \in ItemIds |->
       IF i \in Page(catalogue, query, page + 1) THEN shown[i] + 1 ELSE shown[i]]
  /\ UNCHANGED <<catalogue, query>>
SearchNext == TurnPage \/ \E c \in [ItemIds -> Items], q \in Queries : AskQuery(c, q)
SearchSpec == SearchInit /\ [][SearchNext]_searchVars

-----------------------------------------------------------------------------
\* A shopper who goes through all pages sees every product that the query finds,
\* once, and no other, whatever ties in price, rating or date.
EveryProductOnOnePage ==
  query # NoQuery /\ page = TotalPages(catalogue, query) =>
    \A i \in ItemIds : shown[i] = IF i \in Found(catalogue, query) THEN 1 ELSE 0

\* The number beside a brand or an attribute is what choosing it too will find, and
\* the price slider's ends cut off nothing that the query finds.
FacetsTellTheTruth ==
  LET bounds == PriceBounds(catalogue, query)
      inBounds == [query EXCEPT !.minPrice = bounds.min, !.maxPrice = bounds.max]
  IN query # NoQuery =>
     /\ \A b \in {catalogue[i].brand : i \in Found(catalogue, query)} :
          BrandCount(catalogue, query, b)
            = Cardinality(Found(catalogue, [query EXCEPT !.brands = {b}]))
     /\ \A w \in UNION {catalogue[i].words : i \in Found(catalogue, query)} :
          AttributeCount(catalogue, query, w)
            = Cardinality(Found(catalogue, [query EXCEPT !.q = @ \cup {w}]))
     /\ Found(catalogue, query) # {} => Found(catalogue, inBounds) = Found(catalogue, query)
==============================================================================
