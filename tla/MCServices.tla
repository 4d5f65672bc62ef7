----------------------------- MODULE MCServices -----------------------------
(* The services that share no state in these models, checked in one run: a   *)
(* behaviour is a behaviour of one of them, chosen at the start, while the   *)
(* variables of the others keep their initial values.                        *)
EXTENDS Carts, CatalogCache, CatalogSearch, BulkUpload, Categories, ProductImages,
        TwoFactor, Accounts, Throttle

VARIABLE service

Services == {"carts", "cache", "search", "bulk", "categories", "images", "twofactor", "accounts", "throttle"}

allVars == <<service, cartVars, cacheVars, searchVars, bulkVars, categoryVars, imageVars,
             secretVars, accountVars, throttleVars>>

MCInit ==
  /\ service \in Services
  /\ CartsInit /\ CacheInit /\ SearchInit /\ BulkInit /\ CategoriesInit /\ ImagesInit
  /\ TwoFactorInit /\ AccountsInit /\ ThrottleInit
  /\ service # "twofactor" => role = "USER"
  /\ service # "images" => \A i \in GivenImages : ~images[i].primary

Others(s) ==
  /\ UNCHANGED service
  /\ s # "carts" => UNCHANGED cartVars
  /\ s # "cache" => UNCHANGED cacheVars
  /\ s # "search" => UNCHANGED searchVars
  /\ s # "bulk" => UNCHANGED bulkVars
  /\ s # "categories" => UNCHANGED categoryVars
  /\ s # "images" => UNCHANGED imageVars
  /\ s # "twofactor" => UNCHANGED secretVars
  /\ s # "accounts" => UNCHANGED accountVars
  /\ s # "throttle" => UNCHANGED throttleVars

MCNext ==
  \/ service = "carts" /\ CartsNext /\ Others("carts")
  \/ service = "cache" /\ CacheNext /\ Others("cache")
  \/ service = "search" /\ SearchNext /\ Others("search")
  \/ service = "bulk" /\ BulkNext /\ Others("bulk")
  \/ service = "categories" /\ CategoriesNext /\ Others("categories")
  \/ service = "images" /\ ImagesNext /\ Others("images")
  \/ service = "twofactor" /\ SecretNext /\ Others("twofactor")
  \/ service = "accounts" /\ AccountsNext /\ Others("accounts")
  \/ service = "throttle" /\ ThrottleNext /\ Others("throttle")

MCSpec == MCInit /\ [][MCNext]_allVars

-----------------------------------------------------------------------------
CONSTANTS p1, p2, noProduct, noCall, noKey, search1, search2, facets1, unbranded

AddTo(owner, ps) == [kind : {"add"}, owner : {owner}, product : ps, units : {1}]
MCCartMenu ==
  [r \in CartCalls |->
     CASE r = "c1" -> AddTo("guest", {p1, p2}) \cup AddTo("account", {p1})
       [] r = "c2" -> {t \in CartTasks : t.kind = "merge" \/ t.product = p1}
       [] OTHER -> AddTo("guest", {p1}) \cup {t \in CartTasks : t.kind \in {"merge", "order"} \/ (t.kind = "get" /\ t.owner = "account")}]
MCShelf == [p \in CartProducts |-> IF p = p1 THEN 2 ELSE 1]

MCPattern == [k \in Keys |-> IF k = facets1 THEN "facets:*" ELSE "search:*"]

Item(price, rating, created, brand) ==
  [active |-> TRUE, words |-> {"shell"}, price |-> price, rating |-> rating, votes |-> rating,
   created |-> created, brand |-> brand]
MCItems == {Item(1, 4, 1, "a"), Item(1, 4, 2, "b"), [Item(2, 5, 1, "a") EXCEPT !.words = {}],
            [Item(3, 4, 1, "a") EXCEPT !.active = FALSE]}
MCQueries == {[Any EXCEPT !.sort = s] : s \in Sorts}
             \cup {[Any EXCEPT !.q = {"shell"}, !.minRating = 1], [Any EXCEPT !.brands = {"a"}],
                   [Any EXCEPT !.maxPrice = 1, !.sort = "newest"]}
MCNoItem == CHOOSE i \in MCItems : TRUE
MCNoQuery == [Any EXCEPT !.sort = "none"]

Cells(name, category, brand) == [name |-> name, category |-> category, brand |-> brand, wellFormed |-> TRUE]
MCFile ==
  [u \in Uploads |->
     CASE u = "u1" -> <<[Cells("Tent", "jackets", "A") EXCEPT !.wellFormed = FALSE],
                        Cells("Parka", "unknown", "A"), Cells("Parka", "jackets", unbranded),
                        Cells("Parka", "jackets", "A")>>
       [] u = "u2" -> <<Cells("Parka", "jackets", "A")>>
       [] u = "u4" -> <<[Cells("Tent", "jackets", "A") EXCEPT !.wellFormed = FALSE],
                        Cells("Tent", "jackets", "A")>>
       [] OTHER -> <<Cells("Parka", "jackets", "A")>>]

MCSecretMenu ==
  [r \in SecretCalls |-> CASE r = "s1" -> {"setup"}
                           [] r = "s2" -> {"enable"}
                           [] r = "s3" -> {"setup", "login"}
                           [] r = "s4" -> {"enable", "disable"}
                           [] OTHER -> {"login"}]

MCAccountMenu ==
  [r \in AccountCalls |-> CASE r = "a1" -> {"register", "forgot"}
                            [] r = "a2" -> {"register", "oauth", "delete"}
                            [] r = "a3" -> {"forgot", "oauth"}
                            [] r = "a4" -> {"reset", "oauth"}
                            [] OTHER -> {"login", "reset"}]

-----------------------------------------------------------------------------
\* Every variable of a service keeps its type: no cart row, link, code or bucket is ever in a
\* state that the service does not know.
ServicesTypeOK ==
  /\ CartsTypeOK /\ CacheTypeOK /\ BulkTypeOK /\ CategoriesTypeOK /\ ImagesTypeOK
  /\ TwoFactorTypeOK /\ AccountsTypeOK /\ ThrottleTypeOK

\* The catalogue can be walked to its end: each product is on one page of a query, the facets
\* count what is on them, and the tree leaves out the categories of a loop only.
CatalogueIsWhole == EveryProductOnOnePage /\ FacetsTellTheTruth /\ TreeMissesOnlyLoops

\* What an upload leaves behind: the rows that were right, if it met no error and no other; of
\* those it reports as skipped nothing but what was written unheard; the files of each uploaded
\* picture; one primary picture unless uploads overlapped, and never none unless one failed.
UploadsAreWhole ==
  /\ GoodRowsGetIn /\ SkippedRowsLeaveNothing
  /\ RowsHaveTheirFiles /\ OnePrimaryUnlessOverlap /\ MarkIsKept
=============================================================================
