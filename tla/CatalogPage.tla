----------------------------- MODULE CatalogPage -----------------------------
(***************************************************************************)
(* The catalog page.  The address bar holds the query; each change of it   *)
(* fetches the products and then the counts beside the filters, and gives  *)
(* the fetch before it up.  The tree of categories is fetched once for all *)
(* visits, shared between them while under way, and retried once.          *)
(***************************************************************************)
EXTENDS Integers, FiniteSets

CONSTANTS
  Filters,       \* what the search, the filters and the order amount to
  PagesOf,       \* PagesOf[f]: the pages of products that f has
  MaxPages,      \* bound: the most that one of them has
  MaxVisits,     \* bound: how often the page is mounted
  MaxGen,        \* bound: the fetches of a visit
  TreeRuns,      \* bound: the fetches of the tree under way
  NoAnswer

ASSUME CatalogPageAssumption ==
  /\ MaxPages \in Nat \ {0} /\ PagesOf \in [Filters -> 1..MaxPages]
  /\ MaxVisits \in Nat \ {0} /\ MaxGen \in Nat \ {0}

VARIABLES
  visit, onPage,      \* the mount, and whether the page still is
  query, gen,         \* the address bar, and the number of its fetch
  fetched,            \* each fetch of this visit: how far its products and counts are
  result, facets,     \* the queries whose products and counts are shown
  fetching, loadError,
  tree, treeShown, treeLoading, treeError,   \* cached for all visits, and of this one
  run,                \* the fetches of the tree, and the visits that wait for each
  inflight,           \* the one that a new visit joins
  early               \* ghost: a page was turned by the arrows of an older result

catalogVars == <<visit, onPage, query, gen, fetched, result, facets, fetching, loadError,
                 tree, treeShown, treeLoading, treeError, run, inflight, early>>
fetchVars == <<query, gen, fetched, result, facets, fetching, loadError, early>>
treeVars == <<tree, treeShown, treeLoading, treeError, run, inflight>>

Queries == [filter : Filters, page : 1..MaxPages]
Gens == 1..MaxGen
NoFetch == [at |-> "idle", query |-> NoAnswer]
NoRun == [at |-> "idle", visits |-> {}]

CatalogPageTypeOK ==
  /\ visit \in 1..MaxVisits /\ {onPage, fetching, loadError, early} \subseteq BOOLEAN
  /\ query \in Queries /\ gen \in Gens
  /\ fetched \in [Gens -> [at : {"idle", "products", "ok", "failed", "counts", "counted", "lost", "done"},
                          query : Queries \cup {NoAnswer}]]
  /\ result \in Queries \cup {NoAnswer} /\ facets \in Queries \cup {NoAnswer}
  /\ {tree, treeShown, treeLoading, treeError} \subseteq BOOLEAN
  /\ run \in [TreeRuns -> [at : {"idle", "first", "second", "ok", "failed"}, visits : SUBSET (1..MaxVisits)]]
  /\ inflight \in TreeRuns \cup {NoAnswer}

Ask(q, g) == [fetched EXCEPT ![g] = [at |-> "products", query |-> q]]
CatalogInit ==
  /\ visit = 1 /\ onPage = TRUE
  /\ query \in [filter : Filters, page : {1}] /\ gen = 1
  /\ fetched = [g \in Gens |-> IF g = 1 THEN [at |-> "products", query |-> query] ELSE NoFetch]
  /\ result = NoAnswer /\ facets = NoAnswer
  /\ fetching = TRUE /\ loadError = FALSE /\ early = FALSE
  /\ tree = FALSE /\ treeShown = FALSE /\ treeLoading = TRUE /\ treeError = FALSE
  /\ \E r \in TreeRuns :
       /\ run = [s \in TreeRuns |-> IF s = r THEN [at |-> "first", visits |-> {1}] ELSE NoRun]
       /\ inflight = r

-----------------------------------------------------------------------------
\* The effect of a query: a new fetch; those before it are aborted, or answer in vain.
Refetch(q) ==
  /\ onPage /\ gen < MaxGen
  /\ query' = q /\ gen' = gen + 1
  /\ fetched' = Ask(q, gen + 1)
  /\ fetching' = TRUE /\ loadError' = FALSE
  /\ UNCHANGED <<visit, onPage, result, facets, treeVars>>

\* update(), whatever is toggled or cleared: the first page again.
Updated(f) == [filter |-> f, page |-> 1]
Update(f) ==
  /\ f # query.filter
  /\ Refetch(Updated(f))
  /\ UNCHANGED early

HasPrevious == query.page > 1
HasNext == query.page < PagesOf[result.filter]
\* The arrows go by the page of the address bar and by the pages of the result shown.
TurnPage ==
  /\ result # NoAnswer /\ PagesOf[result.filter] > 1
  /\ \/ HasPrevious /\ Refetch([query EXCEPT !.page = @ - 1])
     \/ HasNext /\ Refetch([query EXCEPT !.page = @ + 1])
  /\ early' = (early \/ result.filter # query.filter)

RetryProducts ==
  /\ loadError /\ result = NoAnswer /\ ~fetching
  /\ Refetch(query)
  /\ UNCHANGED early

ServeFetch(g) ==
  /\ fetched[g].at \in {"products", "counts"}
  /\ \E ok \in BOOLEAN :
       fetched' = [fetched EXCEPT ![g].at = IF fetched[g].at = "products" THEN (IF ok THEN "ok" ELSE "failed")
                                            ELSE (IF ok THEN "counted" ELSE "lost")]
  /\ UNCHANGED <<visit, onPage, query, gen, result, facets, fetching, loadError, early, treeVars>>

\* An answer to a fetch that is not the latest changes nothing.
Latest(g) == g = gen /\ onPage
ProductsAnswered(g) ==
  /\ fetched[g].at = "ok"
  /\ fetched' = [fetched EXCEPT ![g].at = IF Latest(g) THEN "counts" ELSE "done"]
  /\ IF Latest(g) THEN result' = fetched[g].query /\ loadError' = FALSE /\ fetching' = FALSE
                  ELSE UNCHANGED <<result, loadError, fetching>>
  /\ UNCHANGED <<visit, onPage, query, gen, facets, early, treeVars>>

ProductsFailed(g) ==
  /\ fetched[g].at = "failed"
  /\ fetched' = [fetched EXCEPT ![g].at = "done"]
  /\ IF Latest(g) THEN loadError' = TRUE /\ fetching' = FALSE ELSE UNCHANGED <<loadError, fetching>>
  /\ UNCHANGED <<visit, onPage, query, gen, result, facets, early, treeVars>>

AlwaysWanted(g) == TRUE
StillWanted(g) == g = gen
CountsAnswered(g) ==
  /\ fetched[g].at = "counted"
  /\ fetched' = [fetched EXCEPT ![g].at = "done"]
  /\ facets' = IF onPage /\ StillWanted(g) THEN fetched[g].query ELSE facets
  /\ UNCHANGED <<visit, onPage, query, gen, result, fetching, loadError, early, treeVars>>

-----------------------------------------------------------------------------
\* loadCategoryTree: from the cache, or from the fetch under way, or by a fetch.
JoinOrRun(force) ==
  IF ~force /\ inflight # NoAnswer
  THEN /\ run' = [run EXCEPT ![inflight].visits = @ \cup {visit'}]
       /\ UNCHANGED inflight
  ELSE \E r \in TreeRuns :
         /\ run[r].at = "idle"
         /\ run' = [run EXCEPT ![r] = [at |-> "first", visits |-> {visit'}]]
         /\ inflight' = r

\* Left for a product, say, and come back to.
Leave ==
  /\ onPage
  /\ onPage' = FALSE
  /\ UNCHANGED <<visit, fetchVars, treeVars>>

Return(f) ==
  /\ ~onPage /\ visit < MaxVisits
  /\ visit' = visit + 1 /\ onPage' = TRUE
  /\ query' = Updated(f) /\ gen' = 1
  /\ fetched' = [g \in Gens |-> IF g = 1 THEN [at |-> "products", query |-> Updated(f)] ELSE NoFetch]
  /\ result' = NoAnswer /\ facets' = NoAnswer
  /\ fetching' = TRUE /\ loadError' = FALSE /\ early' = FALSE
  /\ treeShown' = tree /\ treeError' = FALSE
  /\ IF tree THEN treeLoading' = FALSE /\ UNCHANGED <<run, inflight>>
             ELSE treeLoading' = TRUE /\ JoinOrRun(FALSE)
  /\ UNCHANGED tree

RetryTree ==
  /\ onPage /\ treeError /\ ~treeShown /\ ~treeLoading
  /\ treeLoading' = TRUE /\ treeError' = FALSE
  /\ UNCHANGED visit
  /\ JoinOrRun(TRUE)
  /\ UNCHANGED <<onPage, fetchVars, tree, treeShown>>

\* A fetch that fails is repeated once; what arrives is cached for every visit.
Attempts(at) == IF at = "first" THEN "second" ELSE "failed"
ServeTree(r) ==
  /\ run[r].at \in {"first", "second"}
  /\ \/ run' = [run EXCEPT ![r].at = "ok"] /\ tree' = TRUE
     \/ run' = [run EXCEPT ![r].at = Attempts(@)] /\ UNCHANGED tree
  /\ UNCHANGED <<visit, onPage, fetchVars, treeShown, treeLoading, treeError, inflight>>

\* A run that failed returns the cache all the same; `finally' forgets the run in
\* flight, even when it is another by then.
TreeAnswered(r) ==
  /\ run[r].at \in {"ok", "failed"}
  /\ run' = [run EXCEPT ![r] = NoRun]
  /\ inflight' = NoAnswer
  /\ IF onPage /\ visit \in run[r].visits
     THEN /\ treeLoading' = FALSE
          /\ treeShown' = (treeShown \/ tree)
          /\ treeError' = ~tree
     ELSE UNCHANGED <<treeLoading, treeShown, treeError>>
  /\ UNCHANGED <<visit, onPage, fetchVars, tree>>

CatalogPageNext ==
  \/ \E f \in Filters : Update(f) \/ Return(f)
  \/ \E g \in Gens : ServeFetch(g) \/ ProductsAnswered(g) \/ ProductsFailed(g) \/ CountsAnswered(g)
  \/ \E r \in TreeRuns : ServeTree(r) \/ TreeAnswered(r)
  \/ TurnPage \/ RetryProducts \/ RetryTree \/ Leave

CatalogPageSpec == CatalogInit /\ [][CatalogPageNext]_catalogVars

-----------------------------------------------------------------------------
\* Answers come in any order, and yet, once the page has stopped loading, what it
\* shows is what its address asks for, unless the latest fetch failed.
IdleShowsTheQuery ==
  onPage /\ ~fetching /\ ~loadError => result = query

\* The counts beside the filters belong to the products shown once they have been
\* answered, whichever of the fetches that were given up answers last.
CountsFollowTheProducts ==
  onPage /\ ~loadError /\ fetched[gen].at = "done" => facets = result

\* A page is never turned past the last, except by the arrows of an older result.
ShownPageExists ==
  onPage /\ result # NoAnswer /\ ~early => result.page <= PagesOf[result.filter]

\* No spinner for nothing: the products and the tree are being loaded exactly when a
\* fetch that will end the loading is under way.
LoadingHasAFetch ==
  onPage => /\ fetching <=> fetched[gen].at \in {"products", "ok", "failed"}
            /\ treeLoading <=> \E r \in TreeRuns : run[r].at # "idle" /\ visit \in run[r].visits

\* A visit is left without a tree only with the button that retries.
TreeOrRetry ==
  onPage /\ ~treeShown /\ ~treeLoading => treeError

\* At rest the page shows the products, the counts, the number and the categories of its
\* query, or an error, whatever order the answers came in.
CatalogShowsItsQuery ==
  IdleShowsTheQuery /\ CountsFollowTheProducts /\ ShownPageExists /\ LoadingHasAFetch /\ TreeOrRetry
==============================================================================
