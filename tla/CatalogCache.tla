---------------------------- MODULE CatalogCache ----------------------------
(***************************************************************************)
(* What the storefront shows of the catalogue: answers of search, facets   *)
(* and suggest, kept in Redis for a minute, and the writes of admins,      *)
(* which commit to Postgres and then drop the kept answers, one key        *)
(* pattern beside the other.  What an answer shows is named by the number  *)
(* of catalogue writes committed before it was computed.                   *)
(***************************************************************************)
EXTENDS Naturals

CONSTANTS
  Readers, Writers,   \* bound: the requests of a behaviour
  Keys, Patterns,
  Pattern,            \* Pattern[k]: the pattern that key k matches
  MaxQuiet,           \* bound: writes that drop nothing
  NoKey, None

VARIABLES
  version,    \* the writes committed to the products
  announced,  \* the newest of them that drops kept answers
  kept,       \* Redis: the version that each kept answer shows, or None
  slipped,    \* ghost: keys whose answer slipped past a deletion: filled after a newer
              \* announced write had committed, or left by a DEL that failed
  read,       \* each reader: where it is, its key, and what it got
  write,      \* each writer: where it is, and the version it committed
  drop,       \* its deletion of each pattern, and the keys its scan found
  floor,      \* ghost: the newest write answered as saved when a reader began
  tainted     \* ghost: the readers whose answer had slipped past a deletion

cacheVars == <<version, announced, kept, slipped, read, write, drop, floor, tainted>>
serving == <<read, floor, tainted>>

ASSUME CatalogCacheAssumption ==
  /\ Pattern \in [Keys -> Patterns]
  /\ MaxQuiet \in Nat
  /\ None \notin Nat

Newer(m, n) == IF m > n THEN m ELSE n
NoRead == [at |-> "idle", key |-> NoKey, got |-> None]
NoWrite == [at |-> "idle", saved |-> 0]
NotScanned == [at |-> "scan", found |-> {}]

Reads == [at : {"idle", "get", "query", "set", "done", "failed"},
          key : Keys \cup {NoKey}, got : Nat \cup {None}]
Writes == [at : {"idle", "drop", "saved", "failed"}, saved : Nat]
Drops == [at : {"scan", "delete", "dropped", "failed"}, found : SUBSET Keys]

CacheTypeOK ==
  /\ version \in Nat /\ announced \in Nat
  /\ kept \in [Keys -> Nat \cup {None}]
  /\ slipped \subseteq Keys
  /\ read \in [Readers -> Reads]
  /\ \A r \in Readers : read[r].at \in {"set", "done"} => read[r].got # None
  /\ write \in [Writers -> Writes]
  /\ drop \in [Writers -> [Patterns -> Drops]]
  /\ floor \in [Readers -> Nat]
  /\ tainted \subseteq Readers

CacheInit ==
  /\ version = 0 /\ announced = 0
  /\ kept = [k \in Keys |-> None]
  /\ slipped = {}
  /\ read = [r \in Readers |-> NoRead]
  /\ write = [w \in Writers |-> NoWrite]
  /\ drop = [w \in Writers |-> [p \in Patterns |-> NotScanned]]
  /\ floor = [r \in Readers |-> 0]
  /\ tainted = {}

-----------------------------------------------------------------------------
\* search, facets, suggest.
Ask(r, k) ==
  /\ read[r].at = "idle"
  /\ read' = [read EXCEPT ![r] = [at |-> "get", key |-> k, got |-> None]]
  /\ \E n \in {write[w].saved : w \in {v \in Writers : write[v].at = "saved"}} \cup {0} :
       /\ \A w \in Writers : write[w].at = "saved" => write[w].saved <= n
       /\ floor' = [floor EXCEPT ![r] = n]
  /\ UNCHANGED <<version, announced, kept, slipped, write, drop, tainted>>

Hit(k) == kept[k] # None
LookUp(r) ==
  LET k == read[r].key IN
  /\ read[r].at = "get"
  /\ IF Hit(k)
     THEN /\ read' = [read EXCEPT ![r] = [at |-> "done", key |-> NoKey, got |-> kept[k]]]
          /\ tainted' = IF k \in slipped THEN tainted \cup {r} ELSE tainted
     ELSE read' = [read EXCEPT ![r].at = "query"] /\ UNCHANGED tainted
  /\ UNCHANGED <<version, announced, kept, slipped, write, drop, floor>>

\* One transaction reads the products.
Query(r) ==
  /\ read[r].at = "query"
  /\ read' = [read EXCEPT ![r] = [at |-> "set", key |-> read[r].key, got |-> version]]
  /\ UNCHANGED <<version, announced, kept, slipped, write, drop, floor, tainted>>

Fill(r) ==
  LET k == read[r].key IN
  /\ read[r].at = "set"
  /\ kept' = [kept EXCEPT ![k] = read[r].got]
  /\ slipped' = IF read[r].got < announced THEN slipped \cup {k} ELSE slipped \ {k}
  /\ read' = [read EXCEPT ![r] = [at |-> "done", key |-> NoKey, got |-> read[r].got]]
  /\ UNCHANGED <<version, announced, write, drop, floor, tainted>>

ReadFails(r) ==
  /\ read[r].at \in {"get", "query", "set"}
  /\ read' = [read EXCEPT ![r] = [NoRead EXCEPT !.at = "failed"]]
  /\ floor' = [floor EXCEPT ![r] = 0]
  /\ UNCHANGED <<version, announced, kept, slipped, write, drop, tainted>>

-----------------------------------------------------------------------------
\* create, update, remove, bulkCreate: the write, then invalidateCatalogCache.
Save(w) ==
  /\ write[w].at = "idle"
  /\ version' = version + 1
  /\ announced' = version + 1
  /\ write' = [write EXCEPT ![w] = [at |-> "drop", saved |-> version + 1]]
  /\ UNCHANGED <<kept, slipped, drop, serving>>

\* What changes an answer too and drops nothing: an image, the stock an order
\* took, a rating, the name of a brand or a category.
QuietWrite ==
  /\ version < announced + MaxQuiet
  /\ version' = version + 1
  /\ UNCHANGED <<announced, kept, slipped, write, drop, serving>>

\* deleteByPattern: SCAN finds every key that is there throughout.
InPattern(p) == {k \in Keys : Pattern[k] = p /\ kept[k] # None}
Scan(w, p) ==
  /\ write[w].at \in {"drop", "failed"} /\ write[w].saved > 0
  /\ drop[w][p].at = "scan"
  /\ drop' = [drop EXCEPT ![w][p] = [at |-> "delete", found |-> InPattern(p)]]
  /\ UNCHANGED <<version, announced, kept, slipped, write, serving>>

\* One pipeline of DELs.  Its promise resolves with a result or an error for each,
\* which nobody reads: a key whose DEL failed stays, and counts as dropped.
Delete(w, p) ==
  /\ drop[w][p].at = "delete"
  /\ \E failed \in SUBSET drop[w][p].found :
       LET gone == drop[w][p].found \ failed IN
       /\ kept' = [k \in Keys |-> IF k \in gone THEN None ELSE kept[k]]
       /\ slipped' = (slipped \ gone)
                     \cup {k \in failed : kept[k] # None /\ kept[k] < write[w].saved}
  /\ drop' = [drop EXCEPT ![w][p] = [at |-> "dropped", found |-> {}]]
  /\ UNCHANGED <<version, announced, write, serving>>

\* A SCAN that fails rejects: Promise.all fails with the first, the others run on.
DropFails(w, p) ==
  /\ write[w].saved > 0 /\ drop[w][p].at = "scan"
  /\ drop' = [drop EXCEPT ![w][p] = [at |-> "failed", found |-> {}]]
  /\ write' = [write EXCEPT ![w].at = "failed"]
  /\ UNCHANGED <<version, announced, kept, slipped, serving>>

\* A restart of the backend between the commit and the last deletion.
WriterStops(w) ==
  /\ write[w].saved > 0 /\ \E p \in Patterns : drop[w][p].at \in {"scan", "delete"}
  /\ drop' = [drop EXCEPT ![w] =
                [p \in Patterns |-> IF drop[w][p].at = "dropped" THEN drop[w][p]
                                    ELSE [at |-> "failed", found |-> {}]]]
  /\ write' = [write EXCEPT ![w].at = "failed"]
  /\ UNCHANGED <<version, announced, kept, slipped, serving>>

AnyDropped(w) == \E p \in Patterns : drop[w][p].at = "dropped"
AllDropped(w) == \A p \in Patterns : drop[w][p].at = "dropped"
Saved(w) ==
  /\ write[w].at = "drop"
  /\ AllDropped(w)
  /\ write' = [write EXCEPT ![w].at = "saved"]
  /\ UNCHANGED <<version, announced, kept, slipped, drop, serving>>

\* The TTL of a kept answer.
Expire(k) ==
  /\ kept[k] # None
  /\ kept' = [kept EXCEPT ![k] = None]
  /\ slipped' = slipped \ {k}
  /\ UNCHANGED <<version, announced, write, drop, serving>>

ReadStep(r) == LookUp(r) \/ Query(r) \/ Fill(r)
DropStep(w) == Saved(w) \/ \E p \in Patterns : Scan(w, p) \/ Delete(w, p)
CacheNext ==
  \/ \E r \in Readers : ReadStep(r) \/ ReadFails(r) \/ \E k \in Keys : Ask(r, k)
  \/ \E w \in Writers : Save(w) \/ DropStep(w) \/ WriterStops(w)
                        \/ \E p \in Patterns : DropFails(w, p)
  \/ \E k \in Keys : Expire(k)
  \/ QuietWrite
CacheSpec == CacheInit /\ [][CacheNext]_cacheVars

-----------------------------------------------------------------------------
\* A kept answer is older than a write that was answered as saved only if it slipped
\* past the deletion: its fill had read the products before the commit and stored them
\* after, or its DEL failed.  SCAN, the parallel deletions, expiry, restarts and the
\* failures of other writes leave no other way.
StaleOnlyIfSlipped ==
  \A k \in Keys, w \in Writers :
    write[w].at = "saved" /\ kept[k] # None /\ k \notin slipped => write[w].saved <= kept[k]

\* A visitor is shown nothing older than what an admin had been told is saved when the
\* visitor asked, unless the answer slipped past a deletion: "reflected immediately"
\* (products.service.ts:177) fails in these two ways and in no other.
ReadersSeeSavedWrites ==
  \A r \in Readers :
    read[r].at = "done" /\ r \notin tainted => read[r].got >= floor[r]

\* Neither Redis nor a visitor has what is older than a saved write, but for an answer
\* whose fill overtook the deletion or whose DEL failed.
SavedWritesShow == StaleOnlyIfSlipped /\ ReadersSeeSavedWrites
=============================================================================
