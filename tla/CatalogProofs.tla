--------------------------- MODULE CatalogProofs ----------------------------
(***************************************************************************)
(* The catalogue: its cache, its pages and facets, the uploads that fill   *)
(* it, its tree and its pictures.  One part per component, in the order in *)
(* which they are read: the uploads count with the least-element principle *)
(* that the pages are counted with.                                        *)
(***************************************************************************)
EXTENDS CatalogCache, CatalogSearch, BulkUpload, Categories, ProductImages, FiniteSetTheorems,
        SequenceTheorems, TLAPS

-----------------------------------------------------------------------------
(***************************************************************************)
(* The kept answers for every number of readers, writers, keys and         *)
(* patterns: what was saved is shown, but for an answer that slipped past a deletion.                 *)
(***************************************************************************)

\* A deletion is done with a key once it has scanned past it or deleted it.
PastKey(w, k) ==
  LET d == drop[w][Pattern[k]] IN d.at = "dropped" \/ (d.at = "delete" /\ k \notin d.found)

\* Such a key keeps nothing older than the write, unless it slipped past the deletion: a key
\* that is there is found by the scan, and one that is not is filled from a later read.
PastKeysAreNew ==
  \A w \in Writers, k \in Keys :
    PastKey(w, k) /\ kept[k] # None /\ k \notin slipped => write[w].saved <= kept[k]

SavesAreAnnounced ==
  announced <= version /\ \A w \in Writers : write[w].saved <= announced

\* A deletion starts after the save it follows, and the save is answered after it.
DropsFollowSaves ==
  \A w \in Writers :
    /\ write[w].at = "idle" => \A p \in Patterns : drop[w][p].at = "scan"
    /\ write[w].at = "saved" => AllDropped(w)

FloorsAreSaved ==
  \A r \in Readers :
    floor[r] = 0 \/ \E w \in Writers : write[w].at = "saved" /\ write[w].saved = floor[r]

\* A reader on its way has a key, and what it has read itself is new enough.
ReadersKeepUp ==
  \A r \in Readers :
    /\ read[r].at \in {"get", "query", "set"} => read[r].key \in Keys
    /\ read[r].at = "set" => read[r].got >= floor[r]

CacheInv ==
  /\ CacheTypeOK
  /\ SavesAreAnnounced
  /\ DropsFollowSaves
  /\ PastKeysAreNew
  /\ FloorsAreSaved
  /\ ReadersKeepUp
  /\ ReadersSeeSavedWrites

-----------------------------------------------------------------------------
LEMMA NewestSaved ==
  ASSUME CacheTypeOK, SavesAreAnnounced, FloorsAreSaved, NEW r \in Readers
  PROVE  floor[r] <= version
  <1>1. CASE floor[r] = 0
    BY <1>1 DEF CacheTypeOK
  <1>2. CASE \E w \in Writers : write[w].at = "saved" /\ write[w].saved = floor[r]
    <2>1. PICK w \in Writers : write[w].saved = floor[r]
      BY <1>2
    <2>2. write[w].saved \in Nat
      BY DEF CacheTypeOK, Writes
    <2> QED BY <2>1, <2>2 DEF SavesAreAnnounced, CacheTypeOK
  <1> QED BY <1>1, <1>2 DEF FloorsAreSaved

LEMMA InitCacheInv == CacheInit => CacheInv
  <1> SUFFICES ASSUME CacheInit PROVE CacheInv
    OBVIOUS
  <1>1. CacheTypeOK
    BY DEF CacheInit, CacheTypeOK, NoRead, NoWrite, NotScanned, Reads, Writes, Drops
  <1>2. SavesAreAnnounced /\ DropsFollowSaves /\ FloorsAreSaved
    BY DEF CacheInit, SavesAreAnnounced, DropsFollowSaves, FloorsAreSaved, NoWrite, NotScanned
  <1>3. PastKeysAreNew
    BY DEF CacheInit, PastKeysAreNew
  <1>4. ReadersKeepUp /\ ReadersSeeSavedWrites
    BY DEF CacheInit, ReadersKeepUp, ReadersSeeSavedWrites, NoRead
  <1> QED BY <1>1, <1>2, <1>3, <1>4 DEF CacheInv

\* The steps of a reader.  They leave the writers and their deletions alone.
LEMMA AskIInv ==
  ASSUME CacheInv, NEW r \in Readers, NEW k \in Keys, Ask(r, k)
  PROVE  CacheInv'
  <1>1. PICK n \in {write[w].saved : w \in {v \in Writers : write[v].at = "saved"}} \cup {0} :
          floor' = [floor EXCEPT ![r] = n]
    BY DEF Ask
  <1>2. n \in Nat /\ (n = 0 \/ \E w \in Writers : write[w].at = "saved" /\ write[w].saved = n)
    BY DEF CacheInv, CacheTypeOK, Writes
  <1>3. read' = [read EXCEPT ![r] = [at |-> "get", key |-> k, got |-> None]]
    BY DEF Ask
  <1>4. UNCHANGED <<version, announced, kept, slipped, write, drop, tainted>>
    BY DEF Ask
  <1>5. CacheTypeOK'
    BY <1>1, <1>2, <1>3, <1>4 DEF CacheInv, CacheTypeOK, Reads
  <1>6. SavesAreAnnounced' /\ DropsFollowSaves'
    BY <1>4 DEF CacheInv, SavesAreAnnounced, DropsFollowSaves, AllDropped
  <1>7. PastKeysAreNew'
    BY <1>4 DEF CacheInv, PastKeysAreNew, PastKey
  <1>8. FloorsAreSaved'
    BY <1>1, <1>2, <1>4 DEF CacheInv, FloorsAreSaved, CacheTypeOK
  <1>9. ReadersKeepUp' /\ ReadersSeeSavedWrites'
    BY <1>1, <1>3, <1>4 DEF CacheInv, ReadersKeepUp, ReadersSeeSavedWrites, CacheTypeOK
  <1> QED BY <1>5, <1>6, <1>7, <1>8, <1>9 DEF CacheInv

LEMMA LookUpIInv ==
  ASSUME CacheInv, NEW r \in Readers, LookUp(r)
  PROVE  CacheInv'
  <1> DEFINE k == read[r].key
  <1>1. read[r].at = "get" /\ k \in Keys
    BY DEF LookUp, CacheInv, ReadersKeepUp
  <1>2. UNCHANGED <<version, announced, kept, slipped, write, drop, floor>>
    BY DEF LookUp
  <1>3. kept[k] \in Nat \cup {None} /\ read[r] \in Reads
    BY <1>1 DEF CacheInv, CacheTypeOK
  <1>4. tainted \subseteq tainted' /\ tainted' \subseteq Readers
    BY DEF LookUp, CacheInv, CacheTypeOK
  <1>5. SavesAreAnnounced' /\ DropsFollowSaves' /\ FloorsAreSaved'
    BY <1>2 DEF CacheInv, SavesAreAnnounced, DropsFollowSaves, FloorsAreSaved, AllDropped
  <1>6. PastKeysAreNew'
    BY <1>2 DEF CacheInv, PastKeysAreNew, PastKey
  <1>7. CASE Hit(k)
    <2>1. read' = [read EXCEPT ![r] = [at |-> "done", key |-> NoKey, got |-> kept[k]]]
      BY <1>7 DEF LookUp
    <2>2. kept[k] \in Nat /\ kept[k] # None
      BY <1>3, <1>7 DEF Hit
    <2>3. CacheTypeOK'
      BY <1>2, <1>4, <2>1, <2>2 DEF CacheInv, CacheTypeOK, Reads
    <2>4. ReadersKeepUp'
      BY <1>2, <2>1 DEF CacheInv, ReadersKeepUp, CacheTypeOK
    <2>5. ASSUME r \notin tainted' PROVE kept[k] >= floor[r]
      <3>1. k \notin slipped
        BY <1>7, <2>5 DEF LookUp
      <3>2. CASE floor[r] = 0
        BY <2>2, <3>2
      <3>3. CASE floor[r] # 0
        <4>1. PICK w \in Writers : write[w].at = "saved" /\ write[w].saved = floor[r]
          BY <3>3 DEF CacheInv, FloorsAreSaved
        <4>2. Pattern[k] \in Patterns
          BY <1>1, CatalogCacheAssumption
        <4>3. PastKey(w, k)
          BY <4>1, <4>2 DEF CacheInv, DropsFollowSaves, AllDropped, PastKey
        <4>4. write[w].saved <= kept[k]
          BY <1>1, <2>2, <3>1, <4>3 DEF CacheInv, PastKeysAreNew
        <4> QED BY <2>2, <4>1, <4>4 DEF CacheInv, CacheTypeOK
      <3> QED BY <3>2, <3>3
    <2>6. ReadersSeeSavedWrites'
      BY <1>2, <1>4, <2>1, <2>5 DEF CacheInv, ReadersSeeSavedWrites, CacheTypeOK
    <2> QED BY <1>5, <1>6, <2>3, <2>4, <2>6 DEF CacheInv
  <1>8. CASE ~Hit(k)
    <2>1. read' = [read EXCEPT ![r].at = "query"] /\ tainted' = tainted
      BY <1>8 DEF LookUp
    <2>2. CacheTypeOK'
      BY <1>2, <1>3, <2>1 DEF CacheInv, CacheTypeOK, Reads
    <2>3. ReadersKeepUp'
      BY <1>1, <1>2, <2>1 DEF CacheInv, ReadersKeepUp, CacheTypeOK, Reads
    <2>4. ReadersSeeSavedWrites'
      BY <1>2, <2>1 DEF CacheInv, ReadersSeeSavedWrites, CacheTypeOK, Reads
    <2> QED BY <1>5, <1>6, <2>2, <2>3, <2>4 DEF CacheInv
  <1> QED BY <1>7, <1>8

LEMMA QueryIInv ==
  ASSUME CacheInv, NEW r \in Readers, Query(r)
  PROVE  CacheInv'
  <1>1. read[r].at = "query" /\ read[r] \in Reads
    BY DEF Query, CacheInv, CacheTypeOK
  <1>2. read' = [read EXCEPT ![r] = [at |-> "set", key |-> read[r].key, got |-> version]]
    BY DEF Query
  <1>3. UNCHANGED <<version, announced, kept, slipped, write, drop, floor, tainted>>
    BY DEF Query
  <1>4. SavesAreAnnounced' /\ DropsFollowSaves' /\ FloorsAreSaved'
    BY <1>3 DEF CacheInv, SavesAreAnnounced, DropsFollowSaves, FloorsAreSaved, AllDropped
  <1>5. PastKeysAreNew'
    BY <1>3 DEF CacheInv, PastKeysAreNew, PastKey
  <1>6. version \in Nat /\ version # None
    BY CatalogCacheAssumption DEF CacheInv, CacheTypeOK
  <1>7. CacheTypeOK'
    BY <1>1, <1>2, <1>3, <1>6 DEF CacheInv, CacheTypeOK, Reads
  <1>8. version >= floor[r]
    BY <1>6, NewestSaved DEF CacheInv, CacheTypeOK
  <1>9. ReadersKeepUp'
    BY <1>1, <1>2, <1>3, <1>8 DEF CacheInv, ReadersKeepUp, CacheTypeOK
  <1>10. ReadersSeeSavedWrites'
    BY <1>2, <1>3 DEF CacheInv, ReadersSeeSavedWrites, CacheTypeOK
  <1> QED BY <1>4, <1>5, <1>7, <1>9, <1>10 DEF CacheInv

LEMMA FillIInv ==
  ASSUME CacheInv, NEW r \in Readers, Fill(r)
  PROVE  CacheInv'
  <1> DEFINE k == read[r].key
             got == read[r].got
  <1>1. read[r].at = "set" /\ k \in Keys /\ read[r] \in Reads /\ got \in Nat
    BY DEF Fill, CacheInv, ReadersKeepUp, CacheTypeOK, Reads
  <1>2. read' = [read EXCEPT ![r] = [at |-> "done", key |-> NoKey, got |-> got]]
    BY DEF Fill
  <1>3. kept' = [kept EXCEPT ![k] = got]
    BY DEF Fill
  <1>4. slipped' = IF got < announced THEN slipped \cup {k} ELSE slipped \ {k}
    BY DEF Fill
  <1>5. UNCHANGED <<version, announced, write, drop, floor, tainted>>
    BY DEF Fill
  <1>6. SavesAreAnnounced' /\ DropsFollowSaves' /\ FloorsAreSaved'
    BY <1>5 DEF CacheInv, SavesAreAnnounced, DropsFollowSaves, FloorsAreSaved, AllDropped
  <1>7. CacheTypeOK'
    BY <1>1, <1>2, <1>3, <1>4, <1>5, CatalogCacheAssumption DEF CacheInv, CacheTypeOK, Reads
  <1>8. PastKeysAreNew'
    <2> SUFFICES ASSUME NEW w \in Writers, NEW j \in Keys, PastKey(w, j)', kept'[j] # None, j \notin slipped'
                 PROVE  write[w].saved <= kept'[j]
      BY <1>5 DEF PastKeysAreNew
    <2>1. CASE j = k
      <3>1. kept'[j] = got /\ announced <= got
        BY <1>1, <1>3, <1>4, <2>1 DEF CacheInv, CacheTypeOK
      <3> QED BY <1>1, <3>1 DEF CacheInv, SavesAreAnnounced, CacheTypeOK, Writes
    <2>2. CASE j # k
      BY <1>3, <1>4, <1>5, <2>2 DEF CacheInv, PastKeysAreNew, PastKey, CacheTypeOK
    <2> QED BY <2>1, <2>2
  <1>9. ReadersKeepUp' /\ ReadersSeeSavedWrites'
    BY <1>1, <1>2, <1>5 DEF CacheInv, ReadersKeepUp, ReadersSeeSavedWrites, CacheTypeOK
  <1> QED BY <1>6, <1>7, <1>8, <1>9 DEF CacheInv

LEMMA ReadFailsIInv ==
  ASSUME CacheInv, NEW r \in Readers, ReadFails(r)
  PROVE  CacheInv'
  <1>1. read' = [read EXCEPT ![r] = [at |-> "failed", key |-> NoKey, got |-> None]]
    <2>1. [NoRead EXCEPT !.at = "failed"] = [at |-> "failed", key |-> NoKey, got |-> None]
      BY DEF NoRead
    <2> QED BY <2>1 DEF ReadFails
  <1>2. floor' = [floor EXCEPT ![r] = 0]
    BY DEF ReadFails
  <1>3. UNCHANGED <<version, announced, kept, slipped, write, drop, tainted>>
    BY DEF ReadFails
  <1>4. CacheTypeOK'
    BY <1>1, <1>2, <1>3 DEF CacheInv, CacheTypeOK, Reads
  <1>5. SavesAreAnnounced' /\ DropsFollowSaves'
    BY <1>3 DEF CacheInv, SavesAreAnnounced, DropsFollowSaves, AllDropped
  <1>6. PastKeysAreNew'
    BY <1>3 DEF CacheInv, PastKeysAreNew, PastKey
  <1>7. FloorsAreSaved'
    BY <1>2, <1>3 DEF CacheInv, FloorsAreSaved, CacheTypeOK
  <1>8. ReadersKeepUp' /\ ReadersSeeSavedWrites'
    BY <1>1, <1>2, <1>3 DEF CacheInv, ReadersKeepUp, ReadersSeeSavedWrites, CacheTypeOK
  <1> QED BY <1>4, <1>5, <1>6, <1>7, <1>8 DEF CacheInv

-----------------------------------------------------------------------------
\* The steps of a writer.  They leave the readers alone.
LEMMA ServingKept ==
  ASSUME CacheInv, UNCHANGED serving
  PROVE  ReadersKeepUp' /\ ReadersSeeSavedWrites'
  BY DEF CacheInv, serving, ReadersKeepUp, ReadersSeeSavedWrites

LEMMA SaveIInv ==
  ASSUME CacheInv, NEW w \in Writers, Save(w)
  PROVE  CacheInv'
  <1>1. write[w].at = "idle" /\ write' = [write EXCEPT ![w] = [at |-> "drop", saved |-> version + 1]]
    BY DEF Save
  <1>2. version' = version + 1 /\ announced' = version + 1 /\ UNCHANGED <<kept, slipped, drop, read, floor, tainted>>
    BY DEF Save, serving
  <1>3. version \in Nat /\ announced \in Nat /\ announced <= version
    BY DEF CacheInv, CacheTypeOK, SavesAreAnnounced
  <1>4. CacheTypeOK'
    BY <1>1, <1>2, <1>3 DEF CacheInv, CacheTypeOK, Writes
  <1>5. SavesAreAnnounced'
    BY <1>1, <1>2, <1>3 DEF CacheInv, SavesAreAnnounced, CacheTypeOK, Writes
  <1>6. DropsFollowSaves'
    BY <1>1, <1>2 DEF CacheInv, DropsFollowSaves, AllDropped, CacheTypeOK
  <1>7. PastKeysAreNew'
    <2> SUFFICES ASSUME NEW v \in Writers, NEW k \in Keys, PastKey(v, k)', kept'[k] # None, k \notin slipped'
                 PROVE  write'[v].saved <= kept'[k]
      BY DEF PastKeysAreNew
    <2>1. Pattern[k] \in Patterns
      BY CatalogCacheAssumption
    <2>2. v # w
      BY <1>1, <1>2, <2>1 DEF CacheInv, DropsFollowSaves, PastKey
    <2> QED BY <1>1, <1>2, <2>2 DEF CacheInv, PastKeysAreNew, PastKey, CacheTypeOK
  <1>8. FloorsAreSaved'
    <2> SUFFICES ASSUME NEW r \in Readers, floor[r] # 0
                 PROVE  \E v \in Writers : write'[v].at = "saved" /\ write'[v].saved = floor[r]
      BY <1>2 DEF FloorsAreSaved
    <2>1. PICK v \in Writers : write[v].at = "saved" /\ write[v].saved = floor[r]
      BY DEF CacheInv, FloorsAreSaved
    <2> QED BY <1>1, <2>1 DEF CacheInv, CacheTypeOK
  <1> QED BY <1>2, <1>4, <1>5, <1>6, <1>7, <1>8, ServingKept DEF CacheInv, serving

LEMMA QuietWriteIInv ==
  ASSUME CacheInv, QuietWrite
  PROVE  CacheInv'
  <1>1. version' = version + 1 /\ UNCHANGED <<announced, kept, slipped, write, drop, read, floor, tainted>>
    BY DEF QuietWrite, serving
  <1>2. CacheTypeOK'
    BY <1>1 DEF CacheInv, CacheTypeOK
  <1>3. SavesAreAnnounced'
    BY <1>1 DEF CacheInv, SavesAreAnnounced, CacheTypeOK
  <1>4. DropsFollowSaves' /\ FloorsAreSaved'
    BY <1>1 DEF CacheInv, DropsFollowSaves, FloorsAreSaved, AllDropped
  <1>5. PastKeysAreNew'
    BY <1>1 DEF CacheInv, PastKeysAreNew, PastKey
  <1> QED BY <1>1, <1>2, <1>3, <1>4, <1>5, ServingKept DEF CacheInv, serving

LEMMA ScanIInv ==
  ASSUME CacheInv, NEW w \in Writers, NEW p \in Patterns, Scan(w, p)
  PROVE  CacheInv'
  <1>1. write[w].at \in {"drop", "failed"} /\ drop[w][p].at = "scan"
    BY DEF Scan
  <1>2. drop' = [drop EXCEPT ![w][p] = [at |-> "delete", found |-> InPattern(p)]]
    BY DEF Scan
  <1>3. UNCHANGED <<version, announced, kept, slipped, write, read, floor, tainted>>
    BY DEF Scan, serving
  <1>4. InPattern(p) \in SUBSET Keys
    BY DEF InPattern
  <1>5. CacheTypeOK'
    BY <1>2, <1>3, <1>4 DEF CacheInv, CacheTypeOK, Drops
  <1>6. SavesAreAnnounced' /\ FloorsAreSaved'
    BY <1>3 DEF CacheInv, SavesAreAnnounced, FloorsAreSaved
  <1>7. DropsFollowSaves'
    BY <1>1, <1>2, <1>3 DEF CacheInv, DropsFollowSaves, AllDropped, CacheTypeOK
  <1>8. PastKeysAreNew'
    <2> SUFFICES ASSUME NEW v \in Writers, NEW k \in Keys, PastKey(v, k)', kept[k] # None, k \notin slipped
                 PROVE  write[v].saved <= kept[k]
      BY <1>3 DEF PastKeysAreNew
    <2>1. CASE v = w /\ Pattern[k] = p
      <3>1. k \in InPattern(p)
        BY <2>1 DEF InPattern
      <3> QED BY <1>2, <2>1, <3>1 DEF CacheInv, CacheTypeOK, PastKey
    <2>2. CASE ~(v = w /\ Pattern[k] = p)
      <3>1. PastKey(v, k)
        BY <1>2, <2>2, CatalogCacheAssumption DEF CacheInv, CacheTypeOK, PastKey
      <3> QED BY <3>1 DEF CacheInv, PastKeysAreNew
    <2> QED BY <2>1, <2>2
  <1> QED BY <1>3, <1>5, <1>6, <1>7, <1>8, ServingKept DEF CacheInv, serving

LEMMA DeleteIInv ==
  ASSUME CacheInv, NEW w \in Writers, NEW p \in Patterns, Delete(w, p)
  PROVE  CacheInv'
  <1> DEFINE found == drop[w][p].found
  <1>1. drop[w][p].at = "delete"
    BY DEF Delete
  <1>2. drop' = [drop EXCEPT ![w][p] = [at |-> "dropped", found |-> {}]]
    BY DEF Delete
  <1>3. PICK failed \in SUBSET found :
          /\ kept' = [k \in Keys |-> IF k \in found \ failed THEN None ELSE kept[k]]
          /\ slipped' = (slipped \ (found \ failed))
                        \cup {k \in failed : kept[k] # None /\ kept[k] < write[w].saved}
    BY DEF Delete
  <1>4. found \subseteq Keys
    BY DEF CacheInv, CacheTypeOK, Drops
  <1>5. UNCHANGED <<version, announced, write, read, floor, tainted>>
    BY DEF Delete, serving
  <1>6. CacheTypeOK'
    BY <1>2, <1>3, <1>5, <1>4 DEF CacheInv, CacheTypeOK, Drops
  <1>7. SavesAreAnnounced' /\ FloorsAreSaved'
    BY <1>5 DEF CacheInv, SavesAreAnnounced, FloorsAreSaved
  <1>8. DropsFollowSaves'
    BY <1>1, <1>2, <1>5 DEF CacheInv, DropsFollowSaves, AllDropped, CacheTypeOK
  <1>9. PastKeysAreNew'
    <2> SUFFICES ASSUME NEW v \in Writers, NEW k \in Keys, PastKey(v, k)', kept'[k] # None, k \notin slipped'
                 PROVE  write[v].saved <= kept'[k]
      BY <1>5 DEF PastKeysAreNew
    <2>1. k \notin found \ failed /\ kept'[k] = kept[k] /\ k \notin slipped
      BY <1>3
    <2>2. CASE v = w /\ k \in failed
      BY <1>3, <2>1, <2>2 DEF CacheInv, CacheTypeOK, Writes
    <2>3. ASSUME ~(v = w /\ k \in failed) PROVE PastKey(v, k)
      <3>1. CASE v = w /\ Pattern[k] = p
        BY <1>1, <2>1, <2>3, <3>1 DEF PastKey
      <3>2. CASE ~(v = w /\ Pattern[k] = p)
        BY <1>2, <3>2, CatalogCacheAssumption DEF CacheInv, CacheTypeOK, PastKey
      <3> QED BY <3>1, <3>2
    <2> QED BY <2>1, <2>3, <2>2 DEF CacheInv, PastKeysAreNew
  <1> QED BY <1>5, <1>6, <1>7, <1>8, <1>9, ServingKept DEF CacheInv, serving

LEMMA DropFailsIInv ==
  ASSUME CacheInv, NEW w \in Writers, NEW p \in Patterns, DropFails(w, p)
  PROVE  CacheInv'
  <1>1. write[w].saved > 0 /\ drop[w][p].at = "scan" /\ write[w] \in Writes
    BY DEF DropFails, CacheInv, CacheTypeOK
  <1>2. drop' = [drop EXCEPT ![w][p] = [at |-> "failed", found |-> {}]]
    BY DEF DropFails
  <1>3. write' = [write EXCEPT ![w] = [at |-> "failed", saved |-> write[w].saved]]
    <2>1. write[w] = [at |-> write[w].at, saved |-> write[w].saved]
      BY <1>1 DEF Writes
    <2>2. [write[w] EXCEPT !.at = "failed"] = [at |-> "failed", saved |-> write[w].saved]
      BY <2>1
    <2>3. write' = [write EXCEPT ![w] = [write[w] EXCEPT !.at = "failed"]]
      BY DEF DropFails
    <2> QED BY <2>2, <2>3
  <1>4. UNCHANGED <<version, announced, kept, slipped, read, floor, tainted>>
    BY DEF DropFails, serving
  <1>5. write[w].at # "saved"
    BY <1>1 DEF CacheInv, DropsFollowSaves, AllDropped
  <1>6. CacheTypeOK'
    BY <1>1, <1>2, <1>3, <1>4 DEF CacheInv, CacheTypeOK, Drops, Writes
  <1>7. \A v \in Writers : write'[v].saved = write[v].saved
    BY <1>3 DEF CacheInv, CacheTypeOK
  <1>8. SavesAreAnnounced'
    BY <1>4, <1>7 DEF CacheInv, SavesAreAnnounced
  <1>9. DropsFollowSaves'
    BY <1>2, <1>3 DEF CacheInv, DropsFollowSaves, AllDropped, CacheTypeOK
  <1>10. PastKeysAreNew'
    <2> SUFFICES ASSUME NEW v \in Writers, NEW k \in Keys, PastKey(v, k)', kept[k] # None, k \notin slipped
                 PROVE  write[v].saved <= kept[k]
      BY <1>4, <1>7 DEF PastKeysAreNew
    <2>1. PastKey(v, k)
      BY <1>2, CatalogCacheAssumption DEF CacheInv, CacheTypeOK, PastKey
    <2> QED BY <2>1 DEF CacheInv, PastKeysAreNew
  <1>11. FloorsAreSaved'
    <2> SUFFICES ASSUME NEW r \in Readers, floor[r] # 0
                 PROVE  \E v \in Writers : write'[v].at = "saved" /\ write'[v].saved = floor[r]
      BY <1>4 DEF FloorsAreSaved
    <2>1. PICK v \in Writers : write[v].at = "saved" /\ write[v].saved = floor[r]
      BY DEF CacheInv, FloorsAreSaved
    <2> QED BY <1>3, <1>5, <2>1 DEF CacheInv, CacheTypeOK
  <1> QED BY <1>4, <1>6, <1>8, <1>9, <1>10, <1>11, ServingKept DEF CacheInv, serving

LEMMA WriterStopsIInv ==
  ASSUME CacheInv, NEW w \in Writers, WriterStops(w)
  PROVE  CacheInv'
  <1>1. write[w].saved > 0 /\ write[w] \in Writes
        /\ \E p \in Patterns : drop[w][p].at # "dropped"
    BY DEF WriterStops, CacheInv, CacheTypeOK
  <1>2. /\ \A v \in Writers : v # w => drop'[v] = drop[v]
        /\ \A p \in Patterns : drop'[w][p] = IF drop[w][p].at = "dropped" THEN drop[w][p]
                                              ELSE [at |-> "failed", found |-> {}]
        /\ drop' \in [Writers -> [Patterns -> Drops]]
    BY DEF WriterStops, CacheInv, CacheTypeOK, Drops
  <1>3. write' = [write EXCEPT ![w] = [at |-> "failed", saved |-> write[w].saved]]
    <2>1. write[w] = [at |-> write[w].at, saved |-> write[w].saved]
      BY <1>1 DEF Writes
    <2>2. [write[w] EXCEPT !.at = "failed"] = [at |-> "failed", saved |-> write[w].saved]
      BY <2>1
    <2>3. write' = [write EXCEPT ![w] = [write[w] EXCEPT !.at = "failed"]]
      BY DEF WriterStops
    <2> QED BY <2>2, <2>3
  <1>4. UNCHANGED <<version, announced, kept, slipped, read, floor, tainted>>
    BY DEF WriterStops, serving
  <1>5. write[w].at # "saved"
    BY <1>1 DEF CacheInv, DropsFollowSaves, AllDropped
  <1>6. CacheTypeOK'
    BY <1>1, <1>2, <1>3, <1>4 DEF CacheInv, CacheTypeOK, Drops, Writes
  <1>7. \A v \in Writers : write'[v].saved = write[v].saved
    BY <1>3 DEF CacheInv, CacheTypeOK
  <1>8. SavesAreAnnounced'
    BY <1>4, <1>7 DEF CacheInv, SavesAreAnnounced
  <1>9. DropsFollowSaves'
    BY <1>2, <1>3 DEF CacheInv, DropsFollowSaves, AllDropped, CacheTypeOK
  <1>10. PastKeysAreNew'
    <2> SUFFICES ASSUME NEW v \in Writers, NEW k \in Keys, PastKey(v, k)', kept[k] # None, k \notin slipped
                 PROVE  write[v].saved <= kept[k]
      BY <1>4, <1>7 DEF PastKeysAreNew
    <2>1. PastKey(v, k)
      BY <1>2, CatalogCacheAssumption DEF CacheInv, CacheTypeOK, PastKey
    <2> QED BY <2>1 DEF CacheInv, PastKeysAreNew
  <1>11. FloorsAreSaved'
    <2> SUFFICES ASSUME NEW r \in Readers, floor[r] # 0
                 PROVE  \E v \in Writers : write'[v].at = "saved" /\ write'[v].saved = floor[r]
      BY <1>4 DEF FloorsAreSaved
    <2>1. PICK v \in Writers : write[v].at = "saved" /\ write[v].saved = floor[r]
      BY DEF CacheInv, FloorsAreSaved
    <2> QED BY <1>3, <1>5, <2>1 DEF CacheInv, CacheTypeOK
  <1> QED BY <1>4, <1>6, <1>8, <1>9, <1>10, <1>11, ServingKept DEF CacheInv, serving

LEMMA SavedIInv ==
  ASSUME CacheInv, NEW w \in Writers, Saved(w)
  PROVE  CacheInv'
  <1>1. write[w].at = "drop" /\ AllDropped(w) /\ write[w] \in Writes
    BY DEF Saved, CacheInv, CacheTypeOK
  <1>2. write' = [write EXCEPT ![w] = [at |-> "saved", saved |-> write[w].saved]]
    <2>1. write[w] = [at |-> write[w].at, saved |-> write[w].saved]
      BY <1>1 DEF Writes
    <2>2. [write[w] EXCEPT !.at = "saved"] = [at |-> "saved", saved |-> write[w].saved]
      BY <2>1
    <2>3. write' = [write EXCEPT ![w] = [write[w] EXCEPT !.at = "saved"]]
      BY DEF Saved
    <2> QED BY <2>2, <2>3
  <1>3. UNCHANGED <<version, announced, kept, slipped, drop, read, floor, tainted>>
    BY DEF Saved, serving
  <1>4. CacheTypeOK'
    BY <1>1, <1>2, <1>3 DEF CacheInv, CacheTypeOK, Writes
  <1>5. \A v \in Writers : write'[v].saved = write[v].saved
    BY <1>2 DEF CacheInv, CacheTypeOK
  <1>6. SavesAreAnnounced'
    BY <1>3, <1>5 DEF CacheInv, SavesAreAnnounced
  <1>7. DropsFollowSaves'
    BY <1>1, <1>2, <1>3 DEF CacheInv, DropsFollowSaves, AllDropped, CacheTypeOK
  <1>8. PastKeysAreNew'
    BY <1>3, <1>5 DEF CacheInv, PastKeysAreNew, PastKey
  <1>9. FloorsAreSaved'
    <2> SUFFICES ASSUME NEW r \in Readers, floor[r] # 0
                 PROVE  \E v \in Writers : write'[v].at = "saved" /\ write'[v].saved = floor[r]
      BY <1>3 DEF FloorsAreSaved
    <2>1. PICK v \in Writers : write[v].at = "saved" /\ write[v].saved = floor[r]
      BY DEF CacheInv, FloorsAreSaved
    <2> QED BY <1>2, <2>1 DEF CacheInv, CacheTypeOK
  <1> QED BY <1>3, <1>4, <1>6, <1>7, <1>8, <1>9, ServingKept DEF CacheInv, serving

LEMMA ExpireIInv ==
  ASSUME CacheInv, NEW k \in Keys, Expire(k)
  PROVE  CacheInv'
  <1>1. kept' = [kept EXCEPT ![k] = None] /\ slipped' = slipped \ {k}
    BY DEF Expire
  <1>2. UNCHANGED <<version, announced, write, drop, read, floor, tainted>>
    BY DEF Expire, serving
  <1>3. CacheTypeOK'
    BY <1>1, <1>2 DEF CacheInv, CacheTypeOK
  <1>4. SavesAreAnnounced' /\ DropsFollowSaves' /\ FloorsAreSaved'
    BY <1>2 DEF CacheInv, SavesAreAnnounced, DropsFollowSaves, FloorsAreSaved, AllDropped
  <1>5. PastKeysAreNew'
    BY <1>1, <1>2 DEF CacheInv, PastKeysAreNew, PastKey, CacheTypeOK
  <1> QED BY <1>2, <1>3, <1>4, <1>5, ServingKept DEF CacheInv, serving

-----------------------------------------------------------------------------
LEMMA NextCacheInv ==
  ASSUME CacheInv, [CacheNext]_cacheVars
  PROVE  CacheInv'
  <1>1. ASSUME NEW r \in Readers, ReadStep(r) \/ ReadFails(r) \/ \E k \in Keys : Ask(r, k)
        PROVE  CacheInv'
    BY <1>1, AskIInv, LookUpIInv, QueryIInv, FillIInv, ReadFailsIInv DEF ReadStep
  <1>2. ASSUME NEW w \in Writers, Save(w) \/ DropStep(w) \/ WriterStops(w) \/ \E p \in Patterns : DropFails(w, p)
        PROVE  CacheInv'
    BY <1>2, SaveIInv, SavedIInv, ScanIInv, DeleteIInv, WriterStopsIInv, DropFailsIInv DEF DropStep
  <1>3. ASSUME NEW k \in Keys, Expire(k)
        PROVE  CacheInv'
    BY <1>3, ExpireIInv
  <1>4. CASE QuietWrite
    BY <1>4, QuietWriteIInv
  <1>5. CASE UNCHANGED cacheVars
    <2>1. UNCHANGED <<version, announced, kept, slipped, write, drop, read, floor, tainted>>
      BY <1>5 DEF cacheVars
    <2>2. CacheTypeOK' /\ SavesAreAnnounced'
      BY <2>1 DEF CacheInv, CacheTypeOK, SavesAreAnnounced
    <2>3. DropsFollowSaves' /\ FloorsAreSaved'
      BY <2>1 DEF CacheInv, DropsFollowSaves, FloorsAreSaved, AllDropped
    <2>4. PastKeysAreNew'
      BY <2>1 DEF CacheInv, PastKeysAreNew, PastKey
    <2> QED BY <2>1, <2>2, <2>3, <2>4, ServingKept DEF CacheInv, serving
  <1> QED BY <1>1, <1>2, <1>3, <1>4, <1>5 DEF CacheNext

LEMMA CacheInvariant == CacheSpec => []CacheInv
  BY InitCacheInv, NextCacheInv, PTL DEF CacheSpec

\* The variables of the kept answers always have their types.
THEOREM CacheTypeCorrect == CacheSpec => []CacheTypeOK
  <1>1. CacheInv => CacheTypeOK
    BY DEF CacheInv
  <1> QED BY <1>1, CacheInvariant, PTL

\* What an admin was told is saved is what Redis keeps and what a visitor who asks
\* afterwards is shown, unless a fill overtook the deletion or a DEL failed unread: the
\* two ways, and the only ones, in which "reflected immediately"
\* (catalog/products.service.ts:177) is not kept, whatever fails, expires or runs at once.
THEOREM SavedWritesAreShown == CacheSpec => []SavedWritesShow
  <1>1. CacheInv => SavedWritesShow
    <2> SUFFICES ASSUME CacheInv PROVE StaleOnlyIfSlipped
      BY DEF CacheInv, SavedWritesShow
    <2> SUFFICES ASSUME NEW k \in Keys, NEW w \in Writers,
                        write[w].at = "saved", kept[k] # None, k \notin slipped
                 PROVE  write[w].saved <= kept[k]
      BY DEF StaleOnlyIfSlipped
    <2>1. Pattern[k] \in Patterns
      BY CatalogCacheAssumption
    <2>2. PastKey(w, k)
      BY <2>1 DEF CacheInv, DropsFollowSaves, AllDropped, PastKey
    <2> QED BY <2>2 DEF CacheInv, PastKeysAreNew
  <1> QED BY <1>1, CacheInvariant, PTL

-----------------------------------------------------------------------------
(* Search and facets: for every catalogue, query and size of a page.         *)

\* Up to the page it is at, the shopper has seen what comes that early in the order, once.
SeenSoFar ==
  /\ query = NoQuery => page = 0 /\ shown = [i \in ItemIds |-> 0]
  /\ query # NoQuery =>
       /\ query \in Queries /\ catalogue \in [ItemIds -> Items]
       /\ page \in 0..TotalPages(catalogue, query)
       /\ shown = [i \in ItemIds |->
            IF i \in Found(catalogue, query) /\ Skipped(catalogue, query, i) < page * PerPage
            THEN 1 ELSE 0]

LEMMA ItemFields ==
  ASSUME NEW c \in [ItemIds -> Items], NEW i \in ItemIds
  PROVE  c[i] \in ItemRows
  BY CatalogSearchAssumption

\* No product comes before itself.
LEMMA BeforeIrreflexive ==
  ASSUME NEW c \in [ItemIds -> Items], NEW sort, NEW i \in ItemIds
  PROVE  ~Before(c, sort, i, i)
  <1>1. c[i].price \in Nat /\ c[i].rating \in Nat /\ c[i].votes \in Nat /\ c[i].created \in Nat /\ i \in Nat
    BY ItemFields, CatalogSearchAssumption DEF ItemRows
  <1>2. \A x \in Nat : ~First(<<<<x, x>>, <<i, i>>>>, i, i)
    BY <1>1 DEF First
  <1>3. \A x, y \in Nat : ~First(<<<<x, x>>, <<y, y>>, <<i, i>>>>, i, i)
    BY <1>1 DEF First
  <1> QED BY <1>1, <1>2, <1>3 DEF Before

\* A product that is found is preceded by fewer products than are found.
LEMMA SkippedBelowTotal ==
  ASSUME NEW c \in [ItemIds -> Items], NEW q, NEW i \in Found(c, q)
  PROVE  /\ Cardinality(Found(c, q)) \in Nat
         /\ Skipped(c, q, i) \in 0..(Cardinality(Found(c, q)) - 1)
  <1> DEFINE F == Found(c, q)
             B == {j \in F : Before(c, q.sort, j, i)}
  <1>1. IsFiniteSet(F) /\ Cardinality(F) \in Nat
    BY CatalogSearchAssumption, FS_Subset, FS_CardinalityType DEF Found
  <1>2. B \in SUBSET F /\ i \notin B /\ i \in F
    BY BeforeIrreflexive DEF Found
  <1> HIDE DEF F, B
  <1>3. IsFiniteSet(B) /\ Cardinality(B) \in Nat /\ Cardinality(B) <= Cardinality(F)
        /\ (Cardinality(F) = Cardinality(B) => F = B)
    BY <1>1, <1>2, FS_Subset, FS_CardinalityType
  <1>4. Cardinality(B) \in 0..(Cardinality(F) - 1)
    BY <1>1, <1>2, <1>3
  <1> QED BY <1>1, <1>4 DEF F, B, Skipped

LEMMA TimesPerPage ==
  ASSUME NEW n \in Nat
  PROVE  n * PerPage \in Nat /\ (n + 1) * PerPage = n * PerPage + PerPage
  BY CatalogSearchAssumption

\* The last page ends behind the last product.
LEMMA PagesHoldAll ==
  ASSUME NEW c \in [ItemIds -> Items], NEW q
  PROVE  /\ TotalPages(c, q) \in Nat
         /\ Cardinality(Found(c, q)) <= TotalPages(c, q) * PerPage
  <1> DEFINE total == Cardinality(Found(c, q))
  <1>1. total \in Nat
    BY CatalogSearchAssumption, FS_Subset, FS_CardinalityType DEF Found
  <1>2. PerPage \in Int /\ PerPage > 0
    BY CatalogSearchAssumption
  <1> HIDE DEF total
  <1> DEFINE d == (total + PerPage - 1) \div PerPage
             r == (total + PerPage - 1) % PerPage
  <1>3. d \in Nat /\ r \in Int /\ total + PerPage - 1 = PerPage * d + r /\ r < PerPage
    BY <1>1, <1>2
  <1>4. d * PerPage = PerPage * d
    BY <1>2, <1>3
  <1>5. total <= d * PerPage
    BY <1>1, <1>2, <1>3, <1>4
  <1>6. TotalPages(c, q) = IF total = 0 THEN 1 ELSE d
    BY DEF TotalPages, total
  <1>7. 0 <= 1 * PerPage
    BY <1>2
  <1> HIDE DEF d
  <1>8. TotalPages(c, q) \in Nat /\ total <= TotalPages(c, q) * PerPage
    BY <1>1, <1>3, <1>5, <1>6, <1>7
  <1> QED BY <1>8 DEF total

LEMMA OnPage ==
  ASSUME NEW c, NEW q, NEW n \in Nat, NEW i \in Found(c, q), Skipped(c, q, i) \in Nat
  PROVE  i \in Page(c, q, n + 1) <=>
           n * PerPage <= Skipped(c, q, i) /\ Skipped(c, q, i) < n * PerPage + PerPage
  <1> DEFINE k == Skipped(c, q, i)
  <1>1. n + 1 - 1 = n /\ n + 1 \in Nat
    OBVIOUS
  <1>2. i \in Page(c, q, n + 1) <=> k >= (n + 1 - 1) * PerPage /\ k < (n + 1) * PerPage
    <2> DEFINE T == {j \in Found(c, q) : /\ Skipped(c, q, j) >= (n + 1 - 1) * PerPage
                                         /\ Skipped(c, q, j) < (n + 1) * PerPage}
    <2>1. Page(c, q, n + 1) = T
      BY DEF Page
    <2>2. i \in T <=> k >= (n + 1 - 1) * PerPage /\ k < (n + 1) * PerPage
      OBVIOUS
    <2> QED BY <2>1, <2>2
  <1>3. (n + 1) * PerPage = n * PerPage + PerPage /\ n * PerPage \in Nat
    BY TimesPerPage
  <1> HIDE DEF k
  <1>4. k >= n * PerPage <=> n * PerPage <= k
    BY <1>3 DEF k
  <1>5. i \in Page(c, q, n + 1) <=> k >= n * PerPage /\ k < n * PerPage + PerPage
    BY <1>1, <1>2, <1>3
  <1> QED BY <1>4, <1>5 DEF k

LEMMA InitSeen == SearchInit => SeenSoFar
  BY DEF SearchInit, SeenSoFar

LEMMA NextSeen == SeenSoFar /\ [SearchNext]_searchVars => SeenSoFar'
  <1> SUFFICES ASSUME SeenSoFar, [SearchNext]_searchVars PROVE SeenSoFar'
    OBVIOUS
  <1>1. CASE UNCHANGED searchVars
    BY <1>1 DEF SeenSoFar, searchVars, Found, Skipped, TotalPages
  <1>2. ASSUME NEW c \in [ItemIds -> Items], NEW q \in Queries, AskQuery(c, q) PROVE SeenSoFar'
    <2>1. catalogue' = c /\ query' = q /\ page' = 0 /\ shown' = [i \in ItemIds |-> 0]
          /\ q # NoQuery
      BY <1>2, CatalogSearchAssumption DEF AskQuery, SeenSoFar
    <2>2. TotalPages(c, q) \in Nat /\ 0 * PerPage = 0
      BY PagesHoldAll, CatalogSearchAssumption
    <2>3. \A i \in Found(c, q) : ~(Skipped(c, q, i) < 0)
      BY SkippedBelowTotal
    <2> HIDE DEF TotalPages, Skipped, Found
    <2>4. \A i \in ItemIds : shown'[i] = IF i \in Found(c, q) /\ Skipped(c, q, i) < 0 * PerPage THEN 1 ELSE 0
      BY <2>1, <2>2, <2>3
    <2> QED BY <2>1, <2>2, <2>4 DEF SeenSoFar
  <1>3. CASE TurnPage
    <2> DEFINE c == catalogue  q == query
    <2>1. q # NoQuery /\ q \in Queries /\ c \in [ItemIds -> Items] /\ page \in 0..TotalPages(c, q)
      BY <1>3 DEF TurnPage, SeenSoFar
    <2>2. catalogue' = c /\ query' = q /\ page' = page + 1 /\ page < TotalPages(c, q)
          /\ shown' = [i \in ItemIds |-> IF i \in Page(c, q, page + 1) THEN shown[i] + 1 ELSE shown[i]]
      BY <1>3 DEF TurnPage
    <2>3. page' \in 0..TotalPages(c, q)
      BY <2>1, <2>2, PagesHoldAll
    <2>4. (page + 1) * PerPage = page * PerPage + PerPage /\ page * PerPage \in Nat
          /\ (page + 1 - 1) * PerPage = page * PerPage
      BY <2>1, PagesHoldAll, TimesPerPage
    <2>5. \A i \in ItemIds :
            shown'[i] = IF i \in Found(c, q) /\ Skipped(c, q, i) < (page + 1) * PerPage THEN 1 ELSE 0
      <3> SUFFICES ASSUME NEW i \in ItemIds
                   PROVE  shown'[i] = IF i \in Found(c, q) /\ Skipped(c, q, i) < (page + 1) * PerPage
                                      THEN 1 ELSE 0
        OBVIOUS
      <3>1. shown[i] = IF i \in Found(c, q) /\ Skipped(c, q, i) < page * PerPage THEN 1 ELSE 0
        BY <1>3 DEF TurnPage, SeenSoFar
      <3>2. CASE i \notin Found(c, q)
        BY <3>1, <3>2, <2>2 DEF Page
      <3>3. CASE i \in Found(c, q)
        <4>1. Skipped(c, q, i) \in Nat
          BY <2>1, <3>3, SkippedBelowTotal
        <4>2. i \in Page(c, q, page + 1) <=>
                Skipped(c, q, i) >= page * PerPage /\ Skipped(c, q, i) < (page + 1) * PerPage
          BY <2>1, <3>3, <4>1, <2>4, PagesHoldAll, OnPage
        <4>3. PerPage \in Nat
          BY CatalogSearchAssumption
        <4> QED BY <4>1, <4>2, <4>3, <3>1, <3>3, <2>2, <2>4
      <3> QED BY <3>2, <3>3
    <2> HIDE DEF Skipped, Found, TotalPages
    <2>6. shown' = [i \in ItemIds |->
            IF i \in Found(c, q) /\ Skipped(c, q, i) < page' * PerPage THEN 1 ELSE 0]
      BY <2>2, <2>5
    <2> QED BY <2>1, <2>2, <2>3, <2>6 DEF SeenSoFar
  <1> QED BY <1>1, <1>2, <1>3 DEF SearchNext

LEMMA SearchInvariant == SearchSpec => []SeenSoFar
  BY InitSeen, NextSeen, PTL DEF SearchSpec

LEMMA SeenAll == SeenSoFar => EveryProductOnOnePage
  <1> SUFFICES ASSUME SeenSoFar, query # NoQuery, page = TotalPages(catalogue, query),
                      NEW i \in ItemIds
               PROVE  shown[i] = IF i \in Found(catalogue, query) THEN 1 ELSE 0
    BY DEF EveryProductOnOnePage
  <1>1. catalogue \in [ItemIds -> Items]
        /\ shown[i] = IF i \in Found(catalogue, query)
                         /\ Skipped(catalogue, query, i) < TotalPages(catalogue, query) * PerPage
                      THEN 1 ELSE 0
    BY DEF SeenSoFar
  <1>2. CASE i \in Found(catalogue, query)
    <2>1. /\ Cardinality(Found(catalogue, query)) \in Nat
          /\ Skipped(catalogue, query, i) \in 0..(Cardinality(Found(catalogue, query)) - 1)
      BY <1>1, <1>2, SkippedBelowTotal
    <2>2. /\ TotalPages(catalogue, query) \in Nat
          /\ Cardinality(Found(catalogue, query)) <= TotalPages(catalogue, query) * PerPage
      BY <1>1, PagesHoldAll
    <2>3. TotalPages(catalogue, query) * PerPage \in Nat
      BY <2>2, TimesPerPage
    <2> QED BY <1>1, <1>2, <2>1, <2>2, <2>3
  <1>3. CASE i \notin Found(catalogue, query)
    BY <1>1, <1>3
  <1> QED BY <1>2, <1>3

-----------------------------------------------------------------------------
\* A set of naturals that has a member has a least one, and a greatest if it is bounded.
NatLess == {ss \in Nat \X Nat : ss[1] < ss[2]}

LEMMA HasLeast ==
  ASSUME NEW S \in SUBSET Nat, S # {}
  PROVE  \E x \in S : \A y \in S : x <= y
  <1>1. IsWellFoundedOn(NatLess, Nat)
    BY NatLessThanWellFounded, Zenon DEF NatLess, OpToRel
  <1>2. \E x \in S : \A y \in S : <<y, x>> \notin NatLess
    BY <1>1, WFMin
  <1>3. \A x, y \in Nat : y < x => <<y, x>> \in NatLess
    BY DEF NatLess
  <1>4. PICK x \in S : \A y \in S : <<y, x>> \notin NatLess
    BY <1>2
  <1>5. \A y \in S : ~(y < x) /\ x \in Nat /\ y \in Nat
    BY <1>3, <1>4
  <1>6. \A y \in S : x <= y
    BY <1>5
  <1> QED BY <1>6

LEMMA HasGreatest ==
  ASSUME NEW S \in SUBSET Nat, S # {}, NEW n \in Nat, \A x \in S : x <= n
  PROVE  \E x \in S : \A y \in S : y <= x
  <1> DEFINE T == {n - x : x \in S}
  <1>1. T \in SUBSET Nat /\ T # {}
    <2>1. \A x \in S : n - x \in Nat
      OBVIOUS
    <2> QED BY <2>1
  <1> HIDE DEF T
  <1>2. PICK t \in T : \A u \in T : t <= u
    BY <1>1, HasLeast
  <1>3. PICK x \in S : t = n - x
    BY <1>2 DEF T
  <1>4. \A y \in S : n - x <= n - y
    BY <1>2, <1>3 DEF T
  <1> QED BY <1>3, <1>4

LEMMA FacetsTrue == SeenSoFar => FacetsTellTheTruth
  <1> SUFFICES ASSUME SeenSoFar, query # NoQuery PROVE FacetsTellTheTruth
    BY DEF FacetsTellTheTruth
  <1> DEFINE c == catalogue  q == query  F == Found(c, q)  bounds == PriceBounds(c, q)
             inBounds == [q EXCEPT !.minPrice = bounds.min, !.maxPrice = bounds.max]
  <1>1. q \in QueryRows /\ c \in [ItemIds -> Items]
    BY CatalogSearchAssumption DEF SeenSoFar
  <1>2. \A i \in ItemIds : c[i] \in ItemRows
    BY <1>1, ItemFields
  <1>3. ASSUME NEW b \in {c[i].brand : i \in F}
        PROVE  BrandCount(c, q, b) = Cardinality(Found(c, [q EXCEPT !.brands = {b}]))
    <2>1. {i \in F : c[i].brand = b} = Found(c, [q EXCEPT !.brands = {b}])
      BY <1>1, <1>2, <1>3 DEF Found, Matches, QueryRows
    <2> QED BY <2>1 DEF BrandCount
  <1>4. ASSUME NEW w \in UNION {c[i].words : i \in F}
        PROVE  AttributeCount(c, q, w) = Cardinality(Found(c, [q EXCEPT !.q = @ \cup {w}]))
    <2>1. {i \in F : w \in c[i].words} = Found(c, [q EXCEPT !.q = @ \cup {w}])
      BY <1>1, <1>2 DEF Found, Matches, QueryRows
    <2> QED BY <2>1 DEF AttributeCount
  <1>5. ASSUME F # {} PROVE Found(c, inBounds) = F
    <2> DEFINE P == {c[i].price : i \in F}
    <2>1. P \in SUBSET Nat /\ P # {}
      BY <1>2, <1>5 DEF Found, ItemRows
    <2>2. \A x \in P : x <= q.maxPrice /\ q.minPrice <= x
      BY <1>2 DEF Found, Matches
    <2>3. q.maxPrice \in Nat /\ q.minPrice \in Nat
      BY <1>1 DEF QueryRows
    <2>4. bounds = [min |-> CHOOSE x \in P : \A y \in P : x <= y,
                    max |-> CHOOSE x \in P : \A y \in P : y <= x]
      BY <2>1 DEF PriceBounds
    <2> HIDE DEF P
    <2>5. (\E x \in P : \A y \in P : x <= y) /\ (\E x \in P : \A y \in P : y <= x)
      BY <2>1, <2>2, <2>3, HasLeast, HasGreatest
    <2>6. bounds.min \in P /\ (\A y \in P : bounds.min <= y)
      BY <2>4, <2>5
    <2>7. bounds.max \in P /\ (\A y \in P : y <= bounds.max)
      BY <2>4, <2>5
    <2> HIDE DEF bounds
    <2>8. \A i \in ItemIds : Matches(c[i], q) => Matches(c[i], inBounds)
      BY <1>1, <2>6, <2>7 DEF Matches, QueryRows, P, Found
    <2>9. \A i \in ItemIds : Matches(c[i], inBounds) => Matches(c[i], q)
      <3> SUFFICES ASSUME NEW i \in ItemIds, Matches(c[i], inBounds) PROVE Matches(c[i], q)
        OBVIOUS
      <3>1. bounds.min <= c[i].price /\ c[i].price <= bounds.max /\ c[i].price \in Nat
        BY <1>1, <1>2 DEF Matches, QueryRows, ItemRows
      <3>2. q.minPrice <= c[i].price /\ c[i].price <= q.maxPrice
        BY <3>1, <2>1, <2>2, <2>3, <2>6, <2>7
      <3> QED BY <1>1, <3>2 DEF Matches, QueryRows
    <2> QED BY <2>8, <2>9 DEF Found
  <1> QED BY <1>3, <1>4, <1>5 DEF FacetsTellTheTruth

\* Whatever the products, the query and the size of a page, a shopper who turns all pages sees
\* each product found once, and the facets count what choosing them will find.
THEOREM SearchIsWhole == SearchSpec => [](EveryProductOnOnePage /\ FacetsTellTheTruth)
  BY SearchInvariant, SeenAll, FacetsTrue, PTL

-----------------------------------------------------------------------------
(* Uploads: for every set of files and uploads, and however they overlap.    *)

\* What the parser makes of the first rows.
ParsedNext(f, s, n) ==
  IF n = 0 THEN <<>>
  ELSE IF WellFormed(s[n]) THEN Append(f[n - 1], s[n])
  ELSE f[n - 1]
ParsesTo(s, k) ==
  \E f \in [0..k -> Seq(RowsOfFile)] : \A n \in 0..k : f[n] = ParsedNext(f, s, n)

LEMMA AllParse ==
  ASSUME NEW s \in Seq(RowsOfFile)
  PROVE  ParsesTo(s, Len(s))
  <1> DEFINE Bad == {k \in 0..Len(s) : ~ParsesTo(s, k)}
  <1>1. ASSUME Bad # {} PROVE FALSE
    <2>1. Bad \in SUBSET Nat
      OBVIOUS
    <2>2. PICK k \in Bad : \A m \in Bad : k <= m
      BY <1>1, <2>1, HasLeast
    <2>3. CASE k = 0
      <3>1. [n \in 0..0 |-> <<>>] \in [0..0 -> Seq(RowsOfFile)]
        OBVIOUS
      <3>2. \A n \in 0..0 : [m \in 0..0 |-> <<>>][n] = ParsedNext([m \in 0..0 |-> <<>>], s, n)
        BY DEF ParsedNext
      <3>3. ParsesTo(s, 0)
        BY <3>1, <3>2 DEF ParsesTo
      <3> QED BY <2>3, <3>3
    <2>4. CASE k # 0
      <3>1. k \in Nat /\ k - 1 \in 0..Len(s) /\ k \in 1..Len(s) /\ ParsesTo(s, k - 1)
        BY <2>2, <2>4
      <3>2. PICK f \in [0..(k - 1) -> Seq(RowsOfFile)] :
              \A n \in 0..(k - 1) : f[n] = ParsedNext(f, s, n)
        BY <3>1 DEF ParsesTo
      <3> DEFINE last == IF WellFormed(s[k]) THEN Append(f[k - 1], s[k]) ELSE f[k - 1]
                 g == [n \in 0..k |-> IF n = k THEN last ELSE f[n]]
      <3>3. last \in Seq(RowsOfFile)
        BY <3>1
      <3> HIDE DEF last
      <3>4. g \in [0..k -> Seq(RowsOfFile)]
        BY <3>1, <3>3
      <3>5. ASSUME NEW n \in 0..k PROVE g[n] = ParsedNext(g, s, n)
        <4>1. CASE n = k
          <5>1. g[n] = last /\ g[n - 1] = f[k - 1] /\ n # 0
            BY <4>1, <3>1
          <5> QED BY <5>1, <4>1 DEF ParsedNext, last
        <4>2. CASE n # k
          <5>1. n \in 0..(k - 1) /\ g[n] = f[n] /\ (n # 0 => g[n - 1] = f[n - 1])
            BY <4>2, <3>1
          <5> QED BY <5>1, <3>2 DEF ParsedNext
        <4> QED BY <4>1, <4>2
      <3> HIDE DEF g
      <3>6. ParsesTo(s, k)
        BY <3>4, <3>5 DEF ParsesTo
      <3> QED BY <2>2, <3>6
    <2> QED BY <2>3, <2>4
  <1> QED BY <1>1

\* The rows that an upload goes through are rows of its file; the row of a single product
\* is all that there is.
LEMMA RowsAreParsed ==
  ASSUME NEW u \in Uploads
  PROVE  /\ RowsOf(u) \in Seq(RowsOfFile)
         /\ u \in Single => RowsOf(u) = <<File[u][1]>>
  <1> DEFINE s == File[u]
             G(f) == [n \in 0..Len(s) |->
                        IF n = 0 THEN <<>>
                        ELSE IF WellFormed(s[n]) THEN Append(f[n - 1], s[n]) ELSE f[n - 1]]
             h == CHOOSE f : f = G(f)
  <1>1. s \in Seq(RowsOfFile) /\ Len(s) \in Nat
    BY BulkUploadAssumption
  <1>2. PICK f \in [0..Len(s) -> Seq(RowsOfFile)] : \A n \in 0..Len(s) : f[n] = ParsedNext(f, s, n)
    BY <1>1, AllParse DEF ParsesTo
  <1>3. f = G(f)
    BY <1>2 DEF ParsedNext
  <1>4. h = G(h)
    BY <1>3, Zenon
  <1> HIDE DEF h
  <1>5. RowsOf(u) = h[Len(s)]
    BY Zenon DEF RowsOf, h
  <1> DEFINE Bad == {n \in 0..Len(s) : h[n] # f[n]}
  <1>6. ASSUME Bad # {} PROVE FALSE
    <2>1. PICK k \in Bad : \A m \in Bad : k <= m
      <3>1. Bad \in SUBSET Nat
        OBVIOUS
      <3> QED BY <3>1, <1>6, HasLeast
    <2>2. k # 0 => h[k - 1] = f[k - 1]
      BY <2>1, <1>1
    <2>3. h[k] = f[k]
      BY <1>4, <1>3, <2>1, <2>2, <1>1
    <2> QED BY <2>1, <2>3
  <1>7. RowsOf(u) = f[Len(s)]
    BY <1>5, <1>6, <1>1
  <1>8. ASSUME u \in Single PROVE f[Len(s)] = <<s[1]>>
    <2>1. Len(s) = 1 /\ WellFormed(s[1])
      BY <1>8, BulkUploadAssumption DEF WellFormed
    <2>2. f[0] = <<>> /\ f[1] = Append(f[0], s[1])
      BY <1>3, <2>1
    <2> QED BY <2>1, <2>2
  <1> QED BY <1>1, <1>2, <1>7, <1>8

-----------------------------------------------------------------------------
\* One outcome for each row that is done with, and all rows are at the end.
RowsCounted ==
  \A u \in Uploads :
    /\ At(u, "idle") => outcome[u] = <<>>
    /\ u \in Uploading => Len(outcome[u]) = upload[u].row - 1
    /\ At(u, "drop") => upload[u].row = Len(RowsOf(u)) + 1
    /\ At(u, "done") => Len(outcome[u]) = Len(RowsOf(u))

\* Of two uploads that run at the same time each has met another.
UploadsMeet ==
  \A u, v \in Uploading : u # v => u \in spoiled

\* What an upload found out about its row is still so, if it met no other; a slug it found
\* taken stays taken whatever it met.
InRow == {"findBrand", "createBrand", "fallback", "slug", "existing", "create", "update"}
ReadHolds(u) ==
  /\ At(u, "update") => Taken(Slug(u))
  /\ u \notin spoiled /\ upload[u].at \in {"existing", "create"} => ~Taken(Slug(u))
  /\ u \notin spoiled /\ At(u, "createBrand") => Row(u).brand \notin brands
  /\ upload[u].at \in {"findBrand", "createBrand"} => Row(u).brand # Unbranded
  /\ upload[u].at \in InRow =>
       Row(u).category \in KnownCategories \/ (u \in Single /\ upload[u].at \in {"slug", "create"})
ReadsHold == \A u \in Uploads : ReadHolds(u)

OutcomesFit ==
  \A u \in Uploads \ spoiled : \A i \in DOMAIN outcome[u] :
    outcome[u][i] = "imported" <=> RowsOf(u)[i].category \in KnownCategories

\* A row that is in left a product, until a row of that name takes it over.
Leaves(u, i, p) ==
  /\ p.slug.base = RowsOf(u)[i].name
  /\ p.by = <<u, i>> \/ p.by[1] # u \/ (i < p.by[2] /\ RowsOf(u)[p.by[2]].name = p.slug.base)
ImportedIsThere ==
  \A u \in Uploads : \A i \in Imported(u) : \E p \in products : Leaves(u, i, p)

Accounted(p) ==
  \/ p.by \in unheard
  \/ p.by[2] \in DOMAIN outcome[p.by[1]] /\ outcome[p.by[1]][p.by[2]] = "imported"

UploadsInv ==
  /\ BulkTypeOK
  /\ RowsCounted
  /\ UploadsMeet
  /\ ReadsHold
  /\ OutcomesFit
  /\ ImportedIsThere
  /\ SkippedRowsLeaveNothing

LEMMA InitUploadsInv == BulkInit => UploadsInv
  <1> SUFFICES ASSUME BulkInit PROVE UploadsInv
    OBVIOUS
  <1> USE DEF BulkInit, Idle, Uploading, UploadOver, At
  <1>1. BulkTypeOK
    BY DEF BulkTypeOK, UploadSteps
  <1>2. RowsCounted /\ UploadsMeet
    BY DEF RowsCounted, UploadsMeet
  <1>3. ReadsHold
    BY DEF ReadsHold, ReadHolds, InRow
  <1>4. OutcomesFit
    BY DEF OutcomesFit
  <1>5. ImportedIsThere
    BY DEF ImportedIsThere, Imported
  <1>6. SkippedRowsLeaveNothing
    BY DEF SkippedRowsLeaveNothing
  <1> QED BY <1>1, <1>2, <1>3, <1>4, <1>5, <1>6 DEF UploadsInv

-----------------------------------------------------------------------------
LEMMA RowsStay == \A u : RowsOf(u)' = RowsOf(u)
  BY DEF RowsOf

\* What a row's report leaves: one outcome more, and the next row, the end or a refusal.
LEMMA ReportLeaves ==
  ASSUME BulkTypeOK, RowsCounted, NEW u \in Uploading, ~At(u, "drop"),
         NEW r \in {"imported", "skipped"}, Report(u, r)
  PROVE  /\ upload[u].row \in DOMAIN RowsOf(u) /\ Len(outcome[u]) = upload[u].row - 1
         /\ outcome' \in [Uploads -> Seq({"imported", "skipped"})]
         /\ upload' \in [Uploads -> [at : UploadSteps, row : Nat, n : Nat, fallback : BOOLEAN]]
         /\ Uploading' \subseteq Uploading
         /\ \A v \in Uploads \ {u} : upload'[v] = upload[v] /\ outcome'[v] = outcome[v]
         /\ DOMAIN outcome'[u] = 1..upload[u].row /\ DOMAIN outcome[u] = 1..(upload[u].row - 1)
         /\ \A i \in DOMAIN outcome[u] : outcome'[u][i] = outcome[u][i]
         /\ outcome'[u][upload[u].row] = r
         /\ upload'[u].at \in {"row", "drop", "refused"}
         /\ \A v \in Uploading' : upload'[v].row \in DOMAIN RowsOf(v) \/ upload'[v].at = "drop"
         /\ RowsCounted'
  <1> USE DEF At
  <1> DEFINE n == upload[u].row  R == RowsOf(u)
  <1>1. u \in Uploads /\ upload[u] \in [at : UploadSteps, row : Nat, n : Nat, fallback : BOOLEAN]
        /\ outcome[u] \in Seq({"imported", "skipped"}) /\ R \in Seq(RowsOfFile)
    BY RowsAreParsed DEF BulkTypeOK, Uploading
  <1>2. n \in DOMAIN R /\ Len(outcome[u]) = n - 1 /\ n \in Nat /\ DOMAIN R = 1..Len(R)
        /\ Len(R) \in Nat
    BY <1>1 DEF BulkTypeOK, RowsCounted
  <1>3. outcome' = [outcome EXCEPT ![u] = Append(@, r)]
    BY DEF Report
  <1>4. outcome'[u] = Append(outcome[u], r) /\ Append(outcome[u], r) \in Seq({"imported", "skipped"})
        /\ Len(Append(outcome[u], r)) = n
    BY <1>1, <1>2, <1>3 DEF BulkTypeOK
  <1>5. outcome' \in [Uploads -> Seq({"imported", "skipped"})]
        /\ \A v \in Uploads \ {u} : outcome'[v] = outcome[v]
    BY <1>3, <1>4 DEF BulkTypeOK
  <1>6. DOMAIN outcome'[u] = 1..n /\ DOMAIN outcome[u] = 1..(n - 1)
        /\ (\A i \in DOMAIN outcome[u] : outcome'[u][i] = outcome[u][i])
        /\ outcome'[u][n] = r
    BY <1>1, <1>2, <1>4
  <1>7. \/ upload' = [upload EXCEPT ![u] = [Idle EXCEPT !.at = "refused"]]
        \/ n = Len(R) /\ upload' = [upload EXCEPT ![u].row = n + 1, ![u].n = 0, ![u].at = "drop"]
        \/ n # Len(R) /\ upload' = [upload EXCEPT ![u].row = n + 1, ![u].n = 0, ![u].at = "row"]
    BY <1>1 DEF Report, To, UploadOver, LastRow, BulkTypeOK
  <1> DEFINE next(step) == [at |-> step, row |-> n + 1, n |-> 0, fallback |-> upload[u].fallback]
  <1>7a. /\ \A v \in Uploads \ {u} : upload'[v] = upload[v]
         /\ upload' = [v \in Uploads |-> upload'[v]]
         /\ \/ upload'[u] = [at |-> "refused", row |-> 0, n |-> 0, fallback |-> FALSE]
            \/ n = Len(R) /\ upload'[u] = next("drop")
            \/ n # Len(R) /\ upload'[u] = next("row")
    <2> HIDE DEF R
    <2>1. CASE upload' = [upload EXCEPT ![u] = [Idle EXCEPT !.at = "refused"]]
      BY <1>1, <2>1 DEF BulkTypeOK, Idle
    <2>2. CASE n = Len(R) /\ upload' = [upload EXCEPT ![u].row = n + 1, ![u].n = 0, ![u].at = "drop"]
      BY <1>1, <2>2 DEF BulkTypeOK
    <2>3. CASE n # Len(R) /\ upload' = [upload EXCEPT ![u].row = n + 1, ![u].n = 0, ![u].at = "row"]
      BY <1>1, <2>3 DEF BulkTypeOK
    <2> QED BY <1>7, <2>1, <2>2, <2>3
  <1> HIDE DEF R
  <1>8. /\ \A v \in Uploads \ {u} : upload'[v] = upload[v]
        /\ upload'[u] \in [at : UploadSteps, row : Nat, n : Nat, fallback : BOOLEAN]
        /\ \/ upload'[u].at = "refused"
           \/ upload'[u].at = "drop" /\ upload'[u].row = n + 1 /\ n = Len(R)
           \/ upload'[u].at = "row" /\ upload'[u].row = n + 1 /\ n # Len(R)
    <2>1. n + 1 \in Nat /\ {"refused", "drop", "row"} \subseteq UploadSteps
      BY <1>2 DEF UploadSteps
    <2>2. \A step \in {"drop", "row"} :
            next(step) \in [at : UploadSteps, row : Nat, n : Nat, fallback : BOOLEAN]
      BY <1>1, <2>1
    <2>3. [at |-> "refused", row |-> 0, n |-> 0, fallback |-> FALSE]
            \in [at : UploadSteps, row : Nat, n : Nat, fallback : BOOLEAN]
      BY <2>1
    <2>4. \A step : next(step).at = step /\ next(step).row = n + 1
      OBVIOUS
    <2> HIDE DEF next
    <2>5. CASE upload'[u] = [at |-> "refused", row |-> 0, n |-> 0, fallback |-> FALSE]
      BY <2>5, <2>3, <1>7a
    <2>6. CASE n = Len(R) /\ upload'[u] = next("drop")
      BY <2>6, <2>2, <2>4, <1>7a, Zenon
    <2>7. CASE n # Len(R) /\ upload'[u] = next("row")
      BY <2>7, <2>2, <2>4, <1>7a, Zenon
    <2> QED BY <1>7a, <2>5, <2>6, <2>7
  <1>9. upload' \in [Uploads -> [at : UploadSteps, row : Nat, n : Nat, fallback : BOOLEAN]]
    <2>1. \A v \in Uploads : upload'[v] \in [at : UploadSteps, row : Nat, n : Nat, fallback : BOOLEAN]
      BY <1>8 DEF BulkTypeOK
    <2> QED BY <2>1, <1>7a
  <1>10. Uploading' \subseteq Uploading
    BY <1>8 DEF Uploading
  <1>11. \A v \in Uploading' : upload'[v].row \in DOMAIN RowsOf(v) \/ upload'[v].at = "drop"
    <2>1. upload'[u].at = "row" => upload'[u].row \in DOMAIN RowsOf(u)
      BY <1>2, <1>8 DEF R
    <2> QED BY <1>8, <1>10, <2>1 DEF BulkTypeOK, Uploading, UploadOver
  <1>12. RowsCounted'
    <2> SUFFICES ASSUME NEW v \in Uploads
                 PROVE  /\ At(v, "idle")' => outcome'[v] = <<>>
                        /\ v \in Uploading' => Len(outcome'[v]) = upload'[v].row - 1
                        /\ At(v, "drop")' => upload'[v].row = Len(RowsOf(v)) + 1
                        /\ At(v, "done")' => Len(outcome'[v]) = Len(RowsOf(v))
      BY RowsStay DEF RowsCounted
    <2>1. CASE v = u
      <3>1. CASE upload'[u].at = "refused"
        BY <2>1, <3>1 DEF Uploading, UploadOver
      <3>2. CASE upload'[u].at = "drop" /\ upload'[u].row = n + 1 /\ n = Len(R)
        <4>0. n \in Nat /\ n + 1 - 1 = n /\ Len(outcome'[u]) = n
          BY <1>2, <1>4
        <4>1. Len(outcome'[u]) = upload'[u].row - 1
          BY <3>2, <4>0
        <4>2. upload'[u].row = Len(RowsOf(u)) + 1 /\ upload'[u].at = "drop"
          BY <3>2, Zenon DEF R
        <4> QED BY <2>1, <4>1, <4>2
      <3>3. CASE upload'[u].at = "row" /\ upload'[u].row = n + 1 /\ n # Len(R)
        BY <2>1, <3>3, <1>2, <1>4
      <3> QED BY <1>8, <3>1, <3>2, <3>3
    <2>2. CASE v # u
      <3>1. upload'[v] = upload[v] /\ outcome'[v] = outcome[v] /\ (v \in Uploading' => v \in Uploading)
        BY <2>2, <1>5, <1>8, <1>10
      <3> QED BY <3>1 DEF RowsCounted
    <2> QED BY <2>1, <2>2
  <1> QED BY <1>2, <1>5, <1>6, <1>8, <1>9, <1>10, <1>11, <1>12 DEF R

\* A step that reports nothing, within a row or out of the upload.
WithinUpload(u) ==
  /\ upload' \in [Uploads -> [at : UploadSteps, row : Nat, n : Nat, fallback : BOOLEAN]]
  /\ Uploading' \subseteq Uploading
  /\ \A v \in Uploads \ {u} : upload'[v] = upload[v]
  /\ \A v \in Uploading' : upload'[v].row \in DOMAIN RowsOf(v) \/ upload'[v].at = "drop"
  /\ RowsCounted'

LEMMA ToLeaves ==
  ASSUME BulkTypeOK, RowsCounted, NEW u \in Uploading, UNCHANGED outcome,
         NEW step \in InRow \cup {"done", "crashed"}, step = "done" <=> At(u, "drop") /\ step # "crashed",
         To(u, step)
  PROVE  /\ WithinUpload(u)
         /\ upload'[u].at = step
         /\ step \in InRow => upload'[u].row = upload[u].row /\ upload'[u].n = upload[u].n
  <1> USE DEF At
  <1>1. u \in Uploads /\ upload[u] \in [at : UploadSteps, row : Nat, n : Nat, fallback : BOOLEAN]
    BY DEF BulkTypeOK, Uploading
  <1>2. upload' = [upload EXCEPT ![u] = IF step \in UploadOver THEN [Idle EXCEPT !.at = step]
                                        ELSE [@ EXCEPT !.at = step]]
    BY DEF To
  <1>3. /\ upload' \in [Uploads -> [at : UploadSteps, row : Nat, n : Nat, fallback : BOOLEAN]]
        /\ \A v \in Uploads \ {u} : upload'[v] = upload[v]
        /\ upload'[u].at = step
        /\ step \in InRow => upload'[u].row = upload[u].row /\ upload'[u].n = upload[u].n
    BY <1>1, <1>2 DEF BulkTypeOK, Idle, UploadSteps, UploadOver, InRow
  <1>4. Uploading' \subseteq Uploading
    BY <1>3 DEF Uploading
  <1>5. \A v \in Uploading' : upload'[v].row \in DOMAIN RowsOf(v) \/ upload'[v].at = "drop"
    <2> SUFFICES ASSUME NEW v \in Uploading'
                 PROVE  upload'[v].row \in DOMAIN RowsOf(v) \/ upload'[v].at = "drop"
      OBVIOUS
    <2>1. CASE v = u
      <3>1. step \in InRow /\ upload[u].at # "drop"
        BY <2>1, <1>3 DEF Uploading, UploadOver, InRow
      <3> QED BY <3>1, <2>1, <1>3 DEF BulkTypeOK
    <2>2. CASE v # u
      BY <2>2, <1>3, <1>4 DEF BulkTypeOK, Uploading
    <2> QED BY <2>1, <2>2
  <1>6. RowsCounted'
    <2> SUFFICES ASSUME NEW v \in Uploads
                 PROVE  /\ At(v, "idle")' => outcome'[v] = <<>>
                        /\ v \in Uploading' => Len(outcome'[v]) = upload'[v].row - 1
                        /\ At(v, "drop")' => upload'[v].row = Len(RowsOf(v)) + 1
                        /\ At(v, "done")' => Len(outcome'[v]) = Len(RowsOf(v))
      BY RowsStay DEF RowsCounted
    <2>1. CASE v = u
      <3>1. step = "done" => Len(outcome[u]) = Len(RowsOf(u))
        <4> SUFFICES ASSUME step = "done" PROVE Len(outcome[u]) = Len(RowsOf(u))
          OBVIOUS
        <4>1. upload[u].row = Len(RowsOf(u)) + 1 /\ Len(outcome[u]) = upload[u].row - 1
          BY <1>1 DEF RowsCounted
        <4>2. Len(RowsOf(u)) \in Nat
          BY <1>1, RowsAreParsed
        <4> QED BY <4>1, <4>2
      <3> QED BY <2>1, <3>1, <1>3 DEF RowsCounted, Uploading, UploadOver, InRow
    <2>2. CASE v # u
      <3>1. upload'[v] = upload[v] /\ (v \in Uploading' => v \in Uploading)
        BY <2>2, <1>3, <1>4
      <3> QED BY <3>1 DEF RowsCounted
    <2> QED BY <2>1, <2>2
  <1> QED BY <1>3, <1>4, <1>5, <1>6 DEF WithinUpload

\* What the others read is still so: they have met the upload that makes the step.
LEMMA OthersRead ==
  ASSUME UploadsInv, NEW u \in Uploading, \A v \in Uploads \ {u} : upload'[v] = upload[v],
         spoiled \subseteq spoiled', \A p \in products : \E q \in products' : q.slug = p.slug
  PROVE  \A v \in Uploads \ {u} : ReadHolds(v)'
  <1> SUFFICES ASSUME NEW v \in Uploads \ {u} PROVE ReadHolds(v)'
    OBVIOUS
  <1>1. upload'[v] = upload[v] /\ ReadHolds(v)
    BY DEF UploadsInv, ReadsHold
  <1>2. Row(v)' = Row(v) /\ Slug(v)' = Slug(v)
    BY <1>1, RowsStay DEF Row, Slug
  <1>3. upload[v].at \in InRow => v \in spoiled
    BY DEF UploadsInv, UploadsMeet, Uploading, UploadOver, InRow
  <1>4. Taken(Slug(v)) => Taken(Slug(v))'
    BY <1>2 DEF Taken
  <1> QED BY <1>1, <1>2, <1>3, <1>4 DEF ReadHolds, At, InRow

LEMMA QuietInv ==
  ASSUME UploadsInv, NEW u \in Uploading, UNCHANGED <<products, outcome>>,
         spoiled \subseteq spoiled', spoiled' \subseteq Uploads, UNCHANGED unheard,
         brands' \subseteq Brands \cup {Unbranded}, WithinUpload(u), ReadHolds(u)'
  PROVE  UploadsInv'
  <1> USE DEF UploadsInv, WithinUpload
  <1>1. BulkTypeOK' /\ RowsCounted'
    BY DEF BulkTypeOK
  <1>2. UploadsMeet'
    BY DEF UploadsMeet
  <1>3. ReadsHold'
    BY OthersRead DEF ReadsHold, Uploading
  <1>4. OutcomesFit'
    BY RowsStay DEF OutcomesFit
  <1>5. ImportedIsThere'
    BY RowsStay DEF ImportedIsThere, Imported, Leaves
  <1>6. SkippedRowsLeaveNothing'
    BY DEF SkippedRowsLeaveNothing
  <1> QED BY <1>1, <1>2, <1>3, <1>4, <1>5, <1>6

\* A row that is skipped, for its category or in an upload that met another or an error.
LEMMA SkipInv ==
  ASSUME UploadsInv, NEW u \in Uploading, ~At(u, "drop"), Report(u, "skipped"),
         UNCHANGED <<products, unheard>>, brands' \subseteq Brands \cup {Unbranded},
         spoiled \subseteq spoiled', spoiled' \subseteq Uploads,
         u \notin spoiled' => Row(u).category \notin KnownCategories
  PROVE  UploadsInv'
  <1> USE DEF UploadsInv
  <1> DEFINE n == upload[u].row
  <1>0. u \in Uploads
    BY DEF Uploading
  <1>1. /\ n \in DOMAIN RowsOf(u) /\ n \in Nat
        /\ WithinUpload(u)
        /\ outcome' \in [Uploads -> Seq({"imported", "skipped"})]
        /\ \A v \in Uploads \ {u} : outcome'[v] = outcome[v]
        /\ DOMAIN outcome'[u] = 1..n /\ DOMAIN outcome[u] = 1..(n - 1)
        /\ \A i \in DOMAIN outcome[u] : outcome'[u][i] = outcome[u][i]
        /\ outcome'[u][n] = "skipped"
        /\ upload'[u].at \in {"row", "drop", "refused"}
    BY <1>0, ReportLeaves DEF WithinUpload, BulkTypeOK
  <1>2. \A i \in DOMAIN outcome'[u] : i = n \/ i \in DOMAIN outcome[u]
    BY <1>1
  <1> HIDE DEF n
  <1>3. BulkTypeOK' /\ RowsCounted'
    BY <1>1 DEF BulkTypeOK, WithinUpload
  <1>4. UploadsMeet'
    BY <1>1 DEF UploadsMeet, WithinUpload
  <1>5. ReadHolds(u)'
    BY <1>1 DEF ReadHolds, At, InRow
  <1>6. ReadsHold'
    BY <1>1, <1>5, OthersRead DEF ReadsHold, WithinUpload
  <1>7. OutcomesFit'
    <2> SUFFICES ASSUME NEW v \in Uploads \ spoiled', NEW i \in DOMAIN outcome'[v]
                 PROVE  outcome'[v][i] = "imported" <=> RowsOf(v)[i].category \in KnownCategories
      BY RowsStay DEF OutcomesFit
    <2>1. CASE v = u /\ i = n
      BY <2>1, <1>1 DEF Row, n
    <2>2. CASE ~(v = u /\ i = n)
      <3>1. v \in Uploads \ spoiled /\ i \in DOMAIN outcome[v] /\ outcome'[v][i] = outcome[v][i]
        BY <2>2, <1>1, <1>2
      <3> QED BY <3>1 DEF OutcomesFit
    <2> QED BY <2>1, <2>2
  <1>8. \A v \in Uploads : Imported(v)' \subseteq Imported(v)
    <2> SUFFICES ASSUME NEW v \in Uploads, NEW i \in DOMAIN outcome'[v], outcome'[v][i] = "imported"
                 PROVE  i \in DOMAIN outcome[v] /\ outcome[v][i] = "imported"
      BY DEF Imported
    <2> QED BY <1>1, <1>2
  <1>9. ImportedIsThere'
    BY <1>8, RowsStay DEF ImportedIsThere, Leaves
  <1>10. SkippedRowsLeaveNothing'
    <2> SUFFICES ASSUME NEW p \in products
                 PROVE  Accounted(p)'
      BY DEF SkippedRowsLeaveNothing, Accounted
    <2>1. p.by[1] \in Uploads /\ p.by[2] \in Nat /\ Accounted(p)
      BY DEF BulkTypeOK, SkippedRowsLeaveNothing, Accounted
    <2>2. \A i \in DOMAIN outcome[u] : i \in DOMAIN outcome'[u] /\ outcome'[u][i] = outcome[u][i]
      BY <1>1
    <2>3. CASE p.by \in unheard
      BY <2>3 DEF Accounted
    <2>4. CASE p.by[2] \in DOMAIN outcome[p.by[1]] /\ outcome[p.by[1]][p.by[2]] = "imported"
      <3>1. CASE p.by[1] = u
        BY <2>2, <2>4, <3>1 DEF Accounted
      <3>2. CASE p.by[1] # u
        BY <2>1, <2>4, <3>2, <1>1 DEF Accounted
      <3> QED BY <3>1, <3>2
    <2> QED BY <2>1, <2>3, <2>4 DEF Accounted
  <1> QED BY <1>3, <1>4, <1>6, <1>7, <1>9, <1>10

\* What a write of a row's product does to the products.
Written(u) ==
  /\ products' \subseteq [slug : Slugs, by : Uploads \X Nat]
  /\ \A p \in products : \E q \in products' : q.slug = p.slug
       /\ (q.by = p.by \/ (q.by = <<u, upload[u].row>> /\ p.slug = Slug(u)))
  /\ \E q \in products' : q.slug = Slug(u) /\ q.by = <<u, upload[u].row>>
  /\ \A q \in products' : q.by = <<u, upload[u].row>> \/ \E p \in products : p.by = q.by
  /\ \A p, q \in products' : p.slug = q.slug => p = q

\* A row that is in: its slug has a product that holds its data, and the other products
\* are as they were.
LEMMA ImportInv ==
  ASSUME UploadsInv, NEW u \in Uploading, ~At(u, "drop"), Report(u, "imported"),
         UNCHANGED <<brands, spoiled, unheard>>, Row(u).category \in KnownCategories,
         Written(u)
  PROVE  UploadsInv'
  <1> USE DEF UploadsInv, Written
  <1> DEFINE n == upload[u].row
  <1>0. u \in Uploads
    BY DEF Uploading
  <1>1. /\ n \in DOMAIN RowsOf(u) /\ n \in Nat
        /\ WithinUpload(u)
        /\ outcome' \in [Uploads -> Seq({"imported", "skipped"})]
        /\ \A v \in Uploads \ {u} : outcome'[v] = outcome[v]
        /\ DOMAIN outcome'[u] = 1..n /\ DOMAIN outcome[u] = 1..(n - 1)
        /\ \A i \in DOMAIN outcome[u] : outcome'[u][i] = outcome[u][i]
        /\ outcome'[u][n] = "imported"
        /\ upload'[u].at \in {"row", "drop", "refused"}
    BY <1>0, ReportLeaves DEF WithinUpload, BulkTypeOK
  <1>2. n \in DOMAIN outcome'[u] /\ \A i \in DOMAIN outcome'[u] : i = n \/ i \in DOMAIN outcome[u]
    <2>1. RowsOf(u) \in Seq(RowsOfFile)
      BY <1>0, RowsAreParsed
    <2>2. n \in 1..Len(RowsOf(u)) /\ Len(RowsOf(u)) \in Nat
      BY <2>1, <1>1
    <2> HIDE DEF n
    <2>3. n \in 1..n /\ \A i \in 1..n : i = n \/ i \in 1..(n - 1)
      BY <2>2
    <2> QED BY <2>3, <1>1
  <1>3. BulkTypeOK' /\ RowsCounted'
    BY <1>1 DEF BulkTypeOK, WithinUpload
  <1>4. UploadsMeet'
    BY <1>1 DEF UploadsMeet, WithinUpload
  <1>5. ReadHolds(u)'
    BY <1>1 DEF ReadHolds, At, InRow
  <1>6. ReadsHold'
    <2>1. \A v \in Uploads \ {u} : ReadHolds(v)'
      BY <1>1, OthersRead DEF WithinUpload
    <2> QED BY <1>5, <2>1 DEF ReadsHold
  <1>7. OutcomesFit'
    <2> SUFFICES ASSUME NEW v \in Uploads \ spoiled', NEW i \in DOMAIN outcome'[v]
                 PROVE  outcome'[v][i] = "imported" <=> RowsOf(v)[i].category \in KnownCategories
      BY RowsStay DEF OutcomesFit
    <2>1. CASE v = u /\ i = n
      BY <2>1, <1>1 DEF Row
    <2>2. CASE ~(v = u /\ i = n)
      <3> HIDE DEF n
      <3>1. v \in Uploads \ spoiled /\ i \in DOMAIN outcome[v] /\ outcome'[v][i] = outcome[v][i]
        BY <2>2, <1>1, <1>2
      <3> QED BY <3>1 DEF OutcomesFit
    <2> QED BY <2>1, <2>2
  <1>8. ImportedIsThere'
    <2> SUFFICES ASSUME NEW v \in Uploads, NEW i \in DOMAIN outcome'[v], outcome'[v][i] = "imported"
                 PROVE  \E q \in products' : Leaves(v, i, q)
      BY RowsStay DEF ImportedIsThere, Imported, Leaves
    <2>1. CASE v = u /\ i = n
      BY <2>1 DEF Leaves, Slug, Row
    <2>2. CASE ~(v = u /\ i = n)
      <3>1. i \in DOMAIN outcome[v] /\ outcome[v][i] = "imported"
        <4> HIDE DEF n
        <4> QED BY <2>2, <1>1, <1>2
      <3>2. PICK p \in products : Leaves(v, i, p)
        BY <3>1 DEF ImportedIsThere, Imported
      <3>3. PICK q \in products' : q.slug = p.slug
              /\ (q.by = p.by \/ (q.by = <<u, n>> /\ p.slug = Slug(u)))
        OBVIOUS
      <3>4. CASE q.by = p.by
        BY <3>2, <3>3, <3>4 DEF Leaves
      <3>5. CASE q.by = <<u, n>> /\ p.slug = Slug(u)
        <4>1. q.slug.base = RowsOf(v)[i].name /\ q.slug.base = RowsOf(u)[n].name
          BY <3>2, <3>3, <3>5 DEF Leaves, Slug, Row
        <4>2. v = u => i < n
          BY <3>1, <1>1
        <4>3. q.by[1] = u /\ q.by[2] = n
          BY <3>5
        <4> HIDE DEF n
        <4> QED BY <4>1, <4>2, <4>3 DEF Leaves
      <3> QED BY <3>3, <3>4, <3>5
    <2> QED BY <2>1, <2>2
  <1>9. SkippedRowsLeaveNothing'
    <2> SUFFICES ASSUME NEW q \in products'
                 PROVE  Accounted(q)'
      BY DEF SkippedRowsLeaveNothing, Accounted
    <2>1. CASE q.by = <<u, n>>
      BY <2>1, <1>1, <1>2 DEF Accounted
    <2>2. ASSUME NEW p \in products, p.by = q.by PROVE Accounted(q)'
      <3>1. p.by[1] \in Uploads /\ p.by[2] \in Nat /\ Accounted(p)
        BY DEF BulkTypeOK, SkippedRowsLeaveNothing, Accounted
      <3>2. \A i \in 1..(n - 1) : i \in 1..n
        BY <1>1
      <3> HIDE DEF n
      <3>3. CASE p.by[1] = u
        BY <2>2, <3>1, <3>2, <3>3, <1>1 DEF Accounted
      <3>4. CASE p.by[1] # u
        BY <2>2, <3>1, <3>4, <1>1 DEF Accounted
      <3> QED BY <3>3, <3>4
    <2> QED BY <2>1, <2>2
  <1> QED BY <1>3, <1>4, <1>6, <1>7, <1>8, <1>9

-----------------------------------------------------------------------------
LEMMA StartUploadInv ==
  ASSUME UploadsInv, NEW u \in Uploads, StartUpload(u)
  PROVE  UploadsInv'
  <1> USE DEF UploadsInv
  <1>1. upload[u] \in [at : UploadSteps, row : Nat, n : Nat, fallback : BOOLEAN]
        /\ RowsOf(u) \in Seq(RowsOfFile) /\ outcome[u] = <<>> /\ upload[u].at = "idle"
        /\ (u \in Single => RowsOf(u) = <<File[u][1]>> /\ Len(File[u]) = 1)
    BY RowsAreParsed, BulkUploadAssumption DEF BulkTypeOK, RowsCounted, StartUpload, At
  <1> DEFINE step == IF Refused(u) THEN "refused" ELSE IF u \in Single THEN "slug"
                     ELSE IF RowsOf(u) = <<>> THEN "drop" ELSE "row"
  <1>2. upload' = [upload EXCEPT ![u].row = 1, ![u].at = step]
        /\ UNCHANGED <<products, brands, outcome>>
    BY DEF StartUpload
  <1>3. step \in {"refused", "slug", "drop", "row"} /\ (step = "slug" => u \in Single)
        /\ (step = "drop" => RowsOf(u) = <<>>) /\ (step \in {"slug", "row"} => 1 \in DOMAIN RowsOf(u))
    <2>1. RowsOf(u) # <<>> => 1 \in DOMAIN RowsOf(u)
      BY <1>1
    <2>2. step \in {"slug", "row"} => RowsOf(u) # <<>>
      BY <1>1
    <2> QED BY <1>1, <2>1, <2>2
  <1> HIDE DEF step
  <1>4. /\ \A v \in Uploads \ {u} : upload'[v] = upload[v]
        /\ upload'[u].at = step /\ upload'[u].row = 1
        /\ upload' \in [Uploads -> [at : UploadSteps, row : Nat, n : Nat, fallback : BOOLEAN]]
    BY <1>1, <1>2, <1>3 DEF BulkTypeOK, UploadSteps
  <1>5. Uploading' \subseteq Uploading \cup {u} /\ u \notin Uploading
    BY <1>1, <1>4 DEF Uploading, UploadOver
  <1>6. spoiled' \subseteq Uploads /\ spoiled \subseteq spoiled' /\ UNCHANGED unheard
        /\ (Uploading # {} /\ u \in Uploading' => Uploading \cup {u} \subseteq spoiled')
    <2>1. u \in Uploading' => ~Refused(u)
      BY <1>4 DEF step, Uploading, UploadOver
    <2> QED BY <2>1 DEF StartUpload, Clean, Spoil, BulkTypeOK, Uploading
  <1>7. \A v \in Uploading' : upload'[v].row \in DOMAIN RowsOf(v) \/ upload'[v].at = "drop"
    <2>1. u \in Uploading' => step \in {"slug", "drop", "row"}
      BY <1>3, <1>4 DEF Uploading, UploadOver
    <2>2. u \in Uploading' => upload'[u].row \in DOMAIN RowsOf(u) \/ upload'[u].at = "drop"
      BY <2>1, <1>3, <1>4
    <2> QED BY <2>2, <1>4, <1>5 DEF BulkTypeOK, Uploading
  <1>8. BulkTypeOK'
    BY <1>2, <1>4, <1>6, <1>7, RowsStay DEF BulkTypeOK
  <1>9. RowsCounted'
    <2> SUFFICES ASSUME NEW v \in Uploads
                 PROVE  /\ At(v, "idle")' => outcome'[v] = <<>>
                        /\ v \in Uploading' => Len(outcome'[v]) = upload'[v].row - 1
                        /\ At(v, "drop")' => upload'[v].row = Len(RowsOf(v)) + 1
                        /\ At(v, "done")' => Len(outcome'[v]) = Len(RowsOf(v))
      BY RowsStay DEF RowsCounted
    <2>1. CASE v = u
      <3>1. outcome'[u] = <<>> /\ Len(<<>>) = 1 - 1 /\ (step = "drop" => Len(RowsOf(u)) = 0)
        BY <1>1, <1>2, <1>3
      <3> QED BY <2>1, <3>1, <1>3, <1>4 DEF At
    <2>2. CASE v # u
      <3>1. upload'[v] = upload[v] /\ outcome'[v] = outcome[v] /\ (v \in Uploading' => v \in Uploading)
        BY <2>2, <1>2, <1>4, <1>5
      <3> QED BY <3>1 DEF RowsCounted, At
    <2> QED BY <2>1, <2>2
  <1>10. UploadsMeet'
    BY <1>5, <1>6 DEF UploadsMeet
  <1>11. ReadsHold'
    <2>1. ReadHolds(u)'
      BY <1>3, <1>4 DEF ReadHolds, At, InRow
    <2>2. ASSUME NEW v \in Uploads \ {u} PROVE ReadHolds(v)'
      <3>1. upload'[v] = upload[v] /\ ReadHolds(v)
        BY <1>4 DEF ReadsHold
      <3>2. Row(v)' = Row(v) /\ Slug(v)' = Slug(v)
        BY <3>1, RowsStay DEF Row, Slug
      <3>3. Taken(Slug(v))' <=> Taken(Slug(v))
        BY <3>2, <1>2 DEF Taken
      <3> QED BY <3>1, <3>2, <3>3, <1>2, <1>6 DEF ReadHolds, At
    <2> QED BY <2>1, <2>2 DEF ReadsHold
  <1>12. OutcomesFit' /\ ImportedIsThere' /\ SkippedRowsLeaveNothing'
    BY <1>2, <1>6, RowsStay DEF OutcomesFit, ImportedIsThere, Imported, Leaves, SkippedRowsLeaveNothing
  <1> QED BY <1>8, <1>9, <1>10, <1>11, <1>12

-----------------------------------------------------------------------------
\* A statement of a row: the row is one of the upload's.
LEMMA AtRow ==
  ASSUME UploadsInv, NEW u \in Uploads, upload[u].at \in InRow \cup {"row"}
  PROVE  /\ u \in Uploading /\ ~At(u, "drop")
         /\ upload[u] \in [at : UploadSteps, row : Nat, n : Nat, fallback : BOOLEAN]
         /\ Row(u) \in RowsOfFile
         /\ Slug(u) \in Slugs
  <1>1. u \in Uploading /\ ~At(u, "drop")
    BY DEF Uploading, UploadOver, InRow, At
  <1>2. upload[u].row \in DOMAIN RowsOf(u)
        /\ upload[u] \in [at : UploadSteps, row : Nat, n : Nat, fallback : BOOLEAN]
    BY <1>1 DEF UploadsInv, BulkTypeOK, At
  <1>3. Row(u) \in RowsOfFile
    BY <1>2, RowsAreParsed DEF Row
  <1>4. Slug(u) \in Slugs
    BY <1>2, <1>3 DEF Slug, Slugs, RowsOfFile
  <1> QED BY <1>1, <1>2, <1>3, <1>4

\* A statement that only looks, or writes a brand.
LEMMA LookInv ==
  ASSUME UploadsInv, NEW u \in Uploads, upload[u].at \in InRow \cup {"row"},
         UNCHANGED <<products, outcome, spoiled, unheard>>, brands' \subseteq Brands \cup {Unbranded},
         NEW step \in InRow, To(u, step),
         step = "update" => Taken(Slug(u)),
         u \notin spoiled /\ step \in {"existing", "create"} => ~Taken(Slug(u)),
         u \notin spoiled /\ step = "createBrand" => Row(u).brand \notin brands',
         step \in {"findBrand", "createBrand"} => Row(u).brand # Unbranded,
         Row(u).category \in KnownCategories \/ (u \in Single /\ step \in {"slug", "create"})
  PROVE  UploadsInv'
  <1>1. u \in Uploading /\ ~At(u, "drop")
    BY AtRow
  <1>2. step # "done"
    BY DEF InRow
  <1>3. WithinUpload(u) /\ upload'[u].at = step
        /\ upload'[u].row = upload[u].row /\ upload'[u].n = upload[u].n
    BY <1>1, <1>2, ToLeaves DEF UploadsInv
  <1>4. Row(u)' = Row(u) /\ Slug(u)' = Slug(u)
    BY <1>3, RowsStay DEF Row, Slug
  <1>5. Taken(Slug(u))' <=> Taken(Slug(u))
    BY <1>4 DEF Taken
  <1>6. ReadHolds(u)'
    BY <1>3, <1>4, <1>5 DEF ReadHolds, At
  <1>7. spoiled' \subseteq Uploads
    BY DEF UploadsInv, BulkTypeOK
  <1> QED BY <1>1, <1>3, <1>6, <1>7, QuietInv

LEMMA WithinRow ==
  ASSUME UploadsInv, NEW u \in Uploading, ~At(u, "drop"), UNCHANGED outcome,
         upload' \in [Uploads -> [at : UploadSteps, row : Nat, n : Nat, fallback : BOOLEAN]],
         \A v \in Uploads \ {u} : upload'[v] = upload[v],
         upload'[u].at \in InRow, upload'[u].row = upload[u].row
  PROVE  WithinUpload(u)
  <1> USE DEF UploadsInv
  <1>1. Uploading' \subseteq Uploading
    BY DEF Uploading
  <1>2. \A v \in Uploading' : upload'[v].row \in DOMAIN RowsOf(v) \/ upload'[v].at = "drop"
    BY <1>1 DEF BulkTypeOK, Uploading, At
  <1>3. RowsCounted'
    <2> SUFFICES ASSUME NEW v \in Uploads
                 PROVE  /\ At(v, "idle")' => outcome'[v] = <<>>
                        /\ v \in Uploading' => Len(outcome'[v]) = upload'[v].row - 1
                        /\ At(v, "drop")' => upload'[v].row = Len(RowsOf(v)) + 1
                        /\ At(v, "done")' => Len(outcome'[v]) = Len(RowsOf(v))
      BY RowsStay DEF RowsCounted
    <2>1. CASE v = u
      BY <2>1 DEF RowsCounted, At, InRow
    <2>2. CASE v # u
      <3>1. upload'[v] = upload[v] /\ (v \in Uploading' => v \in Uploading)
        BY <2>2, <1>1
      <3> QED BY <3>1 DEF RowsCounted, At
    <2> QED BY <2>1, <2>2
  <1> QED BY <1>1, <1>2, <1>3 DEF WithinUpload

LEMMA FindCategoryInv ==
  ASSUME UploadsInv, NEW u \in Uploads, FindCategory(u)
  PROVE  UploadsInv'
  <1>1. At(u, "row") /\ upload[u].at \in InRow \cup {"row"} /\ UNCHANGED <<products, brands, spoiled, unheard>>
    BY DEF FindCategory, At, Clean
  <1>2. CASE Row(u).category \notin KnownCategories
    <2>1. Report(u, "skipped") /\ spoiled' \subseteq Uploads /\ brands' \subseteq Brands \cup {Unbranded}
      BY <1>1, <1>2 DEF FindCategory, UploadsInv, BulkTypeOK
    <2> QED BY <1>1, <1>2, <2>1, AtRow, SkipInv
  <1>3. CASE Row(u).category \in KnownCategories
    <2> DEFINE step == IF Row(u).brand # Unbranded THEN "findBrand"
                       ELSE IF upload[u].fallback THEN "slug" ELSE "fallback"
    <2>1. To(u, step) /\ UNCHANGED outcome
      BY <1>3 DEF FindCategory
    <2>2. step \in {"findBrand", "slug", "fallback"} /\ (step = "findBrand" => Row(u).brand # Unbranded)
      OBVIOUS
    <2> HIDE DEF step
    <2>3. step \in InRow /\ brands' \subseteq Brands \cup {Unbranded}
      BY <1>1, <2>2 DEF InRow, UploadsInv, BulkTypeOK
    <2> QED BY <1>1, <1>3, <2>1, <2>2, <2>3, LookInv
  <1> QED BY <1>2, <1>3

LEMMA FindBrandInv ==
  ASSUME UploadsInv, NEW u \in Uploads, FindBrand(u)
  PROVE  UploadsInv'
  <1> DEFINE step == IF Row(u).brand \in brands THEN "slug" ELSE "createBrand"
  <1>1. /\ At(u, "findBrand") /\ upload[u].at \in InRow /\ To(u, step)
        /\ UNCHANGED <<products, brands, outcome, spoiled, unheard>>
    BY DEF FindBrand, At, Clean, InRow
  <1>2. /\ Row(u).brand # Unbranded /\ Row(u).category \in KnownCategories
        /\ brands' \subseteq Brands \cup {Unbranded}
    BY <1>1 DEF UploadsInv, ReadsHold, ReadHolds, At, BulkTypeOK
  <1>3. step \in {"slug", "createBrand"} /\ (step = "createBrand" => Row(u).brand \notin brands)
    OBVIOUS
  <1> HIDE DEF step
  <1>4. step \in InRow
    BY <1>3 DEF InRow
  <1> QED BY <1>1, <1>2, <1>3, <1>4, LookInv

LEMMA CreateBrandInv ==
  ASSUME UploadsInv, NEW u \in Uploads, CreateBrand(u)
  PROVE  UploadsInv'
  <1>1. /\ At(u, "createBrand") /\ upload[u].at \in InRow
        /\ UNCHANGED <<products, spoiled, unheard>> /\ spoiled' \subseteq Uploads
    BY DEF CreateBrand, At, Clean, InRow, UploadsInv, BulkTypeOK
  <1>2. /\ Row(u).brand # Unbranded /\ Row(u).category \in KnownCategories
        /\ (u \notin spoiled => Row(u).brand \notin brands)
    BY <1>1 DEF UploadsInv, ReadsHold, ReadHolds, At
  <1>3. CASE Row(u).brand \in brands
    <2>1. Report(u, "skipped") /\ UNCHANGED brands /\ brands' \subseteq Brands \cup {Unbranded}
      BY <1>3 DEF CreateBrand, UploadsInv, BulkTypeOK
    <2> QED BY <1>1, <1>2, <1>3, <2>1, AtRow, SkipInv
  <1>4. CASE Row(u).brand \notin brands
    <2>1. brands' = brands \cup {Row(u).brand} /\ To(u, "slug") /\ UNCHANGED outcome
      BY <1>4 DEF CreateBrand
    <2>2. brands' \subseteq Brands \cup {Unbranded}
      BY <1>1, <2>1, AtRow DEF UploadsInv, BulkTypeOK, RowsOfFile
    <2>3. "slug" \in InRow
      BY DEF InRow
    <2> QED BY <1>1, <1>2, <2>1, <2>2, <2>3, LookInv
  <1> QED BY <1>3, <1>4

LEMMA UpsertFallbackInv ==
  ASSUME UploadsInv, NEW u \in Uploads, UpsertFallback(u)
  PROVE  UploadsInv'
  <1>1. /\ At(u, "fallback") /\ upload[u].at \in InRow
        /\ UNCHANGED <<products, outcome, spoiled, unheard>> /\ spoiled' \subseteq Uploads
        /\ brands' \subseteq Brands \cup {Unbranded}
        /\ upload' = [upload EXCEPT ![u].at = "slug", ![u].fallback = TRUE]
    BY DEF UpsertFallback, At, Clean, InRow, UploadsInv, BulkTypeOK
  <1>2. u \in Uploading /\ upload[u] \in [at : UploadSteps, row : Nat, n : Nat, fallback : BOOLEAN]
    BY <1>1, AtRow
  <1>3. Row(u).category \in KnownCategories
    BY <1>1 DEF UploadsInv, ReadsHold, ReadHolds, At
  <1>4. /\ upload' \in [Uploads -> [at : UploadSteps, row : Nat, n : Nat, fallback : BOOLEAN]]
        /\ \A v \in Uploads \ {u} : upload'[v] = upload[v]
        /\ upload'[u].at = "slug" /\ upload'[u].row = upload[u].row /\ upload'[u].n = upload[u].n
    BY <1>1, <1>2 DEF UploadsInv, BulkTypeOK, UploadSteps
  <1>5. WithinUpload(u)
    BY <1>1, <1>2, <1>4, WithinRow DEF InRow, At
  <1>6. Row(u)' = Row(u)
    BY <1>4, RowsStay DEF Row
  <1>7. ReadHolds(u)'
    BY <1>3, <1>4, <1>6 DEF ReadHolds, At
  <1> QED BY <1>1, <1>2, <1>5, <1>7, QuietInv

LEMMA TrySlugInv ==
  ASSUME UploadsInv, NEW u \in Uploads, TrySlug(u)
  PROVE  UploadsInv'
  <1>1. /\ At(u, "slug") /\ upload[u].at \in InRow
        /\ UNCHANGED <<products, brands, outcome, spoiled, unheard>> /\ spoiled' \subseteq Uploads
        /\ brands' \subseteq Brands \cup {Unbranded}
    BY DEF TrySlug, At, Clean, InRow, UploadsInv, BulkTypeOK
  <1>2. u \in Uploading /\ upload[u] \in [at : UploadSteps, row : Nat, n : Nat, fallback : BOOLEAN]
    BY <1>1, AtRow
  <1>3. Row(u).category \in KnownCategories \/ u \in Single
    BY <1>1 DEF UploadsInv, ReadsHold, ReadHolds, At
  <1>4. CASE Taken(Slug(u))
    <2> DEFINE m == upload[u].n + 1
    <2>1. upload' = [upload EXCEPT ![u].n = m] /\ m \in Nat
      BY <1>2, <1>4 DEF TrySlug
    <2> HIDE DEF m
    <2>2. /\ upload' \in [Uploads -> [at : UploadSteps, row : Nat, n : Nat, fallback : BOOLEAN]]
          /\ \A v \in Uploads \ {u} : upload'[v] = upload[v]
          /\ upload'[u].at = "slug" /\ upload'[u].row = upload[u].row
      BY <1>1, <1>2, <2>1 DEF UploadsInv, BulkTypeOK, At
    <2>3. WithinUpload(u)
      BY <1>1, <1>2, <2>2, WithinRow DEF InRow, At
    <2>4. Row(u)' = Row(u)
      BY <2>2, RowsStay DEF Row
    <2>5. ReadHolds(u)'
      BY <1>3, <2>2, <2>4 DEF ReadHolds, At
    <2> QED BY <1>1, <1>2, <2>3, <2>5, QuietInv
  <1>5. CASE ~Taken(Slug(u))
    <2> DEFINE step == IF u \in Single THEN "create" ELSE "existing"
    <2>1. To(u, step)
      BY <1>5 DEF TrySlug
    <2>2. step \in {"create", "existing"} /\ (u \in Single => step = "create")
      OBVIOUS
    <2> HIDE DEF step
    <2>3. step \in InRow
      BY <2>2 DEF InRow
    <2> QED BY <1>1, <1>3, <1>5, <2>1, <2>2, <2>3, LookInv
  <1> QED BY <1>4, <1>5

LEMMA FindExistingInv ==
  ASSUME UploadsInv, NEW u \in Uploads, FindExisting(u)
  PROVE  UploadsInv'
  <1> DEFINE step == IF Taken(Slug(u)) THEN "update" ELSE "create"
  <1>1. /\ At(u, "existing") /\ upload[u].at \in InRow /\ To(u, step)
        /\ UNCHANGED <<products, brands, outcome, spoiled, unheard>>
    BY DEF FindExisting, At, Clean, InRow
  <1>2. Row(u).category \in KnownCategories /\ brands' \subseteq Brands \cup {Unbranded}
    BY <1>1 DEF UploadsInv, ReadsHold, ReadHolds, At, BulkTypeOK
  <1>3. step \in {"update", "create"} /\ (step = "update" <=> Taken(Slug(u)))
    OBVIOUS
  <1> HIDE DEF step
  <1>4. step \in InRow
    BY <1>3 DEF InRow
  <1> QED BY <1>1, <1>2, <1>3, <1>4, LookInv

\* What a create and an update write: one product of the slug, with the row's data.
LEMMA CreatedIsWritten ==
  ASSUME UploadsInv, NEW u \in Uploads, At(u, "create"), Creatable(u), products' = Created(u)
  PROVE  Written(u) /\ Row(u).category \in KnownCategories
  <1> DEFINE new == [slug |-> Slug(u), by |-> <<u, upload[u].row>>]
  <1>1. /\ u \in Uploading /\ Slug(u) \in Slugs
        /\ upload[u] \in [at : UploadSteps, row : Nat, n : Nat, fallback : BOOLEAN]
    BY AtRow DEF At, InRow
  <1>2. new \in [slug : Slugs, by : Uploads \X Nat]
        /\ new.slug = Slug(u) /\ new.by = <<u, upload[u].row>>
    BY <1>1
  <1>3. products' = products \cup {new} /\ ~Taken(Slug(u)) /\ Row(u).category \in KnownCategories
    BY DEF Created, Creatable
  <1> HIDE DEF new
  <1>4. products' \subseteq [slug : Slugs, by : Uploads \X Nat]
    BY <1>2, <1>3 DEF UploadsInv, BulkTypeOK
  <1>5. \A p, q \in products' : p.slug = q.slug => p = q
    BY <1>2, <1>3 DEF UploadsInv, SkippedRowsLeaveNothing, Taken
  <1>6. \A p \in products : \E q \in products' : q.slug = p.slug
          /\ (q.by = p.by \/ (q.by = <<u, upload[u].row>> /\ p.slug = Slug(u)))
    BY <1>3
  <1>7. /\ \E q \in products' : q.slug = Slug(u) /\ q.by = <<u, upload[u].row>>
        /\ \A q \in products' : q.by = <<u, upload[u].row>> \/ \E p \in products : p.by = q.by
    BY <1>2, <1>3
  <1> QED BY <1>3, <1>4, <1>5, <1>6, <1>7 DEF Written

LEMMA UpdatedIsWritten ==
  ASSUME UploadsInv, NEW u \in Uploads, At(u, "update"), products' = Updated(u)
  PROVE  Written(u) /\ Row(u).category \in KnownCategories
  <1> DEFINE mine == <<u, upload[u].row>>
             goodOf(p) == IF p.slug = Slug(u) THEN [p EXCEPT !.by = mine] ELSE p
  <1>1. products' = {goodOf(p) : p \in products}
    BY DEF Updated
  <1>2. mine \in Uploads \X Nat
    BY AtRow DEF At, InRow
  <1>3. Taken(Slug(u)) /\ Row(u).category \in KnownCategories
    BY DEF UploadsInv, ReadsHold, ReadHolds, At, InRow
  <1> HIDE DEF mine
  <1>4. \A p \in products :
          /\ goodOf(p) \in [slug : Slugs, by : Uploads \X Nat]
          /\ goodOf(p).slug = p.slug
          /\ IF p.slug = Slug(u) THEN goodOf(p).by = mine ELSE goodOf(p).by = p.by
    BY <1>2 DEF UploadsInv, BulkTypeOK
  <1> HIDE DEF goodOf
  <1>5. products' \subseteq [slug : Slugs, by : Uploads \X Nat]
    BY <1>1, <1>4
  <1>6. \A p, q \in products' : p.slug = q.slug => p = q
    BY <1>1, <1>4 DEF UploadsInv, SkippedRowsLeaveNothing
  <1>7. \A p \in products : \E q \in products' : q.slug = p.slug
          /\ (q.by = p.by \/ (q.by = mine /\ p.slug = Slug(u)))
    BY <1>1, <1>4
  <1>8. \E q \in products' : q.slug = Slug(u) /\ q.by = mine
    BY <1>1, <1>3, <1>4 DEF Taken
  <1>9. \A q \in products' : q.by = mine \/ \E p \in products : p.by = q.by
    BY <1>1, <1>4
  <1> QED BY <1>3, <1>5, <1>6, <1>7, <1>8, <1>9 DEF Written, mine

LEMMA CreateProductInv ==
  ASSUME UploadsInv, NEW u \in Uploads, CreateProduct(u)
  PROVE  UploadsInv'
  <1>1. /\ At(u, "create") /\ upload[u].at \in InRow
        /\ UNCHANGED <<brands, spoiled, unheard>> /\ spoiled' \subseteq Uploads
        /\ brands' \subseteq Brands \cup {Unbranded}
    BY DEF CreateProduct, At, Clean, InRow, UploadsInv, BulkTypeOK
  <1>2. u \in Uploading /\ ~At(u, "drop")
    BY <1>1, AtRow
  <1>3. CASE ~Creatable(u)
    <2>1. Report(u, "skipped") /\ UNCHANGED products
      BY <1>3 DEF CreateProduct
    <2>2. u \notin spoiled' => Row(u).category \notin KnownCategories
      BY <1>1, <1>3 DEF Creatable, UploadsInv, ReadsHold, ReadHolds, At
    <2> QED BY <1>1, <1>2, <2>1, <2>2, SkipInv
  <1>4. CASE Creatable(u)
    <2>1. products' = Created(u) /\ Report(u, "imported")
      BY <1>4 DEF CreateProduct
    <2> QED BY <1>1, <1>2, <1>4, <2>1, CreatedIsWritten, ImportInv
  <1> QED BY <1>3, <1>4

LEMMA UpdateProductInv ==
  ASSUME UploadsInv, NEW u \in Uploads, UpdateProduct(u)
  PROVE  UploadsInv'
  <1>1. /\ At(u, "update") /\ upload[u].at \in InRow
        /\ UNCHANGED <<brands, spoiled, unheard>> /\ Report(u, "imported")
        /\ products' = Updated(u)
    BY DEF UpdateProduct, At, Clean, InRow
  <1>2. u \in Uploading /\ ~At(u, "drop")
    BY <1>1, AtRow
  <1> QED BY <1>1, <1>2, UpdatedIsWritten, ImportInv

LEMMA FinishUploadInv ==
  ASSUME UploadsInv, NEW u \in Uploads, FinishUpload(u)
  PROVE  UploadsInv'
  <1>1. /\ At(u, "drop") /\ u \in Uploading /\ To(u, "done")
        /\ UNCHANGED <<products, brands, outcome, spoiled, unheard>>
        /\ spoiled' \subseteq Uploads /\ brands' \subseteq Brands \cup {Unbranded}
    BY DEF FinishUpload, At, Uploading, UploadOver, Clean, UploadsInv, BulkTypeOK
  <1>2. WithinUpload(u) /\ upload'[u].at = "done"
    BY <1>1, ToLeaves DEF UploadsInv
  <1>3. ReadHolds(u)'
    BY <1>2 DEF ReadHolds, At, InRow
  <1> QED BY <1>1, <1>2, <1>3, QuietInv

\* The row's catch, or a restart: the others' outcomes stay, and so do the row's own that
\* were reported before.
GivesUp(u) ==
  /\ WithinUpload(u) /\ ReadHolds(u)'
  /\ outcome' \in [Uploads -> Seq({"imported", "skipped"})]
  /\ \A v \in Uploads \ {u} : outcome'[v] = outcome[v]
  /\ \A i \in DOMAIN outcome[u] : i \in DOMAIN outcome'[u] /\ outcome'[u][i] = outcome[u][i]
  /\ Imported(u)' \subseteq Imported(u)

LEMMA CaughtGivesUp ==
  ASSUME UploadsInv, NEW u \in Uploads, Caught(u)
  PROVE  GivesUp(u)
  <1> USE DEF UploadsInv
  <1>1. u \in Uploading /\ ~At(u, "drop") /\ Report(u, "skipped")
    BY DEF Caught
  <1> DEFINE n == upload[u].row
  <1>2. /\ n \in Nat
        /\ WithinUpload(u)
        /\ outcome' \in [Uploads -> Seq({"imported", "skipped"})]
        /\ \A v \in Uploads \ {u} : outcome'[v] = outcome[v]
        /\ DOMAIN outcome'[u] = 1..n /\ DOMAIN outcome[u] = 1..(n - 1)
        /\ \A i \in DOMAIN outcome[u] : outcome'[u][i] = outcome[u][i]
        /\ outcome'[u][n] = "skipped"
        /\ upload'[u].at \in {"row", "drop", "refused"}
    BY <1>1, ReportLeaves DEF WithinUpload, BulkTypeOK
  <1> HIDE DEF n
  <1>3. \A i \in DOMAIN outcome[u] : i \in DOMAIN outcome'[u]
    BY <1>2
  <1>4. \A i \in DOMAIN outcome'[u] : i = n \/ i \in DOMAIN outcome[u]
    BY <1>2
  <1>5. Imported(u)' \subseteq Imported(u)
    BY <1>2, <1>4 DEF Imported
  <1>6. ReadHolds(u)'
    BY <1>2 DEF ReadHolds, At, InRow
  <1> QED BY <1>2, <1>3, <1>5, <1>6 DEF GivesUp

LEMMA CrashedGivesUp ==
  ASSUME UploadsInv, NEW u \in Uploads, Crashed(u)
  PROVE  GivesUp(u) /\ UNCHANGED outcome /\ u \in Uploading
  <1>1. u \in Uploading /\ To(u, "crashed") /\ UNCHANGED outcome
    BY DEF Crashed
  <1>2. WithinUpload(u) /\ upload'[u].at = "crashed"
    BY <1>1, ToLeaves DEF UploadsInv
  <1>3. ReadHolds(u)'
    BY <1>2 DEF ReadHolds, At, InRow
  <1>4. outcome' \in [Uploads -> Seq({"imported", "skipped"})]
    BY <1>1 DEF UploadsInv, BulkTypeOK
  <1> QED BY <1>1, <1>2, <1>3, <1>4 DEF GivesUp, Imported

\* The statement failed, or made a brand at most.
LEMMA NothingWrittenInv ==
  ASSUME UploadsInv, NEW u \in Uploads, Caught(u) \/ Crashed(u), Spoil({u}), UNCHANGED products,
         brands' \subseteq Brands \cup {Unbranded}
  PROVE  UploadsInv'
  <1>1. spoiled' = spoiled \cup {u} /\ spoiled' \subseteq Uploads /\ UNCHANGED unheard
    BY DEF Spoil, UploadsInv, BulkTypeOK
  <1>2. CASE Caught(u)
    BY <1>1, <1>2, SkipInv DEF Caught
  <1>3. CASE Crashed(u)
    BY <1>1, <1>3, CrashedGivesUp, QuietInv DEF GivesUp
  <1> QED BY <1>2, <1>3

LEMMA RowFailsInv ==
  ASSUME UploadsInv, NEW u \in Uploads, RowFails(u)
  PROVE  UploadsInv'
  <1>1. brands' \subseteq Brands \cup {Unbranded}
    BY DEF RowFails, UploadsInv, BulkTypeOK
  <1> QED BY <1>1, NothingWrittenInv DEF RowFails

LEMMA BrandUnheardInv ==
  ASSUME UploadsInv, NEW u \in Uploads, BrandUnheard(u)
  PROVE  UploadsInv'
  <1>1. Row(u) \in RowsOfFile
    BY AtRow DEF BrandUnheard, At, InRow
  <1>2. brands' \subseteq Brands \cup {Unbranded}
    BY <1>1 DEF BrandUnheard, UploadsInv, BulkTypeOK, RowsOfFile
  <1> QED BY <1>2, NothingWrittenInv DEF BrandUnheard

\* The row's product is written and the row reported as skipped, or not at all.
LEMMA ProductUnheardInv ==
  ASSUME UploadsInv, NEW u \in Uploads, ProductUnheard(u)
  PROVE  UploadsInv'
  <1> DEFINE n == upload[u].row
  <1>1. /\ u \in Uploading /\ ~At(u, "drop") /\ n \in Nat
        /\ upload[u].at \in InRow
    BY AtRow DEF ProductUnheard, At, InRow
  <1>2. Written(u)
    BY CreatedIsWritten, UpdatedIsWritten DEF ProductUnheard
  <1>3. GivesUp(u)
    BY CaughtGivesUp, CrashedGivesUp DEF ProductUnheard
  <1>4. /\ spoiled' = spoiled \cup {u} /\ unheard' = unheard \cup {<<u, n>>} /\ UNCHANGED brands
        /\ spoiled' \subseteq Uploads /\ unheard' \subseteq Uploads \X Nat
    BY <1>1 DEF ProductUnheard, UploadsInv, BulkTypeOK
  <1>5. \A v \in Uploads : Imported(v)' \subseteq Imported(v)
    BY <1>3 DEF GivesUp, Imported
  <1>6. \A v \in Uploads : \A i \in DOMAIN outcome[v] :
          i \in DOMAIN outcome'[v] /\ outcome'[v][i] = outcome[v][i]
    BY <1>3 DEF GivesUp
  <1>7. \A i \in DOMAIN outcome[u] : i < n
    <2>1. outcome[u] \in Seq({"imported", "skipped"}) /\ Len(outcome[u]) = n - 1
      BY <1>1 DEF UploadsInv, BulkTypeOK, RowsCounted
    <2> QED BY <2>1, <1>1
  <1>8. WithinUpload(u) /\ ReadHolds(u)'
    BY <1>3 DEF GivesUp
  <1> HIDE DEF n
  <1> USE DEF UploadsInv
  <1>9. BulkTypeOK' /\ RowsCounted'
    BY <1>2, <1>3, <1>4, <1>8 DEF BulkTypeOK, GivesUp, WithinUpload, Written
  <1>10. UploadsMeet'
    BY <1>4, <1>8 DEF UploadsMeet, WithinUpload
  <1>11. ReadsHold'
    <2>1. \A p \in products : \E q \in products' : q.slug = p.slug
      BY <1>2 DEF Written
    <2>2. \A v \in Uploads \ {u} : ReadHolds(v)'
      BY <1>1, <1>4, <1>8, <2>1, OthersRead DEF WithinUpload
    <2> QED BY <1>8, <2>2 DEF ReadsHold
  <1>12. OutcomesFit'
    <2> SUFFICES ASSUME NEW v \in Uploads \ spoiled', NEW i \in DOMAIN outcome'[v]
                 PROVE  outcome'[v][i] = "imported" <=> RowsOf(v)[i].category \in KnownCategories
      BY RowsStay DEF OutcomesFit
    <2>1. v \in Uploads \ spoiled /\ outcome'[v] = outcome[v]
      BY <1>3, <1>4 DEF GivesUp
    <2> QED BY <2>1 DEF OutcomesFit
  <1>13. ImportedIsThere'
    <2> SUFFICES ASSUME NEW v \in Uploads, NEW i \in Imported(v)'
                 PROVE  \E q \in products' : Leaves(v, i, q)
      BY RowsStay DEF ImportedIsThere, Leaves
    <2>1. i \in Imported(v) /\ i \in DOMAIN outcome[v]
      BY <1>5 DEF Imported
    <2>2. PICK p \in products : Leaves(v, i, p)
      BY <2>1 DEF ImportedIsThere
    <2>3. PICK q \in products' : q.slug = p.slug
            /\ (q.by = p.by \/ (q.by = <<u, n>> /\ p.slug = Slug(u)))
      BY <1>2 DEF Written, n
    <2>4. CASE q.by = p.by
      BY <2>2, <2>3, <2>4 DEF Leaves
    <2>5. CASE q.by = <<u, n>> /\ p.slug = Slug(u)
      <3>1. q.slug.base = RowsOf(v)[i].name /\ q.slug.base = RowsOf(u)[n].name
        BY <2>2, <2>3, <2>5 DEF Leaves, Slug, Row, n
      <3>2. v = u => i < n
        BY <2>1, <1>7
      <3>3. q.by[1] = u /\ q.by[2] = n
        BY <2>5
      <3> QED BY <3>1, <3>2, <3>3 DEF Leaves
    <2> QED BY <2>3, <2>4, <2>5
  <1>14. SkippedRowsLeaveNothing'
    <2> SUFFICES ASSUME NEW q \in products'
                 PROVE  Accounted(q)'
      BY <1>2 DEF SkippedRowsLeaveNothing, Accounted, Written
    <2>1. CASE q.by = <<u, n>>
      BY <2>1, <1>4 DEF Accounted
    <2>2. ASSUME NEW p \in products, p.by = q.by PROVE Accounted(q)'
      <3>1. p.by[1] \in Uploads /\ Accounted(p)
        BY DEF BulkTypeOK, SkippedRowsLeaveNothing, Accounted
      <3> QED BY <2>2, <3>1, <1>4, <1>6 DEF Accounted
    <2>3. q.by = <<u, n>> \/ \E p \in products : p.by = q.by
      BY <1>2 DEF Written, n
    <2> QED BY <2>1, <2>2, <2>3
  <1> QED BY <1>9, <1>10, <1>11, <1>12, <1>13, <1>14

LEMMA NextUploadsInv == UploadsInv /\ [BulkNext]_bulkVars => UploadsInv'
  <1> SUFFICES ASSUME UploadsInv, [BulkNext]_bulkVars PROVE UploadsInv'
    OBVIOUS
  <1>1. CASE UNCHANGED bulkVars
    <2> USE <1>1, RowsStay DEF bulkVars, UploadsInv
    <2>1. BulkTypeOK' /\ RowsCounted' /\ UploadsMeet'
      BY DEF BulkTypeOK, RowsCounted, UploadsMeet, Uploading, At
    <2>2. ASSUME NEW u \in Uploads PROVE ReadHolds(u)'
      <3>1. Row(u)' = Row(u) /\ Slug(u)' = Slug(u) /\ (Taken(Slug(u))' <=> Taken(Slug(u)))
        BY DEF Row, Slug, Taken
      <3> QED BY <3>1 DEF ReadsHold, ReadHolds, At
    <2>3. OutcomesFit' /\ ImportedIsThere' /\ SkippedRowsLeaveNothing'
      BY DEF OutcomesFit, ImportedIsThere, Imported, Leaves, SkippedRowsLeaveNothing
    <2> QED BY <2>1, <2>2, <2>3 DEF ReadsHold
  <1>2. ASSUME NEW u \in Uploads, StartUpload(u) \/ RowFails(u) \/ BrandUnheard(u) \/ ProductUnheard(u)
        PROVE  UploadsInv'
    BY <1>2, StartUploadInv, RowFailsInv, BrandUnheardInv, ProductUnheardInv
  <1>3. ASSUME NEW u \in Uploads, UploadStep(u) PROVE UploadsInv'
    BY <1>3, FindCategoryInv, FindBrandInv, CreateBrandInv, UpsertFallbackInv, TrySlugInv, FindExistingInv,
       CreateProductInv, UpdateProductInv, FinishUploadInv DEF UploadStep
  <1> QED BY <1>1, <1>2, <1>3 DEF BulkNext

LEMMA UploadsInvariant == BulkSpec => []UploadsInv
  BY InitUploadsInv, NextUploadsInv, PTL DEF BulkSpec

LEMMA UploadsReport == UploadsInv => GoodRowsGetIn
  <1> SUFFICES ASSUME UploadsInv, NEW u \in Uploads \ spoiled, At(u, "done")
               PROVE  /\ Len(outcome[u]) = Len(RowsOf(u))
                      /\ \A i \in DOMAIN RowsOf(u) :
                           outcome[u][i] = "imported" <=> RowsOf(u)[i].category \in KnownCategories
                      /\ \A i \in Imported(u) : \E p \in products : Leaves(u, i, p)
    BY DEF GoodRowsGetIn, Leaves
  <1> USE DEF UploadsInv
  <1>1. Len(outcome[u]) = Len(RowsOf(u))
    BY DEF RowsCounted
  <1>2. DOMAIN outcome[u] = DOMAIN RowsOf(u)
    <2>1. outcome[u] \in Seq({"imported", "skipped"}) /\ RowsOf(u) \in Seq(RowsOfFile)
      BY RowsAreParsed DEF BulkTypeOK
    <2> QED BY <1>1, <2>1
  <1> QED BY <1>1, <1>2 DEF OutcomesFit, ImportedIsThere

\* Whatever the files, and however many uploads fail, overlap or stop: a row reported as
\* skipped leaves no product unless its write's answer was lost, no slug is used twice, and an upload that met nothing imports
\* exactly its good rows.
THEOREM UploadsKeepTheirReport == BulkSpec => [](GoodRowsGetIn /\ SkippedRowsLeaveNothing)
  <1>1. UploadsInv => GoodRowsGetIn /\ SkippedRowsLeaveNothing
    BY UploadsReport DEF UploadsInv
  <1> QED BY <1>1, UploadsInvariant, PTL

-----------------------------------------------------------------------------
(* Categories: for every number of them and of moves, each is in the tree,   *)
(* but for those below one that was moved below itself.                      *)

\* Parents that lead nowhere but round in a loop have led there through a move that
\* put a category below itself.
LoopsAreMarked ==
  \A S \in SUBSET There : S # {} /\ (\A d \in S : parent[d] \in S) => S \cap looped # {}

CategoriesInv == CategoriesTypeOK /\ LoopsAreMarked

LEMMA InitCategoriesInv == CategoriesInit => CategoriesInv
  BY CategoriesAssumption DEF CategoriesInit, CategoriesInv, CategoriesTypeOK, LoopsAreMarked, There,
     NoMove, Rooted

\* A loop without c is a loop of before, if only c was given another parent.
LEMMA OldLoop ==
  ASSUME CategoriesInv, NEW S \in SUBSET There, S # {}, NEW next,
         \A d \in S : next[d] = parent[d] /\ next[d] \in S
  PROVE  S \cap looped # {}
  BY DEF CategoriesInv, LoopsAreMarked

LEMMA CreateCategoryInv ==
  ASSUME CategoriesInv, NEW c \in CategoryIds, NEW p \in Rooted, CreateCategory(c, p)
  PROVE  CategoriesInv'
  <1> USE CategoriesAssumption DEF CategoriesInv, CategoriesTypeOK
  <1>1. /\ There' = There \cup {c} /\ c \notin There
        /\ parent'[c] = p /\ \A d \in There : parent'[d] = parent[d]
    BY DEF CreateCategory, There
  <1>2. CategoriesTypeOK'
    BY <1>1 DEF CreateCategory, Rooted, There
  <1>3. LoopsAreMarked'
    <2> SUFFICES ASSUME NEW S \in SUBSET There', S # {}, \A d \in S : parent'[d] \in S
                 PROVE  S \cap looped # {}
      BY DEF LoopsAreMarked, CreateCategory
    <2> DEFINE T == S \ {c}
    <2>1. T \in SUBSET There
      BY <1>1
    <2>2. \A d \in T : parent'[d] = parent[d] /\ parent'[d] \in T
      BY <1>1
    <2>3. T # {}
      <3>1. CASE c \in S
        <4>1. p \in S /\ p \in There
          BY <1>1, <3>1 DEF CreateCategory, There
        <4> QED BY <1>1, <4>1
      <3> QED BY <3>1
    <2> HIDE DEF T
    <2>4. T \cap looped # {}
      BY <2>1, <2>2, <2>3, OldLoop
    <2> QED BY <2>4 DEF T
  <1> QED BY <1>2, <1>3

LEMMA BeginMoveInv ==
  ASSUME CategoriesInv, NEW c \in CategoryIds, NEW p \in Rooted, BeginMove(c, p)
  PROVE  CategoriesInv'
  BY CategoriesAssumption DEF CategoriesInv, CategoriesTypeOK, LoopsAreMarked, BeginMove, There, Rooted

LEMMA MoveInv ==
  ASSUME CategoriesInv, Move
  PROVE  CategoriesInv'
  <1> USE CategoriesAssumption DEF CategoriesInv, CategoriesTypeOK
  <1> DEFINE c == moving.category
             p == moving.to
  <1>1. CASE ~(c \in There /\ p \in There \cup {Root})
    BY <1>1 DEF Move, NoMove, Rooted, There, LoopsAreMarked
  <1>2. CASE c \in There /\ p \in There \cup {Root}
    <2>1. /\ parent' = [parent EXCEPT ![c] = p] /\ c \in CategoryIds
          /\ looped' = IF Above(c, p) THEN looped \cup {c} ELSE looped \ {c}
      BY <1>2 DEF Move, There
    <2>2. There' = There
      BY <1>2, <2>1 DEF There
    <2>3. \A d \in There : parent'[d] = IF d = c THEN p ELSE parent[d]
      BY <2>1 DEF There
    <2>4. CategoriesTypeOK'
      BY <1>2, <2>1, <2>2, <2>3 DEF Move, NoMove, Rooted, There
    <2>5. LoopsAreMarked'
      <3> SUFFICES ASSUME NEW S \in SUBSET There, S # {}, \A d \in S : parent'[d] \in S
                   PROVE  S \cap looped' # {}
        BY <2>2 DEF LoopsAreMarked
      <3>1. CASE c \notin S
        <4>1. S \cap looped # {}
          BY <2>3, <3>1, OldLoop
        <4> QED BY <2>1, <3>1, <4>1
      <3>2. CASE c \in S /\ Above(c, p)
        BY <2>1, <3>2
      <3>3. CASE c \in S /\ ~Above(c, p)
        \* the loop has a part that c is not above: a loop of before
        <4>1. p \in S
          BY <1>2, <2>3, <3>3
        <4>2. PICK T \in SUBSET Rooted : p \in T /\ Rising(T) /\ c \notin T
          BY <3>3 DEF Above
        <4>3. \A d \in S \cap T : parent'[d] = parent[d] /\ parent'[d] \in S \cap T
          BY <2>3, <4>2 DEF Rising
        <4>4. S \cap T \in SUBSET There /\ S \cap T # {}
          BY <4>1, <4>2
        <4> DEFINE U == S \cap T
        <4>5. U \in SUBSET There /\ U # {} /\ \A d \in U : parent'[d] = parent[d] /\ parent'[d] \in U
          BY <4>3, <4>4
        <4> HIDE DEF U
        <4>6. U \cap looped # {}
          BY <4>5, OldLoop
        <4> QED BY <2>1, <3>3, <4>2, <4>6 DEF U
      <3> QED BY <3>1, <3>2, <3>3
    <2> QED BY <2>4, <2>5
  <1> QED BY <1>1, <1>2

LEMMA RemoveCategoryInv ==
  ASSUME CategoriesInv, NEW c \in CategoryIds, RemoveCategory(c)
  PROVE  CategoriesInv'
  <1> USE CategoriesAssumption DEF CategoriesInv, CategoriesTypeOK
  <1>1. /\ parent' = [d \in CategoryIds |-> ParentAfter(c, d)] /\ c \in There
        /\ looped' = looped \ ({c} \cup Children(c))
    BY DEF RemoveCategory
  <1>2. \A d \in CategoryIds : parent'[d] = IF d = c THEN Gone ELSE IF parent[d] = c THEN Root ELSE parent[d]
    BY <1>1 DEF ParentAfter
  <1>3. There' = There \ {c}
    BY <1>2 DEF There
  <1>4. CategoriesTypeOK'
    <2>1. parent' \in [CategoryIds -> Rooted \cup {Gone}]
      BY <1>1, <1>2 DEF Rooted
    <2>2. \A d \in There' : parent'[d] \in There' \cup {Root}
      BY <1>2, <1>3 DEF There
    <2> QED BY <1>1, <2>1, <2>2 DEF RemoveCategory
  <1>5. LoopsAreMarked'
    <2> SUFFICES ASSUME NEW S \in SUBSET There', S # {}, \A d \in S : parent'[d] \in S
                 PROVE  S \cap looped' # {}
      BY DEF LoopsAreMarked
    <2>1. \A d \in S : d \in CategoryIds /\ d # c /\ parent[d] # c /\ parent'[d] = parent[d]
      BY <1>2, <1>3 DEF There
    <2>2. S \in SUBSET There
      BY <1>3
    <2>3. S \cap looped # {}
      BY <2>1, <2>2, OldLoop
    <2>4. S \cap ({c} \cup Children(c)) = {}
      BY <2>1 DEF Children
    <2> QED BY <1>1, <2>3, <2>4
  <1> QED BY <1>4, <1>5

LEMMA NextCategoriesInv == CategoriesInv /\ [CategoriesNext]_categoryVars => CategoriesInv'
  <1>1. ASSUME CategoriesInv, CategoriesNext PROVE CategoriesInv'
    BY <1>1, CreateCategoryInv, BeginMoveInv, MoveInv, RemoveCategoryInv DEF CategoriesNext
  <1>2. ASSUME CategoriesInv, UNCHANGED categoryVars PROVE CategoriesInv'
    BY <1>2 DEF CategoriesInv, categoryVars, CategoriesTypeOK, LoopsAreMarked, There
  <1> QED BY <1>1, <1>2

LEMMA CategoriesInvariant == CategoriesSpec => []CategoriesInv
  BY InitCategoriesInv, NextCategoriesInv, PTL DEF CategoriesSpec

\* What is above a category that the tree misses is missed as well, so it goes round.
LEMMA MissedIsBelowALoop == CategoriesInv => TreeMissesOnlyLoops
  <1> SUFFICES ASSUME CategoriesInv, NEW c \in There \ Tree
               PROVE  \E d \in looped : Above(d, c)
    BY DEF TreeMissesOnlyLoops
  <1>1. \A d \in There \ Tree : parent[d] \in There \ Tree
    <2> SUFFICES ASSUME NEW d \in There, d \notin Tree
                 PROVE  parent[d] \in There /\ parent[d] \notin Tree
      OBVIOUS
    <2>1. PICK S \in SUBSET There : Rooting(S) /\ d \notin S
      BY DEF Tree
    <2>2. parent[d] # Root /\ parent[d] \notin S
      BY <2>1 DEF Rooting, Children
    <2>3. parent[d] \in There
      BY <2>2 DEF CategoriesInv, CategoriesTypeOK
    <2>4. parent[d] \notin Tree
      BY <2>1, <2>2 DEF Tree
    <2> QED BY <2>3, <2>4
  <1>2. \A d \in There : Above(d, c) /\ parent[d] \in There => Above(parent[d], c)
    BY DEF Above, Rising
  <1> DEFINE S == {d \in There \ Tree : Above(d, c)}
  <1>3. c \in S
    BY DEF Above
  <1>4. \A d \in S : parent[d] \in S
    BY <1>1, <1>2
  <1>5. S \cap looped # {}
    BY <1>3, <1>4 DEF CategoriesInv, LoopsAreMarked
  <1> QED BY <1>5

\* For every number of categories, created, moved and removed in any order
\* (catalog/categories.service.ts): the tree misses only what is below a loop.
THEOREM TheTreeIsWhole == CategoriesSpec => []TreeMissesOnlyLoops
  BY CategoriesInvariant, MissedIsBelowALoop, PTL

-----------------------------------------------------------------------------
(* Product images: for every number of uploads and of sizes, a row has its   *)
(* files, an uploaded image shares neither the mark nor its place unless     *)
(* uploads overlapped, and the mark that an upload took is kept.             *)

\* Past its files, an upload has written all of them.
WrittenBeforeRead ==
  \A i \in ImageUploads : imageAt[i] \in {"read", "unset", "insert", "done"} => files[i] = Sizes

\* Two that save at once are both disturbed.
OverlapDisturbs ==
  \A i, j \in Saving : i # j => i \in disturbed

\* What an upload that nothing disturbs has read is still so when it inserts.
InsertsFit ==
  \A i \in Saving \ disturbed : \A j \in ImageRows :
    /\ imageAt[i] \in {"unset", "insert"} => images[j].position < lastSeen[i]
    /\ imageAt[i] = "insert" /\ i \in AsPrimary => ~images[j].primary

\* Only an upload that asks to be primary takes the mark away.
OnlyPrimariesUnset == \A i \in ImageUploads : imageAt[i] = "unset" => i \in AsPrimary

ImagesInv ==
  /\ ImagesTypeOK
  /\ WrittenBeforeRead
  /\ OverlapDisturbs
  /\ InsertsFit
  /\ OnePrimaryUnlessOverlap
  /\ OnlyPrimariesUnset
  /\ MarkIsKept

LEMMA InitImagesInv == ImagesInit => ImagesInv
  <1> SUFFICES ASSUME ImagesInit PROVE ImagesInv
    OBVIOUS
  <1>1. PICK marked \in SUBSET GivenImages :
          images = [i \in Images |-> [position |-> 0, primary |-> i \in marked, there |-> i \in GivenImages]]
    BY DEF ImagesInit
  <1>2. \A i \in Images : images[i].position = 0 /\ images[i].there = (i \in GivenImages)
    BY <1>1
  <1>3. images \in [Images -> [position : Nat, primary : BOOLEAN, there : BOOLEAN]]
    BY <1>1
  <1>4. ImageRows \cap ImageUploads = {} /\ Saving = {}
    BY <1>2, ProductImagesAssumption DEF ImagesInit, ImageRows, Saving, Images
  <1>5. ImagesTypeOK
    BY <1>2, <1>3, ProductImagesAssumption DEF ImagesInit, ImagesTypeOK, Images
  <1>6. InsertsFit /\ OverlapDisturbs /\ OnePrimaryUnlessOverlap
    BY <1>4 DEF InsertsFit, OverlapDisturbs, OnePrimaryUnlessOverlap
  <1>7. WrittenBeforeRead /\ OnlyPrimariesUnset /\ MarkIsKept
    BY ProductImagesAssumption DEF ImagesInit, WrittenBeforeRead, OnlyPrimariesUnset, MarkIsKept
  <1> QED BY <1>5, <1>6, <1>7 DEF ImagesInv

\* A step that leaves the rows, the mark's ghost and who is between its unset and its
\* insert as they were leaves what is known of the mark.
LEMMA MarkStays ==
  ASSUME ImagesInv, UNCHANGED <<images, unmarked>>,
         \A i \in AsPrimary : (imageAt'[i] = "done" <=> imageAt[i] = "done")
                            /\ (imageAt'[i] = "insert" <=> imageAt[i] = "insert"),
         \A i \in ImageUploads : imageAt'[i] = "unset" => imageAt[i] = "unset" \/ i \in AsPrimary
  PROVE  OnlyPrimariesUnset' /\ MarkIsKept'
  BY DEF ImagesInv, OnlyPrimariesUnset, MarkIsKept, ImageRows

LEMMA StartImageInv ==
  ASSUME ImagesInv, NEW i \in ImageUploads, StartImage(i)
  PROVE  ImagesInv'
  <1> USE DEF ImagesInv, StartImage, ImageGoes
  <1>1. ImagesTypeOK'
    BY DEF ImagesTypeOK, Saving
  <1>2. WrittenBeforeRead'
    BY DEF WrittenBeforeRead, ImagesTypeOK
  <1>3. Saving' = Saving \cup {i} /\ i \notin Saving
    BY DEF Saving, ImagesTypeOK
  <1>4. ImageRows' = ImageRows
    BY DEF ImageRows
  <1>5. OverlapDisturbs'
    BY <1>3 DEF OverlapDisturbs
  <1>6. InsertsFit'
    BY <1>3, <1>4 DEF InsertsFit, ImagesTypeOK
  <1>7. OnePrimaryUnlessOverlap'
    BY <1>4 DEF OnePrimaryUnlessOverlap
  <1>8. OnlyPrimariesUnset' /\ MarkIsKept'
    BY ProductImagesAssumption, MarkStays DEF ImagesTypeOK
  <1> QED BY <1>1, <1>2, <1>5, <1>6, <1>7, <1>8

LEMMA WriteSizeInv ==
  ASSUME ImagesInv, NEW i \in ImageUploads, NEW s \in Sizes, WriteSize(i, s)
  PROVE  ImagesInv'
  BY DEF ImagesInv, WriteSize, ImagesTypeOK, WrittenBeforeRead, OverlapDisturbs, InsertsFit,
     OnePrimaryUnlessOverlap, OnlyPrimariesUnset, MarkIsKept, Saving, ImageRows

LEMMA SizesWrittenInv ==
  ASSUME ImagesInv, NEW i \in ImageUploads, SizesWritten(i)
  PROVE  ImagesInv'
  <1> USE DEF ImagesInv, SizesWritten, ImageGoes
  <1>1. ImagesTypeOK' /\ WrittenBeforeRead'
    BY DEF AllSizes, ImagesTypeOK, WrittenBeforeRead
  <1>2. Saving' = Saving /\ ImageRows' = ImageRows
    BY DEF ImagesTypeOK, Saving, ImageRows
  <1>3. OverlapDisturbs' /\ OnePrimaryUnlessOverlap'
    BY <1>2 DEF OverlapDisturbs, OnePrimaryUnlessOverlap
  <1>4. InsertsFit'
    BY <1>2 DEF InsertsFit, ImagesTypeOK, Saving
  <1>5. OnlyPrimariesUnset' /\ MarkIsKept'
    BY ProductImagesAssumption, MarkStays DEF ImagesTypeOK
  <1> QED BY <1>1, <1>3, <1>4, <1>5

LEMMA ImageFailsInv ==
  ASSUME ImagesInv, NEW i \in ImageUploads, ImageFails(i)
  PROVE  ImagesInv'
  <1> USE DEF ImagesInv, ImageFails, ImageGoes
  <1>1. ImagesTypeOK' /\ WrittenBeforeRead'
    BY DEF ImagesTypeOK, WrittenBeforeRead, Saving
  <1>2. Saving' = Saving \ {i} /\ ImageRows' = ImageRows
    BY DEF ImagesTypeOK, Saving, ImageRows
  <1>3. OverlapDisturbs' /\ OnePrimaryUnlessOverlap'
    BY <1>2 DEF OverlapDisturbs, OnePrimaryUnlessOverlap
  <1>4. InsertsFit'
    BY <1>2 DEF InsertsFit, ImagesTypeOK, Saving
  <1>5. OnlyPrimariesUnset' /\ MarkIsKept'
    BY <1>2, ProductImagesAssumption DEF ImagesTypeOK, OnlyPrimariesUnset, MarkIsKept, Saving
  <1> QED BY <1>1, <1>3, <1>4, <1>5

\* The position read is past every row there is.
LEMMA ReadImagesInv ==
  ASSUME ImagesInv, NEW i \in ImageUploads, ReadImages(i)
  PROVE  ImagesInv'
  <1> USE DEF ImagesInv, ImageGoes
  <1>1. PICK n \in 0..(Cardinality(ImageUploads) + 1) :
           /\ \A j \in ImageRows : images[j].position < n
           /\ lastSeen' = [lastSeen EXCEPT ![i] = n]
    BY DEF ReadImages
  <1>2. n \in Nat
    BY <1>1, ProductImagesAssumption, FS_CardinalityType
  <1>3. ImagesTypeOK' /\ WrittenBeforeRead'
    BY <1>1, <1>2 DEF ReadImages, ImagesTypeOK, WrittenBeforeRead
  <1>4. Saving' = Saving /\ ImageRows' = ImageRows
    BY DEF ReadImages, ImagesTypeOK, Saving, ImageRows
  <1>5. OverlapDisturbs' /\ OnePrimaryUnlessOverlap'
    BY <1>4 DEF ReadImages, OverlapDisturbs, OnePrimaryUnlessOverlap
  <1>6. InsertsFit'
    BY <1>1, <1>4 DEF ReadImages, InsertsFit, ImagesTypeOK, Saving
  <1>7. OnlyPrimariesUnset' /\ MarkIsKept'
    BY ProductImagesAssumption, MarkStays DEF ReadImages, ImagesTypeOK
  <1> QED BY <1>3, <1>5, <1>6, <1>7

LEMMA UnsetPrimariesInv ==
  ASSUME ImagesInv, NEW i \in ImageUploads, UnsetPrimaries(i)
  PROVE  ImagesInv'
  <1> USE DEF ImagesInv, UnsetPrimaries, ImageGoes
  <1>1. /\ images' \in [Images -> [position : Nat, primary : BOOLEAN, there : BOOLEAN]]
        /\ \A j \in Images : images'[j].there = images[j].there
    <2>1. ASSUME NEW j \in Images
          PROVE  /\ images'[j] = [images[j] EXCEPT !.primary = FALSE]
                 /\ images[j] \in [position : Nat, primary : BOOLEAN, there : BOOLEAN]
      BY <2>1 DEF ImagesTypeOK
    <2>2. ASSUME NEW x \in [position : Nat, primary : BOOLEAN, there : BOOLEAN]
          PROVE  /\ [x EXCEPT !.primary = FALSE] \in [position : Nat, primary : BOOLEAN, there : BOOLEAN]
                 /\ [x EXCEPT !.primary = FALSE].there = x.there
      OBVIOUS
    <2>3. images' = [j \in Images |-> images'[j]]
      OBVIOUS
    <2> QED BY <2>1, <2>2, <2>3
  <1>2. ImagesTypeOK' /\ WrittenBeforeRead'
    BY <1>1 DEF Images, ImagesTypeOK, WrittenBeforeRead
  <1>3. Saving' = Saving /\ ImageRows' = ImageRows
    BY DEF ImagesTypeOK, Saving, ImageRows
  <1>4. \A j \in ImageRows : images'[j].position = images[j].position /\ ~images'[j].primary
    BY DEF ImageRows, ImagesTypeOK
  <1>5. OverlapDisturbs' /\ OnePrimaryUnlessOverlap'
    BY <1>3, <1>4 DEF OverlapDisturbs, OnePrimaryUnlessOverlap
  <1>6. InsertsFit'
    BY <1>3, <1>4 DEF InsertsFit, ImagesTypeOK, Saving
  <1>7. OnlyPrimariesUnset' /\ MarkIsKept'
    \* the upload is now before its insert
    BY DEF ImagesTypeOK, OnlyPrimariesUnset, MarkIsKept
  <1> QED BY <1>2, <1>5, <1>6, <1>7

\* A row that no upload disturbed is behind all others and the only primary one.
LEMMA InsertImageInv ==
  ASSUME ImagesInv, NEW i \in ImageUploads, InsertImage(i)
  PROVE  ImagesInv'
  <1> USE DEF ImagesInv, InsertImage, ImageGoes
  <1>1. ImagesTypeOK' /\ WrittenBeforeRead'
    BY ProductImagesAssumption DEF Images, ImagesTypeOK, WrittenBeforeRead
  <1>2. /\ i \in Saving /\ Saving' = Saving \ {i}
        /\ i \notin ImageRows /\ ImageRows' = ImageRows \cup {i}
    BY ProductImagesAssumption DEF Images, ImagesTypeOK, Saving, ImageRows
  <1>3. \A j \in ImageRows : images'[j] = images[j]
    BY <1>2 DEF ImagesTypeOK, ImageRows
  <1>4. OverlapDisturbs'
    BY <1>2 DEF OverlapDisturbs
  <1>5. InsertsFit'
    \* whoever else saves is disturbed by this upload
    BY <1>2 DEF InsertsFit, OverlapDisturbs
  <1>6. OnePrimaryUnlessOverlap'
    <2>1. images'[i].position = lastSeen[i] /\ (images'[i].primary => i \in AsPrimary)
      BY ProductImagesAssumption DEF Images, ImagesTypeOK
    <2>2. i \notin disturbed => \A j \in ImageRows :
            images[j].position < lastSeen[i] /\ ~(i \in AsPrimary /\ images[j].primary)
      BY <1>2 DEF InsertsFit
    <2>3. lastSeen[i] \in Nat /\ \A j \in ImageRows : images[j].position \in Nat
      BY DEF ImagesTypeOK, ImageRows
    <2>4. ASSUME NEW j \in ImageRows, i \notin disturbed
          PROVE  ~(images'[i].primary /\ images'[j].primary) /\ images'[i].position # images'[j].position
      <3>1. images'[j] = images[j]
        BY <1>3
      <3>2. ~(images'[i].primary /\ images'[j].primary)
        BY <2>1, <2>2, <2>4, <3>1 DEF ImagesTypeOK, ImageRows
      <3>3. images'[i].position # images'[j].position
        BY <2>1, <2>2, <2>3, <2>4, <3>1
      <3> QED BY <3>2, <3>3
    <2> SUFFICES ASSUME NEW j \in ImageRows' \cap ImageUploads, NEW k \in ImageRows', j # k, {j, k} \cap disturbed = {}
                 PROVE  ~(images'[j].primary /\ images'[k].primary) /\ images'[j].position # images'[k].position
      BY DEF OnePrimaryUnlessOverlap
    <2>5. CASE j = i
      BY <1>2, <2>4, <2>5
    <2>6. CASE k = i
      BY <1>2, <2>4, <2>6
    <2>7. CASE j # i /\ k # i
      BY <1>2, <1>3, <2>7 DEF OnePrimaryUnlessOverlap
    <2> QED BY <2>5, <2>6, <2>7
  <1>7. OnlyPrimariesUnset'
    BY DEF ImagesTypeOK, OnlyPrimariesUnset
  <1>8. MarkIsKept'
    <2>1. CASE i \in AsPrimary
      <3>1. images'[i].primary
        BY <2>1 DEF ImagesTypeOK, Images
      <3> QED BY <1>2, <3>1 DEF MarkIsKept
    <2>2. CASE i \notin AsPrimary
      BY <1>2, <1>3, <2>2, ProductImagesAssumption DEF MarkIsKept, ImagesTypeOK
    <2> QED BY <2>1, <2>2
  <1> QED BY <1>1, <1>4, <1>5, <1>6, <1>8, <1>7

LEMMA NextImagesInv == ImagesInv /\ [ImagesNext]_imageVars => ImagesInv'
  <1>1. ASSUME ImagesInv, ImagesNext PROVE ImagesInv'
    BY <1>1, StartImageInv, WriteSizeInv, SizesWrittenInv, ImageFailsInv, ReadImagesInv,
       UnsetPrimariesInv, InsertImageInv DEF ImagesNext
  <1>2. ASSUME ImagesInv, UNCHANGED imageVars PROVE ImagesInv'
    BY <1>2 DEF ImagesInv, imageVars, ImagesTypeOK, WrittenBeforeRead, OverlapDisturbs, InsertsFit,
       OnePrimaryUnlessOverlap, OnlyPrimariesUnset, MarkIsKept, Saving, ImageRows
  <1> QED BY <1>1, <1>2

LEMMA ImagesInvariant == ImagesSpec => []ImagesInv
  BY InitImagesInv, NextImagesInv, PTL DEF ImagesSpec

\* However many uploads write how many sizes (catalog/image.service.ts, addImage), whatever
\* images the product was created with: no uploaded row without its files, none that shares
\* the mark or its place unless uploads overlapped, and no loss of the mark but by an upload
\* that is, or failed, between taking it away and inserting its row.
THEOREM ImagesAreWhole == ImagesSpec => [](RowsHaveTheirFiles /\ OnePrimaryUnlessOverlap /\ MarkIsKept)
  <1>1. ImagesInv => RowsHaveTheirFiles
    BY DEF ImagesInv, ImagesTypeOK, WrittenBeforeRead, RowsHaveTheirFiles, ImageRows
  <1>2. ImagesInv => OnePrimaryUnlessOverlap /\ MarkIsKept
    BY DEF ImagesInv
  <1> QED BY <1>1, <1>2, ImagesInvariant, PTL
=============================================================================
