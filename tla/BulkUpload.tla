----------------------------- MODULE BulkUpload -----------------------------
(***************************************************************************)
(* Products written by admins: one by one, and in bulk from a file whose   *)
(* rows are handled one after the other, each with its own error.  Nothing *)
(* is a transaction: one action is one statement, and other uploads run in *)
(* between.  A slug is the base made from a name and the number that       *)
(* uniqueSlug appended to it, 0 for none.                                  *)
(***************************************************************************)
EXTENDS Naturals, Sequences, FiniteSets

CONSTANTS
  Uploads,       \* bound: the requests of a behaviour
  File,          \* File[u]: the rows of upload u; one row for a single product
  Single,        \* the requests that create one product
  Json,          \* the uploads of JSON; the others are CSV files
  Names, KnownCategories, Brands, Unbranded

VARIABLES
  products,   \* product rows: slug, and the upload row whose data they hold
  brands,     \* the brands there are
  upload,     \* each request: its statement, row, slug number and fallback brand
  outcome,    \* what it reports of each row handled so far
  spoiled,    \* ghost: requests that overlapped another, an edit or an error
  unheard     \* ghost: rows whose product was written, and whose answer was lost

bulkVars == <<products, brands, upload, outcome, spoiled, unheard>>

Slugs == [base : Names, n : Nat]
\* A cell is there and is a number where it must be.
RowsOfFile == [name : Names, category : KnownCategories \cup {"unknown"},
               brand : Brands \cup {Unbranded}, wellFormed : BOOLEAN]

ASSUME BulkUploadAssumption ==
  /\ File \in [Uploads -> Seq(RowsOfFile)]
  /\ Single \subseteq Uploads /\ Json \subseteq Uploads \ Single
  /\ \A u \in Single : Len(File[u]) = 1 /\ File[u][1].wellFormed
  /\ Unbranded \notin Brands

UploadSteps == {"idle", "row", "findBrand", "createBrand", "fallback", "slug", "existing", "create",
                "update", "drop", "done", "refused", "crashed"}
UploadOver == {"idle", "done", "refused", "crashed"}
Idle == [at |-> "idle", row |-> 0, n |-> 0, fallback |-> FALSE]
Uploading == {u \in Uploads : upload[u].at \notin UploadOver}

\* parseCsvToProducts leaves out the rows that are malformed, and reports them; the DTO of
\* a JSON upload refuses it whole.
WellFormed(row) == row.wellFormed
RowsOf(u) ==
  LET parsed[n \in 0..Len(File[u])] ==
        IF n = 0 THEN <<>>
        ELSE IF WellFormed(File[u][n]) THEN Append(parsed[n - 1], File[u][n])
        ELSE parsed[n - 1]
  IN parsed[Len(File[u])]
Refused(u) ==
  IF u \in Json THEN \E n \in DOMAIN File[u] : ~WellFormed(File[u][n]) ELSE Len(File[u]) = 0

BulkTypeOK ==
  /\ products \subseteq [slug : Slugs, by : Uploads \X Nat]
  /\ brands \subseteq Brands \cup {Unbranded}
  /\ upload \in [Uploads -> [at : UploadSteps, row : Nat, n : Nat, fallback : BOOLEAN]]
  /\ outcome \in [Uploads -> Seq({"imported", "skipped"})]
  /\ spoiled \subseteq Uploads /\ unheard \subseteq Uploads \X Nat
  /\ \A u \in Uploading : upload[u].row \in DOMAIN RowsOf(u) \/ upload[u].at = "drop"

BulkInit ==
  /\ products = {} /\ brands = {}
  /\ upload = [u \in Uploads |-> Idle]
  /\ outcome = [u \in Uploads |-> <<>>]
  /\ spoiled = {} /\ unheard = {}

Row(u) == RowsOf(u)[upload[u].row]
Slug(u) == [base |-> Row(u).name, n |-> upload[u].n]
\* A product that remove took off the shop keeps its row, and its slug with it.
Taken(slug) == \E p \in products : p.slug = slug

At(u, step) == upload[u].at = step
To(u, step) ==
  upload' = [upload EXCEPT ![u] = IF step \in UploadOver THEN [Idle EXCEPT !.at = step] ELSE [@ EXCEPT !.at = step]]
Clean == UNCHANGED <<spoiled, unheard>>
Spoil(us) == spoiled' = spoiled \cup us /\ UNCHANGED unheard

LastRow(u) == upload[u].row = Len(RowsOf(u))
\* Where a row's error leads, and a row that is in: to the next row, if there is
\* one; at the end the cache is dropped.
Report(u, result) ==
  /\ outcome' = [outcome EXCEPT ![u] = Append(@, result)]
  /\ IF u \in Single /\ result = "skipped"
     THEN To(u, "refused")
     ELSE upload' = [upload EXCEPT ![u].row = @ + 1, ![u].n = 0,
            ![u].at = IF LastRow(u) THEN "drop" ELSE "row"]

-----------------------------------------------------------------------------
\* bulkUpload, bulkUploadCsv, create.
StartUpload(u) ==
  /\ At(u, "idle")
  /\ upload' = [upload EXCEPT ![u].row = 1,
       ![u].at = IF Refused(u) THEN "refused"
                 ELSE IF u \in Single THEN "slug"
                 ELSE IF RowsOf(u) = <<>> THEN "drop" ELSE "row"]
  /\ IF Refused(u) \/ Uploading = {} THEN Clean ELSE Spoil(Uploading \cup {u})
  /\ UNCHANGED <<products, brands, outcome>>

FindCategory(u) ==
  /\ At(u, "row")
  /\ IF Row(u).category \notin KnownCategories
     THEN Report(u, "skipped")
     ELSE /\ To(u, IF Row(u).brand # Unbranded THEN "findBrand"
                   ELSE IF upload[u].fallback THEN "slug" ELSE "fallback")
          /\ UNCHANGED outcome
  /\ Clean
  /\ UNCHANGED <<products, brands>>

FindBrand(u) ==
  /\ At(u, "findBrand")
  /\ To(u, IF Row(u).brand \in brands THEN "slug" ELSE "createBrand")
  /\ Clean
  /\ UNCHANGED <<products, brands, outcome>>

\* The unique key fails the row of the upload that comes second.
CreateBrand(u) ==
  /\ At(u, "createBrand")
  /\ IF Row(u).brand \in brands
     THEN Report(u, "skipped") /\ UNCHANGED brands
     ELSE /\ brands' = brands \cup {Row(u).brand}
          /\ To(u, "slug")
          /\ UNCHANGED outcome
  /\ Clean
  /\ UNCHANGED products

\* The rows without a brand share one, looked for once.
UpsertFallback(u) ==
  /\ At(u, "fallback")
  /\ brands' = brands \cup {Unbranded}
  /\ upload' = [upload EXCEPT ![u].at = "slug", ![u].fallback = TRUE]
  /\ Clean
  /\ UNCHANGED <<products, outcome>>

\* uniqueSlug: one look at a time.
TrySlug(u) ==
  /\ At(u, "slug")
  /\ IF Taken(Slug(u))
     THEN upload' = [upload EXCEPT ![u].n = @ + 1]
     ELSE To(u, IF u \in Single THEN "create" ELSE "existing")
  /\ Clean
  /\ UNCHANGED <<products, brands, outcome>>

FindExisting(u) ==
  /\ At(u, "existing")
  /\ To(u, IF Taken(Slug(u)) THEN "update" ELSE "create")
  /\ Clean
  /\ UNCHANGED <<products, brands, outcome>>

\* The unique key of slugs refuses the row, and the foreign key a single product of
\* no category.
Creatable(u) == ~Taken(Slug(u)) /\ Row(u).category \in KnownCategories
Created(u) == products \cup {[slug |-> Slug(u), by |-> <<u, upload[u].row>>]}
CreateProduct(u) ==
  /\ At(u, "create")
  /\ IF Creatable(u)
     THEN products' = Created(u) /\ Report(u, "imported")
     ELSE Report(u, "skipped") /\ UNCHANGED products
  /\ Clean
  /\ UNCHANGED brands

Updated(u) == {IF p.slug = Slug(u) THEN [p EXCEPT !.by = <<u, upload[u].row>>] ELSE p : p \in products}
UpdateProduct(u) ==
  /\ At(u, "update")
  /\ products' = Updated(u)
  /\ Report(u, "imported")
  /\ Clean
  /\ UNCHANGED brands

\* invalidateCatalogCache, if anything was imported, and the answer.
Imported(u) == {i \in DOMAIN outcome[u] : outcome[u][i] = "imported"}
FinishUpload(u) ==
  /\ At(u, "drop")
  /\ To(u, "done")
  /\ Clean
  /\ UNCHANGED <<products, brands, outcome>>

\* A statement of a row fails, and the row's catch reports it; or the process restarts.
Caught(u) == u \in Uploading /\ ~At(u, "drop") /\ Report(u, "skipped")
Crashed(u) == u \in Uploading /\ To(u, "crashed") /\ UNCHANGED outcome

RowFails(u) ==
  /\ Caught(u) \/ Crashed(u)
  /\ Spoil({u})
  /\ UNCHANGED <<products, brands>>

\* The same after the statement committed: its answer is lost.
BrandUnheard(u) ==
  /\ At(u, "createBrand") \/ At(u, "fallback")
  /\ brands' = brands \cup {Row(u).brand}
  /\ Caught(u) \/ Crashed(u)
  /\ Spoil({u})
  /\ UNCHANGED products
ProductUnheard(u) ==
  /\ \/ At(u, "create") /\ Creatable(u) /\ products' = Created(u)
     \/ At(u, "update") /\ products' = Updated(u)
  /\ Caught(u) \/ Crashed(u)
  /\ spoiled' = spoiled \cup {u}
  /\ unheard' = unheard \cup {<<u, upload[u].row>>}
  /\ UNCHANGED brands

UploadStep(u) ==
  \/ FindCategory(u) \/ FindBrand(u) \/ CreateBrand(u) \/ UpsertFallback(u) \/ TrySlug(u)
  \/ FindExisting(u) \/ CreateProduct(u) \/ UpdateProduct(u) \/ FinishUpload(u)
BulkNext ==
  \E u \in Uploads :
    StartUpload(u) \/ UploadStep(u) \/ RowFails(u) \/ BrandUnheard(u) \/ ProductUnheard(u)
BulkSpec == BulkInit /\ [][BulkNext]_bulkVars

-----------------------------------------------------------------------------
\* "A single malformed row must not sink the whole file": of an upload that met
\* no error and no other upload, exactly the rows that are malformed or name an
\* unknown category are skipped, and each of the others is a product.
GoodRowsGetIn ==
  \A u \in Uploads \ spoiled : At(u, "done") =>
    /\ Len(outcome[u]) = Len(RowsOf(u))
    /\ \A i \in DOMAIN RowsOf(u) :
         outcome[u][i] = "imported" <=> RowsOf(u)[i].category \in KnownCategories
    /\ \A i \in Imported(u) : \E p \in products :
         p.slug.base = RowsOf(u)[i].name
           /\ (p.by = <<u, i>> \/ p.by[1] # u \/ (i < p.by[2] /\ RowsOf(u)[p.by[2]].name = p.slug.base))

\* What the report calls skipped has left no product, though uploads fail, overlap or stop,
\* but for a write that took place and whose answer was lost; and no two rows made one slug.
SkippedRowsLeaveNothing ==
  \A p \in products :
    /\ p.by \in unheard \/ (p.by[2] \in DOMAIN outcome[p.by[1]] /\ outcome[p.by[1]][p.by[2]] = "imported")
    /\ \A q \in products : p.slug = q.slug => p = q
=============================================================================
