--------------------------- MODULE MCCatalogCache ---------------------------
(* An instance of CatalogCache for TLC, and a claim of a comment that its    *)
(* code does not keep.                                                       *)
EXTENDS CatalogCache

CONSTANTS search1

MCPattern == [k \in Keys |-> "search:*"]

\* products.service.ts:176: an admin write "is reflected immediately instead of waiting
\* out the 60s TTL": a visitor who asks after an admin was told that a write is saved is
\* shown nothing older.
ReflectedImmediately == \A r \in Readers : read[r].at = "done" => read[r].got >= floor[r]
=============================================================================
