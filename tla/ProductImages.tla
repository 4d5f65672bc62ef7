---------------------------- MODULE ProductImages ----------------------------
(***************************************************************************)
(* The images of one product.  Some rows are created with it: they link to *)
(* files of others, all of them are in position 0, and any may be primary. *)
(* An upload writes three sizes of the file, beside each other, and then   *)
(* adds its row: it reads the product with its images, takes the mark of   *)
(* the primary image from those that have it, and inserts a row after the  *)
(* last position that it read.                                             *)
(***************************************************************************)
EXTENDS Naturals, FiniteSets

CONSTANTS
  GivenImages,     \* the rows that ProductsService.create inserts with the product
  ImageUploads,    \* bound: the uploads of a behaviour; they name their rows
  AsPrimary,       \* those that ask to be the primary image
  Sizes

VARIABLES
  files,        \* the sizes on disk of each upload
  images,       \* image rows: position and mark
  imageAt,      \* where each upload is
  lastSeen,     \* the last position it read, plus 1
  disturbed,    \* ghost: uploads that overlapped another
  unmarked      \* ghost: an upload took the mark away and failed before its insert,
                \* and none has inserted a primary image since

imageVars == <<files, images, imageAt, lastSeen, disturbed, unmarked>>

ASSUME ProductImagesAssumption ==
  /\ IsFiniteSet(ImageUploads)
  /\ AsPrimary \subseteq ImageUploads
  /\ GivenImages \cap ImageUploads = {}

Images == GivenImages \cup ImageUploads
ImageRows == {i \in Images : images[i].there}
Saving == {i \in ImageUploads : imageAt[i] \in {"sizes", "read", "unset", "insert"}}

ImagesTypeOK ==
  /\ files \in [ImageUploads -> SUBSET Sizes]
  /\ images \in [Images -> [position : Nat, primary : BOOLEAN, there : BOOLEAN]]
  /\ \A i \in ImageUploads : images[i].there <=> imageAt[i] = "done"
  /\ \A i \in GivenImages : images[i].there
  /\ imageAt \in [ImageUploads -> {"idle", "sizes", "read", "unset", "insert", "done", "failed"}]
  /\ lastSeen \in [ImageUploads -> Nat]
  /\ disturbed \subseteq ImageUploads
  /\ unmarked \in BOOLEAN

ImagesInit ==
  /\ files = [i \in ImageUploads |-> {}]
  /\ \E marked \in SUBSET GivenImages :
       images = [i \in Images |-> [position |-> 0, primary |-> i \in marked, there |-> i \in GivenImages]]
  /\ imageAt = [i \in ImageUploads |-> "idle"]
  /\ lastSeen = [i \in ImageUploads |-> 0]
  /\ disturbed = {}
  /\ unmarked = FALSE

ImageGoes(i, step) == imageAt' = [imageAt EXCEPT ![i] = step]

\* uploadImage: validateFile has passed.
StartImage(i) ==
  /\ imageAt[i] = "idle"
  /\ ImageGoes(i, "sizes")
  /\ disturbed' = IF Saving = {} THEN disturbed ELSE disturbed \cup Saving \cup {i}
  /\ UNCHANGED <<files, images, lastSeen, unmarked>>

\* resizeAndSave, of three sizes in parallel; a write may fail while the others
\* go on, and then no row is added.
WriteSize(i, s) ==
  /\ imageAt[i] \in {"sizes", "failed"}
  /\ s \in Sizes \ files[i]
  /\ files' = [files EXCEPT ![i] = @ \cup {s}]
  /\ UNCHANGED <<images, imageAt, lastSeen, disturbed, unmarked>>
AllSizes(i) == files[i] = Sizes
SizesWritten(i) ==
  /\ imageAt[i] = "sizes"
  /\ AllSizes(i)
  /\ ImageGoes(i, "read")
  /\ UNCHANGED <<files, images, lastSeen, disturbed, unmarked>>

\* addImage, a statement at a time.
ReadImages(i) ==
  /\ imageAt[i] = "read"
  /\ \E n \in 0..(Cardinality(ImageUploads) + 1) :
       /\ \A j \in ImageRows : images[j].position < n
       /\ n = 0 \/ \E j \in ImageRows : images[j].position = n - 1
       /\ lastSeen' = [lastSeen EXCEPT ![i] = n]
  /\ ImageGoes(i, IF i \in AsPrimary THEN "unset" ELSE "insert")
  /\ UNCHANGED <<files, images, disturbed, unmarked>>
UnsetNone(i) ==
  /\ imageAt[i] = "unset"
  /\ ImageGoes(i, "insert")
  /\ UNCHANGED <<files, images, lastSeen, disturbed, unmarked>>
UnsetPrimaries(i) ==
  /\ imageAt[i] = "unset"
  /\ images' = [j \in Images |-> [images[j] EXCEPT !.primary = FALSE]]
  /\ ImageGoes(i, "insert")
  /\ UNCHANGED <<files, lastSeen, disturbed, unmarked>>
InsertImage(i) ==
  /\ imageAt[i] = "insert"
  /\ images' = [images EXCEPT ![i] =
       [position |-> lastSeen[i], primary |-> i \in AsPrimary, there |-> TRUE]]
  /\ ImageGoes(i, "done")
  /\ unmarked' = (unmarked /\ i \notin AsPrimary)
  /\ UNCHANGED <<files, lastSeen, disturbed>>

ImageFails(i) ==
  /\ i \in Saving
  /\ ImageGoes(i, "failed")
  /\ unmarked' = (unmarked \/ (imageAt[i] = "insert" /\ i \in AsPrimary))
  /\ UNCHANGED <<files, images, lastSeen, disturbed>>

ImagesNext == \E i \in ImageUploads :
  \/ StartImage(i) \/ SizesWritten(i) \/ ReadImages(i) \/ UnsetPrimaries(i) \/ InsertImage(i)
  \/ ImageFails(i) \/ \E s \in Sizes : WriteSize(i, s)
ImagesSpec == ImagesInit /\ [][ImagesNext]_imageVars

-----------------------------------------------------------------------------
\* No page links to a file of the shop that is not there: the three sizes of an
\* uploaded image were all written before its row, whichever upload failed.
RowsHaveTheirFiles == \A i \in ImageRows \cap ImageUploads : files[i] = Sizes

\* An uploaded image is in a place of its own and not primary beside another, whatever
\* images the product was created with and whichever uploads failed: only two uploads
\* at once break that.  The images created with the product share a place, and several
\* of them may be primary, until an upload is.
OnePrimaryUnlessOverlap ==
  \A i \in ImageRows \cap ImageUploads, j \in ImageRows :
    i # j /\ {i, j} \cap disturbed = {} =>
      /\ ~(images[i].primary /\ images[j].primary)
      /\ images[i].position # images[j].position

\* Once an upload has made its image the primary one there is always one, however the
\* uploads overlap: the mark is gone only while an upload is between taking it away and
\* inserting its own row, or after one failed there.
MarkIsKept ==
  /\ \E i \in AsPrimary : imageAt[i] = "done"
  /\ \A i \in AsPrimary : imageAt[i] # "insert"
  /\ ~unmarked
  => \E j \in ImageRows : images[j].primary
==============================================================================
