----------------------------- MODULE Categories -----------------------------
(***************************************************************************)
(* The categories of the shop: rows that name their parent, written by     *)
(* admins, and the tree that the storefront asks for, built from the roots *)
(* down.                                                                   *)
(***************************************************************************)
EXTENDS Naturals, FiniteSets

CONSTANTS
  CategoryIds,
  InUse,         \* categories with a product
  MaxMoves,      \* bound: updates of a parent
  Root, Gone     \* no parent; no row

VARIABLES
  parent,     \* Category.parentId, or Gone
  moving,     \* the update under way: its category and the parent it will set
  moves,
  looped      \* ghost: categories moved below themselves, and not moved since

categoryVars == <<parent, moving, moves, looped>>

ASSUME CategoriesAssumption ==
  /\ IsFiniteSet(CategoryIds)
  /\ InUse \subseteq CategoryIds
  /\ {Root, Gone} \cap CategoryIds = {} /\ Root # Gone
  /\ MaxMoves \in Nat

NoMove == [category |-> Gone, to |-> Root]
Rooted == CategoryIds \cup {Root}
There == {c \in CategoryIds : parent[c] # Gone}

CategoriesTypeOK ==
  /\ parent \in [CategoryIds -> Rooted \cup {Gone}]
  /\ \A c \in There : parent[c] \in There \cup {Root}
  /\ moving \in [category : CategoryIds \cup {Gone}, to : Rooted]
  /\ moves \in 0..MaxMoves
  /\ looped \subseteq CategoryIds

CategoriesInit ==
  /\ parent = [c \in CategoryIds |-> Gone]
  /\ moving = NoMove
  /\ moves = 0
  /\ looped = {}

\* tree: the roots, and below each category that is in it its children: the least
\* set that has the ones and is closed under the other.
Children(p) == {c \in There : parent[c] = p}
Rooting(S) == Children(Root) \subseteq S /\ \A d \in S : Children(d) \subseteq S
Tree == {c \in There : \A S \in SUBSET There : Rooting(S) => c \in S}

\* c is p or above it: it is in each set that has p and the parents of its members.
Rising(S) == \A d \in S \cap There : parent[d] \in S
Above(c, p) == \A S \in SUBSET Rooted : p \in S /\ Rising(S) => c \in S

CreateCategory(c, p) ==
  /\ parent[c] = Gone
  /\ p \in There \cup {Root}
  /\ parent' = [parent EXCEPT ![c] = p]
  /\ UNCHANGED <<moving, moves, looped>>

\* update: the row is looked up, then written; a parent that is gone by then
\* fails the foreign key, a row that is gone fails the write.
BeginMove(c, p) ==
  /\ moving = NoMove /\ moves < MaxMoves
  /\ c \in There /\ p \in Rooted
  /\ moving' = [category |-> c, to |-> p]
  /\ moves' = moves + 1
  /\ UNCHANGED <<parent, looped>>
Move ==
  LET c == moving.category  p == moving.to IN
  /\ moving # NoMove
  /\ moving' = NoMove
  /\ IF c \in There /\ p \in There \cup {Root}
     THEN /\ parent' = [parent EXCEPT ![c] = p]
          /\ looped' = IF Above(c, p) THEN looped \cup {c} ELSE looped \ {c}
     ELSE UNCHANGED <<parent, looped>>
  /\ UNCHANGED moves

ParentAfter(c, d) ==
  CASE d = c -> Gone
    [] d # c /\ parent[d] = c -> Root
    [] OTHER -> parent[d]
\* remove: a product keeps its category; children become roots.
RemoveCategory(c) ==
  /\ c \in There \ InUse
  /\ parent' = [d \in CategoryIds |-> ParentAfter(c, d)]
  /\ looped' = looped \ ({c} \cup Children(c))
  /\ UNCHANGED <<moving, moves>>

CategoriesNext ==
  \/ \E c \in CategoryIds, p \in Rooted : CreateCategory(c, p) \/ BeginMove(c, p)
  \/ \E c \in CategoryIds : RemoveCategory(c)
  \/ Move
CategoriesSpec == CategoriesInit /\ [][CategoriesNext]_categoryVars

-----------------------------------------------------------------------------
\* "Returns the full category tree": a category is missing from it only below
\* one that an update has put below itself; deletions, and parents deleted
\* between the lookup and the write of an update, lose none.
TreeMissesOnlyLoops ==
  \A c \in There \ Tree : \E d \in looped : Above(d, c)
=============================================================================
