------------------------------ MODULE Reviews ------------------------------
(***************************************************************************)
(* The reviews of one product: a review of each buyer, its helpful votes   *)
(* with the counter that sorts it, and the product's rating aggregates,    *)
(* which every change of a review computes anew.                           *)
(*                                                                         *)
(* Each change is a Postgres transaction at READ COMMITTED; its            *)
(* uncommitted writes are seen by nobody, so the model applies them at     *)
(* the commit.  The row locks it holds till then follow from how far it    *)
(* is: a written review row, a written vote row, and the share lock that   *)
(* the foreign key of a new vote takes on its review.  A row is named by   *)
(* the request that inserts it, as its uuid is never used again.           *)
(***************************************************************************)
EXTENDS Naturals, FiniteSets

CONSTANTS
  Requests,      \* bound: the calls of a behaviour
  Users, User,   \* User[r]: the account that makes call r
  Purchasers,    \* the users with a paid order of the product
  Admins,
  Ratings, NoRow

VARIABLES
  rating,    \* committed reviews: the rating, or 0 for no row
  helpful,   \* Review.helpfulVotes
  votes,     \* committed vote rows
  shown,     \* the reviews that the product's aggregates were computed from
  task,      \* what each call does to which rows, since its first read
  seen,      \* the reviews that its aggregate query saw
  stage

reviewVars == <<rating, helpful, votes, shown, task, seen, stage>>

Kinds == {"create", "update", "delete", "vote", "unvote"}
Writing == {"cascade", "recompute", "publish"}
Active == {"write", "count"} \cup Writing
Over == {"done", "failed"}
NoTask == [kind |-> "none", review |-> NoRow, vote |-> NoRow, rating |-> 0]

ASSUME ReviewsAssumption ==
  /\ IsFiniteSet(Requests)
  /\ User \in [Requests -> Users]
  /\ Purchasers \subseteq Users
  /\ Ratings \subseteq Nat \ {0}
  /\ NoRow \notin Requests

Stars == Ratings \cup {0}
Tasks == [kind : Kinds, review : Requests, vote : Requests \cup {NoRow}, rating : Stars]

ReviewsTypeOK ==
  /\ rating \in [Requests -> Stars]
  /\ helpful \in [Requests -> Nat]
  /\ votes \subseteq Requests
  /\ shown \in [Requests -> Stars]
  /\ task \in [Requests -> Tasks \cup {NoTask}]
  /\ seen \in [Requests -> [Requests -> Stars]]
  /\ stage \in [Requests -> {"idle"} \cup Active \cup Over]

Empty == [r \in Requests |-> 0]
ReviewsInit ==
  /\ rating = Empty
  /\ helpful = Empty
  /\ votes = {}
  /\ shown = Empty
  /\ task = [r \in Requests |-> NoTask]
  /\ seen = [r \in Requests |-> Empty]
  /\ stage = [r \in Requests |-> "idle"]

Rows == {id \in Requests : rating[id] # 0}
ReviewsOf(u) == {id \in Rows : User[id] = u}
VotesFor(id) == {v \in votes : task[v].review = id}

-----------------------------------------------------------------------------
\* The first reads of a call: what is there decides what it will write.
Start(r, kind, id, v, stars) ==
  /\ stage[r] = "idle"
  /\ task' = [task EXCEPT ![r] = [kind |-> kind, review |-> id, vote |-> v, rating |-> stars]]
  /\ stage' = [stage EXCEPT ![r] = "write"]
  /\ UNCHANGED <<rating, helpful, votes, shown, seen>>

UpsertForUser(r, stars) ==
  /\ User[r] \in Purchasers
  /\ \/ ReviewsOf(User[r]) = {} /\ Start(r, "create", r, NoRow, stars)
     \/ \E id \in ReviewsOf(User[r]) : Start(r, "update", id, NoRow, stars)

\* removeForUser and deleteByAdmin.
Remove(r, id) ==
  /\ id \in Rows
  /\ User[r] = User[id] \/ User[r] \in Admins
  /\ Start(r, "delete", id, NoRow, 0)

\* A second vote takes the first one back.
VoteHelpful(r, id) ==
  LET mine == {v \in VotesFor(id) : User[v] = User[r]} IN
  /\ id \in Rows
  /\ \/ mine = {} /\ Start(r, "vote", id, r, 0)
     \/ \E v \in mine : Start(r, "unvote", id, v, 0)

-----------------------------------------------------------------------------
\* Whether the review row of u is written by a transaction that has not ended.
RowHeld(u) == \E q \in Requests : stage[q] \in Writing /\ User[task[q].review] = u

Counting(kinds, id) ==
  {q \in Requests : stage[q] = "count" /\ task[q].kind \in kinds /\ task[q].review = id}
Deleting(steps, id) ==
  {q \in Requests : stage[q] \in steps /\ task[q].kind = "delete" /\ task[q].review = id}

\* The lock that the first write of r waits for.
Blocked(r) ==
  LET id == task[r].review
      own == {q \in Counting({"vote", "unvote"}, id) : User[q] = User[r]}
  IN CASE task[r].kind \in {"create", "update"} -> RowHeld(User[id])
       [] task[r].kind = "delete" -> RowHeld(User[id]) \/ Counting({"vote"}, id) # {}
       [] task[r].kind = "vote" -> own # {} \/ Deleting(Writing, id) # {}
       [] task[r].kind = "unvote" -> own # {} \/ Deleting({"recompute", "publish"}, id) # {}

\* What was read no longer holds: the unique and foreign keys, or the missing
\* row, fail the first write.
StaleIfGone(r) ==
  \/ task[r].kind \in {"update", "delete", "vote"} /\ task[r].review \notin Rows
  \/ task[r].kind = "unvote" /\ task[r].vote \notin votes
Stale(r) ==
  LET id == task[r].review
  IN CASE task[r].kind = "create" -> ReviewsOf(User[r]) # {}
       [] task[r].kind \in {"update", "delete"} -> id \notin Rows
       [] task[r].kind = "vote" -> id \notin Rows \/ \E v \in VotesFor(id) : User[v] = User[r]
       [] task[r].kind = "unvote" -> task[r].vote \notin votes

Move(r, step) == stage' = [stage EXCEPT ![r] = step]

Write(r) ==
  /\ stage[r] = "write"
  /\ ~Blocked(r) /\ ~Stale(r)
  /\ Move(r, CASE task[r].kind \in {"create", "update"} -> "recompute"
               [] task[r].kind = "delete" -> "cascade"
               [] task[r].kind \in {"vote", "unvote"} -> "count")
  /\ UNCHANGED <<rating, helpful, votes, shown, task, seen>>

\* A failed write is tried again.
ConflictRetries(r) ==
  /\ stage[r] = "write"
  /\ ~Blocked(r) /\ Stale(r)
  /\ Move(r, "write")
  /\ UNCHANGED <<rating, helpful, votes, shown, task, seen>>
Conflict(r) ==
  /\ stage[r] = "write"
  /\ ~Blocked(r) /\ Stale(r)
  /\ Move(r, "failed")
  /\ UNCHANGED <<rating, helpful, votes, shown, task, seen>>

\* A deleted review takes its votes along: the rows that others are deleting
\* must be had first.
Cascade(r) ==
  /\ stage[r] = "cascade"
  /\ Counting({"unvote"}, task[r].review) = {}
  /\ Move(r, "recompute")
  /\ UNCHANGED <<rating, helpful, votes, shown, task, seen>>

\* The reviews as the transaction sees them: the committed ones and its own.
Written(r) ==
  [rating EXCEPT ![task[r].review] = IF task[r].kind = "delete" THEN 0 ELSE task[r].rating]

RecomputeAggregates(r) ==
  /\ stage[r] = "recompute"
  /\ seen' = [seen EXCEPT ![r] = Written(r)]
  /\ Move(r, "publish")
  /\ UNCHANGED <<rating, helpful, votes, shown, task>>

\* The product is updated from what the aggregate query saw; commit.
Publish(r) ==
  /\ stage[r] = "publish"
  /\ rating' = Written(r)
  /\ shown' = seen[r]
  /\ IF task[r].kind = "delete"
     THEN /\ votes' = votes \ VotesFor(task[r].review)
          /\ helpful' = [helpful EXCEPT ![task[r].review] = 0]
     ELSE UNCHANGED <<votes, helpful>>
  /\ Move(r, "done")
  /\ UNCHANGED <<task, seen>>

\* The counter moves with the vote row, on its newest value; commit.
TallyDown(r) == helpful[task[r].review] - 1
TallyUp(r) == helpful[task[r].review] + 1
Tally(r) == IF task[r].kind = "vote" THEN helpful[task[r].review] + 1
            ELSE helpful[task[r].review] - 1
Count(r) ==
  /\ stage[r] = "count"
  /\ ~RowHeld(User[task[r].review])
  /\ helpful' = [helpful EXCEPT ![task[r].review] = Tally(r)]
  /\ votes' = IF task[r].kind = "vote" THEN votes \cup {r} ELSE votes \ {task[r].vote}
  /\ Move(r, "done")
  /\ UNCHANGED <<rating, shown, task, seen>>

\* A database error or a restart rolls a call back.
Fail(r) ==
  /\ stage[r] \in Active
  /\ Move(r, "failed")
  /\ UNCHANGED <<rating, helpful, votes, shown, task, seen>>

\* Of a review's deletion and the withdrawal of a vote for it, each with the row
\* that the other one waits for, Postgres aborts one.
WaitForEachOther(r, q) ==
  /\ stage[r] = "count" /\ task[r].kind = "unvote"
  /\ q \in Deleting({"cascade"}, task[r].review)
AbortOne(r) ==
  /\ \E q \in Requests : WaitForEachOther(r, q) \/ WaitForEachOther(q, r)
  /\ Move(r, "failed")
  /\ UNCHANGED <<rating, helpful, votes, shown, task, seen>>

ReviewsNext == \E r \in Requests :
  \/ \E stars \in Ratings : UpsertForUser(r, stars)
  \/ \E id \in Requests : Remove(r, id) \/ VoteHelpful(r, id)
  \/ Write(r) \/ Conflict(r) \/ Cascade(r) \/ RecomputeAggregates(r) \/ Publish(r)
  \/ Count(r) \/ Fail(r) \/ AbortOne(r)

ReviewsSpec == ReviewsInit /\ [][ReviewsNext]_reviewVars

\* The database runs the statements it is sent, and its deadlock detector.
ReviewsFairness == \A r \in Requests :
  WF_reviewVars(Write(r) \/ Conflict(r) \/ Cascade(r) \/ RecomputeAggregates(r) \/ Publish(r)
          \/ Count(r) \/ AbortOne(r))
FairReviews == ReviewsSpec /\ ReviewsFairness

-----------------------------------------------------------------------------
\* The number that sorts a review is the number of its votes, however the votes,
\* withdrawals and deletions of many users interleave
\* (review-guide-part-3.md:67-69).
HelpfulCountsVotes == \A id \in Requests : helpful[id] = Cardinality(VotesFor(id))

\* "One per user per review": no double click leaves a user with two votes, and
\* no vote outlives its review.
OneVoteEach ==
  /\ \A v, w \in votes : task[v].review = task[w].review /\ User[v] = User[w] => v = w
  /\ \A v \in votes : task[v].review \in Rows

\* Every call is answered, whichever rows it waits for.
EveryCallEnds == \A r \in Requests : stage[r] \in Active ~> stage[r] \in Over
=============================================================================
