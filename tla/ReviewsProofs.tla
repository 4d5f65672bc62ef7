--------------------------- MODULE ReviewsProofs ---------------------------
(***************************************************************************)
(* For any number of users and concurrent calls, the helpful counters      *)
(* agree with the votes, and nobody has two votes for a review.            *)
(***************************************************************************)
EXTENDS Reviews, FiniteSetTheorems, TLAPS

\* A call that has read something knows what it is to write.
TasksFounded ==
  \A r \in Requests :
    /\ stage[r] # "idle" => task[r] \in Tasks
    /\ stage[r] \in Writing => task[r].kind \in {"create", "update", "delete"}
    /\ stage[r] = "cascade" => task[r].kind = "delete"
    /\ stage[r] = "count" => task[r].kind \in {"vote", "unvote"}
    /\ task[r].kind \in {"create", "update"} => task[r].rating \in Ratings

\* A vote row was cast by a call that is over.
VotesFounded == \A v \in votes : stage[v] = "done" /\ task[v] \in Tasks

\* What a call that counts has written holds until it ends: the vote it adds is
\* the only one of its user, the vote it takes back is there.
Tallied(r) ==
  /\ task[r].review \in Rows
  /\ task[r].kind = "vote" =>
       \A v \in votes : ~(task[v].review = task[r].review /\ User[v] = User[r])
  /\ task[r].kind = "unvote" =>
       /\ task[r].vote \in votes
       /\ task[task[r].vote].review = task[r].review
       /\ User[task[r].vote] = User[r]
TalliesHold == \A r \in Requests : stage[r] = "count" => Tallied(r)

\* A user's votes for a review are counted one at a time.
OneTally ==
  \A r, q \in Requests :
    /\ stage[r] = "count" /\ stage[q] = "count"
    /\ task[r].review = task[q].review /\ User[r] = User[q]
    => r = q

\* An unfinished vote holds its review against deletion, and a deletion that has
\* the review's votes holds them against being taken back.
DeletesAlone ==
  \A d, r \in Requests :
    /\ stage[d] \in Writing /\ task[d].kind = "delete"
    /\ stage[r] = "count" /\ task[r].review = task[d].review
    => task[r].kind = "unvote" /\ stage[d] = "cascade"

\* A call that takes a vote back names one that its user has cast for the review.
UnvotesFounded ==
  \A r \in Requests : task[r].kind = "unvote" =>
    /\ task[r].vote \in Requests /\ stage[task[r].vote] = "done"
    /\ task[task[r].vote].review = task[r].review /\ User[task[r].vote] = User[r]

Locks == TalliesHold /\ OneTally /\ DeletesAlone
Founded == TasksFounded /\ VotesFounded /\ UnvotesFounded
IInv == ReviewsTypeOK /\ Founded /\ Locks /\ HelpfulCountsVotes /\ OneVoteEach

\* The votes for a review are finitely many.
LEMMA VotesAreFinite ==
  ASSUME ReviewsTypeOK, NEW id \in Requests
  PROVE  IsFiniteSet(VotesFor(id)) /\ Cardinality(VotesFor(id)) \in Nat
<1>1. VotesFor(id) \subseteq Requests
  BY DEF ReviewsTypeOK, VotesFor
<1>2. IsFiniteSet(VotesFor(id))
  BY <1>1, ReviewsAssumption, FS_Subset
<1>3. QED
  BY <1>2, FS_CardinalityType

\* The invariant holds before the first call.
LEMMA Initially == ReviewsInit => IInv
<1> SUFFICES ASSUME ReviewsInit PROVE IInv
  OBVIOUS
<1>1. ReviewsTypeOK
  BY DEF ReviewsInit, ReviewsTypeOK, Empty, Stars
<1>2. Founded /\ Locks
  BY DEF ReviewsInit, Founded, Locks, TasksFounded, VotesFounded, UnvotesFounded, TalliesHold,
         OneTally, DeletesAlone, Writing, NoTask
<1>3. \A id \in Requests : VotesFor(id) = {}
  BY DEF ReviewsInit, VotesFor
<1>4. HelpfulCountsVotes
  BY <1>3, FS_EmptySet DEF ReviewsInit, HelpfulCountsVotes, Empty
<1>5. QED
  BY <1>1, <1>2, <1>4 DEF ReviewsInit, IInv, OneVoteEach

\* What a step changes that leaves reviews, votes and the other calls alone.
LEMMA VotesStay ==
  ASSUME IInv, UNCHANGED <<rating, helpful, votes>>,
         \A v \in votes : task'[v] = task[v]
  PROVE  /\ Rows' = Rows /\ \A id \in Requests : VotesFor(id)' = VotesFor(id)
         /\ HelpfulCountsVotes' /\ OneVoteEach'
<1>1. Rows' = Rows /\ \A id \in Requests : VotesFor(id)' = VotesFor(id)
  BY DEF Rows, VotesFor
<1>2. QED
  BY <1>1 DEF IInv, HelpfulCountsVotes, OneVoteEach

\* Reading keeps the invariant: the call has written nothing yet.
LEMMA StartKeeps ==
  ASSUME IInv, NEW r \in Requests, NEW t \in Tasks, stage[r] = "idle",
         Start(r, t.kind, t.review, t.vote, t.rating),
         t.kind \in {"create", "update"} => t.rating \in Ratings,
         t.kind = "unvote" => /\ t.vote \in Requests /\ stage[t.vote] = "done"
                              /\ task[t.vote].review = t.review /\ User[t.vote] = User[r]
  PROVE  IInv'
<1>1. /\ task' = [task EXCEPT ![r] = t] /\ stage' = [stage EXCEPT ![r] = "write"]
      /\ UNCHANGED <<rating, helpful, votes, shown, seen>>
  BY DEF Start, Tasks
<1>2. ReviewsTypeOK'
  BY <1>1 DEF IInv, ReviewsTypeOK, Active
<1>3. /\ task'[r] = t /\ stage'[r] = "write"
      /\ \A q \in Requests : q # r => task'[q] = task[q] /\ stage'[q] = stage[q]
  BY <1>1 DEF IInv, ReviewsTypeOK
<1>4. r \notin votes /\ votes \subseteq Requests
  BY DEF IInv, Founded, VotesFounded, ReviewsTypeOK
<1>5. Rows' = Rows /\ HelpfulCountsVotes' /\ OneVoteEach'
  BY <1>1, <1>3, <1>4, VotesStay
<1>6. Founded'
  BY <1>1, <1>3, <1>4 DEF IInv, Founded, TasksFounded, VotesFounded, UnvotesFounded, Writing
<1>7. TalliesHold'
  BY <1>1, <1>3, <1>4, <1>5 DEF IInv, Locks, TalliesHold, Tallied
<1>8. OneTally' /\ DeletesAlone'
  BY <1>3 DEF IInv, Locks, OneTally, DeletesAlone, Writing
<1>9. QED
  BY <1>2, <1>5, <1>6, <1>7, <1>8 DEF IInv, Locks

\* A step of a call that only gets further keeps everything but, perhaps, the
\* part of the invariant about locks.
LEMMA MoveKeeps ==
  ASSUME IInv, NEW r \in Requests, NEW step \in {"failed", "done", "recompute", "publish",
                                                 "cascade", "count"},
         stage[r] \in Active, Move(r, step), UNCHANGED <<rating, helpful, votes, shown, task>>,
         seen' \in [Requests -> [Requests -> Stars]],
         step \in {"recompute", "publish", "cascade"} =>
           task[r].kind \in {"create", "update", "delete"},
         step = "cascade" => task[r].kind = "delete",
         step = "count" => task[r].kind \in {"vote", "unvote"}
  PROVE  /\ ReviewsTypeOK' /\ Founded' /\ HelpfulCountsVotes' /\ OneVoteEach'
         /\ stage'[r] = step /\ \A q \in Requests : q # r => stage'[q] = stage[q]
         /\ \A q \in Requests : Tallied(q)' <=> Tallied(q)
<1>1. stage' = [stage EXCEPT ![r] = step] /\ stage \in [Requests -> {"idle"} \cup Active \cup Over]
  BY DEF Move, IInv, ReviewsTypeOK
<1>2. stage'[r] = step /\ \A q \in Requests : q # r => stage'[q] = stage[q]
  BY <1>1
<1>3. ReviewsTypeOK'
  BY <1>1 DEF IInv, ReviewsTypeOK, Active, Writing, Over
<1>4. HelpfulCountsVotes' /\ OneVoteEach' /\ Rows' = Rows
  BY VotesStay
<1>5. stage[r] \notin {"done", "idle"}
  BY DEF Active, Writing
<1>6. TasksFounded' /\ VotesFounded' /\ UnvotesFounded'
  BY <1>2, <1>5 DEF IInv, Founded, TasksFounded, VotesFounded, UnvotesFounded, Writing, ReviewsTypeOK
<1>7. \A q \in Requests : Tallied(q)' <=> Tallied(q)
  BY <1>4 DEF Tallied
<1>8. QED
  BY <1>2, <1>3, <1>4, <1>6, <1>7 DEF Founded

\* A call that fails keeps the invariant: it holds nothing any more.
LEMMA FailureKeeps ==
  ASSUME IInv, NEW r \in Requests, stage[r] \in Active, Move(r, "failed"),
         UNCHANGED <<rating, helpful, votes, shown, task, seen>>
  PROVE  IInv'
<1>1. /\ ReviewsTypeOK' /\ Founded' /\ HelpfulCountsVotes' /\ OneVoteEach'
      /\ stage'[r] = "failed" /\ \A q \in Requests : q # r => stage'[q] = stage[q]
      /\ \A q \in Requests : Tallied(q)' <=> Tallied(q)
  BY MoveKeeps DEF IInv, ReviewsTypeOK
<1>2. Locks'
  BY <1>1 DEF IInv, Locks, TalliesHold, OneTally, DeletesAlone, Writing
<1>3. QED
  BY <1>1, <1>2 DEF IInv

\* The first write keeps the invariant: it waits for whoever it would disturb,
\* and finds what it read still so.
LEMMA WriteKeeps ==
  ASSUME IInv, NEW r \in Requests, Write(r)
  PROVE  IInv'
<1> DEFINE t == task[r]
<1>1. /\ stage[r] = "write" /\ ~Blocked(r) /\ ~Stale(r)
      /\ UNCHANGED <<rating, helpful, votes, shown, task, seen>>
  BY DEF Write
<1>2. t.kind \in Kinds /\ t.review \in Requests
  BY <1>1 DEF IInv, Founded, TasksFounded, Tasks
<1>3. CASE t.kind \in {"create", "update"}
  <2>1. Move(r, "recompute")
    BY <1>3 DEF Write
  <2>2. /\ ReviewsTypeOK' /\ Founded' /\ HelpfulCountsVotes' /\ OneVoteEach'
        /\ stage'[r] = "recompute" /\ \A q \in Requests : q # r => stage'[q] = stage[q]
        /\ \A q \in Requests : Tallied(q)' <=> Tallied(q)
    BY <1>1, <1>3, <2>1, MoveKeeps DEF IInv, ReviewsTypeOK, Active
  <2>3. Locks'
    BY <1>1, <1>3, <2>2 DEF IInv, Locks, TalliesHold, OneTally, DeletesAlone, Writing
  <2>4. QED
    BY <2>2, <2>3 DEF IInv
<1>4. CASE t.kind = "delete"
  <2>1. Move(r, "cascade")
    BY <1>4 DEF Write
  <2>2. /\ ReviewsTypeOK' /\ Founded' /\ HelpfulCountsVotes' /\ OneVoteEach'
        /\ stage'[r] = "cascade" /\ \A q \in Requests : q # r => stage'[q] = stage[q]
        /\ \A q \in Requests : Tallied(q)' <=> Tallied(q)
    BY <1>1, <1>4, <2>1, MoveKeeps DEF IInv, ReviewsTypeOK, Active
  <2>3. \A q \in Requests : stage[q] = "count" /\ task[q].review = t.review => task[q].kind = "unvote"
    BY <1>1, <1>4 DEF Blocked, Counting, IInv, Founded, TasksFounded
  <2>4. Locks'
    BY <1>1, <1>4, <2>2, <2>3 DEF IInv, Locks, TalliesHold, OneTally, DeletesAlone, Writing
  <2>5. QED
    BY <2>2, <2>4 DEF IInv
<1>5. CASE t.kind \in {"vote", "unvote"}
  <2>1. Move(r, "count")
    BY <1>5 DEF Write
  <2>2. /\ ReviewsTypeOK' /\ Founded' /\ HelpfulCountsVotes' /\ OneVoteEach'
        /\ stage'[r] = "count" /\ \A q \in Requests : q # r => stage'[q] = stage[q]
        /\ \A q \in Requests : Tallied(q)' <=> Tallied(q)
    BY <1>1, <1>5, <2>1, MoveKeeps DEF IInv, ReviewsTypeOK, Active
  <2>3. Tallied(r)
    <3>1. CASE t.kind = "vote"
      BY <1>1, <3>1 DEF Stale, Tallied, VotesFor
    <3>2. CASE t.kind = "unvote"
      BY <1>1, <3>2 DEF Stale, Tallied, IInv, Founded, UnvotesFounded, OneVoteEach
    <3>3. QED
      BY <1>5, <3>1, <3>2
  <2>4. \A q \in Requests : stage[q] = "count" /\ task[q].review = t.review => User[q] # User[r]
    BY <1>1, <1>5 DEF Blocked, Counting, IInv, Founded, TasksFounded
  <2>5. \A d \in Requests :
          stage[d] \in Writing /\ task[d].kind = "delete" /\ task[d].review = t.review
            => t.kind = "unvote" /\ stage[d] = "cascade"
    BY <1>1, <1>5 DEF Blocked, Deleting, Writing
  <2>6. Locks'
    <3>1. TalliesHold'
      BY <2>2, <2>3 DEF IInv, Locks, TalliesHold
    <3>2. OneTally'
      BY <1>1, <2>2, <2>4 DEF IInv, Locks, OneTally
    <3>3. DeletesAlone'
      BY <1>1, <2>2, <2>5 DEF IInv, Locks, DeletesAlone, Writing
    <3>4. QED
      BY <3>1, <3>2, <3>3 DEF Locks
  <2>7. QED
    BY <2>2, <2>6 DEF IInv
<1>6. QED
  BY <1>2, <1>3, <1>4, <1>5 DEF Kinds

\* Having the votes of a review, and computing the aggregates, keep the invariant.
LEMMA AdvanceKeeps ==
  ASSUME IInv, NEW r \in Requests, Cascade(r) \/ RecomputeAggregates(r)
  PROVE  IInv'
<1>1. CASE Cascade(r)
  <2>1. /\ stage[r] = "cascade" /\ Move(r, "recompute") /\ task[r].kind = "delete"
        /\ UNCHANGED <<rating, helpful, votes, shown, task, seen>>
    BY <1>1 DEF Cascade, IInv, Founded, TasksFounded
  <2>2. /\ ReviewsTypeOK' /\ Founded' /\ HelpfulCountsVotes' /\ OneVoteEach'
        /\ stage'[r] = "recompute" /\ \A q \in Requests : q # r => stage'[q] = stage[q]
        /\ \A q \in Requests : Tallied(q)' <=> Tallied(q)
    BY <2>1, MoveKeeps DEF IInv, ReviewsTypeOK, Active, Writing
  <2>3. \A q \in Requests : stage[q] = "count" => task[q].review # task[r].review
    BY <1>1, <2>1 DEF Cascade, Counting, IInv, Locks, DeletesAlone, Writing
  <2>4. Locks'
    BY <2>1, <2>2, <2>3 DEF IInv, Locks, TalliesHold, OneTally, DeletesAlone, Writing
  <2>5. QED
    BY <2>2, <2>4 DEF IInv
<1>2. CASE RecomputeAggregates(r)
  <2>1. /\ stage[r] = "recompute" /\ Move(r, "publish")
        /\ task[r].kind \in {"create", "update", "delete"} /\ task[r] \in Tasks
        /\ UNCHANGED <<rating, helpful, votes, shown, task>>
    BY <1>2 DEF RecomputeAggregates, IInv, Founded, TasksFounded, Writing
  <2>2. seen' \in [Requests -> [Requests -> Stars]]
    BY <1>2, <2>1 DEF RecomputeAggregates, Written, IInv, ReviewsTypeOK, Tasks, Stars
  <2>3. /\ ReviewsTypeOK' /\ Founded' /\ HelpfulCountsVotes' /\ OneVoteEach'
        /\ stage'[r] = "publish" /\ \A q \in Requests : q # r => stage'[q] = stage[q]
        /\ \A q \in Requests : Tallied(q)' <=> Tallied(q)
    BY <2>1, <2>2, MoveKeeps DEF Active, Writing
  <2>4. Locks'
    BY <2>1, <2>3 DEF IInv, Locks, TalliesHold, OneTally, DeletesAlone, Writing
  <2>5. QED
    BY <2>3, <2>4 DEF IInv
<1>3. QED
  BY <1>1, <1>2

\* The commit of a changed or deleted review keeps the invariant: nobody counts a
\* vote for a review that goes.
LEMMA PublishKeeps ==
  ASSUME IInv, NEW r \in Requests, Publish(r)
  PROVE  IInv'
<1> DEFINE id == task[r].review
           deleted == task[r].kind = "delete"
<1>1. /\ stage[r] = "publish" /\ stage' = [stage EXCEPT ![r] = "done"]
      /\ task[r] \in Tasks /\ id \in Requests
      /\ UNCHANGED <<task, seen>>
      /\ \A q \in Requests : q # r => stage'[q] = stage[q]
      /\ stage'[r] = "done"
  BY DEF Publish, Move, IInv, ReviewsTypeOK, Founded, TasksFounded, Tasks
<1>2. /\ \A q \in Requests : rating'[q] = IF q # id THEN rating[q]
                                          ELSE IF deleted THEN 0 ELSE task[r].rating
      /\ rating' \in [Requests -> Stars]
  BY <1>1 DEF Publish, Written, IInv, ReviewsTypeOK, Tasks, Stars
<1>3. ~deleted => task[r].rating # 0
  BY <1>1, ReviewsAssumption DEF IInv, Founded, TasksFounded, Writing
<1>4. /\ \A v \in votes : v \in votes' <=> ~(deleted /\ task[v].review = id)
      /\ votes' \subseteq votes /\ votes \subseteq Requests
      /\ \A q \in Requests : helpful'[q] = IF deleted /\ q = id THEN 0 ELSE helpful[q]
      /\ helpful' \in [Requests -> Nat]
  BY <1>1 DEF Publish, VotesFor, IInv, ReviewsTypeOK
<1>5. ReviewsTypeOK'
  BY <1>1, <1>2, <1>4 DEF Publish, IInv, ReviewsTypeOK, Over
<1>6. Founded'
  BY <1>1, <1>4 DEF IInv, Founded, TasksFounded, VotesFounded, UnvotesFounded, Writing
<1>7. \A q \in Rows : ~(deleted /\ q = id) => q \in Rows'
  <2> SUFFICES ASSUME NEW q \in Rows, ~(deleted /\ q = id)
               PROVE  rating'[q] # 0
    BY DEF Rows
  <2>1. CASE q = id
    BY <1>2, <1>3, <2>1 DEF Rows
  <2>2. CASE q # id
    BY <1>2, <2>2 DEF Rows
  <2>3. QED
    BY <2>1, <2>2
<1>8. \A q \in Requests : stage[q] = "count" /\ deleted => task[q].review # id
  BY <1>1 DEF IInv, Locks, DeletesAlone, Writing
<1>9. TalliesHold'
  <2> SUFFICES ASSUME NEW q \in Requests, stage'[q] = "count"
               PROVE  Tallied(q)'
    BY DEF TalliesHold
  <2>1. stage[q] = "count" /\ Tallied(q)
    BY <1>1 DEF IInv, Locks, TalliesHold
  <2>2. task[q].review \in Rows'
    BY <1>7, <1>8, <2>1 DEF Tallied
  <2>3. QED
    BY <1>1, <1>4, <1>8, <2>1, <2>2 DEF Tallied
<1>10. OneTally' /\ DeletesAlone'
  BY <1>1 DEF IInv, Locks, OneTally, DeletesAlone, Writing
<1>11. HelpfulCountsVotes'
  <2> SUFFICES ASSUME NEW q \in Requests
               PROVE  helpful'[q] = Cardinality(VotesFor(q)')
    BY DEF HelpfulCountsVotes
  <2>1. CASE deleted /\ q = id
    <3>1. VotesFor(q)' = {}
      BY <1>1, <1>4, <2>1 DEF VotesFor
    <3>2. QED
      BY <1>4, <2>1, <3>1, FS_EmptySet
  <2>2. CASE ~(deleted /\ q = id)
    <3>1. VotesFor(q)' = VotesFor(q)
      BY <1>1, <1>4, <2>2 DEF VotesFor
    <3>2. QED
      BY <1>4, <2>2, <3>1 DEF IInv, HelpfulCountsVotes
  <2>3. QED
    BY <2>1, <2>2
<1>12. OneVoteEach'
  BY <1>1, <1>4, <1>7 DEF IInv, OneVoteEach
<1>13. QED
  BY <1>5, <1>6, <1>9, <1>10, <1>11, <1>12 DEF IInv, Locks

\* The commit of a vote keeps the invariant: the counter moves with the row.
LEMMA CountKeeps ==
  ASSUME IInv, NEW r \in Requests, Count(r)
  PROVE  IInv'
<1> DEFINE id == task[r].review
           added == task[r].kind = "vote"
           gone == task[r].vote
<1>1. /\ stage[r] = "count" /\ stage' = [stage EXCEPT ![r] = "done"]
      /\ task[r] \in Tasks /\ id \in Requests /\ task[r].kind \in {"vote", "unvote"}
      /\ UNCHANGED <<rating, shown, task, seen>>
      /\ \A q \in Requests : q # r => stage'[q] = stage[q]
      /\ stage'[r] = "done"
  BY DEF Count, Move, IInv, ReviewsTypeOK, Founded, TasksFounded, Tasks
<1>2. Tallied(r) /\ r \notin votes
  BY <1>1 DEF IInv, Locks, TalliesHold, Founded, VotesFounded
<1>3. ~added => gone \in votes /\ gone \in Requests /\ gone # r /\ task[gone].review = id
                /\ User[gone] = User[r]
  BY <1>1, <1>2 DEF Tallied, IInv, ReviewsTypeOK
<1>4. votes' = IF added THEN votes \cup {r} ELSE votes \ {gone}
  BY DEF Count
<1>5. /\ IsFiniteSet(VotesFor(id)) /\ Cardinality(VotesFor(id)) \in Nat
      /\ helpful[id] = Cardinality(VotesFor(id))
  BY <1>1, VotesAreFinite DEF IInv, HelpfulCountsVotes
<1>6. \A q \in Requests : q # id => VotesFor(q)' = VotesFor(q)
  BY <1>1, <1>3, <1>4 DEF VotesFor
<1>7. VotesFor(id)' = IF added THEN VotesFor(id) \cup {r} ELSE VotesFor(id) \ {gone}
  BY <1>1, <1>4 DEF VotesFor
<1>8. helpful' = [helpful EXCEPT ![id] = Cardinality(VotesFor(id)')] /\ helpful'[id] \in Nat
  <2>1. CASE added
    <3>1. r \notin VotesFor(id)
      BY <1>2 DEF VotesFor
    <3>2. Cardinality(VotesFor(id)') = Cardinality(VotesFor(id)) + 1
      BY <1>5, <1>7, <2>1, <3>1, FS_AddElement
    <3>3. QED
      BY <1>1, <1>5, <2>1, <3>2 DEF Count, Tally, IInv, ReviewsTypeOK
  <2>2. CASE ~added
    <3>1. gone \in VotesFor(id)
      BY <1>3, <2>2 DEF VotesFor
    <3>2. Cardinality(VotesFor(id)') = Cardinality(VotesFor(id)) - 1
      BY <1>5, <1>7, <2>2, <3>1, FS_RemoveElement
    <3>3. IsFiniteSet(VotesFor(id)')
      BY <1>5, <1>7, <2>2, FS_RemoveElement
    <3>4. Cardinality(VotesFor(id)') \in Nat
      BY <3>3, FS_CardinalityType
    <3>5. QED
      BY <1>1, <1>5, <2>2, <3>2, <3>4 DEF Count, Tally, IInv, ReviewsTypeOK
  <2>3. QED
    BY <2>1, <2>2
<1>9. ReviewsTypeOK'
  BY <1>1, <1>4, <1>8 DEF IInv, ReviewsTypeOK, Over
<1>10. HelpfulCountsVotes'
  <2> SUFFICES ASSUME NEW q \in Requests
               PROVE  helpful'[q] = Cardinality(VotesFor(q)')
    BY DEF HelpfulCountsVotes
  <2>1. CASE q = id
    BY <1>1, <1>8, <2>1 DEF IInv, ReviewsTypeOK
  <2>2. CASE q # id
    BY <1>6, <1>8, <2>2 DEF IInv, HelpfulCountsVotes, ReviewsTypeOK
  <2>3. QED
    BY <2>1, <2>2
<1>11. Founded'
  BY <1>1, <1>4 DEF IInv, Founded, TasksFounded, VotesFounded, UnvotesFounded, Writing
<1>12. Rows' = Rows
  BY <1>1 DEF Rows
<1>13. OneVoteEach'
  <2>1. CASE added
    BY <1>1, <1>2, <1>4, <1>12, <2>1 DEF IInv, OneVoteEach, Tallied
  <2>2. CASE ~added
    BY <1>1, <1>4, <1>12, <2>2 DEF IInv, OneVoteEach
  <2>3. QED
    BY <2>1, <2>2
<1>14. TalliesHold'
  <2> SUFFICES ASSUME NEW q \in Requests, stage'[q] = "count"
               PROVE  Tallied(q)'
    BY DEF TalliesHold
  <2>1. /\ q # r /\ stage[q] = "count" /\ Tallied(q)
        /\ ~(task[q].review = id /\ User[q] = User[r])
    BY <1>1 DEF IInv, Locks, TalliesHold, OneTally
  <2>2. task[q].review \in Rows'
    BY <1>12, <2>1 DEF Tallied
  <2>3. QED
    BY <1>1, <1>3, <1>4, <2>1, <2>2 DEF Tallied
<1>15. OneTally' /\ DeletesAlone'
  BY <1>1 DEF IInv, Locks, OneTally, DeletesAlone, Writing
<1>16. QED
  BY <1>9, <1>10, <1>11, <1>13, <1>14, <1>15 DEF IInv, Locks

\* The first reads of every call keep the invariant.
LEMMA CallsKeep ==
  ASSUME IInv, NEW r \in Requests,
         \/ \E stars \in Ratings : UpsertForUser(r, stars)
         \/ \E id \in Requests : Remove(r, id) \/ VoteHelpful(r, id)
  PROVE  IInv'
<1> DEFINE Of(kind, id, v, stars) ==
             [kind |-> kind, review |-> id, vote |-> v, rating |-> stars]
<1>1. ASSUME NEW stars \in Ratings, UpsertForUser(r, stars) PROVE IInv'
  <2>1. ASSUME NEW kind \in {"create", "update"}, NEW id \in Requests,
               Start(r, kind, id, NoRow, stars)
        PROVE  IInv'
    <3>1. Of(kind, id, NoRow, stars) \in Tasks
      BY DEF Tasks, Kinds, Stars
    <3>2. stage[r] = "idle"
      BY <2>1 DEF Start
    <3>3. QED
      BY <2>1, <3>1, <3>2, StartKeeps
  <2>2. QED
    BY <1>1, <2>1 DEF UpsertForUser, ReviewsOf, Rows
<1>2. ASSUME NEW id \in Requests, Remove(r, id) PROVE IInv'
  <2>1. Of("delete", id, NoRow, 0) \in Tasks
    BY DEF Tasks, Kinds, Stars
  <2>2. stage[r] = "idle" /\ Start(r, "delete", id, NoRow, 0)
    BY <1>2 DEF Remove, Start
  <2>3. QED
    BY <2>1, <2>2, StartKeeps
<1>3. ASSUME NEW id \in Requests, VoteHelpful(r, id) PROVE IInv'
  <2>1. CASE Start(r, "vote", id, r, 0)
    <3>1. Of("vote", id, r, 0) \in Tasks
      BY DEF Tasks, Kinds, Stars
    <3>2. stage[r] = "idle"
      BY <2>1 DEF Start
    <3>3. QED
      BY <2>1, <3>1, <3>2, StartKeeps
  <2>2. ASSUME NEW v \in VotesFor(id), User[v] = User[r], Start(r, "unvote", id, v, 0)
        PROVE  IInv'
    <3>1. v \in Requests /\ stage[v] = "done" /\ task[v].review = id
      BY DEF VotesFor, IInv, Founded, VotesFounded, ReviewsTypeOK
    <3>2. Of("unvote", id, v, 0) \in Tasks
      BY <3>1 DEF Tasks, Kinds, Stars
    <3>3. stage[r] = "idle"
      BY <2>2 DEF Start
    <3>4. QED
      BY <2>2, <3>1, <3>2, <3>3, StartKeeps
  <2>3. QED
    BY <1>3, <2>1, <2>2 DEF VoteHelpful
<1>4. QED
  BY <1>1, <1>2, <1>3

\* Every step keeps the invariant.
LEMMA Stepwise == IInv /\ [ReviewsNext]_reviewVars => IInv'
<1> SUFFICES ASSUME IInv, [ReviewsNext]_reviewVars PROVE IInv'
  OBVIOUS
<1>1. CASE UNCHANGED reviewVars
  BY <1>1 DEF reviewVars, IInv, ReviewsTypeOK, Founded, TasksFounded, VotesFounded, UnvotesFounded, Locks,
              TalliesHold, Tallied, OneTally, DeletesAlone, HelpfulCountsVotes, OneVoteEach,
              Rows, VotesFor
<1>2. ASSUME NEW r \in Requests,
             \/ \E stars \in Ratings : UpsertForUser(r, stars)
             \/ \E id \in Requests : Remove(r, id) \/ VoteHelpful(r, id)
      PROVE  IInv'
  BY <1>2, CallsKeep
<1>3. ASSUME NEW r \in Requests, Write(r) PROVE IInv'
  BY <1>3, WriteKeeps
<1>4. ASSUME NEW r \in Requests, Cascade(r) \/ RecomputeAggregates(r) PROVE IInv'
  BY <1>4, AdvanceKeeps
<1>5. ASSUME NEW r \in Requests, Publish(r) PROVE IInv'
  BY <1>5, PublishKeeps
<1>6. ASSUME NEW r \in Requests, Count(r) PROVE IInv'
  BY <1>6, CountKeeps
<1>7. ASSUME NEW r \in Requests, Conflict(r) \/ Fail(r) \/ AbortOne(r) PROVE IInv'
  <2>1. /\ stage[r] \in Active /\ Move(r, "failed")
        /\ UNCHANGED <<rating, helpful, votes, shown, task, seen>>
    BY <1>7 DEF Conflict, Fail, AbortOne, WaitForEachOther, Deleting, Active, Writing
  <2>2. QED
    BY <2>1, FailureKeeps
<1>8. QED
  BY <1>1, <1>2, <1>3, <1>4, <1>5, <1>6, <1>7 DEF ReviewsNext

\* The invariant is inductive.
LEMMA Invariance == ReviewsSpec => []IInv
BY Initially, Stepwise, PTL DEF ReviewsSpec

\* Every variable keeps its type: no counter goes below zero.
THEOREM TypeCorrect == ReviewsSpec => []ReviewsTypeOK
<1>1. IInv => ReviewsTypeOK
  BY DEF IInv
<1>2. QED
  BY <1>1, Invariance, PTL

\* The counter that sorts the reviews is the number of their votes.
THEOREM CountersAgree == ReviewsSpec => []HelpfulCountsVotes
<1>1. IInv => HelpfulCountsVotes
  BY DEF IInv
<1>2. QED
  BY <1>1, Invariance, PTL

\* A user has at most one vote for a review, and only for one that exists.
THEOREM VotesAreSingle == ReviewsSpec => []OneVoteEach
<1>1. IInv => OneVoteEach
  BY DEF IInv
<1>2. QED
  BY <1>1, Invariance, PTL
=============================================================================
