----------------------------- MODULE ProductPages -----------------------------
(***************************************************************************)
(* The page of a product and the reviews below it.  Moving to another      *)
(* product keeps the components: the page shows the old one until the new  *)
(* one has come, and nothing cancels what was asked before.  The review    *)
(* form is filled, once the list has come, from the first review whose     *)
(* author's name begins with the shopper's first name.                     *)
(***************************************************************************)
EXTENDS Integers, FiniteSets

CONSTANTS Things,      \* bound: the products looked at
          Namesakes,   \* the products that another of that first name may have reviewed
          MaxLooks,    \* bound: moves from one to another, and reviews sent
          NoThing

VARIABLES
  slug, productShown,             \* the product of the URL, and of the page
  wrongPage,                      \* an error took the place of the page
  asked,                          \* the requests under way
  myReview,                       \* of the server: the shopper's review of each product, and its text
  listOf, mine,                   \* the product of the reviews shown, and the one taken for the shopper's
  mayReview, field,               \* the form shows; its text
  sending,                        \* the review being sent
  looks,                          \* moves and reviews so far
  erased, emptied,                \* ghosts: the form was blanked by hand, or by the answer to a review
  tangled,                        \* ghost: products whose list and review were under way together
  shuffled                        \* ghost: answers crossed or were lost

ASSUME ProductPagesAssumption == MaxLooks \in Nat /\ NoThing \notin Things /\ Namesakes \subseteq Things

shopVars == <<slug, productShown, wrongPage, asked>>
reviewVars == <<myReview, listOf, mine, mayReview, field, sending, erased, emptied, tangled>>
productPageVars == <<shopVars, reviewVars, looks, shuffled>>

Texts == {"blank", "text", "theirs"}
NoReview == [by |-> "nobody", text |-> "blank"]
Unread == [by |-> "unread", text |-> "blank"]
Found == [by : {"nobody", "unread", "me", "namesake"}, text : Texts]
NotSending == [at |-> "no", of |-> NoThing, text |-> "blank", meant |-> FALSE, lapse |-> FALSE]
AskFor(kind, p) == [kind |-> kind, of |-> p, got |-> Unread]
ListsOf(p) == {r \in asked : r.kind = "reviews" /\ r.of = p}

ProductPagesTypeOK ==
  /\ slug \in Things /\ {productShown, listOf} \subseteq Things \cup {NoThing}
  /\ {wrongPage, mayReview, erased, emptied, shuffled} \subseteq BOOLEAN /\ tangled \subseteq Things
  /\ asked \subseteq [kind : {"product", "reviews", "canReview"}, of : Things, got : Found]
  /\ myReview \in [Things -> Texts \cup {"none"}] /\ mine \in Found /\ field \in Texts
  /\ sending \in [at : {"no", "sent", "ok", "failed"}, of : Things \cup {NoThing}, text : Texts,
                   meant : BOOLEAN, lapse : BOOLEAN]
  /\ looks \in 0..MaxLooks

ProductPagesInit ==
  /\ slug \in Things /\ productShown = NoThing /\ wrongPage = FALSE
  /\ asked = {AskFor("product", slug)}
  /\ myReview \in [Things -> {"none", "text"}]
  /\ listOf = NoThing /\ mine = NoReview /\ mayReview = FALSE /\ field = "blank"
  /\ sending = NotSending /\ looks = 0
  /\ erased = FALSE /\ emptied = FALSE /\ tangled = {} /\ shuffled = FALSE

-----------------------------------------------------------------------------
Look(p) ==
  /\ p # slug /\ looks < MaxLooks /\ ~wrongPage
  /\ slug' = p /\ looks' = looks + 1
  /\ asked' = asked \cup {AskFor("product", p)}
  /\ shuffled' = (shuffled \/ asked # {} \/ sending # NotSending)
  /\ UNCHANGED <<productShown, wrongPage, reviewVars>>

\* The product has come: when it is another one than before, its reviews are asked for
\* and whether the shopper may write one.
FollowUps(p) == {AskFor("reviews", p), AskFor("canReview", p)}
ProductAnswered(r) ==
  /\ r \in asked /\ r.kind = "product"
  /\ productShown' = r.of
  /\ asked' = (asked \ {r}) \cup (IF r.of = productShown THEN {} ELSE FollowUps(r.of))
  /\ tangled' = tangled \cup (IF r.of \in {sending.of} \ {productShown} THEN {r.of} ELSE {})
  /\ UNCHANGED <<slug, wrongPage, myReview, listOf, mine, mayReview, field, sending, erased, emptied, looks,
                 shuffled>>

\* The server reads the list, and the page shows it later.  In its order, by votes, the
\* shopper's review or a namesake's is the first.
Own(p) == IF myReview[p] = "none" THEN NoReview ELSE [by |-> "me", text |-> myReview[p]]
FirstOfName(p) ==
  {Own(p)} \cup (IF p \in Namesakes THEN [by : {"namesake"}, text : {"blank", "theirs"}] ELSE {})
ReadReviews(r) ==
  /\ r \in asked /\ r.kind = "reviews" /\ r.got = Unread
  /\ \E found \in FirstOfName(r.of) : asked' = (asked \ {r}) \cup {[r EXCEPT !.got = found]}
  /\ UNCHANGED <<slug, productShown, wrongPage, reviewVars, looks, shuffled>>

\* The form is filled when the review found is another one than before, not when its
\* text is.
FilledNever(old, oldOf, new, newOf) == field
Fills(old, oldOf, new, newOf) == new.by # "nobody" /\ (old.by # new.by \/ oldOf # newOf)
Filled(old, oldOf, new, newOf) == IF Fills(old, oldOf, new, newOf) THEN new.text ELSE field
ReviewsAnswered(r) ==
  /\ r \in asked /\ r.kind = "reviews" /\ r.got # Unread
  /\ listOf' = r.of /\ mine' = r.got
  /\ field' = Filled(mine, listOf, r.got, r.of)
  /\ erased' = (erased /\ ~Fills(mine, listOf, r.got, r.of))
  /\ emptied' = (emptied /\ ~Fills(mine, listOf, r.got, r.of))
  /\ asked' = asked \ {r}
  /\ UNCHANGED <<slug, productShown, wrongPage, myReview, mayReview, sending, tangled, looks, shuffled>>

CanReviewAnswered(r) ==
  /\ r \in asked /\ r.kind = "canReview"
  /\ mayReview' = TRUE
  /\ asked' = asked \ {r}
  /\ UNCHANGED <<slug, productShown, wrongPage, myReview, listOf, mine, field, sending, erased, emptied,
                 tangled, looks, shuffled>>

\* A lost request: no list shown, or an error in place of the page, for as long as it is
\* open, whatever comes later; the related products are left out.
RequestFails(r) ==
  /\ r \in asked
  /\ wrongPage' = (r.kind = "product")
  /\ asked' = IF wrongPage' THEN {} ELSE asked \ {r}
  /\ mayReview' = (mayReview /\ r.kind # "canReview")
  /\ IF r.kind = "reviews" THEN listOf' = NoThing /\ mine' = NoReview ELSE UNCHANGED <<listOf, mine>>
  /\ shuffled' = TRUE
  /\ UNCHANGED <<slug, productShown, myReview, field, sending, erased, emptied, tangled, looks>>

\* What cannot be put in the cart is an error too, and the page goes with it.
AddToCartFails ==
  /\ productShown # NoThing /\ ~wrongPage
  /\ wrongPage' = TRUE /\ asked' = {}
  /\ UNCHANGED <<slug, productShown, reviewVars, looks, shuffled>>

-----------------------------------------------------------------------------
FormOpen == mayReview /\ productShown # NoThing /\ ~wrongPage
TypeReview ==
  /\ FormOpen
  /\ field' \in {"blank", "text"} \ {field}
  /\ erased' = (field' = "blank") /\ emptied' = FALSE
  /\ UNCHANGED <<shopVars, myReview, listOf, mine, mayReview, sending, tangled, looks, shuffled>>

\* Ghosts: the text is the shopper's own choice, or the form could not know the review;
\* the form was emptied by the answer to a review, or took a namesake's for the shopper's.
Meant == erased \/ listOf # productShown \/ productShown \in tangled
Lapse == emptied \/ productShown \in Namesakes
SubmitReview ==
  /\ FormOpen /\ sending = NotSending /\ looks < MaxLooks
  /\ sending' = [at |-> "sent", of |-> productShown, text |-> field, meant |-> Meant, lapse |-> Lapse]
  /\ tangled' = tangled \cup {r.of : r \in ListsOf(productShown)}
  /\ looks' = looks + 1
  /\ UNCHANGED <<shopVars, myReview, listOf, mine, mayReview, field, erased, emptied, shuffled>>

ServeReview ==
  /\ sending.at = "sent"
  /\ \/ sending' = [sending EXCEPT !.at = "failed"] /\ UNCHANGED myReview
     \/ \E answer \in {"ok", "failed"} :
          /\ sending' = [sending EXCEPT !.at = answer]
          /\ myReview' = [myReview EXCEPT ![sending.of] = sending.text]
  /\ UNCHANGED <<shopVars, listOf, mine, mayReview, field, erased, emptied, tangled, looks, shuffled>>

\* The form is emptied, and the list and the product are fetched anew.
ReviewAnswered ==
  /\ sending.at \in {"ok", "failed"}
  /\ sending' = NotSending
  /\ IF sending.at = "ok"
     THEN /\ field' = "blank" /\ erased' = FALSE /\ emptied' = TRUE
          /\ asked' = IF wrongPage THEN {} ELSE asked \cup {AskFor("reviews", sending.of), AskFor("product", slug)}
          /\ shuffled' = (shuffled \/ asked # {} \/ slug # sending.of)
     ELSE shuffled' = TRUE /\ UNCHANGED <<field, erased, emptied, asked>>
  /\ UNCHANGED <<slug, productShown, wrongPage, myReview, listOf, mine, mayReview, tangled, looks>>

ProductPagesNext ==
  \/ \E p \in Things : Look(p)
  \/ \E r \in asked :
       \/ ProductAnswered(r) \/ ReadReviews(r) \/ ReviewsAnswered(r)
       \/ CanReviewAnswered(r) \/ RequestFails(r)
  \/ AddToCartFails \/ TypeReview \/ SubmitReview \/ ServeReview \/ ReviewAnswered
ProductPagesSpec == ProductPagesInit /\ [][ProductPagesNext]_productPageVars

-----------------------------------------------------------------------------
\* At rest the page shows the product of its address, the reviews are that product's, and
\* the shopper's own is found among them if no namesake's is there, unless answers crossed
\* or were lost.
PageIsOfOneProduct ==
  asked = {} /\ sending = NotSending /\ ~shuffled =>
    wrongPage \/ (productShown = slug /\ listOf = slug /\ (slug \notin Namesakes => mine = Own(slug)))

\* A review keeps its text when it is sent again, say for another rating or because its
\* answer was lost: it is replaced only by hand, by a form that its list had not reached,
\* by one that the answer to another review emptied, or by one filled from a namesake's.
KeepsItsText ==
  [][\A p \in Things : myReview[p] = "text" /\ myReview'[p] # "text" =>
       sending.meant \/ sending.lapse]_productPageVars
==============================================================================
