--------------------------- MODULE MCProductPages ---------------------------
(* A shopper looks at a product and reviews it, twice; nobody else has the   *)
(* shopper's first name.                                                     *)
EXTENDS ProductPages

\* "Pre-fill the form with the user's existing review so re-submitting ... doesn't silently
\* blank out their title/body" (ProductReviews.tsx:54-55): a text that the shopper did not
\* take out, in a form that its list has reached, is still there after a sending.
ResubmitKeepsText ==
  [][\A p \in Things : myReview[p] = "text" /\ myReview'[p] # "text" => sending.meant]_productPageVars
=============================================================================
