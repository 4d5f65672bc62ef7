------------------------------- MODULE Session -------------------------------
(***************************************************************************)
(* The browser's session: the access token in memory, the refresh cookie,  *)
(* the user the pages see and the id of the guest's cart, as the requests  *)
(* under way change them.  A request refused for its token refreshes the   *)
(* session and is sent once more; several may do so at once.  The server's *)
(* rotation is one step here: RefreshTokens opens it.                      *)
(***************************************************************************)
EXTENDS Integers, FiniteSets

CONSTANTS Requests, Families,  \* bound: the requests under way, and the sign-ins still held somewhere
          Menu,                \* bound: Menu[r] are the kinds of request that r may be
          MaxIds,              \* bound: ids of guest carts
          NoCookie

ASSUME SessionAssumption ==
  /\ Families # {} /\ MaxIds \in Nat \ {0}
  /\ NoCookie \notin [of : Families, live : BOOLEAN]
  /\ \E r \in Requests : "login" \in Menu[r]

VARIABLES
  token,     \* the access token in memory: none, one that is good, or one the server refuses
  cookie,    \* the refresh cookie: its family of tokens, and whether it is the live one
  signedIn,  \* the user the pages see
  cartId,    \* the guest cart's id in localStorage
  wire,      \* the requests, with what each carries or has been answered
  stocked,   \* the guest carts on the server that hold goods
  raced, blurred,  \* ghosts: refreshes crossed or were lost; a merge crossed a cart request
  quit       \* ghost: the server took a sign-out that crossed nothing

sessionVars == <<token, cookie, signedIn, cartId, wire, stocked, raced, blurred, quit>>

Cookies == [of : Families, live : BOOLEAN]
MaybeCookie == Cookies \cup {NoCookie}
Tokens0 == {"none", "good", "old"}
Quiet == [kind |-> "page", at |-> "idle", again |-> FALSE, token |-> "none", cookie |-> NoCookie, id |-> 0]

SessionTypeOK ==
  /\ token \in Tokens0 /\ cookie \in MaybeCookie
  /\ {signedIn, raced, blurred, quit} \subseteq BOOLEAN
  /\ cartId \in 1..MaxIds /\ stocked \subseteq 1..MaxIds
  /\ wire \in [Requests -> [kind : {"page", "boot", "profile", "cart", "login", "logout", "merge"}, again : BOOLEAN,
                            at : {"idle", "sent", "ok", "refused", "lost", "refreshing", "renewed", "expired"},
                            token : Tokens0, cookie : MaybeCookie, id : 0..MaxIds]]

\* A first visit, or one that finds the cookie of an earlier sign-in.
Boot(c) == [Quiet EXCEPT !.kind = "boot", !.at = "refreshing", !.cookie = c]
Booting(c) ==
  LET first == CHOOSE r \in Requests : "login" \in Menu[r]
  IN  [r \in Requests |-> IF r = first THEN Boot(c) ELSE Quiet]
SessionInit ==
  /\ cookie \in {NoCookie} \cup [of : {CHOOSE f \in Families : TRUE}, live : {TRUE}]
  /\ token = "none" /\ signedIn = FALSE
  /\ cartId = 1 /\ stocked = {}
  /\ wire = Booting(cookie)
  /\ raced = FALSE /\ blurred = FALSE /\ quit = FALSE

OnWire == {r \in Requests : wire[r].at # "idle"}

-----------------------------------------------------------------------------
\* rawRequest: every request carries the token, the cookie and the cart's id.
Carried(kind) == [Quiet EXCEPT !.kind = kind, !.at = "sent", !.token = token,
                               !.cookie = IF kind = "logout" THEN cookie ELSE NoCookie,
                               !.id = IF kind \in {"cart", "merge"} THEN cartId ELSE 0]
CartMixes(kind) ==
  LET other == CASE kind = "cart" -> "merge" [] kind = "merge" -> "cart" [] OTHER -> "none"
  IN  \E r \in OnWire : wire[r].kind = other

Call(r, kind) ==
  /\ wire[r].at = "idle" /\ kind \in Menu[r]
  /\ kind \in {"page", "logout"} => signedIn
  /\ kind = "login" => ~signedIn /\ \A s \in OnWire : wire[s].kind # "login"
  /\ wire' = [wire EXCEPT ![r] = Carried(kind)]
  /\ blurred' = (blurred \/ CartMixes(kind))
  /\ raced' = (raced \/ (kind = "login" /\ OnWire # {}))
  /\ quit' = (quit /\ kind # "login")
  /\ UNCHANGED <<token, cookie, signedIn, cartId, stocked>>

\* What is carried no longer matters once the server has looked at it.
Looked(w, at) == [w EXCEPT !.at = at, !.token = "none", !.cookie = NoCookie]
Aged(t) == IF t = "good" THEN "old" ELSE t
Spent(c, f) == IF c # NoCookie /\ c.of = f THEN [c EXCEPT !.live = FALSE] ELSE c
SpentOnWire(f) == [r \in Requests |-> [wire[r] EXCEPT !.cookie = Spent(@, f)]]
\* A cookie of a family that has ended is as good as none.
EndedWith(c, f) == IF c # NoCookie /\ c.of = f THEN NoCookie ELSE c
EndedOnWire(f) == [r \in Requests |-> [wire[r] EXCEPT !.cookie = EndedWith(@, f)]]

\* The cart's routes are public: a token that is no longer good makes a guest of the shopper.
Granted(w) == w.kind = "cart" \/ w.token = "good"
StockedAfter(w) ==
  CASE w.kind = "cart" /\ w.token # "good" -> stocked \cup {w.id}
    [] w.kind = "merge" -> stocked \ {w.id}
    [] OTHER -> stocked
Held == ({cookie} \cup {wire[r].cookie : r \in Requests}) \ {NoCookie}
NewFamily(f) == f \notin {c.of : c \in Held}

ServeRequest(r) ==
  LET w == wire[r] IN
  /\ w.at = "sent" /\ w.kind \notin {"login", "logout"}
  /\ wire' = [wire EXCEPT ![r] = Looked(w, IF Granted(w) THEN "ok" ELSE "refused")]
  /\ stocked' = IF Granted(w) THEN StockedAfter(w) ELSE stocked
  /\ UNCHANGED <<token, cookie, signedIn, cartId, raced, blurred, quit>>

\* A wrong password is a 401 as well.
ServeLogin(r) ==
  /\ wire[r].at = "sent" /\ wire[r].kind = "login"
  /\ \/ wire' = [wire EXCEPT ![r] = Looked(@, "refused")]
     \/ \E f \in Families :
          /\ NewFamily(f) /\ \A g \in Families : NewFamily(g) => f <= g
          /\ wire' = [wire EXCEPT ![r] = [Looked(@, "ok") EXCEPT !.cookie = [of |-> f, live |-> TRUE], !.token = "good"]]
  /\ UNCHANGED <<token, cookie, signedIn, cartId, stocked, raced, blurred, quit>>

\* A sign-out needs a good token: it revokes the cookie it carries, and the token, which
\* another request may carry too.
ServeLogout(r) ==
  LET w == wire[r] IN
  /\ w.at = "sent" /\ w.kind = "logout"
  /\ IF w.token # "good"
     THEN wire' = [wire EXCEPT ![r] = Looked(w, "refused")] /\ UNCHANGED <<token, cookie>>
     ELSE /\ token' \in {token, Aged(token)}
          /\ LET revokes == w.cookie # NoCookie /\ w.cookie.live
                 left == IF revokes THEN EndedOnWire(w.cookie.of) ELSE wire
             IN  /\ cookie' = IF revokes THEN EndedWith(cookie, w.cookie.of) ELSE cookie
                 /\ wire' = [s \in Requests |-> IF s = r THEN Looked(w, "ok")
                                                ELSE [left[s] EXCEPT !.token = Aged(@)]]
  /\ UNCHANGED <<signedIn, cartId, stocked, raced, blurred, quit>>

\* rotate: a live token is replaced, a used one ends its family.
ServeRefresh(r) ==
  LET c == wire[r].cookie IN
  /\ wire[r].at = "refreshing"
  /\ \/ /\ c # NoCookie /\ c.live
        /\ wire' = [SpentOnWire(c.of) EXCEPT ![r] =
             [Looked(@, "renewed") EXCEPT !.cookie = c, !.token = "good"]]
        /\ cookie' = Spent(cookie, c.of)
     \/ /\ ~(c # NoCookie /\ c.live)
        /\ wire' = [IF c = NoCookie THEN wire ELSE EndedOnWire(c.of) EXCEPT ![r] = Looked(@, "expired")]
        /\ cookie' = IF c = NoCookie THEN cookie ELSE EndedWith(cookie, c.of)
  /\ UNCHANGED <<token, signedIn, cartId, stocked, raced, blurred, quit>>

\* The connection fails, or the time is up: the server may have answered.
LoseRequest(r) ==
  /\ wire[r].at \in {"sent", "ok", "refreshing", "renewed"}
  /\ wire' = [wire EXCEPT ![r] = Looked(@, IF @.at \in {"sent", "ok"} THEN "lost" ELSE "expired")]
  /\ raced' = TRUE
  /\ UNCHANGED <<token, cookie, signedIn, cartId, stocked, blurred, quit>>

\* The tokens that requests carry expire first, the browser's own with them or later.
TokenExpires ==
  /\ token' \in {token, Aged(token)}
  /\ wire' = [r \in Requests |-> IF wire[r].at = "sent" THEN [wire[r] EXCEPT !.token = Aged(@)] ELSE wire[r]]
  /\ UNCHANGED <<cookie, signedIn, cartId, stocked, raced, blurred, quit>>

-----------------------------------------------------------------------------
\* A 401 refreshes and repeats the request, once; a sign-out never does.
Repeats(w) == w.kind # "logout" /\ ~w.again
RefusedAnswered(r) ==
  /\ wire[r].at = "refused" /\ Repeats(wire[r])
  /\ wire' = [wire EXCEPT ![r].at = "refreshing", ![r].cookie = cookie]
  /\ raced' = (raced \/ OnWire # {r})
  /\ UNCHANGED <<token, cookie, signedIn, cartId, stocked, blurred, quit>>

\* At the start it fetches the profile; the cart's id goes out as it is now.
CookieStays(w) == cookie
CookieAfter(w) == w.cookie
AfterRenewal(w) == IF w.kind = "boot" THEN "profile" ELSE w.kind
RenewAnswered(r) ==
  LET w == wire[r] IN
  /\ w.at = "renewed"
  /\ token' = w.token /\ cookie' = CookieAfter(w)
  /\ wire' = [wire EXCEPT ![r] = [Carried(AfterRenewal(w)) EXCEPT !.token = w.token, !.again = w.kind # "boot",
                                                          !.id = IF w.kind = "merge" THEN w.id ELSE @]]
  /\ UNCHANGED <<signedIn, cartId, stocked, raced, blurred, quit>>

\* onUnauthorized: the session is over for every page, but at the start it has not begun.
RenewalFailed(r) ==
  /\ wire[r].at = "expired"
  /\ token' = "none" /\ signedIn' = (signedIn /\ wire[r].kind = "boot")
  /\ wire' = [wire EXCEPT ![r] = Quiet]
  /\ UNCHANGED <<cookie, cartId, stocked, raced, blurred, quit>>

\* The user has changed: the guest's cart is merged, by a request that follows at once.
MergeNext == [Quiet EXCEPT !.kind = "merge", !.at = "sent", !.token = token', !.id = cartId]
SignedInBy(r) ==
  /\ signedIn' = TRUE
  /\ wire' = [wire EXCEPT ![r] = MergeNext]
  /\ blurred' = (blurred \/ CartMixes("merge"))
  /\ UNCHANGED <<cartId, quit>>

Ended(r) == wire' = [wire EXCEPT ![r] = Quiet]
\* The merged cart's id is forgotten, and the refetch that follows makes up another.
Merged(w) == w.kind = "merge" /\ w.at = "ok"
RequestAnswered(r) ==
  LET w == wire[r] IN
  /\ w.at \in {"ok", "refused", "lost"} /\ (w.at = "refused" => ~Repeats(w))
  /\ \/ /\ w.kind = "login" /\ w.at = "ok"
        /\ token' = w.token /\ cookie' = w.cookie
        /\ SignedInBy(r)
     \/ /\ w.kind = "profile" /\ w.at = "ok"
        /\ UNCHANGED <<token, cookie>>
        /\ SignedInBy(r)
     \/ /\ w.kind = "logout"
        /\ token' = "none" /\ signedIn' = FALSE
        /\ cookie' = IF w.at = "ok" THEN NoCookie ELSE cookie
        /\ quit' = (w.at = "ok" /\ OnWire = {r})
        /\ Ended(r) /\ UNCHANGED <<cartId, blurred>>
     \/ /\ Merged(w) /\ cartId < MaxIds
        /\ cartId' = cartId + 1
        /\ Ended(r) /\ UNCHANGED <<token, cookie, signedIn, quit, blurred>>
     \/ /\ w.kind \in {"page", "cart"} \/ (w.kind # "logout" /\ w.at # "ok" /\ ~Merged(w))
        /\ signedIn' = (signedIn /\ w.kind # "profile")
        /\ Ended(r) /\ UNCHANGED <<token, cookie, cartId, quit, blurred>>
  /\ UNCHANGED <<stocked, raced>>

\* The page is loaded anew: the token is gone, the cookie and the id are not.
Reload ==
  /\ OnWire = {}
  /\ token' = "none" /\ signedIn' = FALSE
  /\ wire' = Booting(cookie)
  /\ UNCHANGED <<cookie, cartId, stocked, raced, blurred, quit>>

SessionNext ==
  \/ \E r \in Requests :
       \/ ServeRequest(r) \/ ServeLogin(r) \/ ServeLogout(r) \/ ServeRefresh(r) \/ LoseRequest(r)
       \/ RefusedAnswered(r) \/ RenewAnswered(r) \/ RenewalFailed(r) \/ RequestAnswered(r)
       \/ \E kind \in {"page", "cart", "login", "logout"} : Call(r, kind)
  \/ TokenExpires
  \/ Reload

SessionSpec == SessionInit /\ [][SessionNext]_sessionVars

-----------------------------------------------------------------------------
\* An access token may expire at any time and the shopper stays signed in, until signing
\* out or loading the page anew, as long as no refresh crossed another request or was lost.
SessionOutlivesItsToken ==
  [][signedIn /\ ~signedIn' /\ ~raced' => wire' = Booting(cookie) \/ \E r \in OnWire : wire[r].kind = "logout"]_sessionVars

\* A sign-out that the server took, and that crossed nothing, is for good: neither a
\* request nor loading the page anew brings the user back without signing in again.
SignedOutStaysOut == quit => ~signedIn

\* Goods put in a guest's cart stay within the browser's reach until they are merged,
\* those an expired token put there included, unless a merge crossed a cart request.
GuestGoodsAreKept == ~blurred => stocked \subseteq {cartId}

\* A session lasts for as long as its cookie, ends for good, and keeps what its guest had.
SessionIsKept == [](SignedOutStaysOut /\ GuestGoodsAreKept) /\ SessionOutlivesItsToken
==============================================================================
