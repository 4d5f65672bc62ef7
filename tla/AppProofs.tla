----------------------------- MODULE AppProofs ------------------------------
(***************************************************************************)
(* The rest of the front end, one part per page: the session, the forms,   *)
(* the account page and the lists of the dashboard; and, at the end, what  *)
(* holds of all the pages in the one specification that their run explores.*)
(***************************************************************************)
EXTENDS MCApp, ShopPagesProofs, TLAPS

-----------------------------------------------------------------------------
(* The browser's session: for every number of requests, families and ids.    *)

IsLive(c) == c # NoCookie /\ c.live
Refreshers == {r \in Requests : wire[r].at \in {"refreshing", "renewed", "expired"}}
Entering == {r \in OnWire : wire[r].kind \in {"boot", "profile", "login"}}
Leaving == {r \in OnWire : wire[r].kind = "logout"}

\* A cart request is never refused, a sign-out never refreshes, and a boot does nothing else.
KindsFit ==
  \A r \in Requests :
    /\ wire[r].at = "idle" => wire[r].kind = "page"
    /\ wire[r].kind = "cart" => wire[r].at \in {"sent", "ok", "lost"} /\ wire[r].id # 0
    /\ wire[r].kind = "logout" => wire[r].at \in {"sent", "ok", "refused", "lost"}
    /\ wire[r].kind = "boot" => wire[r].at \in {"refreshing", "renewed", "expired"}

\* The session can be renewed: the cookie is the live one, or its renewal brings the next.
Serves ==
  /\ Refreshers = {} => IsLive(cookie)
  /\ \A r \in Refreshers :
       /\ wire[r].at = "refreshing" => wire[r].cookie = cookie /\ IsLive(cookie)
       /\ wire[r].at = "renewed" => IsLive(wire[r].cookie)
       /\ wire[r].at # "expired"

\* While no refresh crosses a request: one refreshes at a time, who signs in has but the cart's
\* requests beside it, and a session that is not being left can be renewed.
OneSession ==
  ~raced =>
    /\ \A r, s \in Refreshers : r = s
    /\ \A e \in Entering :
         /\ ~signedIn /\ \A s \in OnWire \ {e} : wire[s].kind = "cart"
         /\ wire[e].kind = "login" /\ wire[e].at = "ok" => IsLive(wire[e].cookie)
         /\ wire[e].kind = "boot" /\ wire[e].at = "renewed" => IsLive(wire[e].cookie)
         /\ wire[e].kind = "profile" => Serves
    /\ signedIn /\ Leaving = {} => Serves

\* After a sign-out nothing is under way that could bring a session.
QuitForGood ==
  quit =>
    /\ ~signedIn /\ cookie = NoCookie
    /\ \A r \in OnWire :
         \/ wire[r].kind = "cart"
         \/ wire[r].kind = "boot" /\ wire[r].cookie = NoCookie /\ wire[r].at \in {"refreshing", "expired"}

\* Until a merge crosses a cart request, requests fill the cart whose id the browser has, and a
\* merge leaves nothing behind.
GoodsFit ==
  ~blurred =>
    /\ stocked \subseteq {cartId}
    /\ \A r, s \in OnWire : wire[r].kind = "cart" => wire[r].id = cartId /\ wire[s].kind # "merge"
    /\ \A r \in OnWire : wire[r].kind = "merge" =>
         /\ wire[r].id = cartId \/ stocked = {}
         /\ wire[r].at = "ok" => stocked = {}

SessionInv == SessionTypeOK /\ KindsFit /\ OneSession /\ QuitForGood /\ GoodsFit

Kinds == {"page", "boot", "profile", "cart", "login", "logout", "merge"}
Ats == {"idle", "sent", "ok", "refused", "lost", "refreshing", "renewed", "expired"}
WireRecords ==
  [kind : Kinds, again : BOOLEAN, at : Ats, token : Tokens0, cookie : MaybeCookie, id : 0..MaxIds]

Outlives ==
  signedIn /\ ~signedIn' /\ ~raced' => wire' = Booting(cookie) \/ \E r \in OnWire : wire[r].kind = "logout"
SessionGoesOn == SessionInv' /\ Outlives

-----------------------------------------------------------------------------
(* What the helpers make of a request and of the cookies.                    *)

LEMMA QuietFits == Quiet \in WireRecords /\ Quiet.at = "idle" /\ Quiet.kind = "page"
  BY SessionAssumption DEF Quiet, WireRecords, Kinds, Ats, Tokens0, MaybeCookie

LEMMA SessionTyped ==
  ASSUME SessionTypeOK
  PROVE  /\ wire \in [Requests -> WireRecords] /\ token \in Tokens0 /\ cookie \in MaybeCookie
         /\ signedIn \in BOOLEAN /\ raced \in BOOLEAN /\ blurred \in BOOLEAN /\ quit \in BOOLEAN
         /\ cartId \in 1..MaxIds /\ stocked \subseteq 1..MaxIds /\ cartId \in 0..MaxIds
  BY SessionAssumption DEF SessionTypeOK, WireRecords, Kinds, Ats

LEMMA CarriedFits ==
  ASSUME SessionTypeOK, NEW kind \in Kinds
  PROVE  /\ Carried(kind) \in WireRecords /\ Carried(kind).at = "sent" /\ Carried(kind).kind = kind
         /\ kind \in {"cart", "merge"} => Carried(kind).id = cartId
         /\ ~Carried(kind).again
  <1>1. token \in Tokens0 /\ cookie \in MaybeCookie /\ cartId \in 0..MaxIds /\ 0 \in 0..MaxIds
    BY SessionAssumption, SessionTyped
  <1> QED BY <1>1 DEF Carried, Quiet, WireRecords, Kinds, Ats, Tokens0, MaybeCookie

LEMMA LookedFits ==
  ASSUME NEW w \in WireRecords, NEW at \in Ats
  PROVE  /\ Looked(w, at) \in WireRecords
         /\ Looked(w, at).at = at /\ Looked(w, at).kind = w.kind /\ Looked(w, at).id = w.id
         /\ Looked(w, at).cookie = NoCookie /\ Looked(w, at).again = w.again
  BY DEF Looked, WireRecords, Tokens0, MaybeCookie

LEMMA CookiesFit ==
  ASSUME NEW c \in MaybeCookie, NEW f
  PROVE  /\ Spent(c, f) \in MaybeCookie /\ EndedWith(c, f) \in MaybeCookie
         /\ c = NoCookie => Spent(c, f) = NoCookie /\ EndedWith(c, f) = NoCookie
  BY SessionAssumption DEF Spent, EndedWith, MaybeCookie, Cookies

LEMMA TokensFit == ASSUME NEW t \in Tokens0 PROVE Aged(t) \in Tokens0
  BY DEF Aged, Tokens0

\* One request changes in kind and place, the others at most in what they carry.
LEMMA WireSets ==
  ASSUME NEW r \in Requests, wire' \in [Requests -> WireRecords],
         \A s \in Requests \ {r} : wire'[s].kind = wire[s].kind /\ wire'[s].at = wire[s].at
  PROVE  /\ OnWire' = IF wire'[r].at = "idle" THEN OnWire \ {r} ELSE OnWire \cup {r}
         /\ Refreshers' = IF wire'[r].at \in {"refreshing", "renewed", "expired"} THEN Refreshers \cup {r}
                          ELSE Refreshers \ {r}
         /\ Entering' = IF wire'[r].at # "idle" /\ wire'[r].kind \in {"boot", "profile", "login"}
                        THEN Entering \cup {r} ELSE Entering \ {r}
         /\ Leaving' = IF wire'[r].at # "idle" /\ wire'[r].kind = "logout" THEN Leaving \cup {r}
                       ELSE Leaving \ {r}
  BY DEF OnWire, Refreshers, Entering, Leaving

LEMMA WireStep ==
  ASSUME SessionTypeOK, NEW r \in Requests, NEW x \in WireRecords, wire' = [wire EXCEPT ![r] = x]
  PROVE  /\ wire' \in [Requests -> WireRecords] /\ wire'[r] = x
         /\ \A s \in Requests \ {r} : wire'[s] = wire[s]
         /\ OnWire' = IF x.at = "idle" THEN OnWire \ {r} ELSE OnWire \cup {r}
         /\ Refreshers' = IF x.at \in {"refreshing", "renewed", "expired"} THEN Refreshers \cup {r}
                          ELSE Refreshers \ {r}
         /\ Entering' = IF x.at # "idle" /\ x.kind \in {"boot", "profile", "login"} THEN Entering \cup {r}
                        ELSE Entering \ {r}
         /\ Leaving' = IF x.at # "idle" /\ x.kind = "logout" THEN Leaving \cup {r} ELSE Leaving \ {r}
  <1>1. wire \in [Requests -> WireRecords]
    BY SessionTyped
  <1>2. /\ wire' \in [Requests -> WireRecords] /\ wire'[r] = x
        /\ \A s \in Requests \ {r} : wire'[s] = wire[s]
    BY <1>1
  <1> HIDE <1>1
  <1>3. \A s \in Requests \ {r} : wire'[s].kind = wire[s].kind /\ wire'[s].at = wire[s].at
    BY <1>2
  <1> QED BY <1>2, <1>3, WireSets

\* The page is loaded: the boot is the only request.
LEMMA BootFits ==
  ASSUME NEW c \in MaybeCookie
  PROVE  \E first \in Requests :
           /\ Booting(c) \in [Requests -> WireRecords]
           /\ Booting(c)[first].at = "refreshing" /\ Booting(c)[first].kind = "boot" /\ Booting(c)[first].cookie = c
           /\ \A r \in Requests \ {first} : Booting(c)[r] = Quiet
  <1> DEFINE first == CHOOSE r \in Requests : "login" \in Menu[r]
  <1>1. first \in Requests
    BY SessionAssumption
  <1>2. Boot(c) \in WireRecords /\ Boot(c).at = "refreshing" /\ Boot(c).kind = "boot" /\ Boot(c).cookie = c
    BY QuietFits, SessionAssumption DEF Boot, Quiet, WireRecords, Kinds, Ats, Tokens0
  <1>3. Booting(c) = [r \in Requests |-> IF r = first THEN Boot(c) ELSE Quiet]
    BY DEF Booting
  <1> HIDE DEF first
  <1>4. Booting(c)[first] = Boot(c) /\ \A r \in Requests \ {first} : Booting(c)[r] = Quiet
    BY <1>1, <1>3
  <1>5. Booting(c) \in [Requests -> WireRecords]
    BY <1>2, <1>3, QuietFits
  <1> QED BY <1>1, <1>2, <1>4, <1>5

\* A state in which the boot is the only request and nobody is signed in is a good one.
JustLoaded ==
  /\ cookie \in MaybeCookie /\ wire = Booting(cookie) /\ token = "none" /\ signedIn = FALSE
  /\ raced \in BOOLEAN /\ blurred \in BOOLEAN /\ quit \in BOOLEAN
  /\ cartId \in 1..MaxIds /\ stocked \subseteq 1..MaxIds
  /\ quit => cookie = NoCookie
  /\ ~blurred => stocked \subseteq {cartId}
LEMMA BootIsGood == JustLoaded => SessionInv
  <1> SUFFICES ASSUME JustLoaded PROVE SessionInv
    OBVIOUS
  <1> USE DEF JustLoaded
  <1>1. PICK first \in Requests :
          /\ wire \in [Requests -> WireRecords]
          /\ wire[first].at = "refreshing" /\ wire[first].kind = "boot" /\ wire[first].cookie = cookie
          /\ \A r \in Requests \ {first} : wire[r] = Quiet
    BY BootFits
  <1>2. \A r \in Requests \ {first} : wire[r].at = "idle" /\ wire[r].kind = "page"
    BY <1>1, QuietFits
  <1>3. SessionTypeOK
    BY <1>1 DEF SessionTypeOK, WireRecords, Kinds, Ats, Tokens0
  <1>4. KindsFit
    BY <1>1, <1>2 DEF KindsFit
  <1>5. OnWire = {first} /\ Refreshers = {first} /\ Entering = {first}
    BY <1>1, <1>2 DEF OnWire, Refreshers, Entering
  <1>6. OneSession
    BY <1>1, <1>5 DEF OneSession
  <1>7. QuitForGood /\ GoodsFit
    BY <1>1, <1>5 DEF QuitForGood, GoodsFit
  <1> QED BY <1>3, <1>4, <1>6, <1>7 DEF SessionInv

LEMMA InitSession == SessionInit => SessionInv
  <1> SUFFICES ASSUME SessionInit PROVE SessionInv
    OBVIOUS
  <1>1. cookie \in MaybeCookie
    BY SessionAssumption DEF SessionInit, MaybeCookie, Cookies
  <1>2. cartId \in 1..MaxIds
    BY SessionAssumption DEF SessionInit
  <1> QED BY <1>1, <1>2, BootIsGood DEF SessionInit, JustLoaded
-----------------------------------------------------------------------------
(* The browser sends.                                                        *)

\* What a change of one request must come to when nothing else changes.
LEMMA CallGoesOn ==
  ASSUME SessionInv, NEW r \in Requests, NEW kind \in {"page", "cart", "login", "logout"}, Call(r, kind)
  PROVE  SessionGoesOn
  <1> USE DEF SessionInv
  <1> DEFINE x == Carried(kind)
  <1>1. /\ wire[r].at = "idle" /\ wire' = [wire EXCEPT ![r] = x]
        /\ kind \in {"page", "logout"} => signedIn
        /\ kind = "login" => ~signedIn
        /\ blurred' \in BOOLEAN /\ (blurred' <=> blurred \/ CartMixes(kind))
        /\ raced' \in BOOLEAN /\ (raced' <=> raced \/ (kind = "login" /\ OnWire # {}))
        /\ quit' \in BOOLEAN /\ (quit' <=> quit /\ kind # "login")
        /\ UNCHANGED <<token, cookie, signedIn, cartId, stocked>>
    <2>1. {raced, blurred, quit} \subseteq BOOLEAN
      BY SessionTyped
    <2> QED BY <2>1 DEF Call
  <1>2. /\ x \in WireRecords /\ x.at = "sent" /\ x.kind = kind /\ (kind = "cart" => x.id = cartId)
    BY CarriedFits DEF Kinds
  <1> HIDE DEF x
  <1>3. /\ wire' \in [Requests -> WireRecords] /\ wire'[r] = x
        /\ \A s \in Requests \ {r} : wire'[s] = wire[s]
        /\ OnWire' = OnWire \cup {r} /\ Refreshers' = Refreshers \ {r}
        /\ Entering' = IF kind = "login" THEN Entering \cup {r} ELSE Entering \ {r}
        /\ Leaving' = IF kind = "logout" THEN Leaving \cup {r} ELSE Leaving \ {r}
    BY <1>1, <1>2, WireStep
  <1>4. r \notin OnWire /\ r \notin Refreshers /\ r \notin Entering /\ r \notin Leaving
    BY <1>1 DEF OnWire, Refreshers, Entering, Leaving
  <1>5. SessionTypeOK'
    BY <1>1, <1>3, SessionTyped DEF SessionTypeOK, WireRecords, Kinds, Ats
  <1>6. KindsFit'
    <2>1. cartId # 0
      BY SessionTyped, SessionAssumption
    <2> QED BY <1>2, <1>3, <2>1 DEF KindsFit
  <1>7. Serves => Serves'
    BY <1>1, <1>3, <1>4 DEF Serves, Refreshers, IsLive
  <1>8. OneSession'
    <2> SUFFICES ASSUME ~raced' PROVE OneSession'
      BY DEF OneSession
    <2>1. ~raced /\ (kind = "login" => OnWire = {})
      BY <1>1
    <2>2. Entering \subseteq OnWire /\ Refreshers' = Refreshers
      BY <1>3, <1>4 DEF Entering
    <2>3. \A s, t \in Refreshers' : s = t
      BY <2>1, <2>2 DEF OneSession
    <2>4. CASE kind = "login"
      <3>1. Entering' = {r} /\ OnWire' = {r} /\ ~signedIn'
        BY <1>1, <1>3, <2>1, <2>2, <2>4
      <3> QED BY <1>2, <1>3, <2>3, <2>4, <3>1 DEF OneSession
    <2>5. CASE kind # "login"
      <3>1. Entering' = Entering
        BY <1>3, <1>4, <2>5
      <3>2. ASSUME NEW e \in Entering PROVE kind = "cart"
        BY <1>1, <2>1, <2>5 DEF OneSession
      <3>3. \A e \in Entering : e # r /\ wire'[e] = wire[e]
        BY <1>3, <1>4 DEF Entering, OnWire
      <3>4. \A s \in OnWire : wire'[s] = wire[s]
        BY <1>3, <1>4 DEF OnWire
      <3>5. \A e \in Entering : \A s \in OnWire' \ {e} : wire'[s].kind = "cart"
        BY <1>2, <1>3, <2>1, <3>2, <3>4 DEF OneSession
      <3>6. signedIn' /\ Leaving' = {} => signedIn /\ Leaving = {}
        BY <1>1, <1>3, <1>4
      <3> QED BY <1>1, <1>7, <2>1, <2>3, <3>1, <3>3, <3>5, <3>6 DEF OneSession
    <2> QED BY <2>4, <2>5
  <1>9. QuitForGood'
    <2> SUFFICES ASSUME quit' PROVE QuitForGood'
      BY DEF QuitForGood
    <2>1. quit /\ kind = "cart" /\ ~signedIn
      BY <1>1 DEF QuitForGood
    <2>2. \A s \in OnWire : wire'[s] = wire[s]
      BY <1>3, <1>4 DEF OnWire
    <2> QED BY <1>1, <1>2, <1>3, <2>1, <2>2 DEF QuitForGood
  <1>10. GoodsFit'
    <2> SUFFICES ASSUME ~blurred' PROVE GoodsFit'
      BY DEF GoodsFit
    <2>1. ~blurred /\ ~CartMixes(kind)
      BY <1>1
    <2>2. kind = "cart" => \A s \in OnWire : wire[s].kind # "merge"
      BY <2>1 DEF CartMixes
    <2>3. \A s \in OnWire : wire'[s] = wire[s]
      BY <1>3, <1>4 DEF OnWire
    <2> QED BY <1>1, <1>2, <1>3, <2>1, <2>2, <2>3 DEF GoodsFit
  <1> QED BY <1>1, <1>5, <1>6, <1>8, <1>9, <1>10 DEF SessionGoesOn, Outlives

\* A request goes a step further on the wire, and nothing changes but the goods it moves.
LEMMA RequestServed ==
  ASSUME SessionInv, NEW r \in Requests, ServeRequest(r)
  PROVE  SessionGoesOn
  <1> USE DEF SessionInv
  <1> DEFINE w == wire[r]
             at == IF Granted(w) THEN "ok" ELSE "refused"
             x == Looked(w, at)
  <1>0. w \in WireRecords
    BY SessionTyped
  <1>1. /\ w.at = "sent" /\ w.kind \notin {"login", "logout"} /\ wire' = [wire EXCEPT ![r] = x]
        /\ stocked' = IF Granted(w) THEN StockedAfter(w) ELSE stocked
        /\ UNCHANGED <<token, cookie, signedIn, cartId, raced, blurred, quit>>
    BY DEF ServeRequest
  <1>2. /\ x \in WireRecords /\ x.at = at /\ x.kind = w.kind /\ x.id = w.id /\ at \in {"ok", "refused"}
        /\ w.kind = "cart" => at = "ok"
        /\ at = "ok" => Granted(w)
    BY <1>0, LookedFits DEF Ats, Granted
  <1> HIDE DEF w, x, at
  <1>3. r \in OnWire /\ r \notin Refreshers /\ (r \in Entering <=> w.kind \in {"profile", "boot"}) /\ r \notin Leaving
    BY <1>1 DEF OnWire, Refreshers, Entering, Leaving, w
  <1>4. /\ wire' \in [Requests -> WireRecords] /\ wire'[r] = x
        /\ \A s \in Requests \ {r} : wire'[s] = wire[s]
        /\ OnWire' = OnWire /\ Refreshers' = Refreshers /\ Entering' = Entering /\ Leaving' = Leaving
    <2>1. /\ wire' \in [Requests -> WireRecords] /\ wire'[r] = x
          /\ \A s \in Requests \ {r} : wire'[s] = wire[s]
          /\ OnWire' = OnWire \cup {r} /\ Refreshers' = Refreshers \ {r}
          /\ Entering' = IF w.kind \in {"boot", "profile", "login"} THEN Entering \cup {r} ELSE Entering \ {r}
          /\ Leaving' = Leaving \ {r}
      BY <1>1, <1>2, WireStep
    <2> QED BY <1>1, <1>3, <2>1
  <1>5. SessionTypeOK'
    <2>1. stocked' \subseteq 1..MaxIds
      <3>1. w.id \in 0..MaxIds /\ (w.kind = "cart" => w.id # 0)
        BY <1>0 DEF WireRecords, KindsFit, w
      <3>2. w.kind = "cart" => w.id \in 1..MaxIds
        BY <3>1, SessionAssumption
      <3> QED BY <1>1, <3>2, SessionTyped DEF StockedAfter
    <2> QED BY <1>1, <1>4, <2>1, SessionTyped DEF SessionTypeOK, WireRecords, Kinds, Ats
  <1>6. KindsFit'
    BY <1>1, <1>2, <1>4 DEF KindsFit, w
  <1>7. Serves => Serves'
    BY <1>1, <1>3, <1>4 DEF Serves, Refreshers, IsLive
  <1>8. OneSession'
    <2> SUFFICES ASSUME ~raced' PROVE OneSession'
      BY DEF OneSession
    <2>1. ~raced
      BY <1>1
    <2>2. \A s \in Requests : wire'[s].kind = wire[s].kind
      BY <1>2, <1>4 DEF w
    <2>3. OnWire \subseteq Requests /\ Entering \subseteq OnWire
      BY DEF OnWire, Entering
    <2>4. \A e \in Entering : ~signedIn' /\ \A s \in OnWire' \ {e} : wire'[s].kind = "cart"
      BY <1>1, <1>4, <2>1, <2>2, <2>3 DEF OneSession
    <2>5. \A e \in Entering : wire'[e].kind \in {"login", "boot"} => wire'[e] = wire[e]
      <3>1. wire'[r].kind \notin {"login", "boot"}
        BY <1>1, <1>2, <1>4 DEF KindsFit, w
      <3> QED BY <1>4, <2>3, <3>1
    <2>6. \A e \in Entering : wire'[e].kind = "profile" => Serves'
      BY <1>7, <2>1, <2>2, <2>3 DEF OneSession
    <2>7. signedIn' /\ Leaving' = {} => Serves'
      BY <1>1, <1>4, <1>7, <2>1 DEF OneSession
    <2>8. \A s, t \in Refreshers' : s = t
      BY <1>4, <2>1 DEF OneSession
    <2> QED BY <1>4, <2>1, <2>4, <2>5, <2>6, <2>7, <2>8 DEF OneSession
  <1>9. QuitForGood'
    <2> SUFFICES ASSUME quit PROVE QuitForGood'
      BY <1>1 DEF QuitForGood
    <2>1. w.kind = "cart"
      BY <1>1, <1>3 DEF QuitForGood, w
    <2>2. \A s \in OnWire : s # r => wire'[s] = wire[s]
      BY <1>4 DEF OnWire
    <2> QED BY <1>1, <1>2, <1>4, <2>1, <2>2 DEF QuitForGood
  <1>10. GoodsFit'
    <2> SUFFICES ASSUME ~blurred PROVE GoodsFit'
      BY <1>1 DEF GoodsFit
    <2>1. /\ \A s \in Requests : wire'[s].kind = wire[s].kind /\ wire'[s].id = wire[s].id
          /\ OnWire \subseteq Requests
      BY <1>2, <1>4 DEF w, OnWire
    <2>2. stocked \subseteq {cartId} /\ \A s, t \in OnWire : wire[s].kind = "cart" => wire[s].id = cartId /\ wire[t].kind # "merge"
      BY DEF GoodsFit
    <2>3. stocked' \subseteq {cartId}
      BY <1>1, <1>3, <2>2 DEF StockedAfter, w
    <2>4. \A s, t \in OnWire' : wire'[s].kind = "cart" => wire'[s].id = cartId' /\ wire'[t].kind # "merge"
      BY <1>1, <1>4, <2>1, <2>2
    <2>5. ASSUME NEW m \in OnWire, wire[m].kind = "merge"
          PROVE  (wire'[m].id = cartId \/ stocked' = {}) /\ (wire'[m].at = "ok" => stocked' = {})
      <3>1. w.kind # "cart" /\ stocked' \subseteq stocked
        BY <1>1, <1>3, <2>2, <2>5 DEF StockedAfter, w
      <3>2. wire[m].id = cartId \/ stocked = {}
        BY <2>5 DEF GoodsFit
      <3>3. CASE m = r
        <4>1. wire'[m].at = "ok" => stocked' = stocked \ {w.id}
          BY <1>1, <1>2, <1>4, <2>5, <3>3 DEF StockedAfter, w
        <4> QED BY <2>1, <2>2, <3>1, <3>2, <3>3, <4>1 DEF w
      <3>4. CASE m # r
        <4>1. wire'[m] = wire[m]
          BY <1>4, <2>1, <3>4
        <4> QED BY <2>5, <3>1, <4>1 DEF GoodsFit
      <3> QED BY <3>3, <3>4
    <2> QED BY <1>1, <1>4, <2>1, <2>3, <2>4, <2>5 DEF GoodsFit
  <1> QED BY <1>1, <1>5, <1>6, <1>8, <1>9, <1>10 DEF SessionGoesOn, Outlives

\* Without cookies to change hands: a step on the wire that changes neither the session nor the goods.
LEMMA LostOrAged ==
  ASSUME SessionInv, (\E r \in Requests : LoseRequest(r)) \/ TokenExpires
  PROVE  SessionGoesOn
  <1> USE DEF SessionInv
  <1>1. ASSUME NEW r \in Requests, LoseRequest(r) PROVE SessionGoesOn
    <2> DEFINE w == wire[r]
               at == IF w.at \in {"sent", "ok"} THEN "lost" ELSE "expired"
               x == Looked(w, at)
    <2>0. w \in WireRecords
      BY SessionTyped
    <2>1. /\ w.at \in {"sent", "ok", "refreshing", "renewed"} /\ raced' = TRUE
          /\ UNCHANGED <<token, cookie, signedIn, cartId, stocked, blurred, quit>>
      BY <1>1 DEF LoseRequest
    <2>2. wire' = [wire EXCEPT ![r] = x]
      BY <1>1, SessionTyped DEF LoseRequest
    <2>3. /\ x \in WireRecords /\ x.at = at /\ x.kind = w.kind /\ x.id = w.id /\ at \in {"lost", "expired"}
          /\ x.cookie = NoCookie
      BY <2>0, LookedFits DEF Ats
    <2>4. at = "lost" <=> w.at \in {"sent", "ok"}
      OBVIOUS
    <2> HIDE DEF w, x, at
    <2>5. /\ wire' \in [Requests -> WireRecords] /\ wire'[r] = x
          /\ \A s \in Requests \ {r} : wire'[s] = wire[s]
          /\ OnWire' = OnWire \cup {r}
      BY <2>2, <2>3, WireStep
    <2>6. r \in OnWire /\ OnWire \subseteq Requests
      BY <2>1 DEF OnWire, w
    <2>7. SessionTypeOK'
      BY <2>1, <2>5, SessionTyped DEF SessionTypeOK, WireRecords, Kinds, Ats
    <2>8. KindsFit'
      BY <2>1, <2>3, <2>4, <2>5 DEF KindsFit, w
    <2>9. OneSession'
      BY <2>1 DEF OneSession
    <2>10. QuitForGood'
      <3>1. ASSUME quit PROVE w.kind = "cart" \/ (w.kind = "boot" /\ w.at = "refreshing")
        BY <2>1, <2>6, <3>1 DEF QuitForGood, w
      <3>2. ASSUME quit PROVE w.kind = "cart" \/ (w.kind = "boot" /\ x.at = "expired")
        BY <2>3, <2>4, <3>1, <3>2
      <3> QED BY <2>1, <2>3, <2>5, <2>6, <3>2 DEF QuitForGood
    <2>11. GoodsFit'
      BY <2>1, <2>3, <2>5, <2>6 DEF GoodsFit, w
    <2> QED BY <2>1, <2>7, <2>8, <2>9, <2>10, <2>11 DEF SessionGoesOn, Outlives
  <1>2. ASSUME TokenExpires PROVE SessionGoesOn
    <2>1. UNCHANGED <<cookie, signedIn, cartId, stocked, raced, blurred, quit>>
      BY <1>2 DEF TokenExpires
    <2>2. token' \in Tokens0
      BY <1>2, SessionTyped, TokensFit DEF TokenExpires
    <2>3. /\ wire' \in [Requests -> WireRecords]
          /\ \A s \in Requests : /\ wire'[s].kind = wire[s].kind /\ wire'[s].at = wire[s].at
                                 /\ wire'[s].cookie = wire[s].cookie /\ wire'[s].id = wire[s].id
      <3>1. wire' = [s \in Requests |-> IF wire[s].at = "sent" THEN [wire[s] EXCEPT !.token = Aged(wire[s].token)] ELSE wire[s]]
        BY <1>2 DEF TokenExpires
      <3>2. ASSUME NEW y \in WireRecords, NEW t \in Tokens0
            PROVE  /\ [y EXCEPT !.token = t] \in WireRecords
                   /\ [y EXCEPT !.token = t].kind = y.kind /\ [y EXCEPT !.token = t].at = y.at
                   /\ [y EXCEPT !.token = t].cookie = y.cookie /\ [y EXCEPT !.token = t].id = y.id
        BY DEF WireRecords
      <3>3. \A s \in Requests : wire[s] \in WireRecords /\ Aged(wire[s].token) \in Tokens0
        BY SessionTyped, TokensFit DEF WireRecords
      <3> QED BY <3>1, <3>2, <3>3
    <2>4. OnWire' = OnWire /\ Refreshers' = Refreshers /\ Entering' = Entering /\ Leaving' = Leaving
          /\ OnWire \subseteq Requests /\ Refreshers \subseteq Requests /\ Entering \subseteq Requests
      BY <2>3 DEF OnWire, Refreshers, Entering, Leaving
    <2>5. SessionTypeOK'
      BY <2>1, <2>2, <2>3, SessionTyped DEF SessionTypeOK, WireRecords, Kinds, Ats
    <2>6. KindsFit'
      BY <2>3 DEF KindsFit
    <2>7. Serves' <=> Serves
      BY <2>1, <2>3, <2>4 DEF Serves, IsLive
    <2>8. OneSession'
      BY <2>1, <2>3, <2>4, <2>7 DEF OneSession, IsLive
    <2>9. QuitForGood'
      BY <2>1, <2>3, <2>4 DEF QuitForGood
    <2>10. GoodsFit'
      BY <2>1, <2>3, <2>4 DEF GoodsFit
    <2> QED BY <2>1, <2>5, <2>6, <2>8, <2>9, <2>10 DEF SessionGoesOn, Outlives
  <1> QED BY <1>1, <1>2
\* A sign-in is answered by the server, with a cookie of a family of its own, or refused.
LEMMA LoginServed ==
  ASSUME SessionInv, NEW r \in Requests, ServeLogin(r)
  PROVE  SessionGoesOn
  <1> USE DEF SessionInv
  <1> DEFINE w == wire[r]
  <1>0. w \in WireRecords
    BY SessionTyped
  <1>1. /\ w.at = "sent" /\ w.kind = "login"
        /\ UNCHANGED <<token, cookie, signedIn, cartId, stocked, raced, blurred, quit>>
    BY DEF ServeLogin
  <1>2. PICK x \in WireRecords :
          /\ wire' = [wire EXCEPT ![r] = x] /\ x.kind = w.kind /\ x.id = w.id /\ x.at \in {"ok", "refused"}
          /\ x.at = "ok" => IsLive(x.cookie)
    <2>1. CASE wire' = [wire EXCEPT ![r] = Looked(@, "refused")]
      <3>1. Looked(w, "refused") \in WireRecords /\ Looked(w, "refused").at = "refused"
            /\ Looked(w, "refused").kind = w.kind /\ Looked(w, "refused").id = w.id
        BY <1>0, LookedFits DEF Ats
      <3>2. wire' = [wire EXCEPT ![r] = Looked(w, "refused")]
        BY <2>1, SessionTyped
      <3> QED BY <3>1, <3>2
    <2>2. CASE \E f \in Families :
                 wire' = [wire EXCEPT ![r] = [Looked(@, "ok") EXCEPT !.cookie = [of |-> f, live |-> TRUE], !.token = "good"]]
      <3>1. PICK f \in Families :
              wire' = [wire EXCEPT ![r] = [Looked(@, "ok") EXCEPT !.cookie = [of |-> f, live |-> TRUE], !.token = "good"]]
        BY <2>2
      <3> DEFINE y == Looked(w, "ok")
                 x == [y EXCEPT !.cookie = [of |-> f, live |-> TRUE], !.token = "good"]
      <3>2. wire' = [wire EXCEPT ![r] = x]
        BY <3>1, SessionTyped
      <3>3. y \in WireRecords /\ y.at = "ok" /\ y.kind = w.kind /\ y.id = w.id
        BY <1>0, LookedFits DEF Ats
      <3>4. [of |-> f, live |-> TRUE] \in MaybeCookie /\ IsLive([of |-> f, live |-> TRUE])
        <4>1. [of |-> f, live |-> TRUE] \in [of : Families, live : BOOLEAN]
          OBVIOUS
        <4>2. [of |-> f, live |-> TRUE] # NoCookie
          BY <4>1, SessionAssumption
        <4> QED BY <4>1, <4>2 DEF MaybeCookie, Cookies, IsLive
      <3> HIDE DEF y
      <3>5. /\ x \in WireRecords /\ x.at = y.at /\ x.kind = y.kind /\ x.id = y.id
            /\ x.cookie = [of |-> f, live |-> TRUE]
        BY <3>3, <3>4 DEF WireRecords, Tokens0
      <3> HIDE DEF x
      <3> QED BY <3>2, <3>3, <3>4, <3>5
    <2> QED BY <2>1, <2>2 DEF ServeLogin
  <1> HIDE DEF w
  <1>3. /\ wire' \in [Requests -> WireRecords] /\ wire'[r] = x
        /\ \A s \in Requests \ {r} : wire'[s] = wire[s]
        /\ OnWire' = OnWire \cup {r} /\ Refreshers' = Refreshers \ {r}
        /\ Entering' = Entering \cup {r}
    BY <1>1, <1>2, WireStep
  <1>4. r \in OnWire /\ r \in Entering /\ r \notin Refreshers /\ OnWire \subseteq Requests /\ Entering \subseteq OnWire
    BY <1>1 DEF OnWire, Entering, Refreshers, w
  <1>5. SessionTypeOK'
    BY <1>1, <1>3, SessionTyped DEF SessionTypeOK, WireRecords, Kinds, Ats
  <1>6. KindsFit'
    BY <1>1, <1>2, <1>3 DEF KindsFit, w
  <1>7. OneSession'
    <2> SUFFICES ASSUME ~raced PROVE OneSession'
      BY <1>1 DEF OneSession
    <2>1. ~signedIn /\ \A s \in OnWire \ {r} : wire[s].kind = "cart"
      BY <1>4 DEF OneSession
    <2>2. Entering = {r}
      BY <1>4, <2>1 DEF Entering
    <2>3. \A s, t \in Refreshers' : s = t
      BY <1>3, <1>4 DEF OneSession
    <2> QED BY <1>1, <1>2, <1>3, <1>4, <2>1, <2>2, <2>3 DEF OneSession
  <1>8. QuitForGood'
    BY <1>1, <1>4 DEF QuitForGood, w
  <1>9. GoodsFit'
    BY <1>1, <1>2, <1>3, <1>4 DEF GoodsFit, w
  <1> QED BY <1>1, <1>5, <1>6, <1>7, <1>8, <1>9 DEF SessionGoesOn, Outlives

\* What a request of another carries may be spent, or end; its kind and place stay.
LEMMA OthersCarry ==
  ASSUME NEW y \in WireRecords, NEW c \in MaybeCookie, NEW t \in Tokens0
  PROVE  /\ [y EXCEPT !.cookie = c] \in WireRecords
         /\ [y EXCEPT !.cookie = c].kind = y.kind /\ [y EXCEPT !.cookie = c].at = y.at
         /\ [y EXCEPT !.cookie = c].cookie = c /\ [y EXCEPT !.cookie = c].id = y.id
         /\ [y EXCEPT !.cookie = c].again = y.again
         /\ [y EXCEPT !.token = t] \in WireRecords
         /\ [y EXCEPT !.token = t].kind = y.kind /\ [y EXCEPT !.token = t].at = y.at
         /\ [y EXCEPT !.token = t].cookie = y.cookie /\ [y EXCEPT !.token = t].id = y.id
  BY DEF WireRecords

LEMMA OnWireFits ==
  ASSUME SessionTypeOK, NEW f
  PROVE  /\ SpentOnWire(f) \in [Requests -> WireRecords] /\ EndedOnWire(f) \in [Requests -> WireRecords]
         /\ \A s \in Requests :
              /\ SpentOnWire(f)[s].kind = wire[s].kind /\ SpentOnWire(f)[s].at = wire[s].at
              /\ SpentOnWire(f)[s].id = wire[s].id /\ SpentOnWire(f)[s].again = wire[s].again
              /\ EndedOnWire(f)[s].kind = wire[s].kind /\ EndedOnWire(f)[s].at = wire[s].at
              /\ EndedOnWire(f)[s].id = wire[s].id /\ EndedOnWire(f)[s].again = wire[s].again
  <1>1. \A s \in Requests : wire[s] \in WireRecords /\ wire[s].cookie \in MaybeCookie
    BY SessionTyped DEF WireRecords
  <1>2. \A s \in Requests : Spent(wire[s].cookie, f) \in MaybeCookie /\ EndedWith(wire[s].cookie, f) \in MaybeCookie
    BY <1>1, CookiesFit
  <1>3. "none" \in Tokens0
    BY DEF Tokens0
  <1>4. \A s \in Requests :
          /\ SpentOnWire(f)[s] = [wire[s] EXCEPT !.cookie = Spent(wire[s].cookie, f)]
          /\ EndedOnWire(f)[s] = [wire[s] EXCEPT !.cookie = EndedWith(wire[s].cookie, f)]
    BY <1>1 DEF SpentOnWire, EndedOnWire
  <1>5. /\ SpentOnWire(f) = [s \in Requests |-> [wire[s] EXCEPT !.cookie = Spent(wire[s].cookie, f)]]
        /\ EndedOnWire(f) = [s \in Requests |-> [wire[s] EXCEPT !.cookie = EndedWith(wire[s].cookie, f)]]
    BY <1>1 DEF SpentOnWire, EndedOnWire
  <1>6. ASSUME NEW s \in Requests, NEW c \in MaybeCookie
        PROVE  /\ [wire[s] EXCEPT !.cookie = c] \in WireRecords
               /\ [wire[s] EXCEPT !.cookie = c].kind = wire[s].kind /\ [wire[s] EXCEPT !.cookie = c].at = wire[s].at
               /\ [wire[s] EXCEPT !.cookie = c].id = wire[s].id /\ [wire[s] EXCEPT !.cookie = c].again = wire[s].again
    BY <1>1, <1>3, OthersCarry
  <1>7. ASSUME NEW s \in Requests
        PROVE  /\ SpentOnWire(f)[s] \in WireRecords /\ EndedOnWire(f)[s] \in WireRecords
               /\ SpentOnWire(f)[s].kind = wire[s].kind /\ SpentOnWire(f)[s].at = wire[s].at
               /\ SpentOnWire(f)[s].id = wire[s].id /\ SpentOnWire(f)[s].again = wire[s].again
               /\ EndedOnWire(f)[s].kind = wire[s].kind /\ EndedOnWire(f)[s].at = wire[s].at
               /\ EndedOnWire(f)[s].id = wire[s].id /\ EndedOnWire(f)[s].again = wire[s].again
    <2>1. PICK c \in MaybeCookie : SpentOnWire(f)[s] = [wire[s] EXCEPT !.cookie = c]
      BY <1>2, <1>4
    <2>2. PICK d \in MaybeCookie : EndedOnWire(f)[s] = [wire[s] EXCEPT !.cookie = d]
      BY <1>2, <1>4
    <2>3. /\ SpentOnWire(f)[s] \in WireRecords
          /\ SpentOnWire(f)[s].kind = wire[s].kind /\ SpentOnWire(f)[s].at = wire[s].at
          /\ SpentOnWire(f)[s].id = wire[s].id /\ SpentOnWire(f)[s].again = wire[s].again
      BY <1>6, <2>1
    <2>4. /\ EndedOnWire(f)[s] \in WireRecords
          /\ EndedOnWire(f)[s].kind = wire[s].kind /\ EndedOnWire(f)[s].at = wire[s].at
          /\ EndedOnWire(f)[s].id = wire[s].id /\ EndedOnWire(f)[s].again = wire[s].again
      BY <1>6, <2>2
    <2> QED BY <2>3, <2>4
  <1>8. SpentOnWire(f) \in [Requests -> WireRecords] /\ EndedOnWire(f) \in [Requests -> WireRecords]
    BY <1>5, <1>7
  <1> QED BY <1>7, <1>8

\* A sign-out revokes the family whose cookie it carries, and the tokens on the wire.
LEMMA LogoutServed ==
  ASSUME SessionInv, NEW r \in Requests, ServeLogout(r)
  PROVE  SessionGoesOn
  <1> USE DEF SessionInv
  <1> DEFINE w == wire[r]
  <1>0. w \in WireRecords /\ wire \in [Requests -> WireRecords] /\ token \in Tokens0 /\ cookie \in MaybeCookie
    BY SessionTyped
  <1>1. /\ w.at = "sent" /\ w.kind = "logout"
        /\ UNCHANGED <<signedIn, cartId, stocked, raced, blurred, quit>>
    BY DEF ServeLogout
  <1>2. r \in OnWire /\ r \in Leaving /\ r \notin Entering /\ r \notin Refreshers
        /\ OnWire \subseteq Requests /\ Entering \subseteq OnWire
    BY <1>1 DEF OnWire, Entering, Refreshers, Leaving
  <1>3. /\ wire' \in [Requests -> WireRecords] /\ token' \in Tokens0 /\ cookie' \in MaybeCookie
        /\ \A s \in Requests : /\ wire'[s].kind = wire[s].kind /\ wire'[s].id = wire[s].id
                               /\ s # r => wire'[s].at = wire[s].at
        /\ wire'[r].at \in {"ok", "refused"}
    <2>1. CASE w.token # "good"
      <3>1. wire' = [wire EXCEPT ![r] = Looked(w, "refused")] /\ UNCHANGED <<token, cookie>>
        BY <2>1 DEF ServeLogout
      <3>2. /\ Looked(w, "refused") \in WireRecords /\ Looked(w, "refused").at = "refused"
            /\ Looked(w, "refused").kind = w.kind /\ Looked(w, "refused").id = w.id
        BY <1>0, LookedFits DEF Ats
      <3> HIDE DEF w
      <3>3. /\ wire' \in [Requests -> WireRecords] /\ wire'[r] = Looked(w, "refused")
            /\ \A s \in Requests \ {r} : wire'[s] = wire[s]
        BY <1>0, <3>1, <3>2
      <3> QED BY <1>0, <3>1, <3>2, <3>3 DEF w
    <2>2. CASE w.token = "good"
      <3> DEFINE revokes == w.cookie # NoCookie /\ w.cookie.live
                 onWire == IF revokes THEN EndedOnWire(w.cookie.of) ELSE wire
      <3>1. /\ token' \in {token, Aged(token)}
            /\ cookie' = IF revokes THEN EndedWith(cookie, w.cookie.of) ELSE cookie
            /\ wire' = [s \in Requests |-> IF s = r THEN Looked(w, "ok")
                                          ELSE [onWire[s] EXCEPT !.token = Aged(onWire[s].token)]]
        BY <2>2 DEF ServeLogout
      <3>2. /\ onWire \in [Requests -> WireRecords]
            /\ \A s \in Requests : onWire[s].kind = wire[s].kind /\ onWire[s].at = wire[s].at /\ onWire[s].id = wire[s].id
        BY <1>0, OnWireFits
      <3>3. token' \in Tokens0 /\ cookie' \in MaybeCookie
        BY <1>0, <3>1, TokensFit, CookiesFit
      <3>4. /\ Looked(w, "ok") \in WireRecords /\ Looked(w, "ok").at = "ok"
            /\ Looked(w, "ok").kind = w.kind /\ Looked(w, "ok").id = w.id
        BY <1>0, LookedFits DEF Ats
      <3> HIDE DEF onWire, revokes
      <3>5. ASSUME NEW s \in Requests
            PROVE  /\ [onWire[s] EXCEPT !.token = Aged(onWire[s].token)] \in WireRecords
                   /\ [onWire[s] EXCEPT !.token = Aged(onWire[s].token)].kind = wire[s].kind
                   /\ [onWire[s] EXCEPT !.token = Aged(onWire[s].token)].at = wire[s].at
                   /\ [onWire[s] EXCEPT !.token = Aged(onWire[s].token)].id = wire[s].id
        <4>1. onWire[s] \in WireRecords /\ onWire[s].token \in Tokens0
          BY <3>2 DEF WireRecords
        <4>2. Aged(onWire[s].token) \in Tokens0
          BY <4>1, TokensFit
        <4>3. ASSUME NEW y \in WireRecords, NEW t \in Tokens0
              PROVE  /\ [y EXCEPT !.token = t] \in WireRecords
                     /\ [y EXCEPT !.token = t].kind = y.kind /\ [y EXCEPT !.token = t].at = y.at
                     /\ [y EXCEPT !.token = t].id = y.id
          BY OthersCarry, SessionAssumption DEF WireRecords
        <4> QED BY <3>2, <4>1, <4>2, <4>3
      <3> HIDE DEF w
      <3>6. wire' \in [Requests -> WireRecords]
        BY <3>1, <3>4, <3>5
      <3>7. wire'[r] = Looked(w, "ok") /\ \A s \in Requests \ {r} :
              wire'[s] = [onWire[s] EXCEPT !.token = Aged(onWire[s].token)]
        BY <3>1
      <3> QED BY <3>3, <3>4, <3>5, <3>6, <3>7 DEF w
    <2> QED BY <2>1, <2>2
  <1>4. OnWire' = OnWire /\ Refreshers' = Refreshers /\ Entering' = Entering /\ r \in Leaving'
    BY <1>1, <1>2, <1>3 DEF OnWire, Refreshers, Entering, Leaving
  <1>5. SessionTypeOK'
    BY <1>1, <1>3, SessionTyped DEF SessionTypeOK, WireRecords, Kinds, Ats
  <1>6. KindsFit'
    BY <1>1, <1>3 DEF KindsFit
  <1>7. OneSession'
    <2> SUFFICES ASSUME ~raced PROVE OneSession'
      BY <1>1 DEF OneSession
    <2>1. Entering = {}
      BY <1>1, <1>2 DEF OneSession
    <2>2. \A s, t \in Refreshers' : s = t
      BY <1>4 DEF OneSession
    <2> QED BY <1>4, <2>1, <2>2 DEF OneSession
  <1>8. QuitForGood'
    BY <1>1, <1>2 DEF QuitForGood
  <1>9. GoodsFit'
    BY <1>1, <1>2, <1>3, <1>4 DEF GoodsFit
  <1> QED BY <1>1, <1>5, <1>6, <1>7, <1>8, <1>9 DEF SessionGoesOn, Outlives

\* A live cookie is renewed, and any other ends its family.
LEMMA RefreshServed ==
  ASSUME SessionInv, NEW r \in Requests, ServeRefresh(r)
  PROVE  SessionGoesOn
  <1> USE DEF SessionInv
  <1> DEFINE w == wire[r]
             c == w.cookie
  <1>0. w \in WireRecords /\ wire \in [Requests -> WireRecords] /\ cookie \in MaybeCookie /\ c \in MaybeCookie
    BY SessionTyped DEF WireRecords
  <1>1. /\ w.at = "refreshing"
        /\ UNCHANGED <<token, signedIn, cartId, stocked, raced, blurred, quit>>
    BY DEF ServeRefresh
  <1>2. /\ r \in OnWire /\ r \in Refreshers /\ OnWire \subseteq Requests /\ Entering \subseteq OnWire
        /\ w.kind # "cart" /\ w.kind # "logout"
    BY <1>1 DEF OnWire, Entering, Refreshers, KindsFit
  <1>3. /\ wire' \in [Requests -> WireRecords] /\ cookie' \in MaybeCookie
        /\ \A s \in Requests : /\ wire'[s].kind = wire[s].kind /\ wire'[s].id = wire[s].id
                               /\ s # r => wire'[s].at = wire[s].at
        /\ IF IsLive(c) THEN wire'[r].at = "renewed" /\ wire'[r].cookie = c
                        ELSE wire'[r].at = "expired" /\ wire'[r].cookie = NoCookie
        /\ c = NoCookie => cookie' = cookie /\ \A s \in Requests \ {r} : wire'[s] = wire[s]
    <2>1. CASE IsLive(c)
      <3> DEFINE others == SpentOnWire(c.of)
                 y == Looked(others[r], "renewed")
                 x == [y EXCEPT !.cookie = c, !.token = "good"]
      <3>1. /\ others \in [Requests -> WireRecords]
            /\ \A s \in Requests : others[s].kind = wire[s].kind /\ others[s].at = wire[s].at /\ others[s].id = wire[s].id
        BY OnWireFits
      <3>2. cookie' = Spent(cookie, c.of) /\ c # NoCookie
        BY <2>1 DEF ServeRefresh, IsLive
      <3>3. wire' = [others EXCEPT ![r] = [Looked(@, "renewed") EXCEPT !.cookie = c, !.token = "good"]]
        BY <2>1 DEF ServeRefresh, IsLive
      <3>4. wire' = [others EXCEPT ![r] = x]
        BY <3>1, <3>3
      <3>5. /\ y \in WireRecords /\ y.at = "renewed" /\ y.kind = w.kind /\ y.id = w.id
        BY <3>1, LookedFits DEF Ats
      <3> HIDE DEF others, y, w, c
      <3>6. x \in WireRecords /\ x.at = "renewed" /\ x.kind = w.kind /\ x.id = w.id /\ x.cookie = c
        BY <1>0, <3>5 DEF WireRecords, Tokens0
      <3> HIDE DEF x
      <3>7. /\ wire' \in [Requests -> WireRecords] /\ wire'[r] = x
            /\ \A s \in Requests \ {r} : wire'[s] = others[s]
        BY <3>1, <3>4, <3>6
      <3>8. cookie' \in MaybeCookie
        BY <1>0, <3>2, CookiesFit
      <3> QED BY <2>1, <3>1, <3>2, <3>6, <3>7, <3>8 DEF w
    <2>2. CASE ~IsLive(c)
      <3> DEFINE others == IF c = NoCookie THEN wire ELSE EndedOnWire(c.of)
                 x == Looked(others[r], "expired")
      <3>1. /\ others \in [Requests -> WireRecords]
            /\ \A s \in Requests : others[s].kind = wire[s].kind /\ others[s].at = wire[s].at /\ others[s].id = wire[s].id
            /\ c = NoCookie => others = wire
        BY <1>0, OnWireFits
      <3>2. cookie' = IF c = NoCookie THEN cookie ELSE EndedWith(cookie, c.of)
        BY <2>2 DEF ServeRefresh, IsLive
      <3>3. wire' = [others EXCEPT ![r] = Looked(@, "expired")]
        BY <2>2 DEF ServeRefresh, IsLive
      <3>4. wire' = [others EXCEPT ![r] = x]
        BY <3>1, <3>3
      <3>5. x \in WireRecords /\ x.at = "expired" /\ x.kind = w.kind /\ x.id = w.id /\ x.cookie = NoCookie
        BY <3>1, LookedFits DEF Ats
      <3> HIDE DEF others, x, w, c
      <3>6. /\ wire' \in [Requests -> WireRecords] /\ wire'[r] = x
            /\ \A s \in Requests \ {r} : wire'[s] = others[s]
        BY <3>1, <3>4, <3>5
      <3>7. cookie' \in MaybeCookie
        BY <1>0, <3>2, CookiesFit
      <3> QED BY <2>2, <3>1, <3>2, <3>5, <3>6, <3>7 DEF w
    <2> QED BY <2>1, <2>2
  <1>4. OnWire' = OnWire /\ Refreshers' = Refreshers /\ Entering' = Entering /\ Leaving' = Leaving
    BY <1>1, <1>2, <1>3 DEF OnWire, Refreshers, Entering, Leaving
  <1>5. SessionTypeOK'
    BY <1>1, <1>3, SessionTyped DEF SessionTypeOK, WireRecords, Kinds, Ats
  <1>6. KindsFit'
    BY <1>1, <1>2, <1>3 DEF KindsFit
  <1>7. OneSession'
    <2> SUFFICES ASSUME ~raced PROVE OneSession'
      BY <1>1 DEF OneSession
    <2>1. Refreshers = {r}
      BY <1>2 DEF OneSession
    <2>2. Entering \subseteq {r}
      BY <1>2 DEF OneSession
    <2>3. Serves => IsLive(c) /\ Serves'
      <3>1. Serves => IsLive(c)
        BY <1>1, <1>2 DEF Serves
      <3>2. IsLive(c) => Serves'
        BY <1>3, <1>4, <2>1 DEF Serves, IsLive
      <3> QED BY <3>1, <3>2
    <2>4. \A e \in Entering : ~signedIn /\ (wire[e].kind = "profile" => Serves)
      BY DEF OneSession
    <2>5. \A e \in Entering : \A s \in OnWire \ {e} : wire[s].kind = "cart"
      BY DEF OneSession
    <2>6. signedIn /\ Leaving = {} => Serves
      BY DEF OneSession
    <2>7. \A e \in Entering' : wire'[e].at # "ok" /\ (wire'[e].at = "renewed" => IsLive(wire'[e].cookie))
      BY <1>3, <1>4, <2>2
    <2> QED BY <1>1, <1>2, <1>3, <1>4, <2>1, <2>3, <2>4, <2>5, <2>6, <2>7 DEF OneSession
  <1>8. QuitForGood'
    <2> SUFFICES ASSUME quit PROVE QuitForGood'
      BY <1>1 DEF QuitForGood
    <2>1. c = NoCookie /\ ~IsLive(c)
      BY <1>1, <1>2 DEF QuitForGood, IsLive
    <2> QED BY <1>1, <1>2, <1>3, <1>4, <2>1 DEF QuitForGood
  <1>9. GoodsFit'
    <2>1. wire'[r].at # "ok"
      BY <1>3
    <2> QED BY <1>1, <1>2, <1>3, <1>4, <2>1 DEF GoodsFit
  <1> QED BY <1>1, <1>5, <1>6, <1>7, <1>8, <1>9 DEF SessionGoesOn, Outlives
-----------------------------------------------------------------------------
(* The browser is answered.                                                  *)

\* A request that was refused for its token refreshes the session first.
LEMMA RefusalRefreshes ==
  ASSUME SessionInv, NEW r \in Requests, RefusedAnswered(r)
  PROVE  SessionGoesOn
  <1> USE DEF SessionInv
  <1> DEFINE w == wire[r]
  <1>0. w \in WireRecords /\ cookie \in MaybeCookie /\ wire \in [Requests -> WireRecords]
    BY SessionTyped
  <1>1. /\ w.at = "refused" /\ w.kind # "logout"
        /\ raced' \in BOOLEAN /\ (raced' <=> raced \/ OnWire # {r})
        /\ UNCHANGED <<token, cookie, signedIn, cartId, stocked, blurred, quit>>
    <2>1. raced \in BOOLEAN
      BY SessionTyped
    <2> QED BY <2>1 DEF RefusedAnswered, Repeats
  <1>2. PICK x \in WireRecords :
          /\ wire' = [wire EXCEPT ![r] = x] /\ x.kind = w.kind /\ x.id = w.id /\ x.at = "refreshing"
          /\ x.cookie = cookie
    <2> DEFINE x == [w EXCEPT !.at = "refreshing", !.cookie = cookie]
    <2>1. wire' = [wire EXCEPT ![r].at = "refreshing", ![r].cookie = cookie]
      BY DEF RefusedAnswered
    <2>2. wire' = [wire EXCEPT ![r] = x]
      BY <1>0, <2>1
    <2> HIDE DEF w
    <2>3. x \in WireRecords /\ x.kind = w.kind /\ x.id = w.id /\ x.at = "refreshing" /\ x.cookie = cookie
      BY <1>0 DEF WireRecords, Ats
    <2> HIDE DEF x
    <2> QED BY <2>2, <2>3
  <1> HIDE DEF w
  <1>3. /\ wire' \in [Requests -> WireRecords] /\ wire'[r] = x
        /\ \A s \in Requests \ {r} : wire'[s] = wire[s]
        /\ OnWire' = OnWire \cup {r} /\ Refreshers' = Refreshers \cup {r}
        /\ Entering' = IF w.kind \in {"boot", "profile", "login"} THEN Entering \cup {r} ELSE Entering \ {r}
        /\ Leaving' = Leaving \ {r}
    BY <1>1, <1>2, WireStep
  <1>4. /\ r \in OnWire /\ OnWire \subseteq Requests /\ Entering \subseteq OnWire
        /\ (r \in Entering <=> w.kind \in {"boot", "profile", "login"}) /\ r \notin Leaving /\ r \notin Refreshers
        /\ w.kind \notin {"cart", "boot"}
    BY <1>1 DEF OnWire, Entering, Leaving, Refreshers, KindsFit, w
  <1>5. SessionTypeOK'
    BY <1>1, <1>3, SessionTyped DEF SessionTypeOK, WireRecords, Kinds, Ats
  <1>6. KindsFit'
    BY <1>1, <1>2, <1>3, <1>4 DEF KindsFit
  <1>7. OneSession'
    <2> SUFFICES ASSUME ~raced' PROVE OneSession'
      BY DEF OneSession
    <2>1. ~raced /\ OnWire = {r} /\ OnWire' = {r}
      BY <1>1, <1>3
    <2>2. Refreshers = {} /\ Refreshers' = {r} /\ Leaving = {} /\ Entering' \subseteq {r} /\ Entering' = Entering
      BY <1>3, <1>4, <2>1 DEF Refreshers, OnWire, Leaving, Entering
    <2>3. Serves => Serves'
      BY <1>1, <1>2, <1>3, <2>2 DEF Serves, IsLive
    <2>4. signedIn => Serves
      BY <2>1, <2>2 DEF OneSession
    <2>5. w.kind = "profile" => Serves
      BY <1>4, <2>1 DEF OneSession, w
    <2>6. r \in Entering => ~signedIn
      BY <2>1 DEF OneSession
    <2> QED BY <1>1, <1>2, <1>3, <2>1, <2>2, <2>3, <2>4, <2>5, <2>6 DEF OneSession
  <1>8. QuitForGood'
    BY <1>1, <1>4 DEF QuitForGood, w
  <1>9. GoodsFit'
    BY <1>1, <1>2, <1>3, <1>4 DEF GoodsFit, w
  <1> QED BY <1>1, <1>5, <1>6, <1>7, <1>8, <1>9 DEF SessionGoesOn, Outlives

\* The renewal arrives, and the request goes out again with what it brought.
LEMMA RenewalRepeats ==
  ASSUME SessionInv, NEW r \in Requests, RenewAnswered(r)
  PROVE  SessionGoesOn
  <1> USE DEF SessionInv
  <1> DEFINE w == wire[r]
  <1>0. w \in WireRecords /\ cookie \in MaybeCookie /\ wire \in [Requests -> WireRecords]
    BY SessionTyped
  <1>1. /\ w.at = "renewed" /\ token' = w.token /\ cookie' = w.cookie
        /\ UNCHANGED <<signedIn, cartId, stocked, raced, blurred, quit>>
    BY DEF RenewAnswered, CookieAfter
  <1>2. w.kind \in {"page", "boot", "profile", "login", "merge"}
    BY <1>0, <1>1 DEF WireRecords, Kinds, KindsFit
  <1>3. PICK x \in WireRecords :
          /\ wire' = [wire EXCEPT ![r] = x] /\ x.at = "sent"
          /\ x.kind = (IF w.kind = "boot" THEN "profile" ELSE w.kind) /\ (x.kind = "merge" => x.id = w.id)
    <2> DEFINE kind == AfterRenewal(w)
               y == Carried(kind)
               again == w.kind # "boot"
               id == IF w.kind = "merge" THEN w.id ELSE y.id
               x == [y EXCEPT !.token = w.token, !.again = again, !.id = id]
    <2>1. kind \in Kinds /\ kind = (IF w.kind = "boot" THEN "profile" ELSE w.kind)
      BY <1>2 DEF AfterRenewal, Kinds
    <2>2. y \in WireRecords /\ y.at = "sent" /\ y.kind = kind
      BY <2>1, CarriedFits
    <2>3. wire' = [wire EXCEPT ![r] = [Carried(kind) EXCEPT !.token = w.token, !.again = w.kind # "boot",
                                                           !.id = IF w.kind = "merge" THEN w.id ELSE @]]
      BY DEF RenewAnswered
    <2>4. wire' = [wire EXCEPT ![r] = x]
      BY <2>3
    <2>5. again \in BOOLEAN /\ id \in 0..MaxIds /\ w.token \in Tokens0 /\ (w.kind = "merge" => id = w.id)
      BY <1>0, <2>2 DEF WireRecords
    <2> HIDE DEF w, kind, y, again, id
    <2>6. x \in WireRecords /\ x.at = "sent" /\ x.kind = kind /\ x.id = id
      BY <2>2, <2>5 DEF WireRecords
    <2> HIDE DEF x
    <2> QED BY <1>2, <2>1, <2>4, <2>5, <2>6
  <1> HIDE DEF w
  <1>4. /\ wire' \in [Requests -> WireRecords] /\ wire'[r] = x
        /\ \A s \in Requests \ {r} : wire'[s] = wire[s]
        /\ OnWire' = OnWire \cup {r} /\ Refreshers' = Refreshers \ {r}
        /\ Entering' = IF w.kind \in {"boot", "profile", "login"} THEN Entering \cup {r} ELSE Entering \ {r}
        /\ Leaving' = Leaving \ {r}
    BY <1>2, <1>3, WireStep
  <1>5. /\ r \in OnWire /\ OnWire \subseteq Requests /\ Entering \subseteq OnWire /\ r \in Refreshers
        /\ (r \in Entering <=> w.kind \in {"boot", "profile", "login"}) /\ r \notin Leaving
    BY <1>1, <1>2 DEF OnWire, Entering, Leaving, Refreshers, w
  <1>6. SessionTypeOK'
    <2>1. token' \in Tokens0 /\ cookie' \in MaybeCookie
      BY <1>0, <1>1 DEF WireRecords
    <2> QED BY <1>1, <1>4, <2>1, SessionTyped DEF SessionTypeOK, WireRecords, Kinds, Ats
  <1>7. KindsFit'
    BY <1>2, <1>3, <1>4 DEF KindsFit
  <1>8. OneSession'
    <2> SUFFICES ASSUME ~raced PROVE OneSession'
      BY <1>1 DEF OneSession
    <2>1. Refreshers' = {}
      BY <1>4, <1>5 DEF OneSession
    <2>2. IsLive(w.cookie) => Serves'
      BY <1>1, <2>1 DEF Serves, IsLive
    <2>3. Serves => Serves'
      BY <1>1, <1>5, <2>2 DEF Serves, w
    <2>4. signedIn' /\ Leaving' = {} => Serves'
      BY <1>1, <1>4, <1>5, <2>3 DEF OneSession
    <2>5. Entering' = Entering /\ OnWire' = OnWire /\ \A e \in Entering : e = r
      BY <1>2, <1>4, <1>5 DEF OneSession, w
    <2>6. ASSUME NEW e \in Entering
          PROVE  ~signedIn' /\ (\A s \in OnWire' \ {e} : wire'[s].kind = "cart") /\ (wire'[e].kind = "profile" => Serves')
      <3>1. e = r /\ ~signedIn' /\ \A s \in OnWire' \ {e} : wire'[s].kind = "cart"
        BY <1>1, <1>4, <1>5, <2>5 DEF OneSession
      <3>2. w.kind = "boot" => Serves'
        BY <1>1, <2>2, <2>5, <3>1 DEF OneSession, w
      <3>3. w.kind = "profile" => Serves'
        BY <2>3, <3>1 DEF OneSession, w
      <3> QED BY <1>3, <1>4, <3>1, <3>2, <3>3
    <2> QED BY <1>3, <1>4, <2>1, <2>4, <2>5, <2>6 DEF OneSession
  <1>9. QuitForGood'
    <2>1. ~quit
      BY <1>1, <1>2, <1>5 DEF QuitForGood, w
    <2> QED BY <1>1, <2>1 DEF QuitForGood
  <1>10. GoodsFit'
    <2> SUFFICES ASSUME ~blurred PROVE GoodsFit'
      BY <1>1 DEF GoodsFit
    <2>1. x.kind = "merge" => w.kind = "merge" /\ x.id = w.id /\ x.at # "ok"
      BY <1>2, <1>3
    <2>2. x.kind # "cart"
      BY <1>2, <1>3
    <2> QED BY <1>1, <1>4, <1>5, <2>1, <2>2 DEF GoodsFit, w
  <1> QED BY <1>1, <1>6, <1>7, <1>8, <1>9, <1>10 DEF SessionGoesOn, Outlives

\* The session is over for the pages; one that can be renewed does not get here.
LEMMA RenewalFails ==
  ASSUME SessionInv, NEW r \in Requests, RenewalFailed(r)
  PROVE  SessionGoesOn
  <1> USE DEF SessionInv
  <1> DEFINE w == wire[r]
  <1>1. /\ w.at = "expired" /\ token' = "none" /\ wire' = [wire EXCEPT ![r] = Quiet]
        /\ signedIn' \in BOOLEAN /\ (signedIn' <=> signedIn /\ w.kind = "boot")
        /\ UNCHANGED <<cookie, cartId, stocked, raced, blurred, quit>>
    <2>1. signedIn \in BOOLEAN
      BY SessionTyped
    <2> QED BY <2>1 DEF RenewalFailed
  <1> HIDE DEF w
  <1>2. /\ wire' \in [Requests -> WireRecords] /\ wire'[r] = Quiet
        /\ \A s \in Requests \ {r} : wire'[s] = wire[s]
        /\ OnWire' = OnWire \ {r} /\ Refreshers' = Refreshers \ {r}
        /\ Entering' = Entering \ {r} /\ Leaving' = Leaving \ {r}
    BY <1>1, QuietFits, WireStep
  <1>3. /\ r \in OnWire /\ OnWire \subseteq Requests /\ Entering \subseteq OnWire /\ r \in Refreshers
        /\ (w.kind = "boot" => r \in Entering) /\ r \notin Leaving /\ w.kind # "cart"
    BY <1>1 DEF OnWire, Entering, Leaving, Refreshers, KindsFit, w
  <1>4. SessionTypeOK'
    BY <1>1, <1>2, SessionTyped DEF SessionTypeOK, WireRecords, Kinds, Ats, Tokens0
  <1>5. KindsFit'
    BY <1>2, QuietFits DEF KindsFit
  <1>6. ~raced => ~signedIn'
    BY <1>1, <1>3 DEF OneSession
  <1>7. OneSession'
    <2> SUFFICES ASSUME ~raced PROVE OneSession'
      BY <1>1 DEF OneSession
    <2>1. Refreshers' = {} /\ Entering' = {}
      BY <1>2, <1>3 DEF OneSession, w
    <2> QED BY <1>6, <2>1 DEF OneSession
  <1>8. QuitForGood'
    BY <1>1, <1>2, <1>3 DEF QuitForGood
  <1>9. GoodsFit'
    BY <1>1, <1>2, <1>3 DEF GoodsFit
  <1>10. Outlives
    <2> SUFFICES ASSUME signedIn, ~raced PROVE Leaving # {}
      BY <1>1 DEF Outlives, Leaving
    <2> QED BY <1>1, <1>3 DEF OneSession, Serves, w
  <1> QED BY <1>4, <1>5, <1>7, <1>8, <1>9, <1>10 DEF SessionGoesOn
\* The request that a sign-in sends for the guest's cart.
LEMMA AMerge ==
  ASSUME NEW t \in Tokens0, NEW i \in 0..MaxIds
  PROVE  LET m == [Quiet EXCEPT !.kind = "merge", !.at = "sent", !.token = t, !.id = i]
         IN  /\ m \in WireRecords
             /\ m.kind = "merge" /\ m.at = "sent" /\ m.id = i
  BY SessionAssumption DEF Quiet, WireRecords, Kinds, Ats, Tokens0, MaybeCookie
\* Somebody is signed in: by the sign-in itself, or by the profile that the boot fetched.
LEMMA EntersTheSession ==
  ASSUME SessionInv, NEW r \in Requests, SignedInBy(r), token' \in Tokens0, cookie' \in MaybeCookie,
         UNCHANGED <<stocked, raced>>, wire[r].kind \in {"login", "profile"}, wire[r].at = "ok",
         \/ wire[r].kind = "login" /\ cookie' = wire[r].cookie
         \/ wire[r].kind = "profile" /\ cookie' = cookie
  PROVE  SessionGoesOn
  <1> USE DEF SessionInv
  <1>0. {blurred, quit, signedIn, raced} \subseteq BOOLEAN /\ cartId \in 0..MaxIds
    BY SessionTyped
  <1>1. /\ signedIn' = TRUE /\ wire' = [wire EXCEPT ![r] = MergeNext]
        /\ blurred' \in BOOLEAN /\ (blurred' <=> blurred \/ CartMixes("merge")) /\ UNCHANGED <<cartId, quit>>
    BY <1>0 DEF SignedInBy
  <1>2. PICK x \in WireRecords : x = MergeNext /\ x.kind = "merge" /\ x.at = "sent" /\ x.id = cartId
    <2> DEFINE t == token'
    <2>1. MergeNext = [Quiet EXCEPT !.kind = "merge", !.at = "sent", !.token = t, !.id = cartId]
      BY DEF MergeNext
    <2>0. t \in Tokens0
      OBVIOUS
    <2> HIDE DEF t
    <2>3. /\ MergeNext \in WireRecords
          /\ MergeNext.kind = "merge" /\ MergeNext.at = "sent" /\ MergeNext.id = cartId
      BY <1>0, <2>0, <2>1, AMerge
    <2> QED BY <2>3
  <1>3. /\ wire' \in [Requests -> WireRecords] /\ wire'[r] = x
        /\ \A s \in Requests \ {r} : wire'[s] = wire[s]
        /\ OnWire' = OnWire \cup {r} /\ Refreshers' = Refreshers \ {r}
        /\ Entering' = Entering \ {r} /\ Leaving' = Leaving \ {r}
    BY <1>1, <1>2, WireStep
  <1>4. r \in OnWire /\ OnWire \subseteq Requests /\ Entering \subseteq OnWire /\ r \in Entering /\ r \notin Refreshers
    BY DEF OnWire, Entering, Refreshers
  <1>5. SessionTypeOK'
    BY <1>0, <1>1, <1>3, SessionTyped DEF SessionTypeOK, WireRecords, Kinds, Ats
  <1>6. KindsFit'
    BY <1>2, <1>3 DEF KindsFit
  <1>7. OneSession'
    <2> SUFFICES ASSUME ~raced PROVE OneSession'
      BY DEF OneSession
    <2>1. \A s \in OnWire \ {r} : wire[s].kind = "cart"
      BY <1>4 DEF OneSession
    <2>2. Refreshers = {} /\ Entering = {r}
      BY <1>4, <2>1 DEF Refreshers, OnWire, Entering, KindsFit
    <2>3. IsLive(cookie')
      <3>1. CASE wire[r].kind = "login" /\ cookie' = wire[r].cookie
        BY <1>4, <3>1 DEF OneSession
      <3>2. CASE wire[r].kind = "profile" /\ cookie' = cookie
        BY <1>4, <2>2, <3>2 DEF OneSession, Serves
      <3> QED BY <3>1, <3>2
    <2>4. Refreshers' = {} /\ Entering' = {}
      BY <1>3, <2>2
    <2>5. Serves'
      BY <2>3, <2>4 DEF Serves, IsLive
    <2> QED BY <2>4, <2>5 DEF OneSession
  <1>8. QuitForGood'
    BY <1>1, <1>4 DEF QuitForGood
  <1>9. GoodsFit'
    <2> SUFFICES ASSUME ~blurred' PROVE GoodsFit'
      BY DEF GoodsFit
    <2>1. ~blurred /\ \A s \in OnWire : wire[s].kind # "cart"
      BY <1>1 DEF CartMixes
    <2> QED BY <1>1, <1>2, <1>3, <1>4, <2>1 DEF GoodsFit
  <1> QED BY <1>1, <1>5, <1>6, <1>7, <1>8, <1>9 DEF SessionGoesOn, Outlives

LEMMA AnswerTaken ==
  ASSUME SessionInv, NEW r \in Requests, RequestAnswered(r)
  PROVE  SessionGoesOn
  <1> USE DEF SessionInv
  <1> DEFINE w == wire[r]
  <1>0. /\ w \in WireRecords /\ wire \in [Requests -> WireRecords] /\ token \in Tokens0 /\ cookie \in MaybeCookie
        /\ {blurred, quit, signedIn, raced} \subseteq BOOLEAN
    BY SessionTyped
  <1>1. w.at \in {"ok", "refused", "lost"} /\ UNCHANGED <<stocked, raced>>
    BY DEF RequestAnswered
  <1>2. /\ r \in OnWire /\ OnWire \subseteq Requests /\ Entering \subseteq OnWire /\ r \notin Refreshers
        /\ (r \in Entering <=> w.kind \in {"profile", "login"}) /\ (r \in Leaving <=> w.kind = "logout")
        /\ w.kind # "boot"
    BY <1>1 DEF OnWire, Entering, Leaving, Refreshers, KindsFit
  <1>3. ASSUME w.kind = "login" /\ w.at = "ok", token' = w.token /\ cookie' = w.cookie, SignedInBy(r)
        PROVE  SessionGoesOn
    <2>1. token' \in Tokens0 /\ cookie' \in MaybeCookie
      BY <1>0, <1>3 DEF WireRecords
    <2> QED BY <1>1, <1>3, <2>1, EntersTheSession
  <1>4. ASSUME w.kind = "profile" /\ w.at = "ok", UNCHANGED <<token, cookie>>, SignedInBy(r)
        PROVE  SessionGoesOn
    BY <1>0, <1>1, <1>4, EntersTheSession
  <1>5. ASSUME Ended(r)
        PROVE  /\ wire' \in [Requests -> WireRecords] /\ wire'[r] = Quiet
               /\ \A s \in Requests \ {r} : wire'[s] = wire[s]
               /\ OnWire' = OnWire \ {r} /\ Refreshers' = Refreshers
               /\ Entering' = Entering \ {r} /\ Leaving' = Leaving \ {r}
               /\ KindsFit'
    <2>1. /\ wire' \in [Requests -> WireRecords] /\ wire'[r] = Quiet
          /\ \A s \in Requests \ {r} : wire'[s] = wire[s]
          /\ OnWire' = OnWire \ {r} /\ Refreshers' = Refreshers \ {r}
          /\ Entering' = Entering \ {r} /\ Leaving' = Leaving \ {r}
      BY <1>5, QuietFits, WireStep DEF Ended
    <2>2. KindsFit'
      BY <2>1, QuietFits DEF KindsFit
    <2> QED BY <1>2, <2>1, <2>2
  <1>6. ASSUME w.kind = "logout", token' = "none" /\ signedIn' = FALSE,
               cookie' = IF w.at = "ok" THEN NoCookie ELSE cookie,
               quit' = (w.at = "ok" /\ OnWire = {r}), Ended(r), UNCHANGED <<cartId, blurred>>
        PROVE  SessionGoesOn
    <2>1. cookie' \in MaybeCookie /\ quit' \in BOOLEAN /\ (quit' => w.at = "ok" /\ OnWire = {r})
      BY <1>0, <1>6 DEF MaybeCookie
    <2>2. SessionTypeOK'
      BY <1>1, <1>5, <1>6, <2>1, SessionTyped DEF SessionTypeOK, WireRecords, Kinds, Ats, Tokens0
    <2>3. OneSession'
      <3> SUFFICES ASSUME ~raced PROVE OneSession'
        BY <1>1 DEF OneSession
      <3>1. Entering' = {}
        BY <1>2, <1>5, <1>6 DEF OneSession
      <3>2. \A s, t \in Refreshers' : s = t
        BY <1>5, <1>6 DEF OneSession
      <3> QED BY <1>6, <3>1, <3>2 DEF OneSession
    <2>4. QuitForGood'
      BY <1>5, <1>6, <2>1 DEF QuitForGood
    <2>5. GoodsFit'
      BY <1>1, <1>2, <1>5, <1>6 DEF GoodsFit
    <2>6. Outlives
      BY <1>2, <1>6 DEF Outlives
    <2> QED BY <1>5, <1>6, <2>2, <2>3, <2>4, <2>5, <2>6 DEF SessionGoesOn
  <1>7. ASSUME Merged(w), cartId < MaxIds, cartId' = cartId + 1, Ended(r),
               UNCHANGED <<token, cookie, signedIn, quit, blurred>>
        PROVE  SessionGoesOn
    <2>1. w.kind = "merge" /\ w.at = "ok" /\ cartId' \in 1..MaxIds
      BY <1>7, SessionTyped, SessionAssumption DEF Merged
    <2>2. SessionTypeOK'
      BY <1>1, <1>5, <1>7, <2>1, SessionTyped DEF SessionTypeOK, WireRecords, Kinds, Ats
    <2>3. Refreshers \subseteq Requests /\ \A s \in Refreshers : wire'[s] = wire[s]
      BY <1>2, <1>5, <1>7 DEF Refreshers
    <2>4. Serves => Serves'
      BY <1>5, <1>7, <2>3 DEF Serves
    <2>5. OneSession'
      <3> SUFFICES ASSUME ~raced PROVE OneSession'
        BY <1>1 DEF OneSession
      <3>1. Entering' = {}
        BY <1>2, <1>5, <1>7, <2>1 DEF OneSession
      <3>2. \A s, t \in Refreshers' : s = t
        BY <1>5, <1>7 DEF OneSession
      <3>3. Leaving' = Leaving
        BY <1>2, <1>5, <1>7, <2>1
      <3> QED BY <1>7, <2>4, <3>1, <3>2, <3>3 DEF OneSession
    <2>6. QuitForGood'
      BY <1>2, <1>7, <2>1 DEF QuitForGood
    <2>7. GoodsFit'
      <3> SUFFICES ASSUME ~blurred PROVE GoodsFit'
        BY <1>7 DEF GoodsFit
      <3>1. stocked = {} /\ \A s \in OnWire : wire[s].kind # "cart"
        BY <1>2, <2>1 DEF GoodsFit
      <3> QED BY <1>1, <1>2, <1>5, <1>7, <3>1 DEF GoodsFit
    <2>8. Outlives
      BY <1>7 DEF Outlives
    <2> QED BY <1>5, <1>7, <2>2, <2>5, <2>6, <2>7, <2>8 DEF SessionGoesOn
  <1>8. ASSUME w.kind # "logout", signedIn' = (signedIn /\ w.kind # "profile"), Ended(r),
               UNCHANGED <<token, cookie, cartId, quit, blurred>>
        PROVE  SessionGoesOn
    <2>1. signedIn' \in BOOLEAN /\ (signedIn' <=> signedIn /\ w.kind # "profile")
      BY <1>8
    <2>2. SessionTypeOK'
      BY <1>1, <1>5, <1>8, <2>1, SessionTyped DEF SessionTypeOK, WireRecords, Kinds, Ats
    <2>3. Refreshers \subseteq Requests /\ \A s \in Refreshers : wire'[s] = wire[s]
      BY <1>2, <1>5, <1>8 DEF Refreshers
    <2>4. Serves => Serves'
      BY <1>5, <1>8, <2>3 DEF Serves
    <2>5. OneSession'
      <3> SUFFICES ASSUME ~raced PROVE OneSession'
        BY <1>1 DEF OneSession
      <3>1. \A e \in Entering' : e \in Entering /\ wire'[e] = wire[e]
        BY <1>2, <1>5, <1>8
      <3>2. \A s, t \in Refreshers' : s = t
        BY <1>5, <1>8 DEF OneSession
      <3>3. Leaving' = Leaving
        BY <1>2, <1>5, <1>8
      <3>4. ASSUME NEW e \in Entering'
            PROVE  ~signedIn' /\ \A s \in OnWire' \ {e} : wire'[s].kind = "cart"
        BY <1>2, <1>5, <1>8, <2>1, <3>1 DEF OneSession
      <3> QED BY <2>1, <2>4, <3>1, <3>2, <3>3, <3>4 DEF OneSession
    <2>6. QuitForGood'
      BY <1>2, <1>5, <1>8, <2>1 DEF QuitForGood
    <2>7. GoodsFit'
      BY <1>1, <1>2, <1>5, <1>8 DEF GoodsFit
    <2>8. Outlives
      BY <1>1, <1>2, <2>1 DEF Outlives, OneSession
    <2> QED BY <1>5, <1>8, <2>2, <2>5, <2>6, <2>7, <2>8 DEF SessionGoesOn
  <1> QED BY <1>3, <1>4, <1>6, <1>7, <1>8 DEF RequestAnswered

-----------------------------------------------------------------------------
LEMMA PageLoaded ==
  ASSUME SessionInv, Reload
  PROVE  SessionGoesOn
  <1> USE DEF SessionInv
  <1>1. /\ token' = "none" /\ signedIn' = FALSE /\ wire' = Booting(cookie)
        /\ UNCHANGED <<cookie, cartId, stocked, raced, blurred, quit>>
    BY DEF Reload
  <1>2. quit => cookie = NoCookie
    BY DEF QuitForGood
  <1>3. ~blurred => stocked \subseteq {cartId}
    BY DEF GoodsFit
  <1>4. wire' = Booting(cookie)'
    BY <1>1 DEF Booting, Boot
  <1>5. JustLoaded'
    BY <1>1, <1>2, <1>3, <1>4, SessionTyped DEF JustLoaded
  <1>6. JustLoaded' => SessionInv'
    BY BootIsGood, PTL
  <1> QED BY <1>1, <1>5, <1>6 DEF SessionGoesOn, Outlives

LEMMA StepSession ==
  SessionInv /\ [SessionNext]_sessionVars => SessionInv' /\ [Outlives]_sessionVars
  <1> SUFFICES ASSUME SessionInv, [SessionNext]_sessionVars PROVE SessionInv' /\ [Outlives]_sessionVars
    OBVIOUS
  <1>1. CASE UNCHANGED sessionVars
    <2>1. SessionInv'
      BY <1>1 DEF sessionVars, SessionInv, SessionTypeOK, KindsFit, OneSession, QuitForGood, GoodsFit, Serves,
                  Refreshers, Entering, Leaving, OnWire
    <2> QED BY <1>1, <2>1
  <1>2. CASE SessionNext
    <2>1. SessionGoesOn
      BY <1>2, CallGoesOn, RequestServed, LoginServed, LogoutServed, RefreshServed, LostOrAged, RefusalRefreshes,
         RenewalRepeats, RenewalFails, AnswerTaken, PageLoaded DEF SessionNext
    <2> QED BY <2>1 DEF SessionGoesOn
  <1> QED BY <1>1, <1>2

\* Whatever tokens expire and whichever requests refresh: who is signed in stays so until signing out or
\* loading the page anew, unless a refresh crossed another request; a sign-out that crossed nothing is
\* for good; and what a guest put in a cart stays within the browser's reach until it is merged.
THEOREM TheSessionIsKept == SessionSpec => SessionIsKept
  <1>1. SessionInv => SignedOutStaysOut /\ GuestGoodsAreKept
    BY DEF SessionInv, QuitForGood, GoodsFit, SignedOutStaysOut, GuestGoodsAreKept
  <1>2. [Outlives]_sessionVars
          => [signedIn /\ ~signedIn' /\ ~raced' => wire' = Booting(cookie) \/ \E r \in OnWire : wire[r].kind = "logout"]_sessionVars
    BY DEF Outlives
  <1> QED BY <1>1, <1>2, InitSession, StepSession, PTL DEF SessionSpec, SessionIsKept, SessionOutlivesItsToken

-----------------------------------------------------------------------------
(* The pages made of one form: for every number of submissions.              *)

\* The call under way may yet do what the form is for; it may yet be told.
MayServe == IF post.at = "sent" /\ post.step # "setup" THEN 1 ELSE 0
MayTell == IF post.at # "idle" /\ post.step # "setup" THEN 1 ELSE 0
\* The server's answer that it is done has not been shown yet.
Untold == IF post.at = "ok" /\ post.step # "setup" THEN 1 ELSE 0

CountsFit ==
  /\ sends <= MaxSends
  /\ served + MayServe <= sends + 1 /\ told + MayTell <= sends + 1
  /\ ~doubtful => served = told + Untold

\* What was asked for is unanswered, or the form has nothing to send.
NothingToSend ==
  post.at = "idle" /\ (view = "done" \/ (formPage \in Uploads /\ view = "form" /\ ~filled))
AskedFor == wanted >= 1 /\ told <= wanted /\ (told = wanted => NothingToSend)

ViewsFit ==
  /\ view = "code" => formPage = "login"
  /\ post.at = "needsCode" => formPage = "login"
  /\ view = "setup" /\ ~enrolment => IF post.at = "idle" THEN complaint ELSE post.step = "setup"

FormPagesInv == FormPagesTypeOK /\ CountsFit /\ AskedFor /\ ViewsFit /\ WorkingHasACall

PostRecords ==
  [at : {"idle", "sent", "ok", "needsCode", "needsSetup", "refused", "lost"},
   step : {"submit", "setup", "enable", "profile"}, code : BOOLEAN, captcha : {"none", "fresh", "spent"}]

LEMMA InitFormPages == FormPagesInit => FormPagesInv
  <1> SUFFICES ASSUME FormPagesInit PROVE FormPagesInv
    OBVIOUS
  <1> USE FormPagesAssumption DEF FormPagesInit
  <1>1. /\ post \in PostRecords
        /\ IF formPage = "oauth" THEN post.at = "sent" /\ post.step = "profile" ELSE post.at = "idle"
    BY DEF PostRecords, Idle0
  <1>2. account \in {"plain", "enrolled", "staff"} /\ {served, sends, told, wanted} \subseteq 0..MaxSends + 1
    OBVIOUS
  <1>3. FormPagesTypeOK
    BY <1>1, <1>2 DEF FormPagesTypeOK, PostRecords
  <1>4. CountsFit
    BY <1>1 DEF CountsFit, MayServe, MayTell, Untold
  <1>5. AskedFor /\ ViewsFit
    BY <1>1 DEF AskedFor, ViewsFit
  <1>6. WorkingHasACall
    BY <1>1 DEF WorkingHasACall
  <1> QED BY <1>3, <1>4, <1>5, <1>6 DEF FormPagesInv

\* What the shopper does to the fields changes no count but what was asked for.
LEMMA FieldsChange ==
  ASSUME FormPagesInv, Fill \/ TypeCode \/ Tick \/ Another
  PROVE  FormPagesInv'
  <1> USE FormPagesAssumption DEF FormPagesInv
  <1>1. /\ UNCHANGED <<formPage, account, enrolment, working, complaint, post, served, sends, told, doubtful>>
        /\ filled' \in BOOLEAN /\ code' \in BOOLEAN /\ captcha' \in {"none", "fresh", "spent"}
        /\ view' = view \/ (view = "done" /\ view' = "form")
    BY DEF Fill, TypeCode, Tick, Another, FormPagesTypeOK
  <1>2. \/ UNCHANGED <<wanted, view, filled>>
        \/ wanted <= MaxSends /\ wanted' \in {wanted, wanted + 1} /\ (wanted' = wanted => told <= 0 /\ view' = view)
    <2>1. told \in Nat /\ wanted \in Nat
      BY DEF FormPagesTypeOK
    <2> QED BY <2>1 DEF Fill, TypeCode, Tick, Another
  <1>3. FormPagesTypeOK'
    <2>1. wanted' \in 0..MaxSends + 1
      BY <1>2 DEF FormPagesTypeOK
    <2> QED BY <1>1, <2>1 DEF FormPagesTypeOK
  <1>4. CountsFit'
    BY <1>1 DEF CountsFit, MayServe, MayTell, Untold
  <1>5. AskedFor'
    <2>1. wanted \in Nat /\ told \in Nat
      BY DEF FormPagesTypeOK
    <2> QED BY <1>1, <1>2, <2>1 DEF AskedFor, NothingToSend
  <1>6. ViewsFit' /\ WorkingHasACall'
    BY <1>1 DEF ViewsFit, WorkingHasACall
  <1> QED BY <1>3, <1>4, <1>5, <1>6

\* A form that has something to send sends it, once.
LEMMA FormSends ==
  ASSUME FormPagesInv, SubmitForm \/ ConfirmMandatorySetup
  PROVE  FormPagesInv'
  <1> USE FormPagesAssumption DEF FormPagesInv
  <1>1. PICK step \in {"submit", "enable"} : Send(step)
    BY DEF SubmitForm, ConfirmMandatorySetup
  <1>2. /\ sends < MaxSends /\ sends' = sends + 1 /\ working' = TRUE /\ complaint' = FALSE
        /\ UNCHANGED <<formPage, account, filled, code, captcha, view, enrolment, served, told, wanted, doubtful>>
    BY <1>1 DEF Send
  <1>3. post' \in PostRecords /\ post'.at = "sent" /\ post'.step = step
    BY <1>1 DEF Send, PostRecords, FormPagesTypeOK
  <1>4. post.at = "idle"
    BY DEF SubmitForm, ConfirmMandatorySetup, Pressable, WorkingHasACall
  <1>5. view = "setup" => enrolment
    BY DEF SubmitForm, ConfirmMandatorySetup
  <1>6. ~NothingToSend
    BY DEF SubmitForm, ConfirmMandatorySetup, NothingToSend, ViewsFit
  <1>7. FormPagesTypeOK'
    <2>1. sends' \in 0..MaxSends + 1
      BY <1>2 DEF FormPagesTypeOK
    <2> QED BY <1>2, <1>3, <2>1 DEF FormPagesTypeOK, PostRecords
  <1>8. CountsFit'
    <2>1. {served, sends, told} \subseteq Nat
      BY DEF FormPagesTypeOK
    <2> QED BY <1>2, <1>3, <1>4, <2>1 DEF CountsFit, MayServe, MayTell, Untold
  <1>9. AskedFor'
    BY <1>2, <1>6 DEF AskedFor
  <1>10. ViewsFit' /\ WorkingHasACall'
    BY <1>2, <1>3, <1>5 DEF ViewsFit, WorkingHasACall
  <1> QED BY <1>7, <1>8, <1>9, <1>10

\* The server answers, or the answer is lost: nothing shows yet.
LEMMA FormAnswered ==
  ASSUME FormPagesInv, ServeForm \/ LosePost
  PROVE  FormPagesInv'
  <1> USE FormPagesAssumption DEF FormPagesInv
  <1>0. post \in PostRecords /\ {served, sends, told, wanted} \subseteq Nat /\ served <= MaxSends + 1 /\ sends <= MaxSends + 1
    BY DEF FormPagesTypeOK, PostRecords
  <1>1. /\ UNCHANGED <<formPage, account, filled, code, view, enrolment, working, complaint, sends, told, wanted>>
        /\ captcha' \in {"none", "fresh", "spent"} /\ post.at # "idle"
    BY DEF ServeForm, LosePost, FormPagesTypeOK
  <1>2. PICK at \in {"ok", "needsCode", "needsSetup", "refused", "lost"} : post' = [post EXCEPT !.at = at]
    <2>1. CASE ServeForm
      BY <2>1 DEF ServeForm, Refusable, Outcome
    <2>2. CASE LosePost
      BY <2>2 DEF LosePost
    <2> QED BY <2>1, <2>2
  <1>3. /\ post' \in PostRecords /\ post'.at = at /\ post'.step = post.step
    BY <1>0, <1>2 DEF PostRecords
  <1>4. /\ served' = served + (IF post.at = "sent" /\ at = "ok" /\ post.step # "setup" THEN 1 ELSE 0)
        /\ at = "needsCode" => formPage = "login"
        /\ doubtful' = (at = "lost" \/ doubtful) /\ (at # "lost" => post.at = "sent")
    <2>1. CASE ServeForm
      <3>1. PICK outcome \in {Outcome, "refused"} :
              /\ post' = [post EXCEPT !.at = outcome]
              /\ served' = IF outcome = "ok" /\ post.step # "setup" THEN served + 1 ELSE served
        BY <2>1 DEF ServeForm, Refusable, Did
      <3>2. outcome = at /\ at # "lost" /\ post.at = "sent" /\ doubtful' = doubtful
        BY <1>0, <1>3, <2>1, <3>1 DEF ServeForm, PostRecords, Outcome
      <3>3. at = "needsCode" => formPage = "login"
        BY <3>1, <3>2 DEF Outcome
      <3>4. doubtful' = (at = "lost" \/ doubtful)
        BY <3>2 DEF FormPagesTypeOK
      <3> QED BY <1>0, <3>1, <3>2, <3>3, <3>4
    <2>2. CASE LosePost
      <3>1. at = "lost" /\ served' = served /\ doubtful' = TRUE
        BY <1>0, <1>3, <2>2 DEF LosePost, PostRecords
      <3>2. doubtful' = (at = "lost" \/ doubtful)
        BY <3>1
      <3> QED BY <1>0, <3>1, <3>2
    <2> QED BY <2>1, <2>2
  <1>5. CountsFit'
    <2>1. served' + MayServe' <= sends' + 1 /\ told' + MayTell' <= sends' + 1
      BY <1>0, <1>1, <1>3, <1>4 DEF CountsFit, MayServe, MayTell
    <2>2. ASSUME ~doubtful' PROVE served' = told' + Untold'
      <3>1. ~doubtful /\ at # "lost" /\ post.at = "sent"
        BY <1>4, <2>2
      <3>2. served = told
        BY <1>0, <3>1 DEF CountsFit, Untold
      <3> QED BY <1>0, <1>1, <1>3, <1>4, <3>1, <3>2 DEF Untold
    <2>3. sends' <= MaxSends
      BY <1>1 DEF CountsFit
    <2> QED BY <2>1, <2>2, <2>3 DEF CountsFit
  <1>6. FormPagesTypeOK'
    <2>1. served' \in 0..MaxSends + 1
      BY <1>0, <1>1, <1>4, <1>5 DEF CountsFit, MayServe, FormPagesTypeOK
    <2>2. doubtful' \in BOOLEAN
      BY <1>4
    <2> QED BY <1>1, <1>3, <2>1, <2>2 DEF FormPagesTypeOK, PostRecords
  <1>7. AskedFor'
    BY <1>1 DEF AskedFor, NothingToSend
  <1>8. ViewsFit' /\ WorkingHasACall'
    BY <1>1, <1>3, <1>4 DEF ViewsFit, WorkingHasACall
  <1> QED BY <1>5, <1>6, <1>7, <1>8

\* An answer arrives at the page.
LEMMA FormShows ==
  ASSUME FormPagesInv, Succeeded \/ NeedsCode \/ NeedsSetup \/ SetupArrived \/ Failed
  PROVE  FormPagesInv'
  <1> USE FormPagesAssumption DEF FormPagesInv, Stay
  <1>0. /\ post \in PostRecords /\ {served, sends, told, wanted} \subseteq Nat
        /\ {code, filled, enrolment, working, complaint, doubtful} \subseteq BOOLEAN
        /\ view \in {"form", "code", "setup", "done"} /\ formPage \in FormPagesList
    BY DEF FormPagesTypeOK, PostRecords
  <1>1. UNCHANGED <<formPage, account, captcha, code, served, sends, wanted, doubtful>>
    BY DEF Succeeded, NeedsCode, NeedsSetup, SetupArrived, Failed
  <1>2. Idle0 \in PostRecords /\ Idle0.at = "idle" /\ Idle0.step = "submit"
    BY DEF Idle0, PostRecords
  <1>3. ASSUME Succeeded PROVE FormPagesInv'
    <2>1. /\ post.at = "ok" /\ post.step # "setup" /\ told' = told + 1 /\ working' = FALSE /\ post' = Idle0
          /\ view' = (IF formPage \in Uploads THEN "form" ELSE "done") /\ UNCHANGED <<enrolment, complaint>>
      BY <1>3 DEF Succeeded, Resting, ViewAfter
    <2>2. filled' \in BOOLEAN /\ (formPage \in Uploads => ~filled')
      BY <1>0, <1>3 DEF Succeeded
    <2>3. CountsFit'
      BY <1>0, <1>1, <1>2, <2>1 DEF CountsFit, MayServe, MayTell, Untold
    <2>4. told' \in 0..MaxSends + 1 /\ view' \in {"form", "code", "setup", "done"}
      BY <1>0, <1>1, <1>2, <2>1, <2>3 DEF CountsFit, MayTell, FormPagesTypeOK
    <2>5. FormPagesTypeOK'
      BY <1>0, <1>1, <1>2, <2>1, <2>2, <2>4 DEF FormPagesTypeOK, PostRecords
    <2>6. AskedFor'
      <3>1. NothingToSend'
        BY <1>1, <1>2, <2>1, <2>2 DEF NothingToSend
      <3> QED BY <1>0, <1>1, <2>1, <3>1 DEF AskedFor, NothingToSend
    <2>7. ViewsFit' /\ WorkingHasACall'
      BY <1>1, <1>2, <2>1 DEF ViewsFit, WorkingHasACall
    <2> QED BY <2>3, <2>5, <2>6, <2>7
  <1>4. ASSUME NeedsCode PROVE FormPagesInv'
    <2>1. /\ post.at = "needsCode" /\ working' = FALSE /\ post' = Idle0 /\ view' = "code"
          /\ UNCHANGED <<enrolment, complaint, filled, told>>
      BY <1>4 DEF NeedsCode, Resting
    <2>2. CountsFit'
      BY <1>0, <1>1, <1>2, <2>1 DEF CountsFit, MayServe, MayTell, Untold
    <2>3. FormPagesTypeOK'
      BY <1>0, <1>1, <1>2, <2>1 DEF FormPagesTypeOK, PostRecords
    <2>4. AskedFor'
      BY <1>0, <1>1, <2>1 DEF AskedFor, NothingToSend
    <2>5. ViewsFit' /\ WorkingHasACall'
      BY <1>1, <1>2, <2>1 DEF ViewsFit, WorkingHasACall
    <2> QED BY <2>2, <2>3, <2>4, <2>5
  <1>5. ASSUME NeedsSetup PROVE FormPagesInv'
    <2>1. /\ post.at = "needsSetup" /\ view' = "setup" /\ post' = [Idle0 EXCEPT !.at = "sent", !.step = "setup"]
          /\ UNCHANGED <<enrolment, complaint, filled, told, working>>
      BY <1>5 DEF NeedsSetup
    <2>2. post' \in PostRecords /\ post'.at = "sent" /\ post'.step = "setup"
      BY <2>1 DEF Idle0, PostRecords
    <2>3. CountsFit'
      BY <1>0, <1>1, <2>1, <2>2 DEF CountsFit, MayServe, MayTell, Untold
    <2>4. FormPagesTypeOK'
      BY <1>0, <1>1, <2>1, <2>2 DEF FormPagesTypeOK, PostRecords
    <2>5. AskedFor'
      BY <1>0, <1>1, <2>1 DEF AskedFor, NothingToSend
    <2>6. ViewsFit' /\ WorkingHasACall'
      BY <1>1, <2>1, <2>2 DEF ViewsFit, WorkingHasACall
    <2> QED BY <2>3, <2>4, <2>5, <2>6
  <1>6. ASSUME SetupArrived PROVE FormPagesInv'
    <2>1. /\ post.at = "ok" /\ post.step = "setup" /\ enrolment' = TRUE /\ working' = FALSE /\ post' = Idle0
          /\ UNCHANGED <<complaint, filled, told, view>>
      BY <1>6 DEF SetupArrived, Resting
    <2>2. CountsFit'
      BY <1>0, <1>1, <1>2, <2>1 DEF CountsFit, MayServe, MayTell, Untold
    <2>3. FormPagesTypeOK'
      BY <1>0, <1>1, <1>2, <2>1 DEF FormPagesTypeOK, PostRecords
    <2>4. AskedFor'
      BY <1>0, <1>1, <2>1 DEF AskedFor, NothingToSend
    <2>5. ViewsFit' /\ WorkingHasACall'
      BY <1>1, <1>2, <2>1 DEF ViewsFit, WorkingHasACall
    <2> QED BY <2>2, <2>3, <2>4, <2>5
  <1>7. ASSUME Failed PROVE FormPagesInv'
    <2>1. /\ post.at \in {"refused", "lost"} /\ complaint' = TRUE /\ working' = FALSE /\ post' = Idle0
          /\ UNCHANGED <<enrolment, filled, told, view>>
      BY <1>7 DEF Failed, Resting
    <2>2. CountsFit'
      BY <1>0, <1>1, <1>2, <2>1 DEF CountsFit, MayServe, MayTell, Untold
    <2>3. FormPagesTypeOK'
      BY <1>0, <1>1, <1>2, <2>1 DEF FormPagesTypeOK, PostRecords
    <2>4. AskedFor'
      BY <1>0, <1>1, <2>1 DEF AskedFor, NothingToSend
    <2>5. ViewsFit' /\ WorkingHasACall'
      BY <1>1, <1>2, <2>1 DEF ViewsFit, WorkingHasACall
    <2> QED BY <2>2, <2>3, <2>4, <2>5
  <1> QED BY <1>3, <1>4, <1>5, <1>6, <1>7

LEMMA StepFormPages == FormPagesInv /\ [FormPagesNext]_postVars => FormPagesInv'
  <1> SUFFICES ASSUME FormPagesInv, [FormPagesNext]_postVars PROVE FormPagesInv'
    OBVIOUS
  <1>1. CASE UNCHANGED postVars
    BY <1>1 DEF postVars, FormPagesInv, FormPagesTypeOK, CountsFit, MayServe, MayTell, Untold, AskedFor, NothingToSend,
                ViewsFit, WorkingHasACall
  <1>2. CASE FormPagesNext
    BY <1>2, FieldsChange, FormSends, FormAnswered, FormShows DEF FormPagesNext
  <1> QED BY <1>1, <1>2

\* However often a form is sent, and whatever the server answers, a form at rest has told of each thing
\* the server did, which is never more than was asked for, unless an answer was lost; its button is
\* disabled for a call that is under way; and a mandatory enrolment is shown, or an error is.
THEOREM TheFormsTellTheTruth == FormPagesSpec => []FormsTellTheTruth
  <1>1. FormPagesInv => FormsTellTheTruth
    <2> SUFFICES ASSUME FormPagesInv PROVE FormsTellTheTruth
      OBVIOUS
    <2>1. {served, told, wanted} \subseteq Nat /\ (working <=> post.at # "idle")
      BY DEF FormPagesInv, FormPagesTypeOK, WorkingHasACall
    <2>2. SaysWhatHappened
      BY <2>1 DEF FormPagesInv, CountsFit, Untold, SaysWhatHappened
    <2>3. NothingTwice
      BY <2>1 DEF FormPagesInv, CountsFit, Untold, AskedFor, NothingToSend, NothingTwice
    <2>4. SetupShowsOrFails
      BY <2>1 DEF FormPagesInv, ViewsFit, SetupShowsOrFails
    <2> QED BY <2>2, <2>3, <2>4 DEF FormPagesInv, FormsTellTheTruth
  <1> QED BY <1>1, InitFormPages, StepFormPages, PTL DEF FormPagesSpec

-----------------------------------------------------------------------------
(***************************************************************************)
(* The account page knows the second factor and the name, and only Disable *)
(* takes a second factor away.                                             *)
(***************************************************************************)

\* What the page shows while no call is under way.
ShowsTheFactor == (enabledShown <=> tfaOn) /\ (qrShown # 0 => qrShown = secretNow)

\* And while w is, which came when nothing else was under way: before the server has it,
\* its button fits the account; once it has it, its answer brings the page back to it.
CallFits(w) ==
  /\ w.kind = "status" => ~enabledShown /\ qrShown = 0
  /\ w.kind # "status" /\ w.at \in {"sent", "failed"} => ShowsTheFactor
  /\ w.kind = "status" /\ w.at \in {"on", "off"} => (w.at = "on" <=> tfaOn)
  /\ w.kind = "setup" => ~enabledShown /\ qrShown = 0 /\ ~tfaOn
  /\ w.kind = "setup" /\ w.at = "ok" => w.secret = secretNow
  /\ w.kind = "enable" => ~enabledShown /\ (w.at = "ok" => tfaOn)
  /\ w.kind = "disable" => enabledShown /\ (w.at = "ok" => ~tfaOn)
  /\ w.at = "failed" => w.kind = "enable"
  /\ w.at \in {"on", "off"} <=> w.kind = "status" /\ w.at \notin {"sent", "failed"}

OneCallAtATime ==
  surely =>
    /\ Calling = {} => ShowsTheFactor
    /\ \A c \in Calling : CallFits(tfaCall[c]) /\ Calling = {c}

\* The name that was fetched is the one saved.
NameFits ==
  /\ saving.at = "no" => saving = NotSaving
  /\ saving.at = "read" => saving.name = nameSaved
  /\ NameShownIsSaved

AccountPageInv == AccountPageTypeOK /\ OneCallAtATime /\ NameFits

CallRecords == [at : {"idle", "sent", "on", "off", "ok", "failed"},
                kind : {"status", "setup", "enable", "disable"}, secret : 0..MaxSecrets]

LEMMA NoCallFits == NoCall \in CallRecords /\ NoCall.at = "idle" /\ NoCall.kind = "status"
  BY AccountPageAssumption DEF NoCall, CallRecords

LEMMA AccountTyped ==
  AccountPageTypeOK <=>
    /\ tfaOn \in BOOLEAN /\ enabledShown \in BOOLEAN /\ surely \in BOOLEAN /\ nameForm \in BOOLEAN
    /\ nameDoubt \in BOOLEAN /\ secretNow \in 0..MaxSecrets /\ begun \in 0..MaxSecrets /\ qrShown \in 0..MaxSecrets
    /\ scanned \in 0..MaxSecrets /\ tfaCall \in [TfaCalls -> CallRecords]
    /\ nameSaved \in Names /\ nameShown \in Names /\ nameTyped \in Names
    /\ saving \in [at : {"no", "patch", "patched", "fetch", "read"}, name : Names]
  BY DEF AccountPageTypeOK, CallRecords

LEMMA InitAccountPage == AccountPageInit => AccountPageInv
  <1> SUFFICES ASSUME AccountPageInit PROVE AccountPageInv
    OBVIOUS
  <1> DEFINE asking == [NoCall EXCEPT !.at = "sent"]
  <1>1. asking \in CallRecords /\ asking.at = "sent" /\ asking.kind = "status"
    BY NoCallFits DEF CallRecords
  <1> HIDE DEF asking
  <1>2. PICK first \in TfaCalls : tfaCall = [c \in TfaCalls |-> IF c = first THEN asking ELSE NoCall]
    BY AccountPageAssumption DEF AccountPageInit, asking
  <1>3. /\ tfaOn \in BOOLEAN /\ secretNow \in 0..MaxSecrets /\ begun = secretNow /\ scanned = secretNow
        /\ enabledShown = FALSE /\ qrShown = 0 /\ surely = TRUE /\ nameForm = FALSE /\ nameDoubt = FALSE
        /\ nameSaved = "n1" /\ nameShown = "n1" /\ nameTyped = "n1" /\ saving = NotSaving
    <2>1. (tfaOn => secretNow = 1) /\ (~tfaOn => secretNow = 0) /\ tfaOn \in BOOLEAN
      BY DEF AccountPageInit
    <2>2. secretNow \in 0..MaxSecrets
      BY <2>1, AccountPageAssumption
    <2> QED BY <2>2 DEF AccountPageInit
  <1>4. AccountPageTypeOK
    <2>1. tfaCall \in [TfaCalls -> CallRecords]
      BY <1>1, <1>2, NoCallFits
    <2>2. saving \in [at : {"no", "patch", "patched", "fetch", "read"}, name : Names] /\ qrShown \in 0..MaxSecrets
      BY <1>3, AccountPageAssumption DEF Names, NotSaving
    <2> QED BY <1>3, <2>1, <2>2, AccountTyped DEF Names
  <1>5. OneCallAtATime
    <2>1. Calling = {first} /\ tfaCall[first] = asking
      BY <1>1, <1>2, NoCallFits DEF Calling
    <2> QED BY <1>1, <1>3, <2>1 DEF OneCallAtATime, CallFits
  <1>6. NameFits
    BY <1>3 DEF NameFits, NotSaving, NameShownIsSaved
  <1> QED BY <1>4, <1>5, <1>6 DEF AccountPageInv

\* What a step may do to the second factor: take it away with a Disable alone.
Disarms == tfaOn /\ ~tfaOn' /\ surely => \E c \in TfaCalls : tfaCall[c].kind = "disable"
HoldsOn == AccountPageInv' /\ Disarms

-----------------------------------------------------------------------------
(* The second factor.                                                        *)

nameTuple == <<nameSaved, nameShown, nameTyped, nameForm, saving, nameDoubt>>
LEMMA SameName == ASSUME NameFits, UNCHANGED nameTuple PROVE NameFits'
  BY DEF NameFits, NameShownIsSaved, nameTuple

\* A call moves on to w.
LEMMA CallStep ==
  ASSUME NEW c \in TfaCalls, NEW w \in CallRecords, tfaCall \in [TfaCalls -> CallRecords],
         tfaCall' = [tfaCall EXCEPT ![c] = w]
  PROVE  /\ tfaCall' \in [TfaCalls -> CallRecords] /\ tfaCall'[c] = w
         /\ \A d \in TfaCalls \ {c} : tfaCall'[d] = tfaCall[d]
         /\ Calling' = (IF w.at = "idle" THEN Calling \ {c} ELSE Calling \cup {c})
  BY DEF Calling

LEMMA ACallIsSent ==
  ASSUME AccountPageInv, NEW c \in TfaCalls, TfaBeginSetup(c) \/ TfaConfirm(c) \/ TfaDisable(c)
  PROVE  HoldsOn
  <1> USE DEF AccountPageInv
  <1>1. PICK kind \in {"setup", "enable", "disable"}, k \in 0..MaxSecrets :
          /\ TfaSend(c, kind, k)
          /\ kind = "setup" => ~enabledShown /\ qrShown = 0
          /\ kind = "enable" => ~enabledShown
          /\ kind = "disable" => enabledShown
    BY AccountTyped, AccountPageAssumption DEF TfaBeginSetup, OffersSetup, TfaConfirm, TfaDisable
  <1>2. PICK w \in CallRecords : /\ w.at = "sent" /\ w.kind = kind
                                 /\ tfaCall' = [tfaCall EXCEPT ![c] = w]
    <2>1. [at |-> "sent", kind |-> kind, secret |-> k] \in CallRecords
      BY DEF CallRecords
    <2> QED BY <1>1, <2>1 DEF TfaSend
  <1>3. /\ tfaCall[c].at = "idle" /\ surely' \in BOOLEAN /\ (surely' <=> surely /\ Calling = {})
        /\ UNCHANGED <<secretNow, begun, tfaOn, enabledShown, qrShown, scanned>> /\ UNCHANGED nameTuple
    BY <1>1 DEF TfaSend, nameVars, nameTuple
  <1>4. AccountPageTypeOK'
    BY <1>2, <1>3, AccountTyped, CallStep DEF AccountPageTypeOK, CallRecords, nameTuple
  <1>5. OneCallAtATime'
    <2> SUFFICES ASSUME surely, Calling = {} PROVE OneCallAtATime'
      BY <1>3 DEF OneCallAtATime
    <2>1. Calling' = {c} /\ tfaCall'[c] = w
      BY <1>2, AccountTyped, CallStep
    <2>2. ShowsTheFactor
      BY DEF OneCallAtATime
    <2>3. CallFits(w)'
      BY <1>1, <1>2, <1>3, <2>2 DEF CallFits, ShowsTheFactor
    <2> QED BY <2>1, <2>3 DEF OneCallAtATime, CallFits, ShowsTheFactor
  <1> QED BY <1>3, <1>4, <1>5, SameName DEF HoldsOn, Disarms

LEMMA TheShopperScans == ASSUME AccountPageInv, Scan PROVE HoldsOn
  <1> USE DEF AccountPageInv
  <1>1. /\ scanned' = qrShown /\ UNCHANGED <<secretNow, begun, tfaOn, enabledShown, qrShown, tfaCall, surely>>
        /\ UNCHANGED nameTuple
    BY DEF Scan, nameVars, nameTuple
  <1>2. AccountPageTypeOK'
    BY <1>1 DEF AccountPageTypeOK, nameTuple
  <1>3. OneCallAtATime'
    BY <1>1 DEF OneCallAtATime, Calling, CallFits, ShowsTheFactor
  <1> QED BY <1>1, <1>2, <1>3, SameName DEF HoldsOn, Disarms

LEMMA ACallIsServed == ASSUME AccountPageInv, NEW c \in TfaCalls, ServeTfa(c) PROVE HoldsOn
  <1> USE DEF AccountPageInv
  <1> DEFINE w == tfaCall[c]
  <1>1. w \in CallRecords /\ w.at = "sent" /\ c \in Calling
    BY AccountTyped DEF ServeTfa, Calling
  <1>2. UNCHANGED <<enabledShown, qrShown, scanned, surely>> /\ UNCHANGED nameTuple
    BY DEF ServeTfa, nameVars, nameTuple
  <1>3. PICK x \in CallRecords :
          /\ tfaCall' = [tfaCall EXCEPT ![c] = x] /\ x.kind = w.kind
          /\ \/ /\ w.kind = "status" /\ x.at = (IF tfaOn THEN "on" ELSE "off") /\ UNCHANGED <<secretNow, begun, tfaOn>>
             \/ /\ w.kind = "setup" /\ x.at = "ok" /\ x.secret = secretNow' /\ tfaOn' = FALSE
                /\ secretNow' = begun + 1 /\ begun' = begun + 1 /\ begun < MaxSecrets
             \/ /\ w.kind = "enable" /\ UNCHANGED <<secretNow, begun>>
                /\ (x.at = "ok" /\ tfaOn' = TRUE) \/ (x.at = "failed" /\ tfaOn' = tfaOn)
             \/ /\ w.kind = "disable" /\ tfaOn' = FALSE /\ secretNow' = 0 /\ UNCHANGED begun /\ x.at = "ok"
    <2>1. CASE w.kind = "status"
      <3>1. PICK at \in {"on", "off"} : at = IF tfaOn THEN "on" ELSE "off"
        OBVIOUS
      <3>2. tfaCall' = [tfaCall EXCEPT ![c].at = at] /\ UNCHANGED <<secretNow, begun, tfaOn>>
        BY <2>1, <3>1 DEF ServeTfa
      <3>3. [w EXCEPT !.at = at] \in CallRecords /\ [w EXCEPT !.at = at].kind = w.kind /\ [w EXCEPT !.at = at].at = at
        BY <1>1 DEF CallRecords
      <3> QED BY <2>1, <3>1, <3>2, <3>3
    <2>2. CASE w.kind = "setup"
      <3>1. /\ begun < MaxSecrets /\ begun' = begun + 1 /\ secretNow' = begun + 1 /\ tfaOn' = FALSE
            /\ tfaCall' = [tfaCall EXCEPT ![c].at = "ok", ![c].secret = begun + 1]
        BY <2>2 DEF ServeTfa
      <3> DEFINE x == [[w EXCEPT !.at = "ok"] EXCEPT !.secret = begun + 1]
      <3>2. begun + 1 \in 0..MaxSecrets
        BY <3>1, AccountTyped, AccountPageAssumption
      <3>3. x \in CallRecords /\ x.kind = w.kind /\ x.at = "ok" /\ x.secret = begun + 1
        BY <1>1, <3>2 DEF CallRecords
      <3>4. tfaCall' = [tfaCall EXCEPT ![c] = x]
        BY <1>1, <3>1, AccountTyped
      <3> HIDE DEF x
      <3> QED BY <2>2, <3>1, <3>3, <3>4
    <2>3. CASE w.kind = "enable"
      <3>1. PICK at \in {"ok", "failed"} : at = IF ConfirmsWith(w.secret) THEN "ok" ELSE "failed"
        OBVIOUS
      <3>2. tfaCall' = [tfaCall EXCEPT ![c].at = at] /\ UNCHANGED <<secretNow, begun>>
        BY <2>3, <3>1 DEF ServeTfa
      <3>3. (at = "ok" /\ tfaOn' = TRUE) \/ (at = "failed" /\ tfaOn' = tfaOn)
        BY <2>3, <3>1, AccountTyped DEF ServeTfa
      <3>4. [w EXCEPT !.at = at] \in CallRecords /\ [w EXCEPT !.at = at].kind = w.kind /\ [w EXCEPT !.at = at].at = at
        BY <1>1 DEF CallRecords
      <3> QED BY <2>3, <3>2, <3>3, <3>4
    <2>4. CASE w.kind = "disable"
      <3>1. tfaOn' = FALSE /\ secretNow' = 0 /\ UNCHANGED begun /\ tfaCall' = [tfaCall EXCEPT ![c].at = "ok"]
        BY <2>4 DEF ServeTfa
      <3>2. [w EXCEPT !.at = "ok"] \in CallRecords /\ [w EXCEPT !.at = "ok"].kind = w.kind
            /\ [w EXCEPT !.at = "ok"].at = "ok"
        BY <1>1 DEF CallRecords
      <3> QED BY <2>4, <3>1, <3>2
    <2> QED BY <1>1, <2>1, <2>2, <2>3, <2>4 DEF CallRecords
  <1>4. /\ tfaCall' \in [TfaCalls -> CallRecords] /\ tfaCall'[c] = x /\ Calling' = Calling
    <2>1. x.at # "idle"
      BY <1>3
    <2>2. tfaCall' = [tfaCall EXCEPT ![c] = x] /\ tfaCall \in [TfaCalls -> CallRecords]
      BY <1>3, AccountTyped
    <2> HIDE DEF w
    <2>3. Calling' = Calling \cup {c}
      BY <2>1, <2>2, CallStep
    <2> QED BY <1>1, <2>2, <2>3, CallStep
  <1>5. tfaOn' \in BOOLEAN /\ secretNow' \in 0..MaxSecrets /\ begun' \in 0..MaxSecrets
    <2>1. tfaOn \in BOOLEAN /\ secretNow \in 0..MaxSecrets /\ begun \in 0..MaxSecrets
      BY AccountTyped
    <2>2. tfaOn' \in BOOLEAN
      BY <1>3, <2>1
    <2> QED BY <1>3, <2>1, <2>2, AccountPageAssumption
  <1>6. AccountPageTypeOK'
    BY <1>2, <1>4, <1>5, AccountTyped DEF AccountPageTypeOK, CallRecords, nameTuple
  <1>7. surely => Calling = {c} /\ CallFits(w)
    BY <1>1 DEF OneCallAtATime
  <1>8. OneCallAtATime'
    <2> SUFFICES ASSUME surely PROVE OneCallAtATime'
      BY <1>2 DEF OneCallAtATime
    <2>1. CallFits(x)'
      BY <1>1, <1>2, <1>3, <1>7, AccountTyped DEF CallFits, ShowsTheFactor
    <2> QED BY <1>4, <1>7, <2>1 DEF OneCallAtATime, CallFits, ShowsTheFactor
  <1>9. Disarms
    <2> SUFFICES ASSUME surely, tfaOn, ~tfaOn' PROVE w.kind = "disable"
      BY DEF Disarms
    <2> QED BY <1>1, <1>3, <1>7 DEF CallFits, ShowsTheFactor
  <1> QED BY <1>2, <1>6, <1>8, <1>9, SameName DEF HoldsOn

LEMMA ACallIsLost == ASSUME AccountPageInv, NEW c \in TfaCalls, LoseTfa(c) PROVE HoldsOn
  <1> USE DEF AccountPageInv
  <1>1. tfaCall[c] \in CallRecords
    BY AccountTyped
  <1>2. [tfaCall[c] EXCEPT !.at = "failed"] \in CallRecords
    BY <1>1 DEF CallRecords
  <1>3. /\ tfaCall' \in [TfaCalls -> CallRecords] /\ surely' = FALSE
        /\ UNCHANGED <<secretNow, begun, tfaOn, enabledShown, qrShown, scanned>> /\ UNCHANGED nameTuple
    BY <1>2, AccountTyped, CallStep DEF LoseTfa, nameVars, nameTuple
  <1>4. AccountPageTypeOK' /\ OneCallAtATime'
    BY <1>3 DEF AccountPageTypeOK, CallRecords, nameTuple, OneCallAtATime
  <1> QED BY <1>3, <1>4, SameName DEF HoldsOn, Disarms

LEMMA ACallIsAnswered == ASSUME AccountPageInv, NEW c \in TfaCalls, TfaAnswered(c) PROVE HoldsOn
  <1> USE DEF AccountPageInv
  <1> DEFINE w == tfaCall[c]
  <1>1. w \in CallRecords /\ w.at \in {"on", "off", "ok", "failed"} /\ c \in Calling
    BY AccountTyped DEF TfaAnswered, Calling
  <1>2. /\ UNCHANGED <<secretNow, begun, tfaOn, scanned, surely>> /\ UNCHANGED nameTuple
        /\ enabledShown' = (IF w.at = "failed" THEN enabledShown ELSE EnabledAfter(w))
        /\ qrShown' = (IF w.at = "failed" THEN qrShown ELSE QrAfter(w))
        /\ tfaCall' \in [TfaCalls -> CallRecords] /\ Calling' = Calling \ {c}
    BY NoCallFits, AccountTyped, CallStep DEF TfaAnswered, nameVars, nameTuple
  <1>3. EnabledAfter(w) \in BOOLEAN /\ QrAfter(w) \in 0..MaxSecrets
    <2>1. enabledShown \in BOOLEAN /\ qrShown \in 0..MaxSecrets /\ w.secret \in 0..MaxSecrets /\ 0 \in 0..MaxSecrets
      BY <1>1, AccountTyped, AccountPageAssumption DEF CallRecords
    <2>2. (w.at = "on") \in BOOLEAN
      OBVIOUS
    <2>3. EnabledAfter(w) \in BOOLEAN
      BY <2>1, <2>2 DEF EnabledAfter
    <2>4. QrAfter(w) \in 0..MaxSecrets
      BY <2>1 DEF QrAfter
    <2> QED BY <2>3, <2>4
  <1>4. enabledShown' \in BOOLEAN /\ qrShown' \in 0..MaxSecrets
    BY <1>2, <1>3, AccountTyped
  <1>5. AccountPageTypeOK'
    BY <1>2, <1>4 DEF AccountPageTypeOK, CallRecords, nameTuple
  <1>6. OneCallAtATime'
    <2> SUFFICES ASSUME surely PROVE OneCallAtATime'
      BY <1>2 DEF OneCallAtATime
    <2>1. Calling = {c} /\ CallFits(w)
      BY <1>1 DEF OneCallAtATime
    <2>2. ShowsTheFactor'
      <3>1. CASE w.at = "failed"
        BY <1>2, <2>1, <3>1 DEF CallFits, ShowsTheFactor
      <3>2. CASE w.at # "failed" /\ w.kind = "status"
        BY <1>1, <1>2, <2>1, <3>2 DEF CallFits, ShowsTheFactor, EnabledAfter, QrAfter
      <3>3. CASE w.at # "failed" /\ w.kind = "setup"
        BY <1>1, <1>2, <2>1, <3>3 DEF CallFits, ShowsTheFactor, EnabledAfter, QrAfter
      <3>4. CASE w.at # "failed" /\ w.kind \in {"enable", "disable"}
        BY <1>1, <1>2, <2>1, <3>4 DEF CallFits, ShowsTheFactor, EnabledAfter, QrAfter
      <3> QED BY <1>1, <3>1, <3>2, <3>3, <3>4 DEF CallRecords
    <2> QED BY <1>2, <2>1, <2>2 DEF OneCallAtATime
  <1> QED BY <1>2, <1>5, <1>6, SameName DEF HoldsOn, Disarms

-----------------------------------------------------------------------------
(* The profile.                                                              *)

LEMMA ProfileGoesOn == ASSUME AccountPageInv, ProfileNext PROVE HoldsOn
  <1> USE DEF AccountPageInv
  <1>1. UNCHANGED <<secretNow, begun, tfaOn, enabledShown, qrShown, scanned, tfaCall, surely>>
    BY DEF ProfileNext, StartEditingProfile, TypeName, CancelProfile, SaveProfile, ServeProfile, ProfilePatched,
           ProfileFetched, SaveFailed, tfaVars
  <1>2. OneCallAtATime' /\ Disarms
    BY <1>1 DEF OneCallAtATime, Calling, CallFits, ShowsTheFactor, Disarms
  <1>3. SUFFICES NameFits' /\ {nameForm', nameDoubt'} \subseteq BOOLEAN /\ {nameSaved', nameShown', nameTyped'} \subseteq Names
                 /\ saving' \in [at : {"no", "patch", "patched", "fetch", "read"}, name : Names]
    BY <1>1, <1>2 DEF HoldsOn, AccountPageTypeOK
  <1> USE DEF NameFits, NameShownIsSaved, AccountPageTypeOK
  <1>4. CASE StartEditingProfile
    BY <1>4 DEF StartEditingProfile
  <1>5. CASE TypeName
    BY <1>5 DEF TypeName
  <1>6. CASE CancelProfile
    BY <1>6 DEF CancelProfile
  <1>7. CASE SaveProfile
    BY <1>7 DEF SaveProfile, NotSaving
  <1>8. CASE ServeProfile
    BY <1>8 DEF ServeProfile, NotSaving
  <1>9. CASE ProfilePatched
    BY <1>9 DEF ProfilePatched, NotSaving
  <1>10. CASE ProfileFetched
    BY <1>10 DEF ProfileFetched, NotSaving, Names
  <1>11. CASE SaveFailed
    BY <1>11 DEF SaveFailed, NotSaving, Names
  <1> QED BY <1>4, <1>5, <1>6, <1>7, <1>8, <1>9, <1>10, <1>11 DEF ProfileNext

-----------------------------------------------------------------------------
LEMMA StepAccountPage ==
  AccountPageInv /\ [TfaNext \/ ProfileNext]_accountPageVars => AccountPageInv' /\ [Disarms]_accountPageVars
  <1> SUFFICES ASSUME AccountPageInv, [TfaNext \/ ProfileNext]_accountPageVars
               PROVE  AccountPageInv' /\ [Disarms]_accountPageVars
    OBVIOUS
  <1>1. CASE UNCHANGED accountPageVars
    <2>1. AccountPageInv'
      BY <1>1 DEF accountPageVars, tfaVars, nameVars, AccountPageInv, AccountPageTypeOK, OneCallAtATime, Calling,
                  CallFits, ShowsTheFactor, NameFits, NameShownIsSaved
    <2> QED BY <1>1, <2>1
  <1>2. CASE TfaNext
    BY <1>2, ACallIsSent, TheShopperScans, ACallIsServed, ACallIsLost, ACallIsAnswered DEF TfaNext, HoldsOn
  <1>3. CASE ProfileNext
    BY <1>3, ProfileGoesOn DEF HoldsOn
  <1> QED BY <1>1, <1>2, <1>3

\* However many calls there are under way, the page says "enabled" of the account that is and shows the
\* secret that the server will check, unless calls crossed or were lost; only Disable takes a confirmed
\* second factor away; and the name that shows is the one saved, unless an answer was lost.
THEOREM TheAccountPageIsTrue == AccountPageSpec => []AccountPageTypeOK /\ AccountPageIsTrue
  <1>1. AccountPageInv => AccountPageTypeOK /\ PageKnowsTheFactor /\ NameShownIsSaved
    BY AccountTyped DEF AccountPageInv, OneCallAtATime, ShowsTheFactor, PageKnowsTheFactor, NameFits
  <1> QED BY <1>1, InitAccountPage, StepAccountPage, PTL
        DEF AccountPageSpec, AccountPageIsTrue, OnlyDisableDisarms, Disarms

-----------------------------------------------------------------------------
(***************************************************************************)
(* The lists of the dashboard and of the address book agree with the       *)
(* server at rest, for any panels, rows, values and requests.              *)
(***************************************************************************)

CallRecords0 ==
  [at : {"idle", "sent", "ok", "failed", "done"}, kind : CallKinds, panel : Panels \cup {NoPanel},
   mount : 0..MaxMounts, row : RowIds \cup {NoRow}, value : RowValues \cup {Unborn}, list : RowLists,
   closes : BOOLEAN, clean : BOOLEAN]

PanelsFit ==
  /\ panel \in Panels \cup {NoPanel} /\ mounts \in 0..MaxMounts
  /\ rows \in [Panels -> [RowIds -> Cells]] /\ list \in RowLists
  /\ loading \in BOOLEAN /\ hidden \in BOOLEAN /\ unsure \in BOOLEAN
  /\ form \in Forms /\ call \in [Calls -> CallRecords0]

\* A request under way was sent by a panel, which is the one mounted if the request is of
\* this mount; a write to a row names it, and what it writes is a value.
RequestFits(c) ==
  /\ c.panel \in Panels /\ c.mount <= mounts
  /\ c.mount = mounts => c.panel = panel
  /\ c.kind \in {"update", "change", "delete"} => c.row \in RowIds
  /\ c.kind \in {"create", "update", "change"} => c.value \in RowValues
RequestsFit == \A q \in InFlight : RequestFits(call[q])

\* A request that is still clean is alone, and what a clean fetch has read is still so.
CleanIsAlone ==
  \A q \in InFlight : call[q].clean =>
    /\ InFlight = {q}
    /\ call[q].kind = "fetch" /\ call[q].at = "ok" => call[q].list = Present(call[q].panel)

\* While the panel is sure of its list at most one request is under way, and it is its own:
\* a write that the server has not taken, or refused, leaves the list right; one it took
\* makes it right once the row is edited in the list that the handler captured; and a
\* reload is clean.
WillAgree(c) ==
  /\ c.mount = mounts
  /\ c.kind = "fetch" => c.clean /\ c.at \in {"sent", "ok"}
  /\ c.kind # "fetch" /\ c.at \in {"sent", "failed"} => list = Present(panel)
  /\ c.kind # "fetch" /\ c.at = "sent" => c.list = list
  /\ c.kind \in {"change", "delete"} /\ c.at = "ok" => LocalEdit(c) = Present(panel)
SureOfTheList ==
  ~unsure /\ panel # NoPanel =>
    /\ InFlight = {} => list = Present(panel)
    /\ \A q \in InFlight : InFlight = {q} /\ WillAgree(call[q])

\* A form that was closed has forgotten its row, but for the panel of delivery options.
FormFits ==
  panel # "delivery" => form.editing = form.asked /\ (~form.open => form.editing = NoRow)

ListPanelsInv ==
  PanelsFit /\ RequestsFit /\ CleanIsAlone /\ SureOfTheList /\ FormFits /\ SpinnerHasAFetch

-----------------------------------------------------------------------------
(* What the records of requests and lists are made of.                       *)

LEMMA EmptyFits == Empty \in RowLists
  BY DEF Empty, RowLists

LEMMA NoCall0Fits == NoCall0 \in CallRecords0 /\ NoCall0.at = "idle" /\ NoCall0.clean = FALSE
  BY EmptyFits, ListPanelsAssumption DEF NoCall0, CallRecords0, CallKinds

LEMMA AnsweredFits == Answered \in CallRecords0 /\ Answered.at = "done"
  BY NoCall0Fits DEF Answered, CallRecords0

LEMMA AskedFits ==
  ASSUME NEW kind \in CallKinds, NEW p \in Panels, NEW m \in 0..MaxMounts, NEW row \in RowIds \cup {NoRow},
         NEW value \in RowValues \cup {Unborn}, NEW l \in RowLists, NEW c,
         c = [NoCall0 EXCEPT !.kind = kind, !.panel = p, !.mount = m, !.row = row, !.value = value, !.list = l]
  PROVE  /\ c \in CallRecords0 /\ c.kind = kind /\ c.panel = p /\ c.mount = m /\ c.row = row /\ c.value = value
         /\ c.list = l
  BY DEF NoCall0, CallRecords0

LEMMA FirstFetchFits ==
  ASSUME NEW p \in Panels, NEW m \in 0..MaxMounts
  PROVE  LET c == [NoCall0 EXCEPT !.kind = "fetch", !.panel = p, !.mount = m]
         IN  c \in CallRecords0 /\ c.kind = "fetch" /\ c.panel = p /\ c.mount = m
  BY EmptyFits DEF NoCall0, CallRecords0, CallKinds

LEMMA MarkedFits ==
  ASSUME NEW c \in CallRecords0, NEW b \in BOOLEAN
  PROVE  /\ LET d == [c EXCEPT !.at = "sent", !.clean = b]
            IN  /\ d \in CallRecords0 /\ d.at = "sent" /\ d.clean = b /\ d.kind = c.kind /\ d.panel = c.panel
                /\ d.mount = c.mount /\ d.row = c.row /\ d.value = c.value /\ d.list = c.list
         /\ LET d == [c EXCEPT !.clean = b]
            IN  /\ d \in CallRecords0 /\ d.at = c.at /\ d.clean = b /\ d.kind = c.kind /\ d.panel = c.panel
                /\ d.mount = c.mount /\ d.row = c.row /\ d.value = c.value /\ d.list = c.list
  BY DEF CallRecords0

LEMMA ServedFits ==
  ASSUME NEW c \in CallRecords0, NEW at \in {"sent", "ok", "failed"}, NEW w, w = [c EXCEPT !.at = at]
  PROVE  /\ w \in CallRecords0 /\ w.at = at /\ w.clean = c.clean /\ w.kind = c.kind /\ w.panel = c.panel
         /\ w.mount = c.mount /\ w.row = c.row /\ w.value = c.value /\ w.list = c.list
  BY DEF CallRecords0

LEMMA FetchedFits ==
  ASSUME NEW c \in CallRecords0, NEW l \in RowLists, NEW w, w = [c EXCEPT !.at = "ok", !.list = l]
  PROVE  /\ w \in CallRecords0 /\ w.at = "ok" /\ w.clean = c.clean /\ w.kind = c.kind /\ w.panel = c.panel
         /\ w.mount = c.mount /\ w.row = c.row /\ w.value = c.value /\ w.list = l
  BY DEF CallRecords0

LEMMA ReloadFits ==
  ASSUME NEW c \in CallRecords0, NEW b \in BOOLEAN
  PROVE  LET d == [c EXCEPT !.kind = "fetch", !.closes = b]
         IN  /\ d \in CallRecords0 /\ d.kind = "fetch" /\ d.panel = c.panel /\ d.mount = c.mount
             /\ d.row = c.row /\ d.value = c.value /\ d.list = c.list
  BY DEF CallRecords0, CallKinds

\* One request moves on to w.
LEMMA RequestStep ==
  ASSUME NEW q \in Calls, NEW w \in CallRecords0, call \in [Calls -> CallRecords0], call' = [call EXCEPT ![q] = w]
  PROVE  /\ call' \in [Calls -> CallRecords0] /\ call'[q] = w
         /\ \A s \in Calls \ {q} : call'[s] = call[s]
         /\ InFlight' = (IF w.at \in {"idle", "done"} THEN InFlight \ {q} ELSE InFlight \cup {q})
  BY DEF InFlight

\* One is sent, and the others are no longer clean.
LEMMA SentStep ==
  ASSUME NEW q \in Calls, NEW c \in CallRecords0, call \in [Calls -> CallRecords0], Sent(q, c)
  PROVE  /\ call' \in [Calls -> CallRecords0] /\ InFlight' = InFlight \cup {q}
         /\ call'[q].at = "sent" /\ (call'[q].clean <=> InFlight \subseteq {q})
         /\ call'[q].kind = c.kind /\ call'[q].panel = c.panel /\ call'[q].mount = c.mount /\ call'[q].row = c.row
         /\ call'[q].value = c.value /\ call'[q].list = c.list
         /\ \A s \in Calls \ {q} :
              /\ ~call'[s].clean /\ call'[s].at = call[s].at /\ call'[s].kind = call[s].kind
              /\ call'[s].panel = call[s].panel /\ call'[s].mount = call[s].mount /\ call'[s].row = call[s].row
              /\ call'[s].value = call[s].value /\ call'[s].list = call[s].list
  <1>1. PICK b \in BOOLEAN : b <=> InFlight \subseteq {q}
    OBVIOUS
  <1> DEFINE d == [c EXCEPT !.at = "sent", !.clean = b]
             e(s) == [call[s] EXCEPT !.clean = FALSE]
  <1>2. b = (InFlight \subseteq {q})
    BY <1>1
  <1>3. call' = [s \in Calls |-> IF s = q THEN d ELSE e(s)]
    BY <1>2 DEF Sent
  <1>4. /\ d \in CallRecords0 /\ d.at = "sent" /\ d.clean = b /\ d.kind = c.kind /\ d.panel = c.panel
        /\ d.mount = c.mount /\ d.row = c.row /\ d.value = c.value /\ d.list = c.list
    BY MarkedFits
  <1>5. \A s \in Calls :
          /\ e(s) \in CallRecords0 /\ e(s).at = call[s].at /\ ~e(s).clean /\ e(s).kind = call[s].kind
          /\ e(s).panel = call[s].panel /\ e(s).mount = call[s].mount /\ e(s).row = call[s].row
          /\ e(s).value = call[s].value /\ e(s).list = call[s].list
    <2> TAKE s \in Calls
    <2>1. call[s] \in CallRecords0
      OBVIOUS
    <2> QED BY <2>1, MarkedFits
  <1> HIDE DEF d, e
  <1>6. call' \in [Calls -> CallRecords0] /\ call'[q] = d /\ \A s \in Calls \ {q} : call'[s] = e(s)
    BY <1>3, <1>4, <1>5
  <1>7. InFlight' = InFlight \cup {q}
    BY <1>4, <1>5, <1>6 DEF InFlight
  <1> QED BY <1>1, <1>4, <1>5, <1>6, <1>7

LEMMA PresentFits == ASSUME PanelsFit, NEW p \in Panels PROVE Present(p) \in RowLists
  BY DEF PanelsFit, Present, RowLists, Cells

LEMMA InitPanels == PanelsInit => ListPanelsInv
  <1> SUFFICES ASSUME PanelsInit PROVE ListPanelsInv
    OBVIOUS
  <1>1. /\ panel = NoPanel /\ mounts = 0 /\ rows = Rows0 /\ list = Empty /\ loading = FALSE /\ hidden = FALSE
        /\ unsure = FALSE /\ form = NoForm /\ call = [q \in Calls |-> NoCall0]
    BY DEF PanelsInit
  <1>2. call \in [Calls -> CallRecords0] /\ InFlight = {}
    BY <1>1, NoCall0Fits DEF InFlight
  <1>3. rows \in [Panels -> [RowIds -> Cells]]
    BY <1>1, ListPanelsAssumption DEF RowLists, Cells
  <1>4. form \in Forms /\ form.editing = NoRow /\ form.asked = NoRow
    BY <1>1 DEF NoForm, Forms
  <1>5. PanelsFit
    <2>1. mounts \in 0..MaxMounts
      BY <1>1, ListPanelsAssumption
    <2> QED BY <1>1, <1>2, <1>3, <1>4, <2>1, EmptyFits DEF PanelsFit
  <1> QED BY <1>1, <1>2, <1>4, <1>5
        DEF ListPanelsInv, RequestsFit, CleanIsAlone, SureOfTheList, FormFits, SpinnerHasAFetch

\* A step that touches nothing but the form.
LEMMA OnlyTheForm ==
  ASSUME ListPanelsInv, UNCHANGED <<panel, mounts, rows, list, loading, hidden, call, unsure>>,
         form' \in Forms, FormFits'
  PROVE  ListPanelsInv'
  <1>1. PanelsFit'
    BY DEF ListPanelsInv, PanelsFit
  <1>2. InFlight' = InFlight
    BY DEF InFlight
  <1>3. RequestsFit' /\ SpinnerHasAFetch'
    BY <1>2 DEF ListPanelsInv, RequestsFit, RequestFits, SpinnerHasAFetch, Ours
  <1>4. CleanIsAlone'
    BY <1>2 DEF ListPanelsInv, CleanIsAlone, Present
  <1>5. SureOfTheList'
    BY <1>2 DEF ListPanelsInv, SureOfTheList, WillAgree, Present, LocalEdit
  <1> QED BY <1>1, <1>3, <1>4, <1>5 DEF ListPanelsInv

LEMMA TheFormMoves ==
  ASSUME ListPanelsInv,
         \/ \E r \in RowIds : EditRow(r)
         \/ \E v \in RowValues : Type(v)
         \/ \E header \in BOOLEAN : CancelForm(header)
         \/ AddRow
  PROVE  ListPanelsInv'
  <1>0. form \in Forms /\ list \in RowLists /\ panel \in Panels \cup {NoPanel}
    BY DEF ListPanelsInv, PanelsFit
  <1>1. ASSUME NEW r \in RowIds, EditRow(r) PROVE ListPanelsInv'
    <2>1. /\ UNCHANGED <<panel, mounts, rows, list, loading, hidden, call, unsure>>
          /\ form' = [open |-> TRUE, editing |-> r, value |-> list[r], asked |-> r]
      BY <1>1 DEF EditRow
    <2>2. form' \in Forms
      BY <1>0, <2>1 DEF Forms, RowLists
    <2>3. FormFits'
      BY <2>1 DEF FormFits
    <2> QED BY <2>1, <2>2, <2>3, OnlyTheForm
  <1>2. ASSUME NEW v \in RowValues, Type(v) PROVE ListPanelsInv'
    <2>1. UNCHANGED <<panel, mounts, rows, list, loading, hidden, call, unsure>> /\ form' = [form EXCEPT !.value = v]
      BY <1>2 DEF Type
    <2>2. form' \in Forms /\ form'.editing = form.editing /\ form'.asked = form.asked /\ form'.open = form.open
      BY <1>0, <2>1 DEF Forms
    <2>3. FormFits'
      BY <2>1, <2>2 DEF FormFits, ListPanelsInv
    <2> QED BY <2>1, <2>2, <2>3, OnlyTheForm
  <1>3. ASSUME NEW header \in BOOLEAN, CancelForm(header) PROVE ListPanelsInv'
    <2>1. /\ UNCHANGED <<panel, mounts, rows, list, loading, hidden, call, unsure>>
          /\ form' = NoForm \/ (panel = "delivery" /\ form' = [form EXCEPT !.open = FALSE])
      BY <1>3 DEF CancelForm, Cancelled
    <2>2. NoForm \in Forms /\ NoForm.editing = NoRow /\ NoForm.asked = NoRow
      BY DEF NoForm, Forms
    <2>3. form' \in Forms
      BY <1>0, <2>1, <2>2 DEF Forms
    <2>4. FormFits'
      BY <2>1, <2>2 DEF FormFits
    <2> QED BY <2>1, <2>3, <2>4, OnlyTheForm
  <1>4. CASE AddRow
    <2>1. /\ UNCHANGED <<panel, mounts, rows, list, loading, hidden, call, unsure>> /\ ~form.open
          /\ form' = [NoForm EXCEPT !.open = TRUE] \/ form' = [form EXCEPT !.open = TRUE, !.asked = NoRow]
      BY <1>4 DEF AddRow, Added
    <2>2. /\ form' \in Forms /\ form'.asked = NoRow /\ form'.open = TRUE
          /\ form'.editing = NoRow \/ form'.editing = form.editing
      BY <1>0, <2>1 DEF Forms, NoForm
    <2>3. FormFits'
      BY <2>1, <2>2 DEF FormFits, ListPanelsInv
    <2> QED BY <2>1, <2>2, <2>3, OnlyTheForm
  <1> QED BY <1>1, <1>2, <1>3, <1>4

-----------------------------------------------------------------------------
(* The requests.                                                             *)

LEMMA APanelOpens ==
  ASSUME ListPanelsInv, NEW q \in Calls, NEW p \in Panels, Open(q, p)
  PROVE  ListPanelsInv'
  <1> USE DEF ListPanelsInv
  <1> DEFINE c == [NoCall0 EXCEPT !.kind = "fetch", !.panel = p, !.mount = mounts + 1]
  <1>1. /\ mounts < MaxMounts /\ call[q].at = "idle" /\ panel' = p /\ mounts' = mounts + 1 /\ list' = Empty
        /\ loading' = TRUE /\ hidden' = FALSE /\ form' = NoForm /\ Sent(q, c) /\ unsure' = TRUE /\ UNCHANGED rows
    BY DEF Open, Fresh
  <1>2. mounts \in Nat /\ mounts + 1 \in 0..MaxMounts
    BY <1>1, ListPanelsAssumption DEF PanelsFit
  <1>3. c \in CallRecords0 /\ c.kind = "fetch" /\ c.panel = p /\ c.mount = mounts + 1
    BY <1>2, FirstFetchFits
  <1> HIDE DEF c
  <1>4. call \in [Calls -> CallRecords0] /\ q \notin InFlight
    BY <1>1 DEF PanelsFit, InFlight
  <1>5. /\ call' \in [Calls -> CallRecords0] /\ InFlight' = InFlight \cup {q} /\ call'[q].at = "sent"
        /\ (call'[q].clean <=> InFlight \subseteq {q})
        /\ call'[q].kind = "fetch" /\ call'[q].panel = p /\ call'[q].mount = mounts'
        /\ \A s \in Calls \ {q} :
             /\ ~call'[s].clean /\ call'[s].kind = call[s].kind
             /\ call'[s].panel = call[s].panel /\ call'[s].mount = call[s].mount /\ call'[s].row = call[s].row
             /\ call'[s].value = call[s].value
    BY <1>1, <1>3, <1>4, SentStep
  <1>6. NoForm \in Forms /\ NoForm.editing = NoRow /\ NoForm.asked = NoRow
    BY DEF NoForm, Forms
  <1>7. PanelsFit'
    BY <1>1, <1>2, <1>5, <1>6, EmptyFits DEF PanelsFit
  <1>8. RequestsFit'
    <2> SUFFICES ASSUME NEW s \in InFlight' PROVE RequestFits(call[s])'
      BY DEF RequestsFit
    <2>1. CASE s = q
      BY <1>1, <1>2, <1>5, <2>1 DEF RequestFits
    <2>2. CASE s # q
      <3>1. s \in InFlight /\ s \in Calls \ {q}
        BY <1>5, <2>2 DEF InFlight
      <3>2. RequestFits(call[s]) /\ call[s].mount \in Nat
        BY <1>4, <3>1, ListPanelsAssumption DEF RequestsFit, CallRecords0
      <3> QED BY <1>1, <1>2, <1>5, <3>1, <3>2 DEF RequestFits
    <2> QED BY <2>1, <2>2
  <1>9. CleanIsAlone'
    BY <1>4, <1>5 DEF CleanIsAlone, InFlight
  <1>10. SureOfTheList' /\ FormFits'
    BY <1>1, <1>6 DEF SureOfTheList, FormFits
  <1>11. SpinnerHasAFetch'
    BY <1>5 DEF SpinnerHasAFetch, Ours
  <1> QED BY <1>7, <1>8, <1>9, <1>10, <1>11

LEMMA AWriteIsAsked ==
  ASSUME ListPanelsInv, NEW q \in Calls, NEW kind \in CallKinds \ {"fetch"}, NEW row \in RowIds \cup {NoRow},
         NEW value \in RowValues \cup {Unborn}, Request(q, kind, row, value), panel \in Panels,
         kind \in {"update", "change", "delete"} => row \in RowIds,
         kind \in {"create", "update", "change"} => value \in RowValues,
         UNCHANGED <<panel, mounts, rows, list, loading, hidden, form>>
  PROVE  ListPanelsInv'
  <1> USE DEF ListPanelsInv
  <1> DEFINE c == [NoCall0 EXCEPT !.kind = kind, !.panel = panel, !.mount = mounts, !.row = row, !.value = value,
                                  !.list = list]
  <1>1. /\ call[q].at = "idle" /\ Sent(q, c) /\ unsure' \in BOOLEAN /\ (unsure' <=> unsure \/ InFlight # {})
    BY DEF Request, Fresh
  <1>2. mounts \in 0..MaxMounts /\ mounts \in Nat /\ list \in RowLists /\ call \in [Calls -> CallRecords0]
    BY ListPanelsAssumption DEF PanelsFit
  <1>3. /\ c \in CallRecords0 /\ c.kind = kind /\ c.panel = panel /\ c.mount = mounts /\ c.row = row /\ c.value = value
        /\ c.list = list
    <2>1. kind \in CallKinds
      OBVIOUS
    <2>2. c = [NoCall0 EXCEPT !.kind = kind, !.panel = panel, !.mount = mounts, !.row = row, !.value = value,
                              !.list = list]
      OBVIOUS
    <2> HIDE DEF c
    <2>3. panel \in Panels /\ mounts \in 0..MaxMounts /\ list \in RowLists /\ row \in RowIds \cup {NoRow}
          /\ value \in RowValues \cup {Unborn}
      BY <1>2
    <2>4. c \in CallRecords0
      BY <2>1, <2>2, <2>3 DEF NoCall0, CallRecords0
    <2>5. c.kind = kind /\ c.panel = panel /\ c.mount = mounts /\ c.row = row /\ c.value = value /\ c.list = list
      BY <2>2 DEF NoCall0
    <2> QED BY <2>4, <2>5
  <1> HIDE DEF c
  <1>4. q \notin InFlight
    BY <1>1 DEF InFlight
  <1>5. /\ call' \in [Calls -> CallRecords0] /\ InFlight' = InFlight \cup {q} /\ call'[q].at = "sent"
        /\ (call'[q].clean <=> InFlight \subseteq {q})
        /\ call'[q].kind = kind /\ call'[q].panel = panel /\ call'[q].mount = mounts /\ call'[q].row = row
        /\ call'[q].value = value /\ call'[q].list = list
        /\ \A s \in Calls \ {q} :
             /\ ~call'[s].clean /\ call'[s].kind = call[s].kind
             /\ call'[s].panel = call[s].panel /\ call'[s].mount = call[s].mount /\ call'[s].row = call[s].row
             /\ call'[s].value = call[s].value
    BY <1>1, <1>2, <1>3, SentStep
  <1>6. PanelsFit'
    BY <1>1, <1>5 DEF PanelsFit
  <1>7. RequestsFit'
    <2> SUFFICES ASSUME NEW s \in InFlight' PROVE RequestFits(call[s])'
      BY DEF RequestsFit
    <2>1. CASE s = q
      BY <1>2, <1>5, <2>1 DEF RequestFits
    <2>2. CASE s # q
      <3>1. s \in InFlight /\ s \in Calls \ {q}
        BY <1>5, <2>2 DEF InFlight
      <3> QED BY <1>5, <3>1 DEF RequestFits, RequestsFit
    <2> QED BY <2>1, <2>2
  <1>8. CleanIsAlone'
    BY <1>4, <1>5 DEF CleanIsAlone, InFlight
  <1>9. SureOfTheList'
    <2> SUFFICES ASSUME ~unsure, InFlight = {} PROVE SureOfTheList'
      BY <1>1 DEF SureOfTheList
    <2>1. list = Present(panel)
      BY ListPanelsAssumption DEF SureOfTheList
    <2>2. InFlight' = {q} /\ Present(panel)' = Present(panel)
      BY <1>5 DEF Present
    <2>3. WillAgree(call[q])'
      BY <1>5, <2>1, <2>2 DEF WillAgree
    <2> QED BY <2>2, <2>3 DEF SureOfTheList
  <1>10. FormFits'
    BY DEF FormFits
  <1>11. SpinnerHasAFetch'
    BY <1>4, <1>5 DEF SpinnerHasAFetch, Ours, InFlight
  <1> QED BY <1>6, <1>7, <1>8, <1>9, <1>10, <1>11

LEMMA AButtonIsPressed ==
  ASSUME ListPanelsInv, NEW q \in Calls, NEW r \in RowIds, Press(q, r)
  PROVE  ListPanelsInv'
  <1>1. panel \in Panels /\ list[r] \in RowValues
    BY DEF Press, ShowsList, ListPanelsInv, PanelsFit, RowLists
  <1>2. PICK b \in Buttons(panel, list[r]) : Request(q, b.kind, r, b.value)
    BY DEF Press
  <1>3. /\ b.kind \in {"change", "delete"} /\ b.value \in RowValues \cup {Unborn}
        /\ b.kind = "change" => b.value \in RowValues
    BY <1>1, <1>2, ListPanelsAssumption
       DEF Buttons, DeliveryRow, CategoryRow, BrandRow, ProductRow, OrderRow, ReviewRow, UserRow, AddressRow, Delete,
           ChangeTo
  <1>4. UNCHANGED <<panel, mounts, rows, list, loading, hidden, form>>
    BY DEF Press
  <1> QED BY <1>1, <1>2, <1>3, <1>4, AWriteIsAsked DEF CallKinds

LEMMA AFormIsSaved ==
  ASSUME ListPanelsInv, NEW q \in Calls, Submit(q)
  PROVE  ListPanelsInv'
  <1>1. panel \in Panels /\ form \in Forms
    BY DEF Submit, ShowsForm, ListPanelsInv, PanelsFit
  <1>2. PICK kind \in {"create", "update"} : /\ kind = IF form.editing = NoRow THEN "create" ELSE "update"
                                            /\ Request(q, kind, form.editing, form.value)
    BY DEF Submit
  <1>3. form.editing \in RowIds \cup {NoRow} /\ form.value \in RowValues
    BY <1>1 DEF Submit, Forms
  <1>4. kind = "update" => form.editing \in RowIds
    BY <1>2, <1>3
  <1>5. UNCHANGED <<panel, mounts, rows, list, loading, hidden, form>>
    BY DEF Submit
  <1> QED BY <1>1, <1>2, <1>3, <1>4, <1>5, AWriteIsAsked DEF CallKinds

-----------------------------------------------------------------------------
(* The server.                                                               *)

\* A write to a row shows in the list as the button's own edit of it.
LEMMA AWriteShows ==
  ASSUME PanelsFit, NEW p \in Panels, NEW r \in RowIds, NEW v \in RowValues \cup {Gone0},
         rows' = [rows EXCEPT ![p][r] = v]
  PROVE  /\ rows' \in [Panels -> [RowIds -> Cells]]
         /\ Present(p)' = [Present(p) EXCEPT ![r] = IF v = Gone0 THEN Unborn ELSE v]
  <1> DEFINE row == [rows[p] EXCEPT ![r] = v]
  <1>1. rows \in [Panels -> [RowIds -> Cells]] /\ v \in Cells
    BY DEF PanelsFit, Cells
  <1>2. row \in [RowIds -> Cells] /\ row[r] = v /\ \A s \in RowIds \ {r} : row[s] = rows[p][s]
    BY <1>1
  <1>3. rows' = [rows EXCEPT ![p] = row]
    BY <1>1
  <1> HIDE DEF row
  <1>4. rows' \in [Panels -> [RowIds -> Cells]] /\ rows'[p] = row
    BY <1>1, <1>2, <1>3
  <1>5. Gone0 \notin RowValues
    BY ListPanelsAssumption DEF Gone0
  <1>6. \A s \in RowIds : (IF row[s] \in RowValues THEN row[s] ELSE Unborn)
                             = [Present(p) EXCEPT ![r] = IF v = Gone0 THEN Unborn ELSE v][s]
    BY <1>2, <1>5 DEF Present
  <1> QED BY <1>4, <1>6 DEF Present

LEMMA ARequestIsServed ==
  ASSUME ListPanelsInv, NEW q \in Calls, Serve(q)
  PROVE  ListPanelsInv'
  <1> USE DEF ListPanelsInv
  <1>0. PICK c \in CallRecords0 : c = call[q]
    BY DEF PanelsFit
  <1>1. c.at = "sent" /\ q \in InFlight /\ RequestFits(c) /\ call \in [Calls -> CallRecords0]
    BY <1>0 DEF Serve, PanelsFit, InFlight, RequestsFit
  <1>2. UNCHANGED <<panel, mounts, list, loading, hidden, form, unsure>>
    BY DEF Serve
  <1>3. PICK w \in CallRecords0 :
          /\ call' = [call EXCEPT ![q] = w] /\ w.at \in {"ok", "failed"} /\ w.clean = c.clean /\ w.kind = c.kind
          /\ w.panel = c.panel /\ w.mount = c.mount /\ w.row = c.row /\ w.value = c.value
          /\ \/ w.kind = "fetch" /\ w.at = "ok" /\ w.list = Present(c.panel) /\ UNCHANGED rows
             \/ w.kind # "fetch" /\ w.at = "failed" /\ w.list = c.list /\ UNCHANGED rows
             \/ /\ w.kind # "fetch" /\ w.at = "ok" /\ w.list = c.list
                /\ \/ w.kind = "create" /\ \E r \in RowIds : Put(c.panel, r, c.value)
                   \/ w.kind \in {"update", "change"} /\ Put(c.panel, c.row, c.value)
                   \/ w.kind = "delete" /\ Put(c.panel, c.row, Gone0)
    <2>1. CASE c.kind = "fetch"
      <3>1. call' = [call EXCEPT ![q].at = "ok", ![q].list = Present(c.panel)] /\ UNCHANGED rows
        BY <1>0, <2>1 DEF Serve
      <3> DEFINE w == [c EXCEPT !.at = "ok", !.list = Present(c.panel)]
      <3>2. call' = [call EXCEPT ![q] = w]
        BY <1>0, <1>1, <3>1
      <3>3. Present(c.panel) \in RowLists
        BY <1>1, PresentFits DEF RequestFits
      <3>4. /\ w \in CallRecords0 /\ w.at = "ok" /\ w.clean = c.clean /\ w.kind = c.kind /\ w.panel = c.panel
            /\ w.mount = c.mount /\ w.row = c.row /\ w.value = c.value /\ w.list = Present(c.panel)
        <4>1. PICK l \in RowLists : l = Present(c.panel)
          BY <3>3
        <4>2. w = [c EXCEPT !.at = "ok", !.list = l]
          BY <4>1
        <4> HIDE DEF w
        <4>3. /\ w \in CallRecords0 /\ w.at = "ok" /\ w.clean = c.clean /\ w.kind = c.kind /\ w.panel = c.panel
              /\ w.mount = c.mount /\ w.row = c.row /\ w.value = c.value /\ w.list = l
          BY <4>2 DEF CallRecords0
        <4> QED BY <4>1, <4>3
      <3> HIDE DEF w
      <3> QED BY <2>1, <3>1, <3>2, <3>4
    <2>2. CASE c.kind # "fetch"
      <3>1. PICK at \in {"ok", "failed"} :
              /\ call' = [call EXCEPT ![q].at = at]
              /\ \/ at = "failed" /\ UNCHANGED rows
                 \/ /\ at = "ok"
                    /\ \/ c.kind = "create" /\ \E r \in RowIds : Put(c.panel, r, c.value)
                       \/ c.kind \in {"update", "change"} /\ Put(c.panel, c.row, c.value)
                       \/ c.kind = "delete" /\ Put(c.panel, c.row, Gone0)
        BY <1>0, <2>2 DEF Serve
      <3> DEFINE w == [c EXCEPT !.at = at]
      <3>2. call' = [call EXCEPT ![q] = w]
        BY <1>0, <1>1, <3>1
      <3>3. /\ w \in CallRecords0 /\ w.at = at /\ w.clean = c.clean /\ w.kind = c.kind /\ w.panel = c.panel
            /\ w.mount = c.mount /\ w.row = c.row /\ w.value = c.value /\ w.list = c.list
        <4>1. w = [c EXCEPT !.at = at]
          OBVIOUS
        <4> HIDE DEF w
        <4> QED BY <1>1, <4>1, ServedFits
      <3> HIDE DEF w
      <3> QED BY <2>2, <3>1, <3>2, <3>3
    <2> QED BY <2>1, <2>2
  <1>4. /\ call' \in [Calls -> CallRecords0] /\ call'[q] = w /\ InFlight' = InFlight
        /\ \A s \in Calls \ {q} : call'[s] = call[s]
    <2>1. InFlight' = InFlight \cup {q}
      BY <1>1, <1>3, RequestStep
    <2> QED BY <1>1, <1>3, <2>1, RequestStep
  <1>5. c.panel \in Panels /\ c.kind \in CallKinds /\ c = call[q]
    BY <1>0, <1>1 DEF RequestFits, CallRecords0
  <1>6. /\ rows' \in [Panels -> [RowIds -> Cells]]
        /\ w.at = "ok" /\ w.kind \in {"change", "delete"} => Present(c.panel)' = [Present(c.panel) EXCEPT ![c.row] = IF c.kind = "delete" THEN Unborn ELSE c.value]
    <2>1. CASE UNCHANGED rows /\ (w.kind = "fetch" \/ w.at = "failed")
      BY <1>3, <2>1 DEF PanelsFit
    <2>2. ASSUME NEW r \in RowIds, Put(c.panel, r, c.value), c.value \in RowValues
          PROVE  /\ rows' \in [Panels -> [RowIds -> Cells]]
                 /\ Present(c.panel)' = [Present(c.panel) EXCEPT ![r] = c.value]
      <3>1. c.value # Gone0
        BY <2>2, ListPanelsAssumption DEF Gone0
      <3>2. rows' = [rows EXCEPT ![c.panel][r] = c.value]
        BY <2>2 DEF Put
      <3>3. PICK p \in Panels, v \in RowValues : p = c.panel /\ v = c.value
        BY <1>5, <2>2
      <3>4. v # Gone0 /\ v \in RowValues \cup {Gone0} /\ rows' = [rows EXCEPT ![p][r] = v]
        BY <3>1, <3>2, <3>3
      <3>5. /\ rows' \in [Panels -> [RowIds -> Cells]]
            /\ Present(p)' = [Present(p) EXCEPT ![r] = IF v = Gone0 THEN Unborn ELSE v]
        BY <3>4, AWriteShows
      <3> QED BY <3>3, <3>4, <3>5
    <2>3. ASSUME NEW r \in RowIds, Put(c.panel, r, Gone0)
          PROVE  /\ rows' \in [Panels -> [RowIds -> Cells]]
                 /\ Present(c.panel)' = [Present(c.panel) EXCEPT ![r] = Unborn]
      <3>1. rows' = [rows EXCEPT ![c.panel][r] = Gone0]
        BY <2>3 DEF Put
      <3> QED BY <1>5, <3>1, AWriteShows
    <2>4. CASE w.kind = "create" /\ \E r \in RowIds : Put(c.panel, r, c.value)
      BY <1>1, <1>3, <2>2, <2>4 DEF RequestFits
    <2>5. CASE w.kind \in {"update", "change"} /\ Put(c.panel, c.row, c.value)
      BY <1>1, <1>3, <2>2, <2>5 DEF RequestFits
    <2>6. CASE w.kind = "delete" /\ Put(c.panel, c.row, Gone0)
      BY <1>1, <1>3, <2>3, <2>6 DEF RequestFits
    <2> QED BY <1>3, <2>1, <2>4, <2>5, <2>6
  <1>7. PanelsFit'
    BY <1>2, <1>4, <1>6 DEF PanelsFit
  <1>8. RequestsFit'
    <2>1. RequestFits(w)'
      BY <1>1, <1>2, <1>3 DEF RequestFits
    <2> QED BY <1>2, <1>4, <2>1 DEF RequestsFit, RequestFits, InFlight
  <1>9. CleanIsAlone'
    <2> SUFFICES ASSUME NEW s \in InFlight', call'[s].clean
                 PROVE  /\ InFlight' = {s}
                        /\ call'[s].kind = "fetch" /\ call'[s].at = "ok" => call'[s].list = Present(call[s].panel)'
      BY DEF CleanIsAlone
    <2>1. call[s].clean /\ s \in InFlight
      BY <1>3, <1>4, <1>5 DEF InFlight
    <2>2. s = q /\ InFlight' = {s}
      BY <1>1, <1>4, <2>1 DEF CleanIsAlone
    <2>3. w.kind = "fetch" => Present(w.panel)' = Present(c.panel) /\ w.list = Present(c.panel)
      BY <1>3 DEF Present
    <2> QED BY <1>4, <2>2, <2>3
  <1>10. SureOfTheList'
    <2> SUFFICES ASSUME ~unsure, panel # NoPanel PROVE SureOfTheList'
      BY <1>2 DEF SureOfTheList
    <2>1. InFlight = {q} /\ WillAgree(c)
      BY <1>1, <1>5 DEF SureOfTheList
    <2>2. c.panel = panel
      BY <1>1, <2>1 DEF RequestFits, WillAgree
    <2>3. w.kind # "fetch" /\ w.at = "failed" => list' = Present(panel)'
      BY <1>1, <1>2, <1>3, <1>5, <2>1 DEF WillAgree, Present
    <2>4. w.kind \in {"change", "delete"} /\ w.at = "ok" => LocalEdit(w)' = Present(panel)'
      BY <1>1, <1>2, <1>3, <1>5, <1>6, <2>1, <2>2 DEF WillAgree, LocalEdit
    <2>5. WillAgree(w)'
      BY <1>2, <1>3, <2>1, <2>3, <2>4 DEF WillAgree
    <2> QED BY <1>4, <2>1, <2>5 DEF SureOfTheList, WillAgree, Present
  <1>11. FormFits'
    BY <1>2 DEF FormFits
  <1>12. SpinnerHasAFetch'
    BY <1>2, <1>3, <1>4, <1>5 DEF SpinnerHasAFetch, Ours, InFlight
  <1> QED BY <1>7, <1>8, <1>9, <1>10, <1>11, <1>12

LEMMA ARequestIsLost ==
  ASSUME ListPanelsInv, NEW q \in Calls, Lose(q)
  PROVE  ListPanelsInv'
  <1> USE DEF ListPanelsInv
  <1> DEFINE w == [call[q] EXCEPT !.at = "failed"]
  <1>1. call[q] \in CallRecords0 /\ q \in InFlight /\ call \in [Calls -> CallRecords0]
    BY DEF Lose, PanelsFit, InFlight
  <1>2. call' = [call EXCEPT ![q] = w] /\ unsure' = TRUE /\ UNCHANGED <<panel, mounts, rows, list, loading, hidden, form>>
    BY DEF Lose
  <1>3. /\ w \in CallRecords0 /\ w.at = "failed" /\ w.clean = call[q].clean /\ w.kind = call[q].kind
        /\ w.panel = call[q].panel /\ w.mount = call[q].mount /\ w.row = call[q].row /\ w.value = call[q].value
    <2>1. w = [call[q] EXCEPT !.at = "failed"]
      OBVIOUS
    <2> HIDE DEF w
    <2> QED BY <1>1, <2>1, ServedFits
  <1> HIDE DEF w
  <1>4. InFlight' = InFlight \cup {q} /\ call'[q] = w
    BY <1>1, <1>2, <1>3, RequestStep
  <1>5. /\ call' \in [Calls -> CallRecords0] /\ call'[q] = w /\ InFlight' = InFlight
        /\ \A s \in Calls \ {q} : call'[s] = call[s]
    BY <1>1, <1>2, <1>3, <1>4, RequestStep
  <1>6. PanelsFit'
    BY <1>2, <1>5 DEF PanelsFit
  <1>7. RequestsFit' /\ SpinnerHasAFetch'
    BY <1>2, <1>3, <1>5 DEF RequestsFit, RequestFits, SpinnerHasAFetch, Ours, InFlight
  <1>8. CleanIsAlone'
    BY <1>2, <1>3, <1>5 DEF CleanIsAlone, Present, InFlight
  <1>9. SureOfTheList' /\ FormFits'
    BY <1>2 DEF SureOfTheList, FormFits
  <1> QED BY <1>6, <1>7, <1>8, <1>9

-----------------------------------------------------------------------------
(* The handlers.                                                             *)

\* A request that is answered, and leaves the rows to the server.
LEMMA ARequestEnds ==
  ASSUME ListPanelsInv, NEW q \in InFlight, call' = [call EXCEPT ![q] = Answered], UNCHANGED <<panel, mounts, rows>>
  PROVE  /\ call' \in [Calls -> CallRecords0] /\ InFlight' = InFlight \ {q}
         /\ \A s \in Calls \ {q} : call'[s] = call[s]
         /\ RequestsFit' /\ CleanIsAlone'
  <1> USE DEF ListPanelsInv
  <1>1. q \in Calls /\ call \in [Calls -> CallRecords0]
    BY DEF InFlight, PanelsFit
  <1>2. /\ call' \in [Calls -> CallRecords0] /\ \A s \in Calls \ {q} : call'[s] = call[s]
        /\ call'[q].at = "done"
    BY <1>1, AnsweredFits, RequestStep
  <1>3. InFlight' = InFlight \ {q}
    BY <1>1, <1>2 DEF InFlight
  <1>4. RequestsFit'
    BY <1>1, <1>2, <1>3 DEF RequestsFit, RequestFits, InFlight
  <1>5. CleanIsAlone'
    BY <1>1, <1>2, <1>3 DEF CleanIsAlone, Present, InFlight
  <1> QED BY <1>2, <1>3, <1>4, <1>5

\* A handler edits the list for a change or a deletion alone.
LEMMA OnlyOtherWritesEdit ==
  ASSUME NEW c \in CallRecords0, c.panel \in Panels, c.kind # "fetch", AfterWrite(c) = "local"
  PROVE  c.kind \in {"change", "delete"} /\ ~Saves(c)
  <1>1. Traits(c.panel).save \in {"await", "start", "none"}
    BY ListPanelsAssumption DEF Traits, DeliveryOptions, CategoriesSection, BrandsSection, ProductManagement,
       OrderManagement, ReviewManagement, UserManagement, AddressBook
  <1> QED BY <1>1 DEF AfterWrite, Saves, CallRecords0, CallKinds

LEMMA AWriteIsAnswered ==
  ASSUME ListPanelsInv, NEW q \in Calls, WriteAnswered(q)
  PROVE  ListPanelsInv'
  <1> USE DEF ListPanelsInv
  <1>0. PICK c \in CallRecords0 : c = call[q]
    BY DEF PanelsFit
  <1>1. /\ c.at = "ok" /\ c.kind # "fetch" /\ c.mount = mounts /\ q \in InFlight /\ call \in [Calls -> CallRecords0]
        /\ RequestFits(c) /\ UNCHANGED <<panel, mounts, rows, hidden, unsure>>
    BY <1>0 DEF WriteAnswered, Ours, PanelsFit, InFlight, RequestsFit
  <1>2. c.panel = panel /\ panel \in Panels
    BY <1>1 DEF RequestFits
  <1>3. NoForm \in Forms /\ NoForm.editing = NoRow /\ NoForm.asked = NoRow
    BY DEF NoForm, Forms
  <1>4. form' \in {form, NoForm}
    BY DEF WriteAnswered
  <1>5. form' \in Forms /\ FormFits'
    BY <1>1, <1>3, <1>4 DEF PanelsFit, FormFits
  <1>6. ~unsure => InFlight = {q} /\ WillAgree(c)
    BY <1>0, <1>1, <1>2, ListPanelsAssumption DEF SureOfTheList
  <1>7. CASE AfterWrite(c) = "local"
    <2>1. list' = LocalEdit(c) /\ call' = [call EXCEPT ![q] = Answered] /\ UNCHANGED loading
      BY <1>0, <1>7 DEF WriteAnswered
    <2>2. /\ call' \in [Calls -> CallRecords0] /\ InFlight' = InFlight \ {q} /\ RequestsFit' /\ CleanIsAlone'
          /\ \A s \in Calls \ {q} : call'[s] = call[s]
      BY <1>1, <2>1, ARequestEnds
    <2>3. c.kind \in {"change", "delete"}
      BY <1>1, <1>2, <1>7, OnlyOtherWritesEdit
    <2>4. list' \in RowLists
      BY <2>1 DEF LocalEdit, CallRecords0, RowLists
    <2>5. PanelsFit'
      BY <1>1, <1>5, <2>1, <2>2, <2>4 DEF PanelsFit
    <2>6. SureOfTheList'
      <3> SUFFICES ASSUME ~unsure PROVE SureOfTheList'
        BY <1>1 DEF SureOfTheList
      <3>1. InFlight' = {} /\ LocalEdit(c) = Present(panel)
        BY <1>1, <1>6, <2>2, <2>3 DEF WillAgree
      <3> QED BY <1>1, <2>1, <3>1 DEF SureOfTheList, Present
    <2>7. SpinnerHasAFetch'
      BY <1>0, <1>1, <2>1, <2>2 DEF SpinnerHasAFetch, Ours, InFlight
    <2> QED BY <1>5, <2>2, <2>5, <2>6, <2>7
  <1>8. CASE AfterWrite(c) # "local"
    <2>1. PICK b \in BOOLEAN : b <=> Closes(c, "after")
      OBVIOUS
    <2>2. b = Closes(c, "after")
      BY <2>1 DEF Closes
    <2> DEFINE d == [c EXCEPT !.kind = "fetch", !.closes = b]
    <2>3. /\ Sent(q, d) /\ (loading' <=> loading \/ panel = "addresses") /\ loading' \in BOOLEAN /\ UNCHANGED list
      BY <1>0, <1>8, <2>2 DEF WriteAnswered
    <2>4. d \in CallRecords0 /\ d.kind = "fetch" /\ d.panel = panel /\ d.mount = mounts
      BY <1>1, <1>2, ReloadFits
    <2> HIDE DEF d
    <2>5. /\ call' \in [Calls -> CallRecords0] /\ InFlight' = InFlight /\ call'[q].at = "sent"
          /\ (call'[q].clean <=> InFlight \subseteq {q}) /\ call'[q].kind = "fetch" /\ call'[q].panel = panel
          /\ call'[q].mount = mounts
          /\ \A s \in Calls \ {q} :
               /\ ~call'[s].clean /\ call'[s].kind = call[s].kind
               /\ call'[s].panel = call[s].panel /\ call'[s].mount = call[s].mount /\ call'[s].row = call[s].row
               /\ call'[s].value = call[s].value
      <3>1. InFlight' = InFlight \cup {q}
        BY <1>1, <2>3, <2>4, SentStep
      <3>2. InFlight' = InFlight
        BY <1>1, <3>1
      <3>3. /\ call' \in [Calls -> CallRecords0] /\ call'[q].at = "sent"
            /\ (call'[q].clean <=> InFlight \subseteq {q}) /\ call'[q].kind = d.kind /\ call'[q].panel = d.panel
            /\ call'[q].mount = d.mount
        BY <1>1, <2>3, <2>4, SentStep
      <3>4. \A s \in Calls \ {q} :
               /\ ~call'[s].clean /\ call'[s].kind = call[s].kind
               /\ call'[s].panel = call[s].panel /\ call'[s].mount = call[s].mount /\ call'[s].row = call[s].row
               /\ call'[s].value = call[s].value
        BY <1>1, <2>3, <2>4, SentStep
      <3> QED BY <2>4, <3>2, <3>3, <3>4
    <2>6. PanelsFit'
      BY <1>1, <1>5, <2>3, <2>5 DEF PanelsFit
    <2>7. RequestsFit'
      <3> SUFFICES ASSUME NEW s \in InFlight' PROVE RequestFits(call[s])'
        BY DEF RequestsFit
      <3>1. CASE s = q
        BY <1>1, <1>2, <2>5, <3>1 DEF RequestFits, PanelsFit
      <3>2. CASE s # q
        <4>1. s \in InFlight /\ s \in Calls \ {q}
          BY <2>5, <3>2 DEF InFlight
        <4> QED BY <1>1, <2>5, <4>1 DEF RequestFits, RequestsFit
      <3> QED BY <3>1, <3>2
    <2>8. CleanIsAlone'
      BY <1>1, <2>5 DEF CleanIsAlone, InFlight
    <2>9. SureOfTheList'
      <3> SUFFICES ASSUME ~unsure PROVE SureOfTheList'
        BY <1>1 DEF SureOfTheList
      <3>1. InFlight' = {q} /\ WillAgree(call[q])'
        BY <1>1, <1>6, <2>5 DEF WillAgree
      <3> QED BY <3>1 DEF SureOfTheList
    <2>10. SpinnerHasAFetch'
      BY <1>1, <2>5 DEF SpinnerHasAFetch, Ours
    <2> QED BY <1>5, <2>6, <2>7, <2>8, <2>9, <2>10
  <1> QED BY <1>7, <1>8

LEMMA AFetchIsAnswered ==
  ASSUME ListPanelsInv, NEW q \in Calls, FetchAnswered(q)
  PROVE  ListPanelsInv'
  <1> USE DEF ListPanelsInv
  <1>0. PICK c \in CallRecords0 : c = call[q]
    BY DEF PanelsFit
  <1>1. /\ c.at \in {"ok", "failed"} /\ c.kind = "fetch" /\ c.mount = mounts /\ q \in InFlight
        /\ call \in [Calls -> CallRecords0] /\ RequestFits(c)
    BY <1>0 DEF FetchAnswered, Ours, PanelsFit, InFlight, RequestsFit
  <1>2. /\ UNCHANGED <<panel, mounts, rows>> /\ loading' = FALSE /\ form' \in {form, NoForm}
        /\ call' = [call EXCEPT ![q] = Answered]
        /\ \/ /\ c.at = "ok" /\ list' = c.list /\ (unsure' <=> unsure /\ ~c.clean) /\ unsure' \in BOOLEAN /\ UNCHANGED hidden
           \/ c.at = "failed" /\ hidden' \in BOOLEAN /\ unsure' = TRUE /\ UNCHANGED list
    BY <1>0 DEF FetchAnswered
  <1>3. c.panel = panel /\ panel \in Panels
    BY <1>1 DEF RequestFits
  <1>4. NoForm \in Forms /\ NoForm.editing = NoRow /\ NoForm.asked = NoRow
    BY DEF NoForm, Forms
  <1>5. form' \in Forms /\ FormFits'
    BY <1>2, <1>4 DEF PanelsFit, FormFits
  <1>6. call' \in [Calls -> CallRecords0] /\ InFlight' = InFlight \ {q} /\ RequestsFit' /\ CleanIsAlone'
    BY <1>1, <1>2, ARequestEnds
  <1>7. PanelsFit'
    BY <1>2, <1>5, <1>6 DEF PanelsFit, CallRecords0
  <1>8. SureOfTheList'
    <2> SUFFICES ASSUME ~unsure' PROVE SureOfTheList'
      BY DEF SureOfTheList
    <2>1. c.at = "ok" /\ list' = c.list /\ (~unsure \/ c.clean)
      BY <1>2
    <2>2. c.clean
      BY <1>0, <1>1, <1>3, <2>1, ListPanelsAssumption DEF SureOfTheList, WillAgree
    <2>3. InFlight = {q} /\ c.list = Present(panel)
      BY <1>0, <1>1, <1>3, <2>1, <2>2 DEF CleanIsAlone
    <2>4. InFlight' = {} /\ list' = Present(panel)'
      BY <1>2, <1>6, <2>1, <2>3 DEF Present
    <2> QED BY <2>4 DEF SureOfTheList
  <1>9. SpinnerHasAFetch'
    BY <1>2 DEF SpinnerHasAFetch
  <1> QED BY <1>5, <1>6, <1>7, <1>8, <1>9

LEMMA AnAnswerChangesNothing ==
  ASSUME ListPanelsInv, NEW q \in Calls, WriteRefused(q) \/ AnsweredLate(q)
  PROVE  ListPanelsInv'
  <1> USE DEF ListPanelsInv
  <1>1. /\ q \in InFlight /\ call' = [call EXCEPT ![q] = Answered]
        /\ UNCHANGED <<panel, mounts, rows, list, loading, hidden, form, unsure>>
        /\ \/ Ours(q) /\ call[q].at = "failed" /\ call[q].kind # "fetch"
           \/ ~Ours(q)
    BY DEF WriteRefused, AnsweredLate, InFlight
  <1>2. /\ call' \in [Calls -> CallRecords0] /\ InFlight' = InFlight \ {q} /\ RequestsFit' /\ CleanIsAlone'
        /\ \A s \in Calls \ {q} : call'[s] = call[s]
    BY <1>1, ARequestEnds
  <1>3. PanelsFit'
    BY <1>1, <1>2 DEF PanelsFit
  <1>4. SureOfTheList'
    <2> SUFFICES ASSUME ~unsure, panel # NoPanel PROVE SureOfTheList'
      BY <1>1 DEF SureOfTheList
    <2>1. InFlight = {q} /\ WillAgree(call[q])
      BY <1>1 DEF SureOfTheList
    <2>2. InFlight' = {} /\ list = Present(panel)
      BY <1>1, <1>2, <2>1 DEF WillAgree, Ours
    <2> QED BY <1>1, <2>2 DEF SureOfTheList, Present
  <1>5. FormFits'
    BY <1>1 DEF FormFits
  <1>6. SpinnerHasAFetch'
    BY <1>1, <1>2 DEF SpinnerHasAFetch, Ours, InFlight
  <1> QED BY <1>2, <1>3, <1>4, <1>5, <1>6

-----------------------------------------------------------------------------
LEMMA StepPanels == ListPanelsInv /\ [PanelsNext]_panelVars => ListPanelsInv'
  <1> SUFFICES ASSUME ListPanelsInv, [PanelsNext]_panelVars PROVE ListPanelsInv'
    OBVIOUS
  <1>1. CASE UNCHANGED panelVars
    <2>1. UNCHANGED <<panel, mounts, rows, list, loading, hidden, call, unsure>> /\ form' = form
      BY <1>1 DEF panelVars
    <2>2. form' \in Forms /\ FormFits'
      BY <2>1 DEF ListPanelsInv, PanelsFit, FormFits
    <2> QED BY <2>1, <2>2, OnlyTheForm
  <1>2. CASE PanelsNext
    BY <1>2, TheFormMoves, APanelOpens, AButtonIsPressed, AFormIsSaved, ARequestIsServed, ARequestIsLost,
       AWriteIsAnswered, AFetchIsAnswered, AnAnswerChangesNothing DEF PanelsNext
  <1> QED BY <1>1, <1>2

\* At rest a panel shows what the server has, whether its handlers reload the list or edit the one they
\* captured, unless requests overlapped or one was lost; its form saves to the row that opened it; and
\* its spinner turns for a fetch that will be answered.
THEOREM ThePanelsAgreeWithTheServer == PanelsSpec => [](ListPanelsTypeOK /\ PanelsAgreeWithTheServer)
  <1>1. ListPanelsInv => ListPanelsTypeOK
    BY DEF ListPanelsInv, PanelsFit, ListPanelsTypeOK, CallRecords0
  <1>2. ListPanelsInv => PanelsAgreeWithTheServer
    <2> SUFFICES ASSUME ListPanelsInv PROVE SettledListIsTheServers /\ FormSavesWhatItShows
      BY DEF ListPanelsInv, PanelsAgreeWithTheServer
    <2>1. SettledListIsTheServers
      BY DEF ListPanelsInv, SettledListIsTheServers, ShowsList, SureOfTheList
    <2>2. FormSavesWhatItShows
      BY DEF ListPanelsInv, FormSavesWhatItShows, FormFits
    <2> QED BY <2>1, <2>2
  <1> QED BY <1>1, <1>2, InitPanels, StepPanels, PTL DEF PanelsSpec

-----------------------------------------------------------------------------
(* The pages together: a behaviour of the front end is a behaviour of each   *)
(* page, as every step is one page's and leaves the others alone.            *)

LEMMA PanelsWithin == MCSpec => PanelsSpec
  <1>1. MCInit => PanelsInit
    BY DEF MCInit
  <1>2. [MCNext]_allVars => [PanelsNext]_panelVars
    BY DEF MCNext, Others, allVars
  <1> QED BY <1>1, <1>2, PTL DEF MCSpec, PanelsSpec

LEMMA CheckoutWithin == MCSpec => CheckoutPageSpec
  <1>1. MCInit => CheckoutInit
    BY DEF MCInit
  <1>2. [MCNext]_allVars => [CheckoutPageNext]_checkoutVars
    BY DEF MCNext, Others, allVars
  <1> QED BY <1>1, <1>2, PTL DEF MCSpec, CheckoutPageSpec

LEMMA CatalogWithin == MCSpec => CatalogPageSpec
  <1>1. MCInit => CatalogInit
    BY DEF MCInit
  <1>2. [MCNext]_allVars => [CatalogPageNext]_catalogVars
    BY DEF MCNext, Others, allVars
  <1> QED BY <1>1, <1>2, PTL DEF MCSpec, CatalogPageSpec

LEMMA OrdersWithin == MCSpec => OrderPagesSpec
  <1>1. MCInit => OrderPagesInit
    BY DEF MCInit
  <1>2. [MCNext]_allVars => [OrderPagesNext]_orderPageVars
    BY DEF MCNext, Others, allVars
  <1> QED BY <1>1, <1>2, PTL DEF MCSpec, OrderPagesSpec

LEMMA CartWithin == MCSpec => CartPagesSpec
  <1>1. MCInit => CartPagesInit
    BY DEF MCInit
  <1>2. [MCNext]_allVars => [CartPagesNext]_cartPageVars
    BY DEF MCNext, Others, allVars
  <1> QED BY <1>1, <1>2, PTL DEF MCSpec, CartPagesSpec

LEMMA SessionWithin == MCSpec => SessionSpec
  <1>1. MCInit => SessionInit
    BY DEF MCInit
  <1>2. [MCNext]_allVars => [SessionNext]_sessionVars
    BY DEF MCNext, Others, allVars
  <1> QED BY <1>1, <1>2, PTL DEF MCSpec, SessionSpec

LEMMA FormsWithin == MCSpec => FormPagesSpec
  <1>1. MCInit => FormPagesInit
    BY DEF MCInit
  <1>2. [MCNext]_allVars => [FormPagesNext]_postVars
    BY DEF MCNext, Others, allVars
  <1> QED BY <1>1, <1>2, PTL DEF MCSpec, FormPagesSpec

LEMMA AccountWithin == MCSpec => AccountPageSpec
  <1>1. MCInit => AccountPageInit
    BY DEF MCInit
  <1>2. [MCNext]_allVars => [TfaNext \/ ProfileNext]_accountPageVars
    BY DEF MCNext, Others, allVars
  <1> QED BY <1>1, <1>2, PTL DEF MCSpec, AccountPageSpec

LEMMA ProductWithin == MCSpec => ProductPagesSpec
  <1>1. MCInit => ProductPagesInit
    BY DEF MCInit
  <1>2. [MCNext]_allVars => [ProductPagesNext]_productPageVars
    BY DEF MCNext, Others, allVars
  <1> QED BY <1>1, <1>2, PTL DEF MCSpec, ProductPagesSpec

LEMMA SearchWithin == MCSpec => SearchBoxSpec
  <1>1. MCInit => SearchBoxInit
    BY DEF MCInit
  <1>2. [MCNext]_allVars => [SearchBoxNext]_searchBoxVars
    BY DEF MCNext, Others, allVars
  <1> QED BY <1>1, <1>2, PTL DEF MCSpec, SearchBoxSpec

\* No page ever comes to a state that it cannot show.
THEOREM AppTypeCorrect == MCSpec => []AppTypeOK
  <1>1. CheckoutPageSpec => []CheckoutPageTypeOK
    BY CheckoutPageInvariant, PTL DEF CheckoutPageInv
  <1>2. CatalogPageSpec => []CatalogPageTypeOK
    BY InitCatalogPage, StepCatalogPage, PTL DEF CatalogPageSpec, CatalogPageInv
  <1>3. OrderPagesSpec => []OrderPagesTypeOK
    BY InitOrderPages, StepOrderPages, PTL DEF OrderPagesSpec, OrderPagesInv
  <1>4. CartPagesSpec => []CartPagesTypeOK
    BY CartPagesInvariant, PTL DEF CartPagesInv
  <1>5. SessionSpec => []SessionTypeOK
    BY InitSession, StepSession, PTL DEF SessionSpec, SessionInv
  <1>6. FormPagesSpec => []FormPagesTypeOK
    BY InitFormPages, StepFormPages, PTL DEF FormPagesSpec, FormPagesInv
  <1> QED BY <1>1, <1>2, <1>3, <1>4, <1>5, <1>6, ThePanelsAgreeWithTheServer, TheAccountPageIsTrue,
             TheProductPageIsOfOneProduct, TheHintsAreCurrent, PanelsWithin, CheckoutWithin, CatalogWithin,
             OrdersWithin, CartWithin, SessionWithin, FormsWithin, AccountWithin, ProductWithin, SearchWithin,
             PTL DEF AppTypeOK

\* What the shopper reads and looks for is of one product, and for what is typed; and a review
\* sent again keeps its text, but for the four ways of losing it that KeepsItsText names.
THEOREM TheStorefrontIsCurrent == MCSpec => StorefrontIsCurrent
  BY TheProductPageIsOfOneProduct, TheHintsAreCurrent, ProductWithin, SearchWithin, PTL DEF StorefrontIsCurrent

\* What was proved of each page by itself holds of it among the others.
THEOREM EachPageHolds ==
  MCSpec => /\ [](PanelsAgreeWithTheServer /\ OrdersArePaidOnce /\ CatalogShowsItsQuery)
            /\ [](CartShowsTheServers /\ FormsTellTheTruth)
            /\ OrdersShowTheirStatus /\ SessionIsKept /\ AccountPageIsTrue
  BY ThePanelsAgreeWithTheServer, TheOrdersArePaidOnce, TheCatalogShowsItsQuery, TheCartIsTheServers,
     TheFormsTellTheTruth, TheOrdersShowTheirStatus, TheSessionIsKept, TheAccountPageIsTrue,
     PanelsWithin, CheckoutWithin, CatalogWithin, CartWithin, FormsWithin, OrdersWithin, SessionWithin,
     AccountWithin, PTL
=============================================================================
