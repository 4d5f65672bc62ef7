# TLA+ models of i-love-shopping

TLA+ specifications of the shop's back end and front end, TLC runs that check
them on small instances, and TLAPS proofs of their safety properties for every
instance. Paths below are relative to `src/backend/src/`, or to
`src/frontend/src/` where they begin with `front:`.

## 1. The system

A NestJS API over Postgres (Prisma), Redis and RabbitMQ, with Stripe as payment
gateway, and a React front end. One backend process serves many requests; its
handlers interleave at every `await`. Prisma transactions run at Postgres' READ
COMMITTED, so a plain read inside a transaction takes no lock, and an UPDATE
waits for row locks and works on the newest committed row. In the browser every
handler runs to its next `await` too, and answers arrive in any order or not at all.

### The back end

| component | state | operations | interacts with | what makes it correct |
|---|---|---|---|---|
| orders (`orders/`) | Order.status, OrderItem, Payment | cancel, staff status update, refund, list | Stripe refunds, stock | a cancelled order stays so, a refund is recorded only after the money went back |
| payment webhook (`checkout/checkout.service.ts:219`) | Payment row | record what Stripe reports, publish a message | Stripe events, queue | every event is applied or dead-lettered |
| payment queue and status consumer (`queue/`, `checkout/payment-queue.service.ts`, `checkout/order-status-consumer.service.ts`) | queue, dead-letter queue, retry count | deliver, apply to order and stock, mail, retry, dead-letter | Postgres, mail | no stock is lost, a paid order is confirmed |
| checkout (`checkout/checkout.service.ts:62`) | Order, stockQuantity, cart | place an order in one transaction | carts, catalogue | an order takes all its units or none |
| carts (`cart/`) | Redis list of a guest, CartItem rows of an account | add, update, remove, merge at login | catalogue, checkout | no more units than in stock; a lone call does what it says |
| refresh tokens (`auth/tokens.service.ts`) | RefreshToken rows | login, refresh, logout | front end's client | a token works once, an ended session stays ended |
| second factor (`auth/two-factor.service.ts`) | TwoFactorSecret row | set up, confirm, remove, verify | sign-in | staff show a code, a recovery code works once, nobody is locked out |
| accounts (`auth/auth.service.ts`, `users/`) | User, OAuthAccount, PasswordResetToken rows | register, sign in by password or provider, reset, delete | refresh tokens | one account per email, a reset ends sessions |
| catalogue: search and facets (`catalog/products.service.ts`) | Product rows | search, facets, suggest | cache | pages that partition the products, counts that are true |
| catalogue: cache | Redis keys with a time to live | fill, drop by pattern | search, writes of admins | what was saved is shown |
| catalogue: product writes | Product, Brand rows | create, bulk upload | cache, stock | a bad row does not sink a file |
| categories (`catalog/categories.service.ts`) | parent of each row | create, move, remove, tree | products | the tree misses nothing |
| product images (`catalog/image.service.ts`, `catalog/products.service.ts:494`) | three files and a row per image | upload | products | no row without its files, one primary image |
| reviews (`catalog/reviews.service.ts`) | Review, helpful votes, the product's average | upsert, delete, vote | catalogue cache | counters agree with rows |
| addresses, delivery options, brands | single rows | create, update, delete | checkout | what the lists of the front end show |
| rate limiter (`common/throttler/`) | a token bucket per key in Redis | consume | every request | the rate holds, a call that waited is admitted |

### The front end

| component | state | operations | what makes it correct |
|---|---|---|---|
| session (`front:api/client.ts`, `front:auth/`) | access token, refresh cookie, user, guest cart id | boot, sign in and out, refresh and replay, merge | an expired token is no sign-out, a sign-out is for good |
| cart (`front:cart/`, cart page) | the last cart answered | add, update, remove, refresh | at rest it is the server's |
| checkout page (`front:pages/CheckoutPage.tsx`) | form, order, payment intent | place, pay, retry, give up | an order is charged once, and one that can be paid is shown |
| order pages | status shown, poll timer, filter | poll, cancel, filter | the status never goes back |
| catalogue page (`front:pages/CatalogPage.tsx`) | query in the address, products, counts, category tree | search, filter, page, retry | at rest it shows its query |
| product page and reviews | product, reviews, form | look, review | one product at a time, a text is not blanked |
| search box (`front:components/Navbar.tsx`) | text, timer, suggestions, mark | type, walk, search | the suggestions are for the text |
| account page | second factor, QR code, profile | set up, confirm, disable, rename | it says what is so |
| forms (sign-in, registration, resets, OAuth return, contact, uploads) | fields, button, error | submit, retry | they say what happened, and do it once |
| lists of the administration and address book | rows shown, form, spinner | load, add, edit, delete | at rest they are the server's |

What is hard in it: handlers that check a status, await the gateway and then
write without checking again; an at-least-once queue whose deliveries are handled
five at a time; a mail sent after the commit that decides whether it is sent
again; stock that is validated by one statement and decremented by another; a
token that two tabs present together; caches, recovery codes and Redis values
that are read, changed and written back; pages that edit what they captured
while other answers are on their way. `PROJECT.json` lists each hazard at its
line with the properties that cover it, or why none does.

## 2. The modules

| module | what it is | code |
|---|---|---|
| `OrderFulfilment` | the life of an order from the placed checkout to the last mail | orders service, webhook, queue, consumer |
| `Inventory` | abstract: a checkout takes all its units at once, or none | what `docs/REFERENCE.md:81` promises |
| `Checkout` | the checkout transaction, statement by statement | `processCheckout` |
| `TokenChain` | abstract: a session is a chain of tokens of which one works | `auth/tokens.service.ts:46-48` |
| `RefreshTokens` | rotation, reuse detection and revocation with row locks | `TokensService`, `resetPassword` |
| `Reviews` | the reviews, votes and aggregates of a product, with the row locks of their transactions | `ReviewsService` |
| `Carts` | the guest's list and the account's rows, statement by statement | `CartService` |
| `CatalogCache` | kept answers and the writes that drop them | `ProductsService` (caching), `RedisService` |
| `CatalogSearch` | filter, order, pages and facets as functions of the products | `ProductsService.search`, `facets` |
| `BulkUpload` | products made one by one and from files | `create`, `bulkCreate`, `uniqueSlug` |
| `Categories` | parents and the tree built from them | `CategoriesService` |
| `ProductImages` | files and rows of the images of a product | `ImageService`, `ProductsService.addImage` |
| `TwoFactor` | the secret of an account and the sign-ins that show it | `TwoFactorService`, `AuthController.login` |
| `Accounts` | the accounts of one email | `AuthService`, `UsersService` |
| `Throttle` | the token bucket's script and the clocks of its callers | `TokenBucketThrottlerStorage` |
| `Session`, `CartPages`, `CheckoutPage`, `OrderPages`, `CatalogPage`, `ProductPages`, `SearchBox`, `AccountPage`, `FormPages`, `ListPanels` | the pages, as they change between the shopper's presses and the answers | `src/frontend/src/` |
| `MC*` | instances for TLC, and claims of comments and documents that the code does not keep | |
| `OrderFulfilmentProofs`, `CheckoutProofs`, `RefreshTokensProofs`, `ReviewsProofs` | the theorems of one module each, with the invariants and lemmas they rest on | |
| `CatalogProofs` | those of `CatalogCache`, `CatalogSearch`, `BulkUpload`, `Categories` and `ProductImages` | |
| `ServicesProofs` | those of `Carts`, `Throttle`, `TwoFactor`, `Accounts` and of the composition `MCServices` | |
| `ShopPagesProofs` | those of the pages a shopper buys on: `CheckoutPage`, `CartPages`, `CatalogPage`, `ProductPages`, `OrderPages`, `SearchBox` | |
| `AppProofs` | those of `Session`, `FormPages`, `AccountPage`, `ListPanels` and of the composition `MCApp` | |

Most modules have a ghost variable that names overlaps instead of code: one such as
`crossed`, `overtaken`, `spoiled`, `disturbed`, `tainted`, `surely`, `shuffled`, `raced`,
`blurred`, `strayed` or `cartAlone` records that a call met another one or lost its answer. Others
record what a property must name to be true of the code: `slipped` (an answer that a deletion missed),
`unheard` (a write whose answer was lost), `unmarked` (a mark taken away by an upload that then failed),
`emptied` and `tangled` (how a review form came to its text), `ended` (the sessions that an answer said are over).
A property that holds only for calls that did not says so through the ghost, so that
what it excuses can be read off the module, and no more is excused. An operator that no
action uses (`AnyDropped`, `Unexpired`, `StaysEnabled`, `MergedReplaced`, `FilledNever` and
their like) is a fault that this code could plausibly have had: each property is tried against the
model with such a fault put in, and must fail.

### OrderFulfilment

Each HTTP handler and each delivery is cut at its awaits. `calls` holds what a
customer or staff call has in its local variables: the order, the intent it must
refund (`txn`), the status it read or will write. `slots` does the same for the
deliveries in progress. The gateway and the broker are external: `intents` and
`events` are Stripe's, `queue` and `dlq` RabbitMQ's.

* `RequestIntent`, `CreateIntent`, `Charge`, `Decline`: paying.
* `RecordPayment`, `PublishStatus`, `WebhookFails`: `handleStripeWebhook` upserts
  the payment row, then publishes, and only then is Stripe answered; an answer that
  is lost, or a publish that throws, has the event delivered again.
* `Deliver`, `ApplyRead`, `ApplyCommit`, `SendMail`, `Ack`, and the failures
  `ApplyFails`, `MailFails` with `Republish` and `DeadLetter`: the consumer.
* `CancelOrder`, `UpdateOrderStatus`, `ProcessRefund` read and decide;
  `GatewayRefund` is the call to Stripe, with its timeout; `CancelCommit`,
  `StatusCommit`, `RefundRecheck` and `RefundCommit` are the transactions.
* `Crash` loses every handler and requeues what was not acked.

A transaction whose read decides what it writes is two steps, because its read
takes no lock; one that only writes is a single step. `ProcessCheckout` is atomic
here: module `Checkout` is what justifies that.

### Checkout and Inventory

A transaction's uncommitted writes are invisible to others, so `stock` keeps
the committed quantities, `lock` the rows that a transaction has decremented, and
`Commit` applies them. `Take` waits for the row lock and checks the newest
quantity; one that would go below zero rolls the transaction back. `Abort` is any
other rollback, a restart included; `BreakDeadlock` is Postgres' detector. A
guest's cart is read from Redis before the transaction and deleted after it
(`ClearGuestCart`, `ClearFails`). `EditCart` and `SetStock` are the cart endpoints and
the staff's product form beside it. The refinement mapping (`Promise`) gives
Inventory the committed stock and the placed orders.

### RefreshTokens and TokenChain

`Present` is the unlocked read of `rotate`; `Claim` the conditional UPDATE that
takes the row's lock; `Issue` the commit with the new row and the link to it.
`RevokeFamily` (after a reuse), `RevokeRefreshToken` (logout) and `ResetPassword`
start an UPDATE, which chooses its rows from what is committed then (`chosen`) and
waits for locked ones; `FinishRevoking` writes them, and adds to the history `ended` the sessions that
its answer says are over (`Covers`), without those in which a rotation that held the lock of a
chosen row committed first (`BeatenTo`). The mapping `Current` gives
TokenChain the one live token of each family. An UPDATE that waited evaluates
its condition again, so a row that was rotated meanwhile is left as it is: it is
already revoked, and revoking it once more is the same.

### Reviews

Every change is a transaction of several statements. `UpsertForUser`, `Remove` (the
author's and the admin's deletion) and `VoteHelpful` are the reads that decide what
is written; `Write` is the first statement that writes, which waits (`Blocked`) and then
meets the unique and foreign keys (`Stale`, `Conflict`); `RecomputeAggregates` and
`Publish` are the aggregate query and the commit with the product's update;
`Count` is the counter's update and the commit of a vote. `Cascade` is the part of a
review's deletion that takes its votes along. Since uncommitted writes are
invisible, they are applied at the commit, and who holds which row follows from
`stage` and `task`. A row is named by the request that inserts it, as no uuid is used
twice. Prisma 6 deletes with `DELETE ... RETURNING`, so deleting a missing row fails.

### Carts

A call reads, awaits and writes what follows from what it read; none is a transaction.
`cartAt` is the statement a call is at and `cartFrame` what it has read. An account's call is
`ReadProduct`, `FindCart`, `CreateCart`, `ReadLine`, `WriteLine`; a guest's is `ReadGuest`,
`WriteGuest` of the whole list; a merge reads the list, then goes through `NextItem`, and drops the list
(`ClearGuest`). `Sold` and `GuestCartExpires` are what happens beside it. `carts` is a set because nothing
makes a user's cart unique. `CartEffect` is the reference of each call, with which
`LoneCallIsAtomic` compares the statements of a call that nothing overlapped.

### CatalogCache and CatalogSearch

What an answer shows is the number of catalogue writes it was computed after. `LookUp`,
`Query` and `Fill` are a cached read; `Save` is an admin's write, whose deletions run beside
each other, one per pattern, each a `Scan` and a `Delete`; `Saved` is the answer. A SCAN that fails
fails the answer (`DropFails`), and so does a restart (`WriterStops`). The DELs go out as one pipeline, whose
promise resolves with an error for each command that failed, and `redis.service.ts:38` reads
none of them: `Delete` leaves any of the keys it found in place and counts as done. `slipped` names
the keys that keep an old answer in this way, or because a fill stored it after the deletion. `QuietWrite` is a
change that drops nothing (a checkout's stock, a rating). CatalogSearch has the computations:
`Matches`, `Before` with its tiebreaker, `Page`, the counts and the price bounds.

### BulkUpload, Categories, ProductImages

An upload handles its rows one after the other, each `FindCategory`, `FindBrand`,
`CreateBrand` or `UpsertFallback`, `TrySlug` until a slug is free, `FindExisting`, then
`CreateProduct` or `UpdateProduct`. A CSV file loses its malformed rows in the parser and is refused only
when it has none at all; a JSON upload with one of them is refused whole by its DTO (`Refused`). `RowFails` is
an error of a statement, which the row's catch reports and passes, or a restart; `BrandUnheard` and `ProductUnheard`
are the same for a statement that committed, and whose answer was lost. Categories keeps only the parents: `BeginMove` is the lookups
of an update and `Move` its write, and `Tree` the tree as the service builds it from the roots.
A product may be created with images (`GivenImages`): rows that all take position 0, of which any
may be primary, and which have no files of the shop's. An uploaded image's three files are written beside
each other (`WriteSize`), then come `ReadImages`, `UnsetPrimaries` if it is to be the primary one, and `InsertImage`.

### TwoFactor and Accounts

TwoFactor has the one `secret` row of an account, named by the setup that made it.
`BeginSetup` upserts it, `FindSecret` and `Confirm` enable it, `Disable` deletes it; a sign-in is
`CheckEnabled`, `VerifyCode`, `SpendCode` (which writes back the list it read) and
`OpenSession`. A code of an authenticator matches the setup it was scanned from. Accounts names users,
passwords, links and sessions by the request that made them: `Register` and `CreateUser`,
`FindLink` and `Provision` (a transaction), `ValidateCredentials` and `IssuePair`,
`ForgotPassword` and `CreateResetLink`, `FindResetLink` and `ResetPassword` (a transaction),
`DeleteAccount`.

### Throttle

The script is one step in Redis (`Evaluate`) on the stamp a call got from its own instance
(`Stamp`, within `Skew` of the clock), so that stamps may run backwards. The code's fractions of a token are
whole parts: `Ttl` parts make a token and `Limit` come back in a millisecond. `window` and `slack`
count what was admitted since any one stamp and what backward stamps credited twice.

### The pages

A page has one action per press (`PlaceOrder`, `TurnPage`, `Submit`), one for what the
server does with a request (`Serve...`), one per kind of answer and what the page makes of it
(`...Answered`, `...Failed`, `...Refused`), and one for the answer that is lost before or after
the server did its part. State updates that React batches are one step; effects that a
change of state triggers are part of the step that changed it. A stale closure is a
value remembered in the request.

* **`Session`**: tokens are good or not, and a cookie is its family and whether it is the live one; the
  server's rotation is a step, which RefreshTokens opens. Several requests may refresh
  together, which is how a loser signs the winner out (`raced` records it).
* **`CheckoutPage`** shows the order it placed only while the cart it holds has items,
  although placing it has emptied the cart on the server. Stripe's form forgets that it is submitting when the
  page of an empty cart takes its place; a second submission of one intent while the first
  is being confirmed, which a form that comes back would allow, is left out.
* **`CatalogPage`** gives up the fetch before the one it starts, by its number `gen`, and shares one
  fetch of the category tree between visits.
* **`ListPanels`**: the eight lists are one machine. What a panel does differently (it
  reloads after a write or edits its captured list, closes its form before or after the answer,
  hides on an error) is in `Traits`, one record per panel's file.
* **`ProductPages`**: the server reads a list of reviews and the page shows it later; the review it takes for the
  shopper's is the first by an author whose name begins with the shopper's first name (`FirstOfName`), so
  where a namesake has reviewed it may be the other's. The form is filled when that review is another one
  than before, and emptied by the answer to a review (`Fills`, `ReviewAnswered`).
* **`OrderPages`**: staff take an order that is not cancelled to any status, backwards too (`OrderMoves`).
* **`FormPages`**: the forms are one machine of `SubmitForm`, `ServeForm` or `LosePost`, and what
  follows at each page, with the steps of a staff's enrolment at sign-in.

## 3. The runs

| run | instance | question |
|---|---|---|
| `order_safety` | one order, one intent, two customer calls, one staff call, two slots, one retry | Do stale handlers lose stock, revive a cancelled order, lose payment news, or record a refund that never happened? No. |
| `order_queue` | a guest's order with one call, two slots, one retry, one fault, all failures | Is every event applied or dead-lettered, and is a paid order confirmed by mail? Yes, under the fairness below. |
| `transactions` | two checkouts of one account and one of a guest over two products with one unit each and one edit, or four review calls of three users, one of them an admin | Is each checkout one atomic reservation, never oversold; do the helpful counters agree with the votes, one per user and none without its review; and does every call end although rows are locked in any order? Yes. |
| `tokens` | three racing requests, two sessions of one user, five tokens, one expiry | Is a token exchanged once, is a session over once an answer says so, does an ended one stay ended, is every request answered? Yes, but for the rotation that `token_reuse` shows. |
| `services` | the nine services above, each by itself | Do carts, cache, search, uploads, categories, images, second factor, accounts and rate limit keep what the table below says? Yes. |
| `app` | the pages, each by itself | Does each page, at rest, show what the server has, and does no order of presses and answers do a thing twice? Yes, but for what the ghosts name. |
| `money_held` | two calls of the customer | Violated: a cancellation that read the payment row before the charge was recorded does not refund it. |
| `double_release` | two slots | Violated: a duplicate handled concurrently restores the stock twice (two cancellations do as well). |
| `token_reuse` | one session, three requests | Violated: a family revoked while a rotation commits keeps the rotation's token. |
| `review_drift` | two users who review at once | Violated: the average and the count leave out the review that was committed meanwhile. |
| `cache_stale` | one admin write, two visitors, one key | Violated: a late fill, or a deletion that failed unread, shows a visitor what was there before the write that the admin was told is saved. |
| `review_blanked` | one shopper without namesakes, two products | Violated: a review sent a second time from the same page blanks its text, since the first answer emptied the form and nothing fills it again. |

Each `violation` run checks the words of a comment or a document, quoted at the
property in its MC module and under "findings" in `PROJECT.json`.

Three more things the models show need no run of their own. A failed event that is
recorded after a success marks a charged payment FAILED, since the last event wins
(`RecordPayment`). A restart between the commit and the mail loses the mail,
because the redelivery is taken for a handled duplicate: `PaidIsConfirmed` is therefore
about behaviours without a fault, and what survives a fault is in `ChargedPendingHasCarrier` and `EventIsSettled`. A guest's cart is cleared after the order's commit, so Redis
failing there answers an error for an order that stands (`ClearFails`).

What the ghosts excuse are races of the code too, and the modules show each: two primary images after two
uploads at once (`disturbed`), a recovery code that lets in two sign-ins at once (`crossed`), a
reset link used by two resets at once (`overtaken`), items lost or doubled by cart calls at once
(`cartAlone`), a session ended by the loser of two refreshes (`raced`). The header's Cancel of the
delivery options hides the form and keeps the row it was editing, so that the next
addition would overwrite it: `FormSavesWhatItShows` leaves that panel out.

Three of these are against the words of a comment, and the properties state what is left of it. Two have a run of
their own that shows the words violated: "reflected immediately" (`catalog/products.service.ts:177`, run
`cache_stale`, property `SavedWritesShow`) and "doesn't silently blank out their title/body"
(`front:components/ProductReviews.tsx:54`, run `review_blanked`, property `KeepsItsText`). The third has none:
"single-use recovery codes" (`auth/two-factor.service.ts:72`), where two sign-ins that read the list of codes
at once both get in with one, which `RecoveryCodesAreSpent` leaves to `crossed`. A fourth comment
needs no interleaving to be wrong: `catalog/products.service.ts:333` has an upload update the product
of the same slug, but `uniqueSlug`, a few lines above, has just returned one that no product has, so a file that is
uploaded again makes its products again (`TrySlug`, `FindExisting`; `UpdateProduct` is reached only when another
upload creates the slug in between).

### How `services` and `app` are composed

The services of `MCServices` share no state in these models, and neither do the pages of `MCApp`. A
behaviour chooses one of them (`service`, `route`) in its first state and takes only its steps; the
variables of the others keep a fixed initial value. The state space is then the sum of
theirs and not the product, and each component is explored as if it had a run of
its own. Nothing in a composed run speaks of two components at once.

A property of such a run joins what one component, or a few related ones, promise:

| property | its parts |
|---|---|
| `CartsKeepTheirGoods` | `WithinStock`: however calls overlap, a line never exceeds the stock; `LoneCallIsAtomic`: a call nobody overlaps does what `CartEffect` says |
| `SavedWritesShow` | `StaleOnlyIfSlipped`: a kept answer older than a saved write was stored by a fill that overtook the deletion, or its DEL failed; `ReadersSeeSavedWrites`: and nobody else is shown one |
| `CatalogueIsWhole` | `EveryProductOnOnePage`, `FacetsTellTheTruth`, `TreeMissesOnlyLoops` |
| `UploadsAreWhole` | `GoodRowsGetIn`; `SkippedRowsLeaveNothing`, but for a write whose answer was lost; `RowsHaveTheirFiles`; `OnePrimaryUnlessOverlap`, of uploaded images beside any other; `MarkIsKept`: overlaps may leave two primary images, but never none |
| `SecondFactorHolds` | `EnabledSecretIsProved`, `RecoveryCodesAreSpent`, `CodesGoWithSecret`, `StaffShowACode` |
| `AccountsHold` | `SignInsMeet`, `ResetEndsSessions`, `ResetLinkWorksOnce`, `DeletedStaysDeleted` |
| `BucketKeepsItsWord` | `RateHolds`: what was admitted since any stamp is a full bucket and the refill; `RetriesAreAdmitted`: waiting as told is enough |
| `PanelsAgreeWithTheServer` | `SettledListIsTheServers`, `FormSavesWhatItShows`, `SpinnerHasAFetch` |
| `OrdersArePaidOnce` | `PayableOrderIsShown`, `ChargedOnce`, `GivenUpIsDeclined`, `BusyHasACall` |
| `CatalogShowsItsQuery` | `IdleShowsTheQuery`, `CountsFollowTheProducts`, `ShownPageExists`, `LoadingHasAFetch`, `TreeOrRetry` |
| `OrdersShowTheirStatus` | `ConfirmingMeansPolling`, `ShownNeverGoesBack`, `ListFollowsTheFilter` |
| `CartShowsTheServers` | `ShownCartIsTheServers`, `AdviceIsNotInTheCart`, `DisabledForARequest` |
| `SessionIsKept` | `SessionOutlivesItsToken`, `SignedOutStaysOut`, `GuestGoodsAreKept` |
| `FormsTellTheTruth` | `SaysWhatHappened`, `NothingTwice`, `WorkingHasACall`, `SetupShowsOrFails` |
| `AccountPageIsTrue` | `PageKnowsTheFactor`, `NameShownIsSaved`, `OnlyDisableDisarms` |
| `StorefrontIsCurrent` | `PageIsOfOneProduct`, `KeepsItsText`, `MarkedIsShown`, `HintsAreForTheTerm` |

### Bounds, and why they are enough

* Every call, checkout and request is used once. A second call of the same kind is
  another element of `Calls`, `Checkouts` or `Requests`; the races here need two
  handlers and one they race with.
* `order_safety` has no faults and `order_queue` has one (`MaxFaults` counts crashes,
  failed publishes and lost answers together): races and failures are explored
  separately because their product is too large for TLC; the proofs cover it.
* `MaxRetries` 1 stands for 3: first attempt, a retry, and the retries used up are
  all reached. Two slots stand for the prefetch of five.
* An intent is declined at most once, so each event occurs once but for redelivery.
* `transactions`: carts start as anything up to `MaxQty`, so that quantities, products
  and their order all vary; one unit of each product is the case where they race. The four calls
  on reviews are a review, two votes or a vote and its withdrawal, and a
  deletion that races with them: the one cycle of locks there is. One rating
  suffices there; `review_drift` has two. Checkouts and reviews never wait for each other in a
  circle, as a review locks the product's row last, so a behaviour has the calls of one of them.
* `tokens`: a fresh token is `CHOOSE`n, since tokens are random and alike; five are
  two logins and three rotations, so no request is cut short.
* `services`: three cart calls on two products, one with two units and one with one, which is enough
  for an addition to fit and the next not to; two readers and a writer over two keys of
  different patterns, with one quiet write, where any key's DEL may fail; three products, two to a page, so that there
  is a full page, a page with one and a tie; a CSV file, a JSON upload, one that is
  refused, and a single product, which share names; three categories and three moves, the least that makes a loop and
  opens it again; two images that come with the product, primary or not, and three uploads of
  pictures in two sizes, of which one does not ask to be primary; five requests
  about a second factor (two setups, two confirmations or a removal, two sign-ins) with
  two recovery codes to a setup; five about an email's accounts; four calls on a bucket of
  two tokens that refills in three milliseconds and is forgotten after four, by clocks one apart.
  `CartMenu`, `SecretMenu` and `AccountMenu` say what each call may be, since calls are interchangeable
  and some kinds need a place to come first.
* `app`: two rows of two values and three requests of a panel that may be left, for the one of
  orders (`LeftForOrders`: a late answer changes nothing whichever panel it finds); two orders with two intents; two filters, of which one has two pages (`MaxPages`); two visits
  to the catalogue, three queries each; two products in a cart, two requests at a time, and a sidebar that is
  opened on other pages than the cart's (`SidebarElsewhere`: two editors of one page would send what two presses of it do); all eight polls of the confirmation; two requests
  of a session, over two sign-ins and two guest ids; four submissions of a form; three
  secrets; two products, one reviewed by the shopper and one perhaps by a namesake, two terms. Each page meets an answer that overtakes another, one
  that is lost, and one that comes when the shopper has moved on.

`CHECK_DEADLOCK FALSE` everywhere: the calls of a behaviour are finite, and when they
are used up the system stops.

### Fairness

Weak fairness only, only in the four core modules, and only of steps that something
runs: Stripe redelivers an unanswered event; the broker hands a ready message to a
free slot; the event loop runs a handler whose await has completed (the containers
are restarted unless stopped, `docker-compose.yml`); Postgres runs a statement once
its rows are free and breaks deadlocks. Nothing makes a customer pay, a call start
or a failure happen. `PaidIsConfirmed` leaves out behaviours with a fault, of any kind, and a message
that used up its retries. The services and the pages are checked for safety only: a
page's request may be lost for good, so that the only promise is a way on, which
`LoadingHasAFetch`, `BusyHasACall`, `WorkingHasACall` and `TreeOrRetry` state.

## 4. The proofs

The theorems hold for all values of the constants that satisfy the assumption each module
names (`OrdersAssumption`, `CheckoutAssumption`, `CartsAssumption`, `ListPanelsAssumption` and so
on, one to a module): sets and functions of the right type, limits that are natural
numbers, and model values outside the sets they mark the absence of. Some of the sets must also be finite, as
rows of a table and calls of a process are: orders, slots, products of a cart, of a search and of the cart's page, categories,
uploads of images, reviewing requests, and the calls of carts, of accounts, of second factors and of panels. Three
assumptions say more. `BulkUploadAssumption`: a product that an admin creates by itself is a file of
one row that passed validation, as the controller's DTO has it. `CatalogPageAssumption`: there is a
bound on the number of pages. `SessionAssumption`: some request of the session may be a sign-in.

Every type invariant, safety invariant and action property that a passing run checks, and both refinements, have a
theorem. A property of a composed run has a theorem about its component alone, under that
component's own specification, and lemmas (`CartsWithin`, `PanelsWithin`, ...) that a behaviour of the composition is one of
each component carry it to `MCServices` and `MCApp` (`TheCatalogueIsWhole`, `TheUploadsAreWhole`,
`ServicesTypeCorrect`, `AppTypeCorrect`, `TheStorefrontIsCurrent`).

* **`OrderFulfilmentProofs`.** `IInv` strengthens the type invariant by what a
  handler's local state is founded on: an event of success is about a charged
  intent, a call that is to refund holds a charged intent, a COMPLETED payment row
  names one, and a message of success, wherever it is, is about a charged
  order. `ChargedPendingHasCarrier` is not inductive alone: it needs to know that a
  delivery that is about to write will make the order PAID or CANCELLED, and that
  the copy a crash loses goes back to the queue. From `IInv` follow
  `TypeCorrect` (so stock is never negative), `NewsOfChargeKept`, `RefundsAreReal`,
  `PaidMeansCharged`, and, step by step, `SettledStaysSettled`.
  `StockIsNeverLost` needs another invariant, because a staff update may put a cancelled order, whose units are
  back on the shelf, to another status, or write CANCELLED a second time without restocking:
  the units of an order may then be counted twice, though never lost. `ShelfIsKept` says that there is a set of orders, each put back at least
  once, with every cancelled order in it and every order that an update in flight will write
  CANCELLED to, such that stock and the units of all other orders cover the initial
  stock. The set only grows, by the order that a step restocks.
  `Held` is a sum over a set by the community modules' fold. `HeldIsUnits` expands
  it, and `SumsAgree` shows that it does not depend on the order of summation, by a least
  counterexample (`Descent`), since the library's induction theorems are out of reach.
* **`CheckoutProofs`.** `IInv` says that a locked row belongs to a transaction still
  decrementing, that it is covered by the committed quantity
  (`TakenIsCovered`), and that nothing is placed before the commit. With it each
  step maps to a step of Inventory or to a stutter: `CheckoutImplementsInventory`.
  `OrdersSomething` adds that who clears a cart has ordered its goods, from which
  `CartsOutliveRefusals` follows.
* **`RefreshTokensProofs`.** `IInv` says that a locked row is live and held by the one
  request that is issuing, and that only issued rows are revoked. It makes
  `OneLiveToken` inductive, and with that `Issue` is a rotation of the chain and
  every revocation an end of sessions: `SessionsImplementChains`. For `RevocationsStand` it also says that a revocation
  that waits has chosen the live token of each session it is to end, or was beaten to it
  (`WaitersChoseTheLive`): a rotation in flight holds the lock of that very token, so it either commits
  before the revocation, which then does not count the session as ended, or finds its row revoked. And
  an ended session has rows (`EndedHaveRows`), so that no login begins it anew.
* **`ReviewsProofs`.** The counter agrees with the votes because what a counting call
  read stays true until it commits: `TalliesHold` (its vote is still missing, or
  still there), `OneTally` (no other call counts a vote of the same user) and
  `DeletesAlone` (no deletion takes the votes away under it) are the locks said as
  an invariant. `CountersAgree` and `VotesAreSingle` follow.
* **CatalogCache** (`CatalogProofs`). The invariant behind `SavedWritesShow` is `PastKeysAreNew`: once a
  writer's deletion is past a key, the key keeps nothing older than the write unless its answer
  slipped past it. A write is answered only when the deletion of every pattern is through
  (`DropsFollowSaves`), so every key is then past; `FloorsAreSaved` and `ReadersKeepUp` carry that to
  a reader that has not yet looked.
* **CatalogSearch.** `SeenSoFar` says what the shopper has seen after any number of pages: each product
  found with fewer than `page * PerPage` others before it, once. That all are seen in the end
  follows from two counts: a product has fewer others before it than are found (`SkippedBelowTotal`), and the pages
  hold all that are found (`PagesHoldAll`). For the facets, a finite set of prices
  has a least and a greatest (`HasLeast`, `HasGreatest`).
* **BulkUpload.** `RowsCounted` ties the outcomes to the row in hand. `ReadHolds` says what stays true
  of a read that nobody's upload overlapped: its slug is free, its brand is missing. `ImportedIsThere` names the
  product that each imported row left, or the later row of that name that took it over, so that the report of
  `GoodRowsGetIn` is about products, and `Accounted` that each product is an imported row's or an unheard one's. `RowsOf` is a recursive function, and `ParsesTo` shows that it exists.
* **Categories.** `LoopsAreMarked`: a set of categories closed under parents that never meets a root has
  one in it that an update put below itself. `Tree` and `Above` are least closed sets, which
  need no recursion and no induction.
* **ProductImages.** `WrittenBeforeRead` orders files before rows; `InsertsFit` says that the position
  and the primary that an undisturbed upload read still hold when it inserts. `OnlyPrimariesUnset`: who takes the
  mark away gives it back when it inserts, and fails only into `unmarked`, which makes `MarkIsKept` inductive.
* **Carts** (`ServicesProofs`). `StoreFits` and `FrameFits` bound every stored and every carried quantity by the most there was of it,
  which gives `WithinStock`. `LoneInv` follows a call that nobody overlaps through its statements:
  until the last of them the carts are as they were (`LoneCall`), or, of a merge, as the
  reference would have them for the products it is through with (`LoneMerge`).
* **Throttle** (`ServicesProofs`). `BucketInv` says of the bucket that what was admitted and what is left are covered by a full
  bucket and the refill since (`Budget`), which makes `RateHolds` inductive, and that a whole
  token will have come back by the time that a blocked call was told (`TokenByThen`), which is why
  `RetriesAreAdmitted`: the code rounds the wait up.
* **TwoFactor** (`ServicesProofs`). A request that acts on a row it has read either still holds the row
  there is or is in `crossed`: `HoldersWrite` and the lemma `RowWritten` say that a write overtakes
  those that hold the row. `ConfirmersSaw`, `SpendersSaw` and `StaffHaveShown` say what a request
  must have seen to be where it is, `CodesAreOfOldSetups` that codes are never made again.
* **Accounts** (`ServicesProofs`). `OneLive` (the unique index on the email's hash, as an invariant) with
  `RowsExist` gives `SignInsMeet`; `PasswordsSeen` says that a session not overtaken was given for the
  password there is, `LinksAreMarked` that a link which set a password is used,
  `DeletedBefore` that only a provider's link leads to a row deleted before.

* **The pages** (`ShopPagesProofs`, `AppProofs`). Each invariant says what the requests under way will answer
  while no overlap or loss has been named, and what the page shows for them in the meantime:

  | invariant | what makes the property inductive |
  |---|---|
  | `CheckoutPageInv` | one intent of an order at most was ever tried, and it is the one on the page (`OneTried`); an error that Stripe did not lose is a refusal (`ErrorsAreRefusals`) |
  | `CartPagesInv` | unmixed requests come one at a time and answer with the server's cart (`OneAtATime`); advice leaves out the lines it was asked for (`AdviceFits`) |
  | `CatalogPageInv` | the last fetch is the one for the address (`FetchFits`); a visit waits for the tree in one place at most, and its spinner for that (`TreeFits`) |
  | `ProductPagesInv` | until answers cross, every answer is of the product in the address (`OfOneProduct`); where no namesake reviewed and no list crossed a review, a list shows the review there is and a blank form was blanked by hand or by an answer, or there is no text (`NeverTogether`, `ListsAreCurrent`, `FormKnows`, `FormShowsSent`) |
  | `OrderPagesInv` | one of load, timer, poll and cancellation is awaited, so that an answer is shown only over what may be read again (`OneAwaited`); the list's requests (`ListFits`) |
  | `SearchBoxInv` | the mark is a suggestion's place or none (`MarkFits`); a lookup that has not strayed is for the term (`AskedForTheTerm`) |
  | `SessionInv` | unless refreshes raced, who is signed in has a live cookie, or a renewal of it under way (`OneSession`); after a sign-out only requests without a cookie are left (`QuitForGood`); a guest's goods lie under one id (`GoodsFit`) |
  | `FormPagesInv` | what the server did is told, or its answer is under way (`CountsFit`); what is left to send was asked for (`AskedFor`) |
  | `AccountPageInv` | calls that are sure come one at a time and know the factor (`OneCallAtATime`); a name is read after it is saved (`NameFits`) |
  | `ListPanelsInv` | a clean request is alone (`CleanIsAlone`), and once it is answered the list will be the server's (`SureOfTheList`) |

Checked by TLC only: liveness (`EveryCheckoutEnds`, `EveryCallEnds`, `EveryRequestAnswered`,
`EventIsSettled`, `PaidIsConfirmed`), since fairness is beyond the prover, and the violations, which are
single behaviours.

## 5. What is not modelled

* Of orders and payment: amounts, addresses and the text of mails; a refund that
  Stripe performs after the ten-second timeout (it is merged with the timeout); a
  message that does not parse; a publish lost with the connection, which nothing
  confirms; the unique-key race of a second payment row; the deletion of a product
  between a guest's read and checkout. Nothing releases the stock of a PENDING
  order that is never paid: there is no code for it, so `stock` leaves the shelf for
  good in every model.
* Of accounts: password hashing, codes and TOTP are equality; the captcha is a token verified once; the
  access-token denylist; the edits of a profile and of a role, each of which writes one field.
* Of the catalogue: the text search is a set of words; names and slugs of categories; the
  resizing and checking of pictures; an update or a removal of a product, which changes no slug and no
  row that an upload reads, is a write of CatalogCache, and an update one of Checkout's stock.
* Addresses, delivery options and brands are the rows that `ListPanels` reads and writes. The
  default address of a user is left out: the column has no constraint, and no code or document
  says there is only one.
* Of the front end: routes, theme and static pages, which keep no state; the export of a profile; the
  helpful button, related products.
* Configuration and encryption are read once and keep no state; seed data, scripts and
  load tests are tools that none of the shop's code depends on; the health check answers.
