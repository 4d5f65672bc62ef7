----------------------------- MODULE ListPanels -----------------------------
(***************************************************************************)
(* The panels of the admin dashboard, and the address book, which are      *)
(* built alike: a list fetched from the server, buttons beside each row,   *)
(* and, in some, a form that adds a row or edits one.  Nothing stops a     *)
(* second request while one is under way, and answers come in any order.   *)
(* One panel is mounted at a time; an answer that comes after its panel    *)
(* was left changes nothing.  The two sections of the panel of categories  *)
(* and brands are two panels here.                                         *)
(***************************************************************************)
EXTENDS Integers, FiniteSets

CONSTANTS
  Panels,
  RowIds, RowValues,   \* bound: what a row holds is one of a few values
  Rows0,               \* Rows0[p]: the rows of p on the server to begin with
  Calls,               \* bound: the requests of a behaviour
  MaxMounts,           \* bound: how often a panel is opened
  NoRow, NoPanel

VARIABLES
  panel,     \* the panel mounted
  mounts,    \* how many were, to tell the answers of an earlier one
  rows,      \* the rows on the server
  list,      \* those the panel shows
  loading, hidden,   \* what it shows instead: a spinner, or an error for good
  form,      \* the form: open or not, the row it edits, what is typed in it
  call,      \* each request, and what its handler captured
  unsure     \* ghost: requests overlapped or failed, and no clean fetch came since

panelVars == <<panel, mounts, rows, list, loading, hidden, form, call, unsure>>

Unborn == 0
Gone0 == -1
Cells == RowValues \cup {Unborn, Gone0}
RowLists == [RowIds -> RowValues \cup {Unborn}]
Empty == [r \in RowIds |-> Unborn]
Forms == [open : BOOLEAN, editing : RowIds \cup {NoRow}, value : RowValues \cup {Unborn},
          asked : RowIds \cup {NoRow}]
NoForm == [open |-> FALSE, editing |-> NoRow, value |-> Unborn, asked |-> NoRow]
CallKinds == {"fetch", "create", "update", "change", "delete"}
NoCall0 == [at |-> "idle", kind |-> "fetch", panel |-> NoPanel, mount |-> 0, row |-> NoRow,
            value |-> Unborn, list |-> Empty, closes |-> FALSE, clean |-> FALSE]
Answered == [NoCall0 EXCEPT !.at = "done"]

ASSUME ListPanelsAssumption ==
  /\ Panels \subseteq {"delivery", "categories", "brands", "products", "orders", "reviews", "users", "addresses"}
  /\ RowValues \subseteq Nat \ {0} /\ IsFiniteSet(Calls)
  /\ Rows0 \in [Panels -> RowLists]
  /\ NoRow \notin RowIds /\ NoPanel \notin Panels
  /\ MaxMounts \in Nat

ListPanelsTypeOK ==
  /\ panel \in Panels \cup {NoPanel}
  /\ mounts \in 0..MaxMounts
  /\ rows \in [Panels -> [RowIds -> Cells]]
  /\ list \in RowLists
  /\ loading \in BOOLEAN /\ hidden \in BOOLEAN /\ unsure \in BOOLEAN
  /\ form \in Forms
  /\ \A q \in Calls :
       /\ call[q].at \in {"idle", "sent", "ok", "failed", "done"}
       /\ call[q].kind \in CallKinds /\ call[q].panel \in Panels \cup {NoPanel}
       /\ call[q].mount \in 0..MaxMounts /\ call[q].row \in RowIds \cup {NoRow}
       /\ call[q].value \in RowValues \cup {Unborn} /\ call[q].list \in RowLists

PanelsInit ==
  /\ panel = NoPanel /\ mounts = 0
  /\ rows = Rows0
  /\ list = Empty
  /\ loading = FALSE /\ hidden = FALSE /\ unsure = FALSE
  /\ form = NoForm
  /\ call = [q \in Calls |-> NoCall0]

-----------------------------------------------------------------------------
\* What the panels differ in.  `after': what a handler does when its write is
\* answered (wait for a reload, start one, or edit the list it captured);
\* `closes': whether a save closes the form before or after that; `hides': whether
\* an error of the fetch replaces the panel.
DeliveryOptions == [save |-> "await", other |-> "await", closes |-> "after", hides |-> FALSE]
CategoriesSection == [save |-> "await", other |-> "await", closes |-> "after", hides |-> FALSE]
BrandsSection == [save |-> "await", other |-> "await", closes |-> "after", hides |-> FALSE]
ProductManagement == [save |-> "start", other |-> "local", closes |-> "before", hides |-> TRUE]
OrderManagement == [save |-> "none", other |-> "start", closes |-> "never", hides |-> TRUE]
ReviewManagement == [save |-> "none", other |-> "local", closes |-> "never", hides |-> TRUE]
UserManagement == [save |-> "none", other |-> "local", closes |-> "never", hides |-> TRUE]
AddressBook == [save |-> "start", other |-> "start", closes |-> "before", hides |-> FALSE]
Traits(p) ==
  CASE p = "delivery" -> DeliveryOptions  [] p = "categories" -> CategoriesSection
    [] p = "brands" -> BrandsSection      [] p = "products" -> ProductManagement
    [] p = "orders" -> OrderManagement    [] p = "reviews" -> ReviewManagement
    [] p = "users" -> UserManagement      [] p = "addresses" -> AddressBook

\* The buttons beside a row that shows v: the request each sends.
Delete == [kind |-> "delete", value |-> Unborn]
ChangeTo(v) == [kind |-> "change", value |-> v]
DeliveryRow(v) == {Delete} \cup {ChangeTo(w) : w \in RowValues \ {v}}
CategoryRow(v) == {Delete}
BrandRow(v) == {Delete}
ProductRow(v) == {Delete}
OrderRow(v) == {ChangeTo(w) : w \in RowValues}
ReviewRow(v) == {Delete}
UserRow(v) == {ChangeTo(w) : w \in RowValues}
AddressRow(v) == {Delete, ChangeTo(v)}
Buttons(p, v) ==
  CASE p = "delivery" -> DeliveryRow(v)  [] p = "categories" -> CategoryRow(v)
    [] p = "brands" -> BrandRow(v)       [] p = "products" -> ProductRow(v)
    [] p = "orders" -> OrderRow(v)       [] p = "reviews" -> ReviewRow(v)
    [] p = "users" -> UserRow(v)         [] p = "addresses" -> AddressRow(v)

HasForm(p) == Traits(p).closes # "never"
ShowsList == panel # NoPanel /\ ~loading /\ ~hidden
\* The address book keeps its form while it loads.
ShowsForm == panel # NoPanel /\ form.open /\ (ShowsList \/ panel = "addresses")

InFlight == {q \in Calls : call[q].at \notin {"idle", "done"}}
\* A request is sent: it is clean if it has the line for itself until it is answered.
Sent(q, c) ==
  call' = [s \in Calls |->
    IF s = q THEN [c EXCEPT !.at = "sent", !.clean = InFlight \subseteq {q}]
    ELSE [call[s] EXCEPT !.clean = FALSE]]
Fresh(q) == call[q].at = "idle" /\ q = CHOOSE s \in Calls : call[s].at = "idle"
Request(q, kind, row, value) ==
  /\ Fresh(q)
  /\ Sent(q, [NoCall0 EXCEPT !.kind = kind, !.panel = panel, !.mount = mounts, !.row = row,
                             !.value = value, !.list = list])
  /\ unsure' = (unsure \/ InFlight # {})

-----------------------------------------------------------------------------
\* A tab of the dashboard, or the account page: the panel before is unmounted.
Open(q, p) ==
  /\ mounts < MaxMounts
  /\ Fresh(q)
  /\ panel' = p /\ mounts' = mounts + 1
  /\ list' = Empty /\ loading' = TRUE /\ hidden' = FALSE /\ form' = NoForm
  /\ Sent(q, [NoCall0 EXCEPT !.kind = "fetch", !.panel = p, !.mount = mounts + 1])
  /\ unsure' = TRUE
  /\ UNCHANGED rows

Press(q, r) ==
  /\ ShowsList /\ list[r] # Unborn
  /\ \E b \in Buttons(panel, list[r]) : Request(q, b.kind, r, b.value)
  /\ UNCHANGED <<panel, mounts, rows, list, loading, hidden, form>>

\* The button that adds: an empty form, or the form as it was left.
Added == IF panel \in {"products", "addresses"} THEN [NoForm EXCEPT !.open = TRUE]
         ELSE [form EXCEPT !.open = TRUE, !.asked = NoRow]
AddRow ==
  /\ ShowsList \/ panel = "addresses"
  /\ panel # NoPanel /\ HasForm(panel) /\ ~form.open
  /\ form' = Added
  /\ UNCHANGED <<panel, mounts, rows, list, loading, hidden, call, unsure>>

EditRow(r) ==
  /\ ShowsList /\ HasForm(panel) /\ list[r] # Unborn
  /\ form' = [open |-> TRUE, editing |-> r, value |-> list[r], asked |-> r]
  /\ UNCHANGED <<panel, mounts, rows, list, loading, hidden, call, unsure>>

Type(v) ==
  /\ ShowsForm /\ form.value # v
  /\ form' = [form EXCEPT !.value = v]
  /\ UNCHANGED <<panel, mounts, rows, list, loading, hidden, call, unsure>>

OnlyHidden(header) == [form EXCEPT !.open = FALSE]
\* The form's own Cancel, and the header's, which in the panel of delivery options
\* only hides the form.
Cancelled(header) == IF panel = "delivery" /\ header THEN [form EXCEPT !.open = FALSE] ELSE NoForm
CancelForm(header) ==
  /\ ShowsForm
  /\ form' = Cancelled(header)
  /\ UNCHANGED <<panel, mounts, rows, list, loading, hidden, call, unsure>>

Submit(q) ==
  /\ ShowsForm /\ form.value # Unborn
  /\ Request(q, IF form.editing = NoRow THEN "create" ELSE "update", form.editing, form.value)
  /\ UNCHANGED <<panel, mounts, rows, list, loading, hidden, form>>

-----------------------------------------------------------------------------
\* The server: a fetch reads the rows; a name that another row has, and a row that
\* is gone, refuse a write, and so does the address book's "Set default", which
\* sends fields that the validation does not know.
Present(p) == [r \in RowIds |-> IF rows[p][r] \in RowValues THEN rows[p][r] ELSE Unborn]
NamedRows == {"delivery", "categories", "brands"}
TakenBy(p, v) == {r \in RowIds : rows[p][r] = v}
Refuses(c) ==
  \/ c.kind # "create" /\ rows[c.panel][c.row] \notin RowValues
  \/ c.panel \in NamedRows /\ c.kind \in {"create", "update"} /\ TakenBy(c.panel, c.value) \ {c.row} # {}
  \/ c.panel = "addresses" /\ c.kind = "change"
Put(p, r, v) == rows' = [rows EXCEPT ![p][r] = v]
Serve(q) ==
  LET c == call[q] IN
  /\ c.at = "sent"
  /\ \/ /\ c.kind = "fetch"
        /\ call' = [call EXCEPT ![q].at = "ok", ![q].list = Present(c.panel)]
        /\ UNCHANGED rows
     \/ /\ c.kind # "fetch" /\ Refuses(c)
        /\ call' = [call EXCEPT ![q].at = "failed"]
        /\ UNCHANGED rows
     \/ /\ c.kind # "fetch" /\ ~Refuses(c)
        /\ call' = [call EXCEPT ![q].at = "ok"]
        /\ \/ c.kind = "create" /\ \E r \in RowIds : rows[c.panel][r] = Unborn /\ Put(c.panel, r, c.value)
           \/ c.kind \in {"update", "change"} /\ Put(c.panel, c.row, c.value)
           \/ c.kind = "delete" /\ Put(c.panel, c.row, Gone0)
  /\ UNCHANGED <<panel, mounts, list, loading, hidden, form, unsure>>

\* A request that is lost, or whose answer is.
Lose(q) ==
  /\ call[q].at \in {"sent", "ok"}
  /\ call' = [call EXCEPT ![q].at = "failed"]
  /\ unsure' = TRUE
  /\ UNCHANGED <<panel, mounts, rows, list, loading, hidden, form>>

-----------------------------------------------------------------------------
\* What the handler does with its answer.
Saves(c) == c.kind \in {"create", "update"}
AfterWrite(c) == IF Saves(c) THEN Traits(c.panel).save ELSE Traits(c.panel).other
LocalEdit(c) == [c.list EXCEPT ![c.row] = IF c.kind = "delete" THEN Unborn ELSE c.value]
Closes(c, when) == Saves(c) /\ Traits(c.panel).closes = when
Ours(q) == call[q].mount = mounts

\* ok to a write: a reload, in the place of the write, or the list edited here.
WriteAnswered(q) ==
  LET c == call[q] IN
  /\ c.at = "ok" /\ c.kind # "fetch" /\ Ours(q)
  /\ IF AfterWrite(c) = "local"
     THEN /\ list' = LocalEdit(c)
          /\ call' = [call EXCEPT ![q] = Answered]
          /\ UNCHANGED loading
     ELSE /\ Sent(q, [c EXCEPT !.kind = "fetch", !.closes = Closes(c, "after")])
          /\ loading' = (loading \/ panel = "addresses")
          /\ UNCHANGED list
  /\ form' = IF Closes(c, "before") THEN NoForm ELSE form
  /\ UNCHANGED <<panel, mounts, rows, hidden, unsure>>

\* finally: whatever came of it.
FetchAnswered(q) ==
  LET c == call[q] IN
  /\ c.at \in {"ok", "failed"} /\ c.kind = "fetch" /\ Ours(q)
  /\ IF c.at = "ok"
     THEN /\ list' = c.list
          /\ unsure' = (unsure /\ ~c.clean)
          /\ UNCHANGED hidden
     ELSE /\ hidden' = (hidden \/ Traits(panel).hides)
          /\ unsure' = TRUE
          /\ UNCHANGED list
  /\ loading' = FALSE
  /\ form' = IF c.closes THEN NoForm ELSE form
  /\ call' = [call EXCEPT ![q] = Answered]
  /\ UNCHANGED <<panel, mounts, rows>>

\* A message, and the list and the form as they were.
WriteRefused(q) ==
  /\ call[q].at = "failed" /\ call[q].kind # "fetch" /\ Ours(q)
  /\ call' = [call EXCEPT ![q] = Answered]
  /\ UNCHANGED <<panel, mounts, rows, list, loading, hidden, form, unsure>>

AnsweredLate(q) ==
  /\ call[q].at \in {"ok", "failed"} /\ ~Ours(q)
  /\ call' = [call EXCEPT ![q] = Answered]
  /\ UNCHANGED <<panel, mounts, rows, list, loading, hidden, form, unsure>>

PanelsNext ==
  \/ \E q \in Calls :
       \/ Submit(q) \/ Serve(q) \/ Lose(q) \/ WriteAnswered(q) \/ FetchAnswered(q) \/ WriteRefused(q)
       \/ AnsweredLate(q)
       \/ \E p \in Panels : Open(q, p)
       \/ \E r \in RowIds : Press(q, r)
  \/ \E r \in RowIds : EditRow(r)
  \/ \E v \in RowValues : Type(v)
  \/ \E header \in BOOLEAN : CancelForm(header)
  \/ AddRow
PanelsSpec == PanelsInit /\ [][PanelsNext]_panelVars

-----------------------------------------------------------------------------
\* Once everything is answered a panel shows what the server has, whether its
\* handlers reload or edit the list they captured, unless requests overlapped or
\* one was lost, and no fetch had the line for itself since.
SettledListIsTheServers ==
  ShowsList /\ InFlight = {} /\ ~unsure => list = Present(panel)

\* A form saves to the row whose Edit opened it, and one that was opened to add
\* adds, whatever handlers closed or reset the form in between; not so in the panel
\* of delivery options, whose Cancel leaves the row it was editing.
FormSavesWhatItShows ==
  form.open /\ panel # "delivery" => form.editing = form.asked

\* The spinner is there for a fetch that will be answered.
SpinnerHasAFetch ==
  loading => \E q \in InFlight : call[q].kind = "fetch" /\ Ours(q)

\* At rest a list is the server's, a form saves what it shows, and no spinner turns for nothing.
PanelsAgreeWithTheServer == SettledListIsTheServers /\ FormSavesWhatItShows /\ SpinnerHasAFetch
=============================================================================
