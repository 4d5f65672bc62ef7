------------------------------ MODULE SearchBox ------------------------------
(***************************************************************************)
(* The search of the navigation bar: suggestions asked for 200 ms after    *)
(* the last key, in a list that the keyboard and the mouse walk through.   *)
(* A pending timer is cancelled by the next key, a request is not.         *)
(***************************************************************************)
EXTENDS Integers

CONSTANTS Terms,        \* bound: what is typed and is long enough to ask about
          SuggestedFor, \* the number of suggestions for each
          NoTerm        \* fewer than two letters

VARIABLES
  term, tick,               \* what is typed; its timer runs
  lookups,                  \* the terms asked about and not answered
  hints, hintsOpen, active, \* the term the suggestions are for, whether they show, and the one marked
  lookedFor,                \* what the last search was for: a term, or a suggestion of it
  strayed                   \* ghost: a key or a search came while a request was under way, or one was lost

searchBoxVars == <<term, tick, lookups, hints, hintsOpen, active, lookedFor, strayed>>

ASSUME SearchBoxAssumption == SuggestedFor \in [Terms -> Nat] /\ NoTerm \notin Terms

Typed == Terms \cup {NoTerm}
Count(t) == IF t = NoTerm THEN 0 ELSE SuggestedFor[t]
Some == hintsOpen /\ Count(hints) > 0

SearchBoxTypeOK ==
  /\ {term, hints} \subseteq Typed /\ {tick, hintsOpen, strayed} \subseteq BOOLEAN
  /\ lookups \subseteq Terms
  /\ active \in Nat \cup {-1}
  /\ lookedFor \in [of : Typed, index : Nat \cup {-1}] /\ lookedFor.index < Count(lookedFor.of)

SearchBoxInit ==
  /\ term = NoTerm /\ tick = FALSE /\ lookups = {}
  /\ hints = NoTerm /\ hintsOpen = FALSE /\ active = -1
  /\ lookedFor = [of |-> NoTerm, index |-> -1] /\ strayed = FALSE

HintsAfter(t) == IF t = NoTerm THEN NoTerm ELSE hints
TypeTerm(t) ==
  /\ t # term
  /\ term' = t /\ tick' = (t # NoTerm)
  /\ hints' = HintsAfter(t)
  /\ active' = IF t = NoTerm THEN -1 ELSE active
  /\ strayed' = (lookups # {})
  /\ UNCHANGED <<lookups, hintsOpen, lookedFor>>

TimerRuns ==
  /\ tick
  /\ tick' = FALSE /\ lookups' = lookups \cup {term}
  /\ UNCHANGED <<term, hints, hintsOpen, active, lookedFor, strayed>>

\* The server's answer is shown whatever is typed by now, and opens the list.
Suggested(t) ==
  /\ t \in lookups
  /\ lookups' = lookups \ {t}
  /\ hints' = t /\ hintsOpen' = TRUE /\ active' = -1
  /\ UNCHANGED <<term, tick, lookedFor, strayed>>

SuggestFails(t) ==
  /\ t \in lookups
  /\ lookups' = lookups \ {t}
  /\ hints' = NoTerm /\ strayed' = TRUE
  /\ UNCHANGED <<term, tick, hintsOpen, active, lookedFor>>

Search(of, index) ==
  /\ lookedFor' = [of |-> of, index |-> index]
  /\ hintsOpen' = FALSE /\ active' = -1
  /\ strayed' = (strayed \/ lookups # {})
  /\ UNCHANGED <<term, tick, lookups, hints>>

\* Enter takes the marked suggestion when there is one, and a click the one under it.
PressEnter ==
  \/ Some /\ active \in 0..Count(hints) - 1 /\ Search(hints, active)
  \/ ~(Some /\ active \in 0..Count(hints) - 1) /\ Search(term, -1)
UpPast == active - 1
Up == IF active > -1 THEN active - 1 ELSE -1
Down == IF active + 1 < Count(hints) THEN active + 1 ELSE Count(hints) - 1
Walk ==
  /\ Some
  /\ active' \in {Down, Up} \cup (0..Count(hints) - 1)
  /\ UNCHANGED <<term, tick, lookups, hints, hintsOpen, lookedFor, strayed>>

CloseHints ==
  /\ hintsOpen' = FALSE /\ active' = -1
  /\ UNCHANGED <<term, tick, lookups, hints, lookedFor, strayed>>
FocusBox ==
  /\ Count(hints) > 0 /\ hintsOpen' = TRUE
  /\ UNCHANGED <<term, tick, lookups, hints, active, lookedFor, strayed>>

SearchBoxNext ==
  \/ \E t \in Typed : TypeTerm(t) \/ Suggested(t) \/ SuggestFails(t)
  \/ TimerRuns \/ PressEnter \/ Walk \/ CloseHints \/ FocusBox
SearchBoxSpec == SearchBoxInit /\ [][SearchBoxNext]_searchBoxVars

-----------------------------------------------------------------------------
\* The suggestion that is marked is one of those that show, whenever a shorter list comes.
MarkedIsShown == Some => active \in -1..Count(hints) - 1

\* At rest the suggestions are for what is typed, unless a request was overtaken or lost.
HintsAreForTheTerm == lookups = {} /\ ~tick /\ ~strayed => hints = term
==============================================================================
