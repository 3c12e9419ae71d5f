-------------------------- MODULE SuggestionPicker --------------------------
(***************************************************************************)
(* The typeahead every picker of the frontend is made of: the text in the  *)
(* field, the chosen id, the list under it, and the requests that fill the *)
(* list: sent a moment after the last change of the text, superseding one  *)
(* another, answered in any order.  As every picker uses it: only an item  *)
(* can be chosen, no minimum length, and the list closes on a choice.      *)
(*                                                                         *)
(* React Aria's combo box (external) opens and closes the list and reports *)
(* what was typed and picked.  An item's label is the item.                *)
(***************************************************************************)
CONSTANTS
  Items,    \* what can be chosen
  Typed,    \* what else can be typed
  Blank,    \* the empty text
  Answers,  \* what the API answers to each text
  Nothing   \* no value; no text a list belongs to

Texts == Items \cup Typed \cup {Blank}

ASSUME SuggestionPickerAssumption ==
  /\ Answers \in [Texts -> SUBSET Items]
  /\ Nothing \notin Texts /\ Blank \notin Items

VARIABLES
  value,     \* the id the form holds
  text,      \* the text in the field
  picked,    \* selectedItemRef: the item the text was taken from
  opened,    \* whether the list is open
  timer,     \* whether a request is about to be sent
  requests,  \* the requests not answered; latest: not superseded
  list,      \* the suggestions shown
  listOf,    \* history: the text they are the answer to
  loading    \* whether the list is said to be loading

pickerVars == <<value, text, picked, opened, timer, requests, list, listOf, loading>>

-----------------------------------------------------------------------------
\* The chosen item among the suggestions gives the field its label.
Synced(v, t, items) == IF v \in items THEN v ELSE t

\* The effects that follow a change of the choice, the text or the list: the
\* label is copied and a changed text or a list just opened sets the timer.
After(v, t, ref, items, open) ==
  LET label == Synced(v, t, items) IN
  /\ value' = v /\ text' = label
  /\ picked' = IF v \in items THEN v ELSE ref
  /\ list' = items
  /\ opened' = open
  /\ timer' = (open /\ (timer \/ ~opened \/ label /= text))

Cleared == listOf' = Nothing

Send ==
  /\ timer
  /\ timer' = FALSE
  /\ requests' = {[query |-> text, latest |-> TRUE]} \cup
                 {[q EXCEPT !.latest = FALSE] : q \in requests}
  /\ loading' = TRUE
  /\ UNCHANGED <<value, text, picked, opened, list, listOf>>

HeardAlways(q) == TRUE
Heard(q) == q.latest

\* An answer, or an error, which empties the list.
Answer(q, items) ==
  /\ q \in requests
  /\ requests' = requests \ {q}
  /\ IF Heard(q)
     THEN /\ After(value, text, picked, items, opened)
          /\ listOf' = q.query
          /\ loading' = FALSE
     ELSE UNCHANGED <<value, text, picked, opened, timer, list, listOf, loading>>

\* The parent has resolved the id into an item.
Mirror ==
  /\ value /= Nothing /\ picked = Nothing
  /\ After(value, IF text = Blank THEN value ELSE text, value, list, opened)
  /\ UNCHANGED <<requests, listOf, loading>>

SelectItem(i) ==
  /\ opened /\ i \in list
  /\ After(i, i, i, list, FALSE)
  /\ UNCHANGED <<requests, listOf, loading>>

Clear ==
  /\ text /= Blank
  /\ After(Nothing, Blank, Nothing, {}, TRUE)
  /\ Cleared
  /\ loading' = TRUE
  /\ UNCHANGED requests

HandleInputChange(t) ==
  /\ t /= text
  /\ IF picked \notin {Nothing, t}
     THEN After(Nothing, t, Nothing, list, TRUE)
     ELSE After(value, t, picked, list, TRUE)
  /\ loading' = (loading \/ ~opened)
  /\ UNCHANGED <<requests, listOf>>

OpenList ==
  /\ ~opened
  /\ After(value, text, picked, list, TRUE)
  /\ loading' = TRUE
  /\ UNCHANGED <<requests, listOf>>

CloseList ==
  /\ opened
  /\ After(value, text, picked, list, FALSE)
  /\ UNCHANGED <<requests, listOf, loading>>

-----------------------------------------------------------------------------
\* A form starts from a record, with an id and no text, or from nothing.
PickerInit ==
  /\ value \in Items \cup {Nothing}
  /\ text = Blank /\ picked = Nothing
  /\ opened = FALSE /\ timer = FALSE /\ requests = {}
  /\ list = {} /\ listOf = Nothing /\ loading = TRUE

PickerNext ==
  \/ Send \/ Mirror \/ Clear \/ OpenList \/ CloseList
  \/ \E q \in requests : Answer(q, Answers[q.query]) \/ Answer(q, {})
  \/ \E i \in list : SelectItem(i)
  \/ \E t \in Texts : HandleInputChange(t)

PickerSpec == PickerInit /\ [][PickerNext]_pickerVars

-----------------------------------------------------------------------------
\* Once nothing is about to be asked and no request that counts is out, an open
\* list is the answer to the text above it and is not said to be loading, in
\* whatever order texts were typed, chosen and cleared and requests answered
\* (SuggestionPicker.tsx:99-101: "the cancellation of stale requests").
PickerSettles ==
  opened /\ ~timer /\ ~(\E q \in requests : q.latest) => listOf = text /\ ~loading
=============================================================================
