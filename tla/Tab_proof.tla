----------------------------- MODULE Tab_proof -----------------------------
(***************************************************************************)
(* Proofs about the screens of a tab, for any number of edits, calls,      *)
(* tasks, ranges, teams, people, moves and items.  Each screen is proved   *)
(* about alone: the tab is their sum.                                      *)
(***************************************************************************)
EXTENDS Tab, TLAPS

-----------------------------------------------------------------------------
(* The sum.                                                                *)

\* A tab is each of its screens and pauses of it: what is proved of a screen
\* alone holds in the tab (the routes of the frontend mount one at a time).
THEOREM TabIsItsScreens == Spec => FormSpec /\ BoardSpec /\ DrawerSpec /\ PickerSpec
<1>1. Init => FormInit /\ BoardInit /\ DrawerInit /\ PickerInit
  BY DEF Init
<1>2. [Next]_vars => [FormNext]_formVars
  BY DEF Next, Builder, Board, Drawer, Picker, vars
<1>3. [Next]_vars => [BoardNext]_boardVars
  BY DEF Next, Builder, Board, Drawer, Picker, vars
<1>4. [Next]_vars => [DrawerNext]_drawerVars
  BY DEF Next, Builder, Board, Drawer, Picker, vars
<1>5. [Next]_vars => [PickerNext]_pickerVars
  BY DEF Next, Builder, Board, Drawer, Picker, vars
<1>. QED
  BY <1>1, <1>2, <1>3, <1>4, <1>5, PTL
     DEF Spec, FormSpec, BoardSpec, DrawerSpec, PickerSpec

-----------------------------------------------------------------------------
(* The picker.                                                             *)

PickerTypeOK ==
  /\ opened \in BOOLEAN /\ timer \in BOOLEAN /\ loading \in BOOLEAN
  /\ requests \subseteq [query : Texts, latest : BOOLEAN]
  /\ list \subseteq Items

\* One request at most counts, and it asks for the text that is there unless
\* another is about to be sent.
OneLatest == \A p, q \in requests : p.latest /\ q.latest => p = q

AsksForTheText ==
  opened /\ ~timer => \A q \in requests : q.latest => q.query = text

TextTypeOK == text \in Texts /\ value \in Items \cup {Nothing} /\ picked \in Items \cup {Nothing}

PickerInv == PickerTypeOK /\ TextTypeOK /\ OneLatest /\ AsksForTheText /\ PickerSettles

\* A change that leaves the list open with no request to come has changed
\* nothing the list depends on.
LEMMA AfterQuiet ==
  ASSUME NEW v, NEW t, NEW ref, NEW items, NEW isOpen \in BOOLEAN,
         After(v, t, ref, items, isOpen)
  PROVE  opened' /\ ~timer' => opened /\ ~timer /\ text' = text
BY DEF After

LEMMA AfterTypes ==
  ASSUME NEW v \in Items \cup {Nothing}, NEW t \in Texts, NEW ref \in Items \cup {Nothing},
         NEW items \in SUBSET Items, NEW isOpen, After(v, t, ref, items, isOpen)
  PROVE  TextTypeOK' /\ list' \subseteq Items /\ timer' \in BOOLEAN /\ opened' = isOpen
BY DEF After, Synced, TextTypeOK, Texts

LEMMA PickerStep == PickerInv /\ [PickerNext]_pickerVars => PickerInv'
<1> SUFFICES ASSUME PickerInv, [PickerNext]_pickerVars PROVE PickerInv'
  OBVIOUS
<1> USE DEF PickerInv, PickerTypeOK
<1>1. ASSUME Send PROVE PickerInv'
  <2> DEFINE new == [query |-> text, latest |-> TRUE]
             old == {[q EXCEPT !.latest = FALSE] : q \in requests}
  <2>1. requests' = {new} \cup old
    BY <1>1 DEF Send
  <2>2. new \in [query : Texts, latest : BOOLEAN] /\ old \subseteq [query : Texts, latest : BOOLEAN]
    BY DEF TextTypeOK
  <2>3. PickerTypeOK' /\ TextTypeOK'
    BY <1>1, <2>1, <2>2 DEF Send, TextTypeOK
  <2>4. \A q \in requests' : q.latest => q = new
    <3>1. \A q \in old : ~q.latest
      OBVIOUS
    <3>. QED
      BY <2>1, <3>1
  <2>5. new \in requests' /\ new.latest /\ new.query = text /\ text' = text
    BY <1>1, <2>1 DEF Send
  <2>6. OneLatest'
    BY <2>4 DEF OneLatest
  <2>7. AsksForTheText'
    BY <2>4, <2>5 DEF AsksForTheText
  <2>8. PickerSettles'
    BY <2>5 DEF PickerSettles
  <2>. QED
    BY <2>3, <2>6, <2>7, <2>8
<1>2. ASSUME NEW q \in requests, NEW items \in SUBSET Items, Answer(q, items)
      PROVE  PickerInv'
  <2>1. requests' = requests \ {q} /\ OneLatest' /\ PickerTypeOK'
    BY <1>2, AfterTypes DEF Answer, OneLatest, TextTypeOK
  <2>2. CASE Heard(q)
    <3>1. After(value, text, picked, items, opened) /\ listOf' = q.query /\ loading' = FALSE
      BY <1>2, <2>2 DEF Answer
    <3>2. TextTypeOK'
      BY <3>1, AfterTypes DEF TextTypeOK
    <3>3. ~(\E p \in requests' : p.latest)
      BY <2>1, <2>2 DEF Heard, OneLatest
    <3>4. opened' /\ ~timer' => opened /\ ~timer /\ text' = text
      BY <3>1 DEF After
    <3>. QED
      BY <2>1, <2>2, <3>1, <3>2, <3>3, <3>4 DEF Heard, AsksForTheText, PickerSettles
  <2>3. CASE ~Heard(q)
    BY <1>2, <2>1, <2>3 DEF Answer, Heard, TextTypeOK, AsksForTheText, PickerSettles
  <2>. QED
    BY <2>2, <2>3
<1>3. ASSUME NEW v \in Items \cup {Nothing}, NEW t \in Texts, NEW ref \in Items \cup {Nothing},
             NEW items \in SUBSET Items, NEW isOpen \in BOOLEAN,
             After(v, t, ref, items, isOpen), UNCHANGED requests, loading' \in BOOLEAN,
             opened' /\ ~timer' => UNCHANGED <<listOf, loading>>
      PROVE  PickerInv'
  <2>1. opened' /\ ~timer' => opened /\ ~timer /\ text' = text
    BY <1>3, AfterQuiet
  <2>2. TextTypeOK' /\ PickerTypeOK'
    BY <1>3, AfterTypes
  <2>. QED
    BY <1>3, <2>1, <2>2 DEF OneLatest, AsksForTheText, PickerSettles
<1>4. ASSUME Mirror PROVE PickerInv'
  <2> DEFINE t == IF text = Blank THEN value ELSE text
  <2>1. value \in Items /\ t \in Texts
    BY <1>4 DEF Mirror, TextTypeOK, Texts
  <2>2. After(value, t, value, list, opened) /\ UNCHANGED <<requests, listOf, loading>>
    BY <1>4 DEF Mirror
  <2>. QED
    BY <1>3, <2>1, <2>2
<1>5. ASSUME NEW i \in list, SelectItem(i) PROVE PickerInv'
  BY <1>3, <1>5 DEF SelectItem, Texts
<1>6. ASSUME Clear PROVE PickerInv'
  <2>1. opened' /\ timer'
    BY <1>6 DEF Clear, After, Synced
  <2>. QED
    BY <1>3, <1>6, <2>1 DEF Clear, Texts
<1>7. ASSUME NEW t \in Texts, HandleInputChange(t) PROVE PickerInv'
  <2>1. opened' /\ ~timer' => UNCHANGED <<listOf, loading>>
    BY <1>7 DEF HandleInputChange, After
  <2>. QED
    BY <1>3, <1>7, <2>1 DEF HandleInputChange, TextTypeOK
<1>8. ASSUME OpenList PROVE PickerInv'
  <2>1. opened' /\ timer'
    BY <1>8 DEF OpenList, After
  <2>. QED
    BY <1>3, <1>8, <2>1 DEF OpenList, TextTypeOK
<1>9. ASSUME CloseList PROVE PickerInv'
  BY <1>3, <1>9 DEF CloseList, TextTypeOK
<1>10. CASE UNCHANGED pickerVars
  BY <1>10 DEF pickerVars, TextTypeOK, OneLatest, AsksForTheText, PickerSettles
<1>11. ASSUME NEW q \in requests PROVE Answers[q.query] \in SUBSET Items
  BY SuggestionPickerAssumption
<1>. QED
  BY <1>1, <1>2, <1>4, <1>5, <1>6, <1>7, <1>8, <1>9, <1>10, <1>11 DEF PickerNext

LEMMA PickerStart == PickerInit => PickerInv
BY DEF PickerInit, PickerInv, PickerTypeOK, TextTypeOK, OneLatest, AsksForTheText,
       PickerSettles, Texts

\* Whatever is typed, chosen and cleared and however requests are answered, an
\* open list at rest is the answer to its text (SuggestionPicker.tsx:169-213).
THEOREM PickerAlwaysSettles == Spec => []PickerSettles
<1>1. PickerInv => PickerSettles
  BY DEF PickerInv
<1>. QED
  BY <1>1, PickerStart, PickerStep, TabIsItsScreens, PTL DEF PickerSpec

-----------------------------------------------------------------------------
(* The task board.                                                         *)

Events == [task : Tasks, done : BOOLEAN, by : Ticks \cup {NoTick}]

BoardTypeOK ==
  /\ completed \subseteq Tasks /\ listed \subseteq Tasks
  /\ behind \in Seq(Events)
  /\ range \in Ranges
  /\ board \in [Ranges -> SUBSET Tasks]
  /\ fetch \in [Ranges -> {NoTick} \cup Reads]
  /\ tick \in [Ticks -> {NoTick} \cup Asked \cup {Waiting}]
  /\ outdated \in BOOLEAN

\* The last change of a task that the projection has not taken in says what
\* the task is; when there is none the projection says it.
LastSays ==
  \A i \in 1..Len(behind) :
    (\A j \in (i + 1)..Len(behind) : behind[j].task /= behind[i].task)
      => behind[i].done = (behind[i].task \in completed)

UpToDate ==
  \A t \in Tasks :
    (\A i \in 1..Len(behind) : behind[i].task /= t) => (t \in completed <=> t \in listed)

\* What the projection has not taken in was done by a tick that still waits:
\* a wait that ran out too early is excepted.
BehindIsOurs ==
  ~outdated => \A i \in 1..Len(behind) :
    /\ behind[i].by \in Ticks
    /\ tick[behind[i].by] /= NoTick
    /\ tick[behind[i].by].phase \in {"answered", "waiting"}

NoneUnderWay == \A k \in Ticks : ~UnderWayTick(k)

AtRest ==
  ~outdated /\ NoneUnderWay =>
    /\ ~Reading(range) => board[range] = completed
    /\ Reading(range) /\ fetch[range].answered => fetch[range].done = completed

BoardInv == BoardTypeOK /\ LastSays /\ UpToDate /\ BehindIsOurs /\ AtRest

LEMMA PutType ==
  ASSUME NEW s \in SUBSET Tasks, NEW t \in Tasks, NEW done
  PROVE  Put(s, t, done) \in SUBSET Tasks
BY DEF Put

LEMMA ChangeKeeps ==
  ASSUME BoardTypeOK, LastSays, UpToDate, NEW t \in Tasks, NEW done \in BOOLEAN,
         NEW by \in Ticks \cup {NoTick}, Change(t, done, by)
  PROVE  /\ completed' \subseteq Tasks /\ listed' \subseteq Tasks /\ behind' \in Seq(Events)
         /\ Len(behind') = Len(behind) + 1
         /\ behind'[Len(behind) + 1] = [task |-> t, done |-> done, by |-> by]
         /\ \A i \in 1..Len(behind) : behind'[i] = behind[i]
         /\ LastSays' /\ UpToDate'
<1> DEFINE e == [task |-> t, done |-> done, by |-> by]
<1>1. e \in Events /\ behind \in Seq(Events) /\ behind' = Append(behind, e)
  BY DEF Change, Events, BoardTypeOK
<1>2. /\ behind' \in Seq(Events) /\ Len(behind') = Len(behind) + 1
      /\ Len(behind) \in Nat
      /\ behind'[Len(behind) + 1] = e
      /\ \A i \in 1..Len(behind) : behind'[i] = behind[i]
  BY <1>1
<1>3. completed' = Put(completed, t, done) /\ listed' = listed
  BY DEF Change
<1>4. completed' \subseteq Tasks /\ listed' \subseteq Tasks
  BY <1>3, PutType DEF BoardTypeOK
<1>5. done = (t \in completed') /\ \A u \in Tasks \ {t} : u \in completed' <=> u \in completed
  BY <1>3 DEF Put
<1>6. LastSays'
  <2> SUFFICES ASSUME NEW i \in 1..Len(behind'),
                      \A j \in (i + 1)..Len(behind') : behind'[j].task /= behind'[i].task
               PROVE  behind'[i].done = (behind'[i].task \in completed')
    BY DEF LastSays
  <2>1. CASE i = Len(behind) + 1
    BY <1>2, <1>5, <2>1
  <2>2. CASE i \in 1..Len(behind)
    <3>1. behind'[i] = behind[i] /\ behind[i] \in Events
      BY <1>1, <1>2, <2>2
    <3>2. Len(behind) + 1 \in (i + 1)..Len(behind')
      BY <1>2, <2>2
    <3>3. behind[i].task /= t /\ behind[i].task \in Tasks
      BY <1>2, <3>1, <3>2 DEF Events
    <3>4. \A j \in (i + 1)..Len(behind) : behind[j].task /= behind[i].task
      BY <1>2, <2>2, <3>1
    <3>. QED
      BY <1>5, <2>2, <3>1, <3>3, <3>4 DEF LastSays
  <2>. QED
    BY <1>2, <2>1, <2>2
<1>7. UpToDate'
  <2> SUFFICES ASSUME NEW u \in Tasks, \A i \in 1..Len(behind') : behind'[i].task /= u
               PROVE  u \in completed' <=> u \in listed'
    BY DEF UpToDate
  <2>1. u /= t
    BY <1>2
  <2>2. \A i \in 1..Len(behind) : behind[i].task /= u
    BY <1>2
  <2>. QED
    BY <1>3, <1>5, <2>1, <2>2 DEF UpToDate
<1>. QED
  BY <1>2, <1>4, <1>6, <1>7

LEMMA ProjectKeeps ==
  ASSUME BoardInv, Project
  PROVE  BoardInv'
<1> DEFINE n == Len(behind)
<1>1. behind \in Seq(Events) /\ behind /= <<>> /\ behind' = Tail(behind)
  BY DEF BoardInv, BoardTypeOK, Project
<1>2. /\ n \in Nat /\ n > 0 /\ Len(behind') = n - 1 /\ behind' \in Seq(Events)
      /\ \A i \in 1..(n - 1) : behind'[i] = behind[i + 1]
      /\ Head(behind) = behind[1] /\ behind[1] \in Events
  BY <1>1
<1>3. listed' = Put(listed, behind[1].task, behind[1].done) /\ completed' = completed
  BY <1>2 DEF Project
<1>4. BoardTypeOK'
  BY <1>2, <1>3, PutType DEF BoardInv, BoardTypeOK, Project, Events
<1>5. LastSays'
  <2> SUFFICES ASSUME NEW i \in 1..(n - 1),
                      \A j \in (i + 1)..(n - 1) : behind'[j].task /= behind'[i].task
               PROVE  behind'[i].done = (behind'[i].task \in completed)
    BY <1>2, <1>3 DEF LastSays
  <2>1. i + 1 \in 1..n /\ behind'[i] = behind[i + 1]
    BY <1>2
  <2>2. ASSUME NEW j \in (i + 2)..n PROVE behind[j].task /= behind[i + 1].task
    <3>1. j - 1 \in (i + 1)..(n - 1) /\ behind'[j - 1] = behind[(j - 1) + 1] /\ (j - 1) + 1 = j
      BY <1>2
    <3>. QED
      BY <2>1, <3>1
  <2>. QED
    BY <1>2, <2>1, <2>2 DEF BoardInv, LastSays
<1>6. UpToDate'
  <2> SUFFICES ASSUME NEW t \in Tasks, \A i \in 1..(n - 1) : behind'[i].task /= t
               PROVE  t \in completed <=> t \in listed'
    BY <1>2, <1>3 DEF UpToDate
  <2>1. ASSUME NEW j \in 2..n PROVE behind[j].task /= t
    <3>1. j - 1 \in 1..(n - 1) /\ behind'[j - 1] = behind[(j - 1) + 1] /\ (j - 1) + 1 = j
      BY <1>2
    <3>. QED
      BY <3>1
  <2>2. CASE behind[1].task = t
    <3>1. 1 \in 1..n /\ (1 + 1)..n = 2..n
      BY <1>2
    <3>2. behind[1].done = (t \in completed)
      BY <2>1, <2>2, <3>1 DEF BoardInv, LastSays
    <3>. QED
      BY <1>3, <2>2, <3>2 DEF Put
  <2>3. CASE behind[1].task /= t
    <3>1. \A j \in 1..n : behind[j].task /= t
      BY <1>2, <2>1, <2>3
    <3>. QED
      BY <1>3, <2>3, <3>1 DEF BoardInv, UpToDate, Put
  <2>. QED
    BY <2>2, <2>3
<1>7. BehindIsOurs'
  <2> SUFFICES ASSUME ~outdated', NEW i \in 1..(n - 1)
               PROVE  /\ behind'[i].by \in Ticks
                      /\ tick'[behind'[i].by] /= NoTick
                      /\ tick'[behind'[i].by].phase \in {"answered", "waiting"}
    BY <1>2 DEF BehindIsOurs
  <2>1. i + 1 \in 1..n /\ behind'[i] = behind[i + 1]
    BY <1>2
  <2>. QED
    BY <2>1 DEF BoardInv, BehindIsOurs, Project
<1>8. AtRest'
  BY DEF BoardInv, AtRest, NoneUnderWay, UnderWayTick, Reading, NoFetch, Project
<1>. QED
  BY <1>4, <1>5, <1>6, <1>7, <1>8 DEF BoardInv

\* At rest the projection has taken everything in.
LEMMA RestIsCurrent ==
  ASSUME BoardInv, ~outdated, NoneUnderWay
  PROVE  behind = <<>> /\ listed = completed
<1>1. Len(behind) = 0
  <2>1. Len(behind) \in Nat
    BY DEF BoardInv, BoardTypeOK
  <2>2. \A i \in 1..Len(behind) : FALSE
    BY DEF BoardInv, BehindIsOurs, NoneUnderWay, UnderWayTick
  <2>. QED
    BY <2>1, <2>2
<1>2. behind = <<>>
  BY <1>1 DEF BoardInv, BoardTypeOK
<1>3. \A t \in Tasks : t \in completed <=> t \in listed
  BY <1>1 DEF BoardInv, UpToDate
<1>. QED
  BY <1>2, <1>3 DEF BoardInv, BoardTypeOK

LEMMA PhaseTypes ==
  ASSUME BoardTypeOK, NEW k \in Ticks
  PROVE  /\ Phase(k, "sent") \/ Phase(k, "answered") => tick[k] \in Asked
BY DEF BoardTypeOK, Phase, UnderWayTick, Asked, Waiting

LEMMA ServeTickKeeps ==
  ASSUME BoardInv, NEW k \in Ticks, ServeTick(k)
  PROVE  BoardInv'
<1> DEFINE n == Len(behind)
<1>1. tick[k] \in Asked /\ tick[k].phase = "sent"
  BY PhaseTypes DEF ServeTick, Phase, BoardInv
<1>2. tick[k].task \in Tasks /\ tick[k].done \in BOOLEAN
  BY <1>1 DEF Asked
<1>3. /\ completed' \subseteq Tasks /\ listed' \subseteq Tasks /\ behind' \in Seq(Events)
      /\ Len(behind') = n + 1 /\ n \in Nat
      /\ behind'[n + 1].by = k
      /\ \A i \in 1..n : behind'[i] = behind[i]
      /\ LastSays' /\ UpToDate'
  <2>1. Change(tick[k].task, tick[k].done, k) /\ n \in Nat
    BY DEF ServeTick, BoardInv, BoardTypeOK
  <2>2. BoardTypeOK /\ LastSays /\ UpToDate /\ k \in Ticks \cup {NoTick}
    BY DEF BoardInv
  <2>3. behind'[n + 1] = [task |-> tick[k].task, done |-> tick[k].done, by |-> k]
    BY <1>2, <2>1, <2>2, ChangeKeeps
  <2>. QED
    BY <1>2, <2>1, <2>2, <2>3, ChangeKeeps
<1>4. /\ tick' = [tick EXCEPT ![k].phase = "answered"]
      /\ tick'[k].phase = "answered" /\ tick'[k] \in Asked /\ tick'[k] /= NoTick
      /\ \A l \in Ticks \ {k} : tick'[l] = tick[l]
  <2>1. tick' = [tick EXCEPT ![k].phase = "answered"]
    BY DEF ServeTick
  <2>2. tick'[k] = [tick[k] EXCEPT !.phase = "answered"] /\ \A l \in Ticks \ {k} : tick'[l] = tick[l]
    BY <2>1 DEF BoardInv, BoardTypeOK
  <2>3. tick'[k] \in Asked /\ tick'[k].phase = "answered"
    BY <1>1, <2>2 DEF Asked
  <2>4. NoTick \notin Asked
    BY TaskBoardAssumption
  <2>. QED
    BY <2>1, <2>2, <2>3, <2>4
<1>5. BoardTypeOK'
  BY <1>3, <1>4 DEF ServeTick, BoardInv, BoardTypeOK
<1>6. BehindIsOurs'
  <2> SUFFICES ASSUME ~outdated', NEW i \in 1..(n + 1)
               PROVE  /\ behind'[i].by \in Ticks
                      /\ tick'[behind'[i].by] /= NoTick
                      /\ tick'[behind'[i].by].phase \in {"answered", "waiting"}
    BY <1>3 DEF BehindIsOurs
  <2>1. CASE i = n + 1
    BY <1>3, <1>4, <2>1
  <2>2. CASE i \in 1..n
    BY <1>3, <1>4, <2>2 DEF BoardInv, BehindIsOurs, ServeTick
  <2>. QED
    BY <1>3, <2>1, <2>2
<1>7. ~NoneUnderWay'
  BY <1>4 DEF NoneUnderWay, UnderWayTick
<1>. QED
  BY <1>3, <1>5, <1>6, <1>7 DEF BoardInv, AtRest

\* A tick that goes on to wait, put back or not.
LEMMA WaitKeeps ==
  ASSUME BoardInv, NEW k \in Ticks, Phase(k, "sent") \/ Phase(k, "answered"), Wait(k),
         board' \in [Ranges -> SUBSET Tasks], UNCHANGED <<api, range, fetch, outdated>>
  PROVE  BoardInv'
<1>1. /\ tick'[k] = Waiting /\ tick'[k] /= NoTick /\ tick'[k].phase = "waiting"
      /\ \A l \in Ticks \ {k} : tick'[l] = tick[l]
  BY TaskBoardAssumption DEF Wait, BoardInv, BoardTypeOK, Waiting
<1>2. BoardTypeOK'
  BY DEF Wait, BoardInv, BoardTypeOK, api
<1>3. LastSays' /\ UpToDate'
  BY DEF BoardInv, LastSays, UpToDate, api
<1>4. BehindIsOurs'
  BY <1>1 DEF BoardInv, BehindIsOurs, api
<1>5. ~NoneUnderWay'
  BY <1>1 DEF NoneUnderWay, UnderWayTick
<1>. QED
  BY <1>2, <1>3, <1>4, <1>5 DEF BoardInv, AtRest

LEMMA BoardStep == BoardInv /\ [BoardNext]_boardVars => BoardInv'
<1> SUFFICES ASSUME BoardInv, [BoardNext]_boardVars PROVE BoardInv'
  OBVIOUS
<1> USE DEF BoardInv
<1>0. ASSUME UNCHANGED <<completed, behind, listed>> PROVE LastSays' /\ UpToDate'
  BY <1>0 DEF LastSays, UpToDate
<1>a. ASSUME UNCHANGED <<behind, tick>>, outdated => outdated' \/ behind = <<>>
      PROVE  BehindIsOurs'
  BY <1>a DEF BehindIsOurs
<1>b. NewFetch \in Reads /\ NewFetch /= NoFetch /\ ~NewFetch.answered
  <2>1. NewFetch \in Reads /\ ~NewFetch.answered
    BY DEF NewFetch, Reads
  <2>. QED
    BY <2>1, TaskBoardAssumption DEF NoFetch
<1>1. CASE Project
  BY <1>1, ProjectKeeps
<1>2. ASSUME NEW t \in Tasks, TickElsewhere(t) PROVE BoardInv'
  <2>1. Change(t, t \notin completed, NoTick) /\ outdated'
    BY <1>2 DEF TickElsewhere
  <2>2. completed' \subseteq Tasks /\ listed' \subseteq Tasks /\ behind' \in Seq(Events)
        /\ LastSays' /\ UpToDate'
    BY <2>1, ChangeKeeps
  <2>3. BoardTypeOK'
    BY <1>2, <2>2 DEF TickElsewhere, BoardTypeOK
  <2>. QED
    BY <2>1, <2>2, <2>3 DEF BehindIsOurs, AtRest
<1>3. CASE FocusBoard
  <2>1. fetch'[range] = NewFetch /\ BoardTypeOK'
    BY <1>3, <1>b DEF FocusBoard, Join, BoardTypeOK, api
  <2>2. BehindIsOurs'
    BY <1>3, <1>a DEF FocusBoard, api
  <2>3. AtRest'
    BY <1>3, <1>b, <2>1 DEF FocusBoard, AtRest, Reading
  <2>. QED
    BY <1>0, <1>3, <2>1, <2>2, <2>3 DEF FocusBoard, api
<1>4. ASSUME NEW r \in Ranges, OnRangeChange(r) PROVE BoardInv'
  <2>1. BoardTypeOK'
    BY <1>4, <1>b DEF OnRangeChange, Join, BoardTypeOK, api, Reading
  <2>2. BehindIsOurs'
    BY <1>4, <1>a DEF OnRangeChange, api
  <2>3. ~outdated' => fetch'[range'] = NewFetch
    BY <1>4 DEF OnRangeChange, Join, BoardTypeOK
  <2>4. AtRest'
    BY <1>b, <2>3 DEF AtRest, Reading
  <2>. QED
    BY <1>0, <1>4, <2>1, <2>2, <2>4 DEF OnRangeChange, api
<1>5. ASSUME NEW r \in Ranges, ReadBoard(r) PROVE BoardInv'
  <2>1. fetch' = [fetch EXCEPT ![r] = [answered |-> TRUE, done |-> listed]]
        /\ [answered |-> TRUE, done |-> listed] \in Reads
    BY <1>5 DEF ReadBoard, BoardTypeOK, Reads
  <2>2. BoardTypeOK'
    BY <1>5, <2>1 DEF ReadBoard, BoardTypeOK, api
  <2>3. BehindIsOurs'
    BY <1>5, <1>a DEF ReadBoard, api
  <2>4. AtRest'
    <3> SUFFICES ASSUME ~outdated, NoneUnderWay
                 PROVE  /\ ~Reading(range)' => board[range] = completed
                        /\ Reading(range)' /\ fetch'[range].answered => fetch'[range].done = completed
      BY <1>5 DEF ReadBoard, AtRest, NoneUnderWay, UnderWayTick, api
    <3>1. CASE r = range
      <4>1. fetch'[range] = [answered |-> TRUE, done |-> listed]
        BY <2>1, <3>1 DEF BoardTypeOK
      <4>2. fetch'[range] /= NoFetch
        BY <2>1, <4>1, TaskBoardAssumption DEF NoFetch
      <4>3. listed = completed
        BY RestIsCurrent
      <4>. QED
        BY <1>5, <4>1, <4>2, <4>3 DEF Reading, ReadBoard
    <3>2. CASE r /= range
      BY <1>5, <2>1, <3>2 DEF Reading, AtRest, BoardTypeOK, ReadBoard
    <3>. QED
      BY <3>1, <3>2
  <2>. QED
    BY <1>0, <1>5, <2>2, <2>3, <2>4 DEF ReadBoard, api
<1>6. ASSUME NEW r \in Ranges, ShowBoard(r) PROVE BoardInv'
  <2>1. fetch[r] \in Reads
    BY <1>6 DEF ShowBoard, Reading, NoFetch, BoardTypeOK
  <2>2. BoardTypeOK'
    BY <1>6, <2>1 DEF ShowBoard, BoardTypeOK, Reads, api, NoFetch
  <2>3. BehindIsOurs'
    BY <1>6, <1>a DEF ShowBoard, api
  <2>4. AtRest'
    <3> SUFFICES ASSUME ~outdated', NoneUnderWay
                 PROVE  /\ ~Reading(range)' => board'[range] = completed
                        /\ Reading(range)' /\ fetch'[range].answered => fetch'[range].done = completed
      BY <1>6 DEF ShowBoard, AtRest, NoneUnderWay, UnderWayTick, api
    <3>1. CASE r = range
      <4>1. fetch[r].done = completed
        BY <1>6, <3>1 DEF ShowBoard, AtRest
      <4>2. board'[range] = fetch[r].done /\ fetch'[range] = NoFetch
        BY <1>6, <3>1 DEF ShowBoard, BoardTypeOK
      <4>. QED
        BY <4>1, <4>2, <1>6 DEF Reading, ShowBoard
    <3>2. CASE r /= range
      BY <1>6, <3>2 DEF ShowBoard, Reading, AtRest, BoardTypeOK
    <3>. QED
      BY <3>1, <3>2
  <2>. QED
    BY <1>0, <1>6, <2>2, <2>3, <2>4 DEF ShowBoard, api
<1>7. ASSUME NEW r \in Ranges, FailBoard(r) PROVE BoardInv'
  <2>1. BoardTypeOK'
    BY <1>7 DEF FailBoard, BoardTypeOK, api, NoFetch
  <2>2. BehindIsOurs'
    BY <1>7, <1>a DEF FailBoard, api
  <2>3. AtRest'
    BY <1>7 DEF FailBoard, AtRest, NoneUnderWay, UnderWayTick, Reading, BoardTypeOK, api
  <2>. QED
    BY <1>0, <1>7, <2>1, <2>2, <2>3 DEF FailBoard, api
<1>8. ASSUME NEW k \in Ticks, NEW t \in Tasks, OnMutate(k, t) PROVE BoardInv'
  <2> DEFINE done == t \notin board[range]
             new == [task |-> t, done |-> done, phase |-> "sent", previous |-> board]
  <2>1. new \in Asked /\ new /= NoTick
    <3>1. done \in BOOLEAN /\ board \in [Ranges -> SUBSET Tasks]
      BY DEF BoardTypeOK
    <3>2. new \in Asked
      BY <3>1 DEF Asked
    <3>. QED
      BY <3>2, TaskBoardAssumption
  <2>2. tick' = [tick EXCEPT ![k] = new] /\ tick'[k] = new
    BY <1>8 DEF OnMutate, BoardTypeOK
  <2>3. \A r \in Ranges : Moved(board[r], t, done) \in SUBSET Tasks
    BY PutType DEF Moved, BoardTypeOK
  <2>4. BoardTypeOK'
    BY <1>8, <2>1, <2>2, <2>3 DEF OnMutate, BoardTypeOK, api, NoFetch
  <2>5. BehindIsOurs'
    BY <1>8, <2>2 DEF OnMutate, BehindIsOurs, BoardTypeOK, UnderWayTick, api
  <2>6. ~NoneUnderWay'
    BY <2>1, <2>2 DEF NoneUnderWay, UnderWayTick
  <2>. QED
    BY <1>0, <1>8, <2>4, <2>5, <2>6 DEF OnMutate, AtRest, api
<1>9. ASSUME NEW k \in Ticks, ServeTick(k) PROVE BoardInv'
  BY <1>9, ServeTickKeeps
<1>10. ASSUME NEW k \in Ticks, OnError(k) PROVE BoardInv'
  <2>1. board' \in [Ranges -> SUBSET Tasks]
    BY <1>10, PhaseTypes DEF OnError, Asked
  <2>. QED
    BY <1>10, <2>1, WaitKeeps DEF OnError
<1>11. ASSUME NEW k \in Ticks, OnSuccess(k) PROVE BoardInv'
  BY <1>11, WaitKeeps DEF OnSuccess, BoardTypeOK
<1>12. ASSUME NEW k \in Ticks, OnSettled(k) PROVE BoardInv'
  <2>1. fetch'[range] = NewFetch /\ BoardTypeOK'
    BY <1>12, <1>b DEF OnSettled, BoardTypeOK, api
  <2>2. BehindIsOurs'
    <3>1. ~outdated' => ~outdated /\ CaughtUp(k)
      BY <1>12 DEF OnSettled
    <3>. QED
      BY <1>12, <3>1 DEF OnSettled, CaughtUp, BehindIsOurs, BoardTypeOK, api
  <2>3. AtRest'
    BY <1>12, <1>b, <2>1 DEF OnSettled, AtRest, Reading
  <2>. QED
    BY <1>0, <1>12, <2>1, <2>2, <2>3 DEF OnSettled, api
<1>13. CASE UNCHANGED boardVars
  BY <1>0, <1>a, <1>13 DEF boardVars, api, BoardTypeOK, AtRest, NoneUnderWay, UnderWayTick,
     Reading
<1>. QED
  BY <1>1, <1>2, <1>3, <1>4, <1>5, <1>6, <1>7, <1>8, <1>9, <1>10, <1>11, <1>12, <1>13
     DEF BoardNext

LEMMA BoardStart == BoardInit => BoardInv
<1> SUFFICES ASSUME BoardInit PROVE BoardInv
  OBVIOUS
<1>1. behind = <<>> /\ behind \in Seq(Events) /\ Len(behind) = 0
  BY DEF BoardInit
<1>2. BoardTypeOK
  BY <1>1 DEF BoardInit, BoardTypeOK, NoFetch
<1>. QED
  BY <1>1, <1>2 DEF BoardInit, BoardInv, LastSays, UpToDate, BehindIsOurs, AtRest, Reading

\* Whatever ticks are refused, lost and put back in whatever order, the board on
\* the screen ends as what the tasks are (useTasks.ts:93-131), unless the
\* projection outlasted the wait or one of the other disturbances happened.
THEOREM BoardAlwaysSettles == Spec => []BoardSettles
<1>1. BoardInv => BoardSettles
  BY DEF BoardInv, AtRest, BoardSettles, Settled, NoneUnderWay
<1>. QED
  BY <1>1, BoardStart, BoardStep, TabIsItsScreens, PTL DEF BoardSpec

-----------------------------------------------------------------------------
(* The drawer.                                                             *)

DrawerTypeOK ==
  /\ place \in [UserIds -> TeamIds \cup {NoTeam}]
  /\ role \in Roles \cup {NoRole}
  /\ copy \in Places
  /\ current \in Places \cup {NoMove}
  /\ detached \in BOOLEAN /\ meddled \in BOOLEAN
  /\ moves \in [Moves -> {NoMove} \cup MovesUnderWay]

Watched(k) == Moving(k) /\ moves[k].watched

\* The drawer follows one move at a time, and only while it is open.
OneWatched == \A k, l \in Moves : Watched(k) /\ Watched(l) => k = l

WatchedIsOpen == \A k \in Moves : Watched(k) => IsOpen

\* Only a meddled-with drawer is open beside a move it does not follow.
OursAlone == IsOpen /\ ~meddled => \A k \in Moves : Moving(k) => Watched(k)

Nowhere == place[Person] = NoTeam

\* What is known of the move that is followed at each of its steps.
StepOK(k) ==
  /\ moves[k].step \in {"remove", "role", "answered"} => ~detached
  /\ moves[k].step = "remove" => moves[k].from /= NoTeam /\ moves[k].to /= moves[k].from
  /\ moves[k].step = "role" => moves[k].to = moves[k].from
  /\ moves[k].step = "answered" /\ moves[k].to /= moves[k].from => Nowhere
  /\ moves[k].step = "add" /\ (moves[k].from /= NoTeam \/ detached) => Nowhere

StepsOK == ~meddled => \A k \in Moves : Watched(k) => StepOK(k)

DrawerInv ==
  /\ DrawerTypeOK /\ OneWatched /\ WatchedIsOpen /\ OursAlone /\ StepsOK
  /\ DetachedIsTrue

\* A move that goes from one step to another leaves who follows it.
LEMMA ToKeeps ==
  ASSUME DrawerTypeOK, NEW k \in Moves, Moving(k), NEW step \in Steps, To(k, step)
  PROVE  /\ moves' \in [Moves -> {NoMove} \cup MovesUnderWay]
         /\ moves'[k] = [moves[k] EXCEPT !.step = step]
         /\ moves[k] \in MovesUnderWay /\ moves'[k] \in MovesUnderWay
         /\ \A l \in Moves \ {k} : moves'[l] = moves[l]
         /\ \A l \in Moves : (Moving(l) <=> Moving(l)') /\ (Watched(l) <=> Watched(l)')
<1>1. moves[k] \in MovesUnderWay
  BY DEF DrawerTypeOK, Moving
<1>2. /\ moves'[k] = [moves[k] EXCEPT !.step = step]
      /\ \A l \in Moves \ {k} : moves'[l] = moves[l]
      /\ moves' = [moves EXCEPT ![k] = [moves[k] EXCEPT !.step = step]]
  BY DEF To, DrawerTypeOK
<1>3. moves'[k] \in MovesUnderWay /\ moves'[k].watched = moves[k].watched
  BY <1>1, <1>2 DEF MovesUnderWay
<1>4. moves' \in [Moves -> {NoMove} \cup MovesUnderWay]
  BY <1>2, <1>3 DEF DrawerTypeOK
<1>5. moves'[k] /= NoMove
  BY <1>3, TeamDrawerAssumption
<1>. QED
  BY <1>1, <1>2, <1>3, <1>4, <1>5 DEF Moving, Watched

\* A step of the move that is followed, with what is to be known after it.
LEMMA GoesToStep ==
  ASSUME DrawerInv, NEW k \in Moves, Moving(k), NEW step \in Steps, To(k, step),
         UNCHANGED <<copy, drawer, meddling, meddled>>,
         place' \in [UserIds -> TeamIds \cup {NoTeam}], role' \in Roles \cup {NoRole},
         Watched(k) /\ ~meddled => StepOK(k)'
  PROVE  DrawerInv'
<1> USE DEF drawer
<1>1. /\ moves' \in [Moves -> {NoMove} \cup MovesUnderWay]
      /\ \A l \in Moves \ {k} : moves'[l] = moves[l]
      /\ \A l \in Moves : (Moving(l) <=> Moving(l)') /\ (Watched(l) <=> Watched(l)')
  BY ToKeeps DEF DrawerInv
<1>2. DrawerTypeOK'
  BY <1>1 DEF DrawerInv, DrawerTypeOK
<1>3. OneWatched' /\ WatchedIsOpen' /\ OursAlone'
  BY <1>1 DEF DrawerInv, OneWatched, WatchedIsOpen, OursAlone, IsOpen
<1>4. StepsOK'
  <2> SUFFICES ASSUME ~meddled, NEW l \in Moves, Watched(l) PROVE StepOK(l)'
    BY <1>1 DEF StepsOK
  <2>1. CASE l = k
    BY <2>1
  <2>2. CASE l /= k
    <3>1. ~Watched(k) /\ IsOpen
      BY <2>2 DEF DrawerInv, OneWatched, WatchedIsOpen
    <3>. QED
      BY <3>1 DEF DrawerInv, OursAlone
  <2>. QED
    BY <2>1, <2>2
<1>5. DetachedIsTrue'
  <2> SUFFICES ASSUME IsOpen, detached, ~meddled, ~MoveUnderWay' PROVE Nowhere'
    BY DEF DetachedIsTrue, IsOpen, Nowhere
  <2>1. ~Watched(k)
    BY <1>1 DEF MoveUnderWay, Watched
  <2>. QED
    BY <2>1 DEF DrawerInv, OursAlone
<1>. QED
  BY <1>2, <1>3, <1>4, <1>5 DEF DrawerInv

LEMMA AddType ==
  ASSUME DrawerTypeOK, NEW t, NEW r \in Roles, AddMember(t, r)
  PROVE  place' \in [UserIds -> TeamIds \cup {NoTeam}] /\ role' \in Roles \cup {NoRole}
BY DEF DrawerTypeOK, AddMember, Endpoint!Join

LEMMA RemoveType ==
  ASSUME DrawerTypeOK, NEW t, RemoveMember(t)
  PROVE  /\ place' \in [UserIds -> TeamIds \cup {NoTeam}] /\ role' \in Roles \cup {NoRole}
         /\ Nowhere'
BY TeamDrawerAssumption DEF DrawerTypeOK, RemoveMember, Endpoint!Leave, Nowhere

\* A move is over, and the drawer may say that it left the person on no team.
LEMMA OverKeeps ==
  ASSUME DrawerInv, NEW k \in Moves, Moving(k), Over(k), UNCHANGED <<teams, copy, current>>,
         detached' \in BOOLEAN, meddled' \in BOOLEAN, meddled => meddled',
         Watched(k) /\ ~meddled' => (detached' => Nowhere),
         ~Watched(k) => UNCHANGED detached
  PROVE  DrawerInv'
<1> USE DEF teams, Nowhere
<1>1. /\ moves' \in [Moves -> {NoMove} \cup MovesUnderWay]
      /\ moves'[k] = NoMove
      /\ \A l \in Moves \ {k} : moves'[l] = moves[l]
  BY DEF Over, DrawerInv, DrawerTypeOK
<1>2. \A l \in Moves : Watched(l)' => l /= k /\ Watched(l)
  BY <1>1 DEF Watched, Moving
<1>3. DrawerTypeOK'
  BY <1>1 DEF DrawerInv, DrawerTypeOK
<1>4. OneWatched' /\ WatchedIsOpen' /\ OursAlone'
  BY <1>1, <1>2 DEF DrawerInv, OneWatched, WatchedIsOpen, OursAlone, IsOpen, Moving, Watched
<1>5. StepsOK'
  <2> SUFFICES ASSUME ~meddled', NEW l \in Moves, Watched(l)' PROVE StepOK(l)'
    BY DEF StepsOK
  <2>1. l /= k /\ Watched(l) /\ ~Watched(k) /\ StepOK(l)
    BY <1>2 DEF DrawerInv, OneWatched, StepsOK
  <2>. QED
    BY <1>1, <2>1 DEF StepOK
<1>6. DetachedIsTrue'
  <2> SUFFICES ASSUME IsOpen, detached', ~meddled' PROVE Nowhere
    BY DEF DetachedIsTrue, IsOpen
  <2>1. Watched(k)
    BY DEF DrawerInv, OursAlone
  <2>. QED
    BY <2>1
<1>. QED
  BY <1>3, <1>4, <1>5, <1>6 DEF DrawerInv

\* The drawer is closed: nothing is followed any more.
LEMMA ShutKeeps ==
  ASSUME DrawerInv, Shut, UNCHANGED <<teams, copy, meddled>>,
         moves' \in [Moves -> {NoMove} \cup MovesUnderWay],
         \A k \in Moves : ~Watched(k)'
  PROVE  DrawerInv'
BY DEF DrawerInv, DrawerTypeOK, Shut, OneWatched, WatchedIsOpen, OursAlone, StepsOK,
       DetachedIsTrue, IsOpen, teams

LEMMA UnwatchedType ==
  ASSUME DrawerTypeOK
  PROVE  /\ Unwatched \in [Moves -> {NoMove} \cup MovesUnderWay]
         /\ \A k \in Moves : Unwatched[k] = NoMove \/ ~Unwatched[k].watched
BY DEF DrawerTypeOK, Unwatched, Moving, MovesUnderWay

LEMMA SubmitKeeps ==
  ASSUME DrawerInv, NEW k \in Moves, NEW t \in TeamIds \cup {NoTeam}, NEW r \in Roles,
         Submit(k, t, r)
  PROVE  DrawerInv'
<1> DEFINE new == [step |-> FirstStep(t), from |-> From.team, to |-> t, role |-> r,
                   watched |-> TRUE]
<1> USE DEF teams, drawer
<1>1. From.team \in TeamIds \cup {NoTeam} /\ (detached => From.team = NoTeam)
  BY DEF From, Off, On, Submit, IsOpen, DrawerInv, DrawerTypeOK, Places
<1>2. FirstStep(t) \in {"remove", "role", "add", "done"}
      /\ (FirstStep(t) = "remove" => From.team /= NoTeam /\ t /= From.team)
      /\ (FirstStep(t) = "role" => t = From.team /\ t /= NoTeam)
      /\ (FirstStep(t) = "add" => From.team = NoTeam)
  BY DEF FirstStep
<1>3. new \in MovesUnderWay /\ new /= NoMove
  <2>1. new \in MovesUnderWay
    BY <1>1, <1>2 DEF MovesUnderWay, Steps
  <2>. QED
    BY <2>1, TeamDrawerAssumption
<1>4. /\ moves' = [moves EXCEPT ![k] = new] /\ moves'[k] = new
      /\ \A l \in Moves \ {k} : moves'[l] = moves[l]
      /\ UNCHANGED <<teams, copy, drawer, meddled>>
  BY DEF Submit, DrawerInv, DrawerTypeOK
<1>5. IsOpen /\ \A l \in Moves : ~Watched(l)
  BY DEF Submit, MoveUnderWay, Watched
<1>6. DrawerTypeOK'
  BY <1>3, <1>4 DEF DrawerInv, DrawerTypeOK
<1>7. Watched(k)' /\ \A l \in Moves : Watched(l)' => l = k
  BY <1>3, <1>4, <1>5 DEF Watched, Moving
<1>8. OneWatched' /\ WatchedIsOpen' /\ OursAlone'
  BY <1>4, <1>5, <1>7 DEF DrawerInv, OneWatched, WatchedIsOpen, OursAlone, IsOpen, Moving
<1>9. ~meddled => StepOK(k)'
  <2> SUFFICES ASSUME ~meddled PROVE StepOK(k)'
    OBVIOUS
  <2>1. detached => Nowhere
    BY <1>5 DEF DrawerInv, DetachedIsTrue, MoveUnderWay, Watched, Nowhere
  <2>. QED
    BY <1>1, <1>2, <1>4, <2>1 DEF StepOK, Nowhere
<1>10. DetachedIsTrue'
  BY <1>7 DEF DetachedIsTrue, MoveUnderWay, Watched
<1>. QED
  BY <1>4, <1>6, <1>7, <1>8, <1>9, <1>10 DEF DrawerInv, StepsOK

\* What changes who is where, the person apart, and what only the drawer shows.
LEMMA ElsewhereKeeps ==
  ASSUME DrawerInv, DrawerTypeOK', UNCHANGED <<moves, current, detached>>,
         meddled' \/ (UNCHANGED meddled /\ UNCHANGED Nowhere)
  PROVE  DrawerInv'
<1>1. \A k \in Moves : (Moving(k) <=> Moving(k)') /\ (Watched(k) <=> Watched(k)')
  BY DEF Moving, Watched
<1>2. OneWatched' /\ WatchedIsOpen' /\ OursAlone'
  BY <1>1 DEF DrawerInv, OneWatched, WatchedIsOpen, OursAlone, IsOpen
<1>3. StepsOK'
  BY <1>1 DEF DrawerInv, StepsOK, StepOK
<1>4. DetachedIsTrue'
  BY DEF DrawerInv, DetachedIsTrue, IsOpen, MoveUnderWay, Moving, Nowhere
<1>. QED
  BY <1>2, <1>3, <1>4 DEF DrawerInv

LEMMA DrawerStep == DrawerInv /\ [DrawerNext]_drawerVars => DrawerInv'
<1> SUFFICES ASSUME DrawerInv, [DrawerNext]_drawerVars PROVE DrawerInv'
  OBVIOUS
<1>1. ASSUME NEW u \in UserIds, SomebodyMoves(u) PROVE DrawerInv'
  <2>1. DrawerTypeOK' /\ UNCHANGED Nowhere
    BY <1>1, TeamDrawerAssumption DEF SomebodyMoves, Meddle, Endpoint!Leave, Endpoint!Join,
       DrawerInv, DrawerTypeOK, Nowhere, drawer
  <2>. QED
    BY <1>1, <2>1, ElsewhereKeeps DEF SomebodyMoves, Meddle, drawer
<1>2. ASSUME PersonIsMoved PROVE DrawerInv'
  <2>1. place' \in [UserIds -> TeamIds \cup {NoTeam}] /\ role' \in Roles \cup {NoRole}
    BY <1>2, AddType, RemoveType DEF PersonIsMoved, ChangeRole, DrawerInv, DrawerTypeOK
  <2>2. DrawerTypeOK' /\ meddled' /\ UNCHANGED <<moves, current, detached>>
    BY <1>2, <2>1 DEF PersonIsMoved, Meddle, DrawerInv, DrawerTypeOK, drawer
  <2>. QED
    BY <2>2, ElsewhereKeeps
<1>3. ASSUME Refresh PROVE DrawerInv'
  <2>1. DrawerTypeOK'
    BY <1>3, TeamDrawerAssumption DEF Refresh, Standing, On, Places, DrawerInv, DrawerTypeOK,
       teams, drawer
  <2>. QED
    BY <1>3, <2>1, ElsewhereKeeps DEF Refresh, Nowhere, teams, drawer
<1>4. ASSUME Open PROVE DrawerInv'
  <2>1. DrawerTypeOK'
    BY <1>4 DEF Open, DrawerInv, DrawerTypeOK, teams
  <2>2. \A k \in Moves : ~Watched(k) /\ ~Watched(k)'
    BY <1>4 DEF Open, DrawerInv, WatchedIsOpen, Watched, Moving
  <2>3. ~meddled' => \A k \in Moves : ~Moving(k)'
    BY <1>4 DEF Open, Moving
  <2>. QED
    BY <1>4, <2>1, <2>2, <2>3 DEF Open, DrawerInv, OneWatched, WatchedIsOpen, OursAlone,
       StepsOK, DetachedIsTrue
<1>5. ASSUME ReadMembers PROVE DrawerInv'
  <2>1. DrawerTypeOK'
    BY <1>5 DEF ReadMembers, DrawerInv, DrawerTypeOK, teams
  <2>. QED
    BY <1>5, <2>1, ElsewhereKeeps DEF ReadMembers, Nowhere, teams
<1>6. ASSUME HandleClose PROVE DrawerInv'
  BY <1>6, UnwatchedType, ShutKeeps DEF HandleClose, DrawerInv, Watched, Moving
<1>7. ASSUME NEW k \in Moves, NEW t \in TeamIds \cup {NoTeam}, NEW r \in Roles, Submit(k, t, r)
      PROVE  DrawerInv'
  BY <1>7, SubmitKeeps
<1>8. ASSUME NEW k \in Moves, ServeRemove(k) PROVE DrawerInv'
  <2>1. To(k, "answered") /\ Moving(k) /\ moves[k].step = "remove" /\ "answered" \in Steps
    BY <1>8 DEF ServeRemove, At, Steps
  <2>2. Nowhere' /\ place' \in [UserIds -> TeamIds \cup {NoTeam}] /\ role' \in Roles \cup {NoRole}
    BY <1>8, RemoveType DEF ServeRemove, DrawerInv
  <2>3. moves'[k] = [moves[k] EXCEPT !.step = "answered"] /\ moves[k] \in MovesUnderWay
    BY <2>1, ToKeeps DEF DrawerInv
  <2>4. Watched(k) /\ ~meddled => StepOK(k)'
    BY <1>8, <2>1, <2>2, <2>3 DEF DrawerInv, StepsOK, StepOK, ServeRemove, drawer, MovesUnderWay
  <2>. QED
    BY <1>8, <2>1, <2>2, <2>4, GoesToStep DEF ServeRemove
<1>9. ASSUME NEW k \in Moves, Continue(k) PROVE DrawerInv'
  <2> DEFINE step == IF moves[k].to \in {NoTeam, moves[k].from} THEN "done" ELSE "add"
  <2>1. To(k, step) /\ Moving(k) /\ moves[k].step = "answered" /\ step \in Steps
    BY <1>9 DEF Continue, At, Steps
  <2>2. place' \in [UserIds -> TeamIds \cup {NoTeam}] /\ role' \in Roles \cup {NoRole}
    BY <1>9 DEF Continue, DrawerInv, DrawerTypeOK, teams
  <2>3. moves'[k] = [moves[k] EXCEPT !.step = step] /\ moves[k] \in MovesUnderWay
    BY <2>1, ToKeeps DEF DrawerInv
  <2>4. Watched(k) /\ ~meddled => StepOK(k)'
    BY <1>9, <2>1, <2>3 DEF DrawerInv, StepsOK, StepOK, Continue, teams, drawer, MovesUnderWay,
       Nowhere
  <2>. QED
    BY <1>9, <2>1, <2>2, <2>4, GoesToStep DEF Continue
<1>10. ASSUME NEW k \in Moves, ServeAdd(k) PROVE DrawerInv'
  <2>1. To(k, "added") /\ Moving(k) /\ moves[k].step = "add" /\ "added" \in Steps
    BY <1>10 DEF ServeAdd, At, Steps
  <2>2. moves'[k] = [moves[k] EXCEPT !.step = "added"] /\ moves[k] \in MovesUnderWay
    BY <2>1, ToKeeps DEF DrawerInv
  <2>3. place' \in [UserIds -> TeamIds \cup {NoTeam}] /\ role' \in Roles \cup {NoRole}
    BY <1>10, <2>2, AddType DEF ServeAdd, DrawerInv, MovesUnderWay
  <2>4. Watched(k) /\ ~meddled => StepOK(k)'
    BY <2>2 DEF StepOK, MovesUnderWay
  <2>. QED
    BY <1>10, <2>1, <2>3, <2>4, GoesToStep DEF ServeAdd
<1>11. ASSUME NEW k \in Moves, ServeRole(k) PROVE DrawerInv'
  <2>1. To(k, "answered") /\ Moving(k) /\ moves[k].step = "role" /\ "answered" \in Steps
    BY <1>11 DEF ServeRole, At, Steps
  <2>2. moves'[k] = [moves[k] EXCEPT !.step = "answered"] /\ moves[k] \in MovesUnderWay
    BY <2>1, ToKeeps DEF DrawerInv
  <2>3. place' \in [UserIds -> TeamIds \cup {NoTeam}] /\ role' \in Roles \cup {NoRole}
    BY <1>11, <2>2 DEF ServeRole, ChangeRole, DrawerInv, DrawerTypeOK, MovesUnderWay
  <2>4. Watched(k) /\ ~meddled => StepOK(k)'
    BY <1>11, <2>1, <2>2 DEF DrawerInv, StepsOK, StepOK, ServeRole, drawer, MovesUnderWay
  <2>. QED
    BY <1>11, <2>1, <2>3, <2>4, GoesToStep DEF ServeRole
<1>12. ASSUME NEW k \in Moves, FailFirst(k) PROVE DrawerInv'
  <2>1. Moving(k) /\ moves[k].step \in {"remove", "role", "answered"}
    BY <1>12 DEF FailFirst, At
  <2>2. Watched(k) /\ ~meddled => ~detached
    BY <2>1 DEF DrawerInv, StepsOK, StepOK
  <2>. QED
    BY <1>12, <2>1, <2>2, OverKeeps DEF FailFirst, drawer, DrawerInv, DrawerTypeOK
<1>13. ASSUME NEW k \in Moves, FailAdd(k) PROVE DrawerInv'
  <2>1. Moving(k) /\ moves[k].step \in {"add", "added"} /\ moves[k] \in MovesUnderWay
    BY <1>13 DEF FailAdd, At, DrawerInv, DrawerTypeOK, Moving
  <2>2. ~meddled' => moves[k].step = "add"
    BY <1>13, <2>1 DEF FailAdd, At
  <2>3. Watched(k) /\ ~meddled' => (detached' => Nowhere)
    BY <1>13, <2>2 DEF FailAdd, LeavesNoTeam, DrawerInv, StepsOK, StepOK
  <2>4. ~Watched(k) => UNCHANGED detached
    BY <1>13, <2>1 DEF FailAdd, LeavesNoTeam, Watched, DrawerInv, DrawerTypeOK
  <2>5. detached' \in BOOLEAN /\ meddled' \in BOOLEAN /\ (meddled => meddled')
    BY <1>13, <2>1 DEF FailAdd, LeavesNoTeam, At, DrawerInv, DrawerTypeOK, MovesUnderWay
  <2>. QED
    BY <1>13, <2>1, <2>3, <2>4, <2>5, OverKeeps DEF FailAdd
<1>14. ASSUME NEW k \in Moves, MoveSucceeds(k) PROVE DrawerInv'
  <2>1. moves' \in [Moves -> {NoMove} \cup MovesUnderWay] /\ \A l \in Moves : ~Watched(l)'
    BY <1>14, UnwatchedType DEF MoveSucceeds, DrawerInv, Watched, Moving
  <2>. QED
    BY <1>14, <2>1, ShutKeeps DEF MoveSucceeds
<1>15. CASE UNCHANGED drawerVars
  BY <1>15, ElsewhereKeeps DEF drawerVars, teams, drawer, DrawerInv, DrawerTypeOK, Nowhere
<1>. QED
  BY <1>1, <1>2, <1>3, <1>4, <1>5, <1>6, <1>7, <1>8, <1>9, <1>10, <1>11, <1>12, <1>13, <1>14,
     <1>15 DEF DrawerNext

LEMMA DrawerStart == DrawerInit => DrawerInv
<1> SUFFICES ASSUME DrawerInit PROVE DrawerInv
  OBVIOUS
<1>1. DrawerTypeOK
  BY TeamDrawerAssumption DEF DrawerInit, DrawerTypeOK, Standing, On, Places
<1>2. \A k \in Moves : ~Moving(k)
  BY DEF DrawerInit, Moving
<1>. QED
  BY <1>1, <1>2 DEF DrawerInit, DrawerInv, OneWatched, WatchedIsOpen, OursAlone, StepsOK,
     DetachedIsTrue, Watched, IsOpen

\* When the drawer says that somebody is on no team, they are
\* (ChangeUserTeamDrawer.tsx:144-152, useUsers.ts:202-246).
THEOREM DetachedIsAlwaysTrue == Spec => []DetachedIsTrue
<1>1. DrawerInv => DetachedIsTrue
  BY DEF DrawerInv
<1>. QED
  BY <1>1, DrawerStart, DrawerStep, TabIsItsScreens, PTL DEF DrawerSpec

-----------------------------------------------------------------------------
(* The form builder: types.                                                *)

LEMMA CallType ==
  ASSUME NEW op \in {"save", "publish", "archive"}, NEW pages \in Layouts,
         NEW publish \in BOOLEAN
  PROVE  Call(op, pages, publish) \in CallsUnderWay
BY DEF Call, CallsUnderWay

LEMMA PrepareType ==
  ASSUME FormTypeOK, NEW pages \in Layouts
  PROVE  /\ PrepareDraft(pages) \in Layouts
         /\ PrepareDraft(pages).marks = pages.marks
         /\ PrepareDraft(pages).fields = catalogue
         /\ pages.fields = catalogue => PrepareDraft(pages) = pages
BY DEF FormTypeOK, PrepareDraft, Layouts

LEMMA StartType ==
  ASSUME FormTypeOK, NEW c \in Calls, NEW op \in {"save", "publish", "archive"},
         NEW pages \in Layouts, NEW publish \in BOOLEAN, Start(c, op, pages, publish)
  PROVE  /\ calls' \in [Calls -> {NoCall} \cup CallsUnderWay]
         /\ ~UnderWay(c) /\ calls'[c] = Call(op, pages, publish)
         /\ \A d \in Calls \ {c} :
              /\ UnderWay(d)' <=> UnderWay(d)
              /\ UnderWay(d) => /\ calls'[d].op = calls[d].op
                                /\ calls'[d].phase = calls[d].phase
                                /\ calls'[d].pages = calls[d].pages
<1>1. ASSUME NEW d \in Calls \ {c}, UnderWay(d)
      PROVE  /\ calls[d] \in CallsUnderWay
             /\ [calls[d] EXCEPT !.watched = FALSE] \in CallsUnderWay
  BY <1>1 DEF FormTypeOK, UnderWay, CallsUnderWay
<1>2. ASSUME NEW d \in Calls \ {c}, UnderWay(d)
      PROVE  /\ calls'[d] \in CallsUnderWay
             /\ calls'[d].op = calls[d].op /\ calls'[d].phase = calls[d].phase
             /\ calls'[d].pages = calls[d].pages
  BY <1>1, <1>2 DEF Start, CallsUnderWay
<1>3. ASSUME NEW d \in Calls \ {c}, ~UnderWay(d) PROVE calls'[d] = NoCall
  BY <1>3 DEF Start, UnderWay
<1>4. calls'[c] = Call(op, pages, publish) /\ calls'[c] \in CallsUnderWay
  BY CallType DEF Start
<1>5. calls' \in [Calls -> {NoCall} \cup CallsUnderWay]
  BY <1>2, <1>3, <1>4 DEF Start
<1>. QED
  BY <1>2, <1>3, <1>4, <1>5, FormBuilderAssumption DEF UnderWay, Start

\* A call that goes on to another phase.
LEMMA PhaseType ==
  ASSUME FormTypeOK, NEW c \in Calls, UnderWay(c), NEW phase \in {"sent", "done", "reading"},
         calls' = [calls EXCEPT ![c].phase = phase]
  PROVE  /\ calls' \in [Calls -> {NoCall} \cup CallsUnderWay]
         /\ UnderWay(c)' /\ calls'[c].phase = phase
         /\ calls'[c].op = calls[c].op /\ calls'[c].pages = calls[c].pages
         /\ \A d \in Calls \ {c} : calls'[d] = calls[d]
<1>1. calls[c] \in CallsUnderWay
  BY DEF FormTypeOK, UnderWay
<1>2. /\ calls' = [calls EXCEPT ![c] = [calls[c] EXCEPT !.phase = phase]]
      /\ calls'[c] = [calls[c] EXCEPT !.phase = phase]
      /\ \A d \in Calls \ {c} : calls'[d] = calls[d]
  BY DEF FormTypeOK
<1>3. calls'[c] \in CallsUnderWay /\ calls'[c].phase = phase
      /\ calls'[c].op = calls[c].op /\ calls'[c].pages = calls[c].pages
  BY <1>1, <1>2 DEF CallsUnderWay
<1>. QED
  BY <1>2, <1>3, FormBuilderAssumption DEF FormTypeOK, UnderWay

\* What a read that ended leaves of the calls.
LEMMA AfterReadType ==
  ASSUME FormTypeOK, NEW c \in Calls
  PROVE  /\ AfterRead(c) \in {NoCall} \cup CallsUnderWay
         /\ AfterRead(c) /= NoCall =>
              /\ UnderWay(c) /\ AfterRead(c).pages = calls[c].pages
              /\ \/ GoesOn(c) /\ AfterRead(c).op = "publish" /\ AfterRead(c).phase = "sent"
                 \/ /\ calls[c].phase /= "reading"
                    /\ AfterRead(c).op = calls[c].op /\ AfterRead(c).phase = calls[c].phase
         /\ UnderWay(c) /\ calls[c].phase /= "reading" => AfterRead(c) /= NoCall
<1>1. CASE ~UnderWay(c)
  BY <1>1 DEF AfterRead, GoesOn, Saving
<1>2. CASE GoesOn(c)
  <2>1. calls[c] \in CallsUnderWay /\ UnderWay(c) /\ calls[c].phase = "reading"
    BY <1>2 DEF GoesOn, Saving, UnderWay, FormTypeOK
  <2>2. AfterRead(c) = [calls[c] EXCEPT !.op = "publish", !.phase = "sent", !.publish = FALSE]
    BY <1>2, <2>1 DEF AfterRead
  <2>3. /\ AfterRead(c) \in CallsUnderWay /\ AfterRead(c).op = "publish"
        /\ AfterRead(c).phase = "sent" /\ AfterRead(c).pages = calls[c].pages
    BY <2>1, <2>2 DEF CallsUnderWay
  <2>. QED
    BY <1>2, <2>1, <2>3
<1>3. CASE UnderWay(c) /\ ~GoesOn(c) /\ calls[c].phase /= "reading"
  <2> DEFINE w == calls[c].watched /\ ~(calls[c].op = "publish" /\ \E d \in Calls : GoesOn(d))
  <2>1. calls[c] \in CallsUnderWay /\ w \in BOOLEAN
    BY <1>3 DEF UnderWay, FormTypeOK, CallsUnderWay
  <2>2. AfterRead(c) = [calls[c] EXCEPT !.watched = w]
    BY <1>3 DEF AfterRead
  <2>3. /\ AfterRead(c) \in CallsUnderWay /\ AfterRead(c).op = calls[c].op
        /\ AfterRead(c).phase = calls[c].phase /\ AfterRead(c).pages = calls[c].pages
    BY <2>1, <2>2 DEF CallsUnderWay
  <2>. QED
    BY <1>3, <2>3, FormBuilderAssumption
<1>4. CASE UnderWay(c) /\ ~GoesOn(c) /\ calls[c].phase = "reading"
  BY <1>4 DEF AfterRead
<1>. QED
  BY <1>1, <1>2, <1>3, <1>4

LEMMA EmptyType ==
  ASSUME FormTypeOK, NEW c \in Calls, calls' = [calls EXCEPT ![c] = NoCall]
  PROVE  /\ calls' \in [Calls -> {NoCall} \cup CallsUnderWay]
         /\ ~UnderWay(c)' /\ \A d \in Calls \ {c} : calls'[d] = calls[d]
BY DEF FormTypeOK, UnderWay

LEMMA OutsideType ==
  ASSUME FormTypeOK, Outside
  PROVE  outside' \in Nat
BY DEF FormTypeOK, Outside

\* The types of what the server keeps after a call or a colleague changed it.
LEMMA ServedType ==
  ASSUME FormTypeOK, NEW pages \in Layouts,
         SaveFormDraft(pages) \/ PublishForm \/ ArchiveForm
  PROVE  form' \in Forms
<1>1. form.pages \in Layouts
  BY DEF FormTypeOK, Forms
<1>2. PrepareDraft(pages) \in Layouts /\ PrepareDraft(form.pages) \in Layouts
  BY <1>1, PrepareType
<1>3. CASE SaveFormDraft(pages)
  BY <1>2, <1>3 DEF SaveFormDraft, FormTypeOK, Forms
<1>4. CASE PublishForm
  BY <1>2, <1>4 DEF PublishForm, FormTypeOK, Forms
<1>5. CASE ArchiveForm
  BY <1>5 DEF ArchiveForm, FormTypeOK, Forms
<1>. QED
  BY <1>3, <1>4, <1>5

LEMMA NewReadType == FormTypeOK => NewRead \in ReadsUnderWay
BY DEF FormTypeOK, NewRead, ReadsUnderWay

LEMMA FormStart == FormInit => FormTypeOK
<1> SUFFICES ASSUME FormInit PROVE FormTypeOK
  OBVIOUS
<1>1. NoPages \in Layouts
  BY DEF NoPages, Layouts
<1>2. form \in Forms /\ form.pages = NoPages
  BY <1>1 DEF FormInit, Forms
<1>. QED
  BY <1>1, <1>2 DEF FormInit, FormTypeOK

LEMMA FormTypes == FormTypeOK /\ [FormNext]_formVars => FormTypeOK'
<1> SUFFICES ASSUME FormTypeOK, [FormNext]_formVars PROVE FormTypeOK'
  OBVIOUS
<1> USE DEF server, screen, history
<1>0. form.pages \in Layouts /\ cached.pages \in Layouts /\ layout \in Layouts
  BY DEF FormTypeOK, Forms
<1>1. CASE Deliver
  <2>1. read.form \in Forms /\ read.form.pages \in Layouts
    BY <1>1 DEF Deliver, FormTypeOK, ReadsUnderWay, Forms
  <2>2. calls' \in [Calls -> {NoCall} \cup CallsUnderWay]
    BY <1>1, AfterReadType DEF Deliver
  <2>3. layout' \in Layouts /\ sent' \in Layouts \cup {NoCall}
    BY <1>0, <1>1, <2>1 DEF Deliver, FormTypeOK
  <2>4. disturbed' \in BOOLEAN /\ safe' \subseteq Edits
    BY <1>1, <2>3 DEF Deliver, FormTypeOK, Layouts
  <2>. QED
    BY <1>1, <2>1, <2>2, <2>3, <2>4 DEF Deliver, FormTypeOK
<1>2. CASE ReadForm
  <2>1. [answered |-> TRUE, form |-> form] \in ReadsUnderWay
    BY DEF FormTypeOK, ReadsUnderWay
  <2>. QED
    BY <1>2, <2>1 DEF ReadForm, FormTypeOK
<1>3. CASE Focus
  BY <1>3, NewReadType DEF Focus, FormTypeOK
<1>4. CASE FailRead
  <2>1. ASSUME NEW c \in Calls
        PROVE  (IF AfterRead(c) = NoCall THEN NoCall
                ELSE [AfterRead(c) EXCEPT !.watched = FALSE]) \in {NoCall} \cup CallsUnderWay
    <3>1. AfterRead(c) \in {NoCall} \cup CallsUnderWay
      BY AfterReadType
    <3>. QED
      BY <3>1 DEF CallsUnderWay
  <2>2. calls' \in [Calls -> {NoCall} \cup CallsUnderWay]
    BY <1>4, <2>1 DEF FailRead
  <2>. QED
    BY <1>0, <1>4, <2>2, OutsideType DEF FailRead, Disturb, FormTypeOK
<1>5. ASSUME NEW e \in Edits, Edit(e) PROVE FormTypeOK'
  BY <1>5 DEF Edit, FormTypeOK, Layouts
<1>6. ASSUME NEW c \in Calls, NEW publish \in BOOLEAN, SendDraft(c, publish)
      PROVE  FormTypeOK'
  <2>1. calls' \in [Calls -> {NoCall} \cup CallsUnderWay]
    BY <1>0, <1>6, StartType DEF SendDraft
  <2>2. outside' = outside /\ disturbed' \in BOOLEAN /\ safe' \subseteq Edits
    BY <1>6 DEF SendDraft, Disturb, FormTypeOK
  <2>. QED
    BY <1>6, <2>1, <2>2 DEF SendDraft, FormTypeOK
<1>7. ASSUME NEW c \in Calls, SaveDraft(c) PROVE FormTypeOK'
  BY <1>6, <1>7 DEF SaveDraft
<1>8. ASSUME NEW c \in Calls, OnPublish(c) PROVE FormTypeOK'
  <2>1. CASE SendDraft(c, TRUE)
    BY <1>6, <2>1
  <2>2. CASE Start(c, "publish", layout, FALSE) /\ UNCHANGED <<server, cached, read, screen, history>>
    BY <1>0, <2>2, StartType DEF FormTypeOK
  <2>. QED
    BY <1>8, <2>1, <2>2 DEF OnPublish
<1>9. ASSUME NEW c \in Calls, OnArchive(c) PROVE FormTypeOK'
  <2>1. NoPages \in Layouts
    BY DEF NoPages, Layouts
  <2>. QED
    BY <1>9, <2>1, StartType DEF OnArchive, FormTypeOK
<1>10. ASSUME NEW c \in Calls, ServeSave(c) \/ ServePublish(c) \/ ServeArchive(c)
       PROVE  FormTypeOK'
  <2>1. UnderWay(c) /\ calls[c].pages \in Layouts
    BY <1>10 DEF ServeSave, ServePublish, ServeArchive, Waits, UnderWay, FormTypeOK,
       CallsUnderWay
  <2>2. form' \in Forms
    BY <1>10, <2>1, ServedType DEF ServeSave, ServePublish, ServeArchive
  <2>3. calls' \in [Calls -> {NoCall} \cup CallsUnderWay]
    BY <1>10, <2>1, PhaseType DEF ServeSave, ServePublish, ServeArchive, Done
  <2>. QED
    BY <1>10, <2>2, <2>3 DEF ServeSave, ServePublish, ServeArchive, FormTypeOK
<1>11. ASSUME NEW c \in Calls, Refuse(c) PROVE FormTypeOK'
  BY <1>11, EmptyType DEF Refuse, FormTypeOK
<1>12. ASSUME NEW c \in Calls, LoseAnswer(c) PROVE FormTypeOK'
  BY <1>12, EmptyType, OutsideType DEF LoseAnswer, Disturb, FormTypeOK
<1>13. ASSUME NEW c \in Calls, Succeed(c) PROVE FormTypeOK'
  BY <1>13, PhaseType, NewReadType DEF Succeed, FormTypeOK
<1>14. ASSUME NEW marks \in SUBSET form.pages.marks, ColleagueSaves(marks) PROVE FormTypeOK'
  <2>1. [form.pages EXCEPT !.marks = marks] \in Layouts
    BY <1>0 DEF Layouts
  <2>. QED
    BY <1>14, <2>1, ServedType, OutsideType DEF ColleagueSaves, Elsewhere, Disturb, FormTypeOK
<1>15. CASE ColleaguePublishes \/ ColleagueArchives
  <2>1. form' \in Forms
    BY <1>0, <1>15, ServedType DEF ColleaguePublishes, ColleagueArchives
  <2>. QED
    BY <1>15, <2>1, OutsideType DEF ColleaguePublishes, ColleagueArchives, Elsewhere, FormTypeOK
<1>16. CASE UpdateSystemField
  BY <1>16, OutsideType DEF UpdateSystemField, Elsewhere, Disturb, FormTypeOK
<1>17. CASE UNCHANGED formVars
  BY <1>17 DEF formVars, FormTypeOK
<1>. QED
  BY <1>1, <1>2, <1>3, <1>4, <1>5, <1>7, <1>8, <1>9, <1>10, <1>11, <1>12, <1>13, <1>14, <1>15,
     <1>16, <1>17 DEF FormNext

-----------------------------------------------------------------------------
(* The form builder: while nothing comes between the author and the form.  *)

SameFields == layout.fields = catalogue /\ form.pages.fields = catalogue

\* What the cache, the server and the screen hold grows in that order.
Ordered ==
  /\ safe \subseteq layout.marks
  /\ cached.pages.marks \subseteq form.pages.marks
  /\ form.pages.marks \subseteq layout.marks

OneSave == \A c, d \in Calls : Saving(c) /\ Saving(d) => c = d

\* A save on its way carries what was noted as sent, and nothing the browser
\* has not seen is on the server.
SaveIsSent ==
  \A c \in Calls : Waits(c, "save") =>
    /\ calls[c].pages = sent /\ calls[c].pages.fields = catalogue
    /\ form.pages = cached.pages
    /\ form.pages.marks \subseteq calls[c].pages.marks
    /\ calls[c].pages.marks \subseteq layout.marks

\* A read is of the form the browser has or of the one on the server.
ReadIsNear ==
  read /= NoCall /\ read.answered => read.form.pages \in {cached.pages, form.pages}

\* What the browser has not seen is the author's save, noted as sent, and the
\* read the save waits for will bring it.
Brings(c) ==
  /\ Saving(c) /\ calls[c].phase /= "sent"
  /\ form.pages = sent
  /\ calls[c].phase = "reading" =>
       read /= NoCall /\ (read.answered => read.form.pages = form.pages)

NewsIsOurs == form.pages /= cached.pages => \E c \in Calls : Brings(c)

\* A publication publishes all that was on the screen.
CarriedBy(c) ==
  UnderWay(c) /\ (calls[c].op = "publish" \/ (calls[c].op = "save" /\ calls[c].phase /= "sent"))
    => calls[c].pages.marks \subseteq form.pages.marks

Carried == \A c \in Calls : CarriedBy(c)

Calm ==
  /\ shown /\ SameFields /\ Ordered /\ OneSave /\ SaveIsSent /\ ReadIsNear /\ NewsIsOurs
  /\ Carried

CalmInv == (disturbed => safe = {}) /\ (~disturbed => Calm)

FormInv == FormTypeOK /\ CalmInv

\* A form that is read again changes nothing on the screen.
LEMMA DeliverLeavesScreen ==
  ASSUME FormTypeOK, Calm, Deliver
  PROVE  /\ layout' = layout
         /\ cached'.pages \in {cached.pages, form.pages}
         /\ cached'.pages = cached.pages => sent' = sent
<1>1. read.form.pages \in {cached.pages, form.pages} /\ shown
  BY DEF Deliver, Calm, ReadIsNear
<1>2. ASSUME Takes(read.form.pages) PROVE read.form.pages = layout
  <2>1. read.form.pages = form.pages /\ form.pages /= cached.pages
    BY <1>1, <1>2 DEF Takes
  <2>2. sent = form.pages
    BY <2>1 DEF Calm, NewsIsOurs, Brings
  <2>3. sent /= NoCall
    BY <2>2, FormBuilderAssumption DEF FormTypeOK, Forms
  <2>. QED
    BY <1>2, <2>1, <2>2, <2>3 DEF Takes
<1>. QED
  BY <1>1, <1>2 DEF Deliver

LEMMA DeliverKeepsCalm ==
  ASSUME FormTypeOK, Calm, Deliver, safe' \subseteq layout'.marks
  PROVE  Calm'
<1> USE DEF server
<1>1. /\ layout' = layout /\ shown'
      /\ cached'.pages \in {cached.pages, form.pages}
      /\ cached'.pages = cached.pages => sent' = sent
  BY DeliverLeavesScreen DEF Deliver
<1>2. UNCHANGED <<form, catalogue>> /\ read' = NoCall
      /\ cached' = read.form /\ read /= NoCall /\ read.answered
      /\ \A c \in Calls : calls'[c] = AfterRead(c)
  BY DEF Deliver
<1>3. ASSUME NEW c \in Calls, UnderWay(c)'
      PROVE  /\ UnderWay(c) /\ calls'[c].pages = calls[c].pages
             /\ \/ GoesOn(c) /\ calls'[c].op = "publish" /\ calls'[c].phase = "sent"
                \/ /\ calls[c].phase /= "reading"
                   /\ calls'[c].op = calls[c].op /\ calls'[c].phase = calls[c].phase
  BY <1>2, <1>3, AfterReadType DEF UnderWay
<1>4. SameFields' /\ Ordered'
  BY <1>1, <1>2 DEF Calm, SameFields, Ordered
<1>5. \A c \in Calls : Saving(c)' => Saving(c) /\ calls'[c].phase = calls[c].phase
                                       /\ calls[c].phase /= "reading"
  BY <1>3 DEF Saving
<1>6. OneSave'
  BY <1>5 DEF Calm, OneSave
<1>7. SaveIsSent'
  <2> SUFFICES ASSUME NEW c \in Calls, Waits(c, "save")'
               PROVE  /\ calls'[c].pages = sent' /\ calls'[c].pages.fields = catalogue
                      /\ form.pages = cached'.pages
                      /\ form.pages.marks \subseteq calls'[c].pages.marks
                      /\ calls'[c].pages.marks \subseteq layout.marks
    BY <1>1, <1>2 DEF SaveIsSent
  <2>1. Waits(c, "save") /\ calls'[c].pages = calls[c].pages
    BY <1>3 DEF Waits
  <2>. QED
    BY <1>1, <2>1 DEF Calm, SaveIsSent
<1>8. ReadIsNear'
  BY <1>2 DEF ReadIsNear
<1>9. NewsIsOurs'
  <2> SUFFICES ASSUME form.pages /= cached'.pages PROVE \E c \in Calls : Brings(c)'
    BY <1>2 DEF NewsIsOurs
  <2>1. cached'.pages = cached.pages /\ sent' = sent
    BY <1>1
  <2>2. PICK c \in Calls : Brings(c)
    BY <2>1 DEF Calm, NewsIsOurs
  <2>3. calls[c].phase /= "reading"
    BY <1>2, <2>2 DEF Brings
  <2>4. UnderWay(c) /\ ~GoesOn(c) /\ calls'[c] /= NoCall
    BY <1>2, <2>2, <2>3, AfterReadType DEF Brings, Saving, GoesOn
  <2>5. calls'[c].op = calls[c].op /\ calls'[c].phase = calls[c].phase /\ UnderWay(c)'
    BY <1>3, <2>4 DEF UnderWay
  <2>6. Brings(c)'
    BY <1>2, <2>1, <2>2, <2>3, <2>5 DEF Brings, Saving
  <2>. QED
    BY <2>6
<1>10. Carried'
  <2> SUFFICES ASSUME NEW c \in Calls, UnderWay(c)',
                      calls'[c].op = "publish" \/ (calls'[c].op = "save" /\ calls'[c].phase /= "sent")
               PROVE  calls'[c].pages.marks \subseteq form.pages.marks
    BY <1>2 DEF Carried, CarriedBy
  <2>. QED
    BY <1>3 DEF Calm, Carried, CarriedBy, GoesOn, Saving
<1>. QED
  BY <1>1, <1>4, <1>6, <1>7, <1>8, <1>9, <1>10 DEF Calm

\* The screen and the server agree, and nothing is under way.
LEMMA AgreedIsCalm ==
  ASSUME FormTypeOK, Deliver, \A c \in Calls : calls'[c] = NoCall,
         layout' = form.pages, read.form.pages = form.pages,
         form.pages.fields = catalogue, safe' = layout'.marks
  PROVE  Calm'
<1> USE DEF server
<1>1. UNCHANGED <<form, catalogue>> /\ read' = NoCall /\ cached' = read.form /\ shown'
  BY DEF Deliver
<1>2. \A c \in Calls : ~UnderWay(c)'
  BY DEF UnderWay
<1>. QED
  BY <1>1, <1>2 DEF Calm, SameFields, Ordered, OneSave, Saving, SaveIsSent, Waits, ReadIsNear,
     NewsIsOurs, Carried, CarriedBy

LEMMA DeliverInv ==
  ASSUME FormInv, Deliver
  PROVE  CalmInv'
<1> DEFINE agreed == /\ \A c \in Calls : calls'[c] = NoCall
                     /\ layout' = form.pages /\ read.form.pages = form.pages
                     /\ form.pages.fields = catalogue
<1>1. disturbed' = (disturbed /\ ~agreed) /\ safe' = IF agreed THEN layout'.marks ELSE safe
  BY DEF Deliver
<1>2. CASE agreed
  BY <1>1, <1>2, AgreedIsCalm DEF FormInv, CalmInv
<1>3. CASE ~agreed /\ disturbed
  BY <1>1, <1>3 DEF FormInv, CalmInv
<1>4. CASE ~agreed /\ ~disturbed
  <2>1. Calm /\ layout' = layout
    BY <1>4, DeliverLeavesScreen DEF FormInv, CalmInv
  <2>2. safe' \subseteq layout'.marks
    BY <1>1, <1>4, <2>1 DEF Calm, Ordered
  <2>. QED
    BY <1>1, <1>4, <2>1, <2>2, DeliverKeepsCalm DEF FormInv, CalmInv, FormTypeOK
<1>. QED
  BY <1>2, <1>3, <1>4 DEF FormInv, FormTypeOK

\* A new call: a publication of what the browser has seen, an archiving, or the
\* only save.
LEMMA StartKeepsCalm ==
  ASSUME FormTypeOK, Calm, NEW c \in Calls, NEW op \in {"save", "publish", "archive"},
         NEW pages \in Layouts, NEW publish \in BOOLEAN, Start(c, op, pages, publish),
         op = "save" => pages = layout /\ sent' = layout /\ \A d \in Calls : ~Saving(d),
         op /= "save" => sent' = sent,
         op = "publish" => pages = cached.pages,
         UNCHANGED <<form, catalogue, cached, read, shown, layout, safe>>
  PROVE  Calm'
<1>1. /\ ~UnderWay(c) /\ calls'[c] = Call(op, pages, publish)
      /\ \A d \in Calls \ {c} :
           /\ UnderWay(d)' <=> UnderWay(d)
           /\ UnderWay(d) => /\ calls'[d].op = calls[d].op
                             /\ calls'[d].phase = calls[d].phase
                             /\ calls'[d].pages = calls[d].pages
  BY StartType
<1>2. /\ calls'[c].op = op /\ calls'[c].phase = "sent" /\ calls'[c].pages = pages
      /\ calls'[c] /= NoCall
  <2>1. calls'[c] \in CallsUnderWay
    BY <1>1, CallType
  <2>. QED
    BY <1>1, <2>1, FormBuilderAssumption DEF Call
<1>3. \A d \in Calls : Saving(d)' => (d = c /\ op = "save") \/ (d /= c /\ Saving(d) /\ op /= "save")
  BY <1>1, <1>2 DEF Saving
<1>4. SameFields' /\ Ordered' /\ ReadIsNear'
  BY DEF Calm, SameFields, Ordered, ReadIsNear
<1>5. OneSave'
  BY <1>3 DEF Calm, OneSave
<1>6. op = "save" => form.pages = cached.pages
  BY DEF Calm, NewsIsOurs, Brings
<1>7. SaveIsSent'
  <2> SUFFICES ASSUME NEW d \in Calls, Waits(d, "save")'
               PROVE  /\ calls'[d].pages = sent' /\ calls'[d].pages.fields = catalogue
                      /\ form.pages = cached.pages
                      /\ form.pages.marks \subseteq calls'[d].pages.marks
                      /\ calls'[d].pages.marks \subseteq layout.marks
    BY DEF SaveIsSent
  <2>1. CASE d = c
    BY <1>2, <1>6, <2>1 DEF Waits, Calm, SameFields, Ordered
  <2>2. CASE d /= c
    BY <1>1, <1>3, <2>2 DEF Waits, Saving, Calm, SaveIsSent
  <2>. QED
    BY <2>1, <2>2
<1>8. NewsIsOurs'
  <2> SUFFICES ASSUME form.pages /= cached.pages PROVE \E d \in Calls : Brings(d)'
    BY DEF NewsIsOurs
  <2>1. PICK d \in Calls : Brings(d)
    BY DEF Calm, NewsIsOurs
  <2>2. d /= c /\ sent' = sent
    BY <1>1, <1>6, <2>1 DEF Brings, Saving
  <2>3. Brings(d)'
    BY <1>1, <2>1, <2>2 DEF Brings, Saving
  <2>. QED
    BY <2>3
<1>9. Carried'
  <2> SUFFICES ASSUME NEW d \in Calls PROVE CarriedBy(d)'
    BY DEF Carried
  <2>1. CASE d = c
    BY <1>2, <2>1 DEF CarriedBy, Calm, Ordered
  <2>2. CASE d /= c
    BY <1>1, <2>2 DEF CarriedBy, Calm, Carried
  <2>. QED
    BY <2>1, <2>2
<1>. QED
  BY <1>4, <1>5, <1>7, <1>8, <1>9 DEF Calm

LEMMA SendDraftInv ==
  ASSUME FormInv, NEW c \in Calls, NEW publish \in BOOLEAN, SendDraft(c, publish)
  PROVE  CalmInv'
<1>1. CASE \E d \in Calls : Saving(d)
  BY <1>1 DEF SendDraft, Disturb, CalmInv
<1>2. CASE disturbed /\ ~\E d \in Calls : Saving(d)
  BY <1>2 DEF SendDraft, FormInv, CalmInv, history
<1>3. CASE ~disturbed /\ ~\E d \in Calls : Saving(d)
  BY <1>3, StartKeepsCalm DEF SendDraft, FormInv, CalmInv, history, server, FormTypeOK
<1>. QED
  BY <1>1, <1>2, <1>3

LEMMA OnPublishInv ==
  ASSUME FormInv, NEW c \in Calls, OnPublish(c)
  PROVE  CalmInv'
<1>1. CASE SendDraft(c, TRUE)
  BY <1>1, SendDraftInv
<1>2. CASE /\ ~Dirty /\ Start(c, "publish", layout, FALSE)
           /\ UNCHANGED <<server, cached, read, screen, history>>
  <2>1. layout = cached.pages /\ layout \in Layouts
    BY <1>2 DEF Dirty, FormInv, FormTypeOK
  <2>. QED
    BY <1>2, <2>1, StartKeepsCalm DEF FormInv, CalmInv, history, server, screen
<1>. QED
  BY <1>1, <1>2 DEF OnPublish

LEMMA OnArchiveInv ==
  ASSUME FormInv, NEW c \in Calls, OnArchive(c)
  PROVE  CalmInv'
<1>1. NoPages \in Layouts
  BY DEF NoPages, Layouts
<1>. QED
  BY <1>1, StartKeepsCalm DEF OnArchive, FormInv, CalmInv, history, server, screen

\* The server has served a save.
LEMMA ServeSaveKeepsCalm ==
  ASSUME FormTypeOK, Calm, NEW c \in Calls, ServeSave(c), UNCHANGED safe
  PROVE  Calm'
<1> USE DEF screen
<1>1. /\ Waits(c, "save") /\ UnderWay(c) /\ Saving(c)
      /\ calls[c].pages \in Layouts /\ calls[c].pages = sent
      /\ calls[c].pages.fields = catalogue /\ form.pages = cached.pages
      /\ form.pages.marks \subseteq calls[c].pages.marks
      /\ calls[c].pages.marks \subseteq layout.marks
  BY DEF ServeSave, Waits, Saving, UnderWay, Calm, SaveIsSent, FormTypeOK, CallsUnderWay
<1>2. form'.pages = calls[c].pages
  BY <1>1, PrepareType DEF ServeSave, SaveFormDraft, FormTypeOK, Forms
<1>3. /\ UnderWay(c)' /\ calls'[c].phase = "done"
      /\ calls'[c].op = "save" /\ calls'[c].pages = calls[c].pages
      /\ \A d \in Calls \ {c} : calls'[d] = calls[d]
  BY <1>1, PhaseType DEF ServeSave, Done, Waits
<1>4. UNCHANGED <<catalogue, cached, read, shown, layout, sent>>
  BY DEF ServeSave
<1>5. SameFields' /\ Ordered'
  BY <1>1, <1>2, <1>4 DEF Calm, SameFields, Ordered
<1>6. \A d \in Calls : Saving(d)' => d = c
  BY <1>1, <1>3 DEF Saving, UnderWay, Calm, OneSave
<1>7. OneSave' /\ SaveIsSent'
  BY <1>3, <1>6 DEF OneSave, SaveIsSent, Waits, Saving
<1>8. ReadIsNear'
  BY <1>1, <1>4 DEF Calm, ReadIsNear
<1>9. Brings(c)'
  BY <1>1, <1>2, <1>3, <1>4 DEF Brings, Saving
<1>10. Carried'
  <2> SUFFICES ASSUME NEW d \in Calls PROVE CarriedBy(d)'
    BY DEF Carried
  <2>1. CASE d = c
    BY <1>2, <1>3, <2>1 DEF CarriedBy
  <2>2. CASE d /= c
    BY <1>1, <1>2, <1>3, <2>2 DEF CarriedBy, Calm, Carried, UnderWay
  <2>. QED
    BY <2>1, <2>2
<1>. QED
  BY <1>4, <1>5, <1>7, <1>8, <1>9, <1>10 DEF Calm, NewsIsOurs

\* The server keeps the layout; a call that is no save may have been served.
LEMMA SamePagesKeepsCalm ==
  ASSUME FormTypeOK, Calm, form'.pages = form.pages,
         UNCHANGED <<catalogue, cached, read, screen, safe>>,
         \A d \in Calls :
           \/ calls'[d] = calls[d]
           \/ /\ UnderWay(d) /\ ~Saving(d) /\ UnderWay(d)'
              /\ calls'[d].op = calls[d].op /\ calls'[d].pages = calls[d].pages
           \/ UnderWay(d) /\ calls[d].phase = "sent" /\ ~UnderWay(d)'
  PROVE  Calm'
<1> USE DEF screen
<1>1. SameFields' /\ Ordered' /\ ReadIsNear'
  BY DEF Calm, SameFields, Ordered, ReadIsNear
<1>2. \A d \in Calls : Saving(d)' => Saving(d) /\ calls'[d] = calls[d]
  BY DEF Saving, UnderWay
<1>3. OneSave'
  BY <1>2 DEF Calm, OneSave
<1>4. SaveIsSent'
  BY <1>2 DEF Calm, SaveIsSent, Waits, Saving
<1>5. NewsIsOurs'
  <2> SUFFICES ASSUME form.pages /= cached.pages PROVE \E d \in Calls : Brings(d)'
    BY DEF NewsIsOurs
  <2>1. PICK d \in Calls : Brings(d)
    BY DEF Calm, NewsIsOurs
  <2>2. calls'[d] = calls[d]
    BY <2>1 DEF Brings, Saving
  <2>3. Brings(d)'
    BY <2>1, <2>2 DEF Brings, Saving, UnderWay
  <2>. QED
    BY <2>3
<1>6. Carried'
  <2> SUFFICES ASSUME NEW d \in Calls, UnderWay(d)',
                      calls'[d].op = "publish" \/ (calls'[d].op = "save" /\ calls'[d].phase /= "sent")
               PROVE  calls'[d].pages.marks \subseteq form.pages.marks
    BY DEF Carried, CarriedBy
  <2>. QED
    BY <1>2 DEF Calm, Carried, CarriedBy, UnderWay, Saving
<1>. QED
  BY <1>1, <1>3, <1>4, <1>5, <1>6 DEF Calm

LEMMA PublishSamePages ==
  ASSUME FormTypeOK, form.pages.fields = catalogue, PublishForm \/ ArchiveForm
  PROVE  form'.pages = form.pages
<1>1. form.pages \in Layouts
  BY DEF FormTypeOK, Forms
<1>2. PrepareDraft(form.pages) = form.pages
  BY <1>1, PrepareType
<1>. QED
  BY <1>2 DEF PublishForm, ArchiveForm, FormTypeOK, Forms

\* A call that succeeded waits for a read begun after it.
LEMMA SucceedKeepsCalm ==
  ASSUME FormTypeOK, Calm, NEW c \in Calls, Succeed(c), UNCHANGED safe
  PROVE  Calm'
<1> USE DEF screen, server
<1>1. /\ UnderWay(c) /\ calls[c].phase = "done"
      /\ UnderWay(c)' /\ calls'[c].phase = "reading"
      /\ calls'[c].op = calls[c].op /\ calls'[c].pages = calls[c].pages
      /\ \A d \in Calls \ {c} : calls'[d] = calls[d]
  BY PhaseType DEF Succeed
<1>2. read' = NewRead /\ read' /= NoCall /\ ~read'.answered
  <2>1. read' = NewRead /\ NewRead \in ReadsUnderWay
    BY NewReadType DEF Succeed
  <2>. QED
    BY <2>1, FormBuilderAssumption DEF NewRead
<1>3. UNCHANGED <<form, catalogue, cached, shown, layout, sent>>
  BY DEF Succeed
<1>4. \A d \in Calls : (Saving(d)' <=> Saving(d)) /\ (Waits(d, "save")' <=> Waits(d, "save"))
  BY <1>1 DEF Saving, Waits, UnderWay
<1>5. SameFields' /\ Ordered' /\ OneSave' /\ ReadIsNear'
  BY <1>2, <1>3, <1>4 DEF Calm, SameFields, Ordered, OneSave, ReadIsNear
<1>6. SaveIsSent'
  <2>1. ~Waits(c, "save")
    BY <1>1 DEF Waits
  <2>. QED
    BY <1>1, <1>3, <1>4, <2>1 DEF Calm, SaveIsSent
<1>7. NewsIsOurs'
  <2>1. \A d \in Calls : Brings(d) => Brings(d)'
    BY <1>1, <1>2, <1>3, <1>4 DEF Brings
  <2>. QED
    BY <1>3, <2>1 DEF Calm, NewsIsOurs
<1>8. Carried'
  BY <1>1, <1>3 DEF Calm, Carried, CarriedBy, UnderWay
<1>. QED
  BY <1>3, <1>5, <1>6, <1>7, <1>8 DEF Calm

LEMMA ReadKeepsCalm ==
  ASSUME FormTypeOK, Calm, ReadForm \/ Focus, UNCHANGED safe
  PROVE  Calm'
<1> USE DEF screen, server
<1>1. UNCHANGED <<form, catalogue, cached, shown, layout, sent, calls>>
  BY DEF ReadForm, Focus
<1>2. read' /= NoCall /\ (read'.answered => read'.form = form)
  <2>1. CASE ReadForm
    <3>1. read' = [answered |-> TRUE, form |-> form] /\ read' \in ReadsUnderWay
      BY <2>1 DEF ReadForm, FormTypeOK, ReadsUnderWay
    <3>. QED
      BY <3>1, FormBuilderAssumption
  <2>2. CASE Focus
    BY <2>2, NewReadType, FormBuilderAssumption DEF Focus, NewRead
  <2>. QED
    BY <2>1, <2>2
<1>3. \A c \in Calls : Brings(c) => Brings(c)'
  BY <1>1, <1>2 DEF Brings, Saving, UnderWay
<1>. QED
  BY <1>1, <1>2, <1>3 DEF Calm, SameFields, Ordered, OneSave, SaveIsSent, ReadIsNear,
     NewsIsOurs, Carried, CarriedBy, Saving, Waits, UnderWay

LEMMA EditKeepsCalm ==
  ASSUME FormTypeOK, Calm, ~disturbed, NEW e \in Edits, Edit(e)
  PROVE  Calm'
<1> USE DEF server
<1>1. /\ UNCHANGED <<form, catalogue, cached, read, shown, sent, calls>>
      /\ layout'.marks = layout.marks \cup {e} /\ layout'.fields = layout.fields
      /\ safe' = safe \cup {e}
  BY DEF Edit, FormTypeOK, Layouts
<1>. QED
  BY <1>1 DEF Calm, SameFields, Ordered, OneSave, SaveIsSent, ReadIsNear, NewsIsOurs, Brings,
     Carried, CarriedBy, Saving, Waits, UnderWay

LEMMA FormInvStep == FormInv /\ [FormNext]_formVars => FormInv'
<1> SUFFICES ASSUME FormInv, [FormNext]_formVars PROVE CalmInv'
  BY FormTypes DEF FormInv
<1> USE DEF FormInv, history
<1>1. CASE Deliver
  BY <1>1, DeliverInv
<1>2. CASE ReadForm \/ Focus
  BY <1>2, ReadKeepsCalm DEF ReadForm, Focus, CalmInv
<1>3. CASE \/ FailRead \/ UpdateSystemField
           \/ \E c \in Calls : LoseAnswer(c)
           \/ \E marks \in SUBSET form.pages.marks : ColleagueSaves(marks)
  <2>1. disturbed' /\ safe' = {}
    BY <1>3 DEF FailRead, UpdateSystemField, LoseAnswer, ColleagueSaves, Disturb
  <2>. QED
    BY <2>1 DEF CalmInv
<1>4. ASSUME NEW e \in Edits, Edit(e) PROVE CalmInv'
  BY <1>4, EditKeepsCalm DEF Edit, CalmInv
<1>5. ASSUME NEW c \in Calls, SaveDraft(c) \/ OnPublish(c) \/ OnArchive(c) PROVE CalmInv'
  BY <1>5, SendDraftInv, OnPublishInv, OnArchiveInv DEF SaveDraft
<1>6. ASSUME NEW c \in Calls, ServeSave(c) PROVE CalmInv'
  BY <1>6, ServeSaveKeepsCalm DEF ServeSave, CalmInv
<1>7. ASSUME NEW c \in Calls, ServePublish(c) \/ ServeArchive(c) PROVE CalmInv'
  <2>1. UnderWay(c) /\ ~Saving(c)
    BY <1>7 DEF ServePublish, ServeArchive, Waits, Saving
  <2>2. /\ UnderWay(c)' /\ calls'[c].op = calls[c].op /\ calls'[c].pages = calls[c].pages
        /\ \A d \in Calls \ {c} : calls'[d] = calls[d]
    BY <1>7, <2>1, PhaseType DEF ServePublish, ServeArchive, Done
  <2>3. ~disturbed => form'.pages = form.pages
    BY <1>7, PublishSamePages DEF ServePublish, ServeArchive, CalmInv, Calm, SameFields
  <2>. QED
    BY <1>7, <2>1, <2>2, <2>3, SamePagesKeepsCalm DEF ServePublish, ServeArchive, CalmInv
<1>8. ASSUME NEW c \in Calls, Refuse(c) PROVE CalmInv'
  <2>1. ~UnderWay(c)' /\ \A d \in Calls \ {c} : calls'[d] = calls[d]
    BY <1>8, EmptyType DEF Refuse
  <2>. QED
    BY <1>8, <2>1, SamePagesKeepsCalm DEF Refuse, CalmInv, server
<1>9. ASSUME NEW c \in Calls, Succeed(c) PROVE CalmInv'
  BY <1>9, SucceedKeepsCalm DEF Succeed, CalmInv
<1>10. CASE ColleaguePublishes \/ ColleagueArchives
  <2>1. ~disturbed => form'.pages = form.pages
    BY <1>10, PublishSamePages DEF ColleaguePublishes, ColleagueArchives, CalmInv, Calm,
       SameFields
  <2>2. UNCHANGED <<catalogue, cached, read, screen, calls, history>>
    BY <1>10 DEF ColleaguePublishes, ColleagueArchives, Elsewhere
  <2>. QED
    BY <2>1, <2>2, SamePagesKeepsCalm DEF CalmInv
<1>11. CASE UNCHANGED formVars
  BY <1>11, SamePagesKeepsCalm DEF formVars, server, CalmInv
<1>. QED
  BY <1>1, <1>2, <1>3, <1>4, <1>5, <1>6, <1>7, <1>8, <1>9, <1>10, <1>11 DEF FormNext

LEMMA FormInvStart == FormInit => FormInv
<1> SUFFICES ASSUME FormInit PROVE CalmInv
  BY FormStart DEF FormInv
<1>1. layout = NoPages /\ form.pages = NoPages /\ cached.pages = NoPages
  BY DEF FormInit
<1>. QED
  BY <1>1 DEF FormInit, CalmInv, Calm, SameFields, Ordered, OneSave, SaveIsSent, ReadIsNear,
     NewsIsOurs, Carried, CarriedBy, Saving, Waits, UnderWay, NoPages

\* What the form builder, its cache and the server hold stays of its kind: a
\* layout is only ever replaced by a layout, a call only ever goes on or ends.
THEOREM FormTypeCorrect == Spec => []FormTypeOK
BY FormStart, FormTypes, TabIsItsScreens, PTL DEF FormSpec

\* A form read again never takes the place of what was edited meanwhile, for any
\* number of edits, calls and reads (FormBuilderPage.tsx:56-71).
THEOREM EditsAlwaysSurvive == Spec => []EditsSurvive
<1>1. FormInv => EditsSurvive
  BY DEF FormInv, CalmInv, Calm, Ordered, EditsSurvive
<1>. QED
  BY <1>1, FormInvStart, FormInvStep, TabIsItsScreens, PTL DEF FormSpec

\* A version the author publishes carries all that was on the screen when they
\* pressed Publish (FormBuilderPage.tsx:91-97, PublishFormHandler.Handle).
THEOREM PublishAlwaysCarriesEdits == Spec => PublishCarriesEdits
<1>1. FormInv => PublishStep
  <2> SUFFICES ASSUME FormInv, NEW c \in Calls, ServePublish(c), ~disturbed
               PROVE  calls[c].pages.marks \subseteq form'.pages.marks
    BY DEF PublishStep
  <2>1. calls[c].pages.marks \subseteq form.pages.marks
    BY DEF ServePublish, Waits, FormInv, CalmInv, Calm, Carried, CarriedBy
  <2>2. form'.pages = form.pages
    BY PublishSamePages DEF ServePublish, FormInv, CalmInv, Calm, SameFields
  <2>. QED
    BY <2>1, <2>2
<1>2. FormInv /\ [FormNext]_formVars => [PublishStep]_formVars
  BY <1>1
<1>. QED
  BY <1>2, FormInvStart, FormInvStep, TabIsItsScreens, PTL DEF FormSpec, PublishCarriesEdits
=============================================================================
