-------------------------- MODULE TimeSheets_proof --------------------------
(***************************************************************************)
(* Proofs about time sheets: what is approved and settled is what was      *)
(* submitted, but for days saved late; never an empty month; never an      *)
(* approval of one's own; and no step loses a day.                         *)
(***************************************************************************)
EXTENDS TimeSheets, TLAPS

\* A save that found a sheet appends to a sheet: sheets do not go away.
SavingInv == \A s \in saving : s.first \/ s.owner \in DOMAIN sheet

TypeInv == TypeOK /\ SavingInv

\* What an exclusive command on o replaces the sheet by.
Exclusive(o) ==
  \/ \E d \in Days : RemoveWorkDay(o, d)
  \/ Decide(o)
  \/ \E by \in People, role \in Roles : CommentOnTimeSheet(o, by, role)

LEMMA WithDayType ==
  ASSUME NEW days \in Hours, NEW d \in Days, NEW m \in Durations \cup {0}
  PROVE  /\ WithDay(days, d, m) \in Hours
         /\ WithDay(days, d, m)[d] = m
         /\ \A e \in Days : e # d => WithDay(days, d, m)[e] = days[e]
BY DEF WithDay, Hours

\* What each exclusive command makes of a sheet, field by field.
LEMMA ExclusiveReplaces ==
  ASSUME TypeOK, NEW o \in DOMAIN sheet, Exclusive(o)
  PROVE  \E new \in Sheet :
           /\ Replace(o, new)
           /\ \/ /\ new.days = sheet[o].days
                 /\ new.status = sheet[o].status
                 /\ new.approvedBy = sheet[o].approvedBy
                 /\ sheet[o].comments \subseteq new.comments
                 /\ Unsubmitted
              \/ /\ IsEditable(sheet[o].status)
                 /\ \E d \in Days : new.days = WithDay(sheet[o].days, d, 0)
                 /\ new.status = sheet[o].status
                 /\ new.approvedBy = sheet[o].approvedBy
                 /\ new.comments = sheet[o].comments
                 /\ Unsubmitted
              \/ /\ MaySubmit(o)
                 /\ new.days = sheet[o].days
                 /\ new.status = "Submitted"
                 /\ new.approvedBy = sheet[o].approvedBy
                 /\ agreed' = [agreed EXCEPT ![o] = sheet[o].days]
                 /\ late' = [late EXCEPT ![o] = {}]
              \/ /\ sheet[o].status = "Submitted"
                 /\ new.days = sheet[o].days
                 /\ new.status = "Approved"
                 /\ new.approvedBy \in People \ {o}
                 /\ Unsubmitted
              \/ /\ sheet[o].status \in {"Submitted", "Approved"}
                 /\ new.days = sheet[o].days
                 /\ new.status = "Correction"
                 /\ new.approvedBy = Nobody
                 /\ new.comments \cap {"Supervisor", "Payroll"} # {}
                 /\ Unsubmitted
              \/ /\ sheet[o].status = "Approved"
                 /\ new.days = sheet[o].days
                 /\ new.status = "Settled"
                 /\ new.approvedBy = sheet[o].approvedBy
                 /\ Unsubmitted
<1> DEFINE old == sheet[o]
<1>1. /\ sheet[o] \in Sheet /\ sheet[o].days \in Hours
      /\ sheet[o].comments \in SUBSET Roles
  BY DEF TypeOK, Sheet
<1>2. ASSUME NEW d \in Days, RemoveWorkDay(o, d)
      PROVE  \E new \in Sheet :
               /\ Replace(o, new)
               /\ IsEditable(sheet[o].status)
               /\ new.days = WithDay(sheet[o].days, d, 0)
               /\ new.status = sheet[o].status
               /\ new.approvedBy = sheet[o].approvedBy
               /\ new.comments = sheet[o].comments
               /\ Unsubmitted
  <2> DEFINE new == [sheet[o] EXCEPT !.days = WithDay(@, d, 0)]
  <2>1. WithDay(sheet[o].days, d, 0) \in Hours
    BY <1>1, WithDayType
  <2>2. /\ new \in Sheet /\ new.days = WithDay(sheet[o].days, d, 0)
        /\ new.status = sheet[o].status /\ new.approvedBy = sheet[o].approvedBy
        /\ new.comments = sheet[o].comments
    BY <1>1, <2>1 DEF Sheet
  <2>3. Replace(o, new) /\ IsEditable(sheet[o].status) /\ Unsubmitted
    BY <1>2 DEF RemoveWorkDay, MayRemove
  <2> HIDE DEF new
  <2>4. QED
    BY <2>2, <2>3
<1>3. ASSUME NEW note \in Notes("Owner"), SubmitTimeSheet(o, note)
      PROVE  \E new \in Sheet :
               /\ Replace(o, new)
               /\ MaySubmit(o)
               /\ new.days = sheet[o].days
               /\ new.status = "Submitted"
               /\ new.approvedBy = sheet[o].approvedBy
               /\ agreed' = [agreed EXCEPT ![o] = sheet[o].days]
               /\ late' = [late EXCEPT ![o] = {}]
  <2> DEFINE new == [sheet[o] EXCEPT !.status = "Submitted", !.comments = @ \cup note]
  <2>1. /\ new \in Sheet /\ new.days = sheet[o].days /\ new.status = "Submitted"
        /\ new.approvedBy = sheet[o].approvedBy
    BY <1>1 DEF Sheet, Statuses, Roles, Notes
  <2>2. /\ Replace(o, new) /\ MaySubmit(o)
        /\ agreed' = [agreed EXCEPT ![o] = sheet[o].days]
        /\ late' = [late EXCEPT ![o] = {}]
    BY <1>3 DEF SubmitTimeSheet
  <2> HIDE DEF new
  <2>3. QED
    BY <2>1, <2>2
<1>4. ASSUME NEW by \in People, NEW note \in Notes("Supervisor"), ApproveTimeSheet(o, by, note)
      PROVE  \E new \in Sheet :
               /\ Replace(o, new)
               /\ sheet[o].status = "Submitted"
               /\ new.days = sheet[o].days
               /\ new.status = "Approved"
               /\ new.approvedBy \in People \ {o}
               /\ Unsubmitted
  <2> DEFINE new == [sheet[o] EXCEPT !.status = "Approved", !.approvedBy = by,
                                     !.comments = @ \cup note]
  <2>1. /\ new \in Sheet /\ new.days = sheet[o].days /\ new.status = "Approved"
        /\ new.approvedBy = by
    BY <1>1 DEF Sheet, Statuses, Roles, Notes
  <2>2. /\ Replace(o, new) /\ Unsubmitted /\ by # o
        /\ sheet[o].status = "Submitted"
    BY <1>4 DEF ApproveTimeSheet, MayBeAbove, CanChange
  <2> HIDE DEF new
  <2>3. QED
    BY <2>1, <2>2
<1>5. ASSUME NEW by \in People, NEW role \in Roles, ReturnTimeSheetForCorrection(o, by, role)
      PROVE  \E new \in Sheet :
               /\ Replace(o, new)
               /\ sheet[o].status \in {"Submitted", "Approved"}
               /\ new.days = sheet[o].days
               /\ new.status = "Correction"
               /\ new.approvedBy = Nobody
               /\ new.comments \cap {"Supervisor", "Payroll"} # {}
               /\ Unsubmitted
  <2> DEFINE new == AfterReturn(o, role)
  <2>1. /\ new \in Sheet /\ new.days = sheet[o].days /\ new.status = "Correction"
        /\ new.approvedBy = Nobody /\ role \in new.comments
    BY <1>1 DEF Sheet, Statuses, AfterReturn
  <2>2. /\ Replace(o, new) /\ Unsubmitted /\ role \in {"Supervisor", "Payroll"}
        /\ sheet[o].status \in {"Submitted", "Approved"}
    BY <1>5 DEF ReturnTimeSheetForCorrection, CanChange
  <2> HIDE DEF new
  <2>3. QED
    BY <2>1, <2>2
<1>6. ASSUME SettleTimeSheet(o)
      PROVE  \E new \in Sheet :
               /\ Replace(o, new)
               /\ sheet[o].status = "Approved"
               /\ new.days = sheet[o].days
               /\ new.status = "Settled"
               /\ new.approvedBy = sheet[o].approvedBy
               /\ Unsubmitted
  <2> DEFINE new == [sheet[o] EXCEPT !.status = "Settled"]
  <2>1. /\ new \in Sheet /\ new.days = sheet[o].days /\ new.status = "Settled"
        /\ new.approvedBy = sheet[o].approvedBy
    BY <1>1 DEF Sheet, Statuses
  <2>2. Replace(o, new) /\ Unsubmitted /\ sheet[o].status = "Approved"
    BY <1>6 DEF SettleTimeSheet, CanChange
  <2> HIDE DEF new
  <2>3. QED
    BY <2>1, <2>2
<1>7. ASSUME NEW by \in People, NEW role \in Roles, CommentOnTimeSheet(o, by, role)
      PROVE  \E new \in Sheet :
               /\ Replace(o, new)
               /\ new.days = sheet[o].days
               /\ new.status = sheet[o].status
               /\ new.approvedBy = sheet[o].approvedBy
               /\ sheet[o].comments \subseteq new.comments
               /\ Unsubmitted
  <2> DEFINE new == [sheet[o] EXCEPT !.comments = @ \cup {role}]
  <2>1. /\ new \in Sheet /\ new.days = sheet[o].days /\ new.status = sheet[o].status
        /\ new.approvedBy = sheet[o].approvedBy /\ sheet[o].comments \subseteq new.comments
    BY <1>1 DEF Sheet
  <2>2. Replace(o, new) /\ Unsubmitted
    BY <1>7 DEF CommentOnTimeSheet
  <2> HIDE DEF new
  <2>3. QED
    BY <2>1, <2>2
<1>8. QED
  BY <1>2, <1>3, <1>4, <1>5, <1>6, <1>7 DEF Exclusive, Decide

LEMMA ReplaceKeeps ==
  ASSUME TypeOK, NEW o \in DOMAIN sheet, NEW new \in Sheet, Replace(o, new)
  PROVE  /\ DOMAIN sheet' = DOMAIN sheet
         /\ sheet' \in [DOMAIN sheet -> Sheet]
         /\ sheet'[o] = new
         /\ \A p \in DOMAIN sheet : p # o => sheet'[p] = sheet[p]
         /\ saving' = saving
BY DEF TypeOK, Replace

\* A first save makes a draft with one day on it; a later one sets one day.
LEMMA StartMakes ==
  ASSUME TypeOK, NEW s \in saving, StartTimeSheet(s)
  PROVE  /\ s.owner \in Owners /\ s.owner \notin DOMAIN sheet
         /\ DOMAIN sheet' = DOMAIN sheet \cup {s.owner}
         /\ sheet' \in [DOMAIN sheet' -> Sheet]
         /\ sheet'[s.owner].status = "Draft" /\ sheet'[s.owner].approvedBy = Nobody
         /\ sheet'[s.owner].days = WithDay(NoHours, s.day, s.minutes)
         /\ s.day \in Days /\ s.minutes \in Durations
         /\ \A p \in DOMAIN sheet : sheet'[p] = sheet[p]
         /\ saving' = saving \ {s} /\ Unsubmitted
<1> DEFINE new == [NewSheet EXCEPT !.days[s.day] = s.minutes]
<1>1. s \in Saves
  BY DEF TypeOK
<1>2. NoHours \in Hours /\ NewSheet.days = NoHours
  BY DEF NoHours, Hours, NewSheet
<1>3. [NoHours EXCEPT ![s.day] = s.minutes] \in Hours
  BY <1>1, <1>2 DEF Hours, Saves
<1>4. new = [status |-> "Draft", days |-> [NoHours EXCEPT ![s.day] = s.minutes],
             approvedBy |-> Nobody, comments |-> {}]
  BY DEF NewSheet
<1>5. /\ new \in Sheet /\ new.status = "Draft" /\ new.approvedBy = Nobody
      /\ new.days = WithDay(NoHours, s.day, s.minutes)
  BY <1>3, <1>4 DEF Sheet, Statuses, WithDay
<1>6. /\ sheet' = [o \in DOMAIN sheet \cup {s.owner} |-> IF o = s.owner THEN new ELSE sheet[o]]
      /\ s.owner \notin DOMAIN sheet /\ saving' = saving \ {s} /\ Unsubmitted
  BY DEF StartTimeSheet, MayStart, Exists, Unsubmitted
<1> HIDE DEF new
<1>7. QED
  BY <1>1, <1>5, <1>6 DEF TypeOK, Saves

LEMMA AppendMakes ==
  ASSUME TypeInv, NEW s \in saving, AppendWorkDay(s)
  PROVE  /\ s.owner \in DOMAIN sheet /\ s.day \in Days /\ s.minutes \in Durations
         /\ DOMAIN sheet' = DOMAIN sheet
         /\ sheet' \in [DOMAIN sheet' -> Sheet]
         /\ sheet'[s.owner].days = WithDay(sheet[s.owner].days, s.day, s.minutes)
         /\ sheet'[s.owner].status = sheet[s.owner].status
         /\ sheet'[s.owner].approvedBy = sheet[s.owner].approvedBy
         /\ sheet'[s.owner].comments = sheet[s.owner].comments
         /\ \A p \in DOMAIN sheet : p # s.owner => sheet'[p] = sheet[p]
         /\ saving' = saving \ {s}
<1>1. /\ s.owner \in DOMAIN sheet /\ s.day \in Days /\ s.minutes \in Durations
      /\ sheet[s.owner] \in Sheet
  BY DEF TypeInv, TypeOK, SavingInv, AppendWorkDay, Saves
<1> DEFINE new == [sheet[s.owner] EXCEPT !.days = WithDay(@, s.day, s.minutes)]
<1>2. WithDay(sheet[s.owner].days, s.day, s.minutes) \in Hours
  BY <1>1, WithDayType DEF Sheet
<1>3. /\ new \in Sheet /\ new.days = WithDay(sheet[s.owner].days, s.day, s.minutes)
      /\ new.status = sheet[s.owner].status
      /\ new.approvedBy = sheet[s.owner].approvedBy
      /\ new.comments = sheet[s.owner].comments
  BY <1>1, <1>2 DEF Sheet
<1>4. sheet' = [sheet EXCEPT ![s.owner] = new] /\ saving' = saving \ {s}
  BY DEF AppendWorkDay
<1> HIDE DEF new
<1>5. QED
  BY <1>1, <1>3, <1>4 DEF TypeInv, TypeOK

-----------------------------------------------------------------------------
LEMMA TypeInductive == TypeInv /\ [Next]_vars => TypeInv'
<1> SUFFICES ASSUME TypeInv, [Next]_vars PROVE TypeInv'
  OBVIOUS
<1>1. TypeOK /\ SavingInv
  BY DEF TypeInv
<1>2. ASSUME NEW o \in Owners, NEW d \in Days, NEW m \in Durations, SaveWorkDay(o, d, m)
      PROVE  TypeInv'
  <2> DEFINE s == [owner |-> o, day |-> d, minutes |-> m, first |-> ~Exists(o)]
  <2>1. s.owner = o /\ (s.first <=> ~Exists(o))
    OBVIOUS
  <2>2. s \in Saves
    <3>1. (~Exists(o)) \in BOOLEAN
      OBVIOUS
    <3>2. QED
      BY <3>1, Zenon DEF Saves
  <2>3. saving' = saving \cup {s} /\ UNCHANGED <<sheet, agreed, late>>
    BY <1>2 DEF SaveWorkDay
  <2> HIDE DEF s
  <2>4. TypeOK'
    BY <1>1, <2>2, <2>3 DEF TypeOK
  <2>5. SavingInv'
    BY <1>1, <2>1, <2>3 DEF SavingInv, Exists
  <2>6. QED
    BY <2>4, <2>5 DEF TypeInv
<1>3. ASSUME NEW s \in saving, StartTimeSheet(s) PROVE TypeInv'
  <2>1. /\ s.owner \in Owners /\ DOMAIN sheet' = DOMAIN sheet \cup {s.owner}
        /\ sheet' \in [DOMAIN sheet' -> Sheet]
        /\ saving' = saving \ {s} /\ agreed' = agreed /\ late' = late
    BY <1>1, <1>3, StartMakes DEF Unsubmitted
  <2>2. TypeOK'
    BY <1>1, <2>1 DEF TypeOK
  <2>3. SavingInv'
    BY <1>1, <2>1 DEF SavingInv
  <2>4. QED
    BY <2>2, <2>3 DEF TypeInv
<1>4. ASSUME NEW s \in saving, RefuseStart(s) PROVE TypeInv'
  BY <1>1, <1>4 DEF RefuseStart, TypeInv, TypeOK, SavingInv
<1>5. ASSUME NEW s \in saving, AppendWorkDay(s) PROVE TypeInv'
  <2>1. late' \in [Owners -> SUBSET Days] /\ agreed' = agreed
    <3>1. late[s.owner] \in SUBSET Days /\ s.day \in Days
      BY <1>1, <1>5, AppendMakes DEF TypeOK
    <3>2. QED
      BY <1>1, <1>5, <3>1 DEF AppendWorkDay, TypeOK
  <2>2. QED
    BY <1>1, <1>5, <2>1, AppendMakes DEF TypeInv, TypeOK, SavingInv
<1>6. ASSUME NEW o \in DOMAIN sheet, Exclusive(o) PROVE TypeInv'
  <2>1. PICK new \in Sheet :
          /\ Replace(o, new)
          /\ \/ Unsubmitted
             \/ /\ agreed' = [agreed EXCEPT ![o] = sheet[o].days]
                /\ late' = [late EXCEPT ![o] = {}]
    BY <1>1, <1>6, ExclusiveReplaces
  <2>2. sheet[o].days \in Hours
    BY <1>1 DEF TypeOK, Sheet
  <2>3. agreed' \in [Owners -> Hours] /\ late' \in [Owners -> SUBSET Days]
    BY <1>1, <2>1, <2>2 DEF TypeOK, Unsubmitted
  <2>4. QED
    BY <1>1, <2>1, <2>3, ReplaceKeeps DEF TypeInv, TypeOK, SavingInv
<1>7. CASE UNCHANGED vars
  BY <1>1, <1>7 DEF vars, TypeInv, TypeOK, SavingInv
<1>8. QED
  BY <1>2, <1>3, <1>4, <1>5, <1>6, <1>7 DEF Next, Save, Exclusive

LEMMA TypeInit == Init => TypeInv
<1> SUFFICES ASSUME Init PROVE TypeInv
  OBVIOUS
<1>1. NoHours \in Hours
  BY DEF NoHours, Hours
<1>2. QED
  BY <1>1 DEF Init, TypeInv, TypeOK, SavingInv

\* Every reachable state has its type.
THEOREM TypeCorrect == Spec => []TypeOK
<1>1. TypeInv => TypeOK
  BY DEF TypeInv
<1>2. QED
  BY <1>1, TypeInit, TypeInductive, PTL DEF Spec

-----------------------------------------------------------------------------
(* The hours.                                                              *)

HoursInv == TypeInv /\ HoursAreAgreed

LEMMA HoursInductive == HoursInv /\ [Next]_vars => HoursInv'
<1> SUFFICES ASSUME HoursInv, [Next]_vars PROVE HoursAreAgreed'
  BY TypeInductive DEF HoursInv
<1>1. TypeOK /\ TypeInv /\ HoursAreAgreed
  BY DEF HoursInv, TypeInv
<1>2. CASE UNCHANGED <<sheet, agreed, late>>
  BY <1>1, <1>2 DEF HoursAreAgreed
<1>3. ASSUME NEW s \in saving, StartTimeSheet(s) PROVE HoursAreAgreed'
  BY <1>1, <1>3, StartMakes DEF HoursAreAgreed, OutOfHands, Unsubmitted
<1>4. ASSUME NEW s \in saving, AppendWorkDay(s) PROVE HoursAreAgreed'
  <2> SUFFICES ASSUME NEW o \in DOMAIN sheet', sheet'[o].status \in OutOfHands,
                      NEW d \in Days, sheet'[o].days[d] # agreed'[o][d]
               PROVE  d \in late'[o]
    BY DEF HoursAreAgreed
  <2>1. o \in DOMAIN sheet /\ agreed' = agreed /\ o \in Owners
    BY <1>1, <1>4, AppendMakes DEF AppendWorkDay, TypeOK
  <2>2. CASE o # s.owner
    BY <1>1, <1>4, <2>1, <2>2, AppendMakes DEF HoursAreAgreed, AppendWorkDay, TypeOK
  <2>3. CASE o = s.owner
    <3>1. sheet[o].status \in OutOfHands /\ ~IsEditable(sheet[o].status)
      BY <1>1, <1>4, <2>3, AppendMakes DEF OutOfHands, IsEditable
    <3>2. late'[o] = late[o] \cup {s.day}
      BY <1>1, <1>4, <2>1, <2>3, <3>1 DEF AppendWorkDay, TypeOK
    <3>3. CASE d = s.day
      BY <3>2, <3>3
    <3>4. CASE d # s.day
      <4>1. sheet[o].days \in Hours /\ s.day \in Days /\ s.minutes \in Durations
        BY <1>1, <1>4, <2>1, AppendMakes DEF TypeOK, Sheet
      <4>2. sheet'[o].days[d] = sheet[o].days[d]
        BY <1>1, <1>4, <2>3, <3>4, <4>1, AppendMakes, WithDayType
      <4>3. QED
        BY <1>1, <2>1, <3>1, <3>2, <4>2 DEF HoursAreAgreed
    <3>5. QED
      BY <3>3, <3>4
  <2>4. QED
    BY <2>2, <2>3
<1>5. ASSUME NEW o \in DOMAIN sheet, Exclusive(o) PROVE HoursAreAgreed'
  <2>1. PICK new \in Sheet :
          /\ Replace(o, new)
          /\ \/ new.status \notin OutOfHands /\ Unsubmitted
             \/ /\ new.days = sheet[o].days
                /\ agreed' = [agreed EXCEPT ![o] = sheet[o].days]
                /\ late' = [late EXCEPT ![o] = {}]
             \/ /\ new.days = sheet[o].days
                /\ sheet[o].status \in OutOfHands
                /\ Unsubmitted
    <3>1. sheet[o].status \in Statuses
      BY <1>1 DEF TypeOK, Sheet
    <3>2. QED
      BY <1>1, <1>5, <3>1, ExclusiveReplaces DEF OutOfHands, Statuses, IsEditable
  <2>2. /\ DOMAIN sheet' = DOMAIN sheet /\ sheet'[o] = new
        /\ \A p \in DOMAIN sheet : p # o => sheet'[p] = sheet[p]
    BY <1>1, <2>1, ReplaceKeeps
  <2>3. o \in Owners
    BY <1>1 DEF TypeOK
  <2>4. ASSUME NEW p \in DOMAIN sheet, p # o PROVE agreed'[p] = agreed[p] /\ late'[p] = late[p]
    BY <1>1, <2>1, <2>4 DEF TypeOK, Unsubmitted
  <2>5. sheet'[o].status \in OutOfHands =>
          \A d \in Days : sheet'[o].days[d] # agreed'[o][d] => d \in late'[o]
    BY <1>1, <2>1, <2>2, <2>3 DEF TypeOK, Unsubmitted, HoursAreAgreed
  <2>6. QED
    BY <1>1, <2>2, <2>4, <2>5 DEF HoursAreAgreed
<1>6. QED
  BY <1>2, <1>3, <1>4, <1>5 DEF Next, Save, Exclusive, SaveWorkDay, RefuseStart, vars

\* What is approved and settled is what was submitted, but for the days a call
\* saved that had found the sheet open.
THEOREM AgreedHours == Spec => []HoursAreAgreed
<1>1. Init => HoursInv
  BY TypeInit DEF Init, HoursInv, HoursAreAgreed
<1>2. HoursInv => HoursAreAgreed
  BY DEF HoursInv
<1>3. QED
  BY <1>1, <1>2, HoursInductive, PTL DEF Spec

-----------------------------------------------------------------------------
(* Never empty, and signed.                                                *)

LEMMA NeverEmptyInductive == TypeInv /\ NeverEmpty /\ [Next]_vars => NeverEmpty'
<1> SUFFICES ASSUME TypeInv, NeverEmpty, [Next]_vars PROVE NeverEmpty'
  OBVIOUS
<1>1. TypeOK
  BY DEF TypeInv
<1>2. CASE UNCHANGED sheet
  BY <1>2 DEF NeverEmpty, TotalIsZero
<1>3. ASSUME NEW s \in saving, StartTimeSheet(s) PROVE NeverEmpty'
  <2>1. /\ DOMAIN sheet' = DOMAIN sheet \cup {s.owner} /\ s.owner \in Owners
        /\ sheet'[s.owner].status = "Draft" /\ sheet'[s.owner].approvedBy = Nobody
        /\ \A p \in DOMAIN sheet : sheet'[p] = sheet[p]
    BY <1>1, <1>3, StartMakes
  <2>2. QED
    BY <1>1, <2>1 DEF NeverEmpty, OutOfHands
<1>4. ASSUME NEW s \in saving, AppendWorkDay(s) PROVE NeverEmpty'
  <2>1. sheet'[s.owner].days[s.day] # 0 /\ s.day \in Days
    <3>1. sheet[s.owner].days \in Hours /\ s.day \in Days /\ s.minutes \in Durations
      BY <1>1, <1>4, AppendMakes DEF TypeOK, Sheet
    <3>2. s.minutes # 0
      BY <3>1, TimeSheetsAssumption
    <3>3. QED
      BY <1>4, <3>1, <3>2, AppendMakes, WithDayType
  <2>2. ~TotalIsZero(sheet'[s.owner])
    BY <2>1 DEF TotalIsZero
  <2>3. QED
    BY <1>1, <1>4, <2>2, AppendMakes DEF NeverEmpty, TotalIsZero
<1>5. ASSUME NEW o \in DOMAIN sheet, Exclusive(o) PROVE NeverEmpty'
  <2>1. PICK new \in Sheet :
          /\ Replace(o, new)
          /\ \/ new.status \notin OutOfHands
             \/ /\ new.days = sheet[o].days
                /\ sheet[o].status \in OutOfHands \/ ~TotalIsZero(sheet[o])
    <3>1. sheet[o].status \in Statuses
      BY <1>1 DEF TypeOK, Sheet
    <3>2. QED
      BY <1>1, <1>5, <3>1, ExclusiveReplaces DEF OutOfHands, Statuses, IsEditable, MaySubmit
  <2>2. /\ DOMAIN sheet' = DOMAIN sheet /\ sheet'[o] = new
        /\ \A p \in DOMAIN sheet : p # o => sheet'[p] = sheet[p]
    BY <1>1, <2>1, ReplaceKeeps
  <2>3. QED
    BY <2>1, <2>2 DEF NeverEmpty, TotalIsZero
<1>6. QED
  BY <1>2, <1>3, <1>4, <1>5 DEF Next, Save, Exclusive, SaveWorkDay, RefuseStart, vars

\* A sheet that is submitted, approved or settled never becomes empty.
THEOREM NoEmptyMonth == Spec => []NeverEmpty
<1>1. Init => NeverEmpty
  BY DEF Init, NeverEmpty
<1>2. QED
  BY <1>1, TypeInit, TypeInductive, NeverEmptyInductive, PTL DEF Spec

LEMMA SignedInductive ==
  TypeInv /\ DecisionsAreSigned /\ [Next]_vars => DecisionsAreSigned'
<1> SUFFICES ASSUME TypeInv, DecisionsAreSigned, [Next]_vars PROVE DecisionsAreSigned'
  OBVIOUS
<1>1. TypeOK /\ \A o \in Owners : o # Nobody
  BY TimeSheetsAssumption DEF TypeInv
<1>2. CASE UNCHANGED sheet
  BY <1>2 DEF DecisionsAreSigned
<1>3. ASSUME NEW s \in saving, StartTimeSheet(s) PROVE DecisionsAreSigned'
  <2>1. /\ DOMAIN sheet' = DOMAIN sheet \cup {s.owner} /\ s.owner \in Owners
        /\ sheet'[s.owner].status = "Draft" /\ sheet'[s.owner].approvedBy = Nobody
        /\ \A p \in DOMAIN sheet : sheet'[p] = sheet[p]
    BY <1>1, <1>3, StartMakes
  <2>2. QED
    BY <1>1, <2>1 DEF DecisionsAreSigned
<1>4. ASSUME NEW s \in saving, AppendWorkDay(s) PROVE DecisionsAreSigned'
  BY <1>4, AppendMakes DEF DecisionsAreSigned
<1>5. ASSUME NEW o \in DOMAIN sheet, Exclusive(o) PROVE DecisionsAreSigned'
  <2>1. sheet[o].status \in Statuses /\ o \in Owners
    BY <1>1 DEF TypeOK, Sheet
  <2>2. PICK new \in Sheet :
          /\ Replace(o, new)
          /\ new.status \in {"Approved", "Settled"} <=> new.approvedBy # Nobody
          /\ new.approvedBy # o
          /\ new.status = "Correction" => new.comments \cap {"Supervisor", "Payroll"} # {}
    <3>1. /\ sheet[o].status \in {"Approved", "Settled"} <=> sheet[o].approvedBy # Nobody
          /\ sheet[o].approvedBy # o
          /\ sheet[o].status = "Correction" => sheet[o].comments \cap {"Supervisor", "Payroll"} # {}
      BY DEF DecisionsAreSigned
    <3>2. MaySubmit(o) => sheet[o].status \in {"Draft", "Correction"}
      BY DEF MaySubmit, CanChange
    <3>3. PICK new \in Sheet :
           /\ Replace(o, new)
           /\ \/ /\ new.status = sheet[o].status
                 /\ new.approvedBy = sheet[o].approvedBy
                 /\ sheet[o].comments \subseteq new.comments
              \/ /\ MaySubmit(o)
                 /\ new.status = "Submitted"
                 /\ new.approvedBy = sheet[o].approvedBy
              \/ /\ new.status = "Approved"
                 /\ new.approvedBy \in People \ {o}
              \/ /\ new.status = "Correction"
                 /\ new.approvedBy = Nobody
                 /\ new.comments \cap {"Supervisor", "Payroll"} # {}
              \/ /\ sheet[o].status = "Approved"
                 /\ new.status = "Settled"
                 /\ new.approvedBy = sheet[o].approvedBy
      BY <1>1, <1>5, ExclusiveReplaces
    <3>4. QED
      BY <1>1, <2>1, <3>1, <3>2, <3>3, TimeSheetsAssumption
  <2>3. /\ DOMAIN sheet' = DOMAIN sheet /\ sheet'[o] = new
        /\ \A p \in DOMAIN sheet : p # o => sheet'[p] = sheet[p]
    BY <1>1, <2>2, ReplaceKeeps
  <2>4. QED
    BY <2>2, <2>3 DEF DecisionsAreSigned
<1>6. QED
  BY <1>2, <1>3, <1>4, <1>5 DEF Next, Save, Exclusive, SaveWorkDay, RefuseStart, vars

\* An approved or settled sheet carries somebody else's approval, and a sheet
\* sent back carries a reason.
THEOREM SignedDecisions == Spec => []DecisionsAreSigned
<1>1. Init => DecisionsAreSigned
  BY DEF Init, DecisionsAreSigned
<1>2. QED
  BY <1>1, TypeInit, TypeInductive, SignedInductive, PTL DEF Spec

-----------------------------------------------------------------------------
\* No step changes two days, so two people who write the first day of a month
\* at the same time cannot wipe each other's.
THEOREM NoDayLost == Days # {} => (Spec => OneDayAtATime)
<1> SUFFICES ASSUME Days # {} PROVE Spec => OneDayAtATime
  OBVIOUS
<1> DEFINE Step == \A o \in DOMAIN sheet :
                     \E d \in Days : sheet'[o].days = [sheet[o].days EXCEPT ![d] = sheet'[o].days[d]]
<1>1. TypeInv /\ [Next]_vars => [Step]_vars
  <2> SUFFICES ASSUME TypeInv, [Next]_vars, NEW o \in DOMAIN sheet
               PROVE  \E d \in Days :
                        sheet'[o].days = [sheet[o].days EXCEPT ![d] = sheet'[o].days[d]]
    OBVIOUS
  <2>1. TypeOK /\ sheet[o].days \in Hours
    BY DEF TypeInv, TypeOK, Sheet
  <2>2. CASE sheet'[o].days = sheet[o].days
    BY <2>1, <2>2 DEF Hours
  <2>3. ASSUME NEW d \in Days, NEW m \in Durations \cup {0},
               sheet'[o].days = WithDay(sheet[o].days, d, m)
        PROVE  sheet'[o].days = [sheet[o].days EXCEPT ![d] = sheet'[o].days[d]]
    BY <2>1, <2>3 DEF WithDay, Hours
  <2>4. CASE UNCHANGED sheet
    BY <2>2, <2>4
  <2>5. ASSUME NEW s \in saving, StartTimeSheet(s) PROVE sheet'[o].days = sheet[o].days
    BY <2>1, <2>5, StartMakes
  <2>6. ASSUME NEW s \in saving, AppendWorkDay(s)
        PROVE  \/ sheet'[o].days = sheet[o].days
               \/ \E d \in Days, m \in Durations \cup {0} :
                    sheet'[o].days = WithDay(sheet[o].days, d, m)
    BY <2>6, AppendMakes
  <2>7. ASSUME NEW p \in DOMAIN sheet, Exclusive(p)
        PROVE  \/ sheet'[o].days = sheet[o].days
               \/ \E d \in Days : sheet'[o].days = WithDay(sheet[o].days, d, 0)
    <3>1. PICK new \in Sheet :
            /\ Replace(p, new)
            /\ \/ new.days = sheet[p].days
               \/ \E d \in Days : new.days = WithDay(sheet[p].days, d, 0)
      BY <2>1, <2>7, ExclusiveReplaces
    <3>2. QED
      BY <2>1, <3>1, ReplaceKeeps
  <2>8. QED
    BY <2>2, <2>3, <2>4, <2>5, <2>6, <2>7
       DEF Next, Save, Exclusive, SaveWorkDay, RefuseStart, vars
<1>2. QED
  BY <1>1, TypeInit, TypeInductive, PTL DEF Spec, OneDayAtATime

-----------------------------------------------------------------------------
(* The refinement of Month.                                                *)

Months == [p \in Owners |-> MonthOf(p)]

\* A step that changes one owner's month changes nobody else's.
LEMMA OneMonth ==
  ASSUME NEW o \in Owners, NEW new,
         MonthOf(o)' = new, \A p \in Owners : p # o => MonthOf(p)' = MonthOf(p)
  PROVE  Months' = [Months EXCEPT ![o] = new]
BY DEF Months

LEMMA MonthIs ==
  ASSUME NEW o \in DOMAIN sheet
  PROVE  MonthOf(o) = [status |-> sheet[o].status, hours |-> sheet[o].days,
                       by |-> sheet[o].approvedBy]
BY DEF MonthOf, Exists

LEMMA SameMonths ==
  ASSUME UNCHANGED sheet
  PROVE  Months' = Months
BY DEF Months, MonthOf, Exists

\* A save that is done may still be under way for somebody else.
LEMMA SavesEnd ==
  ASSUME NEW s \in saving, saving' = saving \ {s}
  PROVE  LET b == [owner |-> s.owner, day |-> s.day, minutes |-> s.minutes]
         IN  b \in Begun /\ Promise!Ended(b)
<1> DEFINE Call(c) == [owner |-> c.owner, day |-> c.day, minutes |-> c.minutes]
<1>1. Call(s) \in Begun
  BY DEF Begun
<1>2. Begun' \subseteq Begun /\ Begun \ {Call(s)} \subseteq Begun'
  BY DEF Begun
<1>3. Begun' = Begun \/ Begun' = Begun \ {Call(s)}
  BY <1>2
<1>. QED
  BY <1>1, <1>3 DEF Promise!Ended

LEMMA BeginMaps ==
  ASSUME TypeInv, NEW o \in Owners, NEW d \in Days, NEW m \in Durations, SaveWorkDay(o, d, m)
  PROVE  Promise!Begin(o, d, m)
<1>1. sheet' = sheet /\ saving' = saving \cup {[owner |-> o, day |-> d, minutes |-> m, first |-> ~Exists(o)]}
  BY DEF SaveWorkDay
<1>2. Begun' = Begun \cup {[owner |-> o, day |-> d, minutes |-> m]}
  <2> DEFINE s == [owner |-> o, day |-> d, minutes |-> m, first |-> ~Exists(o)]
  <2>1. saving' = saving \cup {s} /\ s.owner = o /\ s.day = d /\ s.minutes = m
    BY <1>1
  <2> HIDE DEF s
  <2>. QED
    BY <2>1 DEF Begun
<1>3. MonthOf(o).status \in {"Draft", "Correction"}
  BY DEF SaveWorkDay, MonthOf, IsEditable
<1>. QED
  BY <1>1, <1>2, <1>3, SameMonths DEF Promise!Begin, Promise!Open, Months

LEMMA StartMaps ==
  ASSUME TypeInv, NEW s \in saving, StartTimeSheet(s)
  PROVE  \E b \in Begun : Promise!Write(b)
<1> DEFINE b == [owner |-> s.owner, day |-> s.day, minutes |-> s.minutes]
<1>1. TypeOK
  BY DEF TypeInv
<1>2. /\ s.owner \in Owners /\ s.owner \notin DOMAIN sheet /\ s.owner \in DOMAIN sheet'
      /\ sheet'[s.owner].status = "Draft" /\ sheet'[s.owner].approvedBy = Nobody
      /\ sheet'[s.owner].days = WithDay(NoHours, s.day, s.minutes)
      /\ saving' = saving \ {s}
  BY <1>1, StartMakes
<1>3. \A p \in Owners : p # s.owner => MonthOf(p)' = MonthOf(p)
  BY <1>1, StartMakes DEF MonthOf, Exists
<1>4. PICK o \in Owners : o = s.owner
  BY <1>2
<1>5. PICK d : d = s.day
  OBVIOUS
<1>6. PICK m : m = s.minutes
  OBVIOUS
<1>7. MonthOf(o)' = [status |-> "Draft", hours |-> WithDay(NoHours, d, m), by |-> Nobody]
  BY <1>2, <1>4, <1>5, <1>6 DEF MonthOf, Exists
<1>8. MonthOf(o) = [status |-> "Draft", hours |-> NoHours, by |-> Nobody]
  BY <1>2, <1>4 DEF MonthOf, Exists
<1>9. Months' = [Months EXCEPT ![o] = [status |-> "Draft", hours |-> WithDay(NoHours, d, m), by |-> Nobody]]
  BY <1>3, <1>4, <1>7, OneMonth
<1>10. Months' = [Months EXCEPT ![o].hours[d] = m]
  <2>1. Months[o] = MonthOf(o)
    BY DEF Months
  <2>2. [Months[o] EXCEPT !.hours = [@ EXCEPT ![d] = m]]
          = [status |-> "Draft", hours |-> WithDay(NoHours, d, m), by |-> Nobody]
    BY <1>8, <2>1 DEF WithDay
  <2>. QED
    BY <1>9, <2>2
<1>11. b \in Begun /\ Promise!Ended(b)
  BY <1>2, SavesEnd
<1>. QED
  BY <1>4, <1>5, <1>6, <1>10, <1>11 DEF Promise!Write, Months

LEMMA AppendMaps ==
  ASSUME TypeInv, NEW s \in saving, AppendWorkDay(s)
  PROVE  \E b \in Begun : Promise!Write(b)
<1> DEFINE b == [owner |-> s.owner, day |-> s.day, minutes |-> s.minutes]
<1>1. /\ s.owner \in DOMAIN sheet /\ s.owner \in Owners /\ DOMAIN sheet' = DOMAIN sheet
      /\ saving' = saving \ {s}
  BY AppendMakes DEF TypeInv, TypeOK
<1>2. \A p \in Owners : p # s.owner => MonthOf(p)' = MonthOf(p)
  BY AppendMakes DEF MonthOf, Exists
<1>3. PICK o \in Owners : o = s.owner
  BY <1>1
<1>4. PICK d : d = s.day
  OBVIOUS
<1>5. PICK m : m = s.minutes
  OBVIOUS
<1>6. /\ sheet'[o].status = sheet[o].status /\ sheet'[o].approvedBy = sheet[o].approvedBy
      /\ sheet'[o].days = WithDay(sheet[o].days, d, m)
  BY <1>3, <1>4, <1>5, AppendMakes
<1>7. MonthOf(o)' = [status |-> sheet[o].status, hours |-> WithDay(sheet[o].days, d, m),
                     by |-> sheet[o].approvedBy]
  BY <1>1, <1>3, <1>6 DEF MonthOf, Exists
<1>8. MonthOf(o) = [status |-> sheet[o].status, hours |-> sheet[o].days, by |-> sheet[o].approvedBy]
  BY <1>1, <1>3, MonthIs
<1>9. Months' = [Months EXCEPT ![o] = [status |-> sheet[o].status,
                                       hours |-> WithDay(sheet[o].days, d, m),
                                       by |-> sheet[o].approvedBy]]
  BY <1>2, <1>3, <1>7, OneMonth
<1>10. Months' = [Months EXCEPT ![o].hours[d] = m]
  <2>1. Months[o] = MonthOf(o)
    BY DEF Months
  <2>2. [Months[o] EXCEPT !.hours = [@ EXCEPT ![d] = m]]
          = [status |-> sheet[o].status, hours |-> WithDay(sheet[o].days, d, m), by |-> sheet[o].approvedBy]
    BY <1>8, <2>1 DEF WithDay
  <2>. QED
    BY <1>9, <2>2
<1>11. b \in Begun /\ Promise!Ended(b)
  BY <1>1, SavesEnd
<1>. QED
  BY <1>3, <1>4, <1>5, <1>10, <1>11 DEF Promise!Write, Months

\* A command that holds the row is one step of Month, or only leaves a comment.
LEMMA ExclusiveMaps ==
  ASSUME TypeInv, NEW o \in DOMAIN sheet, Exclusive(o)
  PROVE  Promise!Next \/ UNCHANGED Promise!view
<1>1. TypeOK /\ o \in Owners /\ sheet[o] \in Sheet
  BY DEF TypeInv, TypeOK
<1> DEFINE old == [status |-> sheet[o].status, hours |-> sheet[o].days, by |-> sheet[o].approvedBy]
<1>2. MonthOf(o) = old /\ Months[o] = old
  BY <1>1, MonthIs DEF Months
<1>3. ASSUME NEW new \in Sheet, Replace(o, new)
      PROVE  /\ Months' = [Months EXCEPT ![o] = [status |-> new.status, hours |-> new.days,
                                                 by |-> new.approvedBy]]
             /\ Begun' = Begun
  <2>1. /\ DOMAIN sheet' = DOMAIN sheet /\ sheet'[o] = new /\ saving' = saving
        /\ \A p \in DOMAIN sheet : p # o => sheet'[p] = sheet[p]
    BY <1>1, <1>3, ReplaceKeeps
  <2>2. MonthOf(o)' = [status |-> new.status, hours |-> new.days, by |-> new.approvedBy]
    BY <2>1 DEF MonthOf, Exists
  <2>3. \A p \in Owners : p # o => MonthOf(p)' = MonthOf(p)
    BY <2>1 DEF MonthOf, Exists
  <2>. QED
    BY <1>1, <2>1, <2>2, <2>3, OneMonth DEF Begun
<1>4. ASSUME NEW new \in Sheet, Replace(o, new), new.days = sheet[o].days,
             new.status = sheet[o].status, new.approvedBy = sheet[o].approvedBy
      PROVE  UNCHANGED Promise!view
  BY <1>1, <1>2, <1>3, <1>4 DEF Promise!view, Months
<1>5. ASSUME NEW new \in Sheet, Replace(o, new), IsEditable(sheet[o].status),
             NEW d \in Days, new.days = WithDay(sheet[o].days, d, 0),
             new.status = sheet[o].status, new.approvedBy = sheet[o].approvedBy
      PROVE  Promise!Clear(o, d)
  <2>0. [Months[o] EXCEPT !.hours = [@ EXCEPT ![d] = 0]]
          = [status |-> new.status, hours |-> new.days, by |-> new.approvedBy]
    BY <1>2, <1>5 DEF WithDay
  <2>1. Months' = [Months EXCEPT ![o].hours[d] = 0]
    BY <1>3, <1>5, <2>0
  <2>2. Months[o].status \in {"Draft", "Correction"} /\ Begun' = Begun
    BY <1>2, <1>3, <1>5 DEF IsEditable
  <2>. QED
    BY <2>1, <2>2 DEF Promise!Clear, Promise!Open, Months
<1>6. ASSUME NEW new \in Sheet, Replace(o, new), MaySubmit(o), new.days = sheet[o].days,
             new.status = "Submitted", new.approvedBy = sheet[o].approvedBy
      PROVE  Promise!Submit(o)
  <2>1. Months' = [Months EXCEPT ![o].status = "Submitted"]
    BY <1>1, <1>2, <1>3, <1>6 DEF Months
  <2>2. sheet[o].status \in {"Draft", "Correction"} /\ \E d \in Days : sheet[o].days[d] # 0
    BY <1>6 DEF MaySubmit, CanChange, TotalIsZero
  <2>. QED
    BY <1>1, <1>2, <1>3, <1>6, <2>1, <2>2 DEF Promise!Submit, Promise!Open, Months
<1>7. ASSUME NEW new \in Sheet, Replace(o, new), sheet[o].status = "Submitted",
             new.days = sheet[o].days, new.status = "Approved", new.approvedBy \in People \ {o}
      PROVE  \E by \in People : Promise!Approve(o, by)
  <2>1. Months' = [Months EXCEPT ![o] = [status |-> "Approved", hours |-> Months[o].hours,
                                         by |-> new.approvedBy]]
    BY <1>2, <1>3, <1>7
  <2>2. Promise!Approve(o, new.approvedBy)
    BY <1>1, <1>2, <1>3, <1>7, <2>1 DEF Promise!Approve, Promise!Decided, Months
  <2>. QED
    BY <1>7, <2>2
<1>8. ASSUME NEW new \in Sheet, Replace(o, new), sheet[o].status \in {"Submitted", "Approved"},
             new.days = sheet[o].days, new.status = "Correction", new.approvedBy = Nobody
      PROVE  Promise!SendBack(o)
  <2>1. Months' = [Months EXCEPT ![o] = [status |-> "Correction", hours |-> Months[o].hours,
                                         by |-> Nobody]]
    BY <1>2, <1>3, <1>8
  <2>. QED
    BY <1>1, <1>2, <1>3, <1>8, <2>1 DEF Promise!SendBack, Promise!Decided, Months
<1>9. ASSUME NEW new \in Sheet, Replace(o, new), sheet[o].status = "Approved",
             new.days = sheet[o].days, new.status = "Settled", new.approvedBy = sheet[o].approvedBy
      PROVE  Promise!Settle(o)
  <2>1. Months' = [Months EXCEPT ![o].status = "Settled"]
    BY <1>1, <1>2, <1>3, <1>9 DEF Months
  <2>. QED
    BY <1>1, <1>2, <1>3, <1>9, <2>1 DEF Promise!Settle, Months
<1>. QED
  BY <1>1, <1>4, <1>5, <1>6, <1>7, <1>8, <1>9, ExclusiveReplaces DEF Promise!Next

LEMMA FirstMaps == Init => Promise!Init
<1> SUFFICES ASSUME Init PROVE Promise!Init
  OBVIOUS
<1>1. DOMAIN sheet = {} /\ Begun = {}
  BY DEF Init, Begun
<1>2. \A o \in Owners : MonthOf(o) = [status |-> "Draft", hours |-> NoHours, by |-> Nobody]
  BY <1>1 DEF MonthOf, Exists
<1>. QED
  BY <1>1, <1>2 DEF Promise!Init, Promise!Blank, NoHours

LEMMA StepMaps == TypeInv /\ [Next]_vars => [Promise!Next]_(Promise!view)
<1> SUFFICES ASSUME TypeInv, [Next]_vars PROVE Promise!Next \/ UNCHANGED Promise!view
  OBVIOUS
<1>1. CASE \E o \in Owners, d \in Days, m \in Durations : SaveWorkDay(o, d, m)
  BY <1>1, BeginMaps DEF Promise!Next
<1>2. ASSUME NEW s \in saving, StartTimeSheet(s) \/ AppendWorkDay(s)
      PROVE  Promise!Next
  BY <1>2, StartMaps, AppendMaps DEF Promise!Next
<1>3. ASSUME NEW s \in saving, RefuseStart(s) PROVE Promise!Next
  <2>1. sheet' = sheet /\ saving' = saving \ {s}
    BY <1>3 DEF RefuseStart
  <2>2. \E b \in Begun : Promise!Drop(b)
    BY <2>1, SavesEnd, SameMonths DEF Promise!Drop, Months
  <2>. QED
    BY <2>2 DEF Promise!Next
<1>4. ASSUME NEW o \in DOMAIN sheet, Exclusive(o) PROVE Promise!Next \/ UNCHANGED Promise!view
  BY <1>4, ExclusiveMaps
<1>5. CASE UNCHANGED vars
  BY <1>5, SameMonths DEF vars, Promise!view, Months, Begun
<1>. QED
  BY <1>1, <1>2, <1>3, <1>4, <1>5 DEF Next, Save, Exclusive

\* Sheets, saves checked on a copy and exclusive commands implement Month, for any
\* number of owners, days and saves at once.
THEOREM Implements == Spec => ImplementsMonth
BY TypeInit, TypeInductive, FirstMaps, StepMaps, PTL DEF Spec, ImplementsMonth, Promise!Spec
=============================================================================
