----------------------------- MODULE TimeSheets -----------------------------
(***************************************************************************)
(* One month of people's hours in the Agency module: filled in, submitted, *)
(* approved, sent back and settled.                                        *)
(*                                                                         *)
(* Every command but one is an aggregate handler with exclusive access: it *)
(* holds the stream's row from the read to the commit, so it is one step   *)
(* here.  Saving a day is not: it reads the sheet, checks that it is open  *)
(* for editing, and only then takes the row and appends, and nothing       *)
(* compares what it read with what it appends to.                          *)
(*                                                                         *)
(* The chart says who stands above an owner.  It changes whenever it       *)
(* likes, so anyone may be above at the moment a command asks, but nobody  *)
(* is ever above themselves.  A save may also be refused for reasons       *)
(* outside the sheet (no employment, a month not begun); such a call       *)
(* changes nothing and is left out.                                        *)
(***************************************************************************)
EXTENDS Naturals, FiniteSets

CONSTANTS
  Owners,      \* the people with a sheet for the month
  People,      \* everyone who may act, owners included
  Days,        \* the days of the month
  Durations,   \* the minutes a day may hold
  Nobody,      \* the null of ApprovedById
  MaxSaves     \* bound: saves past their checks at once

ASSUME TimeSheetsAssumption ==
  /\ Owners \subseteq People
  /\ Nobody \notin People
  /\ Durations \subseteq Nat \ {0}

-----------------------------------------------------------------------------
Statuses == {"Draft", "Submitted", "Approved", "Settled", "Correction"}

CanChange(from, to) ==
  <<from, to>> \in {<<"Draft", "Submitted">>, <<"Submitted", "Approved">>,
                    <<"Submitted", "Correction">>, <<"Approved", "Settled">>,
                    <<"Approved", "Correction">>, <<"Correction", "Submitted">>}

IsEditable(status) == status \in {"Draft", "Correction"}
OutOfHands == Statuses \ {"Draft", "Correction"}

Roles == {"Owner", "Supervisor", "Payroll"}

Hours == [Days -> Durations \cup {0}]
NoHours == [d \in Days |-> 0]

\* A sheet nobody has written on has no stream.  Of the comments we keep in
\* which roles they were written.
Sheet == [status : Statuses, days : Hours, approvedBy : People \cup {Nobody},
          comments : SUBSET Roles]

TotalIsZero(s) == \A d \in Days : s.days[d] = 0

-----------------------------------------------------------------------------
VARIABLES
  sheet,   \* the streams, folded: one record for each owner who has written
  saving,  \* saves past their checks and not yet committed
  agreed,  \* history: the hours on each sheet when it was last submitted
  late     \* history: the days saved since then on a sheet no longer open

vars == <<sheet, saving, agreed, late>>

Exists(o) == o \in DOMAIN sheet

\* A save remembers whether it found a sheet.
Saves == [owner : Owners, day : Days, minutes : Durations, first : BOOLEAN]

Init ==
  /\ sheet = [o \in {} |-> [status |-> "Draft"]]
  /\ saving = {}
  /\ agreed = [o \in Owners |-> NoHours]
  /\ late = [o \in Owners |-> {}]

-----------------------------------------------------------------------------
(* Saving a day: the checks, then the append.                              *)

SaveWorkDay(o, d, m) ==
  /\ Cardinality(saving) < MaxSaves
  /\ Exists(o) => IsEditable(sheet[o].status)
  /\ saving' = saving \cup {[owner |-> o, day |-> d, minutes |-> m, first |-> ~Exists(o)]}
  /\ UNCHANGED <<sheet, agreed, late>>

\* A first save starts the stream, and only a stream that is not there can be
\* started.
MayStartAgain(s) == TRUE
MayStart(s) == ~Exists(s.owner)

NewSheetWithoutStatus == [status |-> "None", days |-> NoHours, approvedBy |-> Nobody, comments |-> {}]
NewSheet == [status |-> "Draft", days |-> NoHours, approvedBy |-> Nobody, comments |-> {}]

StartTimeSheet(s) ==
  /\ s.first /\ MayStart(s)
  /\ sheet' = [o \in DOMAIN sheet \cup {s.owner} |->
                 IF o = s.owner THEN [NewSheet EXCEPT !.days[s.day] = s.minutes] ELSE sheet[o]]
  /\ saving' = saving \ {s}
  /\ UNCHANGED <<agreed, late>>

RefuseStart(s) ==
  /\ s.first /\ ~MayStart(s)
  /\ saving' = saving \ {s}
  /\ UNCHANGED <<sheet, agreed, late>>

\* The fold of WorkDaySaved: the day is replaced, not added to.
WithDay(days, d, m) == [days EXCEPT ![d] = m]

AppendWorkDay(s) ==
  /\ ~s.first
  /\ sheet' = [sheet EXCEPT ![s.owner].days = WithDay(@, s.day, s.minutes)]
  /\ saving' = saving \ {s}
  /\ late' = [late EXCEPT ![s.owner] =
                IF IsEditable(sheet[s.owner].status) THEN @ ELSE @ \cup {s.day}]
  /\ UNCHANGED agreed

-----------------------------------------------------------------------------
(* The exclusive commands.                                                 *)

Replace(o, new) ==
  /\ sheet' = [sheet EXCEPT ![o] = new]
  /\ UNCHANGED saving

Unsubmitted == UNCHANGED <<agreed, late>>

MayRemoveAnytime(o, d) == sheet[o].days[d] # 0
MayRemove(o, d) == IsEditable(sheet[o].status) /\ sheet[o].days[d] # 0

RemoveWorkDay(o, d) ==
  /\ MayRemove(o, d)
  /\ Replace(o, [sheet[o] EXCEPT !.days = WithDay(@, d, 0)])
  /\ Unsubmitted

\* A note may travel with a submission or an approval.
Notes(role) == {{}, {role}}

MaySubmitEmpty(o) == CanChange(sheet[o].status, "Submitted")
MaySubmit(o) == CanChange(sheet[o].status, "Submitted") /\ ~TotalIsZero(sheet[o])

SubmitTimeSheet(o, note) ==
  /\ MaySubmit(o)
  /\ Replace(o, [sheet[o] EXCEPT !.status = "Submitted", !.comments = @ \cup note])
  /\ agreed' = [agreed EXCEPT ![o] = sheet[o].days]
  /\ late' = [late EXCEPT ![o] = {}]

MayBeAbove(by, o) == by # o

ApproveTimeSheet(o, by, note) ==
  /\ CanChange(sheet[o].status, "Approved")
  /\ MayBeAbove(by, o)
  /\ Replace(o, [sheet[o] EXCEPT !.status = "Approved", !.approvedBy = by,
                                 !.comments = @ \cup note])
  /\ Unsubmitted

\* The approval goes with the status; the reason stays.
AfterReturnApproved(o, role) ==
  [sheet[o] EXCEPT !.status = "Correction", !.comments = @ \cup {role}]
AfterReturn(o, role) ==
  [sheet[o] EXCEPT !.status = "Correction", !.approvedBy = Nobody, !.comments = @ \cup {role}]

ReturnTimeSheetForCorrection(o, by, role) ==
  /\ CanChange(sheet[o].status, "Correction")
  /\ \/ role = "Payroll"
     \/ role = "Supervisor" /\ MayBeAbove(by, o)
  /\ Replace(o, AfterReturn(o, role))
  /\ Unsubmitted

SettleTimeSheet(o) ==
  /\ CanChange(sheet[o].status, "Settled")
  /\ Replace(o, [sheet[o] EXCEPT !.status = "Settled"])
  /\ Unsubmitted

CommentOnTimeSheet(o, by, role) ==
  /\ \/ role = "Owner" /\ by = o
     \/ role = "Payroll" /\ by # o
     \/ role = "Supervisor" /\ MayBeAbove(by, o)
  /\ Replace(o, [sheet[o] EXCEPT !.comments = @ \cup {role}])
  /\ Unsubmitted

-----------------------------------------------------------------------------
Save ==
  \/ \E o \in Owners, d \in Days, m \in Durations : SaveWorkDay(o, d, m)
  \/ \E s \in saving : StartTimeSheet(s) \/ RefuseStart(s) \/ AppendWorkDay(s)

Decide(o) ==
  \/ \E note \in Notes("Owner") : SubmitTimeSheet(o, note)
  \/ \E by \in People, note \in Notes("Supervisor") : ApproveTimeSheet(o, by, note)
  \/ \E by \in People, role \in Roles : ReturnTimeSheetForCorrection(o, by, role)
  \/ SettleTimeSheet(o)

Next ==
  \/ Save
  \/ \E o \in DOMAIN sheet :
       \/ \E d \in Days : RemoveWorkDay(o, d)
       \/ Decide(o)
       \/ \E by \in People, role \in Roles : CommentOnTimeSheet(o, by, role)

Spec == Init /\ [][Next]_vars

-----------------------------------------------------------------------------
TypeOK ==
  /\ DOMAIN sheet \subseteq Owners
  /\ sheet \in [DOMAIN sheet -> Sheet]
  /\ saving \subseteq Saves
  /\ agreed \in [Owners -> Hours]
  /\ late \in [Owners -> SUBSET Days]

(***************************************************************************)
(* The hours that are approved and settled are the hours submitted, except *)
(* on days saved by a call that had found the sheet open: SaveWorkDay      *)
(* checks IsEditable on a copy read before it takes the stream.            *)
(***************************************************************************)
HoursAreAgreed ==
  \A o \in DOMAIN sheet : sheet[o].status \in OutOfHands =>
    \A d \in Days : sheet[o].days[d] # agreed[o][d] => d \in late[o]

(***************************************************************************)
(* A sheet out of its owner's hands has hours on it, whatever saves are    *)
(* still under way: the check in SubmitTimeSheetHandler stays true, since  *)
(* a late save cannot take hours away.                                     *)
(***************************************************************************)
NeverEmpty ==
  \A o \in DOMAIN sheet : sheet[o].status \in OutOfHands => ~TotalIsZero(sheet[o])

(***************************************************************************)
(* Approved and settled sheets, and no others, carry an approval, never    *)
(* the owner's own; a sheet sent back carries a reason from somebody who   *)
(* may send it back.                                                       *)
(***************************************************************************)
DecisionsAreSigned ==
  \A o \in DOMAIN sheet :
    /\ sheet[o].status \in {"Approved", "Settled"} <=> sheet[o].approvedBy # Nobody
    /\ sheet[o].approvedBy # o
    /\ sheet[o].status = "Correction" => sheet[o].comments \cap {"Supervisor", "Payroll"} # {}

(***************************************************************************)
(* No step changes two days of a sheet: two first saves cannot both start  *)
(* the stream, the second of which would wipe what the first one wrote.    *)
(***************************************************************************)
OneDayAtATime ==
  [][\A o \in DOMAIN sheet :
       \E d \in Days : sheet'[o].days = [sheet[o].days EXCEPT ![d] = sheet'[o].days[d]]]_vars

(***************************************************************************)
(* With sheets that come into being twice over, saves checked on a copy    *)
(* and commands in any order, every month goes the way Month promises: no  *)
(* save wipes another, no day is written that was not begun while the      *)
(* month was open, and no month is submitted empty, approved by its owner  *)
(* or settled without an approval.                                         *)
(***************************************************************************)
MonthOf(o) ==
  IF Exists(o)
    THEN [status |-> sheet[o].status, hours |-> sheet[o].days, by |-> sheet[o].approvedBy]
    ELSE [status |-> "Draft", hours |-> NoHours, by |-> Nobody]
Begun == {[owner |-> s.owner, day |-> s.day, minutes |-> s.minutes] : s \in saving}
Promise == INSTANCE Month WITH month <- [o \in Owners |-> MonthOf(o)], begun <- Begun
ImplementsMonth == Promise!Spec
=============================================================================
