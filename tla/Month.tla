------------------------------- MODULE Month -------------------------------
(***************************************************************************)
(* What the Agency module promises about a month of somebody's hours: a    *)
(* day is written only by a save that was begun while the month was open,  *)
(* and one day at a time; a month is submitted with hours on it, approved  *)
(* by somebody else, sent back without its approval, and settled only when *)
(* approved.  One sheet for each owner from the start: there are no        *)
(* streams to be created here, and nobody reads a copy.                    *)
(***************************************************************************)
EXTENDS Naturals

CONSTANTS Owners, People, Days, Durations, Nobody

VARIABLES
  month,   \* each owner's month: its status, the minutes of its days, who approved it
  begun    \* the saves under way

view == <<month, begun>>

Blank == [status |-> "Draft", hours |-> [d \in Days |-> 0], by |-> Nobody]

Init ==
  /\ month = [o \in Owners |-> Blank]
  /\ begun = {}

Open(o) == month[o].status \in {"Draft", "Correction"}

Begin(o, d, m) ==
  /\ Open(o)
  /\ begun' = begun \cup {[owner |-> o, day |-> d, minutes |-> m]}
  /\ UNCHANGED month

\* Others may have begun to save the same.
Ended(s) == begun' \in {begun, begun \ {s}}

Write(s) ==
  /\ month' = [month EXCEPT ![s.owner].hours[s.day] = s.minutes]
  /\ Ended(s)

Drop(s) == Ended(s) /\ UNCHANGED month

Clear(o, d) ==
  /\ Open(o)
  /\ month' = [month EXCEPT ![o].hours[d] = 0]
  /\ UNCHANGED begun

Submit(o) ==
  /\ Open(o)
  /\ \E d \in Days : month[o].hours[d] # 0
  /\ month' = [month EXCEPT ![o].status = "Submitted"]
  /\ UNCHANGED begun

Decided(o, status, by) ==
  month' = [month EXCEPT ![o] = [status |-> status, hours |-> month[o].hours, by |-> by]]

Approve(o, by) ==
  /\ month[o].status = "Submitted"
  /\ by # o
  /\ Decided(o, "Approved", by)
  /\ UNCHANGED begun

SendBack(o) ==
  /\ month[o].status \in {"Submitted", "Approved"}
  /\ Decided(o, "Correction", Nobody)
  /\ UNCHANGED begun

Settle(o) ==
  /\ month[o].status = "Approved"
  /\ month' = [month EXCEPT ![o].status = "Settled"]
  /\ UNCHANGED begun

Next ==
  \/ \E o \in Owners, d \in Days :
       Clear(o, d) \/ \E m \in Durations : Begin(o, d, m)
  \/ \E s \in begun : Write(s) \/ Drop(s)
  \/ \E o \in Owners :
       Submit(o) \/ SendBack(o) \/ Settle(o) \/ \E by \in People : Approve(o, by)

Spec == Init /\ [][Next]_view
=============================================================================
