--------------------------- MODULE Staffing_proof ---------------------------
(***************************************************************************)
(* Staffing holds for any number of people, positions and assignments, any *)
(* calendar and any number of calls and copies in flight: its types, the   *)
(* calendar promise, the finality of an ending and the seat counts.        *)
(*                                                                         *)
(* The invariant the step rests on adds to the properties what is true of  *)
(* the calls still in flight (CallsInv: a commit on a stream removes the   *)
(* calls that read it, so a call's own assignment is still as it saw it)   *)
(* and what a pair's messages say of its seat (SeatsInv).                  *)
(***************************************************************************)
EXTENDS Staffing, TLAPS

\* The terms a calendar check read leave the period it let through free.
Clear(terms, from, to) == \A t \in terms : ~Overlaps(t[2], t[3], from, to)

CallsInv ==
  \A c \in calls :
    /\ c.op = "plan" => /\ assignment[c.assignment].status = "Unplanned"
                        /\ Clear(c.saw, c.from, c.to)
                        /\ ValidPeriod(c.from, c.to)
    /\ c.op = "update" => /\ assignment[c.assignment].status \in Live
                          /\ Clear(c.saw, c.from, c.to)
                          /\ ValidPeriod(c.from, c.to)
    /\ c.op = "start" => assignment[c.assignment].status = "Planned"

SawInv ==
  \A a \in Assignments :
    Occupies(a) => Clear(saw[a], assignment[a].from, assignment[a].to)

SeatInv(p, a) ==
  /\ "AssignmentPositionStaffed" \notin issued[<<p, a>>]
       => a \notin staffed[p] /\ mail[Staffed(p, a)] = 0 /\ ~Sits(p, a)
  /\ issued[<<p, a>>] = {"AssignmentPositionStaffed"} /\ <<p, a>> \notin lost
       => a \in staffed[p] \/ mail[Staffed(p, a)] > 0
  /\ "AssignmentPositionUnstaffed" \notin issued[<<p, a>>]
       => mail[Unstaffed(p, a)] = 0
  /\ "AssignmentPositionStaffed" \in issued[<<p, a>>] /\ ~Sits(p, a)
       => "AssignmentPositionUnstaffed" \in issued[<<p, a>>]

SeatsInv == \A p \in Positions, a \in Assignments : SeatInv(p, a)

-----------------------------------------------------------------------------
\* The days of a period, the last one included, an open end having them all.
DaysOf(from, to) == {d \in Nat : from <= d /\ (to = NoEnd \/ d <= to)}

\* The calendar's question is exact: two periods overlap for it if and only if
\* they have a day in common (AssignmentsQueryRepository.Overlaps).
THEOREM OverlapIsACommonDay ==
  ASSUME NEW s1 \in Nat, NEW e1 \in Nat, NEW s2 \in Nat, NEW e2 \in Nat,
         ValidPeriod(s1, e1), ValidPeriod(s2, e2)
  PROVE  Overlaps(s1, e1, s2, e2) <=> DaysOf(s1, e1) \cap DaysOf(s2, e2) # {}
<1> DEFINE later == IF s1 < s2 THEN s2 ELSE s1
<1>1. ASSUME Overlaps(s1, e1, s2, e2) PROVE later \in DaysOf(s1, e1) \cap DaysOf(s2, e2)
  BY <1>1 DEF Overlaps, ValidPeriod, DaysOf, NoEnd
<1>2. ASSUME NEW d \in DaysOf(s1, e1) \cap DaysOf(s2, e2) PROVE Overlaps(s1, e1, s2, e2)
  BY <1>2 DEF Overlaps, DaysOf, NoEnd
<1> QED
  BY <1>1, <1>2

\* What a calendar check read leaves the period free when the check passes.
LEMMA CheckClears ==
  ASSUME NEW w, NEW from, NEW to, NEW except,
         ~HasOverlappingAssignment(w, from, to, except)
  PROVE  Clear(TermsRead(w, except), from, to)
BY DEF HasOverlappingAssignment, Candidates, TermsRead, TermsOf, Clear

\* Everything a call carries has its type once its operation is known.
LEMMA CallTypes ==
  ASSUME TypeOK, NEW c \in calls
  PROVE  /\ c.assignment \in Assignments
         /\ c.op \in {"plan", "update", "start"}
         /\ c.op = "plan" => /\ c.worker \in Workers /\ c.position \in Positions
                             /\ c.from \in Days /\ c.to \in Ends
                             /\ c.saw \in SUBSET Terms
         /\ c.op = "update" => /\ c.position \in Positions
                               /\ c.from \in Days /\ c.to \in Ends
                               /\ c.saw \in SUBSET Terms
BY DEF TypeOK, Calls, PlanCalls, UpdateCalls, StartCalls

LEMMA TermsReadType ==
  ASSUME TypeOK, NEW w, NEW except
  PROVE  TermsRead(w, except) \in SUBSET Terms
BY DEF TypeOK, TermsRead, TermsOf, Terms, AssignmentState

\* Sending messages keeps the queue's and the history's types.
LEMMA EnqueueType ==
  ASSUME TypeOK, NEW messages, messages \subseteq Messages, Enqueue(messages)
  PROVE  mail' \in [Messages -> Nat] /\ issued' \in [Pairs -> SUBSET Kinds]
<1>1. mail' \in [Messages -> Nat]
  BY DEF TypeOK, Enqueue
<1>2. \A m \in messages : m.kind \in Kinds
  BY DEF Messages
<1>3. issued' \in [Pairs -> SUBSET Kinds]
  BY <1>2 DEF TypeOK, Enqueue
<1> QED BY <1>1, <1>3

-----------------------------------------------------------------------------
\* The state and the calls have their types whatever the constants are.
THEOREM TypeCorrect == Spec => []TypeOK
<1>1. Init => TypeOK
  BY DEF Init, TypeOK, Stages, AssignmentState, Unplanned, Ends, Calls
<1>2. TypeOK /\ [Next]_vars => TypeOK'
  <2> SUFFICES ASSUME TypeOK, [Next]_vars PROVE TypeOK'
    OBVIOUS
  <2> USE StaffingAssumption
  <2>1. ASSUME NEW a \in Assignments, NEW w \in Workers, NEW p \in Positions,
               NEW d \in Periods, CheckPlan(a, w, p, d[1], d[2])
        PROVE  TypeOK'
    <3>1. d[1] \in Days /\ d[2] \in Ends
      BY <2>1
    <3>2. TermsRead(w, {}) \in SUBSET Terms
      BY TermsReadType
    <3>3. calls' \subseteq Calls
      BY <2>1, <3>1, <3>2 DEF CheckPlan, TypeOK, Calls, PlanCalls
    <3> QED BY <2>1, <3>3 DEF CheckPlan, TypeOK
  <2>2. ASSUME NEW a \in Assignments, NEW p \in Positions, NEW d \in Periods,
               CheckUpdate(a, p, d[1], d[2])
        PROVE  TypeOK'
    <3>1. d[1] \in Days /\ d[2] \in Ends
      BY <2>2
    <3>2. TermsRead(assignment[a].worker, {a}) \in SUBSET Terms
      BY TermsReadType
    <3> DEFINE call == [op |-> "update", assignment |-> a, position |-> p,
                        from |-> d[1], to |-> d[2],
                        saw |-> TermsRead(assignment[a].worker, {a})]
    <3>3. call \in UpdateCalls
      BY <3>1, <3>2 DEF UpdateCalls
    <3>4. calls' = calls \cup {call}
      BY <2>2 DEF CheckUpdate
    <3>5. calls' \subseteq Calls
      BY <3>3, <3>4 DEF TypeOK, Calls
    <3> QED BY <2>2, <3>5 DEF CheckUpdate, TypeOK
  <2>3. ASSUME NEW a \in Assignments, CheckStart(a) PROVE TypeOK'
    <3>1. calls' \subseteq Calls
      BY <2>3 DEF CheckStart, TypeOK, Calls, StartCalls
    <3> QED BY <2>3, <3>1 DEF CheckStart, TypeOK
  <2>4. ASSUME NEW c \in calls, CommitPlan(c) PROVE TypeOK'
    <3>1. /\ c.assignment \in Assignments /\ c.worker \in Workers
          /\ c.position \in Positions /\ c.from \in Days /\ c.to \in Ends
          /\ c.saw \in SUBSET Terms
      BY <2>4, CallTypes DEF CommitPlan
    <3>2. assignment' \in [Assignments -> AssignmentState]
      BY <2>4, <3>1 DEF CommitPlan, TypeOK, AssignmentState, Live, Final
    <3>3. {Staffed(c.position, c.assignment)} \subseteq Messages
      BY <3>1 DEF Messages, Staffed, Kinds, Pairs
    <3>4. mail' \in [Messages -> Nat] /\ issued' \in [Pairs -> SUBSET Kinds]
      BY <2>4, <3>3, EnqueueType DEF CommitPlan
    <3> QED BY <2>4, <3>1, <3>2, <3>4 DEF CommitPlan, TypeOK, Doomed
  <2>5. ASSUME NEW c \in calls, CommitUpdate(c) PROVE TypeOK'
    <3>1. /\ c.assignment \in Assignments /\ c.position \in Positions
          /\ c.from \in Days /\ c.to \in Ends /\ c.saw \in SUBSET Terms
      BY <2>5, CallTypes DEF CommitUpdate
    <3>2. assignment' \in [Assignments -> AssignmentState]
      <4> DEFINE new == [assignment[c.assignment] EXCEPT
                           !.position = c.position, !.from = c.from, !.to = c.to]
      <4>0. assignment[c.assignment] \in AssignmentState
        BY <3>1 DEF TypeOK
      <4>1. new \in AssignmentState
        BY <3>1, <4>0 DEF AssignmentState
      <4>2. assignment' = [assignment EXCEPT ![c.assignment] = new]
        BY <2>5 DEF CommitUpdate
      <4> QED BY <4>1, <4>2 DEF TypeOK
    <3>3. mail' \in [Messages -> Nat] /\ issued' \in [Pairs -> SUBSET Kinds]
      BY <2>5, <3>1 DEF CommitUpdate, Enqueue, MoveMessages, Staffed, Unstaffed,
                        Kinds, TypeOK
    <3> QED BY <2>5, <3>1, <3>2, <3>3 DEF CommitUpdate, TypeOK, Doomed
  <2>6. ASSUME NEW c \in calls, CommitStart(c) PROVE TypeOK'
    <3>1. c.assignment \in Assignments
      BY CallTypes
    <3>2. assignment' \in [Assignments -> AssignmentState]
      <4> DEFINE new == [assignment[c.assignment] EXCEPT !.status = "Active"]
      <4>1. new \in AssignmentState
        BY <3>1 DEF TypeOK, AssignmentState, Live
      <4>2. assignment' = [assignment EXCEPT ![c.assignment] = new]
        BY <2>6 DEF CommitStart
      <4> QED BY <4>1, <4>2 DEF TypeOK
    <3> QED BY <2>6, <3>2 DEF CommitStart, TypeOK, Doomed
  <2>7. ASSUME NEW c \in calls, Abandon(c) PROVE TypeOK'
    BY <2>7 DEF Abandon, TypeOK
  <2>8. ASSUME NEW a \in Assignments, NEW status \in Final, NEW asked \in LastDays,
               Finish(a, status, asked)
        PROVE  TypeOK'
    <3>1. assignment[a] \in AssignmentState /\ asked \in Ends
      BY DEF TypeOK
    <3>2. EndWritten(a, status, asked) \subseteq Ends
      BY <3>1 DEF EndWritten, AssignmentState
    <3>3. PICK end \in EndWritten(a, status, asked) :
            assignment' = [assignment EXCEPT ![a].status = status, ![a].to = end]
      BY <2>8 DEF Finish
    <3> DEFINE new == [assignment[a] EXCEPT !.status = status, !.to = end]
    <3>4. new \in AssignmentState
      BY <3>1, <3>2 DEF AssignmentState
    <3>5. assignment' = [assignment EXCEPT ![a] = new]
      BY <3>3
    <3>6. assignment' \in [Assignments -> AssignmentState]
      BY <3>4, <3>5 DEF TypeOK
    <3>7. mail' \in [Messages -> Nat] /\ issued' \in [Pairs -> SUBSET Kinds]
      BY <2>8 DEF Finish, Enqueue, Unstaffed, Kinds, TypeOK
    <3> QED BY <2>8, <3>6, <3>7 DEF Finish, TypeOK, Doomed
  <2>9. ASSUME NEW w \in Workers, NEW stage \in Stages, ChangeWorkerStatus(w, stage)
        PROVE  TypeOK'
    BY <2>9 DEF ChangeWorkerStatus, TypeOK
  <2>10. CASE ProjectAssignments
    BY <2>10 DEF ProjectAssignments, TypeOK
  <2>11. ASSUME NEW m \in Messages, Deliver(m) PROVE TypeOK'
    <3>1. m.pair[1] \in Positions /\ m.pair[2] \in Assignments
      BY DEF Messages, Pairs
    <3>2. mail' \in [Messages -> Nat]
      BY <2>11 DEF Deliver, TypeOK
    <3>3. staffed' \in [Positions -> SUBSET Assignments]
      BY <2>11, <3>1 DEF Deliver, Recount, TypeOK
    <3> QED BY <2>11, <3>2, <3>3 DEF Deliver, TypeOK
  <2>12. ASSUME NEW m \in Messages, GiveUp(m) PROVE TypeOK'
    <3>1. m.pair \in Pairs
      BY DEF Messages
    <3>2. mail' \in [Messages -> Nat]
      BY <2>12 DEF GiveUp, TypeOK
    <3> QED BY <2>12, <3>1, <3>2 DEF GiveUp, TypeOK
  <2>13. CASE Crash
    BY <2>13 DEF Crash, TypeOK
  <2>14. CASE UNCHANGED vars
    BY <2>14 DEF vars, TypeOK
  <2> QED
    BY <2>1, <2>2, <2>3, <2>4, <2>5, <2>6, <2>7, <2>8, <2>9, <2>10, <2>11, <2>12, <2>13,
       <2>14
    DEF Next, Handle
<1> QED BY <1>1, <1>2, PTL DEF Spec

-----------------------------------------------------------------------------
(* The calendar: what the calls in flight and the history of the checks    *)
(* promise about the terms, step by step.                                  *)

CalendarInv == CallsInv /\ SawInv /\ PeriodsWellFormed

\* A call that is still in flight after a commit on assignment a read some
\* other assignment, whose state the commit leaves alone.
LEMMA SurvivorsElsewhere ==
  ASSUME TypeOK, CallsInv, NEW a \in Assignments, NEW c,
         calls' = calls \ ({c} \cup Doomed(a)),
         \A b \in Assignments : b # a => assignment'[b] = assignment[b]
  PROVE  CallsInv'
<1> SUFFICES ASSUME NEW d \in calls'
             PROVE  /\ d \in calls
                    /\ assignment'[d.assignment] = assignment[d.assignment]
  BY DEF CallsInv, Clear, ValidPeriod, Overlaps
<1>1. d \in calls /\ d.assignment # a
  BY DEF Doomed
<1>2. d.assignment \in Assignments
  BY <1>1, CallTypes
<1> QED BY <1>1, <1>2

\* Every assignment's last check left its terms clear, every call in flight
\* still reads what it read, and the periods of those who worked are periods.
LEMMA CalendarStep == TypeOK /\ CalendarInv /\ [Next]_vars => CalendarInv'
<1> SUFFICES ASSUME TypeOK, CallsInv, SawInv, PeriodsWellFormed, [Next]_vars
             PROVE  CalendarInv'
  BY DEF CalendarInv
<1>1. ASSUME NEW a \in Assignments, NEW w \in Workers, NEW p \in Positions,
             NEW d \in Periods, CheckPlan(a, w, p, d[1], d[2])
      PROVE  CalendarInv'
  <2> DEFINE call == [op |-> "plan", assignment |-> a, worker |-> w, position |-> p,
                      from |-> d[1], to |-> d[2], saw |-> TermsRead(w, {})]
  <2>1. Clear(call.saw, call.from, call.to) /\ ValidPeriod(call.from, call.to)
    BY <1>1, CheckClears DEF CheckPlan
  <2>2. calls' = calls \cup {call} /\ assignment[a].status = "Unplanned"
    BY <1>1 DEF CheckPlan, Unplanned
  <2>3. UNCHANGED <<assignment, saw>>
    BY <1>1 DEF CheckPlan
  <2>4. CallsInv'
    BY <2>1, <2>2, <2>3 DEF CallsInv
  <2> QED BY <2>3, <2>4 DEF CalendarInv, SawInv, PeriodsWellFormed, Occupies
<1>2. ASSUME NEW a \in Assignments, NEW p \in Positions, NEW d \in Periods,
             CheckUpdate(a, p, d[1], d[2])
      PROVE  CalendarInv'
  <2> DEFINE call == [op |-> "update", assignment |-> a, position |-> p,
                      from |-> d[1], to |-> d[2],
                      saw |-> TermsRead(assignment[a].worker, {a})]
  <2>1. Clear(call.saw, call.from, call.to) /\ ValidPeriod(call.from, call.to)
    BY <1>2, CheckClears DEF CheckUpdate
  <2>2. calls' = calls \cup {call} /\ assignment[a].status \in Live
    BY <1>2 DEF CheckUpdate
  <2>3. UNCHANGED <<assignment, saw>>
    BY <1>2 DEF CheckUpdate
  <2>4. CallsInv'
    BY <2>1, <2>2, <2>3 DEF CallsInv
  <2> QED BY <2>3, <2>4 DEF CalendarInv, SawInv, PeriodsWellFormed, Occupies
<1>3. ASSUME NEW a \in Assignments, CheckStart(a) PROVE CalendarInv'
  <2>1. assignment[a].status = "Planned"
    BY <1>3 DEF CheckStart, Allow
  <2>2. calls' = calls \cup {[op |-> "start", assignment |-> a]}
    BY <1>3 DEF CheckStart
  <2>3. UNCHANGED <<assignment, saw>>
    BY <1>3 DEF CheckStart
  <2>4. CallsInv'
    BY <2>1, <2>2, <2>3 DEF CallsInv
  <2> QED BY <2>3, <2>4 DEF CalendarInv, SawInv, PeriodsWellFormed, Occupies
<1>4. ASSUME NEW c \in calls, CommitPlan(c) PROVE CalendarInv'
  <2> DEFINE a == c.assignment
  <2>1. /\ a \in Assignments /\ Clear(c.saw, c.from, c.to)
        /\ ValidPeriod(c.from, c.to)
    BY <1>4, CallTypes DEF CommitPlan, CallsInv
  <2>2. /\ assignment'[a].from = c.from /\ assignment'[a].to = c.to
        /\ \A b \in Assignments : b # a => assignment'[b] = assignment[b]
        /\ saw'[a] = c.saw
        /\ \A b \in Assignments : b # a => saw'[b] = saw[b]
    BY <1>4, <2>1 DEF CommitPlan, TypeOK
  <2>3. calls' = calls \ ({c} \cup Doomed(a))
    BY <1>4 DEF CommitPlan
  <2>4. CallsInv'
    BY <2>1, <2>2, <2>3, SurvivorsElsewhere
  <2>5. SawInv'
    BY <2>1, <2>2 DEF SawInv, Occupies
  <2>6. PeriodsWellFormed'
    BY <2>1, <2>2 DEF PeriodsWellFormed
  <2> QED BY <2>4, <2>5, <2>6 DEF CalendarInv
<1>5. ASSUME NEW c \in calls, CommitUpdate(c) PROVE CalendarInv'
  <2> DEFINE a == c.assignment
  <2>1. /\ a \in Assignments /\ Clear(c.saw, c.from, c.to)
        /\ ValidPeriod(c.from, c.to)
    BY <1>5, CallTypes DEF CommitUpdate, CallsInv
  <2> DEFINE new == [assignment[a] EXCEPT !.position = c.position,
                                          !.from = c.from, !.to = c.to]
  <2>2. assignment[a] \in AssignmentState
    BY <2>1 DEF TypeOK
  <2>3. new.from = c.from /\ new.to = c.to
    BY <2>2 DEF AssignmentState
  <2>4. assignment' = [assignment EXCEPT ![a] = new]
    BY <1>5 DEF CommitUpdate
  <2>5. /\ assignment'[a].from = c.from /\ assignment'[a].to = c.to
        /\ \A b \in Assignments : b # a => assignment'[b] = assignment[b]
    BY <2>1, <2>3, <2>4 DEF TypeOK
  <2>6. /\ saw'[a] = c.saw
        /\ \A b \in Assignments : b # a => saw'[b] = saw[b]
    BY <1>5, <2>1 DEF CommitUpdate, TypeOK
  <2>7. calls' = calls \ ({c} \cup Doomed(a))
    BY <1>5 DEF CommitUpdate
  <2>8. CallsInv'
    BY <2>1, <2>5, <2>7, SurvivorsElsewhere
  <2>9. SawInv'
    BY <2>1, <2>5, <2>6 DEF SawInv, Occupies
  <2>10. PeriodsWellFormed'
    BY <2>1, <2>5 DEF PeriodsWellFormed
  <2> QED BY <2>8, <2>9, <2>10 DEF CalendarInv
<1>6. ASSUME NEW c \in calls, CommitStart(c) PROVE CalendarInv'
  <2> DEFINE a == c.assignment
  <2>1. a \in Assignments /\ assignment[a].status = "Planned"
    BY <1>6, CallTypes DEF CommitStart, CallsInv
  <2> DEFINE new == [assignment[a] EXCEPT !.status = "Active"]
  <2>2. new.from = assignment[a].from /\ new.to = assignment[a].to
    BY <2>1 DEF TypeOK, AssignmentState
  <2>3. assignment' = [assignment EXCEPT ![a] = new]
    BY <1>6 DEF CommitStart
  <2>4. /\ \A b \in Assignments : /\ assignment'[b].from = assignment[b].from
                                 /\ assignment'[b].to = assignment[b].to
        /\ \A b \in Assignments : b # a => assignment'[b] = assignment[b]
    BY <2>1, <2>2, <2>3 DEF TypeOK
  <2>5. calls' = calls \ ({c} \cup Doomed(a)) /\ saw' = saw
    BY <1>6 DEF CommitStart
  <2>6. CallsInv'
    BY <2>1, <2>4, <2>5, SurvivorsElsewhere
  <2>7. Occupies(a) /\ ValidPeriod(assignment[a].from, assignment[a].to)
    BY <2>1 DEF Occupies, Live, Final, PeriodsWellFormed
  <2>8. SawInv'
    BY <2>4, <2>5, <2>7 DEF SawInv, Occupies
  <2>9. PeriodsWellFormed'
    BY <2>4, <2>7 DEF PeriodsWellFormed
  <2> QED BY <2>6, <2>8, <2>9 DEF CalendarInv
<1>7. ASSUME NEW c \in calls, Abandon(c) PROVE CalendarInv'
  BY <1>7 DEF Abandon, CalendarInv, CallsInv, SawInv, PeriodsWellFormed, Occupies
<1>8. ASSUME NEW a \in Assignments, NEW status \in Final, NEW asked \in LastDays,
             Finish(a, status, asked)
      PROVE  CalendarInv'
  <2>1. PICK end \in EndWritten(a, status, asked) :
          assignment' = [assignment EXCEPT ![a].status = status, ![a].to = end]
    BY <1>8 DEF Finish
  <2> DEFINE new == [assignment[a] EXCEPT !.status = status, !.to = end]
  <2>2. /\ new.status = status /\ new.to = end
        /\ new.from = assignment[a].from
    BY DEF TypeOK, AssignmentState
  <2>3. assignment' = [assignment EXCEPT ![a] = new]
    BY <2>1
  <2>4. /\ assignment'[a] = new
        /\ \A b \in Assignments : b # a => assignment'[b] = assignment[b]
    BY <2>3 DEF TypeOK
  <2>5. calls' = calls \ Doomed(a) /\ saw' = saw
    BY <1>8 DEF Finish
  <2>6. CallsInv'
    <3>1. \A d \in calls' : /\ d \in calls
                           /\ assignment'[d.assignment] = assignment[d.assignment]
      BY <2>4, <2>5, CallTypes DEF Doomed
    <3> QED BY <3>1 DEF CallsInv
  <2>7. SawInv'
    BY <2>2, <2>4, <2>5 DEF SawInv, Occupies, Live, Final
  <2>8. status = "DidNotStart" \/ ValidPeriod(assignment[a].from, end)
    BY <2>1 DEF EndWritten
  <2>9. PeriodsWellFormed'
    BY <2>2, <2>4, <2>8 DEF PeriodsWellFormed
  <2> QED BY <2>6, <2>7, <2>9 DEF CalendarInv
<1>9. ASSUME NEW w \in Workers, NEW stage \in Stages, ChangeWorkerStatus(w, stage)
      PROVE  CalendarInv'
  BY <1>9 DEF ChangeWorkerStatus, CalendarInv, CallsInv, SawInv, PeriodsWellFormed,
              Occupies
<1>10. CASE ProjectAssignments
  BY <1>10 DEF ProjectAssignments, CalendarInv, CallsInv, SawInv, PeriodsWellFormed,
               Occupies
<1>11. ASSUME NEW m \in Messages, Handle(m) PROVE CalendarInv'
  BY <1>11 DEF Handle, Deliver, GiveUp, CalendarInv, CallsInv, SawInv, PeriodsWellFormed, Occupies
<1>12. CASE Crash
  BY <1>12 DEF Crash, CalendarInv, CallsInv, SawInv, PeriodsWellFormed, Occupies
<1>13. CASE UNCHANGED vars
  BY <1>13 DEF vars, CalendarInv, CallsInv, SawInv, PeriodsWellFormed, Occupies
<1> QED
  BY <1>1, <1>2, <1>3, <1>4, <1>5, <1>6, <1>7, <1>8, <1>9, <1>10, <1>11, <1>12, <1>13
  DEF Next

LEMMA CalendarInvariant == Spec => []CalendarInv
<1>1. Init => CalendarInv
  BY DEF Init, CalendarInv, CallsInv, SawInv, PeriodsWellFormed, Occupies, Unplanned,
         Live, Final
<1> QED BY <1>1, CalendarStep, TypeCorrect, PTL DEF Spec

\* Two running assignments of one person overlap only when neither check had
\* read the other's terms: the race the calendar repository documents.
THEOREM OverlapRace == Spec => []OverlapOnlyByRace
<1>1. TypeOK /\ CalendarInv => OverlapOnlyByRace
  <2> SUFFICES ASSUME TypeOK, CalendarInv, NEW a \in Assignments, NEW b \in Assignments,
                      NEW d \in Days, WorksOn(a, d), WorksOn(b, d),
                      TermsOf(b, assignment) \in saw[a]
               PROVE  FALSE
    BY DEF OverlapOnlyByRace
  <2>1. d \in Nat /\ \A x \in Assignments : assignment[x].from \in Nat /\ assignment[x].to \in Nat
    <3>1. Days \subseteq Nat /\ Days \cup {0} \subseteq Nat /\ Ends \subseteq Nat
      BY StaffingAssumption DEF Ends, NoEnd
    <3>2. \A x \in Assignments : assignment[x].from \in Days \cup {0} /\ assignment[x].to \in Ends
      BY DEF TypeOK, AssignmentState
    <3> QED
      BY <3>1, <3>2
  <2>2. Overlaps(assignment[b].from, assignment[b].to, assignment[a].from, assignment[a].to)
    BY <2>1 DEF WorksOn, Overlaps, NoEnd
  <2> QED
    BY <2>2 DEF CalendarInv, SawInv, Clear, TermsOf, WorksOn
<1> QED BY <1>1, TypeCorrect, CalendarInvariant, PTL

\* The period of somebody who worked never ends before it starts.
THEOREM PeriodsStayWellFormed == Spec => []PeriodsWellFormed
<1>1. CalendarInv => PeriodsWellFormed
  BY DEF CalendarInv
<1> QED BY <1>1, CalendarInvariant, PTL

\* No step touches a finished assignment: the calls that could rewrite one are
\* gone by the time it has ended.
THEOREM FinalStays == Spec => FinalIsForever
<1> DEFINE Kept == \A a \in Assignments :
                     assignment[a].status \in Final => assignment'[a] = assignment[a]
<1>1. TypeOK /\ CalendarInv /\ [Next]_vars => Kept
  <2> SUFFICES ASSUME TypeOK, CallsInv, [Next]_vars,
                      NEW b \in Assignments, assignment[b].status \in Final
               PROVE  assignment'[b] = assignment[b]
    BY DEF CalendarInv
  <2>1. ASSUME NEW c \in calls, CommitPlan(c) PROVE assignment'[b] = assignment[b]
    BY <2>1, CallTypes DEF CommitPlan, CallsInv, Final, TypeOK
  <2>2. ASSUME NEW c \in calls, CommitUpdate(c) PROVE assignment'[b] = assignment[b]
    <3>1. c.assignment # b
      BY <2>2 DEF CommitUpdate, CallsInv, Live, Final
    <3> QED BY <2>2, <3>1 DEF CommitUpdate, TypeOK
  <2>3. ASSUME NEW c \in calls, CommitStart(c) PROVE assignment'[b] = assignment[b]
    <3>1. c.assignment # b
      BY <2>3 DEF CommitStart, CallsInv, Final
    <3> QED BY <2>3, <3>1 DEF CommitStart, TypeOK
  <2>4. ASSUME NEW a \in Assignments, NEW status \in Final, NEW asked \in LastDays,
               Finish(a, status, asked)
        PROVE  assignment'[b] = assignment[b]
    <3>1. a # b
      BY <2>4 DEF Finish, Allow, Final
    <3> QED BY <2>4, <3>1 DEF Finish, TypeOK
  <2> QED
    BY <2>1, <2>2, <2>3, <2>4
    DEF Next, CheckPlan, CheckUpdate, CheckStart, Abandon, ChangeWorkerStatus,
        ProjectAssignments, Handle, Deliver, GiveUp, Crash, vars
<1> QED BY <1>1, TypeCorrect, CalendarInvariant, PTL DEF Spec, FinalIsForever

-----------------------------------------------------------------------------
(* The racing commands implement Stay: a commit is a command of Stay, and  *)
(* everything else is not seen there.                                      *)

\* A commit finds its own assignment as its check left it, so what it does
\* is one command of Stay.
LEMMA CommitMaps ==
  ASSUME TypeOK, CallsInv, NEW c \in calls, CommitPlan(c) \/ CommitUpdate(c) \/ CommitStart(c)
  PROVE  Promise!Next
<1> DEFINE a == c.assignment
<1>1. CASE CommitPlan(c)
  <2>1. /\ a \in Assignments /\ c.worker \in Workers /\ c.position \in Positions
        /\ c.from \in Days /\ c.to \in Ends
    BY <1>1, CallTypes DEF CommitPlan
  <2>2. Promise!Plan(a, c.worker, c.position, c.from, c.to)
    BY <1>1 DEF CommitPlan, CallsInv, ValidPeriod, Promise!Plan, Promise!InOrder
  <2> QED
    BY <2>1, <2>2 DEF Promise!Next
<1>2. CASE CommitUpdate(c)
  <2>1. a \in Assignments /\ c.position \in Positions /\ c.from \in Days /\ c.to \in Ends
    BY <1>2, CallTypes DEF CommitUpdate
  <2>2. Promise!Revise(a, c.position, c.from, c.to)
    BY <1>2 DEF CommitUpdate, CallsInv, ValidPeriod, Live, Promise!Revise, Promise!InOrder
  <2> QED
    BY <2>1, <2>2 DEF Promise!Next
<1>3. CASE CommitStart(c)
  <2>1. a \in Assignments
    BY <1>3, CallTypes DEF CommitStart
  <2>2. Promise!Start(a)
    BY <1>3 DEF CommitStart, CallsInv, Promise!Start
  <2> QED
    BY <2>1, <2>2 DEF Promise!Next
<1> QED
  BY <1>1, <1>2, <1>3

\* An ending is one command of Stay, of somebody who worked or of somebody who
\* never started.
LEMMA FinishMaps ==
  ASSUME TypeOK, NEW a \in Assignments, NEW status \in Final, NEW asked \in LastDays,
         Finish(a, status, asked)
  PROVE  Promise!Next
<1>1. PICK end \in EndWritten(a, status, asked) :
        assignment' = [assignment EXCEPT ![a].status = status, ![a].to = end]
  BY DEF Finish
<1>2. end \in Ends
  BY <1>1, StaffingAssumption DEF EndWritten, TypeOK, AssignmentState
<1>3. CASE status = "DidNotStart"
  <2>1. Promise!Withdraw(a, end)
    BY <1>1, <1>3 DEF Finish, Allow, Promise!Withdraw
  <2> QED
    BY <1>2, <2>1 DEF Promise!Next
<1>4. CASE status # "DidNotStart"
  <2>1. status \in {"Completed", "Interrupted"}
    BY <1>4 DEF Final
  <2>2. Promise!End(a, status, end)
    BY <1>1, <1>4, <2>1 DEF Finish, Allow, EndWritten, ValidPeriod, Promise!End, Promise!InOrder
  <2> QED
    BY <1>2, <2>1, <2>2 DEF Promise!Next
<1> QED
  BY <1>3, <1>4

\* Every behaviour of the racing commands is one Stay allows: stays are planned,
\* revised, started and ended as if one command ran at a time (ChangeAssignmentStatusHandler,
\* UpdateAssignmentHandler against the version Marten compares).
THEOREM Implements == Spec => ImplementsStay
<1>1. Init => Promise!Init
  BY DEF Init, Promise!Init
<1>2. TypeOK /\ CallsInv /\ [Next]_vars => [Promise!Next]_assignment
  <2> SUFFICES ASSUME TypeOK, CallsInv, Next PROVE Promise!Next \/ UNCHANGED assignment
    BY DEF vars
  <2>1. ASSUME NEW c \in calls, CommitPlan(c) \/ CommitUpdate(c) \/ CommitStart(c)
        PROVE  Promise!Next
    BY <2>1, CommitMaps
  <2>2. ASSUME NEW a \in Assignments, NEW status \in Final, NEW asked \in LastDays,
               Finish(a, status, asked)
        PROVE  Promise!Next
    BY <2>2, FinishMaps
  <2> QED
    BY <2>1, <2>2
    DEF Next, CheckPlan, CheckUpdate, CheckStart, Abandon, ChangeWorkerStatus,
        ProjectAssignments, Handle, Deliver, GiveUp, Crash
<1>3. CalendarInv => CallsInv
  BY DEF CalendarInv
<1> QED
  BY <1>1, <1>2, <1>3, TypeCorrect, CalendarInvariant, PTL DEF Spec, ImplementsStay, Promise!Spec

-----------------------------------------------------------------------------
(* The seats.                                                              *)

\* A step that neither sends, delivers nor loses a message and moves nobody.
LEMMA SeatsUntouched ==
  ASSUME SeatsInv, UNCHANGED <<mail, staffed, issued, lost>>,
         \A p \in Positions, a \in Assignments : Sits(p, a)' <=> Sits(p, a)
  PROVE  SeatsInv'
<1>1. ASSUME NEW p \in Positions, NEW a \in Assignments PROVE SeatInv(p, a)'
  <2>1. SeatInv(p, a)
    BY DEF SeatsInv
  <2> QED BY <2>1, Zenon DEF SeatInv, Staffed, Unstaffed
<1> QED BY <1>1 DEF SeatsInv

LEMMA SeatsStep == TypeOK /\ CalendarInv /\ SeatsInv /\ [Next]_vars => SeatsInv'
<1> SUFFICES ASSUME TypeOK, CalendarInv, SeatsInv, [Next]_vars PROVE SeatsInv'
  OBVIOUS
<1>1. ASSUME NEW c \in calls, CommitPlan(c) PROVE SeatsInv'
  <2> DEFINE b == c.assignment
  <2>1. /\ b \in Assignments /\ c.position \in Positions
        /\ assignment[b].status = "Unplanned"
    BY <1>1, CallTypes DEF CommitPlan, CalendarInv, CallsInv
  <2>2. {Staffed(c.position, b)} \subseteq Messages
    BY <2>1 DEF Staffed, Messages, Kinds, Pairs
  <2>3. UNCHANGED <<staffed, lost>> /\ Enqueue({Staffed(c.position, b)})
    BY <1>1 DEF CommitPlan
  <2>4. /\ assignment'[b].status = "Planned" /\ assignment'[b].position = c.position
        /\ \A a \in Assignments : a # b => assignment'[a] = assignment[a]
    BY <1>1, <2>1 DEF CommitPlan, TypeOK
  <2>5. ASSUME NEW p \in Positions, NEW a \in Assignments PROVE SeatInv(p, a)'
    <3>1. SeatInv(p, a)
      BY DEF SeatsInv
    <3>2. /\ a # b => (Sits(p, a)' <=> Sits(p, a))
          /\ ~Sits(p, b)
          /\ Sits(p, b)' <=> p = c.position
      BY <2>1, <2>4 DEF Sits, Occupies, Live
    <3>3. /\ mail[Staffed(p, a)] \in Nat
          /\ issued[<<p, a>>] \subseteq Kinds
          /\ <<p, a>> \in Pairs /\ Staffed(p, a) \in Messages
          /\ Unstaffed(p, a) \in Messages
      BY DEF TypeOK, Staffed, Unstaffed, Messages, Kinds, Pairs
    <3>4. issued'[<<p, a>>] = issued[<<p, a>>]
            \cup {m.kind : m \in {n \in {Staffed(c.position, b)} : n.pair = <<p, a>>}}
      BY <2>3, <3>3 DEF Enqueue
    <3>5. mail'[Unstaffed(p, a)] = mail[Unstaffed(p, a)]
      BY <2>3, <3>3 DEF Enqueue, Staffed, Unstaffed
    <3>6. CASE p = c.position /\ a = b
      <4>1. {m.kind : m \in {n \in {Staffed(c.position, b)} : n.pair = <<p, a>>}}
              = {"AssignmentPositionStaffed"}
        <5>1. /\ Staffed(c.position, b).pair = <<p, a>>
              /\ Staffed(c.position, b).kind = "AssignmentPositionStaffed"
          BY <3>6 DEF Staffed
        <5>2. {n \in {Staffed(c.position, b)} : n.pair = <<p, a>>} = {Staffed(c.position, b)}
          BY <5>1
        <5> QED BY <5>1, <5>2
      <4>2. issued'[<<p, a>>] = issued[<<p, a>>] \cup {"AssignmentPositionStaffed"}
        BY <3>4, <4>1
      <4>3. mail'[Staffed(p, a)] = mail[Staffed(p, a)] + 1
        BY <2>3, <3>3, <3>6 DEF Enqueue
      <4> QED BY <2>3, <3>1, <3>2, <3>3, <3>5, <3>6, <4>2, <4>3 DEF SeatInv, Kinds
    <3>7. CASE ~(p = c.position /\ a = b)
      <4>1. Staffed(c.position, b).pair # <<p, a>>
        BY <3>7 DEF Staffed
      <4>2. issued'[<<p, a>>] = issued[<<p, a>>]
        BY <3>4, <4>1
      <4>3. mail'[Staffed(p, a)] = mail[Staffed(p, a)]
        BY <2>3, <3>3, <3>7 DEF Enqueue, Staffed
      <4> QED BY <2>3, <3>1, <3>2, <3>5, <3>7, <4>2, <4>3 DEF SeatInv
    <3> QED BY <3>6, <3>7
  <2> QED BY <2>5 DEF SeatsInv
<1>2. ASSUME NEW c \in calls, CommitUpdate(c) PROVE SeatsInv'
  <2> DEFINE b == c.assignment  old == assignment[b].position
             messages == MoveMessages(b, old, c.position)
  <2>1. /\ b \in Assignments /\ c.position \in Positions
        /\ Occupies(b)
    BY <1>2, CallTypes DEF CommitUpdate, CalendarInv, CallsInv, Occupies
  <2>2. UNCHANGED <<staffed, lost>> /\ Enqueue(messages)
    BY <1>2 DEF CommitUpdate
  <2>3. /\ assignment'[b].status = assignment[b].status
        /\ assignment'[b].position = c.position
        /\ \A a \in Assignments : a # b => assignment'[a] = assignment[a]
    BY <1>2, <2>1 DEF CommitUpdate, TypeOK, AssignmentState
  <2>4. ASSUME NEW p \in Positions, NEW a \in Assignments PROVE SeatInv(p, a)'
    <3>1. SeatInv(p, a)
      BY DEF SeatsInv
    <3>2. /\ a # b => (Sits(p, a)' <=> Sits(p, a))
          /\ Sits(p, b) <=> p = old
          /\ Sits(p, b)' <=> p = c.position
      BY <2>1, <2>3 DEF Sits, Occupies
    <3>3. /\ mail[Staffed(p, a)] \in Nat /\ mail[Unstaffed(p, a)] \in Nat
          /\ issued[<<p, a>>] \subseteq Kinds
          /\ <<p, a>> \in Pairs /\ Staffed(p, a) \in Messages
          /\ Unstaffed(p, a) \in Messages
      BY DEF TypeOK, Staffed, Unstaffed, Messages, Kinds, Pairs
    <3>4. issued'[<<p, a>>]
            = issued[<<p, a>>] \cup {m.kind : m \in {n \in messages : n.pair = <<p, a>>}}
      BY <2>2, <3>3 DEF Enqueue
    <3>5. /\ Staffed(p, a) \in messages => mail'[Staffed(p, a)] = mail[Staffed(p, a)] + 1
          /\ Staffed(p, a) \notin messages => mail'[Staffed(p, a)] = mail[Staffed(p, a)]
          /\ Unstaffed(p, a) \notin messages
               => mail'[Unstaffed(p, a)] = mail[Unstaffed(p, a)]
      BY <2>2, <3>3 DEF Enqueue
    <3>6. CASE a = b /\ p = old /\ old # c.position
      <4>1. /\ Staffed(p, a) \notin messages /\ Unstaffed(p, a) \in messages
        BY <3>6 DEF MoveMessages, Staffed, Unstaffed
      <4>2. Unstaffed(p, a).kind \in issued'[<<p, a>>]
        BY <3>4, <4>1 DEF Unstaffed
      <4>3. issued'[<<p, a>>] = issued[<<p, a>>] \cup {"AssignmentPositionUnstaffed"}
        BY <3>4, <3>6, <4>2 DEF MoveMessages, Staffed, Unstaffed
      <4> QED BY <2>2, <3>1, <3>2, <3>3, <3>5, <3>6, <4>1, <4>3 DEF SeatInv
    <3>7. CASE a = b /\ p = c.position /\ old # c.position
      <4>1. /\ Staffed(p, a) \in messages /\ Unstaffed(p, a) \notin messages
        BY <3>7 DEF MoveMessages, Staffed, Unstaffed
      <4>2. Staffed(p, a).kind \in issued'[<<p, a>>]
        BY <3>4, <4>1 DEF Staffed
      <4>3. issued'[<<p, a>>] = issued[<<p, a>>] \cup {"AssignmentPositionStaffed"}
        BY <3>4, <3>7, <4>2 DEF MoveMessages, Staffed, Unstaffed
      <4> QED BY <2>2, <3>1, <3>2, <3>3, <3>5, <3>7, <4>1, <4>3 DEF SeatInv
    <3>8. CASE a # b \/ (p # old /\ p # c.position) \/ old = c.position
      <4>1. \A m \in messages : m.pair # <<p, a>>
        BY <3>8 DEF MoveMessages, Staffed, Unstaffed
      <4>2. Staffed(p, a) \notin messages /\ Unstaffed(p, a) \notin messages
        BY <4>1 DEF Staffed, Unstaffed
      <4>3. issued'[<<p, a>>] = issued[<<p, a>>]
        BY <3>4, <4>1
      <4> QED BY <2>2, <3>1, <3>2, <3>5, <3>8, <4>2, <4>3 DEF SeatInv
    <3> QED BY <3>6, <3>7, <3>8
  <2> QED BY <2>4 DEF SeatsInv
<1>3. ASSUME NEW c \in calls, CommitStart(c) PROVE SeatsInv'
  <2>1. /\ c.assignment \in Assignments
        /\ assignment[c.assignment].status = "Planned"
    BY <1>3, CallTypes DEF CommitStart, CalendarInv, CallsInv
  <2>2. \A p \in Positions, a \in Assignments : Sits(p, a)' <=> Sits(p, a)
    BY <1>3, <2>1 DEF CommitStart, Sits, Occupies, Live, TypeOK, AssignmentState
  <2> QED BY <1>3, <2>2, SeatsUntouched DEF CommitStart
<1>4. ASSUME NEW b \in Assignments, NEW status \in Final, NEW asked \in LastDays,
             Finish(b, status, asked)
      PROVE  SeatsInv'
  <2> DEFINE old == assignment[b].position
  <2>1. UNCHANGED <<staffed, lost>> /\ Enqueue({Unstaffed(old, b)})
    BY <1>4 DEF Finish
  <2>2. Occupies(b)
    BY <1>4 DEF Finish, Allow, Occupies, Live, Final
  <2>3. /\ assignment'[b].status \in Final
        /\ \A a \in Assignments : a # b => assignment'[a] = assignment[a]
    BY <1>4 DEF Finish, TypeOK, AssignmentState
  <2>4. ASSUME NEW p \in Positions, NEW a \in Assignments PROVE SeatInv(p, a)'
    <3>1. SeatInv(p, a)
      BY DEF SeatsInv
    <3>2. /\ a # b => (Sits(p, a)' <=> Sits(p, a))
          /\ Sits(p, b) <=> p = old
          /\ ~Sits(p, b)'
      BY <2>2, <2>3 DEF Sits, Occupies, Live, Final
    <3>3. /\ mail[Staffed(p, a)] \in Nat /\ mail[Unstaffed(p, a)] \in Nat
          /\ issued[<<p, a>>] \subseteq Kinds
          /\ <<p, a>> \in Pairs /\ Staffed(p, a) \in Messages
          /\ Unstaffed(p, a) \in Messages
      BY DEF TypeOK, Staffed, Unstaffed, Messages, Kinds, Pairs
    <3>4. issued'[<<p, a>>] = issued[<<p, a>>]
            \cup {m.kind : m \in {n \in {Unstaffed(old, b)} : n.pair = <<p, a>>}}
      BY <2>1, <3>3 DEF Enqueue
    <3>5. mail'[Staffed(p, a)] = mail[Staffed(p, a)]
      BY <2>1, <3>3 DEF Enqueue, Staffed, Unstaffed
    <3>6. CASE a = b /\ p = old
      <4>0. {m.kind : m \in {n \in {Unstaffed(old, b)} : n.pair = <<p, a>>}}
              = {"AssignmentPositionUnstaffed"}
        <5>1. /\ Unstaffed(old, b).pair = <<p, a>>
              /\ Unstaffed(old, b).kind = "AssignmentPositionUnstaffed"
          BY <3>6 DEF Unstaffed
        <5>2. {n \in {Unstaffed(old, b)} : n.pair = <<p, a>>} = {Unstaffed(old, b)}
          BY <5>1
        <5> QED BY <5>1, <5>2
      <4>1. issued'[<<p, a>>] = issued[<<p, a>>] \cup {"AssignmentPositionUnstaffed"}
        BY <3>4, <4>0
      <4> QED BY <2>1, <3>1, <3>2, <3>3, <3>5, <3>6, <4>1 DEF SeatInv
    <3>7. CASE ~(a = b /\ p = old)
      <4>1. Unstaffed(old, b).pair # <<p, a>>
        BY <3>7 DEF Unstaffed
      <4>2. issued'[<<p, a>>] = issued[<<p, a>>]
        BY <3>4, <4>1
      <4>3. mail'[Unstaffed(p, a)] = mail[Unstaffed(p, a)]
        BY <2>1, <3>3, <3>7 DEF Enqueue, Unstaffed
      <4> QED BY <2>1, <3>1, <3>2, <3>5, <3>7, <4>2, <4>3 DEF SeatInv
    <3> QED BY <3>6, <3>7
  <2> QED BY <2>4 DEF SeatsInv
<1>5. ASSUME NEW m \in Messages, Deliver(m) PROVE SeatsInv'
  <2> DEFINE q == m.pair[1]  b == m.pair[2]
  <2>1. /\ q \in Positions /\ b \in Assignments /\ m.kind \in Kinds
        /\ m = [kind |-> m.kind, pair |-> <<q, b>>]
    BY DEF Messages, Pairs
  <2>2. /\ mail[m] > 0 /\ mail' = [mail EXCEPT ![m] = @ - 1]
        /\ staffed' = [staffed EXCEPT ![q] = Recount(m.kind, @, b)]
        /\ UNCHANGED <<assignment, issued, lost>>
    BY <1>5 DEF Deliver
  <2>3. ASSUME NEW p \in Positions, NEW a \in Assignments PROVE SeatInv(p, a)'
    <3>1. SeatInv(p, a)
      BY DEF SeatsInv
    <3>2. /\ mail[Staffed(p, a)] \in Nat /\ mail[Unstaffed(p, a)] \in Nat
          /\ Staffed(p, a) \in Messages /\ Unstaffed(p, a) \in Messages
          /\ mail \in [Messages -> Nat]
          /\ staffed \in [Positions -> SUBSET Assignments]
          /\ issued[<<p, a>>] \subseteq Kinds
      BY DEF TypeOK, Staffed, Unstaffed, Messages, Kinds, Pairs
    <3>3. Sits(p, a)' <=> Sits(p, a)
      BY <2>2 DEF Sits, Occupies
    <3>4. CASE m = Staffed(p, a)
      <4>1. p = q /\ a = b /\ m.kind = "AssignmentPositionStaffed" /\ m # Unstaffed(p, a)
        BY <3>4 DEF Staffed, Unstaffed
      <4>2. /\ a \in staffed'[p]
            /\ mail'[Unstaffed(p, a)] = mail[Unstaffed(p, a)]
        BY <2>1, <2>2, <3>2, <4>1 DEF Recount
      <4>3. "AssignmentPositionStaffed" \in issued[<<p, a>>]
        BY <2>2, <3>1, <3>4 DEF SeatInv
      <4> QED BY <2>2, <3>1, <3>3, <4>2, <4>3 DEF SeatInv
    <3>5. CASE m = Unstaffed(p, a)
      <4>1. p = q /\ a = b /\ m.kind = "AssignmentPositionUnstaffed" /\ m # Staffed(p, a)
        BY <3>5 DEF Staffed, Unstaffed
      <4>2. /\ a \notin staffed'[p]
            /\ mail'[Staffed(p, a)] = mail[Staffed(p, a)]
        BY <2>1, <2>2, <3>2, <4>1 DEF Recount
      <4>3. "AssignmentPositionUnstaffed" \in issued[<<p, a>>]
        BY <2>2, <3>1, <3>5 DEF SeatInv
      <4> QED BY <2>2, <3>1, <3>3, <4>2, <4>3 DEF SeatInv
    <3>6. CASE m # Staffed(p, a) /\ m # Unstaffed(p, a)
      <4>1. <<q, b>> # <<p, a>>
        BY <2>1, <3>6 DEF Staffed, Unstaffed, Kinds
      <4>2. a \in staffed'[p] <=> a \in staffed[p]
        <5>1. CASE p # q
          BY <2>2, <3>2, <5>1
        <5>2. CASE p = q
          <6>1. a # b /\ staffed'[p] = Recount(m.kind, staffed[p], b)
            BY <2>2, <3>2, <4>1, <5>2
          <6> QED BY <6>1 DEF Recount
        <5> QED BY <5>1, <5>2
      <4>3. /\ mail'[Staffed(p, a)] = mail[Staffed(p, a)]
            /\ mail'[Unstaffed(p, a)] = mail[Unstaffed(p, a)]
        BY <2>2, <3>2, <3>6
      <4> QED BY <2>2, <3>1, <3>3, <4>2, <4>3 DEF SeatInv
    <3> QED BY <3>4, <3>5, <3>6
  <2> QED BY <2>3 DEF SeatsInv
<1>6. CASE Crash
  <2>1. ASSUME NEW p \in Positions, NEW a \in Assignments PROVE SeatInv(p, a)'
    <3>1. SeatInv(p, a)
      BY DEF SeatsInv
    <3>2. /\ Staffed(p, a) \in Messages /\ Unstaffed(p, a) \in Messages
          /\ <<p, a>> \in Pairs /\ mail[Staffed(p, a)] \in Nat
      BY DEF TypeOK, Staffed, Unstaffed, Messages, Kinds, Pairs
    <3>3. /\ mail'[Staffed(p, a)] = 0 /\ mail'[Unstaffed(p, a)] = 0
          /\ UNCHANGED <<assignment, staffed, issued>>
      BY <1>6, <3>2 DEF Crash
    <3>4. <<p, a>> \notin lost' => <<p, a>> \notin lost /\ ~(mail[Staffed(p, a)] > 0)
      BY <1>6, <3>2 DEF Crash, Staffed, Kinds
    <3>5. Sits(p, a)' <=> Sits(p, a)
      BY <3>3 DEF Sits, Occupies
    <3> QED BY <3>1, <3>3, <3>4, <3>5 DEF SeatInv
  <2> QED BY <2>1 DEF SeatsInv
<1>7. ASSUME NEW m \in Messages, GiveUp(m) PROVE SeatsInv'
  <2>1. ASSUME NEW p \in Positions, NEW a \in Assignments PROVE SeatInv(p, a)'
    <3>1. SeatInv(p, a)
      BY DEF SeatsInv
    <3>2. /\ Staffed(p, a) \in Messages /\ Unstaffed(p, a) \in Messages
          /\ mail \in [Messages -> Nat]
          /\ Staffed(p, a).pair = <<p, a>> /\ Unstaffed(p, a).pair = <<p, a>>
      BY DEF TypeOK, Staffed, Unstaffed, Messages, Kinds, Pairs
    <3>3. /\ mail[m] > 0 /\ mail' = [mail EXCEPT ![m] = @ - 1]
          /\ lost' = lost \cup {m.pair}
          /\ UNCHANGED <<assignment, staffed, issued>>
      BY <1>7 DEF GiveUp
    <3>4. Sits(p, a)' <=> Sits(p, a)
      BY <3>3 DEF Sits, Occupies
    <3>5. CASE m.pair = <<p, a>>
      <4>1. <<p, a>> \in lost'
        BY <3>3, <3>5
      <4>2. /\ mail[Staffed(p, a)] = 0 => mail'[Staffed(p, a)] = 0
            /\ mail[Unstaffed(p, a)] = 0 => mail'[Unstaffed(p, a)] = 0
        BY <3>2, <3>3
      <4> QED BY <3>1, <3>3, <3>4, <4>1, <4>2 DEF SeatInv
    <3>6. CASE m.pair # <<p, a>>
      <4>1. /\ mail'[Staffed(p, a)] = mail[Staffed(p, a)]
            /\ mail'[Unstaffed(p, a)] = mail[Unstaffed(p, a)]
            /\ <<p, a>> \in lost' <=> <<p, a>> \in lost
        BY <3>2, <3>3, <3>6
      <4> QED BY <3>1, <3>3, <3>4, <4>1 DEF SeatInv
    <3> QED BY <3>5, <3>6
  <2> QED BY <2>1 DEF SeatsInv
<1>8. CASE UNCHANGED <<assignment, mail, staffed, issued, lost>>
  <2>1. \A p \in Positions, a \in Assignments : Sits(p, a)' <=> Sits(p, a)
    BY <1>8 DEF Sits, Occupies
  <2> QED BY <1>8, <2>1, SeatsUntouched
<1> QED
  BY <1>1, <1>2, <1>3, <1>4, <1>5, <1>6, <1>7, <1>8
  DEF Next, Handle, CheckPlan, CheckUpdate, CheckStart, Abandon, ChangeWorkerStatus,
      ProjectAssignments, vars

LEMMA SeatsInvariant == Spec => []SeatsInv
<1>1. Init => SeatsInv
  <2> SUFFICES ASSUME Init, NEW p \in Positions, NEW a \in Assignments
               PROVE  SeatInv(p, a)
    BY DEF SeatsInv
  <2>1. /\ Staffed(p, a) \in Messages /\ Unstaffed(p, a) \in Messages
        /\ <<p, a>> \in Pairs
    BY DEF Staffed, Unstaffed, Messages, Kinds, Pairs
  <2> QED BY <2>1 DEF Init, SeatInv, Sits, Occupies, Live, Unplanned
<1> QED BY <1>1, SeatsStep, TypeCorrect, CalendarInvariant, PTL DEF Spec

\* With the queues empty a count can be wrong only for a pair that was both
\* staffed and unstaffed, or a message of which ended in the dead letter queue
\* or in a crash (AssignmentPositionStaffedHandler, AssignmentPositionUnstaffedHandler).
THEOREM SeatsCount == Spec => []SeatsAddUp
<1>1. TypeOK /\ SeatsInv => SeatsAddUp
  <2> SUFFICES ASSUME TypeOK, SeatsInv, \A m \in Messages : mail[m] = 0,
                      NEW p \in Positions, NEW a \in Assignments,
                      (a \in staffed[p]) # Sits(p, a),
                      <<p, a>> \notin lost
               PROVE  issued[<<p, a>>] = Kinds
    BY DEF SeatsAddUp
  <2>1. SeatInv(p, a)
    BY DEF SeatsInv
  <2>2. issued[<<p, a>>] \subseteq Kinds /\ mail[Staffed(p, a)] = 0
    BY DEF TypeOK, Staffed, Messages, Kinds, Pairs
  <2>3. CASE a \in staffed[p]
    <3>1. ~Sits(p, a)
      BY <2>3 DEF Sits, Occupies
    <3>2. Kinds \subseteq issued[<<p, a>>]
      BY <2>1, <2>3, <3>1 DEF SeatInv, Kinds
    <3> QED BY <2>2, <3>2
  <2>4. CASE a \notin staffed[p]
    <3>1. Sits(p, a)
      BY <2>4 DEF Sits, Occupies
    <3>2. Kinds \subseteq issued[<<p, a>>]
      BY <2>1, <2>2, <2>4, <3>1 DEF SeatInv, Kinds
    <3> QED BY <2>2, <3>2
  <2> QED BY <2>3, <2>4
<1> QED BY <1>1, TypeCorrect, SeatsInvariant, PTL

-----------------------------------------------------------------------------
(* What StaffedIsCounted asks of a single step.                            *)

Waits(p, a) == mail[Staffed(p, a)] > 0
CountedOrLost(p, a) == a \in staffed[p] \/ <<p, a>> \in lost

\* The message about a seat that was taken waits until the seat is counted or a
\* message about it is lost, nothing but its own handling is needed for that, and
\* one handling is enough, whether it succeeds (and counts the seat) or throws (and
\* is given up): the fairness of its queue is all that is left to assume.
StaffedServed ==
  [][\A p \in Positions, a \in Assignments : Waits(p, a) =>
       /\ Waits(p, a)' \/ CountedOrLost(p, a)'
       /\ Deliver(Staffed(p, a)) => (a \in staffed[p])'
       /\ Handle(Staffed(p, a)) => CountedOrLost(p, a)']_vars

THEOREM StaffedIsServed == Spec => StaffedServed
<1> DEFINE Served(p, a) == Waits(p, a) =>
             /\ Waits(p, a)' \/ CountedOrLost(p, a)'
             /\ Deliver(Staffed(p, a)) => (a \in staffed[p])'
             /\ Handle(Staffed(p, a)) => CountedOrLost(p, a)'
<1>1. ASSUME TypeOK, [Next]_vars, NEW p \in Positions, NEW a \in Assignments, Waits(p, a)
      PROVE  /\ Waits(p, a)' \/ CountedOrLost(p, a)'
             /\ Deliver(Staffed(p, a)) => (a \in staffed[p])'
             /\ Handle(Staffed(p, a)) => CountedOrLost(p, a)'
  <2> DEFINE m == Staffed(p, a)
  <2>1. m \in Messages /\ m.kind = "AssignmentPositionStaffed" /\ m.pair = <<p, a>>
    BY DEF Messages, Staffed, Kinds, Pairs
  <2>2. mail \in [Messages -> Nat] /\ mail[m] > 0 /\ staffed \in [Positions -> SUBSET Assignments]
    BY <1>1 DEF TypeOK, Waits
  <2>3. ASSUME Deliver(m) PROVE (a \in staffed[p])'
    BY <2>1, <2>2, <2>3 DEF Deliver, Recount
  <2>4. ASSUME GiveUp(m) PROVE <<p, a>> \in lost'
    BY <2>1, <2>4 DEF GiveUp
  <2>5. ASSUME Handle(m) PROVE CountedOrLost(p, a)'
    BY <2>3, <2>4, <2>5 DEF Handle, CountedOrLost
  <2>6. ASSUME NEW n \in Messages, Handle(n) PROVE Waits(p, a)' \/ CountedOrLost(p, a)'
    <3>1. CASE n = m
      BY <2>5, <2>6, <3>1
    <3>2. CASE n # m
      <4>1. mail' = [mail EXCEPT ![n] = @ - 1]
        BY <2>6 DEF Handle, Deliver, GiveUp
      <4> QED
        BY <2>1, <2>2, <3>2, <4>1 DEF Waits
    <3> QED
      BY <3>1, <3>2
  <2>7. ASSUME Crash PROVE CountedOrLost(p, a)'
    BY <2>1, <2>2, <2>7 DEF Crash, CountedOrLost, Staffed, Pairs, Kinds
  <2>8. ASSUME NEW messages, Enqueue(messages) PROVE Waits(p, a)'
    BY <2>1, <2>2, <2>8 DEF Enqueue, Waits
  <2>9. ASSUME UNCHANGED mail PROVE Waits(p, a)'
    BY <1>1, <2>9 DEF Waits
  <2>10. Waits(p, a)' \/ CountedOrLost(p, a)'
    BY <1>1, <2>6, <2>7, <2>8, <2>9
    DEF Next, CheckPlan, CheckUpdate, CheckStart, CommitPlan, CommitUpdate, CommitStart,
        Finish, Abandon, ChangeWorkerStatus, ProjectAssignments, vars
  <2> QED
    BY <2>3, <2>5, <2>10
<1>2. TypeOK /\ [Next]_vars => \A p \in Positions, a \in Assignments : Served(p, a)
  BY <1>1
<1> QED
  BY <1>2, TypeCorrect, PTL DEF Spec, StaffedServed
=============================================================================
