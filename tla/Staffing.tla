------------------------------ MODULE Staffing ------------------------------
(***************************************************************************)
(* Putting people on projects: the assignments of the Workers module, the  *)
(* calendar check that reads their asynchronous projection, and the seats  *)
(* the Projects module counts from the messages Workers sends it.          *)
(*                                                                         *)
(* A command that looks only at its own event stream commits in one step:  *)
(* Marten compares the stream's version at commit, so a command that read  *)
(* an older version fails.  A command that also looks elsewhere (the       *)
(* person, the calendar) is two steps, and everything else may happen in   *)
(* between; the call is dropped at the moment another commit on its own    *)
(* stream dooms it.  What the snapshot repositories answer about a project *)
(* and its positions is not constrained here: any position may be on offer *)
(* whenever a command asks.                                                *)
(*                                                                         *)
(* Messages to Projects travel on local Wolverine queues, one per message  *)
(* type, handled in parallel and kept in memory: they are delivered in any *)
(* order, one whose handler throws is given up for good, and a crash loses *)
(* the ones still waiting.                                                 *)
(***************************************************************************)
EXTENDS Integers, FiniteSets

CONSTANTS
  Workers, Positions, Assignments,   \* identities
  Days,                              \* first days of a period
  Periods,                           \* the <<first, last>> a client may ask for
  LastDays,                          \* the last days an ending may ask for
  MaxCalls,                          \* bound: calls in flight at once
  MaxCopies,                         \* bound: equal messages waiting at once
  CanFail                            \* whether handlers may throw and the process stop

\* An open-ended assignment has no last day (EndsOn is null).
NoEnd == 0
Ends == Days \cup {NoEnd}

\* A validator refuses a period that ends before it starts.
ValidPeriod(from, to) == to = NoEnd \/ to >= from

ASSUME StaffingAssumption ==
  /\ Days \subseteq Nat \ {0}
  /\ Periods \subseteq {d \in Days \X Ends : ValidPeriod(d[1], d[2])}
  /\ LastDays \subseteq Ends
  /\ MaxCalls \in Nat /\ MaxCopies \in Nat
  /\ CanFail \in BOOLEAN

-----------------------------------------------------------------------------
(* Assignment statuses and the two policies.                               *)

Live == {"Planned", "Active"}
Final == {"Completed", "Interrupted", "DidNotStart"}

Allow(from, to) ==
  <<from, to>> \in {<<"Planned", "Active">>, <<"Planned", "DidNotStart">>,
                    <<"Active", "Completed">>, <<"Active", "Interrupted">>}

\* The stages of the worker pipeline as the two questions below tell them
\* apart: still in preparation, employed or between projects, gone.
Stages == {"Preparing", "Ready", "Terminated"}
MayBePlanned(stage) == stage # "Terminated"
MayStartWork(stage) == stage = "Ready"

\* Two periods, last days included, an absent last day meaning for ever.
Overlaps(s1, e1, s2, e2) == /\ e1 = NoEnd \/ e1 >= s2
                            /\ e2 = NoEnd \/ e2 >= s1

-----------------------------------------------------------------------------
VARIABLES
  worker,      \* the stage on each person's stream
  assignment,  \* the assignment streams, folded
  projected,   \* the rows of AssignmentProjection
  calls,       \* commands past their checks and not yet committed
  mail,        \* copies of each message waiting in the local queues
  staffed,     \* AssignedAssignmentIds of each position
  saw,         \* history: the terms each assignment's last calendar check read
  issued,      \* history: the kinds of message ever sent for each pair
  lost         \* history: the pairs a message was lost about, given up or in a crash

vars == <<worker, assignment, projected, calls, mail, staffed, saw, issued, lost>>

NoWorker == "nobody"
NoPosition == "nowhere"
Unplanned == [worker |-> NoWorker, position |-> NoPosition,
              from |-> 0, to |-> NoEnd, status |-> "Unplanned"]

AssignmentState ==
  [worker : Workers \cup {NoWorker}, position : Positions \cup {NoPosition},
   from : Days \cup {0}, to : Ends, status : Live \cup Final \cup {"Unplanned"}]

Terms == Assignments \X (Days \cup {0}) \X Ends
Kinds == {"AssignmentPositionStaffed", "AssignmentPositionUnstaffed"}
Pairs == Positions \X Assignments
Messages == [kind : Kinds, pair : Pairs]

Staffed(p, a) == [kind |-> "AssignmentPositionStaffed", pair |-> <<p, a>>]
Unstaffed(p, a) == [kind |-> "AssignmentPositionUnstaffed", pair |-> <<p, a>>]

PlanCalls == [op : {"plan"}, assignment : Assignments, worker : Workers,
              position : Positions, from : Days, to : Ends, saw : SUBSET Terms]
UpdateCalls == [op : {"update"}, assignment : Assignments, position : Positions,
                from : Days, to : Ends, saw : SUBSET Terms]
StartCalls == [op : {"start"}, assignment : Assignments]
Calls == PlanCalls \cup UpdateCalls \cup StartCalls

Init ==
  /\ worker \in [Workers -> {"Preparing"}]
  /\ assignment = [a \in Assignments |-> Unplanned]
  /\ projected = [a \in Assignments |-> Unplanned]
  /\ calls = {}
  /\ mail = [m \in Messages |-> 0]
  /\ staffed = [p \in Positions |-> {}]
  /\ saw = [a \in Assignments |-> {}]
  /\ issued = [x \in Pairs |-> {}]
  /\ lost = {}

-----------------------------------------------------------------------------
(* The calendar check.                                                     *)

\* The rows HasOverlappingAssignment fetches, the excluded ones left out.
CandidatesActiveOnly(w, except) ==
  {a \in Assignments : /\ projected[a].worker = w
                       /\ projected[a].status = "Active"
                       /\ a \notin except}
Candidates(w, except) ==
  {a \in Assignments : /\ projected[a].worker = w
                       /\ projected[a].status \in Live
                       /\ a \notin except}

HasOverlappingAssignment(w, from, to, except) ==
  \E a \in Candidates(w, except) :
     Overlaps(projected[a].from, projected[a].to, from, to)

TermsOf(a, state) == <<a, state[a].from, state[a].to>>
TermsRead(w, except) ==
  {TermsOf(a, projected) : a \in {b \in Assignments : /\ projected[b].worker = w
                                                      /\ projected[b].status \in Live
                                                      /\ b \notin except}}

-----------------------------------------------------------------------------
(* Committing.                                                             *)

\* A commit on a stream dooms every other call that read it: their versions
\* are out of date, so the database refuses them when they come to commit.
DoomedWithoutVersions(a) == {}
Doomed(a) == {d \in calls : d.assignment = a}

Enqueue(messages) ==
  /\ \A m \in messages : mail[m] < MaxCopies
  /\ mail' = [m \in Messages |-> IF m \in messages THEN mail[m] + 1 ELSE mail[m]]
  /\ issued' = [x \in Pairs |->
                  issued[x] \cup {m.kind : m \in {n \in messages : n.pair = x}}]

-----------------------------------------------------------------------------
(* PlanAssignment.                                                         *)

CheckPlan(a, w, p, from, to) ==
  /\ Cardinality(calls) < MaxCalls
  /\ assignment[a] = Unplanned
  /\ \A c \in calls : c.assignment # a
  /\ ValidPeriod(from, to)
  /\ MayBePlanned(worker[w])
  /\ ~HasOverlappingAssignment(w, from, to, {})
  /\ calls' = calls \cup
       {[op |-> "plan", assignment |-> a, worker |-> w, position |-> p,
         from |-> from, to |-> to, saw |-> TermsRead(w, {})]}
  /\ UNCHANGED <<worker, assignment, projected, mail, staffed, saw, issued, lost>>

CommitPlan(c) ==
  LET a == c.assignment IN
  /\ c.op = "plan"
  /\ assignment' = [assignment EXCEPT ![a] =
       [worker |-> c.worker, position |-> c.position,
        from |-> c.from, to |-> c.to, status |-> "Planned"]]
  /\ saw' = [saw EXCEPT ![a] = c.saw]
  /\ Enqueue({Staffed(c.position, a)})
  /\ calls' = calls \ ({c} \cup Doomed(a))
  /\ UNCHANGED <<worker, projected, staffed, lost>>

(* UpdateAssignment: the position and the period, never the person.        *)

CheckUpdate(a, p, from, to) ==
  /\ Cardinality(calls) < MaxCalls
  /\ assignment[a].status \in Live
  /\ ValidPeriod(from, to)
  /\ ~HasOverlappingAssignment(assignment[a].worker, from, to, {a})
  /\ calls' = calls \cup
       {[op |-> "update", assignment |-> a, position |-> p, from |-> from,
         to |-> to, saw |-> TermsRead(assignment[a].worker, {a})]}
  /\ UNCHANGED <<worker, assignment, projected, mail, staffed, saw, issued, lost>>

\* The messages that keep the two counts right when the position changes.
MoveForgettingOldSeat(a, from, to) == IF from = to THEN {} ELSE {Staffed(to, a)}
MoveMessages(a, from, to) ==
  IF from = to THEN {} ELSE {Unstaffed(from, a), Staffed(to, a)}

CommitUpdate(c) ==
  LET a == c.assignment IN
  /\ c.op = "update"
  /\ assignment' = [assignment EXCEPT ![a].position = c.position,
                                      ![a].from = c.from, ![a].to = c.to]
  /\ saw' = [saw EXCEPT ![a] = c.saw]
  /\ Enqueue(MoveMessages(a, assignment[a].position, c.position))
  /\ calls' = calls \ ({c} \cup Doomed(a))
  /\ UNCHANGED <<worker, projected, staffed, lost>>

(* ChangeAssignmentStatus.  Going live asks the person's stream first; an  *)
(* ending looks at nothing but its own stream.                             *)

CheckStart(a) ==
  /\ Cardinality(calls) < MaxCalls
  /\ assignment[a].status # "Unplanned"
  /\ Allow(assignment[a].status, "Active")
  /\ MayStartWork(worker[assignment[a].worker])
  /\ calls' = calls \cup {[op |-> "start", assignment |-> a]}
  /\ UNCHANGED <<worker, assignment, projected, mail, staffed, saw, issued, lost>>

CommitStart(c) ==
  LET a == c.assignment IN
  /\ c.op = "start"
  /\ assignment' = [assignment EXCEPT ![a].status = "Active"]
  /\ calls' = calls \ ({c} \cup Doomed(a))
  /\ UNCHANGED <<worker, projected, mail, staffed, saw, issued, lost>>

\* The last day an ending writes: the one asked for, else the one planned.
EndUnchecked(a, status, asked) ==
  {IF asked = NoEnd THEN assignment[a].to ELSE asked}
EndDayBefore(a, status, asked) ==
  {(IF asked = NoEnd THEN assignment[a].to ELSE asked) - 1}
EndWritten(a, status, asked) ==
  LET end == IF asked = NoEnd THEN assignment[a].to ELSE asked
  IN  {e \in {end} : status = "DidNotStart" \/ ValidPeriod(assignment[a].from, e)}

Finish(a, status, asked) ==
  /\ assignment[a].status # "Unplanned"
  /\ status \in Final
  /\ Allow(assignment[a].status, status)
  /\ \E end \in EndWritten(a, status, asked) :
       assignment' = [assignment EXCEPT ![a].status = status, ![a].to = end]
  /\ Enqueue({Unstaffed(assignment[a].position, a)})
  /\ calls' = calls \ Doomed(a)
  /\ UNCHANGED <<worker, projected, staffed, saw, lost>>

\* A call that fails after its checks, or that nobody waits for any more.
Abandon(c) ==
  /\ calls' = calls \ {c}
  /\ UNCHANGED <<worker, assignment, projected, mail, staffed, saw, issued, lost>>

-----------------------------------------------------------------------------
(* ChangeWorkerStatus, as far as the stages tell its transitions apart.    *)

ChangeWorkerStatus(w, stage) ==
  /\ <<worker[w], stage>> \in
       {<<"Preparing", "Ready">>, <<"Ready", "Preparing">>,
        <<"Preparing", "Terminated">>, <<"Ready", "Terminated">>,
        <<"Terminated", "Preparing">>}
  /\ worker' = [worker EXCEPT ![w] = stage]
  /\ UNCHANGED <<assignment, projected, calls, mail, staffed, saw, issued, lost>>

\* The asynchronous daemon catches up with the assignment streams.
ProjectAssignments ==
  /\ projected # assignment
  /\ projected' = assignment
  /\ UNCHANGED <<worker, assignment, calls, mail, staffed, saw, issued, lost>>

-----------------------------------------------------------------------------
(* The Projects side: each message becomes an event on the project's own   *)
(* stream, appended under an exclusive lock, and the events add up to the  *)
(* assignments held against each position.                                 *)

RecountInverted(kind, held, a) ==
  IF kind = "AssignmentPositionStaffed"
    THEN IF a \in held THEN held \cup {a} ELSE held
    ELSE held \ {a}
Recount(kind, held, a) ==
  IF kind = "AssignmentPositionStaffed" THEN held \cup {a} ELSE held \ {a}

Deliver(m) ==
  LET p == m.pair[1]  a == m.pair[2] IN
  /\ mail[m] > 0
  /\ mail' = [mail EXCEPT ![m] = @ - 1]
  /\ staffed' = [staffed EXCEPT ![p] = Recount(m.kind, @, a)]
  /\ UNCHANGED <<worker, assignment, projected, calls, saw, issued, lost>>

\* The handler throws (no lock to be had, no database): no policy retries it,
\* and the message goes to the dead letter queue, which nothing here reads.
GiveUp(m) ==
  /\ CanFail
  /\ mail[m] > 0
  /\ mail' = [mail EXCEPT ![m] = @ - 1]
  /\ lost' = lost \cup {m.pair}
  /\ UNCHANGED <<worker, assignment, projected, calls, staffed, saw, issued>>

Handle(m) == Deliver(m) \/ GiveUp(m)

\* The process stops: calls in flight and waiting messages are gone; streams,
\* projections and their progress are in the database.
Crash ==
  /\ CanFail
  /\ calls' = {}
  /\ mail' = [m \in Messages |-> 0]
  /\ lost' = lost \cup {x \in Pairs : \E k \in Kinds : mail[[kind |-> k, pair |-> x]] > 0}
  /\ UNCHANGED <<worker, assignment, projected, staffed, saw, issued>>

-----------------------------------------------------------------------------
Next ==
  \/ \E a \in Assignments, w \in Workers, p \in Positions, d \in Periods :
        CheckPlan(a, w, p, d[1], d[2])
  \/ \E a \in Assignments, p \in Positions, d \in Periods :
        CheckUpdate(a, p, d[1], d[2])
  \/ \E a \in Assignments : CheckStart(a)
  \/ \E c \in calls : CommitPlan(c) \/ CommitUpdate(c) \/ CommitStart(c) \/ Abandon(c)
  \/ \E a \in Assignments, status \in Final, asked \in LastDays : Finish(a, status, asked)
  \/ \E w \in Workers, stage \in Stages : ChangeWorkerStatus(w, stage)
  \/ ProjectAssignments
  \/ \E m \in Messages : Handle(m)
  \/ Crash

Spec == Init /\ [][Next]_vars

\* While the process runs, every local queue has a listener that takes its
\* messages, with what success is not assumed; nothing obliges a client to send
\* or to finish a command.
FairSpec == Spec /\ \A m \in Messages : WF_vars(Handle(m))

-----------------------------------------------------------------------------
(* Properties.                                                             *)

Occupies(a) == assignment[a].status \in Live
Sits(p, a) == Occupies(a) /\ assignment[a].position = p

TypeOK ==
  /\ worker \in [Workers -> Stages]
  /\ assignment \in [Assignments -> AssignmentState]
  /\ projected \in [Assignments -> AssignmentState]
  /\ calls \subseteq Calls
  /\ mail \in [Messages -> Nat]
  /\ staffed \in [Positions -> SUBSET Assignments]
  /\ saw \in [Assignments -> SUBSET Terms]
  /\ issued \in [Pairs -> SUBSET Kinds]
  /\ lost \subseteq Pairs

WorksOn(a, d) == /\ Occupies(a)
                 /\ assignment[a].from <= d
                 /\ assignment[a].to = NoEnd \/ d <= assignment[a].to

\* Nobody works two positions on one day, but for the race the repository of the
\* calendar documents: if two running assignments of one person share a day, then
\* neither one's last check had read the terms the other one has now.
OverlapOnlyByRace ==
  \A a, b \in Assignments, d \in Days :
    (/\ a # b
     /\ assignment[a].worker = assignment[b].worker
     /\ WorksOn(a, d) /\ WorksOn(b, d))
    => TermsOf(b, assignment) \notin saw[a]

\* Somebody who worked has a period that does not end before it starts, although
\* the update that moves the first day and the ending that writes the last one
\* each validate only what they were given.
PeriodsWellFormed ==
  \A a \in Assignments :
    assignment[a].status \in (Live \cup Final) \ {"DidNotStart"}
      => ValidPeriod(assignment[a].from, assignment[a].to)

\* A finished stay does not restart and its terms are never rewritten, whatever
\* update or start was already past its checks when it ended.
FinalIsForever ==
  [][\A a \in Assignments :
       assignment[a].status \in Final => assignment'[a] = assignment[a]]_vars

\* The racing commands keep the promise of Stay: a stay is planned once, revised
\* only while it lasts, started and ended once and never rewritten afterwards,
\* whatever update or start was already past its checks when another one committed.
Promise == INSTANCE Stay WITH stay <- assignment
ImplementsStay == Promise!Spec

\* Once the queues are empty, a position counts exactly the people who sit on it,
\* except for a pair that was both staffed and unstaffed (its two messages may
\* have been handled in the other order) or a message of which was lost: its
\* handler threw, or the process stopped before it was handled.
SeatsAddUp ==
  (\A m \in Messages : mail[m] = 0) =>
    \A p \in Positions, a \in Assignments :
      (a \in staffed[p]) # Sits(p, a)
        => issued[<<p, a>>] = Kinds \/ <<p, a>> \in lost

\* What the comment in UpdateAssignmentHandler asks for: once the queues are
\* empty the counts describe the roles people sit on.
SeatsAgree ==
  (\A m \in Messages : mail[m] = 0) =>
    \A p \in Positions, a \in Assignments : (a \in staffed[p]) = Sits(p, a)

\* The message about a seat somebody takes never waits for ever: in the end the
\* seat is counted, or a message about it is known to be lost, in the dead letter
\* queue or in a crash, whatever else waits in the queues.
StaffedIsCounted ==
  \A p \in Positions, a \in Assignments :
    mail[Staffed(p, a)] > 0 ~> (a \in staffed[p] \/ <<p, a>> \in lost)
=============================================================================
