------------------------------- MODULE Teams -------------------------------
(***************************************************************************)
(* Teams of one organization: the rosters and the reservations of the      *)
(* Teams module, and the copy of a person's team that the Identity module  *)
(* keeps from the notices Teams sends.                                     *)
(*                                                                         *)
(* A command on a team reads its stream, checks, and commits later: Marten *)
(* compares the stream's version, and the unique index on reservations     *)
(* refuses a second seat for the same person.  What a handler reads is     *)
(* gathered into the step that begins the call, since a team that changes  *)
(* afterwards dooms the commit anyway.                                     *)
(*                                                                         *)
(* The commit also writes the notices, to a durable local queue: they are  *)
(* handled in any order, and again after a stop, since the handler's own   *)
(* transaction commits before the message is marked as handled.  Mails are *)
(* left out; Notifications models where they go.                           *)
(***************************************************************************)
EXTENDS Integers, FiniteSets

CONSTANTS
  TeamIds, UserIds, Roles, Names,  \* identities; a name's wording is free
  NoTeam, NoRole, NoName,          \* the nulls of TeamInfo
  Nobody,                          \* the user of a command that is about the whole team
  MaxVersion,                      \* bound: events on one team's stream
  MaxTold,                         \* bound: notices about one person
  MaxCalls                         \* bound: calls past their checks at once

ASSUME TeamsAssumption ==
  /\ NoTeam \notin TeamIds
  /\ NoRole \notin Roles
  /\ MaxVersion \in Nat \ {0}

-----------------------------------------------------------------------------
VARIABLES
  teams,     \* the team streams, folded: one record for each team created
  seat,      \* the reservations: the team whose row each person holds
  users,     \* the user streams, folded to the team a user is shown with
  calls,     \* commands on a team past their checks and not yet committed
  requests,  \* AssignUserToTeam messages not yet handled
  notices,   \* TeamMembershipChanged messages not yet handled
  told,      \* history: how many notices were sent about each person
  newest,    \* history: the latest notice applied to each user
  late,      \* history: the users whose last notice was not their latest
  lost       \* history: the people a message was given up about

history == <<told, newest, late>>
vars == <<teams, seat, users, calls, requests, notices, history, lost>>

Team == [name : Names, roles : [UserIds -> Roles \cup {NoRole}],
         version : 1 .. MaxVersion, past : SUBSET Names]

Members(t) == {u \in UserIds : teams[t].roles[u] # NoRole}

\* Team, name and role travel together or not at all.
NoInfo == [team |-> NoTeam, name |-> NoName, role |-> NoRole]
Infos == [team : TeamIds, name : Names, role : Roles] \cup {NoInfo}
Info(t, n, r) == [team |-> t, name |-> n, role |-> r]

\* What a call has to say about a person, before it is numbered.
Facts == [user : UserIds, info : Infos]
Fact(u, info) == [user |-> u, info |-> info]
About(facts) == {f.user : f \in facts}

Kinds == {"added", "removed", "roleChanged", "renamed"}

Calls == [kind : Kinds, team : TeamIds, version : 1 .. MaxVersion,
          user : UserIds \cup {Nobody}, role : Roles \cup {NoRole}, name : Names,
          facts : SUBSET Facts, asked : BOOLEAN]

Requests == [user : UserIds, team : TeamIds, role : Roles]
Notices == [user : UserIds, info : Infos, number : Nat]

Init ==
  /\ teams = [t \in {} |-> NoTeam]
  /\ seat = [u \in UserIds |-> NoTeam]
  /\ users = [u \in {} |-> NoInfo]
  /\ calls = {} /\ requests = {} /\ notices = {}
  /\ told = [u \in UserIds |-> 0]
  /\ newest = [u \in UserIds |-> 0]
  /\ late = {} /\ lost = {}

Known == DOMAIN users
Founded == DOMAIN teams

-----------------------------------------------------------------------------
(* Notices are written by the transaction they tell of.                    *)

Numbered(facts) == {[user |-> f.user, info |-> f.info, number |-> told[f.user] + 1] : f \in facts}

Tell(facts) ==
  /\ \A u \in About(facts) : told[u] < MaxTold
  /\ notices' = notices \cup Numbered(facts)
  /\ told' = [u \in UserIds |-> IF u \in About(facts) THEN told[u] + 1 ELSE told[u]]

-----------------------------------------------------------------------------
(* Creating users and teams.                                               *)

CreateUser(u) ==
  /\ u \notin Known
  /\ users' = [v \in Known \cup {u} |-> IF v = u THEN NoInfo ELSE users[v]]
  /\ UNCHANGED <<teams, seat, calls, requests, notices, history, lost>>

\* The team's name comes from its asynchronous projection and may be an old one.
CreateUserOnTeam(u, t, r) ==
  /\ u \notin Known
  /\ \E n \in teams[t].past :
       users' = [v \in Known \cup {u} |-> IF v = u THEN Info(t, n, r) ELSE users[v]]
  /\ requests' = requests \cup {[user |-> u, team |-> t, role |-> r]}
  /\ UNCHANGED <<teams, seat, calls, notices, history, lost>>

\* The reads before the commit repeat what the unique index decides at it.
CreateTeam(t, n, roster) ==
  /\ t \notin Founded
  /\ DOMAIN roster # {}
  /\ \A u \in DOMAIN roster : seat[u] = NoTeam
  /\ teams' = [s \in Founded \cup {t} |->
                 IF s = t
                 THEN [name |-> n, version |-> 1, past |-> {n},
                       roles |-> [u \in UserIds |-> IF u \in DOMAIN roster THEN roster[u] ELSE NoRole]]
                 ELSE teams[s]]
  /\ seat' = [u \in UserIds |-> IF u \in DOMAIN roster THEN t ELSE seat[u]]
  /\ Tell({Fact(u, Info(t, n, roster[u])) : u \in DOMAIN roster})
  /\ UNCHANGED <<users, calls, requests, newest, late, lost>>

-----------------------------------------------------------------------------
(* The commands on a team: read and check.                                 *)

Begin(kind, t, u, r, n, facts, asked) ==
  /\ Cardinality(calls) < MaxCalls
  /\ teams[t].version < MaxVersion
  /\ calls' = calls \cup {[kind |-> kind, team |-> t, version |-> teams[t].version,
                           user |-> u, role |-> r, name |-> n,
                           facts |-> facts, asked |-> asked]}
  /\ UNCHANGED <<teams, seat, users, requests, notices, history, lost>>

MayAdd(t, u) == u \in Known \ Members(t) /\ seat[u] = NoTeam

AddTeamMember(t, u, r, asked) ==
  /\ MayAdd(t, u)
  /\ Begin("added", t, u, r, teams[t].name, {Fact(u, Info(t, teams[t].name, r))}, asked)

LeavingWithRole(u) == Fact(u, [NoInfo EXCEPT !.role = CHOOSE r \in Roles : TRUE])
Leaving(u) == Fact(u, NoInfo)

RemoveTeamMember(t, u) ==
  /\ u \in Members(t)
  /\ \E v \in Members(t) : v # u
  /\ Begin("removed", t, u, NoRole, teams[t].name, {Leaving(u)}, FALSE)

ChangeTeamMemberRole(t, u, r) ==
  /\ u \in Members(t)
  /\ teams[t].roles[u] # r
  /\ Begin("roleChanged", t, u, r, teams[t].name, {Fact(u, Info(t, teams[t].name, r))}, FALSE)

\* A rename tells everybody who holds a copy of the name.
RenameUntold(t, n) == {}
RenameFacts(t, n) == {Fact(u, Info(t, n, teams[t].roles[u])) : u \in Members(t)}

RenameTeam(t, n) ==
  /\ n # teams[t].name
  /\ Begin("renamed", t, Nobody, NoRole, n, RenameFacts(t, n), FALSE)

-----------------------------------------------------------------------------
(* The commit.                                                             *)

\* The stream is still at the version the command read.
AppendsAnyway(c) == TRUE
Appends(c) == teams[c.team].version = c.version

\* The unique index on (OrganizationId, UserId).
ReservesAnyway(c) == TRUE
Reserves(c) == c.kind = "added" => seat[c.user] = NoTeam

Folded(team, c) ==
  IF c.kind = "renamed"
  THEN [team EXCEPT !.name = c.name, !.past = @ \cup {c.name}, !.version = @ + 1]
  ELSE [team EXCEPT !.roles[c.user] = c.role, !.version = @ + 1]

SeatsAfter(c) ==
  CASE c.kind = "added"   -> [seat EXCEPT ![c.user] = c.team]
    [] c.kind = "removed" -> [seat EXCEPT ![c.user] = NoTeam]
    [] OTHER              -> seat

RequestOf(c) == {q \in requests : c.asked /\ q.user = c.user}

Commit(c) ==
  /\ Appends(c) /\ Reserves(c)
  /\ teams' = [teams EXCEPT ![c.team] = Folded(@, c)]
  /\ seat' = SeatsAfter(c)
  /\ Tell(c.facts)
  /\ calls' = calls \ {c}
  /\ \/ requests' = requests \ RequestOf(c)
     \/ UNCHANGED requests  \* a stop before the message is marked as handled
  /\ UNCHANGED <<users, newest, late, lost>>

\* A conflict, a broken connection or a stop ends a call with nothing written.
\* A message is then handled again, or given up.
Abandon(c) ==
  /\ calls' = calls \ {c}
  /\ \/ UNCHANGED <<requests, lost>>
     \/ /\ requests' = requests \ RequestOf(c)
        /\ lost' = lost \cup {q.user : q \in RequestOf(c)}
  /\ UNCHANGED <<teams, seat, users, notices, history>>

-----------------------------------------------------------------------------
(* Handling the messages.                                                  *)

HandleRequest(q) ==
  /\ ~\E c \in calls : c.asked /\ c.user = q.user
  /\ AddTeamMember(q.team, q.user, q.role, TRUE)

\* What the command refuses, the message dies of.
RefuseRequest(q) ==
  /\ ~MayAdd(q.team, q.user)
  /\ requests' = requests \ {q}
  /\ UNCHANGED <<teams, seat, users, calls, notices, history, lost>>

HandleNotice(n) ==
  /\ n.user \in Known
  /\ users' = [users EXCEPT ![n.user] = n.info]
  /\ newest' = [newest EXCEPT ![n.user] = IF n.number > @ THEN n.number ELSE @]
  /\ late' = IF n.number < newest[n.user] THEN late \cup {n.user} ELSE late \ {n.user}
  /\ \/ notices' = notices \ {n}
     \/ UNCHANGED notices  \* a stop before the message is marked as handled
  /\ UNCHANGED <<teams, seat, calls, requests, told, lost>>

\* A conflict on the user's stream, and the message is given up.
GiveUpNotice(n) ==
  /\ notices' = notices \ {n}
  /\ lost' = lost \cup {n.user}
  /\ UNCHANGED <<teams, seat, users, calls, requests, history>>

-----------------------------------------------------------------------------
Rosters == UNION {[people -> Roles] : people \in SUBSET Known}

Create ==
  \/ \E u \in UserIds :
       CreateUser(u) \/ \E t \in Founded, r \in Roles : CreateUserOnTeam(u, t, r)
  \/ \E t \in TeamIds, n \in Names, roster \in Rosters : CreateTeam(t, n, roster)

Command(t) ==
  \/ \E u \in UserIds :
       \/ \E r \in Roles : AddTeamMember(t, u, r, FALSE) \/ ChangeTeamMemberRole(t, u, r)
       \/ RemoveTeamMember(t, u)
  \/ \E n \in Names : RenameTeam(t, n)

Next ==
  \/ Create
  \/ \E t \in Founded : Command(t)
  \/ \E c \in calls : Commit(c) \/ Abandon(c)
  \/ \E q \in requests : HandleRequest(q) \/ RefuseRequest(q)
  \/ \E n \in notices : HandleNotice(n) \/ GiveUpNotice(n)

Spec == Init /\ [][Next]_vars

-----------------------------------------------------------------------------
TypeOK ==
  /\ Founded \subseteq TeamIds /\ teams \in [Founded -> Team]
  /\ seat \in [UserIds -> Founded \cup {NoTeam}]
  /\ Known \subseteq UserIds /\ users \in [Known -> Infos]
  /\ calls \subseteq Calls /\ requests \subseteq Requests /\ notices \subseteq Notices
  /\ told \in [UserIds -> Nat] /\ newest \in [UserIds -> Nat]
  /\ late \subseteq UserIds /\ lost \subseteq UserIds

(***************************************************************************)
(* The reservations and the rosters tell the same story, whatever commands *)
(* race each other: a person holds the seat of exactly the team that lists *)
(* them, so nobody is on two teams and no seat is held for nobody          *)
(* (TeamMembershipReservationRepository).                                  *)
(***************************************************************************)
RosterMatchesSeats ==
  \A u \in UserIds, t \in Founded : u \in Members(t) <=> seat[u] = t

(***************************************************************************)
(* Once every message about a person is handled, Identity shows them on    *)
(* the team, under the name and in the role the roster has, unless a       *)
(* notice was given up or handled after a later one (UserProjection.Team). *)
(***************************************************************************)
Standing(u) ==
  IF seat[u] = NoTeam THEN NoInfo
  ELSE Info(seat[u], teams[seat[u]].name, teams[seat[u]].roles[u])

NothingWaits(u) == u \notin About(notices) \cup About(requests)

CopyFollowsRoster ==
  \A u \in Known :
    NothingWaits(u) /\ u \notin late \cup lost => users[u] = Standing(u)

(***************************************************************************)
(* Commands that read, check and commit in separate steps do what one at a *)
(* time would: they join from no team, and the last member never leaves    *)
(* (RemoveTeamMemberHandler.LastMemberMessage).                            *)
(***************************************************************************)
Promise == INSTANCE Membership WITH founded <- Founded, place <- seat
ImplementsMembership == Promise!Spec
=============================================================================
