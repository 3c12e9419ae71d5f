---------------------------- MODULE Teams_proof ----------------------------
(***************************************************************************)
(* Proofs about the teams: one seat each, the promise of Membership, and   *)
(* the copy of the roster that Identity keeps.                             *)
(***************************************************************************)
EXTENDS Teams, TLAPS

(***************************************************************************)
(* As long as the stream is at the version a call read, what the call had  *)
(* checked still holds, and its notices say what its commit makes true.    *)
(***************************************************************************)
Sound(c) ==
  /\ c.kind = "added" =>
       /\ c.user \notin Members(c.team) /\ c.role \in Roles
       /\ c.facts = {Fact(c.user, Info(c.team, teams[c.team].name, c.role))}
  /\ c.kind = "removed" =>
       /\ c.user \in Members(c.team) /\ c.role = NoRole
       /\ \E v \in Members(c.team) : v # c.user
       /\ c.facts = {Leaving(c.user)}
  /\ c.kind = "roleChanged" =>
       /\ c.user \in Members(c.team) /\ c.role \in Roles
       /\ c.facts = {Fact(c.user, Info(c.team, teams[c.team].name, c.role))}
  /\ c.kind = "renamed" => c.facts = RenameFacts(c.team, c.name)

CallInv(c) ==
  /\ c.team \in Founded
  /\ c.version < MaxVersion /\ c.version <= teams[c.team].version
  /\ About(c.facts) \subseteq Known
  /\ c.kind # "renamed" => c.user \in UserIds
  /\ c.asked => c.kind = "added"
  /\ Appends(c) => Sound(c)
CallsInv == \A c \in calls : CallInv(c)

SeatedAreKnown == \A u \in UserIds : seat[u] # NoTeam => u \in Known
RequestsAreKnown == \A q \in requests : q.user \in Known /\ q.team \in Founded

RosterInv == TypeOK /\ CallsInv /\ RosterMatchesSeats /\ SeatedAreKnown /\ RequestsAreKnown

-----------------------------------------------------------------------------
LEMMA InitRoster == Init => RosterInv
<1> SUFFICES ASSUME Init PROVE RosterInv
  OBVIOUS
<1>1. Founded = {} /\ Known = {}
  BY DEF Init, Founded, Known
<1>2. TypeOK
  <2>1. teams \in [Founded -> Team] /\ users \in [Known -> Infos]
    BY DEF Init, Founded, Known
  <2>2. QED
    BY <1>1, <2>1 DEF Init, TypeOK
<1>3. QED
  BY <1>1, <1>2 DEF Init, RosterInv, CallsInv, RosterMatchesSeats, SeatedAreKnown, RequestsAreKnown

\* Numbering facts gives notices.
LEMMA TellTypes ==
  ASSUME TypeOK, NEW facts \in SUBSET Facts, Tell(facts)
  PROVE  notices' \subseteq Notices /\ told' \in [UserIds -> Nat]
<1>1. \A f \in facts : f.user \in UserIds /\ f.info \in Infos
  BY DEF Facts
<1>2. Numbered(facts) \subseteq Notices
  BY <1>1 DEF Numbered, Notices, TypeOK
<1>3. told' \in [UserIds -> Nat]
  BY DEF Tell, TypeOK
<1>4. QED
  BY <1>2, <1>3 DEF Tell, TypeOK

\* A person is seated where they are listed.
LEMMA MembersAreSeated ==
  ASSUME RosterInv, NEW t \in Founded, NEW u \in Members(t)
  PROVE  u \in UserIds /\ seat[u] = t /\ t # NoTeam /\ u \in Known /\ teams[t].roles[u] \in Roles
BY TeamsAssumption DEF RosterInv, RosterMatchesSeats, SeatedAreKnown, Members, TypeOK, Team

\* The facts of a call are about known users and have their type.
LEMMA FactTypes ==
  /\ \A u \in UserIds, t \in TeamIds, n \in Names, r \in Roles : Fact(u, Info(t, n, r)) \in Facts
  /\ \A u \in UserIds : Leaving(u) \in Facts
  /\ \A u, info : Fact(u, info).user = u /\ Fact(u, info).info = info
BY DEF Fact, Facts, Info, Infos, Leaving

LEMMA AboutOne == \A u, info : About({Fact(u, info)}) = {u}
BY DEF About, Fact

-----------------------------------------------------------------------------
\* A call just begun is sound: it was read and checked in this state.
LEMMA BeginKeeps ==
  ASSUME RosterInv, NEW kind \in Kinds, NEW t \in Founded, NEW u \in UserIds \cup {Nobody},
         NEW r \in Roles \cup {NoRole}, NEW n \in Names, NEW facts \in SUBSET Facts,
         NEW asked \in BOOLEAN, Begin(kind, t, u, r, n, facts, asked),
         About(facts) \subseteq Known, kind # "renamed" => u \in UserIds,
         asked => kind = "added",
         \A c : /\ c.kind = kind /\ c.team = t /\ c.user = u /\ c.role = r /\ c.name = n
                /\ c.facts = facts
                => Sound(c)
  PROVE  RosterInv'
<1> DEFINE new == [kind |-> kind, team |-> t, version |-> teams[t].version,
                   user |-> u, role |-> r, name |-> n, facts |-> facts, asked |-> asked]
<1>1. teams[t] \in Team /\ teams[t].version \in 1 .. MaxVersion
  BY DEF RosterInv, TypeOK, Team
<1>2. new \in Calls
  BY <1>1 DEF Calls, RosterInv, TypeOK
<1>3. /\ new.kind = kind /\ new.team = t /\ new.version = teams[t].version /\ new.user = u
      /\ new.role = r /\ new.name = n /\ new.facts = facts /\ new.asked = asked
  OBVIOUS
<1>4. calls' = calls \cup {new} /\ teams[t].version < MaxVersion
      /\ UNCHANGED <<teams, seat, users, requests, notices, told, newest, late, lost>>
  BY DEF Begin, history
<1> HIDE DEF new
<1>5. Sound(new)
  BY <1>3
<1>6. CallInv(new)
  BY <1>1, <1>3, <1>4, <1>5, TeamsAssumption DEF CallInv
<1>7. \A c \in calls' : CallInv(c)
  BY <1>4, <1>6 DEF RosterInv, CallsInv
<1>8. Founded' = Founded /\ Known' = Known
  BY <1>4 DEF Founded, Known
<1>9. CallsInv'
  BY <1>4, <1>7, <1>8 DEF CallsInv, CallInv, Sound, Appends, Members, RenameFacts
<1>10. TypeOK'
  BY <1>2, <1>4, <1>8 DEF RosterInv, TypeOK
<1>11. RosterMatchesSeats' /\ SeatedAreKnown' /\ RequestsAreKnown'
  BY <1>4, <1>8 DEF RosterInv, RosterMatchesSeats, SeatedAreKnown, RequestsAreKnown, Members
<1>12. QED
  BY <1>9, <1>10, <1>11 DEF RosterInv

LEMMA AddKeeps ==
  ASSUME RosterInv, NEW t \in Founded, NEW u \in UserIds, NEW r \in Roles, NEW asked \in BOOLEAN,
         AddTeamMember(t, u, r, asked)
  PROVE  RosterInv'
<1> DEFINE facts == {Fact(u, Info(t, teams[t].name, r))}
<1>1. t \in TeamIds /\ teams[t].name \in Names
  BY DEF RosterInv, TypeOK, Team
<1>2. facts \in SUBSET Facts /\ About(facts) = {u}
  BY <1>1, FactTypes DEF About
<1>3. u \in Known /\ u \notin Members(t) /\ Begin("added", t, u, r, teams[t].name, facts, asked)
  BY DEF AddTeamMember, MayAdd
<1>4. \A c : /\ c.kind = "added" /\ c.team = t /\ c.user = u /\ c.role = r /\ c.name = teams[t].name
             /\ c.facts = facts
             => Sound(c)
  BY <1>3 DEF Sound
<1> HIDE DEF facts
<1>5. "added" \in Kinds /\ About(facts) \subseteq Known
  BY <1>2, <1>3 DEF Kinds
<1>6. QED
  BY <1>1, <1>2, <1>3, <1>4, <1>5, BeginKeeps

LEMMA CommandKeeps ==
  ASSUME RosterInv, NEW t \in Founded, Command(t)
  PROVE  RosterInv'
<1>1. t \in TeamIds /\ teams[t].name \in Names
  BY DEF RosterInv, TypeOK, Team
<1>2. ASSUME NEW u \in UserIds, NEW r \in Roles, AddTeamMember(t, u, r, FALSE) PROVE RosterInv'
  BY <1>2, AddKeeps
<1>3. ASSUME NEW u \in UserIds, NEW r \in Roles, ChangeTeamMemberRole(t, u, r) PROVE RosterInv'
  <2> DEFINE facts == {Fact(u, Info(t, teams[t].name, r))}
  <2>1. facts \in SUBSET Facts /\ About(facts) = {u}
    BY <1>1, FactTypes DEF About
  <2>2. u \in Members(t) /\ Begin("roleChanged", t, u, r, teams[t].name, facts, FALSE)
    BY <1>3 DEF ChangeTeamMemberRole
  <2>3. \A c : /\ c.kind = "roleChanged" /\ c.team = t /\ c.user = u /\ c.role = r
               /\ c.name = teams[t].name /\ c.facts = facts
               => Sound(c)
    BY <2>2 DEF Sound
  <2> HIDE DEF facts
  <2>4. "roleChanged" \in Kinds /\ About(facts) \subseteq Known
    BY <2>1, <2>2, MembersAreSeated DEF Kinds
  <2>5. QED
    BY <1>1, <2>1, <2>2, <2>3, <2>4, BeginKeeps
<1>4. ASSUME NEW u \in UserIds, RemoveTeamMember(t, u) PROVE RosterInv'
  <2> DEFINE facts == {Leaving(u)}
  <2>1. facts \in SUBSET Facts /\ About(facts) = {u}
    BY FactTypes DEF About, Leaving
  <2>2. /\ u \in Members(t) /\ \E v \in Members(t) : v # u
        /\ Begin("removed", t, u, NoRole, teams[t].name, facts, FALSE)
    BY <1>4 DEF RemoveTeamMember
  <2>3. \A c : /\ c.kind = "removed" /\ c.team = t /\ c.user = u /\ c.role = NoRole
               /\ c.name = teams[t].name /\ c.facts = facts
               => Sound(c)
    BY <2>2 DEF Sound
  <2> HIDE DEF facts
  <2>4. "removed" \in Kinds /\ About(facts) \subseteq Known
    BY <2>1, <2>2, MembersAreSeated DEF Kinds
  <2>5. QED
    BY <1>1, <2>1, <2>2, <2>3, <2>4, BeginKeeps
<1>5. ASSUME NEW n \in Names, RenameTeam(t, n) PROVE RosterInv'
  <2> DEFINE facts == RenameFacts(t, n)
  <2>1. \A f \in facts : f \in Facts /\ f.user \in Known
    BY <1>1, MembersAreSeated, FactTypes DEF RenameFacts
  <2>2. Begin("renamed", t, Nobody, NoRole, n, facts, FALSE)
    BY <1>5 DEF RenameTeam
  <2>3. \A c : /\ c.kind = "renamed" /\ c.team = t /\ c.user = Nobody /\ c.role = NoRole
               /\ c.name = n /\ c.facts = facts
               => Sound(c)
    BY DEF Sound
  <2> HIDE DEF facts
  <2>4. "renamed" \in Kinds /\ About(facts) \subseteq Known /\ facts \in SUBSET Facts
    BY <2>1 DEF Kinds, About
  <2>5. QED
    BY <2>2, <2>3, <2>4, BeginKeeps
<1>6. QED
  BY <1>2, <1>3, <1>4, <1>5 DEF Command

-----------------------------------------------------------------------------
(***************************************************************************)
(* What a commit does: it renames the team, or it seats, unseats or        *)
(* changes one person.                                                     *)
(***************************************************************************)
Moves(c) ==
  \/ /\ c.kind = "added" /\ seat[c.user] = NoTeam /\ c.role \in Roles
     /\ seat' = [seat EXCEPT ![c.user] = c.team]
  \/ /\ c.kind = "removed" /\ seat[c.user] = c.team /\ c.role = NoRole
     /\ \E v \in UserIds : v # c.user /\ seat[v] = c.team
     /\ seat' = [seat EXCEPT ![c.user] = NoTeam]
  \/ /\ c.kind = "roleChanged" /\ seat[c.user] = c.team /\ c.role \in Roles
     /\ seat' = seat

LEMMA CommitEffect ==
  ASSUME RosterInv, NEW c \in calls, Commit(c)
  PROVE  /\ c.team \in Founded /\ Sound(c) /\ About(c.facts) \subseteq Known
         /\ Founded' = Founded /\ teams' \in [Founded -> Team]
         /\ teams'[c.team].version = teams[c.team].version + 1
         /\ \A s \in Founded : s # c.team => teams'[s] = teams[s]
         /\ \/ /\ c.kind = "renamed" /\ seat' = seat
               /\ teams'[c.team].roles = teams[c.team].roles
               /\ teams'[c.team].name = c.name
            \/ /\ c.kind # "renamed" /\ c.user \in UserIds
               /\ teams'[c.team].name = teams[c.team].name
               /\ teams'[c.team].roles = [teams[c.team].roles EXCEPT ![c.user] = c.role]
               /\ Moves(c)
<1> DEFINE t == c.team
           new == Folded(teams[t], c)
<1>1. /\ c \in Calls /\ t \in Founded /\ Sound(c) /\ About(c.facts) \subseteq Known
      /\ c.version = teams[t].version /\ c.version < MaxVersion
      /\ c.kind # "renamed" => c.user \in UserIds
  BY DEF RosterInv, TypeOK, CallsInv, CallInv, Commit, Appends
<1>2. teams[t] \in Team
  BY <1>1 DEF RosterInv, TypeOK
<1>6. teams[t].version + 1 \in 1 .. MaxVersion
  BY <1>1, <1>2, TeamsAssumption DEF Team
<1>3. CASE c.kind = "renamed"
  <2>1. /\ new \in Team /\ new.version = teams[t].version + 1
        /\ new.roles = teams[t].roles /\ new.name = c.name
    <3>1. new = [teams[t] EXCEPT !.name = c.name, !.past = teams[t].past \cup {c.name},
                                 !.version = teams[t].version + 1]
      BY <1>3 DEF Folded
    <3>2. c.name \in Names /\ teams[t].past \cup {c.name} \in SUBSET Names
      BY <1>1, <1>2 DEF Team, Calls
    <3> HIDE DEF new
    <3>3. QED
      BY <1>2, <1>6, <3>1, <3>2 DEF Team
  <2>2. teams' = [teams EXCEPT ![t] = new] /\ seat' = seat
    BY <1>3 DEF Commit, SeatsAfter
  <2> HIDE DEF new
  <2>3. QED
    BY <1>1, <1>3, <2>1, <2>2 DEF RosterInv, TypeOK, Founded
<1>4. CASE c.kind # "renamed"
  <2>1. /\ new \in Team /\ new.version = teams[t].version + 1
        /\ new.roles = [teams[t].roles EXCEPT ![c.user] = c.role] /\ new.name = teams[t].name
    <3>1. [teams[t].roles EXCEPT ![c.user] = c.role] \in [UserIds -> Roles \cup {NoRole}]
      BY <1>1, <1>2 DEF Team, Calls
    <3>2. new = [teams[t] EXCEPT !.roles = [teams[t].roles EXCEPT ![c.user] = c.role],
                                 !.version = teams[t].version + 1]
      BY <1>4, <1>2 DEF Folded, Team
    <3> HIDE DEF new
    <3>3. QED
      BY <1>2, <1>6, <3>1, <3>2 DEF Team
  <2>2. teams' = [teams EXCEPT ![t] = new] /\ Reserves(c) /\ seat' = SeatsAfter(c)
    BY DEF Commit
  <2>3. \A v \in Members(t) : v \in UserIds /\ seat[v] = t
    BY <1>1, MembersAreSeated
  <2>4. Moves(c)
    <3>1. CASE c.kind = "added"
      BY <1>1, <2>2, <3>1 DEF Moves, Sound, Reserves, SeatsAfter
    <3>2. CASE c.kind = "removed"
      BY <1>1, <2>2, <2>3, <3>2 DEF Moves, Sound, SeatsAfter
    <3>3. CASE c.kind = "roleChanged"
      BY <1>1, <2>2, <2>3, <3>3 DEF Moves, Sound, SeatsAfter
    <3>4. QED
      BY <1>1, <1>4, <3>1, <3>2, <3>3 DEF Calls, Kinds
  <2> HIDE DEF new
  <2>5. QED
    BY <1>1, <1>4, <2>1, <2>2, <2>4 DEF RosterInv, TypeOK, Founded
<1>5. QED
  BY <1>3, <1>4

-----------------------------------------------------------------------------
\* The calls on a team that changed can no longer commit; the others see nothing.
LEMMA CommitKeepsCalls ==
  ASSUME RosterInv, NEW c \in calls, Commit(c)
  PROVE  CallsInv'
<1>1. /\ c.team \in Founded /\ Founded' = Founded /\ teams'[c.team].version = teams[c.team].version + 1
      /\ \A s \in Founded : s # c.team => teams'[s] = teams[s]
  BY CommitEffect
<1>2. calls' \subseteq calls /\ Known' = Known
  BY DEF Commit, Known
<1>3. ASSUME NEW d \in calls PROVE CallInv(d)'
  <2>1. d.team \in Founded /\ CallInv(d)
    BY DEF RosterInv, CallsInv, CallInv
  <2>2. d \in Calls /\ teams[d.team] \in Team
    BY <2>1 DEF RosterInv, TypeOK
  <2>3. d.version \in Nat /\ teams[d.team].version \in Nat
    BY <2>2, TeamsAssumption DEF Calls, Team
  <2>4. CASE d.team = c.team
    <3>1. d.version < teams'[d.team].version
      BY <1>1, <2>1, <2>3, <2>4 DEF CallInv
    <3>2. ~Appends(d)'
      BY <1>1, <2>3, <2>4, <3>1 DEF Appends
    <3>3. QED
      BY <1>1, <1>2, <2>1, <2>3, <2>4, <3>1, <3>2 DEF CallInv
  <2>5. CASE d.team # c.team
    <3>1. teams'[d.team] = teams[d.team]
      BY <1>1, <2>1, <2>5
    <3>2. Sound(d)' <=> Sound(d)
      BY <3>1 DEF Sound, Members, RenameFacts
    <3>3. QED
      BY <1>1, <1>2, <2>1, <3>1, <3>2 DEF CallInv, Appends
  <2>6. QED
    BY <2>4, <2>5
<1>4. QED
  BY <1>2, <1>3 DEF CallsInv

LEMMA CommitKeeps ==
  ASSUME RosterInv, NEW c \in calls, Commit(c)
  PROVE  RosterInv'
<1>1. /\ c.team \in Founded /\ Sound(c) /\ About(c.facts) \subseteq Known
      /\ Founded' = Founded /\ teams' \in [Founded -> Team]
      /\ \A s \in Founded : s # c.team => teams'[s] = teams[s]
  BY CommitEffect
<1>2. \/ /\ seat' = seat /\ teams'[c.team].roles = teams[c.team].roles
      \/ /\ c.user \in UserIds
         /\ teams'[c.team].roles = [teams[c.team].roles EXCEPT ![c.user] = c.role]
         /\ Moves(c)
  BY CommitEffect
<1>3. /\ calls' \subseteq calls /\ requests' \subseteq requests /\ Known' = Known
      /\ users' = users /\ newest' = newest /\ late' = late /\ lost' = lost
      /\ Tell(c.facts)
  BY DEF Commit, Known
<1>4. teams[c.team].roles \in [UserIds -> Roles \cup {NoRole}] /\ seat \in [UserIds -> Founded \cup {NoTeam}]
  BY <1>1 DEF RosterInv, TypeOK, Team
<1>5. NoTeam \notin Founded /\ NoRole \notin Roles
  BY TeamsAssumption DEF RosterInv, TypeOK
<1>6. seat' \in [UserIds -> Founded \cup {NoTeam}]
  BY <1>1, <1>2, <1>4 DEF Moves
<1>7. TypeOK'
  <2>1. c.facts \in SUBSET Facts
    BY DEF RosterInv, TypeOK, Calls
  <2>2. notices' \subseteq Notices /\ told' \in [UserIds -> Nat]
    BY <1>3, <2>1, TellTypes DEF RosterInv
  <2>3. QED
    BY <1>1, <1>3, <1>6, <2>2 DEF RosterInv, TypeOK
<1>8. RosterMatchesSeats'
  <2> SUFFICES ASSUME NEW u \in UserIds, NEW t \in Founded
               PROVE  teams'[t].roles[u] # NoRole <=> seat'[u] = t
    BY <1>1 DEF RosterMatchesSeats, Members
  <2>1. teams[t].roles[u] # NoRole <=> seat[u] = t
    BY DEF RosterInv, RosterMatchesSeats, Members
  <2>2. CASE seat' = seat /\ teams'[c.team].roles = teams[c.team].roles
    BY <1>1, <2>1, <2>2
  <2>3. CASE /\ c.user \in UserIds /\ Moves(c)
             /\ teams'[c.team].roles = [teams[c.team].roles EXCEPT ![c.user] = c.role]
    <3>1. CASE u # c.user
      BY <1>1, <1>4, <2>1, <2>3, <3>1 DEF Moves
    <3>2. CASE u = c.user /\ t = c.team
      BY <1>1, <1>4, <1>5, <2>1, <2>3, <3>2 DEF Moves
    <3>3. CASE u = c.user /\ t # c.team
      BY <1>1, <1>4, <1>5, <2>1, <2>3, <3>3 DEF Moves
    <3>4. QED
      BY <3>1, <3>2, <3>3
  <2>4. QED
    BY <1>2, <2>2, <2>3
<1>9. SeatedAreKnown'
  <2>1. c.kind = "added" => c.user \in Known
    BY <1>1, AboutOne DEF Sound
  <2>2. QED
    BY <1>2, <1>3, <1>4, <1>5, <2>1 DEF RosterInv, SeatedAreKnown, Moves
<1>10. RequestsAreKnown'
  BY <1>1, <1>3 DEF RosterInv, RequestsAreKnown
<1>11. QED
  BY <1>7, <1>8, <1>9, <1>10, CommitKeepsCalls DEF RosterInv

\* A step that leaves the teams alone leaves what was checked about them.
LEMMA RosterUntouched ==
  ASSUME RosterInv, TypeOK', UNCHANGED <<teams, seat>>, calls' \subseteq calls,
         Known \subseteq Known', RequestsAreKnown'
  PROVE  RosterInv'
<1>1. Founded' = Founded
  BY DEF Founded
<1>2. CallsInv'
  BY <1>1 DEF RosterInv, CallsInv, CallInv, Sound, Appends, Members, RenameFacts
<1>3. RosterMatchesSeats' /\ SeatedAreKnown'
  BY <1>1 DEF RosterInv, RosterMatchesSeats, SeatedAreKnown, Members
<1>4. QED
  BY <1>2, <1>3 DEF RosterInv

\* A new team takes people who were on none, and nobody had called on it.
LEMMA CreateTeamKeeps ==
  ASSUME RosterInv, NEW t \in TeamIds, NEW n \in Names, NEW roster \in Rosters, CreateTeam(t, n, roster)
  PROVE  RosterInv'
<1> DEFINE new == [name |-> n, version |-> 1, past |-> {n},
                   roles |-> [u \in UserIds |-> IF u \in DOMAIN roster THEN roster[u] ELSE NoRole]]
           facts == {Fact(u, Info(t, n, roster[u])) : u \in DOMAIN roster}
<1>1. DOMAIN roster \subseteq Known /\ \A u \in DOMAIN roster : roster[u] \in Roles
  BY DEF Rosters
<1>2. Known \subseteq UserIds /\ Founded \subseteq TeamIds
  BY DEF RosterInv, TypeOK
<1>3. /\ t \notin Founded /\ \A u \in DOMAIN roster : seat[u] = NoTeam
      /\ teams' = [s \in Founded \cup {t} |-> IF s = t THEN new ELSE teams[s]]
      /\ seat' = [u \in UserIds |-> IF u \in DOMAIN roster THEN t ELSE seat[u]]
      /\ Tell(facts)
      /\ UNCHANGED <<users, calls, requests, newest, late, lost>>
  BY DEF CreateTeam
<1>4. facts \in SUBSET Facts
  BY <1>1, <1>2, FactTypes
<1>5. new.roles \in [UserIds -> Roles \cup {NoRole}]
      /\ \A u \in UserIds : new.roles[u] # NoRole <=> u \in DOMAIN roster
  BY <1>1, TeamsAssumption
<1>6. new \in Team
  <2>1. 1 \in 1 .. MaxVersion
    BY TeamsAssumption
  <2>2. QED
    BY <1>5, <2>1 DEF Team
<1> HIDE DEF new, facts
<1>7. Founded' = Founded \cup {t} /\ Known' = Known
      /\ teams'[t] = new /\ \A s \in Founded : teams'[s] = teams[s]
  BY <1>3 DEF Founded, Known
<1>8. TypeOK'
  <2>1. notices' \subseteq Notices /\ told' \in [UserIds -> Nat]
    BY <1>3, <1>4, TellTypes DEF RosterInv
  <2>2. QED
    BY <1>2, <1>3, <1>6, <1>7, <2>1 DEF RosterInv, TypeOK
<1>9. CallsInv'
  <2>1. ASSUME NEW c \in calls PROVE CallInv(c)'
    <3>1. c.team \in Founded /\ CallInv(c)
      BY DEF RosterInv, CallsInv, CallInv
    <3>2. teams'[c.team] = teams[c.team]
      BY <1>7, <3>1
    <3>3. Sound(c)' <=> Sound(c)
      BY <3>2 DEF Sound, Members, RenameFacts
    <3>4. QED
      BY <1>7, <3>1, <3>2, <3>3 DEF CallInv, Appends
  <2>2. QED
    BY <1>3, <2>1 DEF CallsInv
<1>10. RosterMatchesSeats'
  <2> SUFFICES ASSUME NEW u \in UserIds, NEW s \in Founded \cup {t}
               PROVE  teams'[s].roles[u] # NoRole <=> seat'[u] = s
    BY <1>7 DEF RosterMatchesSeats, Members
  <2>1. s \in Founded => (teams[s].roles[u] # NoRole <=> seat[u] = s)
    BY DEF RosterInv, RosterMatchesSeats, Members
  <2>2. seat[u] # t
    BY <1>3, TeamsAssumption DEF RosterInv, TypeOK
  <2>3. NoTeam \notin TeamIds
    BY TeamsAssumption
  <2>4. CASE s = t
    BY <1>3, <1>5, <1>7, <2>2, <2>4
  <2>5. CASE s # t
    BY <1>2, <1>3, <1>7, <2>1, <2>3, <2>5
  <2>6. QED
    BY <2>4, <2>5
<1>11. SeatedAreKnown' /\ RequestsAreKnown'
  BY <1>1, <1>3, <1>7 DEF RosterInv, SeatedAreKnown, RequestsAreKnown
<1>12. QED
  BY <1>8, <1>9, <1>10, <1>11 DEF RosterInv

LEMMA MessagesKeep ==
  RosterInv =>
    /\ \A q \in requests : HandleRequest(q) \/ RefuseRequest(q) => RosterInv'
    /\ \A n \in notices : HandleNotice(n) \/ GiveUpNotice(n) => RosterInv'
<1>1. ASSUME RosterInv, NEW q \in requests, HandleRequest(q) PROVE RosterInv'
  <2>1. q.team \in Founded /\ q.user \in UserIds /\ q.role \in Roles /\ TRUE \in BOOLEAN
    BY <1>1 DEF RosterInv, RequestsAreKnown, TypeOK, Requests
  <2>2. AddTeamMember(q.team, q.user, q.role, TRUE)
    BY <1>1 DEF HandleRequest
  <2>3. QED
    BY <1>1, <2>1, <2>2, AddKeeps
<1>2. ASSUME RosterInv, NEW q \in requests, RefuseRequest(q) PROVE RosterInv'
  <2>1. Founded' = Founded /\ Known' = Known
    BY <1>2 DEF RefuseRequest, Founded, Known
  <2>2. TypeOK' /\ RequestsAreKnown'
    BY <1>2, <2>1 DEF RefuseRequest, RosterInv, TypeOK, RequestsAreKnown, history
  <2>3. QED
    BY <1>2, <2>1, <2>2, RosterUntouched DEF RefuseRequest
<1>3. ASSUME RosterInv, NEW n \in notices, HandleNotice(n) PROVE RosterInv'
  <2>1. n \in Notices
    BY <1>3 DEF RosterInv, TypeOK
  <2>2. n.user \in Known /\ n.info \in Infos /\ n.number \in Nat
    BY <1>3, <2>1 DEF HandleNotice, Notices
  <2>3. Founded' = Founded /\ Known' = Known
    BY <1>3 DEF HandleNotice, Founded, Known
  <2>4. newest' \in [UserIds -> Nat] /\ late' \subseteq UserIds
    BY <1>3, <2>2 DEF HandleNotice, RosterInv, TypeOK
  <2>5. users' \in [Known -> Infos]
    BY <1>3, <2>2 DEF HandleNotice, RosterInv, TypeOK
  <2>6. TypeOK' /\ RequestsAreKnown'
    BY <1>3, <2>3, <2>4, <2>5 DEF HandleNotice, RosterInv, TypeOK, RequestsAreKnown
  <2>7. QED
    BY <1>3, <2>3, <2>6, RosterUntouched DEF HandleNotice
<1>4. ASSUME RosterInv, NEW n \in notices, GiveUpNotice(n) PROVE RosterInv'
  <2>1. Founded' = Founded /\ Known' = Known /\ n.user \in UserIds
    BY <1>4 DEF GiveUpNotice, Founded, Known, RosterInv, TypeOK, Notices
  <2>2. TypeOK' /\ RequestsAreKnown'
    BY <1>4, <2>1 DEF GiveUpNotice, RosterInv, TypeOK, RequestsAreKnown, history
  <2>3. QED
    BY <1>4, <2>1, <2>2, RosterUntouched DEF GiveUpNotice
<1>5. QED
  BY <1>1, <1>2, <1>3, <1>4

LEMMA CreateKeeps ==
  ASSUME RosterInv, Create
  PROVE  RosterInv'
<1>1. ASSUME NEW u \in UserIds, CreateUser(u) PROVE RosterInv'
  <2>1. Founded' = Founded /\ Known' = Known \cup {u} /\ users' \in [Known \cup {u} -> Infos]
    BY <1>1 DEF CreateUser, Founded, Known, RosterInv, TypeOK, Infos
  <2>2. TypeOK' /\ RequestsAreKnown'
    BY <1>1, <2>1 DEF CreateUser, RosterInv, TypeOK, RequestsAreKnown, history
  <2>3. QED
    BY <1>1, <2>1, <2>2, RosterUntouched DEF CreateUser
<1>2. ASSUME NEW u \in UserIds, NEW t \in Founded, NEW r \in Roles, CreateUserOnTeam(u, t, r)
      PROVE  RosterInv'
  <2>1. PICK n \in teams[t].past :
           users' = [v \in Known \cup {u} |-> IF v = u THEN Info(t, n, r) ELSE users[v]]
    BY <1>2 DEF CreateUserOnTeam
  <2>2. t \in TeamIds /\ n \in Names
    BY DEF RosterInv, TypeOK, Team
  <2>3. Info(t, n, r) \in Infos
    BY <2>2 DEF Info, Infos
  <2>4. Founded' = Founded /\ Known' = Known \cup {u} /\ users' \in [Known \cup {u} -> Infos]
    BY <1>2, <2>1, <2>3 DEF CreateUserOnTeam, Founded, Known, RosterInv, TypeOK
  <2>5. requests' = requests \cup {[user |-> u, team |-> t, role |-> r]}
    BY <1>2 DEF CreateUserOnTeam
  <2>6. TypeOK' /\ RequestsAreKnown'
    BY <1>2, <2>2, <2>4, <2>5 DEF CreateUserOnTeam, RosterInv, TypeOK, RequestsAreKnown, Requests, history
  <2>7. QED
    BY <1>2, <2>4, <2>6, RosterUntouched DEF CreateUserOnTeam
<1>3. QED
  BY <1>1, <1>2, CreateTeamKeeps DEF Create

LEMMA AbandonKeeps ==
  ASSUME RosterInv, NEW c \in calls, Abandon(c)
  PROVE  RosterInv'
<1>1. Founded' = Founded /\ Known' = Known
  BY DEF Abandon, Founded, Known
<1>2. requests' \subseteq requests /\ lost' \subseteq UserIds
  BY DEF Abandon, RosterInv, TypeOK, RequestOf, Requests
<1>3. TypeOK' /\ RequestsAreKnown'
  BY <1>1, <1>2 DEF Abandon, RosterInv, TypeOK, RequestsAreKnown, history
<1>4. QED
  BY <1>1, <1>3, RosterUntouched DEF Abandon

LEMMA NextRoster == RosterInv /\ [Next]_vars => RosterInv'
<1> SUFFICES ASSUME RosterInv, [Next]_vars PROVE RosterInv'
  OBVIOUS
<1>1. CASE UNCHANGED vars
  <2>1. Founded' = Founded /\ Known' = Known
    BY <1>1 DEF vars, Founded, Known
  <2>2. TypeOK' /\ RequestsAreKnown'
    BY <1>1, <2>1 DEF vars, history, RosterInv, TypeOK, RequestsAreKnown
  <2>3. QED
    BY <1>1, <2>1, <2>2, RosterUntouched DEF vars
<1>2. CASE Create
  BY <1>2, CreateKeeps
<1>3. ASSUME NEW t \in Founded, Command(t) PROVE RosterInv'
  BY <1>3, CommandKeeps
<1>4. ASSUME NEW c \in calls, Commit(c) \/ Abandon(c) PROVE RosterInv'
  BY <1>4, CommitKeeps, AbandonKeeps
<1>5. QED
  BY <1>1, <1>2, <1>3, <1>4, MessagesKeep DEF Next

THEOREM RosterInvariant == Spec => []RosterInv
BY InitRoster, NextRoster, PTL DEF Spec

\* The state of the module keeps its type (Teams and Identity documents).
THEOREM TypeCorrect == Spec => []TypeOK
<1>1. RosterInv => TypeOK
  BY DEF RosterInv
<1>2. QED
  BY <1>1, RosterInvariant, PTL

\* Seats and rosters agree, for any number of commands at once: one team a person.
THEOREM OneSeatEach == Spec => []RosterMatchesSeats
<1>1. RosterInv => RosterMatchesSeats
  BY DEF RosterInv
<1>2. QED
  BY <1>1, RosterInvariant, PTL

-----------------------------------------------------------------------------
(***************************************************************************)
(* The teams implement Membership: a commit joins, leaves or is not seen,  *)
(* a creation founds a team, and nothing else is seen at all.              *)
(***************************************************************************)
LEMMA CommitMaps ==
  ASSUME RosterInv, NEW c \in calls, Commit(c)
  PROVE  [Promise!Next]_(Promise!view)
<1>1. c.team \in Founded /\ Founded' = Founded
  BY CommitEffect
<1>2. seat' = seat \/ (c.user \in UserIds /\ Moves(c))
  BY CommitEffect
<1>3. c.team \in TeamIds
  BY <1>1 DEF RosterInv, TypeOK
<1>4. CASE seat' = seat
  BY <1>1, <1>4 DEF Promise!view
<1>5. CASE c.user \in UserIds /\ seat[c.user] = NoTeam /\ seat' = [seat EXCEPT ![c.user] = c.team]
  <2>1. Promise!Join(c.user, c.team)
    BY <1>1, <1>5 DEF Promise!Join
  <2>2. QED
    BY <1>3, <1>5, <2>1 DEF Promise!Next
<1>6. CASE /\ c.user \in UserIds /\ seat[c.user] = c.team
           /\ \E v \in UserIds : v # c.user /\ seat[v] = c.team
           /\ seat' = [seat EXCEPT ![c.user] = NoTeam]
  <2>1. Promise!Leave(c.user)
    BY <1>1, <1>6 DEF Promise!Leave
  <2>2. QED
    BY <1>6, <2>1 DEF Promise!Next
<1>7. QED
  BY <1>2, <1>4, <1>5, <1>6 DEF Moves

LEMMA CreateMaps ==
  ASSUME RosterInv, Create
  PROVE  [Promise!Next]_(Promise!view)
<1>1. ASSUME NEW t \in TeamIds, NEW n \in Names, NEW roster \in Rosters, CreateTeam(t, n, roster)
      PROVE  Promise!Next
  <2> DEFINE people == DOMAIN roster
  <2>1. people \in SUBSET UserIds
    BY DEF Rosters, RosterInv, TypeOK
  <2>2. Founded' = Founded \cup {t}
    BY <1>1 DEF CreateTeam, Founded
  <2>3. Promise!Found(t, people)
    BY <1>1, <2>2 DEF CreateTeam, Promise!Found
  <2>4. QED
    BY <2>1, <2>3 DEF Promise!Next
<1>2. ASSUME UNCHANGED <<teams, seat>> PROVE UNCHANGED Promise!view
  BY <1>2 DEF Promise!view, Founded
<1>3. QED
  BY <1>1, <1>2 DEF Create, CreateUser, CreateUserOnTeam

LEMMA NextMaps == RosterInv /\ [Next]_vars => [Promise!Next]_(Promise!view)
<1> SUFFICES ASSUME RosterInv, [Next]_vars PROVE [Promise!Next]_(Promise!view)
  OBVIOUS
<1>1. ASSUME UNCHANGED <<teams, seat>> PROVE UNCHANGED Promise!view
  BY <1>1 DEF Promise!view, Founded
<1>2. ASSUME NEW t \in Founded, Command(t) PROVE UNCHANGED <<teams, seat>>
  BY <1>2 DEF Command, AddTeamMember, ChangeTeamMemberRole, RemoveTeamMember, RenameTeam, Begin
<1>3. ASSUME NEW c \in calls, Abandon(c) PROVE UNCHANGED <<teams, seat>>
  BY <1>3 DEF Abandon
<1>4. ASSUME NEW q \in requests, HandleRequest(q) \/ RefuseRequest(q) PROVE UNCHANGED <<teams, seat>>
  BY <1>4 DEF HandleRequest, RefuseRequest, AddTeamMember, Begin
<1>5. ASSUME NEW n \in notices, HandleNotice(n) \/ GiveUpNotice(n) PROVE UNCHANGED <<teams, seat>>
  BY <1>5 DEF HandleNotice, GiveUpNotice
<1>6. UNCHANGED vars => UNCHANGED <<teams, seat>>
  BY DEF vars
<1>7. QED
  BY <1>1, <1>2, <1>3, <1>4, <1>5, <1>6, CreateMaps, CommitMaps DEF Next

\* Every behaviour of the teams is one Membership allows (RemoveTeamMemberHandler.LastMemberMessage).
THEOREM Implements == Spec => ImplementsMembership
<1>1. Init => Promise!Init
  BY DEF Init, Promise!Init, Founded
<1>2. QED
  BY <1>1, NextMaps, RosterInvariant, PTL DEF Spec, ImplementsMembership, Promise!Spec

-----------------------------------------------------------------------------
(***************************************************************************)
(* Identity's copy: the last notice about a person says where they stand,  *)
(* and unless somebody gave up, it is on its way or was applied.           *)
(***************************************************************************)
NoticesAreTrue ==
  \A n \in notices :
    /\ n.number \in 1 .. told[n.user]
    /\ n.number = told[n.user] => n.info = Standing(n.user)

LatestArrives ==
  \A u \in UserIds :
    /\ newest[u] <= told[u]
    /\ \/ u \in lost \/ newest[u] = told[u]
       \/ \E n \in notices : n.user = u /\ n.number = told[u]

AppliedIsTrue ==
  \A u \in Known :
    newest[u] = told[u] /\ told[u] # 0 /\ u \notin late => users[u] = Standing(u)

UntoldAreNowhere ==
  \A u \in UserIds : told[u] = 0 =>
    /\ seat[u] = NoTeam
    /\ u \in Known => users[u] = NoInfo \/ u \in About(requests) \cup lost

ToldAreKnown == \A u \in UserIds : u \notin Known => told[u] = 0

CopyInv == NoticesAreTrue /\ LatestArrives /\ AppliedIsTrue /\ UntoldAreNowhere /\ ToldAreKnown

LEMMA InitCopy == Init => CopyInv
BY DEF Init, CopyInv, NoticesAreTrue, LatestArrives, AppliedIsTrue, UntoldAreNowhere, ToldAreKnown, Known

\* Where nothing about a person changed, they stand where they stood.
LEMMA StandingUntouched ==
  ASSUME UNCHANGED <<teams, seat>>, NEW u
  PROVE  Standing(u)' = Standing(u)
BY DEF Standing

\* What a commit tells is true once it is done, and it tells whoever it is about.
LEMMA CommitStanding ==
  ASSUME RosterInv, NEW c \in calls, Commit(c)
  PROVE  /\ \A f \in c.facts : f.info = Standing(f.user)'
         /\ \A u \in UserIds \ About(c.facts) :
              Standing(u)' = Standing(u) /\ (seat[u] = NoTeam => seat'[u] = NoTeam)
<1> DEFINE t == c.team
<1>1. /\ t \in Founded /\ Sound(c) /\ \A s \in Founded : s # t => teams'[s] = teams[s]
  BY CommitEffect
<1>2. /\ seat \in [UserIds -> Founded \cup {NoTeam}] /\ NoTeam \notin Founded
      /\ teams[t].roles \in [UserIds -> Roles \cup {NoRole}]
  BY <1>1, TeamsAssumption DEF RosterInv, TypeOK, Team
<1>3. CASE /\ c.kind = "renamed" /\ seat' = seat
           /\ teams'[t].roles = teams[t].roles /\ teams'[t].name = c.name
  <2>1. c.facts = {Fact(u, Info(t, c.name, teams[t].roles[u])) : u \in Members(t)}
    BY <1>1, <1>3 DEF Sound, RenameFacts
  <2>2. \A u \in Members(t) : Standing(u)' = Info(t, c.name, teams[t].roles[u])
    BY <1>1, <1>2, <1>3, MembersAreSeated DEF Standing
  <2>3. \A f \in c.facts : f.info = Standing(f.user)'
    BY <2>1, <2>2 DEF Fact
  <2>4. About(c.facts) = Members(t)
    <3>1. \A f \in c.facts : f.user \in Members(t)
      BY <2>1, FactTypes
    <3>2. \A u \in Members(t) : \E f \in c.facts : f.user = u
      BY <2>1, FactTypes
    <3>3. QED
      BY <3>1, <3>2 DEF About
  <2>5. ASSUME NEW u \in UserIds \ Members(t) PROVE Standing(u)' = Standing(u)
    <3>1. seat[u] # t
      BY <1>1, <2>5 DEF RosterInv, RosterMatchesSeats
    <3>2. QED
      BY <1>1, <1>2, <1>3, <3>1 DEF Standing
  <2>6. QED
    BY <1>3, <2>3, <2>4, <2>5
<1>4. CASE /\ c.kind # "renamed" /\ c.user \in UserIds
           /\ teams'[t].name = teams[t].name
           /\ teams'[t].roles = [teams[t].roles EXCEPT ![c.user] = c.role]
           /\ Moves(c)
  <2>1. \E info : c.facts = {Fact(c.user, info)} /\ info = Standing(c.user)'
    <3>1. CASE c.kind = "removed"
      <4>1. seat'[c.user] = NoTeam
        BY <1>2, <1>4, <3>1 DEF Moves
      <4>2. QED
        BY <1>1, <3>1, <4>1 DEF Sound, Leaving, Standing
    <3>2. CASE c.kind # "removed"
      <4>1. seat'[c.user] = t /\ teams'[t].roles[c.user] = c.role /\ t # NoTeam
        BY <1>1, <1>2, <1>4, <3>2 DEF Moves
      <4>2. Standing(c.user)' = Info(t, teams[t].name, c.role)
        BY <1>4, <4>1 DEF Standing
      <4>3. QED
        BY <1>1, <1>4, <3>2, <4>2 DEF Sound, Moves
    <3>3. QED
      BY <3>1, <3>2
  <2>2. About(c.facts) = {c.user} /\ \A f \in c.facts : f.info = Standing(f.user)'
    BY <2>1, AboutOne, FactTypes
  <2>3. ASSUME NEW u \in UserIds \ {c.user} PROVE seat'[u] = seat[u] /\ Standing(u)' = Standing(u)
    <3>1. seat'[u] = seat[u]
      BY <1>2, <1>4, <2>3 DEF Moves
    <3>2. teams'[t].roles[u] = teams[t].roles[u]
      BY <1>2, <1>4, <2>3
    <3>3. QED
      BY <1>1, <1>2, <1>4, <3>1, <3>2 DEF Standing
  <2>4. QED
    BY <2>2, <2>3
<1>5. QED
  BY <1>3, <1>4, CommitEffect

LEMMA CreateTeamStanding ==
  ASSUME RosterInv, NEW t \in TeamIds, NEW n \in Names, NEW roster \in Rosters, CreateTeam(t, n, roster),
         NEW facts, facts = {Fact(u, Info(t, n, roster[u])) : u \in DOMAIN roster}
  PROVE  /\ About(facts) = DOMAIN roster
         /\ \A f \in facts : f.info = Standing(f.user)'
         /\ \A u \in UserIds \ About(facts) :
              Standing(u)' = Standing(u) /\ (seat[u] = NoTeam => seat'[u] = NoTeam)
<1>1. About(facts) = DOMAIN roster
  <2>1. \A f \in facts : f.user \in DOMAIN roster
    BY FactTypes
  <2>2. \A u \in DOMAIN roster : \E f \in facts : f.user = u
    BY FactTypes
  <2>3. QED
    BY <2>1, <2>2 DEF About
<1>2. DOMAIN roster \subseteq UserIds /\ NoTeam \notin TeamIds
  BY TeamsAssumption DEF Rosters, RosterInv, TypeOK
<1>3. /\ seat' = [u \in UserIds |-> IF u \in DOMAIN roster THEN t ELSE seat[u]]
      /\ teams'[t].name = n
      /\ teams'[t].roles = [u \in UserIds |-> IF u \in DOMAIN roster THEN roster[u] ELSE NoRole]
      /\ \A s \in Founded : teams'[s] = teams[s]
  BY DEF CreateTeam
<1>4. \A u \in DOMAIN roster : Standing(u)' = Info(t, n, roster[u])
  BY <1>2, <1>3 DEF Standing
<1>5. ASSUME NEW u \in UserIds \ DOMAIN roster PROVE Standing(u)' = Standing(u) /\ seat'[u] = seat[u]
  <2>1. seat'[u] = seat[u] /\ seat[u] \in Founded \cup {NoTeam}
    BY <1>3, <1>5 DEF RosterInv, TypeOK
  <2>2. QED
    BY <1>3, <2>1 DEF Standing
<1>6. \A f \in facts : f.info = Standing(f.user)'
  BY <1>4 DEF Fact
<1>7. QED
  BY <1>1, <1>5, <1>6

-----------------------------------------------------------------------------
\* Telling the truth about whoever moved keeps the copy's history in order.
LEMMA TellKeepsCopy ==
  ASSUME TypeOK, TypeOK', CopyInv, NEW facts \in SUBSET Facts, Tell(facts),
         About(facts) \subseteq Known, UNCHANGED <<users, newest, late, lost>>,
         \A f \in facts : f.info = Standing(f.user)',
         \A u \in UserIds \ About(facts) :
           /\ Standing(u)' = Standing(u) /\ (seat[u] = NoTeam => seat'[u] = NoTeam)
           /\ u \in About(requests) => u \in About(requests')
  PROVE  CopyInv'
<1>1. /\ notices' = notices \cup Numbered(facts)
      /\ \A u \in UserIds : told[u] \in Nat /\ newest[u] \in Nat
      /\ \A u \in About(facts) : u \in UserIds /\ told'[u] = told[u] + 1
      /\ \A u \in UserIds \ About(facts) : told'[u] = told[u]
      /\ Known' = Known /\ Known \subseteq UserIds
  BY DEF Tell, TypeOK, Known
<1>2. \A f \in facts : f.user \in About(facts)
  BY DEF About
<1>3. ASSUME NEW n \in Numbered(facts)
      PROVE  n.user \in About(facts) /\ n.number = told[n.user] + 1 /\ n.info = Standing(n.user)'
  BY <1>2, <1>3 DEF Numbered
<1>4. \A u \in About(facts) : \E n \in Numbered(facts) : n.user = u
  <2>1. ASSUME NEW f \in facts PROVE \E n \in Numbered(facts) : n.user = f.user
    <3> DEFINE n == [user |-> f.user, info |-> f.info, number |-> told[f.user] + 1]
    <3>1. n \in Numbered(facts)
      BY DEF Numbered
    <3>2. n.user = f.user
      OBVIOUS
    <3> HIDE DEF n
    <3>3. QED
      BY <3>1, <3>2
  <2>2. \A u \in About(facts) : \E f \in facts : f.user = u
    BY DEF About
  <2>3. QED
    BY <2>1, <2>2
<1>5. NoticesAreTrue'
  <2> SUFFICES ASSUME NEW n \in notices'
               PROVE  /\ n.number \in 1 .. told'[n.user]
                      /\ n.number = told'[n.user] => n.info = Standing(n.user)'
    BY DEF NoticesAreTrue
  <2>1. CASE n \in Numbered(facts)
    BY <1>1, <1>3, <2>1
  <2>2. CASE n \in notices
    <3>1. n.user \in UserIds /\ n.number \in 1 .. told[n.user]
          /\ (n.number = told[n.user] => n.info = Standing(n.user))
      BY <2>2 DEF CopyInv, NoticesAreTrue, TypeOK, Notices
    <3>2. QED
      BY <1>1, <3>1
  <2>3. QED
    BY <1>1, <2>1, <2>2
<1>6. LatestArrives'
  <2> SUFFICES ASSUME NEW u \in UserIds
               PROVE  /\ newest[u] <= told'[u]
                      /\ \/ u \in lost \/ newest[u] = told'[u]
                         \/ \E n \in notices' : n.user = u /\ n.number = told'[u]
    BY DEF LatestArrives
  <2>1. newest[u] <= told[u]
    BY DEF CopyInv, LatestArrives
  <2>2. CASE u \in About(facts)
    BY <1>1, <1>3, <1>4, <2>1, <2>2
  <2>3. CASE u \notin About(facts)
    BY <1>1, <2>3 DEF CopyInv, LatestArrives
  <2>4. QED
    BY <2>2, <2>3
<1>7. AppliedIsTrue'
  <2> SUFFICES ASSUME NEW u \in Known, newest[u] = told'[u], told'[u] # 0, u \notin late
               PROVE  users[u] = Standing(u)'
    BY <1>1 DEF AppliedIsTrue
  <2>1. newest[u] <= told[u] /\ u \in UserIds
    BY <1>1 DEF CopyInv, LatestArrives
  <2>2. u \notin About(facts)
    BY <1>1, <2>1
  <2>3. QED
    BY <1>1, <2>1, <2>2 DEF CopyInv, AppliedIsTrue
<1>8. UntoldAreNowhere'
  <2> SUFFICES ASSUME NEW u \in UserIds, told'[u] = 0
               PROVE  /\ seat'[u] = NoTeam
                      /\ u \in Known => users[u] = NoInfo \/ u \in About(requests') \cup lost
    BY <1>1 DEF UntoldAreNowhere, About
  <2>1. u \notin About(facts)
    BY <1>1
  <2>2. QED
    BY <1>1, <2>1 DEF CopyInv, UntoldAreNowhere
<1>9. ToldAreKnown'
  BY <1>1 DEF CopyInv, ToldAreKnown
<1>10. QED
  BY <1>5, <1>6, <1>7, <1>8, <1>9 DEF CopyInv

LEMMA CommitKeepsCopy ==
  ASSUME RosterInv, CopyInv, NEW c \in calls, Commit(c)
  PROVE  CopyInv'
<1>1. /\ c.facts \in SUBSET Facts /\ CallInv(c) /\ Appends(c) /\ Tell(c.facts)
      /\ UNCHANGED <<users, newest, late, lost>>
  BY DEF RosterInv, TypeOK, Calls, CallsInv, Commit
<1>2. requests \ RequestOf(c) \subseteq requests'
  BY DEF Commit
<1>3. \A q \in RequestOf(c) : q.user \in About(c.facts)
  BY <1>1, AboutOne DEF RequestOf, CallInv, Sound
<1>4. \A u \in UserIds \ About(c.facts) : u \in About(requests) => u \in About(requests')
  BY <1>2, <1>3 DEF About
<1>5. About(c.facts) \subseteq Known /\ TypeOK /\ TypeOK'
  BY <1>1, CommitKeeps DEF CallInv, RosterInv
<1>6. QED
  BY <1>1, <1>4, <1>5, CommitStanding, TellKeepsCopy

LEMMA CreateTeamKeepsCopy ==
  ASSUME RosterInv, CopyInv, NEW t \in TeamIds, NEW n \in Names, NEW roster \in Rosters,
         CreateTeam(t, n, roster)
  PROVE  CopyInv'
<1> DEFINE facts == {Fact(u, Info(t, n, roster[u])) : u \in DOMAIN roster}
<1>1. \A u \in DOMAIN roster : u \in Known /\ roster[u] \in Roles
  BY DEF Rosters
<1>2. facts \in SUBSET Facts
  BY <1>1, FactTypes DEF RosterInv, TypeOK
<1>3. Tell(facts) /\ UNCHANGED <<users, requests, newest, late, lost>>
  BY DEF CreateTeam
<1>4. TypeOK /\ TypeOK'
  BY CreateTeamKeeps DEF RosterInv
<1>5. facts = {Fact(u, Info(t, n, roster[u])) : u \in DOMAIN roster}
  OBVIOUS
<1> HIDE DEF facts
<1>6. /\ About(facts) = DOMAIN roster
      /\ \A f \in facts : f.info = Standing(f.user)'
      /\ \A u \in UserIds \ About(facts) :
           Standing(u)' = Standing(u) /\ (seat[u] = NoTeam => seat'[u] = NoTeam)
  BY <1>5, CreateTeamStanding
<1>7. \A u \in UserIds \ About(facts) :
        /\ Standing(u)' = Standing(u) /\ (seat[u] = NoTeam => seat'[u] = NoTeam)
        /\ u \in About(requests) => u \in About(requests')
  BY <1>3, <1>6
<1>8. QED
  BY <1>1, <1>2, <1>3, <1>4, <1>6, <1>7, TellKeepsCopy

\* Steps that tell nothing and apply nothing.
LEMMA CopyUntouched ==
  ASSUME TypeOK, CopyInv, UNCHANGED <<teams, seat, users, told, newest, late>>,
         notices' \subseteq notices, \A n \in notices \ notices' : n.user \in lost',
         lost \subseteq lost', About(requests) \subseteq About(requests') \cup lost'
  PROVE  CopyInv'
<1>1. Known' = Known /\ \A u : Standing(u)' = Standing(u)
  BY StandingUntouched DEF Known
<1>2. NoticesAreTrue' /\ AppliedIsTrue' /\ ToldAreKnown'
  BY <1>1 DEF CopyInv, NoticesAreTrue, AppliedIsTrue, ToldAreKnown
<1>3. LatestArrives'
  BY DEF CopyInv, LatestArrives
<1>4. UntoldAreNowhere'
  BY <1>1 DEF CopyInv, UntoldAreNowhere
<1>5. QED
  BY <1>2, <1>3, <1>4 DEF CopyInv

\* A request is refused only when somebody was seated, and so was told.
LEMMA RefuseKeepsCopy ==
  ASSUME RosterInv, CopyInv, NEW q \in requests, RefuseRequest(q)
  PROVE  CopyInv'
<1>1. /\ UNCHANGED <<teams, seat, users, told, newest, late, notices, lost>>
      /\ requests' = requests \ {q} /\ ~MayAdd(q.team, q.user)
  BY DEF RefuseRequest, history
<1>2. /\ q.user \in UserIds /\ q.user \in Known /\ q.team \in Founded
      /\ q.team # NoTeam
  <2>1. q \in Requests
    BY DEF RosterInv, TypeOK
  <2>2. q.user \in UserIds /\ q.team \in TeamIds
    BY <2>1 DEF Requests
  <2>3. QED
    BY <2>2, TeamsAssumption DEF RosterInv, RequestsAreKnown
<1>3. seat[q.user] # NoTeam
  BY <1>1, <1>2 DEF MayAdd, RosterInv, RosterMatchesSeats
<1>4. told[q.user] # 0
  BY <1>2, <1>3 DEF CopyInv, UntoldAreNowhere
<1>5. Known' = Known /\ \A u : Standing(u)' = Standing(u)
  BY <1>1, StandingUntouched DEF Known
<1>6. \A u : u # q.user /\ u \in About(requests) => u \in About(requests')
  BY <1>1 DEF About
<1>7. UntoldAreNowhere'
  BY <1>1, <1>4, <1>5, <1>6 DEF CopyInv, UntoldAreNowhere
<1>8. NoticesAreTrue' /\ AppliedIsTrue' /\ ToldAreKnown' /\ LatestArrives'
  BY <1>1, <1>5 DEF CopyInv, NoticesAreTrue, AppliedIsTrue, ToldAreKnown, LatestArrives
<1>9. QED
  BY <1>7, <1>8 DEF CopyInv

\* A new user was never told of; shown on a team, a request is under way.
LEMMA CreateUserKeepsCopy ==
  ASSUME RosterInv, CopyInv, NEW u \in UserIds, u \notin Known,
         UNCHANGED <<teams, seat, notices, told, newest, late, lost>>,
         Known' = Known \cup {u}, \A v \in Known : users'[v] = users[v],
         requests \subseteq requests', users'[u] = NoInfo \/ u \in About(requests')
  PROVE  CopyInv'
<1>1. \A v : Standing(v)' = Standing(v)
  BY StandingUntouched
<1>2. told[u] = 0 /\ About(requests) \subseteq About(requests')
  BY DEF CopyInv, ToldAreKnown, About
<1>3. NoticesAreTrue' /\ LatestArrives'
  BY <1>1 DEF CopyInv, NoticesAreTrue, LatestArrives
<1>4. AppliedIsTrue' /\ ToldAreKnown'
  BY <1>1, <1>2 DEF CopyInv, AppliedIsTrue, ToldAreKnown
<1>5. UntoldAreNowhere'
  BY <1>2 DEF CopyInv, UntoldAreNowhere
<1>6. QED
  BY <1>3, <1>4, <1>5 DEF CopyInv

LEMMA HandleNoticeKeepsCopy ==
  ASSUME RosterInv, CopyInv, NEW n \in notices, HandleNotice(n)
  PROVE  CopyInv'
<1> DEFINE u == n.user
<1>1. /\ UNCHANGED <<teams, seat, requests, told, lost>>
      /\ users' = [users EXCEPT ![u] = n.info] /\ u \in Known
      /\ newest' = [newest EXCEPT ![u] = IF n.number > newest[u] THEN n.number ELSE newest[u]]
      /\ late' = IF n.number < newest[u] THEN late \cup {u} ELSE late \ {u}
      /\ notices' \subseteq notices /\ notices \subseteq notices' \cup {n}
  BY DEF HandleNotice
<1>2. /\ u \in UserIds /\ n.number \in 1 .. told[u] /\ newest[u] <= told[u]
      /\ n.number = told[u] => n.info = Standing(u)
  BY DEF RosterInv, TypeOK, Notices, CopyInv, NoticesAreTrue, LatestArrives
<1>3. /\ \A v \in UserIds : told[v] \in Nat /\ newest[v] \in Nat
      /\ \A v \in UserIds : v # u => newest'[v] = newest[v]
      /\ newest'[u] = IF n.number > newest[u] THEN n.number ELSE newest[u]
      /\ users'[u] = n.info /\ \A v \in Known : v # u => users'[v] = users[v]
      /\ Known' = Known /\ Known \subseteq UserIds
  BY <1>1, <1>2 DEF RosterInv, TypeOK, Known
<1>4. \A v : Standing(v)' = Standing(v)
  BY <1>1, StandingUntouched
<1> HIDE DEF u
<1>5. NoticesAreTrue'
  BY <1>1, <1>4 DEF CopyInv, NoticesAreTrue
<1>6. LatestArrives'
  <2> SUFFICES ASSUME NEW v \in UserIds
               PROVE  /\ newest'[v] <= told[v]
                      /\ \/ v \in lost \/ newest'[v] = told[v]
                         \/ \E m \in notices' : m.user = v /\ m.number = told[v]
    BY <1>1 DEF LatestArrives
  <2>1. newest'[v] <= told[v]
    BY <1>2, <1>3 DEF CopyInv, LatestArrives
  <2>2. ASSUME newest[v] # told[v], v \notin lost, newest'[v] # told[v]
        PROVE  \E m \in notices' : m.user = v /\ m.number = told[v]
    <3>1. PICK m \in notices : m.user = v /\ m.number = told[v]
      BY <2>2 DEF CopyInv, LatestArrives
    <3>2. m # n
      BY <1>2, <1>3, <2>2, <3>1 DEF u
    <3>3. QED
      BY <1>1, <3>1, <3>2
  <2>3. newest[v] = told[v] => newest'[v] = told[v]
    BY <1>2, <1>3
  <2>4. QED
    BY <2>1, <2>2, <2>3
<1>7. AppliedIsTrue'
  <2> SUFFICES ASSUME NEW v \in Known, newest'[v] = told[v], told[v] # 0, v \notin late'
               PROVE  users'[v] = Standing(v)
    BY <1>1, <1>3, <1>4 DEF AppliedIsTrue
  <2>1. CASE v = u
    BY <1>1, <1>2, <1>3, <2>1
  <2>2. CASE v # u
    BY <1>1, <1>3, <2>2 DEF CopyInv, AppliedIsTrue
  <2>3. QED
    BY <2>1, <2>2
<1>8. UntoldAreNowhere' /\ ToldAreKnown'
  BY <1>1, <1>2, <1>3 DEF CopyInv, UntoldAreNowhere, ToldAreKnown
<1>9. QED
  BY <1>5, <1>6, <1>7, <1>8 DEF CopyInv

LEMMA NextCopy == RosterInv /\ CopyInv /\ [Next]_vars => CopyInv'
<1> SUFFICES ASSUME RosterInv, CopyInv, [Next]_vars PROVE CopyInv'
  OBVIOUS
<1>1. TypeOK
  BY DEF RosterInv
<1>2. CASE UNCHANGED vars
  BY <1>1, <1>2, CopyUntouched DEF vars, history
<1>3. CASE Create
  <2>1. ASSUME NEW u \in UserIds, CreateUser(u) PROVE CopyInv'
    BY <2>1, CreateUserKeepsCopy DEF CreateUser, history, Known
  <2>2. ASSUME NEW u \in UserIds, NEW t \in Founded, NEW r \in Roles, CreateUserOnTeam(u, t, r)
        PROVE  CopyInv'
    <3>1. Known' = Known \cup {u} /\ \A v \in Known : users'[v] = users[v]
      BY <2>2 DEF CreateUserOnTeam, Known
    <3> DEFINE q == [user |-> u, team |-> t, role |-> r]
    <3>2. requests' = requests \cup {q}
      BY <2>2 DEF CreateUserOnTeam
    <3>3. q.user = u
      OBVIOUS
    <3> HIDE DEF q
    <3>4. requests \subseteq requests' /\ u \in About(requests')
      BY <3>2, <3>3 DEF About
    <3>5. QED
      BY <2>2, <3>1, <3>4, CreateUserKeepsCopy DEF CreateUserOnTeam, history
  <2>3. QED
    BY <1>3, <2>1, <2>2, CreateTeamKeepsCopy DEF Create
<1>4. ASSUME NEW t \in Founded, Command(t) PROVE CopyInv'
  <2>1. UNCHANGED <<teams, seat, users, requests, notices, told, newest, late, lost>>
    BY <1>4 DEF Command, AddTeamMember, ChangeTeamMemberRole, RemoveTeamMember, RenameTeam, Begin, history
  <2>2. QED
    BY <1>1, <2>1, CopyUntouched
<1>5. ASSUME NEW c \in calls, Abandon(c) PROVE CopyInv'
  <2>1. About(requests) \subseteq About(requests') \cup lost' /\ lost \subseteq lost'
    BY <1>5 DEF Abandon, About
  <2>2. QED
    BY <1>1, <1>5, <2>1, CopyUntouched DEF Abandon, history
<1>6. ASSUME NEW q \in requests, HandleRequest(q) PROVE CopyInv'
  <2>1. UNCHANGED <<teams, seat, users, requests, notices, told, newest, late, lost>>
    BY <1>6 DEF HandleRequest, AddTeamMember, Begin, history
  <2>2. QED
    BY <1>1, <2>1, CopyUntouched
<1>7. ASSUME NEW n \in notices, GiveUpNotice(n) PROVE CopyInv'
  BY <1>1, <1>7, CopyUntouched DEF GiveUpNotice, history
<1>8. QED
  BY <1>2, <1>3, <1>4, <1>5, <1>6, <1>7, CommitKeepsCopy, RefuseKeepsCopy, HandleNoticeKeepsCopy DEF Next

\* Identity's copy agrees with the roster once nothing waits and nothing was lost or late.
THEOREM CopyIsRight == Spec => []CopyFollowsRoster
<1>1. RosterInv /\ CopyInv => CopyFollowsRoster
  <2> SUFFICES ASSUME RosterInv, CopyInv, NEW u \in Known, NothingWaits(u), u \notin late \cup lost
               PROVE  users[u] = Standing(u)
    BY DEF CopyFollowsRoster
  <2>1. u \in UserIds
    BY DEF RosterInv, TypeOK
  <2>2. \A n \in notices : n.user # u
    BY DEF NothingWaits, About
  <2>3. newest[u] = told[u]
    BY <2>1, <2>2 DEF CopyInv, LatestArrives
  <2>4. CASE told[u] = 0
    BY <2>1, <2>4 DEF CopyInv, UntoldAreNowhere, NothingWaits, Standing
  <2>5. CASE told[u] # 0
    BY <2>3, <2>5 DEF CopyInv, AppliedIsTrue
  <2>6. QED
    BY <2>4, <2>5
<1>2. Spec => []CopyInv
  BY InitCopy, NextCopy, RosterInvariant, PTL DEF Spec
<1>3. QED
  BY <1>1, <1>2, RosterInvariant, PTL
=============================================================================
