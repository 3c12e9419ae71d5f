----------------------------- MODULE TeamDrawer -----------------------------
(***************************************************************************)
(* The drawer that changes the team of one person: it holds the team the   *)
(* person was on when it opened, and moves them by calls to the Teams      *)
(* endpoints, two when they leave one team for another.  The endpoints     *)
(* keep the promise of Membership, which Teams is shown to implement; what *)
(* they refuse beyond it (a person outside the organization, a broken      *)
(* database) a call may meet at any time.                                  *)
(*                                                                         *)
(* The drawer opens on a copy of the person, which may be an old one, and  *)
(* may be closed while a move is under way: the move goes on, and nobody   *)
(* is told how it ended.                                                   *)
(***************************************************************************)
EXTENDS Naturals, FiniteSets

CONSTANTS
  TeamIds, UserIds, NoTeam,
  Person,      \* the person the drawer is about
  Roles, NoRole,
  Moves,       \* slots for the moves under way
  NoMove,      \* an empty slot
  MaxMeddling  \* bound: what others do to the teams

\* Where a person may be, and a move under way.
Places == [team : TeamIds \cup {NoTeam}, role : Roles \cup {NoRole}]
Steps == {"remove", "role", "answered", "add", "added", "done"}
MovesUnderWay == [step : Steps, from : TeamIds \cup {NoTeam},
                  to : TeamIds \cup {NoTeam}, role : Roles, watched : BOOLEAN]

ASSUME TeamDrawerAssumption ==
  /\ NoTeam \notin TeamIds /\ Person \in UserIds /\ NoRole \notin Roles
  /\ NoMove \notin Places \cup MovesUnderWay
  /\ MaxMeddling \in Nat

VARIABLES
  place,     \* the team each person is on
  role,      \* the person's role there
  copy,      \* the person's team as the list of users shows it
  current,   \* the team the drawer opened on; NoMove while it is closed
  members,   \* how many that team was read to have, when it was
  detached,  \* whether the drawer says the person is on no team
  moves,     \* the moves under way
  meddling,  \* how much others did
  meddled    \* history: what the drawer knows may be untrue for other reasons

teams == <<place, role>>
drawer == <<current, members, detached>>
drawerVars == <<teams, copy, drawer, moves, meddling, meddled>>

Endpoint == INSTANCE Membership WITH founded <- TeamIds

On(t, r) == [team |-> t, role |-> r]
Off == On(NoTeam, NoRole)
Standing == On(place[Person], role)

Size(t) == Cardinality({u \in UserIds : place[u] = t})

-----------------------------------------------------------------------------
(* The endpoints.                                                          *)

AddMember(t, r) == Endpoint!Join(Person, t) /\ role' = r

RemoveMember(t) == place[Person] = t /\ Endpoint!Leave(Person) /\ role' = NoRole

ChangeRole(t, r) == place[Person] = t /\ role /= r /\ role' = r /\ UNCHANGED place

Meddle ==
  /\ meddling < MaxMeddling /\ meddling' = meddling + 1
  /\ UNCHANGED <<copy, drawer, moves>>

SomebodyMoves(u) ==
  /\ u /= Person /\ Meddle
  /\ Endpoint!Leave(u) \/ \E t \in TeamIds : Endpoint!Join(u, t)
  /\ UNCHANGED <<role, meddled>>

PersonIsMoved ==
  /\ Meddle
  /\ \/ \E t \in TeamIds, r \in Roles : AddMember(t, r)
     \/ RemoveMember(place[Person])
     \/ \E r \in Roles : role /= NoRole /\ ChangeRole(place[Person], r)
  /\ meddled' = TRUE

Refresh ==
  /\ copy' = Standing
  /\ UNCHANGED <<teams, drawer, moves, meddling, meddled>>

-----------------------------------------------------------------------------
(* The drawer.                                                             *)

IsOpen == current /= NoMove
Moving(k) == moves[k] /= NoMove
MoveUnderWay == \E k \in Moves : Moving(k) /\ moves[k].watched

Open ==
  /\ ~IsOpen
  /\ current' = copy /\ members' = NoMove /\ detached' = FALSE
  /\ meddled' = \E k \in Moves : Moving(k)
  /\ UNCHANGED <<teams, copy, moves, meddling>>

ReadMembers ==
  /\ IsOpen /\ current.team /= NoTeam
  /\ members' = Size(current.team)
  /\ UNCHANGED <<teams, copy, current, detached, moves, meddling, meddled>>

Shut == current' = NoMove /\ members' = NoMove /\ detached' = FALSE

Unwatched == [k \in Moves |->
  IF Moving(k) THEN [moves[k] EXCEPT !.watched = FALSE] ELSE NoMove]

HandleClose ==
  /\ IsOpen
  /\ Shut
  /\ moves' = Unwatched
  /\ UNCHANGED <<teams, copy, meddling, meddled>>

\* The last member of a team cannot leave it.
BlocksTheMove(t) ==
  members /= NoMove /\ members <= 1 /\ current.team \notin {NoTeam, t}

Unchanged(t, r) ==
  ~detached /\ current.team = t /\ (t = NoTeam \/ current.role = r)

\* After a half-done move the team the drawer opened on is not theirs any more.
From == IF detached THEN Off ELSE current

FirstStep(t) ==
  CASE t = From.team /\ t /= NoTeam -> "role"
    [] From.team /= NoTeam /\ t /= From.team -> "remove"
    [] From.team = NoTeam /\ t /= NoTeam -> "add"
    [] OTHER -> "done"

Submit(k, t, r) ==
  /\ IsOpen /\ ~MoveUnderWay /\ ~Moving(k)
  /\ ~BlocksTheMove(t) /\ ~Unchanged(t, r)
  /\ moves' = [moves EXCEPT ![k] =
       [step |-> FirstStep(t), from |-> From.team, to |-> t, role |-> r,
        watched |-> TRUE]]
  /\ UNCHANGED <<teams, copy, drawer, meddling, meddled>>

-----------------------------------------------------------------------------
(* A move.                                                                 *)

At(k, step) == Moving(k) /\ moves[k].step = step
To(k, step) == moves' = [moves EXCEPT ![k].step = step]

ServeRemove(k) ==
  /\ At(k, "remove")
  /\ RemoveMember(moves[k].from)
  /\ To(k, "answered")
  /\ UNCHANGED <<copy, drawer, meddling, meddled>>

Continue(k) ==
  /\ At(k, "answered")
  /\ To(k, IF moves[k].to \in {NoTeam, moves[k].from} THEN "done" ELSE "add")
  /\ UNCHANGED <<teams, copy, drawer, meddling, meddled>>

ServeAdd(k) ==
  /\ At(k, "add")
  /\ AddMember(moves[k].to, moves[k].role)
  /\ To(k, "added")
  /\ UNCHANGED <<copy, drawer, meddling, meddled>>

ServeRole(k) ==
  /\ At(k, "role")
  /\ ChangeRole(moves[k].from, moves[k].role)
  /\ To(k, "answered")
  /\ UNCHANGED <<copy, drawer, meddling, meddled>>

Over(k) == moves' = [moves EXCEPT ![k] = NoMove]

\* The call is refused, or it is served and its answer is lost.
FailFirst(k) ==
  /\ At(k, "remove") \/ At(k, "role") \/ At(k, "answered")
  /\ Over(k)
  /\ UNCHANGED <<teams, copy, drawer, meddling, meddled>>

LeavesNoTeamAlways(k) == moves[k].watched
LeavesNoTeam(k) == moves[k].watched /\ moves[k].from /= NoTeam

FailAdd(k) ==
  /\ At(k, "add") \/ At(k, "added")
  /\ Over(k)
  /\ detached' = (detached \/ LeavesNoTeam(k))
  /\ meddled' = (meddled \/ At(k, "added"))
  /\ UNCHANGED <<teams, copy, current, members, meddling>>

\* The drawer closes, whichever it is by then.
MoveSucceeds(k) ==
  /\ At(k, "done") \/ At(k, "added")
  /\ Shut
  /\ moves' = [Unwatched EXCEPT ![k] = NoMove]
  /\ UNCHANGED <<teams, copy, meddling, meddled>>

-----------------------------------------------------------------------------
DrawerInit ==
  /\ place \in [UserIds -> TeamIds \cup {NoTeam}]
  /\ role \in Roles \cup {NoRole}
  /\ (role = NoRole) = (place[Person] = NoTeam)
  /\ copy = Standing
  /\ current = NoMove /\ members = NoMove /\ detached = FALSE
  /\ moves = [k \in Moves |-> NoMove]
  /\ meddling = 0 /\ meddled = FALSE

DrawerNext ==
  \/ \E u \in UserIds : SomebodyMoves(u)
  \/ PersonIsMoved \/ Refresh
  \/ Open \/ ReadMembers \/ HandleClose
  \/ \E k \in Moves :
       \/ \E t \in TeamIds \cup {NoTeam}, r \in Roles : Submit(k, t, r)
       \/ ServeRemove(k) \/ Continue(k) \/ ServeAdd(k) \/ ServeRole(k)
       \/ FailFirst(k) \/ FailAdd(k) \/ MoveSucceeds(k)

DrawerSpec == DrawerInit /\ [][DrawerNext]_drawerVars

-----------------------------------------------------------------------------
\* "Removed from ..., but not added to the new team: this person is currently
\* on no team" (ChangeUserTeamDrawer.tsx:144-152) is true when it is shown.
DetachedIsTrue ==
  IsOpen /\ detached /\ ~meddled /\ ~MoveUnderWay => place[Person] = NoTeam
=============================================================================
