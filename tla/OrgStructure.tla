---------------------------- MODULE OrgStructure ----------------------------
(***************************************************************************)
(* The company's chart in the Agency module: one event stream for the      *)
(* whole chart, and the questions the rest of the module asks of it.       *)
(*                                                                         *)
(* Every command but one is an aggregate handler with exclusive access:    *)
(* it holds the stream's row from the read to the commit, so it is one     *)
(* step here.  Creating a unit is not: it reads the chart without the row, *)
(* checks, and only then takes the row and appends, so anything may commit *)
(* in between and its append succeeds all the same.                        *)
(***************************************************************************)
EXTENDS Integers, FiniteSets

CONSTANTS
  UnitIds, People, Names,  \* identities; names compared as the code does, without case
  NoUnit, Nobody,          \* the null of ParentId and of HeadUserId
  MaxCreates               \* bound: creations past their checks at once

ASSUME OrgStructureAssumption ==
  /\ NoUnit \notin UnitIds
  /\ Nobody \notin People

-----------------------------------------------------------------------------
VARIABLES
  units,     \* the chart, folded: one record for each unit created
  creating,  \* creations past their checks and not yet committed
  raced      \* history: the units appended after the chart they were checked on changed

vars == <<units, creating, raced>>

Unit == [parent : UnitIds \cup {NoUnit}, name : Names,
         head : People \cup {Nobody}, members : SUBSET People, archived : BOOLEAN]

NewUnitHeaded(p, n) == [parent |-> p, name |-> n, head |-> NoUnit, members |-> {}, archived |-> FALSE]
NewUnit(p, n) == [parent |-> p, name |-> n, head |-> Nobody, members |-> {}, archived |-> FALSE]

\* A creation remembers whether the chart it read was empty, and whether the
\* chart has changed since.
Creations == [unit : UnitIds, parent : UnitIds \cup {NoUnit}, name : Names,
              first : BOOLEAN, stale : BOOLEAN]

Existing == DOMAIN units
Live == {u \in Existing : ~units[u].archived}
IsRoot(u) == units[u].parent = NoUnit

Init ==
  /\ units = [u \in {} |-> NewUnit(NoUnit, CHOOSE n \in Names : TRUE)]
  /\ creating = {}
  /\ raced = {}

-----------------------------------------------------------------------------
(* Questions asked of a chart.                                             *)

UnitsUnder(u) == {c \in Existing : units[c].parent = u}

HasSiblingNamed(p, n, except) ==
  \E u \in Live : units[u].parent = p /\ u # except /\ units[u].name = n

\* The breadth-first search down from u finds the least set that holds the
\* children of u and the children of everything it holds.
IsDownwardClosed(S, u) ==
  /\ UnitsUnder(u) \subseteq S
  /\ \A c \in S \cap Existing : UnitsUnder(c) \subseteq S
Descendants(u) ==
  {d \in Existing : \A S \in SUBSET Existing : IsDownwardClosed(S, u) => d \in S}

\* The walk up from u: u, its parent, and so on to the top.
IsUpwardClosed(S) ==
  \A c \in S : units[c].parent \in Existing => units[c].parent \in S
WalkUp(u) ==
  {a \in Existing : \A S \in SUBSET Existing : u \in S /\ IsUpwardClosed(S) => a \in S}

UnitOf(person) == {u \in Existing : person \in units[u].members}

\* Whether s heads a unit on the way up from where person sits.
IsAbove(s, person) ==
  /\ s # person
  /\ \E u \in UnitOf(person) : \E a \in WalkUp(u) : units[a].head = s

\* The head of the nearest unit on the way up from where person sits, of those
\* headed by one of the people who count.
NearestHead(person, counting) ==
  LET headed(u) == {a \in WalkUp(u) : units[a].head \in counting}
  IN  {units[a].head : a \in UNION {{b \in headed(u) : headed(u) \subseteq WalkUp(b)}
                                      : u \in UnitOf(person)}}

\* A head who asks is not their own supervisor: the walk goes on above them.
FirstHead(person) == NearestHead(person, People)
SupervisorOf(person) == NearestHead(person, People \ {person})

\* Everybody in the units s heads and, below them, in the whole subtree.
SubordinatesOf(s) ==
  LET headed == {u \in Live : units[u].head = s}
      reached == headed \cup UNION {Descendants(u) : u \in headed}
  IN  (UNION {units[u].members : u \in reached}) \ {s}

-----------------------------------------------------------------------------
(* Creating a unit: checks, then the append.                               *)

MayCreate(p, n) ==
  IF Existing = {}
  THEN p = NoUnit
  ELSE /\ IF p = NoUnit
          THEN ~\E u \in Existing : IsRoot(u)
          ELSE p \in Live
       /\ ~HasSiblingNamed(p, n, NoUnit)

CheckCreate(u, p, n) ==
  /\ u \notin Existing \cup {c.unit : c \in creating}
  /\ Cardinality(creating) < MaxCreates
  /\ MayCreate(p, n)
  /\ creating' = creating \cup {[unit |-> u, parent |-> p, name |-> n,
                                 first |-> Existing = {}, stale |-> FALSE]}
  /\ UNCHANGED <<units, raced>>

\* Every commit leaves the creations in flight with an old chart.
AsStale(c) == [c EXCEPT !.stale = TRUE]
Outdated(set) == {AsStale(c) : c \in set}

\* Without a stream the creation starts one, which fails when there is one.
MayAppend(c) == c.first => Existing = {}

CommitCreate(c) ==
  /\ MayAppend(c)
  /\ units' = [u \in Existing \cup {c.unit} |->
                 IF u = c.unit THEN NewUnit(c.parent, c.name) ELSE units[u]]
  /\ creating' = Outdated(creating \ {c})
  /\ raced' = IF c.stale THEN raced \cup {c.unit} ELSE raced

RefuseCreate(c) ==
  /\ ~MayAppend(c)
  /\ creating' = creating \ {c}
  /\ UNCHANGED <<units, raced>>

-----------------------------------------------------------------------------
(* The exclusive commands.                                                 *)

Replace(u, unit) ==
  /\ units' = [units EXCEPT ![u] = unit]
  /\ creating' = Outdated(creating)
  /\ UNCHANGED raced

Rename(u, n) ==
  /\ ~HasSiblingNamed(units[u].parent, n, u)
  /\ Replace(u, [units[u] EXCEPT !.name = n])

MayMoveUnlessChild(u, p) ==
  /\ ~IsRoot(u)
  /\ p # u
  /\ p \in Live
  /\ p \notin UnitsUnder(u)
  /\ ~HasSiblingNamed(p, units[u].name, u)
MayMove(u, p) ==
  /\ ~IsRoot(u)
  /\ p # u
  /\ p \in Live
  /\ p \notin Descendants(u)
  /\ ~HasSiblingNamed(p, units[u].name, u)

Move(u, p) ==
  /\ MayMove(u, p)
  /\ Replace(u, [units[u] EXCEPT !.parent = p])

AddHere(u, person) == u \in Live /\ person \notin units[u].members
MayAddMember(u, person) == u \in Live /\ UnitOf(person) = {}

AddMember(u, person) ==
  /\ MayAddMember(u, person)
  /\ Replace(u, [units[u] EXCEPT !.members = @ \cup {person}])

MayRemoveAnyone(u, person) == person \in units[u].members
MayRemove(u, person) == person \in units[u].members /\ units[u].head # person

RemoveMember(u, person) ==
  /\ MayRemove(u, person)
  /\ Replace(u, [units[u] EXCEPT !.members = @ \ {person}])

AssignHead(u, person) ==
  /\ units[u].head # person
  /\ person \in units[u].members
  /\ Replace(u, [units[u] EXCEPT !.head = person])

ClearHead(u) ==
  /\ units[u].head # Nobody
  /\ Replace(u, [units[u] EXCEPT !.head = Nobody])

MayArchiveWithUnits(u) == u \in Live /\ ~IsRoot(u) /\ units[u].members = {}
MayArchiveInhabited(u) == u \in Live /\ ~IsRoot(u) /\ UnitsUnder(u) \cap Live = {}
MayArchive(u) ==
  /\ u \in Live
  /\ ~IsRoot(u)
  /\ units[u].members = {}
  /\ UnitsUnder(u) \cap Live = {}

Archive(u) ==
  /\ MayArchive(u)
  /\ Replace(u, [units[u] EXCEPT !.archived = TRUE])

-----------------------------------------------------------------------------
Create ==
  \/ \E u \in UnitIds, p \in UnitIds \cup {NoUnit}, n \in Names : CheckCreate(u, p, n)
  \/ \E c \in creating : CommitCreate(c) \/ RefuseCreate(c)

Reshape(u) ==
  \/ \E n \in Names : Rename(u, n)
  \/ \E p \in Existing : Move(u, p)
  \/ Archive(u)

Staff(u) ==
  \/ \E person \in People :
       AddMember(u, person) \/ RemoveMember(u, person) \/ AssignHead(u, person)
  \/ ClearHead(u)

Next == Create \/ \E u \in Existing : Reshape(u) \/ Staff(u)

Spec == Init /\ [][Next]_vars

-----------------------------------------------------------------------------
TypeOK ==
  /\ Existing \subseteq UnitIds
  /\ units \in [Existing -> Unit]
  /\ creating \subseteq Creations
  /\ raced \subseteq Existing

(***************************************************************************)
(* The chart is one tree, whatever is created, moved and archived at the   *)
(* same time: one unit has no parent, every parent exists, and no set of   *)
(* units hangs only under itself, so the supervisor walk of                *)
(* SupervisorPolicy.WalkUp always reaches the top.                         *)
(***************************************************************************)
OneTop == Existing # {} =>
            \E t \in Existing : \A u \in Existing : IsRoot(u) <=> u = t
ParentsExist == \A u \in Existing : IsRoot(u) \/ units[u].parent \in Existing
NoLoop == \A S \in SUBSET Existing :
            S # {} => \E u \in S : units[u].parent \notin S
ChartIsATree == OneTop /\ ParentsExist /\ NoLoop

(***************************************************************************)
(* A person sits in at most one unit, a head sits in the unit they head,   *)
(* and an archived unit holds nobody: so a person heads one unit at most,  *)
(* and no archived box answers for anyone.                                 *)
(***************************************************************************)
OneUnitEach == \A u, v \in Existing :
                 u # v => units[u].members \cap units[v].members = {}
HeadIsMember == \A u \in Existing : units[u].head \in units[u].members \cup {Nobody}
ArchivedIsEmpty == \A u \in Existing : units[u].archived => units[u].members = {}
EveryoneIsPlaced == OneUnitEach /\ HeadIsMember /\ ArchivedIsEmpty

(***************************************************************************)
(* The team screen and the right to decide agree: SubordinatesOf, a search *)
(* down from the units somebody heads, lists exactly the people IsAbove, a *)
(* walk up from the unit they sit in, lets them decide for.                *)
(***************************************************************************)
ScreenMatchesAuthority ==
  \A s, p \in People : p \in SubordinatesOf(s) <=> IsAbove(s, p)

(***************************************************************************)
(* The supervisor a person is shown is one person, may decide for them,    *)
(* and is missing only when nobody may.                                    *)
(***************************************************************************)
SupervisorMayDecide ==
  \A p \in People :
    LET above == {s \in People : IsAbove(s, p)}
    IN  /\ SupervisorOf(p) \subseteq above
        /\ Cardinality(SupervisorOf(p)) = IF above = {} THEN 0 ELSE 1

(***************************************************************************)
(* Whoever may decide for somebody stands in one line of command: no two   *)
(* people decide for each other, who is above somebody's superior is above *)
(* them too, and of two people above somebody one is above the other       *)
(* (SupervisorPolicy.IsAbove asks the chart anew for each pair).           *)
(***************************************************************************)
AuthorityIsOneLine ==
  \A s, t, p \in People :
    /\ IsAbove(s, t) => ~IsAbove(t, s)
    /\ IsAbove(s, t) /\ IsAbove(t, p) => IsAbove(s, p)
    /\ IsAbove(s, p) /\ IsAbove(t, p) /\ s # t => IsAbove(s, t) \/ IsAbove(t, s)

(***************************************************************************)
(* Two live units of one name under one parent, or a live unit under an    *)
(* archived one, come only from a creation checked on a chart that had     *)
(* changed by the time it was appended: CreateOrgUnitHandler reads before  *)
(* it takes the stream.                                                    *)
(***************************************************************************)
AmbiguousOnlyAfterRace ==
  \A u \in Live :
    /\ \A v \in Live :
         /\ u # v
         /\ units[u].parent = units[v].parent
         /\ units[u].name = units[v].name
         => {u, v} \cap raced # {}
    /\ ~IsRoot(u) /\ units[u].parent \notin Live => u \in raced
=============================================================================
