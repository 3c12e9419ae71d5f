------------------------- MODULE OrgStructure_proof -------------------------
(***************************************************************************)
(* Proofs about the chart: it is one tree, everyone has one place in it,   *)
(* and the two rules a racing creation can break are broken by nothing     *)
(* else.                                                                   *)
(***************************************************************************)
EXTENDS OrgStructure, FiniteSetTheorems, TLAPS

(***************************************************************************)
(* What the creations in flight know.  Each has its own new unit; its      *)
(* parent was there when it looked, and units never go away; and as long   *)
(* as nothing was committed since, what it checked still holds.            *)
(***************************************************************************)
CreatingInv ==
  /\ \A c \in creating : /\ c.unit \notin Existing
                         /\ c.first => c.parent = NoUnit
                         /\ ~c.first => c.parent \in Existing
                         /\ ~c.stale => MayCreate(c.parent, c.name)
                         /\ ~c.stale => (c.first <=> Existing = {})
  /\ \A c, d \in creating : c.unit = d.unit => c = d

TreeInv == TypeOK /\ CreatingInv /\ ChartIsATree

\* A kept chart: the same units, one of them replaced.
LEMMA ReplaceKeepsExisting ==
  ASSUME TypeOK, NEW u \in Existing, NEW unit \in Unit, Replace(u, unit)
  PROVE  /\ TypeOK'
         /\ Existing' = Existing
         /\ units'[u] = unit
         /\ \A v \in Existing : v # u => units'[v] = units[v]
<1>1. /\ DOMAIN units' = DOMAIN units
      /\ units'[u] = unit
      /\ \A v \in DOMAIN units : v # u => units'[v] = units[v]
  BY DEF Replace, TypeOK, Existing
<1>2. units' \in [DOMAIN units -> Unit]
  BY <1>1 DEF Replace, TypeOK, Existing
<1>3. \A c \in creating : AsStale(c) \in Creations
  BY DEF TypeOK, Creations, AsStale
<1>4. creating' \subseteq Creations
  BY <1>3 DEF Replace, Outdated
<1>5. QED
  BY <1>1, <1>2, <1>4 DEF Replace, TypeOK, Existing

\* Every exclusive command replaces one unit by a unit.
LEMMA ExclusiveReplaces ==
  ASSUME TypeOK, NEW u \in Existing, Reshape(u) \/ Staff(u)
  PROVE  \E unit \in Unit : Replace(u, unit)
<1>1. units[u] \in Unit /\ u \in UnitIds
  BY DEF TypeOK
<1>2. ASSUME NEW n \in Names, Rename(u, n) PROVE \E unit \in Unit : Replace(u, unit)
  <2>1. [units[u] EXCEPT !.name = n] \in Unit
    BY <1>1 DEF Unit
  <2>2. QED
    BY <1>2, <2>1 DEF Rename
<1>3. ASSUME NEW p \in Existing, Move(u, p) PROVE \E unit \in Unit : Replace(u, unit)
  <2>1. [units[u] EXCEPT !.parent = p] \in Unit
    BY <1>1 DEF Unit, TypeOK
  <2>2. QED
    BY <1>3, <2>1 DEF Move
<1>4. CASE Archive(u)
  <2>1. [units[u] EXCEPT !.archived = TRUE] \in Unit
    BY <1>1 DEF Unit
  <2>2. QED
    BY <1>4, <2>1 DEF Archive
<1>5. ASSUME NEW person \in People, AddMember(u, person)
      PROVE  \E unit \in Unit : Replace(u, unit)
  <2>1. [units[u] EXCEPT !.members = @ \cup {person}] \in Unit
    BY <1>1 DEF Unit
  <2>2. QED
    BY <1>5, <2>1 DEF AddMember
<1>6. ASSUME NEW person \in People, RemoveMember(u, person)
      PROVE  \E unit \in Unit : Replace(u, unit)
  <2>1. [units[u] EXCEPT !.members = @ \ {person}] \in Unit
    BY <1>1 DEF Unit
  <2>2. QED
    BY <1>6, <2>1 DEF RemoveMember
<1>7. ASSUME NEW person \in People, AssignHead(u, person)
      PROVE  \E unit \in Unit : Replace(u, unit)
  <2>1. [units[u] EXCEPT !.head = person] \in Unit
    BY <1>1 DEF Unit
  <2>2. QED
    BY <1>7, <2>1 DEF AssignHead
<1>8. CASE ClearHead(u)
  <2>1. [units[u] EXCEPT !.head = Nobody] \in Unit
    BY <1>1 DEF Unit
  <2>2. QED
    BY <1>8, <2>1 DEF ClearHead
<1>9. QED
  BY <1>2, <1>3, <1>4, <1>5, <1>6, <1>7, <1>8 DEF Reshape, Staff

\* Only Move changes where a unit hangs.
LEMMA OnlyMoveMoves ==
  ASSUME TypeOK, NEW u \in Existing, Reshape(u) \/ Staff(u),
         ~\E p \in Existing : Move(u, p)
  PROVE  \A v \in Existing : units'[v].parent = units[v].parent
<1>1. units[u] \in Unit
  BY DEF TypeOK
<1>2. units'[u].parent = units[u].parent
  BY <1>1 DEF Reshape, Staff, Rename, Archive, AddMember, RemoveMember, AssignHead,
              ClearHead, Replace, Unit, Existing, TypeOK
<1>3. PICK unit \in Unit : Replace(u, unit)
  BY ExclusiveReplaces
<1>4. QED
  BY <1>2, <1>3, ReplaceKeepsExisting

-----------------------------------------------------------------------------
LEMMA CreateKeepsType == ASSUME TypeOK, Create PROVE TypeOK'
<1>1. ASSUME NEW u \in UnitIds, NEW p \in UnitIds \cup {NoUnit}, NEW n \in Names,
             CheckCreate(u, p, n)
      PROVE  TypeOK'
  <2> DEFINE call == [unit |-> u, parent |-> p, name |-> n, first |-> Existing = {}, stale |-> FALSE]
  <2>1. call \in Creations
    <3>1. (Existing = {}) \in BOOLEAN
      OBVIOUS
    <3>2. QED
      BY <3>1, Zenon DEF Creations
  <2>2. creating' = creating \cup {call} /\ UNCHANGED <<units, raced>>
    BY <1>1 DEF CheckCreate
  <2> HIDE DEF call
  <2>3. QED
    BY <2>1, <2>2 DEF TypeOK, Existing
<1>2. ASSUME NEW c \in creating, CommitCreate(c) PROVE TypeOK'
  <2>1. c \in Creations
    BY DEF TypeOK
  <2>2. NewUnit(c.parent, c.name) \in Unit
    BY <2>1 DEF NewUnit, Unit, Creations
  <2>3. /\ Existing' = Existing \cup {c.unit}
        /\ units' \in [Existing' -> Unit]
    BY <1>2, <2>2 DEF CommitCreate, TypeOK, Existing
  <2>4. \A d \in creating : AsStale(d) \in Creations
    BY DEF TypeOK, Creations, AsStale
  <2>5. creating' \subseteq Creations
    BY <1>2, <2>4 DEF CommitCreate, Outdated
  <2>6. raced' \subseteq Existing'
    BY <1>2, <2>3 DEF CommitCreate, TypeOK
  <2>7. Existing' \subseteq UnitIds
    BY <2>1, <2>3 DEF TypeOK, Creations
  <2>8. QED
    BY <2>3, <2>5, <2>6, <2>7 DEF TypeOK
<1>3. ASSUME NEW c \in creating, RefuseCreate(c) PROVE TypeOK'
  BY <1>3 DEF RefuseCreate, TypeOK, Existing
<1>4. QED
  BY <1>1, <1>2, <1>3 DEF Create

LEMMA TypeInductive == TypeOK /\ [Next]_vars => TypeOK'
<1> SUFFICES ASSUME TypeOK, [Next]_vars PROVE TypeOK'
  OBVIOUS
<1>1. CASE Create
  BY <1>1, CreateKeepsType
<1>2. ASSUME NEW u \in Existing, Reshape(u) \/ Staff(u) PROVE TypeOK'
  BY <1>2, ExclusiveReplaces, ReplaceKeepsExisting
<1>3. CASE UNCHANGED vars
  BY <1>3 DEF vars, TypeOK, Existing
<1>4. QED
  BY <1>1, <1>2, <1>3 DEF Next

\* Every reachable state has its type.
THEOREM TypeCorrect == Spec => []TypeOK
<1>1. Init => TypeOK
  BY DEF Init, TypeOK, Existing
<1>2. QED
  BY <1>1, TypeInductive, PTL DEF Spec

-----------------------------------------------------------------------------
(* The tree.                                                               *)

\* A chart with the units and the parents of a tree is one.
LEMMA SameParents ==
  ASSUME ChartIsATree, Existing' = Existing,
         \A v \in Existing : units'[v].parent = units[v].parent
  PROVE  ChartIsATree'
<1>1. \A v \in Existing : IsRoot(v)' <=> IsRoot(v)
  BY DEF IsRoot
<1>2. OneTop'
  BY <1>1 DEF ChartIsATree, OneTop
<1>3. ParentsExist'
  BY <1>1 DEF ChartIsATree, ParentsExist
<1>4. NoLoop'
  BY DEF ChartIsATree, NoLoop
<1>5. QED
  BY <1>2, <1>3, <1>4 DEF ChartIsATree

\* The children of anything below u, and of u, are below u.
LEMMA DescendantsClosed ==
  ASSUME NEW u \in Existing, NEW c \in Existing,
         units[c].parent \in Descendants(u) \cup {u}
  PROVE  c \in Descendants(u)
<1> SUFFICES ASSUME NEW S \in SUBSET Existing, IsDownwardClosed(S, u) PROVE c \in S
  BY DEF Descendants
<1>1. CASE units[c].parent = u
  BY <1>1 DEF IsDownwardClosed, UnitsUnder
<1>2. CASE units[c].parent \in Descendants(u)
  <2>1. units[c].parent \in S \cap Existing
    BY <1>2 DEF Descendants
  <2>2. QED
    BY <2>1 DEF IsDownwardClosed, UnitsUnder
<1>3. QED
  BY <1>1, <1>2

\* A move leaves a tree: a set of units that hung only under itself after the
\* move would, without what lies below the unit moved, have done so before.
LEMMA MoveKeepsTree ==
  ASSUME TypeOK, ChartIsATree, NEW u \in Existing, NEW p \in Existing, Move(u, p)
  PROVE  ChartIsATree'
<1> DEFINE unit == [units[u] EXCEPT !.parent = p]
<1>1. units[u] \in Unit
  BY DEF TypeOK
<1>2. unit \in Unit /\ unit.parent = p
  BY <1>1 DEF Unit, TypeOK
<1> HIDE DEF unit
<1>3. Replace(u, unit)
  BY DEF Move, unit
<1>4. /\ Existing' = Existing
      /\ units'[u].parent = p
      /\ \A v \in Existing : v # u => units'[v].parent = units[v].parent
  BY <1>2, <1>3, ReplaceKeepsExisting
<1>5. p # NoUnit /\ p # u /\ ~IsRoot(u) /\ p \notin Descendants(u)
  BY OrgStructureAssumption DEF Move, MayMove, TypeOK
<1>6. \A v \in Existing : IsRoot(v)' <=> IsRoot(v)
  BY <1>4, <1>5 DEF IsRoot
<1>7. OneTop'
  BY <1>4, <1>6 DEF ChartIsATree, OneTop
<1>8. ParentsExist'
  BY <1>4, <1>6 DEF ChartIsATree, ParentsExist
<1>9. NoLoop'
  <2> SUFFICES ASSUME NEW S \in SUBSET Existing, S # {},
                      \A v \in S : units'[v].parent \in S
               PROVE  FALSE
    BY <1>4 DEF NoLoop
  <2>1. CASE u \notin S
    <3>1. \A v \in S : units[v].parent \in S
      BY <1>4, <2>1
    <3>2. QED
      BY <3>1 DEF ChartIsATree, NoLoop
  <2>2. CASE u \in S
    <3> DEFINE T == S \ (Descendants(u) \cup {u})
    <3>1. p \in T
      BY <1>4, <1>5, <2>2
    <3>2. ASSUME NEW w \in T PROVE units[w].parent \in T
      <4>1. units[w].parent \in S
        BY <1>4
      <4>2. units[w].parent \notin Descendants(u) \cup {u}
        BY DescendantsClosed
      <4>3. QED
        BY <4>1, <4>2
    <3>3. QED
      BY <3>1, <3>2 DEF ChartIsATree, NoLoop
  <2>3. QED
    BY <2>1, <2>2
<1>10. QED
  BY <1>7, <1>8, <1>9 DEF ChartIsATree

\* A new unit is a leaf, or the first unit.
LEMMA CommitKeepsTree ==
  ASSUME TreeInv, NEW c \in creating, CommitCreate(c)
  PROVE  ChartIsATree'
<1>1. /\ c.unit \notin Existing
      /\ c.first => c.parent = NoUnit /\ Existing = {}
      /\ ~c.first => c.parent \in Existing
  BY DEF TreeInv, CreatingInv, CommitCreate, MayAppend
<1>2. /\ Existing' = Existing \cup {c.unit}
      /\ units'[c.unit].parent = c.parent
      /\ \A v \in Existing : units'[v] = units[v]
  BY <1>1 DEF CommitCreate, NewUnit, Existing
<1>3. \A v \in Existing : IsRoot(v)' <=> IsRoot(v)
  BY <1>2 DEF IsRoot
<1>4. IsRoot(c.unit)' <=> c.first
  <2>1. ~c.first => c.parent # NoUnit
    BY <1>1, OrgStructureAssumption DEF TreeInv, TypeOK
  <2>2. QED
    BY <1>1, <1>2, <2>1 DEF IsRoot
<1>5. OneTop'
  <2>1. CASE c.first
    BY <1>1, <1>2, <1>4, <2>1 DEF OneTop
  <2>2. CASE ~c.first
    <3>1. PICK t \in Existing : \A v \in Existing : IsRoot(v) <=> v = t
      BY <1>1, <2>2 DEF TreeInv, ChartIsATree, OneTop
    <3>2. \A v \in Existing' : IsRoot(v)' <=> v = t
      BY <1>1, <1>2, <1>3, <1>4, <2>2, <3>1
    <3>3. QED
      BY <1>2, <3>2 DEF OneTop
  <2>3. QED
    BY <2>1, <2>2
<1>6. ParentsExist'
  <2>1. \A v \in Existing : IsRoot(v)' \/ units'[v].parent \in Existing'
    BY <1>2, <1>3 DEF TreeInv, ChartIsATree, ParentsExist
  <2>2. IsRoot(c.unit)' \/ units'[c.unit].parent \in Existing'
    BY <1>1, <1>2, <1>4
  <2>3. QED
    BY <1>2, <2>1, <2>2 DEF ParentsExist
<1>7. NoLoop'
  <2> SUFFICES ASSUME NEW S \in SUBSET Existing', S # {},
                      \A v \in S : units'[v].parent \in S
               PROVE  FALSE
    BY DEF NoLoop
  <2>1. c.parent # c.unit
    <3>1. c.unit # NoUnit
      BY OrgStructureAssumption DEF TreeInv, TypeOK, Creations
    <3>2. QED
      BY <1>1, <3>1
  <2> DEFINE T == S \ {c.unit}
  <2>2. T # {}
    BY <1>2, <2>1
  <2>3. ASSUME NEW w \in T PROVE units[w].parent \in T
    <3>1. w \in Existing /\ units[w].parent \in S
      BY <1>2
    <3>2. units[w].parent # c.unit
      <4>1. units[w].parent \in Existing \cup {NoUnit}
        BY <3>1 DEF TreeInv, ChartIsATree, ParentsExist, IsRoot
      <4>2. c.unit \in UnitIds
        BY DEF TreeInv, TypeOK, Creations
      <4>3. QED
        BY <1>1, <4>1, <4>2, OrgStructureAssumption
    <3>3. QED
      BY <3>1, <3>2
  <2>4. QED
    BY <1>2, <2>2, <2>3 DEF TreeInv, ChartIsATree, NoLoop
<1>8. QED
  BY <1>5, <1>6, <1>7 DEF ChartIsATree

-----------------------------------------------------------------------------
(* The creations in flight.                                                *)

\* Outdating a set of creations changes nothing else about them.
LEMMA OutdatedSame ==
  ASSUME NEW set \in SUBSET Creations, NEW d \in Outdated(set)
  PROVE  \E c \in set : /\ d = AsStale(c)
                        /\ d.unit = c.unit /\ d.parent = c.parent
                        /\ d.first = c.first /\ d.stale = TRUE
<1>1. PICK c \in set : d = AsStale(c)
  BY DEF Outdated
<1>2. c \in Creations
  OBVIOUS
<1>3. /\ d.unit = c.unit /\ d.parent = c.parent
      /\ d.first = c.first /\ d.stale = TRUE
  BY <1>1, <1>2 DEF Creations, AsStale
<1>4. QED
  BY <1>1, <1>3

\* What is left of the creations after a commit that adds at most the unit of
\* a creation no longer in flight.
LEMMA OutdatedKeepsCreatingInv ==
  ASSUME TypeOK, CreatingInv, NEW set \in SUBSET creating,
         creating' = Outdated(set),
         Existing \subseteq Existing',
         \A c \in set : c.unit \notin Existing'
  PROVE  CreatingInv'
<1>1. set \in SUBSET Creations
  BY DEF TypeOK
<1>2. ASSUME NEW d \in creating'
      PROVE  /\ d.unit \notin Existing'
             /\ d.first => d.parent = NoUnit
             /\ ~d.first => d.parent \in Existing'
             /\ d.stale
  <2>1. PICK c \in set : /\ d.unit = c.unit /\ d.parent = c.parent
                         /\ d.first = c.first /\ d.stale = TRUE
    BY <1>1, OutdatedSame
  <2>2. QED
    BY <2>1 DEF CreatingInv
<1>3. ASSUME NEW d \in creating', NEW e \in creating', d.unit = e.unit PROVE d = e
  <2>1. PICK c \in set : d = AsStale(c) /\ d.unit = c.unit
    BY <1>1, OutdatedSame
  <2>2. PICK b \in set : e = AsStale(b) /\ e.unit = b.unit
    BY <1>1, OutdatedSame
  <2>3. b = c
    BY <1>3, <2>1, <2>2 DEF CreatingInv
  <2>4. QED
    BY <2>1, <2>2, <2>3
<1>4. QED
  BY <1>2, <1>3 DEF CreatingInv

LEMMA CheckKeepsCreatingInv ==
  ASSUME TypeOK, CreatingInv, OneTop, NEW u \in UnitIds, NEW p \in UnitIds \cup {NoUnit},
         NEW n \in Names, CheckCreate(u, p, n)
  PROVE  CreatingInv'
<1> DEFINE call == [unit |-> u, parent |-> p, name |-> n, first |-> Existing = {}, stale |-> FALSE]
<1>1. /\ creating' = creating \cup {call} /\ UNCHANGED <<units, raced>>
      /\ u \notin Existing /\ \A c \in creating : c.unit # u
      /\ MayCreate(p, n)
  BY DEF CheckCreate
<1>2. /\ call.unit = u /\ call.parent = p /\ call.name = n
      /\ (call.first <=> Existing = {}) /\ ~call.stale
  OBVIOUS
<1> HIDE DEF call
<1>3. Existing' = Existing /\ (\A q, m : MayCreate(q, m)' <=> MayCreate(q, m))
  BY <1>1 DEF Existing, MayCreate, HasSiblingNamed, Live, IsRoot
<1>4. call.first => call.parent = NoUnit
  BY <1>1, <1>2 DEF MayCreate
<1>5. ~call.first => call.parent \in Existing
  BY <1>1, <1>2 DEF MayCreate, Live, OneTop
<1>6. ASSUME NEW c \in creating'
      PROVE  /\ c.unit \notin Existing'
             /\ c.first => c.parent = NoUnit
             /\ ~c.first => c.parent \in Existing'
             /\ ~c.stale => MayCreate(c.parent, c.name)'
             /\ ~c.stale => (c.first <=> Existing' = {})
  <2>1. CASE c = call
    BY <1>1, <1>2, <1>3, <1>4, <1>5, <2>1
  <2>2. CASE c \in creating
    BY <1>3, <2>2 DEF CreatingInv
  <2>3. QED
    BY <1>1, <2>1, <2>2
<1>7. \A c, d \in creating' : c.unit = d.unit => c = d
  BY <1>1, <1>2 DEF CreatingInv
<1>8. QED
  BY <1>6, <1>7 DEF CreatingInv

LEMMA CreatingInductive ==
  ASSUME TypeOK, CreatingInv, OneTop, [Next]_vars
  PROVE  CreatingInv'
<1>1. ASSUME NEW u \in UnitIds, NEW p \in UnitIds \cup {NoUnit}, NEW n \in Names,
             CheckCreate(u, p, n)
      PROVE  CreatingInv'
  BY <1>1, CheckKeepsCreatingInv
<1>2. ASSUME NEW c \in creating, CommitCreate(c) PROVE CreatingInv'
  <2>1. Existing' = Existing \cup {c.unit} /\ creating' = Outdated(creating \ {c})
    BY <1>2 DEF CommitCreate, Existing
  <2>2. \A d \in creating \ {c} : d.unit \notin Existing'
    BY <2>1 DEF CreatingInv
  <2>3. QED
    BY <2>1, <2>2, OutdatedKeepsCreatingInv
<1>3. ASSUME NEW c \in creating, RefuseCreate(c) PROVE CreatingInv'
  <2>1. creating' \subseteq creating /\ UNCHANGED units
    BY <1>3 DEF RefuseCreate
  <2>2. Existing' = Existing /\ (\A q, m : MayCreate(q, m)' <=> MayCreate(q, m))
    BY <2>1 DEF Existing, MayCreate, HasSiblingNamed, Live, IsRoot
  <2>3. QED
    BY <2>1, <2>2 DEF CreatingInv
<1>4. ASSUME NEW u \in Existing, Reshape(u) \/ Staff(u) PROVE CreatingInv'
  <2>1. PICK unit \in Unit : Replace(u, unit)
    BY <1>4, ExclusiveReplaces
  <2>2. Existing' = Existing /\ creating' = Outdated(creating)
    BY <2>1, ReplaceKeepsExisting DEF Replace
  <2>3. QED
    BY <2>2, OutdatedKeepsCreatingInv DEF CreatingInv
<1>5. CASE UNCHANGED vars
  <2>1. Existing' = Existing /\ (\A q, m : MayCreate(q, m)' <=> MayCreate(q, m))
    BY <1>5 DEF vars, Existing, MayCreate, HasSiblingNamed, Live, IsRoot
  <2>2. QED
    BY <1>5, <2>1 DEF vars, CreatingInv
<1>6. QED
  BY <1>1, <1>2, <1>3, <1>4, <1>5 DEF Next, Create

LEMMA TreeInductive == TreeInv /\ [Next]_vars => TreeInv'
<1> SUFFICES ASSUME TreeInv, [Next]_vars PROVE TreeInv'
  OBVIOUS
<1>1. TypeOK'
  BY TypeInductive DEF TreeInv
<1>2. CreatingInv'
  BY CreatingInductive DEF TreeInv, ChartIsATree
<1>3. ChartIsATree'
  <2>1. CASE UNCHANGED units
    BY <2>1, SameParents DEF TreeInv, Existing
  <2>2. ASSUME NEW c \in creating, CommitCreate(c) PROVE ChartIsATree'
    BY <2>2, CommitKeepsTree
  <2>3. ASSUME NEW u \in Existing, NEW p \in Existing, Move(u, p) PROVE ChartIsATree'
    BY <2>3, MoveKeepsTree DEF TreeInv
  <2>4. ASSUME NEW u \in Existing, Reshape(u) \/ Staff(u), ~\E p \in Existing : Move(u, p)
        PROVE  ChartIsATree'
    <3>1. \A v \in Existing : units'[v].parent = units[v].parent
      BY <2>4, OnlyMoveMoves DEF TreeInv
    <3>2. PICK unit \in Unit : Replace(u, unit)
      BY <2>4, ExclusiveReplaces DEF TreeInv
    <3>3. Existing' = Existing
      BY <3>2, ReplaceKeepsExisting DEF TreeInv
    <3>4. QED
      BY <3>1, <3>3, SameParents DEF TreeInv
  <2>5. QED
    BY <2>1, <2>2, <2>3, <2>4 DEF Next, Create, CheckCreate, RefuseCreate, vars
<1>4. QED
  BY <1>1, <1>2, <1>3 DEF TreeInv

LEMMA TreeInit == Init => TreeInv
BY DEF Init, TreeInv, TypeOK, CreatingInv, ChartIsATree, OneTop, ParentsExist, NoLoop, Existing

\* However creations, moves and archivings interleave, the chart is one tree.
THEOREM OneTree == Spec => []ChartIsATree
<1>1. TreeInv => ChartIsATree
  BY DEF TreeInv
<1>2. QED
  BY <1>1, TreeInit, TreeInductive, PTL DEF Spec

-----------------------------------------------------------------------------
(* People.                                                                 *)

\* What a new record for u must be for everyone to keep one place.
Places(u, unit) ==
  /\ \A v \in Existing : v # u => unit.members \cap units[v].members = {}
  /\ unit.head \in unit.members \cup {Nobody}
  /\ unit.archived => unit.members = {}

LEMMA ReplaceKeepsPlaces ==
  ASSUME TypeOK, EveryoneIsPlaced, NEW u \in Existing, NEW unit \in Unit,
         Replace(u, unit), Places(u, unit)
  PROVE  EveryoneIsPlaced'
<1>1. /\ Existing' = Existing /\ units'[u] = unit
      /\ \A v \in Existing : v # u => units'[v] = units[v]
  BY ReplaceKeepsExisting
<1>2. OneUnitEach'
  BY <1>1 DEF EveryoneIsPlaced, OneUnitEach, Places
<1>3. HeadIsMember'
  BY <1>1 DEF EveryoneIsPlaced, HeadIsMember, Places
<1>4. ArchivedIsEmpty'
  BY <1>1 DEF EveryoneIsPlaced, ArchivedIsEmpty, Places
<1>5. QED
  BY <1>2, <1>3, <1>4 DEF EveryoneIsPlaced

LEMMA ExclusiveKeepsPlaces ==
  ASSUME TypeOK, EveryoneIsPlaced, NEW u \in Existing, Reshape(u) \/ Staff(u)
  PROVE  EveryoneIsPlaced'
<1> USE DEF EveryoneIsPlaced, OneUnitEach, HeadIsMember, ArchivedIsEmpty
<1>1. units[u] \in Unit
  BY DEF TypeOK
<1>2. SUFFICES ASSUME NEW unit \in Unit, Replace(u, unit),
                      \/ /\ unit.members = units[u].members
                         /\ unit.head \in units[u].members \cup {Nobody}
                         /\ unit.archived => unit.members = {}
                      \/ \E person \in People :
                           /\ MayAddMember(u, person)
                           /\ unit.members = units[u].members \cup {person}
                           /\ unit.head = units[u].head
                           /\ unit.archived = units[u].archived
                      \/ \E person \in People :
                           /\ MayRemove(u, person)
                           /\ unit.members = units[u].members \ {person}
                           /\ unit.head = units[u].head
                           /\ unit.archived = units[u].archived
               PROVE  EveryoneIsPlaced'
  <2>1. ASSUME NEW n \in Names, Rename(u, n) PROVE EveryoneIsPlaced'
    <3> DEFINE unit == [units[u] EXCEPT !.name = n]
    <3>1. /\ unit \in Unit /\ unit.members = units[u].members
          /\ unit.head = units[u].head /\ unit.archived = units[u].archived
      BY <1>1 DEF Unit
    <3> HIDE DEF unit
    <3>2. Replace(u, unit)
      BY <2>1 DEF Rename, unit
    <3>3. QED
      BY <1>2, <3>1, <3>2
  <2>2. ASSUME NEW p \in Existing, Move(u, p) PROVE EveryoneIsPlaced'
    <3> DEFINE unit == [units[u] EXCEPT !.parent = p]
    <3>1. /\ unit \in Unit /\ unit.members = units[u].members
          /\ unit.head = units[u].head /\ unit.archived = units[u].archived
      BY <1>1 DEF Unit, TypeOK
    <3> HIDE DEF unit
    <3>2. Replace(u, unit)
      BY <2>2 DEF Move, unit
    <3>3. QED
      BY <1>2, <3>1, <3>2
  <2>3. CASE Archive(u)
    <3> DEFINE unit == [units[u] EXCEPT !.archived = TRUE]
    <3>1. /\ unit \in Unit /\ unit.members = units[u].members
          /\ unit.head = units[u].head
      BY <1>1 DEF Unit
    <3> HIDE DEF unit
    <3>2. Replace(u, unit) /\ units[u].members = {}
      BY <2>3 DEF Archive, MayArchive, unit
    <3>3. QED
      BY <1>2, <3>1, <3>2
  <2>4. ASSUME NEW person \in People, AddMember(u, person) PROVE EveryoneIsPlaced'
    <3> DEFINE unit == [units[u] EXCEPT !.members = @ \cup {person}]
    <3>1. /\ unit \in Unit /\ unit.members = units[u].members \cup {person}
          /\ unit.head = units[u].head /\ unit.archived = units[u].archived
      BY <1>1 DEF Unit
    <3> HIDE DEF unit
    <3>2. Replace(u, unit) /\ MayAddMember(u, person)
      BY <2>4 DEF AddMember, unit
    <3>3. QED
      BY <1>2, <3>1, <3>2
  <2>5. ASSUME NEW person \in People, RemoveMember(u, person) PROVE EveryoneIsPlaced'
    <3> DEFINE unit == [units[u] EXCEPT !.members = @ \ {person}]
    <3>1. /\ unit \in Unit /\ unit.members = units[u].members \ {person}
          /\ unit.head = units[u].head /\ unit.archived = units[u].archived
      BY <1>1 DEF Unit
    <3> HIDE DEF unit
    <3>2. Replace(u, unit) /\ MayRemove(u, person)
      BY <2>5 DEF RemoveMember, unit
    <3>3. QED
      BY <1>2, <3>1, <3>2
  <2>6. ASSUME NEW person \in People, AssignHead(u, person) PROVE EveryoneIsPlaced'
    <3> DEFINE unit == [units[u] EXCEPT !.head = person]
    <3>1. /\ unit \in Unit /\ unit.members = units[u].members
          /\ unit.head = person /\ unit.archived = units[u].archived
      BY <1>1 DEF Unit
    <3> HIDE DEF unit
    <3>2. Replace(u, unit) /\ person \in units[u].members
      BY <2>6 DEF AssignHead, unit
    <3>3. QED
      BY <1>2, <3>1, <3>2
  <2>7. CASE ClearHead(u)
    <3> DEFINE unit == [units[u] EXCEPT !.head = Nobody]
    <3>1. /\ unit \in Unit /\ unit.members = units[u].members
          /\ unit.head = Nobody /\ unit.archived = units[u].archived
      BY <1>1 DEF Unit
    <3> HIDE DEF unit
    <3>2. Replace(u, unit)
      BY <2>7 DEF ClearHead, unit
    <3>3. QED
      BY <1>2, <3>1, <3>2
  <2>8. QED
    BY <2>1, <2>2, <2>3, <2>4, <2>5, <2>6, <2>7 DEF Reshape, Staff
<1>3. CASE /\ unit.members = units[u].members
           /\ unit.head \in units[u].members \cup {Nobody}
           /\ unit.archived => unit.members = {}
  <2>1. Places(u, unit)
    BY <1>3 DEF Places
  <2>2. QED
    BY <1>2, <2>1, ReplaceKeepsPlaces
<1>4. ASSUME NEW person \in People,
             MayAddMember(u, person),
             unit.members = units[u].members \cup {person},
             unit.head = units[u].head,
             unit.archived = units[u].archived
      PROVE  EveryoneIsPlaced'
  <2>1. ~units[u].archived /\ \A v \in Existing : person \notin units[v].members
    BY <1>4 DEF MayAddMember, Live, UnitOf
  <2>2. Places(u, unit)
    BY <1>4, <2>1 DEF Places
  <2>3. QED
    BY <1>2, <2>2, ReplaceKeepsPlaces
<1>5. ASSUME NEW person \in People,
             MayRemove(u, person),
             unit.members = units[u].members \ {person},
             unit.head = units[u].head,
             unit.archived = units[u].archived
      PROVE  EveryoneIsPlaced'
  <2>1. Places(u, unit)
    BY <1>5 DEF Places, MayRemove
  <2>2. QED
    BY <1>2, <2>1, ReplaceKeepsPlaces
<1>6. QED
  BY <1>2, <1>3, <1>4, <1>5

\* A new unit is live and empty.
LEMMA CommitKeepsPlaces ==
  ASSUME TreeInv, EveryoneIsPlaced, NEW c \in creating, CommitCreate(c)
  PROVE  EveryoneIsPlaced'
<1>1. /\ Existing' = Existing \cup {c.unit} /\ c.unit \notin Existing
      /\ units'[c.unit] = NewUnit(c.parent, c.name)
      /\ \A v \in Existing : units'[v] = units[v]
  BY DEF CommitCreate, TreeInv, CreatingInv, Existing
<1>2. /\ units'[c.unit].members = {} /\ units'[c.unit].head = Nobody
      /\ units'[c.unit].archived = FALSE
  BY <1>1 DEF NewUnit
<1>3. QED
  BY <1>1, <1>2 DEF EveryoneIsPlaced, OneUnitEach, HeadIsMember, ArchivedIsEmpty

\* Whatever is added, removed, headed, moved and archived, each person has at
\* most one place in the chart and no archived unit answers for anyone.
THEOREM OnePlaceEach == Spec => []EveryoneIsPlaced
<1>1. Init => EveryoneIsPlaced
  BY DEF Init, EveryoneIsPlaced, OneUnitEach, HeadIsMember, ArchivedIsEmpty, Existing
<1>2. TreeInv /\ EveryoneIsPlaced /\ [Next]_vars => EveryoneIsPlaced'
  <2> SUFFICES ASSUME TreeInv, EveryoneIsPlaced, [Next]_vars PROVE EveryoneIsPlaced'
    OBVIOUS
  <2>1. CASE UNCHANGED units
    BY <2>1 DEF EveryoneIsPlaced, OneUnitEach, HeadIsMember, ArchivedIsEmpty, Existing
  <2>2. ASSUME NEW c \in creating, CommitCreate(c) PROVE EveryoneIsPlaced'
    BY <2>2, CommitKeepsPlaces
  <2>3. ASSUME NEW u \in Existing, Reshape(u) \/ Staff(u) PROVE EveryoneIsPlaced'
    BY <2>3, ExclusiveKeepsPlaces DEF TreeInv
  <2>4. QED
    BY <2>1, <2>2, <2>3 DEF Next, Create, CheckCreate, RefuseCreate, vars
<1>3. QED
  BY <1>1, <1>2, TreeInit, TreeInductive, PTL DEF Spec

-----------------------------------------------------------------------------
(* The rules a racing creation breaks.                                     *)

\* What a new record for u must be for u to be neither ambiguous nor orphaned.
Clear(u, unit) ==
  unit.archived \/
    /\ \A v \in Live : v # u /\ unit.parent = units[v].parent /\ unit.name = units[v].name
                         => {u, v} \cap raced # {}
    /\ unit.parent # NoUnit /\ unit.parent \notin Live => u \in raced

\* No live unit but perhaps a raced one hangs under u.
NothingUnder(u) == \A v \in Live : units[v].parent = u => v \in raced

LEMMA ReplaceKeepsClear ==
  ASSUME TypeOK, AmbiguousOnlyAfterRace, NEW u \in Existing, NEW unit \in Unit,
         Replace(u, unit), Clear(u, unit), unit.parent # u \/ ~unit.archived,
         units[u].archived => unit.archived,
         u \in Live /\ unit.archived => NothingUnder(u)
  PROVE  AmbiguousOnlyAfterRace'
<1>1. /\ Existing' = Existing /\ units'[u] = unit /\ raced' = raced
      /\ \A v \in Existing : v # u => units'[v] = units[v]
  BY ReplaceKeepsExisting DEF Replace
<1>2. /\ Live' \subseteq Live
      /\ \A v \in Live : v # u => v \in Live'
      /\ ~unit.archived => Live' = Live
  BY <1>1 DEF Live
<1>3. ASSUME NEW v \in Live', NEW w \in Live', v # w,
             units'[v].parent = units'[w].parent, units'[v].name = units'[w].name
      PROVE  {v, w} \cap raced # {}
  <2>1. CASE v # u /\ w # u
    BY <1>1, <1>2, <1>3, <2>1 DEF AmbiguousOnlyAfterRace, Live
  <2>2. CASE v = u
    BY <1>1, <1>2, <1>3, <2>2 DEF Clear, Live
  <2>3. CASE w = u
    <3>1. {u, v} \cap raced # {}
      BY <1>1, <1>2, <1>3, <2>3 DEF Clear, Live
    <3>2. QED
      BY <2>3, <3>1
  <2>4. QED
    BY <2>1, <2>2, <2>3
<1>4. ASSUME NEW v \in Live', units'[v].parent # NoUnit, units'[v].parent \notin Live'
      PROVE  v \in raced
  <2>1. CASE v = u
    BY <1>1, <1>2, <1>4, <2>1 DEF Clear, Live
  <2>2. CASE v # u
    <3>1. v \in Live /\ units'[v].parent = units[v].parent
      BY <1>1, <1>2, <2>2 DEF Live
    <3>2. CASE units[v].parent \notin Live
      BY <1>4, <3>1, <3>2 DEF AmbiguousOnlyAfterRace, IsRoot
    <3>3. CASE units[v].parent \in Live
      <4>1. units[v].parent = u /\ unit.archived
        BY <1>2, <1>4, <3>1, <3>3
      <4>2. QED
        BY <3>1, <3>3, <4>1 DEF NothingUnder
    <3>4. QED
      BY <3>2, <3>3
  <2>3. QED
    BY <2>1, <2>2
<1>5. QED
  BY <1>1, <1>3, <1>4 DEF AmbiguousOnlyAfterRace, IsRoot

LEMMA ExclusiveKeepsClear ==
  ASSUME TypeOK, NoLoop, AmbiguousOnlyAfterRace, NEW u \in Existing, Reshape(u) \/ Staff(u)
  PROVE  AmbiguousOnlyAfterRace'
<1>1. units[u] \in Unit /\ u \in UnitIds
  BY DEF TypeOK
<1>2. units[u].parent # u
  <2>1. \E v \in {u} : units[v].parent \notin {u}
    BY DEF NoLoop
  <2>2. QED
    BY <2>1
<1>3. ASSUME NEW n \in Names, Rename(u, n) PROVE AmbiguousOnlyAfterRace'
  <2> DEFINE unit == [units[u] EXCEPT !.name = n]
  <2>1. /\ unit \in Unit /\ unit.parent = units[u].parent /\ unit.name = n
        /\ unit.archived = units[u].archived
    BY <1>1 DEF Unit
  <2> HIDE DEF unit
  <2>2. Replace(u, unit) /\ ~HasSiblingNamed(units[u].parent, n, u)
    BY <1>3 DEF Rename, unit
  <2>3. Clear(u, unit)
    BY <2>1, <2>2 DEF Clear, HasSiblingNamed, AmbiguousOnlyAfterRace, Live, IsRoot
  <2>4. QED
    BY <1>2, <2>1, <2>2, <2>3, ReplaceKeepsClear DEF Live
<1>4. ASSUME NEW p \in Existing, Move(u, p) PROVE AmbiguousOnlyAfterRace'
  <2> DEFINE unit == [units[u] EXCEPT !.parent = p]
  <2>1. /\ unit \in Unit /\ unit.parent = p /\ unit.name = units[u].name
        /\ unit.archived = units[u].archived
    BY <1>1 DEF Unit, TypeOK
  <2> HIDE DEF unit
  <2>2. Replace(u, unit) /\ MayMove(u, p)
    BY <1>4 DEF Move, unit
  <2>3. Clear(u, unit)
    BY <2>1, <2>2 DEF Clear, HasSiblingNamed, MayMove
  <2>4. QED
    BY <2>1, <2>2, <2>3, ReplaceKeepsClear DEF Live, MayMove
<1>5. CASE Archive(u)
  <2> DEFINE unit == [units[u] EXCEPT !.archived = TRUE]
  <2>1. unit \in Unit /\ unit.parent = units[u].parent /\ unit.archived
    BY <1>1 DEF Unit
  <2> HIDE DEF unit
  <2>2. Replace(u, unit) /\ MayArchive(u)
    BY <1>5 DEF Archive, unit
  <2>3. Clear(u, unit) /\ NothingUnder(u)
    BY <2>1, <2>2 DEF Clear, NothingUnder, MayArchive, UnitsUnder, Live
  <2>4. QED
    BY <1>2, <2>1, <2>2, <2>3, ReplaceKeepsClear
<1>6. ASSUME Staff(u) PROVE AmbiguousOnlyAfterRace'
  <2>1. /\ units'[u].parent = units[u].parent /\ units'[u].name = units[u].name
        /\ units'[u].archived = units[u].archived
    BY <1>1, <1>6 DEF Staff, AddMember, RemoveMember, AssignHead, ClearHead, Replace, Unit,
                      Existing, TypeOK
  <2>2. PICK unit \in Unit : Replace(u, unit)
    BY <1>6, ExclusiveReplaces
  <2>3. units'[u] = unit
    BY <2>2, ReplaceKeepsExisting
  <2>4. Clear(u, unit)
    BY <2>1, <2>3 DEF Clear, AmbiguousOnlyAfterRace, Live, IsRoot
  <2>5. QED
    BY <1>2, <2>1, <2>2, <2>3, <2>4, ReplaceKeepsClear DEF Live
<1>7. QED
  BY <1>3, <1>4, <1>5, <1>6 DEF Reshape

LEMMA CommitKeepsClear ==
  ASSUME TreeInv, AmbiguousOnlyAfterRace, NEW c \in creating, CommitCreate(c)
  PROVE  AmbiguousOnlyAfterRace'
<1>1. /\ Existing' = Existing \cup {c.unit} /\ c.unit \notin Existing
      /\ units'[c.unit] = NewUnit(c.parent, c.name)
      /\ \A v \in Existing : units'[v] = units[v]
      /\ raced \subseteq raced'
      /\ c.stale => c.unit \in raced'
  BY DEF CommitCreate, TreeInv, CreatingInv, Existing
<1>2. Live' = Live \cup {c.unit} /\ c.unit \notin Live
  BY <1>1 DEF Live, NewUnit
<1>3. /\ units'[c.unit].parent = c.parent /\ units'[c.unit].name = c.name
      /\ \A v \in Live : units'[v] = units[v]
  BY <1>1 DEF NewUnit, Live
<1>4. ~c.stale => MayCreate(c.parent, c.name)
  BY DEF TreeInv, CreatingInv
<1>5. ~c.stale => \A v \in Live : ~(units[v].parent = c.parent /\ units[v].name = c.name)
  <2>1. \A v \in Live : v \in Existing /\ v # NoUnit
    BY OrgStructureAssumption DEF TreeInv, TypeOK, Live
  <2>2. QED
    BY <1>4, <2>1 DEF MayCreate, HasSiblingNamed
<1>6. ~c.stale => c.parent = NoUnit \/ c.parent \in Live
  BY <1>4 DEF MayCreate
<1>7. ASSUME NEW v \in Live', NEW w \in Live', v # w,
             units'[v].parent = units'[w].parent, units'[v].name = units'[w].name
      PROVE  {v, w} \cap raced' # {}
  <2>1. CASE v \in Live /\ w \in Live
    <3>1. {v, w} \cap raced # {}
      BY <1>3, <1>7, <2>1 DEF AmbiguousOnlyAfterRace
    <3>2. QED
      BY <1>1, <3>1
  <2>2. CASE v = c.unit /\ w \in Live
    BY <1>1, <1>3, <1>5, <1>7, <2>2
  <2>3. CASE w = c.unit /\ v \in Live
    BY <1>1, <1>3, <1>5, <1>7, <2>3
  <2>4. QED
    BY <1>2, <1>7, <2>1, <2>2, <2>3
<1>8. ASSUME NEW v \in Live', units'[v].parent # NoUnit, units'[v].parent \notin Live'
      PROVE  v \in raced'
  <2>1. CASE v \in Live
    BY <1>1, <1>2, <1>3, <1>8, <2>1 DEF AmbiguousOnlyAfterRace, IsRoot
  <2>2. CASE v = c.unit
    BY <1>1, <1>2, <1>3, <1>6, <1>8, <2>2
  <2>3. QED
    BY <1>2, <2>1, <2>2
<1>9. QED
  BY <1>7, <1>8 DEF AmbiguousOnlyAfterRace, IsRoot

\* A creation appended to a chart other than the one it was checked on is the
\* only source of twin names and of live units under archived ones.
THEOREM OnlyRacesMakeAmbiguity == Spec => []AmbiguousOnlyAfterRace
<1>1. Init => AmbiguousOnlyAfterRace
  BY DEF Init, AmbiguousOnlyAfterRace, Live, Existing
<1>2. TreeInv /\ AmbiguousOnlyAfterRace /\ [Next]_vars => AmbiguousOnlyAfterRace'
  <2> SUFFICES ASSUME TreeInv, AmbiguousOnlyAfterRace, [Next]_vars
               PROVE  AmbiguousOnlyAfterRace'
    OBVIOUS
  <2>1. CASE UNCHANGED <<units, raced>>
    BY <2>1 DEF AmbiguousOnlyAfterRace, Live, Existing, IsRoot
  <2>2. ASSUME NEW c \in creating, CommitCreate(c) PROVE AmbiguousOnlyAfterRace'
    BY <2>2, CommitKeepsClear
  <2>3. ASSUME NEW u \in Existing, Reshape(u) \/ Staff(u) PROVE AmbiguousOnlyAfterRace'
    BY <2>3, ExclusiveKeepsClear DEF TreeInv, ChartIsATree
  <2>4. QED
    BY <2>1, <2>2, <2>3 DEF Next, Create, CheckCreate, RefuseCreate, vars
<1>3. QED
  BY <1>1, <1>2, TreeInit, TreeInductive, PTL DEF Spec

-----------------------------------------------------------------------------
(* Looking down and looking up.                                            *)

\* The least closed sets are closed themselves.
LEMMA WalkUpClosed ==
  ASSUME NEW u \in Existing
  PROVE  /\ u \in WalkUp(u)
         /\ \A a \in WalkUp(u) : units[a].parent \in Existing
                                   => units[a].parent \in WalkUp(u)
<1>1. u \in WalkUp(u)
  BY DEF WalkUp
<1>2. ASSUME NEW a \in WalkUp(u), units[a].parent \in Existing
      PROVE  units[a].parent \in WalkUp(u)
  <2> SUFFICES ASSUME NEW S \in SUBSET Existing, u \in S, IsUpwardClosed(S)
               PROVE  units[a].parent \in S
    BY <1>2 DEF WalkUp
  <2>1. a \in S
    BY DEF WalkUp
  <2>2. QED
    BY <1>2, <2>1 DEF IsUpwardClosed
<1>3. QED
  BY <1>1, <1>2

\* The walk of a child goes through its parent and on.
LEMMA WalkUpFromChild ==
  ASSUME NEW c \in Existing, units[c].parent \in Existing
  PROVE  WalkUp(units[c].parent) \subseteq WalkUp(c)
<1> SUFFICES ASSUME NEW a \in WalkUp(units[c].parent),
                    NEW S \in SUBSET Existing, c \in S, IsUpwardClosed(S)
             PROVE  a \in S
  BY DEF WalkUp
<1>1. units[c].parent \in S
  BY DEF IsUpwardClosed
<1>2. QED
  BY <1>1 DEF WalkUp

\* What lies below a child lies below its parent.
LEMMA DescendantsOfChild ==
  ASSUME NEW u \in Existing, NEW c \in Existing, units[c].parent = u
  PROVE  Descendants(c) \subseteq Descendants(u)
<1> SUFFICES ASSUME NEW d \in Descendants(c),
                    NEW S \in SUBSET Existing, IsDownwardClosed(S, u)
             PROVE  d \in S
  BY DEF Descendants
<1>1. c \in S
  BY DEF IsDownwardClosed, UnitsUnder
<1>2. IsDownwardClosed(S, c)
  BY <1>1 DEF IsDownwardClosed
<1>3. QED
  BY <1>2 DEF Descendants

\* A unit is on the way up from another exactly if that one is it or below it.
LEMMA UpIsDown ==
  ASSUME NEW a \in Existing, NEW v \in Existing
  PROVE  a \in WalkUp(v) <=> v \in Descendants(a) \cup {a}
<1>1. ASSUME a \in WalkUp(v) PROVE v \in Descendants(a) \cup {a}
  <2> DEFINE S == {w \in Existing : v \in Descendants(w) \cup {w}}
  <2>1. IsUpwardClosed(S)
    <3> SUFFICES ASSUME NEW w \in S, units[w].parent \in Existing
                 PROVE  v \in Descendants(units[w].parent)
      BY DEF IsUpwardClosed
    <3>1. w \in Descendants(units[w].parent)
      BY DescendantsClosed
    <3>2. Descendants(w) \subseteq Descendants(units[w].parent)
      BY DescendantsOfChild
    <3>3. QED
      BY <3>1, <3>2
  <2>2. v \in S /\ S \in SUBSET Existing
    OBVIOUS
  <2>3. a \in S
    BY <1>1, <2>1, <2>2 DEF WalkUp
  <2>4. QED
    BY <2>3
<1>2. ASSUME v \in Descendants(a) PROVE a \in WalkUp(v)
  <2> DEFINE S == {w \in Existing : a \in WalkUp(w)}
  <2>1. a \in S
    BY WalkUpClosed
  <2>2. ASSUME NEW w \in S, NEW c \in UnitsUnder(w) PROVE c \in S
    <3>1. c \in Existing /\ units[c].parent = w /\ w \in Existing
      BY DEF UnitsUnder
    <3>2. QED
      BY <3>1, WalkUpFromChild
  <2>3. IsDownwardClosed(S, a)
    BY <2>1, <2>2 DEF IsDownwardClosed
  <2>4. v \in S
    BY <1>2, <2>3 DEF Descendants
  <2>5. QED
    BY <2>4
<1>3. QED
  BY <1>1, <1>2, WalkUpClosed

\* At every moment the team screen lists exactly the people somebody may
\* decide for: the search down and the walk up agree because heads are members
\* and archived units are empty.
THEOREM ScreenIsAuthority == Spec => []ScreenMatchesAuthority
<1>1. TypeOK /\ EveryoneIsPlaced => ScreenMatchesAuthority
  <2> SUFFICES ASSUME TypeOK, EveryoneIsPlaced, NEW s \in People, NEW p \in People
               PROVE  p \in SubordinatesOf(s) <=> IsAbove(s, p)
    BY DEF ScreenMatchesAuthority
  <2> DEFINE headed == {u \in Live : units[u].head = s}
             reached == headed \cup UNION {Descendants(u) : u \in headed}
  <2>1. \A a \in Existing : units[a].head = s => a \in headed
    BY OrgStructureAssumption DEF EveryoneIsPlaced, HeadIsMember, ArchivedIsEmpty, Live
  <2>2. headed \subseteq Existing /\ \A a \in Existing : Descendants(a) \subseteq Existing
    BY DEF Live, Descendants
  <2>3. p \in SubordinatesOf(s) <=> p # s /\ \E v \in reached : p \in units[v].members
    BY DEF SubordinatesOf
  <2>4. \A v : v \in reached <=> \E a \in headed : v \in Descendants(a) \cup {a}
    OBVIOUS
  <2>5. IsAbove(s, p) <=> /\ s # p
                          /\ \E v \in Existing : /\ p \in units[v].members
                                                 /\ \E a \in WalkUp(v) : units[a].head = s
    BY DEF IsAbove, UnitOf
  <2>6. \A v \in Existing : (\E a \in WalkUp(v) : units[a].head = s) <=> v \in reached
    <3> SUFFICES ASSUME NEW v \in Existing
                 PROVE  (\E a \in WalkUp(v) : units[a].head = s) <=> v \in reached
      OBVIOUS
    <3>1. WalkUp(v) \subseteq Existing
      BY DEF WalkUp
    <3>2. QED
      BY <2>1, <2>2, <2>4, <3>1, UpIsDown
  <2>7. reached \subseteq Existing
    BY <2>2
  <2> HIDE DEF reached
  <2>8. QED
    BY <2>3, <2>5, <2>6, <2>7
<1>2. QED
  BY <1>1, TypeCorrect, OnePlaceEach, PTL

-----------------------------------------------------------------------------
(* The supervisor.                                                         *)

\* A walk is its first unit and the walk from the parent, and nothing else.
LEMMA WalkUpSplits ==
  ASSUME NEW c \in Existing
  PROVE  /\ units[c].parent \in Existing => WalkUp(c) \subseteq {c} \cup WalkUp(units[c].parent)
         /\ units[c].parent \notin Existing => WalkUp(c) \subseteq {c}
<1>1. ASSUME units[c].parent \in Existing
      PROVE  WalkUp(c) \subseteq {c} \cup WalkUp(units[c].parent)
  <2> DEFINE S == {c} \cup WalkUp(units[c].parent)
  <2>1. S \in SUBSET Existing /\ c \in S
    BY DEF WalkUp
  <2>2. IsUpwardClosed(S)
    BY <1>1, WalkUpClosed DEF IsUpwardClosed
  <2>3. QED
    BY <2>1, <2>2 DEF WalkUp
<1>2. ASSUME units[c].parent \notin Existing PROVE WalkUp(c) \subseteq {c}
  <2>1. IsUpwardClosed({c}) /\ {c} \in SUBSET Existing
    BY <1>2 DEF IsUpwardClosed
  <2>2. QED
    BY <2>1 DEF WalkUp
<1>3. QED
  BY <1>1, <1>2

\* The walk from a unit on the way goes on along the way.
LEMMA WalkUpWithin ==
  ASSUME NEW u \in Existing, NEW b \in WalkUp(u)
  PROVE  b \in Existing /\ WalkUp(b) \subseteq WalkUp(u)
<1>1. b \in Existing /\ WalkUp(u) \in SUBSET Existing
  BY DEF WalkUp
<1>2. IsUpwardClosed(WalkUp(u))
  BY WalkUpClosed DEF IsUpwardClosed
<1>3. QED
  BY <1>1, <1>2 DEF WalkUp

\* Two units each on the way up from the other are one unit: there is no loop.
LEMMA WalkUpOneWay ==
  ASSUME NoLoop, NEW a \in Existing, NEW b \in Existing, a \in WalkUp(b), b \in WalkUp(a)
  PROVE  a = b
<1> SUFFICES ASSUME a # b PROVE FALSE
  OBVIOUS
<1> DEFINE T == {c \in Existing : c \in WalkUp(b) /\ b \in WalkUp(c)}
<1>1. PICK c \in T : units[c].parent \notin T
  <2>1. b \in T /\ T \in SUBSET Existing
    BY WalkUpClosed
  <2>2. QED
    BY <2>1 DEF NoLoop
<1>2. CASE c # b
  <2>1. units[c].parent \in Existing /\ b \in WalkUp(units[c].parent)
    BY <1>1, <1>2, WalkUpSplits
  <2>2. units[c].parent \in WalkUp(b)
    BY <1>1, <2>1, WalkUpClosed
  <2>3. QED
    BY <1>1, <2>1, <2>2
<1>3. CASE c = b
  <2>1. units[b].parent \in Existing /\ a \in WalkUp(units[b].parent)
    BY WalkUpSplits
  <2>2. b \in WalkUp(units[b].parent)
    BY <2>1, WalkUpWithin
  <2>3. units[b].parent \in WalkUp(b)
    BY <2>1, WalkUpClosed
  <2>4. QED
    BY <1>1, <1>3, <2>1, <2>2, <2>3
<1>4. QED
  BY <1>2, <1>3

\* Of the units on the way up that are marked in some way, one comes first.
LEMMA OneIsNearest ==
  ASSUME NoLoop, NEW u \in Existing, NEW H \in SUBSET WalkUp(u), H # {}
  PROVE  \E b \in H : {c \in H : H \subseteq WalkUp(c)} = {b}
<1> DEFINE S == {a \in WalkUp(u) : H \subseteq WalkUp(a)}
<1>1. WalkUp(u) \subseteq Existing
  BY DEF WalkUp
<1>2. PICK b \in S : units[b].parent \notin S
  <2>1. u \in S /\ S \in SUBSET Existing
    BY <1>1, WalkUpClosed
  <2>2. QED
    BY <2>1 DEF NoLoop
<1>3. b \in H
  <2>1. b \in Existing /\ H \subseteq WalkUp(b)
    BY <1>1, <1>2
  <2>2. CASE units[b].parent \notin Existing
    BY <2>1, <2>2, WalkUpSplits
  <2>3. CASE units[b].parent \in Existing
    <3>1. units[b].parent \in WalkUp(u)
      BY <1>2, <2>3, WalkUpClosed
    <3>2. PICK h \in H : h \notin WalkUp(units[b].parent)
      BY <1>2, <3>1
    <3>3. h = b
      BY <2>1, <2>3, <3>2, WalkUpSplits
    <3>4. QED
      BY <3>3
  <2>4. QED
    BY <2>2, <2>3
<1>4. ASSUME NEW c \in H, H \subseteq WalkUp(c) PROVE c = b
  <2>1. b \in Existing /\ c \in Existing /\ c \in WalkUp(b) /\ b \in WalkUp(c)
    BY <1>1, <1>2, <1>3, <1>4
  <2>2. QED
    BY <2>1, WalkUpOneWay
<1>5. QED
  BY <1>2, <1>3, <1>4

\* The supervisor shown is one of those who may decide, and one alone, and there
\* is one whenever anybody may decide: the walk passes whoever may.
THEOREM SupervisorAlwaysMayDecide == Spec => []SupervisorMayDecide
<1>1. EveryoneIsPlaced /\ ChartIsATree => SupervisorMayDecide
  <2> SUFFICES ASSUME EveryoneIsPlaced, ChartIsATree, NEW p \in People
               PROVE  LET above == {s \in People : IsAbove(s, p)}
                      IN  /\ SupervisorOf(p) \subseteq above
                          /\ Cardinality(SupervisorOf(p)) = IF above = {} THEN 0 ELSE 1
    BY DEF SupervisorMayDecide
  <2> DEFINE above == {s \in People : IsAbove(s, p)}
             headed(u) == {a \in WalkUp(u) : units[a].head \in People \ {p}}
             nearest(u) == {b \in headed(u) : headed(u) \subseteq WalkUp(b)}
  <2>1. SupervisorOf(p) = {units[a].head : a \in UNION {nearest(u) : u \in UnitOf(p)}}
    BY DEF SupervisorOf, NearestHead
  <2>2. above = {units[a].head : a \in UNION {headed(u) : u \in UnitOf(p)}}
    BY DEF IsAbove
  <2>3. SupervisorOf(p) \subseteq above
    BY <2>1, <2>2
  <2>4. \A u, v \in UnitOf(p) : u = v
    BY DEF UnitOf, EveryoneIsPlaced, OneUnitEach
  <2>5. ASSUME above # {} PROVE \E s : SupervisorOf(p) = {s}
    <3>1. PICK u \in UnitOf(p) : headed(u) # {}
      BY <2>2, <2>5
    <3>2. UnitOf(p) = {u} /\ u \in Existing /\ headed(u) \in SUBSET WalkUp(u)
      BY <2>4, <3>1 DEF UnitOf
    <3>3. PICK b \in headed(u) : nearest(u) = {b}
      <4> HIDE DEF headed
      <4>1. QED
        BY <3>1, <3>2, OneIsNearest DEF ChartIsATree
    <3>4. UNION {nearest(v) : v \in UnitOf(p)} = {b}
      BY <3>2, <3>3
    <3>5. SupervisorOf(p) = {units[b].head}
      BY <2>1, <3>4
    <3>6. QED
      BY <3>5
  <2>6. CASE above = {}
    <3>1. SupervisorOf(p) = {}
      BY <2>3, <2>6
    <3>2. QED
      BY <2>3, <2>6, <3>1, FS_EmptySet
  <2>7. CASE above # {}
    <3>1. Cardinality(SupervisorOf(p)) = 1
      BY <2>5, <2>7, FS_Singleton
    <3>2. QED
      BY <2>3, <2>7, <3>1
  <2>8. QED
    BY <2>6, <2>7
<1>2. QED
  BY <1>1, OneTree, OnePlaceEach, PTL

-----------------------------------------------------------------------------
(* The line of command.                                                    *)

\* Of two units on one way up, one is on the way up from the other.
LEMMA WalkUpIsALine ==
  ASSUME NoLoop, NEW u \in Existing, NEW a \in WalkUp(u), NEW b \in WalkUp(u)
  PROVE  a \in WalkUp(b) \/ b \in WalkUp(a)
<1> DEFINE H == {a, b}
<1>1. H \in SUBSET WalkUp(u) /\ H # {}
  OBVIOUS
<1>2. PICK c \in H : {d \in H : H \subseteq WalkUp(d)} = {c}
  <2> HIDE DEF H
  <2>1. QED
    BY <1>1, OneIsNearest
<1>3. H \subseteq WalkUp(c)
  BY <1>2
<1>4. QED
  BY <1>3

\* Who sits in a unit or heads one, in a chart where everybody has one place.
LEMMA HeadsAndSeats ==
  ASSUME EveryoneIsPlaced, NEW p \in People
  PROVE  /\ UnitOf(p) \subseteq Existing
         /\ \A u, v \in UnitOf(p) : u = v
         /\ \A a \in Existing : units[a].head = p => p = Nobody \/ a \in UnitOf(p)
BY DEF EveryoneIsPlaced, OneUnitEach, HeadIsMember, UnitOf

\* In every chart those above somebody are one line of command: a head sits in the
\* unit they head, the way up has no fork, and it never comes back.
THEOREM AuthorityIsALine == Spec => []AuthorityIsOneLine
<1>1. EveryoneIsPlaced /\ ChartIsATree => AuthorityIsOneLine
  <2> SUFFICES ASSUME EveryoneIsPlaced, ChartIsATree,
                      NEW s \in People, NEW t \in People, NEW p \in People
               PROVE  /\ IsAbove(s, t) => ~IsAbove(t, s)
                      /\ IsAbove(s, t) /\ IsAbove(t, p) => IsAbove(s, p)
                      /\ IsAbove(s, p) /\ IsAbove(t, p) /\ s # t
                           => IsAbove(s, t) \/ IsAbove(t, s)
    BY DEF AuthorityIsOneLine
  <2>1. NoLoop
    BY DEF ChartIsATree
  <2>2. ASSUME NEW x \in People, NEW y \in People, IsAbove(x, y)
        PROVE  \E u \in UnitOf(y) : \E a \in WalkUp(u) \cap UnitOf(x) : units[a].head = x
    <3>1. PICK u \in UnitOf(y) : \E a \in WalkUp(u) : units[a].head = x
      BY <2>2 DEF IsAbove
    <3>2. PICK a \in WalkUp(u) : units[a].head = x
      BY <3>1
    <3>3. a \in Existing
      BY <3>2 DEF WalkUp
    <3>4. QED
      BY <3>2, <3>3, HeadsAndSeats, OrgStructureAssumption
  <2>3. ASSUME IsAbove(s, t) PROVE ~IsAbove(t, s)
    <3> SUFFICES ASSUME IsAbove(t, s) PROVE FALSE
      OBVIOUS
    <3>1. PICK u \in UnitOf(t) : \E a \in WalkUp(u) \cap UnitOf(s) : units[a].head = s
      BY <2>2, <2>3
    <3>2. PICK v \in UnitOf(s) : \E a \in WalkUp(v) \cap UnitOf(t) : units[a].head = t
      BY <2>2
    <3>3. /\ u \in Existing /\ v \in Existing
          /\ v \in WalkUp(u) /\ units[v].head = s
          /\ u \in WalkUp(v) /\ units[u].head = t
      BY <3>1, <3>2, HeadsAndSeats
    <3>4. u = v
      BY <2>1, <3>3, WalkUpOneWay
    <3>5. QED
      BY <2>3, <3>3, <3>4 DEF IsAbove
  <2>4. ASSUME IsAbove(s, t), IsAbove(t, p) PROVE IsAbove(s, p)
    <3>1. PICK u \in UnitOf(p) : \E a \in WalkUp(u) \cap UnitOf(t) : units[a].head = t
      BY <2>2, <2>4
    <3>2. PICK v \in UnitOf(t) : \E a \in WalkUp(v) : units[a].head = s
      BY <2>4 DEF IsAbove
    <3>3. u \in Existing /\ v \in WalkUp(u)
      BY <3>1, <3>2, HeadsAndSeats
    <3>4. \E a \in WalkUp(u) : units[a].head = s
      BY <3>2, <3>3, WalkUpWithin
    <3>5. s # p
      BY <2>3, <2>4
    <3>6. QED
      BY <3>4, <3>5 DEF IsAbove
  <2>5. ASSUME IsAbove(s, p), IsAbove(t, p), s # t PROVE IsAbove(s, t) \/ IsAbove(t, s)
    <3>1. PICK u \in UnitOf(p) : \E a \in WalkUp(u) \cap UnitOf(s) : units[a].head = s
      BY <2>2, <2>5
    <3>2. PICK a \in WalkUp(u) \cap UnitOf(s) : units[a].head = s
      BY <3>1
    <3>3. PICK b \in WalkUp(u) \cap UnitOf(t) : units[b].head = t
      BY <2>2, <2>5, HeadsAndSeats
    <3>4. a \in WalkUp(b) \/ b \in WalkUp(a)
      BY <2>1, <3>2, <3>3, HeadsAndSeats, WalkUpIsALine
    <3>5. QED
      BY <2>5, <3>2, <3>3, <3>4 DEF IsAbove
  <2>6. QED
    BY <2>3, <2>4, <2>5
<1>2. QED
  BY <1>1, OneTree, OnePlaceEach, PTL
=============================================================================
