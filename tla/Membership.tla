----------------------------- MODULE Membership -----------------------------
(***************************************************************************)
(* What the Teams module promises about who is where: a person is on one   *)
(* team at most, joins a team only from none, and never leaves a team with *)
(* nobody on it.  One step at a time: there are no handlers here, no       *)
(* versions, no reservations and no messages.                              *)
(***************************************************************************)
CONSTANTS TeamIds, UserIds, NoTeam

VARIABLES
  founded,  \* the teams there are
  place     \* where each person is

view == <<founded, place>>

Init ==
  /\ founded = {}
  /\ place = [u \in UserIds |-> NoTeam]

Found(t, people) ==
  /\ t \notin founded
  /\ people # {}
  /\ \A u \in people : place[u] = NoTeam
  /\ founded' = founded \cup {t}
  /\ place' = [u \in UserIds |-> IF u \in people THEN t ELSE place[u]]

Join(u, t) ==
  /\ t \in founded
  /\ place[u] = NoTeam
  /\ place' = [place EXCEPT ![u] = t]
  /\ UNCHANGED founded

Leave(u) ==
  /\ place[u] \in founded
  /\ \E v \in UserIds : v # u /\ place[v] = place[u]
  /\ place' = [place EXCEPT ![u] = NoTeam]
  /\ UNCHANGED founded

Next ==
  \/ \E t \in TeamIds, people \in SUBSET UserIds : Found(t, people)
  \/ \E u \in UserIds : Leave(u) \/ \E t \in TeamIds : Join(u, t)

Spec == Init /\ [][Next]_view
=============================================================================
