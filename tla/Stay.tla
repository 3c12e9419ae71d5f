-------------------------------- MODULE Stay --------------------------------
(***************************************************************************)
(* What the Workers module promises about people's stays on projects: each *)
(* is planned once and stays with its person, its seat and its period are  *)
(* revised only while it lasts, it starts and ends once, a period is never *)
(* turned round, and what has ended is left alone.  One command at a time: *)
(* there are no checks on a copy here, no calls in flight, no versions.    *)
(***************************************************************************)
EXTENDS Integers

CONSTANTS
  Assignments, Workers, Positions, Days, Ends,  \* identities, first and last days
  NoEnd,                                        \* the last day of an open end
  Unplanned                                     \* a stay nobody has planned yet

VARIABLE stay   \* each person's stay: who, where, from, to and its status

InOrder(from, to) == to = NoEnd \/ to >= from

Init == stay = [a \in Assignments |-> Unplanned]

Plan(a, w, p, from, to) ==
  /\ stay[a].status = "Unplanned"
  /\ InOrder(from, to)
  /\ stay' = [stay EXCEPT ![a] = [worker |-> w, position |-> p, from |-> from,
                                  to |-> to, status |-> "Planned"]]

Revise(a, p, from, to) ==
  /\ stay[a].status \in {"Planned", "Active"}
  /\ InOrder(from, to)
  /\ stay' = [stay EXCEPT ![a].position = p, ![a].from = from, ![a].to = to]

Start(a) ==
  /\ stay[a].status = "Planned"
  /\ stay' = [stay EXCEPT ![a].status = "Active"]

End(a, status, to) ==
  /\ stay[a].status = "Active"
  /\ InOrder(stay[a].from, to)
  /\ stay' = [stay EXCEPT ![a].status = status, ![a].to = to]

Withdraw(a, to) ==
  /\ stay[a].status = "Planned"
  /\ stay' = [stay EXCEPT ![a].status = "DidNotStart", ![a].to = to]

Next ==
  \E a \in Assignments :
    \/ \E p \in Positions, from \in Days, to \in Ends :
         Revise(a, p, from, to) \/ \E w \in Workers : Plan(a, w, p, from, to)
    \/ Start(a)
    \/ \E to \in Ends :
         Withdraw(a, to) \/ \E status \in {"Completed", "Interrupted"} : End(a, status, to)

Spec == Init /\ [][Next]_stay
=============================================================================
