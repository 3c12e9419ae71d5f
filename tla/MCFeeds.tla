------------------------------ MODULE MCFeeds ------------------------------
(***************************************************************************)
(* Two organizations and two generator replicas, for batches that hold one *)
(* task or two.                                                            *)
(***************************************************************************)
EXTENDS Feeds

CONSTANTS o1, o2, g1, g2

OneOrganization == {o1}
TwoOrganizations == {o1, o2}
OneGenerator == {g1}
TwoGenerators == {g1, g2}
=============================================================================
