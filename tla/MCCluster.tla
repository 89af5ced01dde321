------------------------------ MODULE MCCluster ------------------------------
(* Two nodes, two clients of one url, and lists that name the nodes in       *)
(* different orders or one of them only.                                     *)
EXTENDS Cluster, TLC

CONSTANTS n1, n2, c1, c2, u1

MCHash == u1 :> 1

SomeLists == {<<n1, n2>>, <<n2, n1>>, <<n1>>}
=============================================================================
