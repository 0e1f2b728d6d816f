--------------------------- MODULE MCClusterHosts ---------------------------
(***************************************************************************)
(* Three hosts in up to two clusters, for TLC.                             *)
(***************************************************************************)
EXTENDS ClusterHosts

CONSTANTS h1, h2, h3, a, b, s1, s2

MCHosts == {h1, h2, h3}
MCClusters == {a, b}
MCSecrets == {s1, s2}
MCBooting == {h1}
=============================================================================
