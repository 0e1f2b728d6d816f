---------------------------- MODULE MCDiscovery ----------------------------
(***************************************************************************)
(* Discovery of a node and its guests, for TLC.                            *)
(***************************************************************************)
EXTENDS Discovery

CONSTANTS n1, g1, g2

MCResources == {n1, g1, g2}
MCNodes == {n1}
MCGuest == {g1}
MCNoNode == {}
=============================================================================
