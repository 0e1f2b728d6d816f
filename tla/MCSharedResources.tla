------------------------- MODULE MCSharedResources -------------------------
(***************************************************************************)
(* An instance of SharedResources for TLC: a coordinator that takes what   *)
(* was read and discovery, which never does, a node, a TTL of two ticks,   *)
(* and one answer of each kind `get` tells apart.                          *)
(***************************************************************************)
EXTENDS SharedResources

CONSTANTS guest, discovery, n1

MCReaders == {guest, discovery}
MCFresh == {discovery}
MCNodes == {n1}
MCMet == {"ok", "malformed", "busy", "silent", "forbidden", "unauthorised"}
=============================================================================
