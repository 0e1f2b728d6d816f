---------------------------- MODULE MCSelection ----------------------------
(***************************************************************************)
(* A storage two nodes have, for TLC.                                      *)
(***************************************************************************)
EXTENDS Selection, TLC

CONSTANTS n1, n2, nfs

MCNodes == {n1, n2}
MCNames == {nfs}

Symmetry == Permutations(MCNodes)
=============================================================================
