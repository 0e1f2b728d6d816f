------------------------------ MODULE MCDisks ------------------------------
(***************************************************************************)
(* Disks for TLC: two drives with one WWN, of which one has no by-id link, *)
(* and one that tells nothing of itself, on two paths.                     *)
(***************************************************************************)
EXTENDS Disks

CONSTANTS twin1, twin2, mute

MCDrives == {twin1, twin2, mute}
MCPaths == {"/dev/sda", "/dev/sdb"}
MCNone == "none"
MCWwn == [d \in MCDrives |-> IF d = mute THEN MCNone ELSE "wwn"]
MCSerial == [d \in MCDrives |->
    CASE d = twin1 -> "serial1" [] d = twin2 -> "serial2" [] d = mute -> MCNone]
MCLink == [d \in MCDrives |-> IF d = twin1 THEN "link1" ELSE MCNone]
=============================================================================
