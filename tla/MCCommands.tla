----------------------------- MODULE MCCommands -----------------------------
(***************************************************************************)
(* Two entries for TLC, home and lab: each has a node of the same name and *)
(* a guest of the same vmid, as clusters that were installed alike do.     *)
(***************************************************************************)
EXTENDS Commands

CONSTANTS home, lab, pve, pve2, vm

MCEntries == {home, lab}
MCRank == [e \in MCEntries |-> IF e = home THEN 1 ELSE 2]
MCNodes == {pve, pve2}
MCGuests == {vm}
MCMembers == [e \in MCEntries |-> IF e = home THEN {pve, pve2} ELSE {pve}]
MCHasStorage == {home}
MCButtons == {home} \X {vm} \X {"stop", "snapshot"}

Cluster(e) == [kind |-> "cluster", entry |-> e]
NodeOf(e, n) == [kind |-> "node", entry |-> e, node |-> n]
Guest(e, g) == [kind |-> "guest", entry |-> e, guest |-> g]

Call(devices, vmids, node, all, skip, notes) ==
    [devices |-> devices, vmids |-> vmids, node |-> node, all |-> all,
     skip |-> skip, notes |-> notes, storage |-> FALSE]

\* Every way to name something, alone and with others that overlap it.
MCRequests ==
    {Call({Cluster(home), Guest(home, vm)}, {}, Nowhere, FALSE, TRUE, FALSE),
     Call({NodeOf(home, pve), Guest(home, vm)}, {}, Nowhere, FALSE, FALSE, TRUE),
     Call({Guest(lab, vm)}, {}, Nowhere, FALSE, TRUE, FALSE),
     Call({NodeOf(lab, pve)}, {vm}, Nowhere, TRUE, FALSE, FALSE),
     Call({}, {vm}, pve2, TRUE, TRUE, FALSE),
     Call({}, {vm}, pve, FALSE, FALSE, TRUE),
     Call({}, {}, Nowhere, TRUE, TRUE, TRUE)}
=============================================================================
