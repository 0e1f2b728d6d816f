-------------------------- MODULE MCResourceIssues --------------------------
(***************************************************************************)
(* Instances of ResourceIssues for TLC: a node with its own coordinator,   *)
(* its certificate's and a disk's, a VM, and the cluster's summary.  Each  *)
(* run takes the coordinators its question is about.                       *)
(***************************************************************************)
EXTENDS ResourceIssues

CONSTANTS n1, g1, node, certificate, disk, qemu, summary

MCHub == "hub"

MCPlanOf(c) ==
    CASE c = node        -> NodePlan(n1)
      [] c = certificate -> CertificatePlan(n1)
      [] c = disk        -> DiskPlan(n1, "disk")
      [] c = qemu        -> QEMUPlan(g1, FALSE)
      [] c = summary     -> ClusterSummaryPlan

MCPlan == [c \in Coordinators |-> MCPlanOf(c)]

MCOwned ==
    [o \in Resources \cup {Hub} |->
        SelectSeq(CASE o = n1  -> <<node, certificate, disk>>
                    [] o = g1  -> <<qemu>>
                    [] o = Hub -> <<summary>>,
                  LAMBDA c : c \in Coordinators)]

\* The node and the VM, with a privilege of each that may be missing.
MCBoth == {n1, g1}
MCRepairCoordinators == {node, qemu}
MCRepairPaths == {<<"nodes">>, <<"agent/fsinfo", g1>>}

\* The VM alone.
MCGuest == {g1}
MCNoNode == {}
MCGuestCoordinators == {qemu}
MCGuestPaths == {<<"guest/status", g1>>, <<"agent/fsinfo", g1>>}

MCNode == {n1}

MCMet == {"ok", "silent", "unauthorised"}
MCRepairMet == {"ok", "silent"}
=============================================================================
