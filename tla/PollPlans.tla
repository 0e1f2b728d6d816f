----------------------------- MODULE PollPlans -----------------------------
(***************************************************************************)
(* What every kind of coordinator in coordinator.py reads in one update:   *)
(* the requests of its `_async_update_data`, in order, under which key a   *)
(* refusal is noted and whether the update goes on after it.  What becomes *)
(* of the data is not here.                                                *)
(*                                                                         *)
(* A plan is a sequence of reads.  Paths and keys are tuples: the path     *)
(* "nodes/<n>/status" is <<"node/status", n>>, the key "node_<n>" is       *)
(* <<"node", n>>.                                                          *)
(***************************************************************************)
EXTENDS Naturals, Sequences

\* What a line of the shared list is tracked as, and what has to be up for a
\* read of no node or guest: nothing.
Untracked == "untracked"

\* The two features of the guest agent, each with a repair of its own.
Features == {"fsinfo", "file"}

(***************************************************************************)
(* A read.                                                                 *)
(*   path      what is asked for                                           *)
(*   key       category and resource id, under which a refusal is noted    *)
(*   wants     the privilege the note names                                *)
(*   of        what the resource is tracked as                             *)
(*   at        what has to be up for it: the node it is made of, or the    *)
(*             guest or storage itself, which the list puts on a node      *)
(*   noted     where a 403 goes: the entry's repair, that of a guest agent *)
(*             feature, or nowhere - it is then a failure like another     *)
(*   goesOn    the outcomes, data aside, after which the update goes on    *)
(*   enough    the outcomes that end the update with data for an entity    *)
(*   skips     how many of the reads after this one may be left out, by    *)
(*             what the data says                                          *)
(*   listing   the `nodes` listing, which Proxmox filters, never refuses   *)
(*   invisible an empty listing is noted as a missing privilege            *)
(*   shared    the read is the one coordinators share                      *)
(***************************************************************************)
Read(path, category, resource, wants, at) ==
    [path |-> path, key |-> <<category, resource>>, wants |-> wants,
     of |-> resource, at |-> at, noted |-> "forbidden", goesOn |-> {}, enough |-> {},
     skips |-> {0}, listing |-> FALSE, invisible |-> FALSE, shared |-> FALSE]

\* permission_to_resource
NodeAudit(n) == <<"Sys.Audit", n>>
RootAudit == <<"Sys.Audit", "/">>

NodeRead(what, n) == Read(<<what, n>>, "node", n, NodeAudit(n), n)

\* A cluster-wide read with the HA credentials, noted as if there were a
\* resource of its name, which setup never tracks.
WideRead(what) == Read(<<what>>, "proxmox", what, RootAudit, Untracked)

\* The resource list, through SharedResources.
SharedRead ==
    [Read(<<"resources">>, "resources", Untracked, <<"VM.Audit", "/">>, Untracked)
        EXCEPT !.shared = TRUE]

\* The bare `nodes` listing, which Proxmox filters instead of refusing.
Listing(n) ==
    [NodeRead("nodes", n) EXCEPT !.path = <<"nodes">>, !.listing = TRUE, !.at = Untracked]

Unnoted(read) == [read EXCEPT !.noted = "nowhere"]

\* A failure is caught where the read is made.
Caught(read) == [read EXCEPT !.goesOn = @ \cup {"failed"}]

\* A refusal leaves data out, and no more.
Spared(read) == [read EXCEPT !.goesOn = @ \cup {"none"}]

MayLeaveOut(read, reads) == [read EXCEPT !.skips = {0, reads}]

-----------------------------------------------------------------------------

HAResourcesPlan == <<[WideRead("ha_resources") EXCEPT !.enough = {"none"}]>>
HAStatusPlan == <<WideRead("ha_status")>>
BackupInfoPlan == <<WideRead("backup_info")>>
CephPlan == <<WideRead("ceph")>>
ClusterSummaryPlan == <<SharedRead>>

NodePlan(n) ==
    <<[Listing(n) EXCEPT !.invisible = TRUE, !.enough = {"data"}],
      NodeRead("node/status", n),
      MayLeaveOut(Spared(NodeRead("node/version", n)), 1),
      Unnoted(NodeRead("node/network", n)),
      Spared(Read(<<"node/qemu", n>>, "qemu", n, <<"VM.Audit", n>>, n)),
      Spared(Read(<<"node/lxc", n>>, "lxc", n, <<"VM.Audit", n>>, n))>>

UpdatePlan(n) ==
    <<Listing(n), Read(<<"node/apt", n>>, "update", n, <<"Sys.Modify", n>>, n)>>

CertificatePlan(n) == <<NodeRead("node/certificates", n)>>
SubscriptionPlan(n) == <<NodeRead("node/subscription", n)>>
ReplicationPlan(n) == <<NodeRead("node/replication", n)>>

BackupPlan(n) ==
    <<Read(<<"node/archive", n>>, "tasks", n, NodeAudit(n), n),
      Spared(Read(<<"node/active", n>>, "tasks", n, NodeAudit(n), n))>>

TaskPlan(n) ==
    <<[Read(<<"node/tasks", n>>, "tasks", n, NodeAudit(n), n) EXCEPT !.enough = {"none"}]>>

DiskPlan(n, d) ==
    <<Read(<<"disks/list", n>>, "disk", d, NodeAudit(n), n),
      Caught(Spared(Read(<<"disks/smart", n>>, "disk", d, RootAudit, n)))>>

ZFSPlan(n, pool) == <<Read(<<"disks/zfs", n>>, "zfs", pool, RootAudit, n)>>

StoragePlan(s) ==
    <<SharedRead,
      Spared(Read(<<"node/storage", s>>, "storage", s, <<"Datastore.Audit", s>>, s))>>

GuestRead(what, kind, g) == Read(<<what, g>>, kind, g, <<"VM.Audit", g>>, g)

\* poll_snapshots
Snapshots(kind, g) == Caught(Unnoted(GuestRead("guest/snapshot", kind, g)))

LXCPlan(g) ==
    <<SharedRead,
      GuestRead("guest/status", "lxc", g),
      MayLeaveOut(Snapshots("lxc", g), 1),
      Caught(Unnoted(GuestRead("guest/interfaces", "lxc", g)))>>

\* _poll_guest_agent
AgentRead(what, feature, g) ==
    [Caught(GuestRead(what, "qemu", g)) EXCEPT
        !.noted = feature, !.wants = <<feature, "/vms">>]

(***************************************************************************)
(* With a path to read in the guest configured or not.  An agent that does *)
(* not run is asked nothing.                                               *)
(***************************************************************************)
QEMUPlan(g, filePath) ==
    LET file == IF filePath THEN <<AgentRead("agent/file", "file", g)>> ELSE <<>>
    IN  <<SharedRead,
          MayLeaveOut(GuestRead("guest/status", "qemu", g), 2 + Len(file)),
          AgentRead("agent/fsinfo", "fsinfo", g)>>
        \o file
        \o <<AgentRead("agent/interfaces", "fsinfo", g), Snapshots("qemu", g)>>
=============================================================================
