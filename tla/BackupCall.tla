----------------------------- MODULE BackupCall -----------------------------
(***************************************************************************)
(* What a call of the backup action promises about the places it is for, a *)
(* place being a node of an entry's cluster.  Proxmox takes at most one    *)
(* backup of the call at each place; a place is seen to once, by a run     *)
(* that was taken or by being spared; a call that ends well has seen to    *)
(* all of them, and reports each run that was taken; one that ends badly   *)
(* has had at most one more run taken than it had seen to the end, whether *)
(* it broke off there or was told that the run failed.                     *)
(*                                                                         *)
(* How places are named, polled and asked is not here, nor which entries   *)
(* are loaded.                                                             *)
(***************************************************************************)
CONSTANT Places

VARIABLES
    status,     \* none, working, done, or how the call went wrong
    left,       \* the places still to be seen to
    taken,      \* where Proxmox took a backup
    reported,   \* of these, the ones on the call's answer
    spared      \* the places left to the backup they were running

vars == <<status, left, taken, reported, spared>>

Wrong == {"failed", "invalid", "broken"}

TypeOK ==
    /\ status \in {"none", "working", "done"} \cup Wrong
    /\ left \subseteq Places
    /\ taken \subseteq Places
    /\ reported \subseteq Places
    /\ spared \subseteq Places

Init ==
    /\ status = "none"
    /\ left = {}
    /\ taken = {}
    /\ reported = {}
    /\ spared = {}

\* A new call: it is refused, or is for some places.
Begin ==
    /\ status # "working"
    /\ \/ status' = "invalid" /\ left' = {}
       \/ status' = "working" /\ left' \in (SUBSET Places) \ {{}}
    /\ taken' = {}
    /\ reported' = {}
    /\ spared' = {}

\* The next place may be turned to: what was taken before is on the answer.
MayTurnTo(x) ==
    /\ status = "working"
    /\ x \in left
    /\ taken = reported

\* x is seen to, and with the last one the call is done.
SeenTo(x) ==
    /\ left' = left \ {x}
    /\ status' = IF left = {x} THEN "done" ELSE "working"

\* Proxmox takes the backup of x, which it had none of from this call.  The
\* call may break off there, or fail because it never learns of it.
Take(x) ==
    /\ MayTurnTo(x)
    /\ x \notin taken
    /\ taken' = taken \cup {x}
    /\ status' \in {"working", "broken", "failed"}
    /\ UNCHANGED <<left, reported, spared>>

Report(x) ==
    /\ status = "working"
    /\ x \in left \cap taken
    /\ SeenTo(x)
    /\ reported' = reported \cup {x}
    /\ UNCHANGED <<taken, spared>>

Spare(x) ==
    /\ MayTurnTo(x)
    /\ x \notin taken
    /\ SeenTo(x)
    /\ spared' = spared \cup {x}
    /\ UNCHANGED <<taken, reported>>

\* The call goes wrong at a place where Proxmox took nothing.
GoWrong ==
    /\ status = "working"
    /\ taken = reported
    /\ status' \in Wrong
    /\ UNCHANGED <<left, taken, reported, spared>>

Next ==
    \/ Begin
    \/ GoWrong
    \/ \E x \in Places : Take(x) \/ Report(x) \/ Spare(x)

Spec == Init /\ [][Next]_vars

-----------------------------------------------------------------------------
\* What the promise amounts to: nothing is both reported and spared or still
\* to do, all reported runs were taken and at most one taken run is not
\* reported, and a call that is done has nothing left and nothing unreported.
Fates ==
    /\ left \cap (reported \cup spared) = {}
    /\ taken \cap spared = {}
    /\ reported \subseteq taken
    /\ \A x, y \in taken \ reported : x = y
    /\ status = "done" => left = {} /\ taken = reported
=============================================================================
