------------------------------ MODULE ApiRead ------------------------------
(***************************************************************************)
(* One read of the Proxmox API as every coordinator makes it: `poll_api`   *)
(* in coordinator.py.  What Proxmox or the connection can answer is        *)
(* reduced to the classes the code tells apart, and what is left for the   *)
(* caller to one of four outcomes.  Nothing here has state: the modules    *)
(* that issue reads keep the request in flight themselves.                 *)
(***************************************************************************)
EXTENDS Naturals

(***************************************************************************)
(* What one request can come back with.                                    *)
(*   ok            the data asked for                                      *)
(*   malformed     an answer of the wrong shape (not the list asked for)   *)
(*   busy          596 or 597, pveproxy could not finish in time           *)
(*   noRoute       595, pveproxy could not reach the node at all           *)
(*   error         any other API error                                     *)
(*   silent        the connection failed or timed out                      *)
(*   forbidden     403, the privilege is missing                           *)
(*   unauthorised  401 on a request, all a refused token ever sees         *)
(*   loginRefused  the fresh login was refused with 401 or no code at all  *)
(*   notReady      the fresh login failed with another code                *)
(***************************************************************************)
Answers == {"ok", "malformed", "busy", "noRoute", "error", "silent",
            "forbidden", "unauthorised", "loginRefused", "notReady"}

(***************************************************************************)
(* What the caller of `poll_api` is left with: data, None, UpdateFailed or *)
(* ConfigEntryAuthFailed.                                                  *)
(***************************************************************************)
Outcomes == {"data", "none", "failed", "auth"}

\* At most this many requests are made for one read.
MaxAttempts == 2

\* Mutant: one request too many.
AskedAgainTooOften(answer, attempt) == answer = "busy" /\ attempt <= MaxAttempts

\* Only a busy pveproxy is asked again, and only once.
AskedAgain(answer, attempt) == answer = "busy" /\ attempt < MaxAttempts

\* The credentials were refused, which asks the user for new ones.
RefusedCredentials == {"unauthorised", "loginRefused"}

(***************************************************************************)
(* The outcome of a final answer.  `raisesRepair` is the parameter         *)
(* `issue_crete_permissions`: without it a 403 is a failure like another.  *)
(***************************************************************************)
OutcomeOf(answer, raisesRepair) ==
    CASE answer \in {"ok", "malformed"}          -> "data"
      [] answer \in RefusedCredentials           -> "auth"
      [] answer = "forbidden" /\ raisesRepair    -> "none"
      [] OTHER                                   -> "failed"
=============================================================================
