----------------------------- MODULE BurstRead -----------------------------
(***************************************************************************)
(* What an entry's coordinators are promised when they ask for the         *)
(* cluster's resource list: each gets the outcome of a read that was       *)
(* answered while it waited, or the newest outcome there is, provided that *)
(* one is younger than TTL.  Rows are the cluster as it was when the read  *)
(* was answered.  A reader of `Fresh` is never given an older outcome.     *)
(* Refused credentials are told to the one whose read met them and are not *)
(* kept.                                                                   *)
(*                                                                         *)
(* There is no lock here, no queue and no request in flight.               *)
(***************************************************************************)
EXTENDS Naturals

CONSTANTS Readers, Fresh, TTL, Listings

VARIABLES
    off,        \* the nodes that are off: what a list shows of the cluster
    waiting,    \* the readers that asked and were not told yet
    told,       \* who was told last, and what
    newest,     \* the newest outcome kept for sharing
    age         \* how long ago it was answered, TTL standing for "or longer"

vars == <<off, waiting, told, newest, age>>

\* What is kept of a read: the list, its absence after a 403, or a failure.
Kept == [kind : {"rows"}, listing : Listings] \cup [kind : {"none", "failed"}]

Refused == [kind |-> "auth"]

\* Before anyone was told anything.
Nothing == [what |-> [kind |-> "unasked"]]

Tellings == [to : Readers, what : Kept \cup {Refused}] \cup {Nothing}

TypeOK ==
    /\ off \in Listings
    /\ waiting \subseteq Readers
    /\ told \in Tellings
    /\ newest \in Kept
    /\ age \in 0..TTL

Init ==
    /\ off \in Listings
    /\ waiting = {}
    /\ told = Nothing
    /\ newest = [kind |-> "none"]
    /\ age = TTL

ClusterChanges ==
    /\ off' \in Listings
    /\ UNCHANGED <<waiting, told, newest, age>>

Ask(r) ==
    /\ r \notin waiting
    /\ waiting' = waiting \cup {r}
    /\ UNCHANGED <<off, told, newest, age>>

Told(r, what) ==
    /\ r \in waiting
    /\ waiting' = waiting \ {r}
    /\ told' = [to |-> r, what |-> what]

\* A read made while r waits is answered.
ReadAnswered(r) ==
    \E what \in {[kind |-> "rows", listing |-> off],
                 [kind |-> "none"], [kind |-> "failed"]} :
        /\ Told(r, what)
        /\ newest' = what
        /\ age' = 0
        /\ UNCHANGED off

ReadRefused(r) ==
    /\ Told(r, Refused)
    /\ UNCHANGED <<off, newest, age>>

\* r shares the newest outcome.
Share(r) ==
    /\ r \notin Fresh
    /\ age < TTL
    /\ Told(r, newest)
    /\ UNCHANGED <<off, newest, age>>

Tick ==
    /\ age < TTL
    /\ age' = age + 1
    /\ UNCHANGED <<off, waiting, told, newest>>

Next ==
    \/ ClusterChanges
    \/ Tick
    \/ \E r \in Readers :
          Ask(r) \/ ReadAnswered(r) \/ ReadRefused(r) \/ Share(r)

Spec == Init /\ [][Next]_vars
=============================================================================
