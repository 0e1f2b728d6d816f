--------------------------- MODULE CommandsProofs ---------------------------
(***************************************************************************)
(* Proofs about Commands, for any clusters, guests and calls: the types,   *)
(* one run per node, that the report of a call is true, that nothing named *)
(* is lost on the way, and that repairs outlast further errors; then that  *)
(* a call keeps the promise of BackupCall, and that it always has a step   *)
(* to make and only finitely many of them.                                 *)
(***************************************************************************)
EXTENDS Commands, FiniteSets, FiniteSetTheorems, TLAPS

\* A triple of an entry, a node and what is to be backed up there.
Triples == Entries \X Nodes \X (Guests \cup {Everything})

LEMMA FirstIsOne ==
    ASSUME NEW some \in SUBSET Entries, some # {}
    PROVE  FirstOf(some) \in some
<1>1. \E e \in some : \A f \in some : Rank[e] <= Rank[f]
    BY EntriesAssumption
<1> QED BY <1>1 DEF FirstOf

LEMMA HostedTyped ==
    ASSUME TypeOK, NEW g \in Guests, Hosting(g) # {}
    PROVE  Hosted(g) \in Triples
<1>1. FirstOf(Hosting(g)) \in Hosting(g)
    BY FirstIsOne DEF Hosting, TypeOK
<1> QED BY <1>1 DEF Hosted, Triples, Hosting, TypeOK

LEMMA AllTyped ==
    ASSUME NEW e \in Entries
    PROVE  AllOf(e) \subseteq Triples
BY EntriesAssumption DEF AllOf, Triples

LEMMA ResolvedTyped ==
    ASSUME TypeOK, NEW d \in Devices, ~Unresolved(d),
           d.kind = "node" => d.node \in Members[d.entry]
    PROVE  Resolved(d) \subseteq Triples
<1>1. CASE d.kind = "cluster"
    <2>1. d.entry \in Entries
        BY <1>1 DEF Devices
    <2> QED BY <1>1, <2>1, AllTyped DEF Resolved
<1>2. CASE d.kind = "node"
    <2>1. d.entry \in Entries /\ d.node \in Nodes
        BY <1>2 DEF Devices
    <2> QED BY <1>2, <2>1 DEF Resolved, Triples
<1>3. CASE d.kind = "guest"
    <2>1. d.guest \in Guests /\ Hosting(d.guest) # {}
        BY <1>3 DEF Devices, Unresolved
    <2> QED BY <1>3, <2>1, HostedTyped DEF Resolved
<1> QED BY <1>1, <1>2, <1>3 DEF Devices

LEMMA NamedTyped ==
    ASSUME TypeOK, NEW r \in Requests, ~NamesUnknown(r)
    PROVE  Named(r) \subseteq Triples
<1>1. r.vmids \subseteq Guests /\ r.node \in Nodes \cup {Nowhere}
    BY RequestsAssumption
<1>2. CASE r.node # Nowhere
    <2>1. Tracking(r.node) # {}
        BY <1>2 DEF NamesUnknown
    <2>2. FirstOf(Tracking(r.node)) \in Entries
        BY <2>1, FirstIsOne DEF Tracking, TypeOK
    <2> QED BY <1>1, <1>2, <2>2 DEF Named, Triples
<1>3. CASE r.node = Nowhere
    <2>1. \A g \in r.vmids : Hosted(g) \in Triples
        BY <1>1, <1>3, HostedTyped DEF NamesUnknown
    <2>2. \A e \in loaded : AllOf(e) \subseteq Triples
        BY AllTyped DEF TypeOK
    <2> QED BY <1>3, <2>1, <2>2 DEF Named
<1> QED BY <1>2, <1>3

LEMMA PlannedTyped ==
    ASSUME NEW asked \in SUBSET Triples
    PROVE  Planned(asked) \subseteq Plans
<1>1. ASSUME NEW t \in asked
      PROVE  [entry |-> t[1], node |-> t[2],
              vmids |-> {g \in Guests : <<t[1], t[2], g>> \in asked},
              everything |-> <<t[1], t[2], Everything>> \in asked] \in Plans
    BY DEF Triples, Plans
<1> QED BY <1>1 DEF Planned

LEMMA AskedTyped ==
    ASSUME TypeOK, NEW r \in Requests, ~Refuses(r)
    PROVE  Asked(r) \subseteq Triples
<1>1. ASSUME NEW d \in r.devices
      PROVE  Resolved(d) \subseteq Triples
    <2>1. d \in Devices /\ (d.kind = "node" => d.node \in Members[d.entry])
        BY RequestsAssumption
    <2>2. ~Unresolved(d)
        BY DEF Refuses
    <2> QED BY <2>1, <2>2, ResolvedTyped
<1>2. Named(r) \subseteq Triples
    BY NamedTyped DEF Refuses
<1> QED BY <1>1, <1>2 DEF Asked

\* Plans of one planning differ in their node or their entry.
LEMMA PlannedApart ==
    ASSUME NEW asked, NEW p \in Planned(asked), NEW q \in Planned(asked),
           p.entry = q.entry, p.node = q.node
    PROVE  p = q
<1>1. PICK t \in asked :
          p = [entry |-> t[1], node |-> t[2],
               vmids |-> {g \in Guests : <<t[1], t[2], g>> \in asked},
               everything |-> <<t[1], t[2], Everything>> \in asked]
    BY DEF Planned
<1>2. PICK u \in asked :
          q = [entry |-> u[1], node |-> u[2],
               vmids |-> {g \in Guests : <<u[1], u[2], g>> \in asked},
               everything |-> <<u[1], u[2], Everything>> \in asked]
    BY DEF Planned
<1>3. t[1] = u[1] /\ t[2] = u[2]
    BY <1>1, <1>2
<1> QED BY <1>1, <1>2, <1>3

-----------------------------------------------------------------------------
(* The invariant.                                                          *)

\* A plan that is asked for is one the call still has to do.
StageFits ==
    stage # Quiet => call \in Calls /\ call.status = "working" /\ stage.plan \in call.left

\* While a call goes well, what was accepted is on its report, the run apart
\* whose node is just being refreshed.
StartedFits ==
    call \in Calls /\ call.status \in {"working", "done"} =>
        call.started = call.runs
            \cup (IF stage # Quiet /\ stage.at = "refreshing" THEN {stage.plan} ELSE {})

RunsWereStarted == call \in Calls => call.runs \subseteq call.started

IInv == TypeOK /\ OneRunPerNode /\ StageFits /\ StartedFits /\ RunsWereStarted

LEMMA CallIsOne == ASSUME TypeOK PROVE call # NoCall <=> call \in Calls
BY DEF TypeOK, Calls, NoCall, Ended

LEMMA InvInit == Init => IInv
<1> SUFFICES ASSUME Init PROVE IInv
    OBVIOUS
<1>1. TypeOK
    BY EntriesAssumption DEF Init, TypeOK
<1>2. call = NoCall /\ stage = Quiet
    BY DEF Init
<1>3. call \notin Calls
    BY <1>1, <1>2, CallIsOne
<1> QED BY <1>1, <1>2, <1>3 DEF IInv, OneRunPerNode, StageFits, StartedFits, RunsWereStarted

\* What leaves the call and its stage alone.
LEMMA InvElse ==
    ASSUME IInv, TypeOK', UNCHANGED callVars
    PROVE  IInv'
BY DEF IInv, OneRunPerNode, StageFits, StartedFits, RunsWereStarted, callVars, Calls

LEMMA InvBegin == ASSUME IInv, NEW r \in Requests, Begin(r) PROVE IInv'
<1> DEFINE left == IF Refuses(r) THEN {} ELSE Planned(Asked(r))
<1>1. left \subseteq Plans
    BY AskedTyped, PlannedTyped DEF IInv
<1>2. /\ call' = [status |-> IF Refuses(r) THEN "invalid" ELSE "working",
                  request |-> r, left |-> left,
                  started |-> {}, runs |-> {}, skipped |-> {}]
      /\ UNCHANGED <<heldVars, stage, buttonVars>> /\ call.status \in Ended
    BY DEF Begin
<1>3. stage = Quiet
    BY <1>2 DEF IInv, StageFits, Ended
<1>4. call' \in Calls
    BY <1>1, <1>2 DEF Calls, Ended
<1>5. TypeOK'
    BY <1>2, <1>4 DEF IInv, TypeOK, heldVars, buttonVars
<1>6. OneRunPerNode'
    BY <1>2, PlannedApart DEF OneRunPerNode
<1>7. StageFits' /\ StartedFits' /\ RunsWereStarted'
    BY <1>2, <1>3 DEF StageFits, StartedFits, RunsWereStarted
<1> QED BY <1>5, <1>6, <1>7 DEF IInv

\* No plan comes to a call that was not there from the start.
LEMMA NoNewPlans ==
    ASSUME IInv, call # NoCall,
           call'.left \cup call'.started \cup call'.skipped
               \subseteq call.left \cup call.started \cup call.skipped
    PROVE  OneRunPerNode'
BY DEF IInv, OneRunPerNode

LEMMA InvTake == ASSUME IInv, NEW p \in Plans, Take(p) PROVE IInv'
<1>1. /\ call.status = "working" /\ stage = Quiet /\ p \in call.left
      /\ UNCHANGED <<heldVars, buttonVars>>
    BY DEF Take, Takes
<1>2. call \in Calls /\ call # NoCall /\ TypeOK
    BY <1>1, CallIsOne DEF IInv, NoCall
<1>3. call.started = call.runs
    BY <1>1, <1>2 DEF IInv, StartedFits
<1>4. CASE Skips(p)
    <2>1. /\ call' = [call EXCEPT !.left = @ \ {p}, !.skipped = @ \cup {p},
                          !.status = IF call.left = {p} THEN "done" ELSE "working"]
          /\ stage' = stage
        BY <1>4 DEF Skips
    <2>2. call' \in Calls
        BY <1>2, <2>1 DEF Calls, Ended
    <2>3. /\ call'.left = call.left \ {p} /\ call'.skipped = call.skipped \cup {p}
          /\ call'.started = call.started /\ call'.runs = call.runs
        BY <1>2, <2>1 DEF Calls
    <2>4. TypeOK'
        BY <1>1, <1>2, <2>1, <2>2 DEF TypeOK, heldVars, buttonVars
    <2>5. OneRunPerNode'
        BY <1>1, <1>2, <2>3, NoNewPlans
    <2>6. StageFits' /\ StartedFits' /\ RunsWereStarted'
        BY <1>1, <1>3, <2>1, <2>3 DEF StageFits, StartedFits, RunsWereStarted
    <2> QED BY <2>4, <2>5, <2>6 DEF IInv
<1>5. CASE /\ call' = [call EXCEPT !.status = "broken"] \/ call' = [call EXCEPT !.status = "invalid"]
           /\ UNCHANGED stage
    <2>1. call' \in Calls
        BY <1>2, <1>5 DEF Calls, Ended
    <2>2. /\ call'.left = call.left /\ call'.skipped = call.skipped
          /\ call'.started = call.started /\ call'.runs = call.runs
          /\ call'.status \in {"broken", "invalid"}
        BY <1>2, <1>5 DEF Calls
    <2>3. TypeOK'
        BY <1>1, <1>2, <1>5, <2>1 DEF TypeOK, heldVars, buttonVars
    <2>4. OneRunPerNode'
        BY <1>2, <2>2, NoNewPlans
    <2>5. StageFits' /\ StartedFits' /\ RunsWereStarted'
        BY <1>1, <1>3, <1>5, <2>2 DEF StageFits, StartedFits, RunsWereStarted
    <2> QED BY <2>3, <2>4, <2>5 DEF IInv
<1>6. CASE Posts(p)
    <2>1. stage' = [at |-> "asked", plan |-> p] /\ call' = call
        BY <1>6 DEF Posts
    <2>2. stage' \in [at : {"asked", "refreshing"}, plan : Plans]
        BY <2>1
    <2>3. TypeOK'
        BY <1>1, <1>2, <2>1, <2>2 DEF TypeOK, heldVars, buttonVars
    <2>4. OneRunPerNode'
        BY <1>2, <2>1, NoNewPlans
    <2>5. stage'.at = "asked" /\ stage'.plan = p
        BY <2>1
    <2>6. StageFits' /\ StartedFits' /\ RunsWereStarted'
        BY <1>1, <1>2, <1>3, <2>1, <2>5 DEF StageFits, StartedFits, RunsWereStarted, Calls
    <2> QED BY <2>3, <2>4, <2>6 DEF IInv
<1> QED BY <1>4, <1>5, <1>6 DEF Take

\* A plan under way, typed, and what was accepted before it.
LEMMA UnderWay ==
    ASSUME IInv, stage # Quiet
    PROVE  /\ call \in Calls /\ call # NoCall /\ stage.plan \in call.left
           /\ stage.plan \in Plans /\ stage.at \in {"asked", "refreshing"}
           /\ call.status = "working"
           /\ stage.at = "asked" => call.started = call.runs
           /\ stage.at = "refreshing" => call.started = call.runs \cup {stage.plan}
<1>1. call \in Calls /\ stage.plan \in call.left /\ call.status = "working" /\ TypeOK
    BY DEF IInv, StageFits
<1>2. stage.plan \in Plans /\ stage.at \in {"asked", "refreshing"}
    BY <1>1 DEF TypeOK
<1>3. call # NoCall
    BY <1>1, CallIsOne
<1> QED BY <1>1, <1>2, <1>3 DEF IInv, StartedFits

LEMMA InvAccepted == ASSUME IInv, Accepted PROVE IInv'
<1> DEFINE p == stage.plan
<1>1. stage.at = "asked" /\ UNCHANGED <<heldVars, buttonVars>>
    BY DEF Accepted
<1>2. stage # Quiet
    BY <1>1 DEF Quiet
<1>3. /\ call \in Calls /\ call # NoCall /\ p \in call.left /\ p \in Plans
      /\ call.status = "working" /\ call.started = call.runs
    BY <1>1, <1>2, UnderWay
<1>4. /\ call'.left = call.left /\ call'.skipped = call.skipped
      /\ call'.started = call.started \cup {p} /\ call'.runs = call.runs
      /\ call' \in Calls
    <2>1. CASE p.entry \in loaded
        <3>1. call' = [call EXCEPT !.started = @ \cup {p}]
            BY <2>1 DEF Accepted
        <3> QED BY <1>3, <3>1 DEF Calls
    <2>2. CASE p.entry \notin loaded
        <3>1. call' = [call EXCEPT !.started = @ \cup {p}, !.status = "broken"]
            BY <2>2 DEF Accepted
        <3> QED BY <1>3, <3>1 DEF Calls, Ended
    <2> QED BY <2>1, <2>2
<1>5. OneRunPerNode'
    BY <1>3, <1>4, NoNewPlans
<1>6. CASE p.entry \in loaded
    <2>1. stage' = [at |-> "refreshing", plan |-> p] /\ call'.status = "working"
        BY <1>3, <1>6 DEF Accepted, Calls
    <2>2. stage' \in [at : {"asked", "refreshing"}, plan : Plans]
        BY <1>3, <2>1
    <2>3. TypeOK'
        BY <1>1, <1>4, <2>2 DEF IInv, TypeOK, heldVars, buttonVars
    <2>4. stage'.at = "refreshing" /\ stage'.plan = p /\ stage' # Quiet
        BY <2>1 DEF Quiet
    <2>5. StageFits' /\ StartedFits' /\ RunsWereStarted'
        BY <1>3, <1>4, <2>1, <2>4 DEF StageFits, StartedFits, RunsWereStarted
    <2> QED BY <1>5, <2>3, <2>5 DEF IInv
<1>7. CASE p.entry \notin loaded
    <2>1. stage' = Quiet /\ call'.status = "broken"
        BY <1>3, <1>7 DEF Accepted, Calls
    <2>2. TypeOK'
        BY <1>1, <1>4, <2>1 DEF IInv, TypeOK, heldVars, buttonVars
    <2>3. StageFits' /\ StartedFits' /\ RunsWereStarted'
        BY <1>3, <1>4, <2>1 DEF StageFits, StartedFits, RunsWereStarted
    <2> QED BY <1>5, <2>2, <2>3 DEF IInv
<1> QED BY <1>6, <1>7

LEMMA InvNotAccepted == ASSUME IInv, NotAccepted PROVE IInv'
<1>1. /\ stage.at = "asked" /\ UNCHANGED <<heldVars, buttonVars>>
      /\ call' = [call EXCEPT !.status = "failed"] /\ stage' = Quiet
    BY DEF NotAccepted
<1>2. stage # Quiet
    BY <1>1 DEF Quiet
<1>3. call \in Calls /\ call # NoCall /\ call.started = call.runs
    BY <1>1, <1>2, UnderWay
<1>4. /\ call'.left = call.left /\ call'.skipped = call.skipped
      /\ call'.started = call.started /\ call'.runs = call.runs
      /\ call' \in Calls /\ call'.status = "failed"
    BY <1>1, <1>3 DEF Calls, Ended
<1>5. OneRunPerNode'
    BY <1>3, <1>4, NoNewPlans
<1>6. TypeOK'
    BY <1>1, <1>4 DEF IInv, TypeOK, heldVars, buttonVars
<1>7. StageFits' /\ StartedFits' /\ RunsWereStarted'
    BY <1>1, <1>3, <1>4 DEF StageFits, StartedFits, RunsWereStarted
<1> QED BY <1>5, <1>6, <1>7 DEF IInv

LEMMA InvAnswerLost == ASSUME IInv, AnswerLost PROVE IInv'
<1> DEFINE p == stage.plan
<1>1. /\ stage.at = "asked" /\ UNCHANGED <<heldVars, buttonVars>> /\ stage' = Quiet
      /\ call' = [call EXCEPT !.started = @ \cup {p}, !.status = "failed"]
    BY DEF AnswerLost
<1>2. stage # Quiet
    BY <1>1 DEF Quiet
<1>3. /\ call \in Calls /\ call # NoCall /\ p \in call.left /\ p \in Plans
      /\ call.started = call.runs
    BY <1>1, <1>2, UnderWay
<1>4. /\ call'.left = call.left /\ call'.skipped = call.skipped
      /\ call'.started = call.started \cup {p} /\ call'.runs = call.runs
      /\ call' \in Calls /\ call'.status = "failed"
    BY <1>1, <1>3 DEF Calls, Ended
<1>5. OneRunPerNode'
    BY <1>3, <1>4, NoNewPlans
<1>6. TypeOK'
    BY <1>1, <1>4 DEF IInv, TypeOK, heldVars, buttonVars
<1>7. StageFits' /\ StartedFits' /\ RunsWereStarted'
    BY <1>1, <1>3, <1>4 DEF StageFits, StartedFits, RunsWereStarted
<1> QED BY <1>5, <1>6, <1>7 DEF IInv

LEMMA InvRefreshed == ASSUME IInv, Refreshed PROVE IInv'
<1> DEFINE p == stage.plan
<1>1. /\ stage.at = "refreshing" /\ stage' = Quiet
      /\ UNCHANGED <<loaded, at, buttonVars>>
      /\ busy' \in {busy, busy \cup ({p.entry} \X ({p.node} \cap Tracked[p.entry]))}
    BY DEF Refreshed
<1>2. stage # Quiet
    BY <1>1 DEF Quiet
<1>3. /\ call \in Calls /\ call # NoCall /\ p \in call.left /\ p \in Plans
      /\ call.started = call.runs \cup {p}
    BY <1>1, <1>2, UnderWay
<1>4. /\ call'.left = call.left \ {p} /\ call'.skipped = call.skipped
      /\ call'.started = call.started /\ call'.runs = call.runs \cup {p}
      /\ call' \in Calls /\ call'.status \in {"done", "working"}
    BY <1>3 DEF Refreshed, Calls, Ended
<1>5. OneRunPerNode'
    BY <1>3, <1>4, NoNewPlans
<1>6. busy' \subseteq Entries \X Nodes
    BY <1>1, <1>3 DEF IInv, TypeOK, Plans
<1>7. TypeOK'
    BY <1>1, <1>4, <1>6 DEF IInv, TypeOK, buttonVars
<1>8. StageFits' /\ StartedFits' /\ RunsWereStarted'
    BY <1>1, <1>3, <1>4 DEF StageFits, StartedFits, RunsWereStarted
<1> QED BY <1>5, <1>7, <1>8 DEF IInv

LEMMA InvStep == IInv /\ [Next]_vars => IInv'
<1> SUFFICES ASSUME IInv, [Next]_vars PROVE IInv'
    OBVIOUS
<1> USE DEF heldVars, buttonVars, callVars
<1>1. TypeOK
    BY DEF IInv
<1>2. CASE \E e \in Entries : Load(e) \/ Unload(e)
    BY <1>1, <1>2, InvElse DEF Load, Unload, TypeOK
<1>3. CASE \E e \in Entries, g \in Guests : GuestPolled(e, g)
    <2>1. at' \in [Entries \X Guests -> Nodes \cup {Nowhere}]
        BY <1>1, <1>3, EntriesAssumption DEF GuestPolled, TypeOK
    <2> QED BY <1>1, <1>3, <2>1, InvElse DEF GuestPolled, TypeOK
<1>4. CASE \E e \in Entries, n \in Nodes : BackupPolled(e, n)
    BY <1>1, <1>4, InvElse DEF BackupPolled, TypeOK
<1>5. CASE \E b \in Buttons : Press(b)
    BY <1>1, <1>5, InvElse DEF Press, TypeOK
<1>6. CASE \E b \in Buttons : Answered(b)
    <2>1. PICK b \in Buttons : Answered(b)
        BY <1>6
    <2>2. PICK answer \in {"ok", "forbidden", "error"} : Answer(b, answer)
        BY <2>1 DEF Answered
    <2>3. GuestOf(b) \in Entries \X Guests
        BY RequestsAssumption DEF GuestOf
    <2>4. issues' \subseteq Entries \X Guests
        BY <1>1, <2>2, <2>3 DEF Answer, TypeOK
    <2>5. told' \in [button : Buttons, what : {"ok", "error"}]
        BY <2>2 DEF Answer
    <2> QED BY <1>1, <2>1, <2>4, <2>5, InvElse DEF Answered, TypeOK
<1>7. CASE UNCHANGED vars
    BY <1>1, <1>7, InvElse DEF vars, TypeOK
<1> QED BY <1>2, <1>3, <1>4, <1>5, <1>6, <1>7, InvBegin, InvTake, InvAccepted,
           InvNotAccepted, InvAnswerLost, InvRefreshed DEF Next, Work

\* The types of Commands: among them that every plan is of a node that has a
\* name, which a guest without data would not give it.
THEOREM TypeCorrect == Spec => []TypeOK
<1>1. IInv => TypeOK
    BY DEF IInv
<1> QED BY <1>1, InvInit, InvStep, PTL DEF Spec

\* OneRunPerNode of Commands, for any targets however they overlap.
THEOREM NodesRunOnce == Spec => []OneRunPerNode
<1>1. IInv => OneRunPerNode
    BY DEF IInv
<1> QED BY <1>1, InvInit, InvStep, PTL DEF Spec

\* ReportIsTrue of Commands: a report lists runs that were accepted, and a call
\* that ends well lists them all.
THEOREM ReportsAreTrue == Spec => []ReportIsTrue
<1>1. ASSUME IInv PROVE ReportIsTrue
    <2> SUFFICES ASSUME call # NoCall PROVE ReportIsTrue
        BY DEF ReportIsTrue
    <2>1. call \in Calls
        BY <1>1, CallIsOne DEF IInv
    <2>2. call.runs \subseteq call.started
        BY <1>1, <2>1 DEF IInv, RunsWereStarted
    <2>3. ASSUME call.status = "done" PROVE call.started = call.runs
        <3>1. stage = Quiet
            BY <1>1, <2>3 DEF IInv, StageFits
        <3> QED BY <1>1, <2>1, <2>3, <3>1 DEF IInv, StartedFits
    <2> QED BY <2>2, <2>3 DEF ReportIsTrue
<1> QED BY <1>1, InvInit, InvStep, PTL DEF Spec

-----------------------------------------------------------------------------
(* What a call names, and the plans that see to it.                        *)

NamedGuests(r) ==
    r.vmids \cup {d.guest : d \in {x \in r.devices : x.kind = "guest"}}

NamedNodes(d) == IF d.kind = "node" THEN {d.node} ELSE Tracked[d.entry]

Covers(plans, r) ==
    /\ \A d \in r.devices :
          d.kind \in {"node", "cluster"} =>
              \A n \in NamedNodes(d) :
                  \E p \in plans : p.entry = d.entry /\ p.node = n /\ p.everything
    /\ \A g \in NamedGuests(r) : \E p \in plans : g \in p.vmids

\* While a call goes well, what it named is done, left out, or still to do.
NothingLost ==
    call.status \in {"working", "done"} =>
        /\ Covers(call.left \cup Handled, call.request)
        /\ call.status = "done" => call.left = {}

LEMMA PlannedFor ==
    ASSUME NEW asked, NEW e, NEW n, NEW x, <<e, n, x>> \in asked
    PROVE  \E p \in Planned(asked) :
              /\ p.entry = e /\ p.node = n
              /\ x = Everything => p.everything
              /\ x \in Guests => x \in p.vmids
<1> DEFINE t == <<e, n, x>>
           p == [entry |-> t[1], node |-> t[2],
                 vmids |-> {g \in Guests : <<t[1], t[2], g>> \in asked},
                 everything |-> <<t[1], t[2], Everything>> \in asked]
<1>1. p \in Planned(asked)
    BY DEF Planned
<1>2. p.entry = e /\ p.node = n
    OBVIOUS
<1>3. x = Everything => p.everything
    OBVIOUS
<1>4. x \in Guests => x \in p.vmids
    OBVIOUS
<1> HIDE DEF p
<1> QED BY <1>1, <1>2, <1>3, <1>4

\* A call that is not refused plans for all it names.
LEMMA PlansCover ==
    ASSUME NEW r \in Requests
    PROVE  Covers(Planned(Asked(r)), r)
<1>1. ASSUME NEW d \in r.devices, d.kind \in {"node", "cluster"}, NEW n \in NamedNodes(d)
      PROVE  \E p \in Planned(Asked(r)) : p.entry = d.entry /\ p.node = n /\ p.everything
    <2>1. <<d.entry, n, Everything>> \in Resolved(d)
        BY <1>1 DEF Resolved, AllOf, NamedNodes
    <2>2. <<d.entry, n, Everything>> \in Asked(r)
        BY <2>1 DEF Asked
    <2> QED BY <2>2, PlannedFor
<1>2. ASSUME NEW g \in NamedGuests(r)
      PROVE  \E p \in Planned(Asked(r)) : g \in p.vmids
    <2>1. g \in Guests
        <3>1. r.vmids \subseteq Guests /\ r.devices \subseteq Devices
            BY RequestsAssumption
        <3>2. \A d \in Devices : d.kind = "guest" => d.guest \in Guests
            BY DEF Devices
        <3> QED BY <3>1, <3>2 DEF NamedGuests
    <2>2. \E e, n : <<e, n, g>> \in Asked(r)
        <3>1. Hosted(g) = <<FirstOf(Hosting(g)), at[<<FirstOf(Hosting(g)), g>>], g>>
            BY DEF Hosted
        <3>2. CASE g \in r.vmids /\ r.node # Nowhere
            <4>1. <<FirstOf(Tracking(r.node)), r.node, g>> \in Named(r)
                BY <3>2 DEF Named
            <4> QED BY <4>1 DEF Asked
        <3>3. CASE g \in r.vmids /\ r.node = Nowhere
            <4>1. Hosted(g) \in Named(r)
                BY <3>3 DEF Named
            <4> QED BY <3>1, <4>1 DEF Asked
        <3>4. CASE g \notin r.vmids
            <4>1. PICK d \in r.devices : d.kind = "guest" /\ d.guest = g
                BY <3>4 DEF NamedGuests
            <4>2. Hosted(g) \in Resolved(d)
                BY <4>1 DEF Resolved
            <4>3. Hosted(g) \in Asked(r)
                BY <4>2 DEF Asked
            <4> QED BY <3>1, <4>3
        <3> QED BY <3>2, <3>3, <3>4
    <2> QED BY <2>1, <2>2, PlannedFor
<1> QED BY <1>1, <1>2 DEF Covers

LEMMA MoreCover ==
    ASSUME NEW r, NEW plans, NEW more, plans \subseteq more, Covers(plans, r)
    PROVE  Covers(more, r)
BY DEF Covers

\* A step that leaves a plan to nobody loses nothing.
LEMMA NothingLostHere ==
    ASSUME NothingLost, call \in Calls, call.status = "working", call' \in Calls,
           call'.request = call.request,
           call.left \cup call.runs \cup call.skipped
               \subseteq call'.left \cup call'.runs \cup call'.skipped,
           call'.status = "done" => call'.left = {}
    PROVE  NothingLost'
BY MoreCover DEF NothingLost, Handled

LEMMA LostStep == IInv /\ NothingLost /\ [Next]_vars => NothingLost'
<1> SUFFICES ASSUME IInv, NothingLost, [Next]_vars PROVE NothingLost'
    OBVIOUS
<1>1. CASE UNCHANGED call
    BY <1>1 DEF NothingLost, Handled
<1>2. ASSUME NEW r \in Requests, Begin(r) PROVE NothingLost'
    <2>1. CASE Refuses(r)
        BY <1>2, <2>1 DEF Begin, NothingLost
    <2>2. CASE ~Refuses(r)
        <3>1. /\ call'.left = Planned(Asked(r)) /\ call'.request = r
              /\ call'.status = "working"
            BY <1>2, <2>2 DEF Begin
        <3>2. Covers(call'.left \cup Handled', r)
            BY <3>1, PlansCover, MoreCover
        <3> QED BY <3>1, <3>2 DEF NothingLost
    <2> QED BY <2>1, <2>2
<1>3. ASSUME NEW p \in Plans, Take(p) PROVE NothingLost'
    <2>1. call.status = "working" /\ p \in call.left /\ call \in Calls
        BY <1>3, CallIsOne DEF Take, Takes, IInv, NoCall
    <2>2. CASE Skips(p)
        <3>1. call' = [call EXCEPT !.left = @ \ {p}, !.skipped = @ \cup {p},
                          !.status = IF call.left = {p} THEN "done" ELSE "working"]
            BY <2>2 DEF Skips
        <3>2. /\ call' \in Calls /\ call'.request = call.request /\ call'.runs = call.runs
              /\ call'.left = call.left \ {p} /\ call'.skipped = call.skipped \cup {p}
              /\ call'.status = IF call.left = {p} THEN "done" ELSE "working"
            BY <2>1, <3>1 DEF Calls, Ended
        <3> QED BY <2>1, <3>2, NothingLostHere
    <2>3. CASE call'.status \in {"broken", "invalid"}
        BY <2>3 DEF NothingLost
    <2>4. CASE Posts(p)
        BY <1>1, <2>4 DEF Posts
    <2>5. \A why : [call EXCEPT !.status = why].status = why
        BY <2>1 DEF Calls
    <2> QED BY <1>3, <2>2, <2>3, <2>4, <2>5 DEF Take
<1>4. ASSUME Accepted PROVE NothingLost'
    <2> DEFINE p == stage.plan
    <2>1. stage # Quiet
        BY <1>4 DEF Accepted, Quiet
    <2>2. call \in Calls /\ call.status = "working" /\ p \in Plans
        BY <2>1, UnderWay
    <2>3. CASE p.entry \in loaded
        <3>1. call' = [call EXCEPT !.started = @ \cup {p}]
            BY <1>4, <2>3 DEF Accepted
        <3>2. /\ call' \in Calls /\ call'.request = call.request /\ call'.runs = call.runs
              /\ call'.left = call.left /\ call'.skipped = call.skipped
              /\ call'.status = "working"
            BY <2>2, <3>1 DEF Calls
        <3> QED BY <2>2, <3>2, NothingLostHere
    <2>4. CASE p.entry \notin loaded
        <3>1. call' = [call EXCEPT !.started = @ \cup {p}, !.status = "broken"]
            BY <1>4, <2>4 DEF Accepted
        <3>2. call'.status = "broken"
            BY <2>2, <3>1 DEF Calls
        <3> QED BY <3>2 DEF NothingLost
    <2> QED BY <2>3, <2>4
<1>5. ASSUME NotAccepted PROVE NothingLost'
    <2>1. stage # Quiet
        BY <1>5 DEF NotAccepted, Quiet
    <2>2. call \in Calls
        BY <2>1, UnderWay
    <2>3. call'.status = "failed"
        BY <1>5, <2>2 DEF NotAccepted, Calls
    <2> QED BY <2>3 DEF NothingLost
<1>6. ASSUME Refreshed PROVE NothingLost'
    <2> DEFINE p == stage.plan
    <2>1. stage # Quiet
        BY <1>6 DEF Refreshed, Quiet
    <2>2. call \in Calls /\ call.status = "working" /\ p \in Plans /\ p \in call.left
        BY <2>1, UnderWay
    <2>3. call' = [call EXCEPT !.left = @ \ {p}, !.runs = @ \cup {p},
                      !.status = IF call.left = {p} THEN "done" ELSE "working"]
        BY <1>6 DEF Refreshed
    <2>4. /\ call' \in Calls /\ call'.request = call.request /\ call'.skipped = call.skipped
          /\ call'.left = call.left \ {p} /\ call'.runs = call.runs \cup {p}
          /\ call'.status = IF call.left = {p} THEN "done" ELSE "working"
        BY <2>2, <2>3 DEF Calls, Ended
    <2> QED BY <2>2, <2>4, NothingLostHere
<1>7. CASE \/ \E e \in Entries : Load(e) \/ Unload(e)
           \/ \E e \in Entries, g \in Guests : GuestPolled(e, g)
           \/ \E e \in Entries, n \in Nodes : BackupPolled(e, n)
           \/ \E b \in Buttons : Press(b) \/ Answered(b)
           \/ UNCHANGED vars
    <2>1. UNCHANGED call
        BY <1>7 DEF Load, Unload, GuestPolled, BackupPolled, Press, Answered, callVars, vars
    <2> QED BY <1>1, <2>1
<1>8. ASSUME AnswerLost PROVE NothingLost'
    <2>1. stage # Quiet
        BY <1>8 DEF AnswerLost, Quiet
    <2>2. call \in Calls
        BY <2>1, UnderWay
    <2>3. call'.status = "failed"
        BY <1>8, <2>2 DEF AnswerLost, Calls
    <2> QED BY <2>3 DEF NothingLost
<1> QED BY <1>2, <1>3, <1>4, <1>5, <1>6, <1>7, <1>8 DEF Next, Work

\* NothingForgotten of Commands: what a call named is backed up or left to a
\* run that was there, when the call ends well.
THEOREM CallsForgetNothing == Spec => []NothingForgotten
<1>1. Init => NothingLost
    BY DEF Init, NothingLost, NoCall
<1>2. NothingLost => NothingForgotten
    <2> SUFFICES ASSUME NothingLost, call.status = "done" PROVE NothingForgotten
        BY DEF NothingForgotten
    <2>1. Covers(Handled, call.request)
        BY DEF NothingLost
    <2> QED BY <2>1 DEF Covers, NothingForgotten, NamedNodes, NamedGuests
<1> QED BY <1>1, <1>2, InvInit, InvStep, LostStep, PTL DEF Spec

\* RepairOutlastsErrors of Commands: only a success takes a repair off.
THEOREM RepairsOutlast == Spec => RepairOutlastsErrors
<1>1. ASSUME [Next]_vars, NEW r \in issues \ issues'
      PROVE  told' \in [button : {b \in pressed : GuestOf(b) = r}, what : {"ok"}]
    <2>1. \E b \in Buttons : Answered(b)
        BY <1>1 DEF Next, Work, Load, Unload, GuestPolled, BackupPolled, Begin, Take,
           Accepted, NotAccepted, AnswerLost, Refreshed, Press, vars, buttonVars
    <2>2. PICK b \in Buttons : Answered(b)
        BY <2>1
    <2>3. PICK answer \in {"ok", "forbidden", "error"} : Answer(b, answer)
        BY <2>2 DEF Answered
    <2>4. answer = "ok" /\ GuestOf(b) = r
        BY <1>1, <2>3 DEF Answer
    <2> QED BY <2>2, <2>3, <2>4 DEF Answered, Answer
<1>2. [Next]_vars => [\A r \in issues \ issues' :
           told' \in [button : {b \in pressed : GuestOf(b) = r}, what : {"ok"}]]_vars
    BY <1>1
<1> QED BY <1>2, PTL DEF Spec, RepairOutlastsErrors

-----------------------------------------------------------------------------
(* The promise of a call.                                                  *)

\* A plan that is left was neither run nor left out, and one left out was not
\* asked for: a plan comes up once.
ComesUpOnce ==
    call \in Calls =>
        /\ call.left \cap (call.runs \cup call.skipped) = {}
        /\ call.started \cap call.skipped = {}

LEMMA OnceInit == Init => ComesUpOnce
<1> SUFFICES ASSUME Init PROVE ComesUpOnce
    OBVIOUS
<1>1. call \notin Calls
    BY InvInit, CallIsOne DEF Init, IInv
<1> QED BY <1>1 DEF ComesUpOnce

\* What a step of a call does to its plans.
LEMMA TakeDoes ==
    ASSUME IInv, NEW p \in Plans, Take(p)
    PROVE  /\ call \in Calls /\ call.status = "working" /\ stage = Quiet
           /\ p \in call.left /\ call.started = call.runs
           /\ \/ /\ call'.left = call.left \ {p} /\ call'.skipped = call.skipped \cup {p}
                 /\ call'.started = call.started /\ call'.runs = call.runs
                 /\ call'.status = IF call.left = {p} THEN "done" ELSE "working"
                 /\ call' # NoCall /\ stage' = Quiet
              \/ /\ call'.left = call.left /\ call'.skipped = call.skipped
                 /\ call'.started = call.started /\ call'.runs = call.runs
                 /\ call'.status \in {"broken", "invalid"}
                 /\ call' # NoCall /\ stage' = Quiet
              \/ call' = call /\ stage' = [at |-> "asked", plan |-> p]
<1>1. call.status = "working" /\ stage = Quiet /\ p \in call.left
    BY DEF Take, Takes
<1>2. call \in Calls /\ call # NoCall /\ TypeOK
    BY <1>1, CallIsOne DEF IInv, NoCall
<1>3. call.started = call.runs
    BY <1>1, <1>2 DEF IInv, StartedFits
<1>4. CASE Skips(p)
    <2>1. /\ call' = [call EXCEPT !.left = @ \ {p}, !.skipped = @ \cup {p},
                          !.status = IF call.left = {p} THEN "done" ELSE "working"]
          /\ stage' = stage
        BY <1>4 DEF Skips
    <2>2. call' \in Calls
        BY <1>2, <2>1 DEF Calls, Ended
    <2>3. call' # NoCall
        BY <2>2 DEF Calls, NoCall, Ended
    <2>4. /\ call'.left = call.left \ {p} /\ call'.skipped = call.skipped \cup {p}
          /\ call'.started = call.started /\ call'.runs = call.runs
          /\ call'.status = IF call.left = {p} THEN "done" ELSE "working"
        BY <1>2, <2>1 DEF Calls
    <2> QED BY <1>1, <1>2, <1>3, <2>1, <2>3, <2>4
<1>5. CASE /\ call' = [call EXCEPT !.status = "broken"] \/ call' = [call EXCEPT !.status = "invalid"]
           /\ UNCHANGED stage
    <2>1. call' \in Calls
        BY <1>2, <1>5 DEF Calls, Ended
    <2>2. call' # NoCall
        BY <2>1 DEF Calls, NoCall, Ended
    <2>3. /\ call'.left = call.left /\ call'.skipped = call.skipped
          /\ call'.started = call.started /\ call'.runs = call.runs
          /\ call'.status \in {"broken", "invalid"}
        BY <1>2, <1>5 DEF Calls
    <2> QED BY <1>1, <1>2, <1>3, <1>5, <2>2, <2>3
<1>6. CASE Posts(p)
    BY <1>1, <1>2, <1>3, <1>6 DEF Posts
<1> QED BY <1>4, <1>5, <1>6 DEF Take

LEMMA AcceptedDoes ==
    ASSUME IInv, Accepted
    PROVE  /\ call \in Calls /\ call.status = "working" /\ stage # Quiet
           /\ stage.plan \in call.left /\ stage.plan \in Plans /\ call.started = call.runs
           /\ call'.left = call.left /\ call'.skipped = call.skipped
           /\ call'.started = call.started \cup {stage.plan} /\ call'.runs = call.runs
           /\ \/ /\ call'.status = "working"
                 /\ stage' = [at |-> "refreshing", plan |-> stage.plan]
              \/ call'.status = "broken" /\ stage' = Quiet
           /\ call' # NoCall
<1> DEFINE p == stage.plan
<1>1. stage.at = "asked" /\ stage # Quiet
    BY DEF Accepted, Quiet
<1>2. /\ call \in Calls /\ call # NoCall /\ p \in call.left /\ p \in Plans
      /\ call.status = "working" /\ call.started = call.runs
    BY <1>1, UnderWay
<1>3. CASE p.entry \in loaded
    <2>1. /\ call' = [call EXCEPT !.started = @ \cup {p}]
          /\ stage' = [at |-> "refreshing", plan |-> p]
        BY <1>3 DEF Accepted
    <2>2. call' \in Calls
        BY <1>2, <2>1 DEF Calls
    <2>3. call' # NoCall
        BY <2>2 DEF Calls, NoCall, Ended
    <2>4. /\ call'.left = call.left /\ call'.skipped = call.skipped
          /\ call'.started = call.started \cup {p} /\ call'.runs = call.runs
          /\ call'.status = "working"
        BY <1>2, <2>1 DEF Calls
    <2> QED BY <1>1, <1>2, <2>1, <2>3, <2>4
<1>4. CASE p.entry \notin loaded
    <2>1. /\ call' = [call EXCEPT !.started = @ \cup {p}, !.status = "broken"]
          /\ stage' = Quiet
        BY <1>4 DEF Accepted
    <2>2. call' \in Calls
        BY <1>2, <2>1 DEF Calls, Ended
    <2>3. call' # NoCall
        BY <2>2 DEF Calls, NoCall, Ended
    <2>4. /\ call'.left = call.left /\ call'.skipped = call.skipped
          /\ call'.started = call.started \cup {p} /\ call'.runs = call.runs
          /\ call'.status = "broken"
        BY <1>2, <2>1 DEF Calls
    <2> QED BY <1>1, <1>2, <2>1, <2>3, <2>4
<1> QED BY <1>3, <1>4

LEMMA NotAcceptedDoes ==
    ASSUME IInv, NotAccepted
    PROVE  /\ call \in Calls /\ call.status = "working" /\ stage # Quiet
           /\ call.started = call.runs
           /\ call'.left = call.left /\ call'.skipped = call.skipped
           /\ call'.started = call.started /\ call'.runs = call.runs
           /\ call'.status = "failed" /\ call' # NoCall /\ stage' = Quiet
<1>1. /\ stage.at = "asked" /\ stage # Quiet /\ stage' = Quiet
      /\ call' = [call EXCEPT !.status = "failed"]
    BY DEF NotAccepted, Quiet
<1>2. call \in Calls /\ call.status = "working" /\ call.started = call.runs
    BY <1>1, UnderWay
<1>3. /\ call'.left = call.left /\ call'.skipped = call.skipped
      /\ call'.started = call.started /\ call'.runs = call.runs
      /\ call'.status = "failed"
    BY <1>1, <1>2 DEF Calls
<1>4. call' # NoCall
    BY <1>3 DEF NoCall
<1> QED BY <1>1, <1>2, <1>3, <1>4

LEMMA AnswerLostDoes ==
    ASSUME IInv, AnswerLost
    PROVE  /\ call \in Calls /\ call.status = "working" /\ stage # Quiet
           /\ stage.plan \in call.left /\ stage.plan \in Plans /\ call.started = call.runs
           /\ call'.left = call.left /\ call'.skipped = call.skipped
           /\ call'.started = call.started \cup {stage.plan} /\ call'.runs = call.runs
           /\ call'.status = "failed" /\ call' # NoCall /\ stage' = Quiet
<1>1. /\ stage.at = "asked" /\ stage # Quiet /\ stage' = Quiet
      /\ call' = [call EXCEPT !.started = @ \cup {stage.plan}, !.status = "failed"]
    BY DEF AnswerLost, Quiet
<1>2. /\ call \in Calls /\ call.status = "working" /\ call.started = call.runs
      /\ stage.plan \in call.left /\ stage.plan \in Plans
    BY <1>1, UnderWay
<1>3. /\ call'.left = call.left /\ call'.skipped = call.skipped
      /\ call'.started = call.started \cup {stage.plan} /\ call'.runs = call.runs
      /\ call'.status = "failed"
    BY <1>1, <1>2 DEF Calls
<1>4. call' # NoCall
    BY <1>3 DEF NoCall
<1> QED BY <1>1, <1>2, <1>3, <1>4

LEMMA RefreshedDoes ==
    ASSUME IInv, Refreshed
    PROVE  /\ call \in Calls /\ call.status = "working"
           /\ stage # Quiet /\ stage.at = "refreshing" /\ stage' = Quiet
           /\ stage.plan \in call.left /\ stage.plan \in Plans
           /\ call.started = call.runs \cup {stage.plan}
           /\ call'.left = call.left \ {stage.plan} /\ call'.skipped = call.skipped
           /\ call'.started = call.started /\ call'.runs = call.runs \cup {stage.plan}
           /\ call'.status = IF call.left = {stage.plan} THEN "done" ELSE "working"
           /\ call' # NoCall
<1> DEFINE p == stage.plan
<1>1. stage.at = "refreshing" /\ stage # Quiet /\ stage' = Quiet
    BY DEF Refreshed, Quiet
<1>2. /\ call \in Calls /\ p \in call.left /\ p \in Plans /\ call.status = "working"
      /\ call.started = call.runs \cup {p}
    BY <1>1, UnderWay
<1>3. call' = [call EXCEPT !.left = @ \ {p}, !.runs = @ \cup {p},
                   !.status = IF call.left = {p} THEN "done" ELSE "working"]
    BY DEF Refreshed
<1>4. /\ call'.left = call.left \ {p} /\ call'.skipped = call.skipped
      /\ call'.started = call.started /\ call'.runs = call.runs \cup {p}
      /\ call'.status = IF call.left = {p} THEN "done" ELSE "working"
    BY <1>2, <1>3 DEF Calls
<1>5. call' # NoCall
    BY <1>4 DEF NoCall
<1> QED BY <1>1, <1>2, <1>4, <1>5

LEMMA OnceStep == IInv /\ ComesUpOnce /\ [Next]_vars => ComesUpOnce'
<1> SUFFICES ASSUME IInv, ComesUpOnce, [Next]_vars PROVE ComesUpOnce'
    OBVIOUS
<1>1. CASE UNCHANGED call
    BY <1>1 DEF ComesUpOnce
<1>2. ASSUME NEW r \in Requests, Begin(r) PROVE ComesUpOnce'
    BY <1>2 DEF Begin, ComesUpOnce
<1>3. ASSUME NEW p \in Plans, Take(p) PROVE ComesUpOnce'
    BY <1>3, TakeDoes DEF ComesUpOnce
<1>4. CASE Accepted
    <2>1. stage.plan \notin call.skipped
        BY <1>4, AcceptedDoes DEF ComesUpOnce
    <2> QED BY <1>4, <2>1, AcceptedDoes DEF ComesUpOnce
<1>5. CASE NotAccepted
    BY <1>5, NotAcceptedDoes DEF ComesUpOnce
<1>6. CASE Refreshed
    BY <1>6, RefreshedDoes DEF ComesUpOnce
<1>7. CASE \/ \E e \in Entries : Load(e) \/ Unload(e)
           \/ \E e \in Entries, g \in Guests : GuestPolled(e, g)
           \/ \E e \in Entries, n \in Nodes : BackupPolled(e, n)
           \/ \E b \in Buttons : Press(b) \/ Answered(b)
           \/ UNCHANGED vars
    <2>1. UNCHANGED call
        BY <1>7 DEF Load, Unload, GuestPolled, BackupPolled, Press, Answered, callVars, vars
    <2> QED BY <1>1, <2>1
<1>8. CASE AnswerLost
    <2>1. stage.plan \notin call.skipped
        BY <1>8, AnswerLostDoes DEF ComesUpOnce
    <2> QED BY <1>8, <2>1, AnswerLostDoes DEF ComesUpOnce
<1> QED BY <1>2, <1>3, <1>4, <1>5, <1>6, <1>7, <1>8 DEF Next, Work

\* The plans of a call stand for places, one each.
LEMMA OnePlanEach ==
    ASSUME IInv, call \in Calls, NEW p \in call.left
    PROVE  /\ <<p.entry, p.node>> \in PlacesOf(call.left)
           /\ PlacesOf(call.left \ {p}) = PlacesOf(call.left) \ {<<p.entry, p.node>>}
           /\ PlacesOf(call.left) = {<<p.entry, p.node>>} <=> call.left = {p}
           /\ p \notin call.started => <<p.entry, p.node>> \notin PlacesOf(call.started)
           /\ p \in call.started => <<p.entry, p.node>> \in PlacesOf(call.started)
<1>1. call # NoCall
    BY CallIsOne DEF IInv
<1>2. \A q \in call.left \cup call.started :
          p.entry = q.entry /\ p.node = q.node => p = q
    BY <1>1 DEF IInv, OneRunPerNode
<1>3. \A q : <<q.entry, q.node>> = <<p.entry, p.node>> <=> q.entry = p.entry /\ q.node = p.node
    OBVIOUS
<1>4. <<p.entry, p.node>> \in PlacesOf(call.left)
    BY DEF PlacesOf
<1>5. PlacesOf(call.left \ {p}) = PlacesOf(call.left) \ {<<p.entry, p.node>>}
    BY <1>2, <1>3 DEF PlacesOf
<1>6. PlacesOf(call.left) = {<<p.entry, p.node>>} <=> call.left = {p}
    BY <1>2, <1>3 DEF PlacesOf
<1>7. p \notin call.started => <<p.entry, p.node>> \notin PlacesOf(call.started)
    BY <1>2, <1>3 DEF PlacesOf
<1>8. p \in call.started => <<p.entry, p.node>> \in PlacesOf(call.started)
    BY DEF PlacesOf
<1> QED BY <1>4, <1>5, <1>6, <1>7, <1>8

LEMMA PlaceAdded ==
    ASSUME NEW plans, NEW p
    PROVE  PlacesOf(plans \cup {p}) = PlacesOf(plans) \cup {<<p.entry, p.node>>}
BY DEF PlacesOf

\* The places of a call, once there was one.
LEMMA PlacesAre ==
    ASSUME call # NoCall
    PROVE  /\ PlacesLeft = PlacesOf(call.left)
           /\ PlacesTaken = PlacesOf(call.started)
           /\ PlacesReported = PlacesOf(call.runs)
           /\ PlacesSpared = PlacesOf(call.skipped)
BY DEF PlacesLeft, PlacesTaken, PlacesReported, PlacesSpared

LEMMA PlacesWillBe ==
    ASSUME call' # NoCall
    PROVE  /\ PlacesLeft' = PlacesOf(call'.left)
           /\ PlacesTaken' = PlacesOf(call'.started)
           /\ PlacesReported' = PlacesOf(call'.runs)
           /\ PlacesSpared' = PlacesOf(call'.skipped)
BY DEF PlacesLeft, PlacesTaken, PlacesReported, PlacesSpared, PlacesOf

\* A call that is planned is for at least one place, each of an entry.
LEMMA BeginPromises ==
    ASSUME IInv, NEW r \in Requests, Begin(r)
    PROVE  Promise!Begin
<1>1. /\ call'.left = IF Refuses(r) THEN {} ELSE Planned(Asked(r))
      /\ call'.status = IF Refuses(r) THEN "invalid" ELSE "working"
      /\ call'.started = {} /\ call'.runs = {} /\ call'.skipped = {}
      /\ call.status \in Ended
    BY DEF Begin
<1>2. call.status # "working" /\ call' # NoCall
    BY <1>1 DEF Ended, NoCall
<1>3. PlacesTaken' = {} /\ PlacesReported' = {} /\ PlacesSpared' = {}
    BY <1>1, <1>2, PlacesWillBe DEF PlacesOf
<1>4. CASE Refuses(r)
    <2>1. call'.status = "invalid" /\ PlacesLeft' = {}
        BY <1>1, <1>2, <1>4, PlacesWillBe DEF PlacesOf
    <2> QED BY <1>2, <1>3, <2>1 DEF Promise!Begin
<1>5. CASE ~Refuses(r)
    <2>1. Asked(r) # {} /\ Asked(r) \subseteq Triples
        BY <1>5, AskedTyped DEF Refuses, IInv
    <2>2. Planned(Asked(r)) # {} /\ Planned(Asked(r)) \subseteq Plans
        BY <2>1, PlannedTyped DEF Planned
    <2>3. PlacesLeft' = PlacesOf(Planned(Asked(r)))
        BY <1>1, <1>2, <1>5, PlacesWillBe
    <2>4. PlacesLeft' # {} /\ PlacesLeft' \subseteq Entries \X Nodes
        <3>1. ASSUME NEW plans \in SUBSET Plans, plans # {}
              PROVE  PlacesOf(plans) # {} /\ PlacesOf(plans) \subseteq Entries \X Nodes
            <4>1. \A p \in plans : p.entry \in Entries /\ p.node \in Nodes
                BY DEF Plans
            <4>2. PICK p \in plans : TRUE
                BY <3>1
            <4>3. <<p.entry, p.node>> \in PlacesOf(plans)
                BY <4>2 DEF PlacesOf
            <4>4. PlacesOf(plans) \subseteq Entries \X Nodes
                BY <4>1 DEF PlacesOf
            <4> QED BY <4>3, <4>4
        <3> QED BY <2>2, <2>3, <3>1
    <2> QED BY <1>1, <1>2, <1>3, <1>5, <2>4 DEF Promise!Begin
<1> QED BY <1>4, <1>5

LEMMA TakePromises ==
    ASSUME IInv, ComesUpOnce, NEW p \in Plans, Take(p)
    PROVE  Promise!Next \/ UNCHANGED Promise!vars
<1> DEFINE x == <<p.entry, p.node>>
<1>1. /\ call \in Calls /\ call # NoCall /\ call.status = "working"
      /\ p \in call.left /\ call.started = call.runs
    BY TakeDoes, CallIsOne DEF IInv
<1>2. x \in Entries \X Nodes
    BY DEF Plans
<1>3. PlacesTaken = PlacesReported
    BY <1>1, PlacesAre
<1>4. ASSUME /\ call'.left = call.left \ {p} /\ call'.skipped = call.skipped \cup {p}
             /\ call'.started = call.started /\ call'.runs = call.runs
             /\ call'.status = IF call.left = {p} THEN "done" ELSE "working"
             /\ call' # NoCall
      PROVE  Promise!Spare(x)
    <2>1. p \notin call.started
        BY <1>1 DEF ComesUpOnce
    <2>2. /\ x \in PlacesLeft /\ x \notin PlacesTaken
          /\ PlacesLeft' = PlacesLeft \ {x}
          /\ PlacesLeft = {x} <=> call.left = {p}
        BY <1>1, <1>4, <2>1, OnePlanEach, PlacesAre, PlacesWillBe
    <2>3. /\ PlacesSpared' = PlacesSpared \cup {x}
          /\ PlacesTaken' = PlacesTaken /\ PlacesReported' = PlacesReported
        BY <1>1, <1>4, PlaceAdded, PlacesAre, PlacesWillBe
    <2>4. call'.status = IF PlacesLeft = {x} THEN "done" ELSE "working"
        BY <1>4, <2>2
    <2> QED BY <1>1, <1>3, <2>2, <2>3, <2>4
           DEF Promise!Spare, Promise!MayTurnTo, Promise!SeenTo
<1>5. ASSUME /\ call'.left = call.left /\ call'.skipped = call.skipped
             /\ call'.started = call.started /\ call'.runs = call.runs
             /\ call'.status \in {"broken", "invalid"}
             /\ call' # NoCall
      PROVE  Promise!GoWrong
    <2>1. UNCHANGED <<PlacesLeft, PlacesTaken, PlacesReported, PlacesSpared>>
        BY <1>1, <1>5, PlacesAre, PlacesWillBe
    <2> QED BY <1>1, <1>3, <1>5, <2>1 DEF Promise!GoWrong, Promise!Wrong
<1>6. ASSUME call' = call
      PROVE  UNCHANGED Promise!vars
    BY <1>6 DEF Promise!vars, PlacesLeft, PlacesTaken, PlacesReported, PlacesSpared, PlacesOf
<1> QED BY <1>2, <1>4, <1>5, <1>6, TakeDoes DEF Promise!Next

LEMMA AcceptedPromises ==
    ASSUME IInv, ComesUpOnce, Accepted
    PROVE  Promise!Next
<1> DEFINE p == stage.plan
           x == <<p.entry, p.node>>
<1>1. /\ call \in Calls /\ call # NoCall /\ call' # NoCall /\ call.status = "working"
      /\ p \in call.left /\ p \in Plans /\ call.started = call.runs
    BY AcceptedDoes, CallIsOne DEF IInv
<1>2. /\ call'.left = call.left /\ call'.skipped = call.skipped
      /\ call'.started = call.started \cup {p} /\ call'.runs = call.runs
      /\ call'.status \in {"working", "broken"}
    BY AcceptedDoes
<1>3. p \notin call.started
    BY <1>1 DEF ComesUpOnce
<1>4. x \in PlacesLeft /\ x \notin PlacesTaken /\ PlacesTaken = PlacesReported
    BY <1>1, <1>3, OnePlanEach, PlacesAre
<1>5. /\ PlacesTaken' = PlacesTaken \cup {x}
      /\ UNCHANGED <<PlacesLeft, PlacesReported, PlacesSpared>>
    <2>1. PlacesOf(call.started \cup {p}) = PlacesOf(call.started) \cup {x}
        BY PlaceAdded
    <2> QED BY <1>1, <1>2, <2>1, PlacesAre, PlacesWillBe
<1>6. Promise!Take(x)
    BY <1>1, <1>2, <1>4, <1>5 DEF Promise!Take, Promise!MayTurnTo
<1>7. x \in Entries \X Nodes
    BY <1>1 DEF Plans
<1> QED BY <1>6, <1>7 DEF Promise!Next

LEMMA NotAcceptedPromises ==
    ASSUME IInv, NotAccepted
    PROVE  Promise!Next
<1>1. /\ call # NoCall /\ call' # NoCall /\ call.status = "working"
      /\ call.started = call.runs /\ call'.status = "failed"
    BY NotAcceptedDoes, CallIsOne DEF IInv
<1>2. UNCHANGED <<PlacesLeft, PlacesTaken, PlacesReported, PlacesSpared>>
    BY <1>1, NotAcceptedDoes, PlacesAre, PlacesWillBe
<1>3. PlacesTaken = PlacesReported
    BY <1>1, PlacesAre
<1> QED BY <1>1, <1>2, <1>3 DEF Promise!Next, Promise!GoWrong, Promise!Wrong

\* The run that was taken unknown to the call is the promise's Take, failing.
LEMMA AnswerLostPromises ==
    ASSUME IInv, ComesUpOnce, AnswerLost
    PROVE  Promise!Next
<1> DEFINE p == stage.plan
           x == <<p.entry, p.node>>
<1>1. /\ call \in Calls /\ call # NoCall /\ call' # NoCall /\ call.status = "working"
      /\ p \in call.left /\ p \in Plans /\ call.started = call.runs
    BY AnswerLostDoes, CallIsOne DEF IInv
<1>2. /\ call'.left = call.left /\ call'.skipped = call.skipped
      /\ call'.started = call.started \cup {p} /\ call'.runs = call.runs
      /\ call'.status = "failed"
    BY AnswerLostDoes
<1>3. p \notin call.started
    BY <1>1 DEF ComesUpOnce
<1>4. x \in PlacesLeft /\ x \notin PlacesTaken /\ PlacesTaken = PlacesReported
    BY <1>1, <1>3, OnePlanEach, PlacesAre
<1>5. /\ PlacesTaken' = PlacesTaken \cup {x}
      /\ UNCHANGED <<PlacesLeft, PlacesReported, PlacesSpared>>
    <2>1. PlacesOf(call.started \cup {p}) = PlacesOf(call.started) \cup {x}
        BY PlaceAdded
    <2> QED BY <1>1, <1>2, <2>1, PlacesAre, PlacesWillBe
<1>6. Promise!Take(x)
    BY <1>1, <1>2, <1>4, <1>5 DEF Promise!Take, Promise!MayTurnTo
<1>7. x \in Entries \X Nodes
    BY <1>1 DEF Plans
<1> QED BY <1>6, <1>7 DEF Promise!Next

LEMMA RefreshedPromises ==
    ASSUME IInv, Refreshed
    PROVE  Promise!Next
<1> DEFINE p == stage.plan
           x == <<p.entry, p.node>>
<1>1. /\ call \in Calls /\ call # NoCall /\ call' # NoCall /\ call.status = "working"
      /\ p \in call.left /\ p \in Plans /\ p \in call.started
    BY RefreshedDoes, CallIsOne DEF IInv
<1>2. /\ call'.left = call.left \ {p} /\ call'.skipped = call.skipped
      /\ call'.started = call.started /\ call'.runs = call.runs \cup {p}
      /\ call'.status = IF call.left = {p} THEN "done" ELSE "working"
    BY RefreshedDoes
<1>3. /\ x \in PlacesLeft /\ x \in PlacesTaken
      /\ PlacesLeft' = PlacesLeft \ {x}
      /\ PlacesLeft = {x} <=> call.left = {p}
    BY <1>1, <1>2, OnePlanEach, PlacesAre, PlacesWillBe
<1>4. /\ PlacesReported' = PlacesReported \cup {x}
      /\ UNCHANGED <<PlacesTaken, PlacesSpared>>
    <2>1. PlacesOf(call.runs \cup {p}) = PlacesOf(call.runs) \cup {x}
        BY PlaceAdded
    <2> QED BY <1>1, <1>2, <2>1, PlacesAre, PlacesWillBe
<1>5. call'.status = IF PlacesLeft = {x} THEN "done" ELSE "working"
    BY <1>2, <1>3
<1>6. Promise!Report(x)
    BY <1>1, <1>3, <1>4, <1>5 DEF Promise!Report, Promise!SeenTo
<1>7. x \in Entries \X Nodes
    BY <1>1 DEF Plans
<1> QED BY <1>6, <1>7 DEF Promise!Next

LEMMA StepPromises ==
    IInv /\ ComesUpOnce /\ [Next]_vars => [Promise!Next]_Promise!vars
<1> SUFFICES ASSUME IInv, ComesUpOnce, [Next]_vars
             PROVE  Promise!Next \/ UNCHANGED Promise!vars
    OBVIOUS
<1>1. CASE UNCHANGED call
    BY <1>1 DEF Promise!vars, PlacesLeft, PlacesTaken, PlacesReported, PlacesSpared, PlacesOf
<1>2. CASE \/ \E e \in Entries : Load(e) \/ Unload(e)
           \/ \E e \in Entries, g \in Guests : GuestPolled(e, g)
           \/ \E e \in Entries, n \in Nodes : BackupPolled(e, n)
           \/ \E b \in Buttons : Press(b) \/ Answered(b)
           \/ UNCHANGED vars
    <2>1. UNCHANGED call
        BY <1>2 DEF Load, Unload, GuestPolled, BackupPolled, Press, Answered, callVars, vars
    <2> QED BY <1>1, <2>1
<1>3. CASE \E r \in Requests : Begin(r)
    BY <1>3, BeginPromises DEF Promise!Next
<1> QED BY <1>2, <1>3, TakePromises, AcceptedPromises, NotAcceptedPromises,
           AnswerLostPromises, RefreshedPromises DEF Next, Work

\* KeepsPromise of Commands: with plans, polls, loads and answers hidden, a call
\* does to its places only what BackupCall allows - each is seen to once, none
\* has a second backup taken, the call is done only after the last, and one that
\* fails leaves at most one run that Proxmox took and the call does not know of.
THEOREM PromiseKept == Spec => KeepsPromise
<1>1. Init => Promise!Init
    BY DEF Init, NoCall, Promise!Init, PlacesLeft, PlacesTaken, PlacesReported, PlacesSpared
<1> QED BY <1>1, InvInit, InvStep, OnceInit, OnceStep, StepPromises, PTL
       DEF Spec, KeepsPromise, Promise!Spec

\* What the promise is worth: a place is run, spared or left and never two of
\* these, and a call has one unreported run at most, none when it is done.
THEOREM EachPlaceHasOneFate == Spec => []Promise!Fates
<1>1. Promise!Init => Promise!Fates
    BY DEF Promise!Init, Promise!Fates
<1>2. Promise!Fates /\ [Promise!Next]_Promise!vars => Promise!Fates'
    <2> SUFFICES ASSUME Promise!Fates, Promise!Next \/ UNCHANGED Promise!vars
                 PROVE  Promise!Fates'
        OBVIOUS
    <2> USE DEF Promise!Fates
    <2>1. CASE UNCHANGED Promise!vars
        BY <2>1 DEF Promise!vars
    <2>2. CASE Promise!Begin
        BY <2>2 DEF Promise!Begin
    <2>3. CASE Promise!GoWrong
        BY <2>3 DEF Promise!GoWrong, Promise!Wrong
    <2>4. ASSUME NEW x \in Entries \X Nodes, Promise!Take(x) PROVE Promise!Fates'
        BY <2>4 DEF Promise!Take, Promise!MayTurnTo
    <2>5. ASSUME NEW x \in Entries \X Nodes, Promise!Report(x) PROVE Promise!Fates'
        BY <2>5 DEF Promise!Report, Promise!SeenTo
    <2>6. ASSUME NEW x \in Entries \X Nodes, Promise!Spare(x) PROVE Promise!Fates'
        BY <2>6 DEF Promise!Spare, Promise!MayTurnTo, Promise!SeenTo
    <2> QED BY <2>1, <2>2, <2>3, <2>4, <2>5, <2>6 DEF Promise!Next
<1>3. Promise!Spec => []Promise!Fates
    BY <1>1, <1>2, PTL DEF Promise!Spec
<1> QED BY <1>3, PromiseKept DEF KeepsPromise

-----------------------------------------------------------------------------
(* Why a call ends: the safety half of CallEnds.                           *)

\* A call that works has something to turn to or an answer to wait for.
HasWork ==
    call.status = "working" =>
        /\ call.left # {}
        /\ stage = Quiet \/ stage.at \in {"asked", "refreshing"}

\* How many steps a call can still take: three for a plan, less those that
\* the plan under way has behind it.
Behind == IF stage = Quiet THEN 0 ELSE IF stage.at = "asked" THEN 1 ELSE 2

StepsLeft == 3 * Cardinality(call.left) - Behind

LEMMA WorkStep == IInv /\ HasWork /\ [Next]_vars => HasWork'
<1> SUFFICES ASSUME IInv, HasWork, [Next]_vars, call'.status = "working"
             PROVE  call'.left # {} /\ (stage' = Quiet \/ stage'.at \in {"asked", "refreshing"})
    BY DEF HasWork
<1>1. IInv'
    BY InvStep
<1>2. stage' = Quiet \/ stage'.at \in {"asked", "refreshing"}
    BY <1>1 DEF IInv, TypeOK
<1>3. CASE UNCHANGED call
    BY <1>2, <1>3 DEF HasWork
<1>4. ASSUME NEW r \in Requests, Begin(r) PROVE call'.left # {}
    <2>1. ~Refuses(r) /\ call'.left = Planned(Asked(r))
        BY <1>4 DEF Begin
    <2> QED BY <2>1 DEF Refuses, Planned
<1>5. ASSUME NEW p \in Plans, Take(p) PROVE call'.left # {}
    <2>1. p \in call.left
        BY <1>5, TakeDoes
    <2> QED BY <1>5, <2>1, TakeDoes
<1>6. CASE Accepted
    BY <1>6, AcceptedDoes DEF HasWork
<1>7. CASE NotAccepted
    BY <1>7, NotAcceptedDoes
<1>8. CASE Refreshed
    BY <1>8, RefreshedDoes
<1>9. CASE \/ \E e \in Entries : Load(e) \/ Unload(e)
           \/ \E e \in Entries, g \in Guests : GuestPolled(e, g)
           \/ \E e \in Entries, n \in Nodes : BackupPolled(e, n)
           \/ \E b \in Buttons : Press(b) \/ Answered(b)
           \/ UNCHANGED vars
    <2>1. UNCHANGED call
        BY <1>9 DEF Load, Unload, GuestPolled, BackupPolled, Press, Answered, callVars, vars
    <2> QED BY <1>3, <2>1
<1>10. CASE AnswerLost
    BY <1>10, AnswerLostDoes
<1> QED BY <1>2, <1>4, <1>5, <1>6, <1>7, <1>8, <1>9, <1>10 DEF Next, Work

\* A call that works is never stuck: it has a plan to turn to or an answer to
\* wait for, which is a step of Work that WF_vars(Work) may count on.
THEOREM CallsHaveWork == Spec => []HasWork
<1>1. Init => HasWork
    BY DEF Init, HasWork, NoCall
<1> QED BY <1>1, InvInit, InvStep, WorkStep, PTL DEF Spec

\* One plan for each place at most, so there are no more than there are places.
LEMMA FewPlans ==
    ASSUME IInv, call \in Calls, IsFiniteSet(Entries), IsFiniteSet(Nodes)
    PROVE  IsFiniteSet(call.left)
<1> DEFINE place == [p \in call.left |-> <<p.entry, p.node>>]
<1>1. IsFiniteSet(Entries \X Nodes)
    BY FS_Product
<1>2. call.left \subseteq Plans /\ call # NoCall
    BY CallIsOne DEF IInv, Calls
<1>3. place \in [call.left -> Entries \X Nodes]
    BY <1>2 DEF Plans
<1>4. ASSUME NEW p \in call.left, NEW q \in call.left, place[p] = place[q]
      PROVE  p = q
    <2>1. p.entry = q.entry /\ p.node = q.node
        BY <1>4
    <2> QED BY <1>2, <2>1 DEF IInv, OneRunPerNode
<1>5. place \in Injection(call.left, Entries \X Nodes)
    BY <1>3, <1>4 DEF Injection, IsInjective
<1> QED BY <1>1, <1>5, FS_Injection

\* A step of a call's own ends it or leaves it fewer steps, and nothing else
\* gives it more.
RunsOut ==
    call.status = "working" /\ call'.status = "working" =>
        /\ StepsLeft \in Nat /\ StepsLeft' \in Nat
        /\ UNCHANGED callVars \/ StepsLeft' < StepsLeft

LEMMA OneLess ==
    ASSUME NEW plans, NEW p \in plans, IsFiniteSet(plans)
    PROVE  /\ Cardinality(plans) \in Nat \ {0}
           /\ IsFiniteSet(plans \ {p})
           /\ Cardinality(plans \ {p}) = Cardinality(plans) - 1
BY FS_RemoveElement, FS_CardinalityType, FS_EmptySet

LEMMA StepRunsOut ==
    IsFiniteSet(Entries) /\ IsFiniteSet(Nodes) /\ IInv /\ HasWork /\ [Next]_vars => RunsOut
<1> SUFFICES ASSUME IsFiniteSet(Entries), IsFiniteSet(Nodes), IInv, HasWork, [Next]_vars,
                    call.status = "working", call'.status = "working"
             PROVE  /\ StepsLeft \in Nat /\ StepsLeft' \in Nat
                    /\ UNCHANGED callVars \/ StepsLeft' < StepsLeft
    BY DEF RunsOut
<1> DEFINE size == Cardinality(call.left)
<1>1. call \in Calls /\ call # NoCall
    BY CallIsOne DEF IInv, NoCall
<1>2. IsFiniteSet(call.left)
    BY <1>1, FewPlans
<1>3. size \in Nat \ {0}
    BY <1>2, OneLess DEF HasWork
<1>4. Behind \in 0..2
    BY DEF Behind
<1>5. StepsLeft \in Nat
    BY <1>3, <1>4 DEF StepsLeft
<1>6. CASE UNCHANGED callVars
    <2>1. StepsLeft' = StepsLeft
        BY <1>6 DEF StepsLeft, Behind, callVars
    <2> QED BY <1>5, <1>6, <2>1
<1>7. ASSUME NEW p \in Plans, Take(p)
      PROVE  StepsLeft' \in Nat /\ StepsLeft' < StepsLeft
    <2>1. stage = Quiet /\ p \in call.left
        BY <1>7, TakeDoes
    <2>2. StepsLeft = 3 * size
        BY <1>3, <2>1 DEF StepsLeft, Behind
    <2>3. CASE call'.left = call.left \ {p} /\ stage' = Quiet
        <3>1. Cardinality(call'.left) = size - 1
            BY <1>2, <2>1, <2>3, OneLess
        <3>2. StepsLeft' = 3 * (size - 1)
            BY <1>3, <2>3, <3>1 DEF StepsLeft, Behind
        <3> QED BY <1>3, <2>2, <3>2
    <2>4. CASE call' = call /\ stage' = [at |-> "asked", plan |-> p]
        <3>1. Behind' = 1
            BY <2>4 DEF Behind, Quiet
        <3>2. StepsLeft' = 3 * size - 1
            BY <2>4, <3>1 DEF StepsLeft
        <3> QED BY <1>3, <2>2, <3>2
    <2> QED BY <1>7, <2>3, <2>4, TakeDoes
<1>8. ASSUME Accepted
      PROVE  StepsLeft' \in Nat /\ StepsLeft' < StepsLeft
    <2>1. /\ call'.left = call.left /\ stage.at = "asked" /\ stage # Quiet
          /\ stage' = [at |-> "refreshing", plan |-> stage.plan]
        BY <1>8, AcceptedDoes DEF Accepted
    <2>2. Behind = 1
        BY <2>1 DEF Behind
    <2>3. Behind' = 2
        BY <2>1 DEF Behind, Quiet
    <2>4. StepsLeft = 3 * size - 1 /\ StepsLeft' = 3 * size - 2
        BY <2>1, <2>2, <2>3 DEF StepsLeft
    <2> QED BY <1>3, <2>4
<1>9. ASSUME Refreshed
      PROVE  StepsLeft' \in Nat /\ StepsLeft' < StepsLeft
    <2> DEFINE p == stage.plan
    <2>1. /\ call'.left = call.left \ {p} /\ p \in call.left
          /\ stage.at = "refreshing" /\ stage # Quiet /\ stage' = Quiet
        BY <1>9, RefreshedDoes DEF Refreshed, Quiet
    <2>2. Behind = 2
        BY <2>1 DEF Behind
    <2>3. Behind' = 0
        BY <2>1 DEF Behind
    <2>4. Cardinality(call'.left) = size - 1
        BY <1>2, <2>1, OneLess
    <2>5. StepsLeft = 3 * size - 2 /\ StepsLeft' = 3 * (size - 1)
        BY <1>3, <2>2, <2>3, <2>4 DEF StepsLeft
    <2> QED BY <1>3, <2>5
<1>10. ASSUME NEW r \in Requests, Begin(r) PROVE FALSE
    BY <1>10 DEF Begin, Ended
<1>11. CASE NotAccepted
    BY <1>11, NotAcceptedDoes
<1>12. CASE \/ \E e \in Entries : Load(e) \/ Unload(e)
            \/ \E e \in Entries, g \in Guests : GuestPolled(e, g)
            \/ \E e \in Entries, n \in Nodes : BackupPolled(e, n)
            \/ \E b \in Buttons : Press(b) \/ Answered(b)
            \/ UNCHANGED vars
    <2>1. UNCHANGED callVars
        BY <1>12 DEF Load, Unload, GuestPolled, BackupPolled, Press, Answered, callVars, vars
    <2> QED BY <1>6, <2>1
<1>13. CASE AnswerLost
    BY <1>13, AnswerLostDoes
<1> QED BY <1>5, <1>7, <1>8, <1>9, <1>10, <1>11, <1>12, <1>13 DEF Next, Work

\* With finitely many entries and nodes a call takes at most three steps of its
\* own for each plan it began with, whatever is polled, loaded or unloaded in
\* between: with CallsHaveWork, all of CallEnds that is not fairness.
THEOREM CallsRunOut ==
    ASSUME IsFiniteSet(Entries), IsFiniteSet(Nodes)
    PROVE  Spec => [][RunsOut]_vars
<1>1. Init => HasWork
    BY DEF Init, HasWork, NoCall
<1>2. IInv /\ HasWork /\ [Next]_vars => [RunsOut]_vars
    BY StepRunsOut
<1> QED BY <1>1, <1>2, InvInit, InvStep, WorkStep, PTL DEF Spec
=============================================================================
