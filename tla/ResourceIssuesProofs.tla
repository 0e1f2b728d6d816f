------------------------ MODULE ResourceIssuesProofs ------------------------
(***************************************************************************)
(* What TLAPS proves of ResourceIssues, for any resources, coordinators    *)
(* and plans: what is on the lists, what puts a line on them and takes one *)
(* off, and what updates bring that no unload ends; and that the plans of  *)
(* PollPlans are such plans.                                               *)
(***************************************************************************)
EXTENDS ResourceIssues, TLAPS

\* An entry that is not set up polls nothing and has nothing left to do.
Quiet ==
    phase \in {"unloaded", "broken", "disabled"} =>
        /\ built = {}
        /\ todo = {}
        /\ first = <<>>
        /\ \A c \in Coordinators : pc[c] = 0

\* Where an entry is not loaded, nothing is due, and what still runs for a
\* service call is of a setup before.
OnlyStrays ==
    phase # "loaded" =>
        /\ due = {}
        /\ \A c \in Coordinators : asked[c] > 0 => c \in strays

\* What is not loaded has noted nothing, but for the strays.
OnlyLateLines == phase = "unloaded" => \A k \in Kinds : lists[k] \subseteq late

Inv == TypeOK /\ RepairsShowLists /\ Quiet /\ OnlyStrays /\ OnlyLateLines

-----------------------------------------------------------------------------
(* The lists.                                                              *)

LEMMA OffType ==
    ASSUME NEW ls \in [Kinds -> SUBSET Lines], NEW ks, NEW key
    PROVE  Off(ls, ks, key) \in [Kinds -> SUBSET Lines]
BY DEF Off

LEMMA OnType ==
    ASSUME NEW ls \in [Kinds -> SUBSET Lines], NEW k \in Kinds, NEW line \in Lines
    PROVE  On(ls, k, line) \in [Kinds -> SUBSET Lines]
BY OffType DEF On

LEMMA NoLinesType == NoLines \in [Kinds -> SUBSET Lines] /\ Listed(NoLines) = {}
BY DEF NoLines, Listed

\* A rewritten registry shows what is on the lists.
LEMMA RewriteShows ==
    ASSUME Inv, NEW ls \in [Kinds -> SUBSET Lines], NEW strayed, Rewrite(ls, strayed)
    PROVE  /\ lists' \in [Kinds -> SUBSET Lines]
           /\ repairs' \in [Kinds -> SUBSET Lines]
           /\ RepairsShowLists'
           /\ late' \subseteq Listed(lists')
<1>1. repairs = lists /\ lists \in [Kinds -> SUBSET Lines]
  BY DEF Inv, TypeOK, RepairsShowLists
<1>2. lists' = ls /\ late' \subseteq Listed(ls)
  BY DEF Rewrite
<1>3. repairs' = [k \in Kinds |-> ls[k]]
  BY <1>1 DEF Rewrite
<1> QED
  BY <1>2, <1>3 DEF RepairsShowLists, Listed

\* The read a coordinator has in flight, for itself or for a service call.
Reading(c, read) ==
    \/ Flying(c) /\ read = Plan[c][pc[c]]
    \/ asked[c] > 0 /\ read = Plan[c][asked[c]]

\* It is one of its plan.
LEMMA InFlight ==
    ASSUME Inv, NEW c \in Coordinators
    PROVE  /\ Flying(c) => pc[c] \in 1..Len(Plan[c])
           /\ asked[c] > 0 => asked[c] \in 1..Len(Plan[c])
           /\ Len(Plan[c]) \in Nat
           /\ Plan[c] \in Seq(Reads)
           /\ \A read : Reading(c, read) => read \in Reads /\ read \in ReadsOf(c)
<1>1. /\ Plan[c] \in Seq(Reads) /\ Len(Plan[c]) \in Nat
      /\ pc[c] \in Nat /\ pc[c] <= Len(Plan[c])
      /\ asked[c] \in Nat /\ asked[c] <= Len(Plan[c])
  BY PlanAssumption DEF Inv, TypeOK
<1>2. /\ Flying(c) => pc[c] \in 1..Len(Plan[c])
      /\ asked[c] > 0 => asked[c] \in 1..Len(Plan[c])
  BY <1>1 DEF Flying
<1>3. \A i \in 1..Len(Plan[c]) : Plan[c][i] \in Reads /\ Plan[c][i] \in ReadsOf(c)
  BY <1>1 DEF ReadsOf
<1> QED
  BY <1>1, <1>2, <1>3 DEF Reading

LEMMA NotedType ==
    ASSUME Inv, NEW read \in Reads
    PROVE  Noted(read) \in [Kinds -> SUBSET Lines]
<1>1. lists \in [Kinds -> SUBSET Lines]
  BY DEF Inv, TypeOK
<1>2. LineOf(read) \in Lines
  BY DEF Lines
<1>3. On(lists, "forbidden", LineOf(read)) \in [Kinds -> SUBSET Lines]
  BY <1>1, <1>2, OnType DEF Kinds
<1>4. Off(lists, {"forbidden", read.noted}, read.key) \in [Kinds -> SUBSET Lines]
  BY <1>1, OffType
<1>5. read.noted \in Features =>
          On(lists, read.noted, LineOf(read)) \in [Kinds -> SUBSET Lines]
  BY <1>1, <1>2, OnType DEF Kinds
<1> QED
  BY <1>1, <1>3, <1>4, <1>5 DEF Noted

-----------------------------------------------------------------------------
(* The invariant.                                                          *)

LEMMA InitEstablishesInv == Init => Inv
<1> SUFFICES ASSUME Init PROVE Inv
  OBVIOUS
<1>1. first \in Seq(Coordinators) /\ first = <<>>
  BY DEF Init
<1>2. /\ pc \in [Coordinators -> Nat] /\ asked \in [Coordinators -> Nat]
      /\ \A c \in Coordinators : pc[c] = 0 /\ asked[c] = 0 /\ 0 <= Len(Plan[c])
  BY PlanAssumption DEF Init
<1>3. lists \in [Kinds -> SUBSET Lines] /\ repairs \in [Kinds -> SUBSET Lines]
  BY NoLinesType DEF Init
<1>4. \A k \in Kinds : lists[k] = {}
  BY DEF Init, NoLines
<1> QED
  BY <1>1, <1>2, <1>3, <1>4
     DEF Init, Inv, TypeOK, RepairsShowLists, Quiet, OnlyStrays, OnlyLateLines

\* An update moves along its plan.
LEMMA NextsType ==
    ASSUME NEW c \in Coordinators, NEW i \in 1..Len(Plan[c]), NEW outcome
    PROVE  \A n \in Nexts(c, i, outcome) : n \in Nat /\ n <= Len(Plan[c])
<1>1. Plan[c] \in Seq(Reads) /\ Len(Plan[c]) \in Nat /\ Plan[c][i] \in Reads
  BY PlanAssumption
<1>2. ASSUME NEW s \in Plan[c][i].skips
      PROVE  NextRead(c, i, s) \in Nat /\ NextRead(c, i, s) <= Len(Plan[c])
  <2>1. s \in Nat
    BY <1>1, PlanAssumption
  <2> DEFINE m == i + 1 + s
  <2>2. m \in Nat /\ NextRead(c, i, s) = IF m > Len(Plan[c]) THEN 0 ELSE m
    BY <1>1, <2>1 DEF NextRead
  <2> HIDE DEF m
  <2> QED
    BY <1>1, <2>2
<1>3. 0 \in Nat /\ 0 <= Len(Plan[c])
  BY <1>1
<1> QED
  BY <1>2, <1>3 DEF Nexts

\* A coordinator leaves the queue of those to be refreshed when it is through,
\* and what is parked has a listener.
LEMMA ProceedType ==
    ASSUME Inv, NEW c \in Coordinators, Flying(c), NEW outcome, Proceed(c, outcome)
    PROVE  /\ pc' \in [Coordinators -> Nat]
           /\ \A d \in Coordinators : pc'[d] <= Len(Plan[d])
           /\ first' \in Seq(Coordinators)
           /\ first' = first \/ (first # <<>> /\ first' = Tail(first))
           /\ listened' \subseteq Coordinators
           /\ parked' \subseteq listened'
<1>1. PICK next \in Nexts(c, pc[c], outcome) :
          /\ pc' = [pc EXCEPT ![c] = next]
          /\ first' = IF next = 0 /\ Refreshing(c) THEN Tail(first) ELSE first
          /\ parked' = IF next = 0 THEN ParkedAfter(c, outcome) ELSE parked
          /\ listened' = listened \/ listened' = listened \cup {c}
  BY DEF Proceed
<1>2. /\ pc \in [Coordinators -> Nat]
      /\ \A d \in Coordinators : pc[d] <= Len(Plan[d])
      /\ first \in Seq(Coordinators)
      /\ listened \subseteq Coordinators /\ parked \subseteq listened
  BY DEF Inv, TypeOK
<1>3. next \in Nat /\ next <= Len(Plan[c])
  BY <1>1, InFlight, NextsType
<1>4. pc' \in [Coordinators -> Nat] /\ \A d \in Coordinators : pc'[d] <= Len(Plan[d])
  BY <1>1, <1>2, <1>3
<1>5. first' = first \/ (first # <<>> /\ first' = Tail(first))
  BY <1>1 DEF Refreshing
<1>6. first # <<>> => Tail(first) \in Seq(Coordinators)
  <2>1. first \in Seq(Coordinators)
    BY <1>2
  <2> QED
    BY ONLY <2>1
<1>7. parked' \subseteq listened
  BY <1>1, <1>2 DEF ParkedAfter
<1> QED
  BY <1>1, <1>2, <1>4, <1>5, <1>6, <1>7

LEMMA AskProceedsType ==
    ASSUME Inv, NEW c \in Coordinators, asked[c] > 0, NEW outcome, AskProceeds(c, outcome)
    PROVE  /\ asked' \in [Coordinators -> Nat]
           /\ \A d \in Coordinators : asked'[d] <= Len(Plan[d])
           /\ \A d \in Coordinators : asked'[d] > 0 => asked[d] > 0
           /\ strays' \subseteq strays
           /\ \A d \in Coordinators : asked'[d] > 0 => (d \in strays' <=> d \in strays)
           /\ strays' \subseteq {d \in Coordinators : asked'[d] > 0}
           /\ parked' \subseteq listened
<1>1. PICK next \in Nexts(c, asked[c], outcome) :
          /\ asked' = [asked EXCEPT ![c] = next]
          /\ strays' = IF next = 0 THEN strays \ {c} ELSE strays
          /\ parked' = IF next = 0 /\ c \notin strays THEN ParkedAfter(c, outcome) ELSE parked
  BY DEF AskProceeds
<1>2. /\ asked \in [Coordinators -> Nat]
      /\ \A d \in Coordinators : asked[d] <= Len(Plan[d])
      /\ strays \subseteq {d \in Coordinators : asked[d] > 0}
      /\ parked \subseteq listened
  BY DEF Inv, TypeOK
<1>3. next \in Nat /\ next <= Len(Plan[c])
  BY <1>1, InFlight, NextsType
<1>4. parked' \subseteq listened
  BY <1>1, <1>2 DEF ParkedAfter
<1>5. /\ asked' \in [Coordinators -> Nat]
      /\ \A d \in Coordinators : asked'[d] = IF d = c THEN next ELSE asked[d]
  BY <1>1, <1>2, <1>3
<1>6. strays' \subseteq {d \in Coordinators : asked'[d] > 0}
  BY <1>1, <1>2, <1>3, <1>5
<1> QED
  BY <1>1, <1>2, <1>3, <1>4, <1>5, <1>6

\* Only a loaded entry, or one being set up, updates its coordinators.
LEMMA FlyingIsLoaded ==
    ASSUME Inv, NEW c \in Coordinators, Update(c)
    PROVE  phase \in {"setup", "loaded"}
<1>1. Flying(c) => phase \in {"setup", "loaded"}
  BY DEF Inv, TypeOK, Quiet, Flying
<1>2. StartUpdate(c) \/ Stagger(c) => phase \in {"setup", "loaded"}
  BY DEF StartUpdate, Stagger, Refreshing, Scheduled, Ready, Inv, TypeOK, Quiet, OnlyStrays
<1> QED
  BY <1>1, <1>2 DEF Update, ReadReturns, TakeShared

LEMMA BurstType ==
    ASSUME Inv, NEW read,
           \/ burst' = burst
           \/ OutcomeTo(read) # "auth" /\ burst' = OutcomeTo(read)
    PROVE  burst' \in {"stale", "data", "none", "failed"}
<1>1. OutcomeTo(read) \in {"data", "none", "failed", "auth"}
  BY DEF OutcomeTo, OutcomeOf, RefusedCredentials
<1> QED
  BY <1>1 DEF Inv, TypeOK

LEMMA UpdateKeepsInv ==
    ASSUME Inv, NEW c \in Coordinators, Update(c)
    PROVE  Inv'
<1>0. phase \in {"setup", "loaded"}
  BY FlyingIsLoaded
<1>1. CASE StartUpdate(c)
  <2>1. /\ pc' \in [Coordinators -> Nat]
        /\ \A d \in Coordinators : pc'[d] <= Len(Plan[d])
    BY <1>1, PlanAssumption DEF StartUpdate, Inv, TypeOK
  <2> QED
    BY <1>0, <1>1, <2>1
       DEF StartUpdate, Inv, TypeOK, RepairsShowLists, Quiet, OnlyStrays, OnlyLateLines,
           envVars, entryVars, askVars, issueVars
<1>2. CASE Stagger(c)
  <2>1. /\ pc' \in [Coordinators -> Nat]
        /\ \A d \in Coordinators : pc'[d] <= Len(Plan[d])
    BY <1>2, PlanAssumption DEF Stagger, Inv, TypeOK
  <2> QED
    BY <1>0, <1>2, <2>1
       DEF Stagger, Inv, TypeOK, RepairsShowLists, Quiet, OnlyStrays, OnlyLateLines,
           envVars, entryVars, askVars, issueVars
<1>3. CASE ReadReturns(c)
  <2> DEFINE read == Plan[c][pc[c]]
  <2>1. read \in Reads /\ Flying(c)
    BY <1>3, InFlight DEF ReadReturns, Reading
  <2>2. /\ pc' \in [Coordinators -> Nat]
        /\ \A d \in Coordinators : pc'[d] <= Len(Plan[d])
        /\ first' \in Seq(Coordinators)
        /\ listened' \subseteq Coordinators /\ parked' \subseteq listened'
    BY <1>3, ProceedType DEF ReadReturns
  <2>3. /\ lists' \in [Kinds -> SUBSET Lines]
        /\ repairs' \in [Kinds -> SUBSET Lines]
        /\ RepairsShowLists'
        /\ late' \subseteq Listed(lists')
    BY <1>3, <2>1, NotedType, RewriteShows DEF ReadReturns
  <2>4. burst' \in {"stale", "data", "none", "failed"}
    BY <1>3, BurstType DEF ReadReturns
  <2> QED
    BY <1>0, <1>3, <2>2, <2>3, <2>4
       DEF ReadReturns, Inv, TypeOK, Quiet, OnlyStrays, OnlyLateLines, envVars, askVars
<1>4. CASE TakeShared(c)
  <2>1. /\ pc' \in [Coordinators -> Nat]
        /\ \A d \in Coordinators : pc'[d] <= Len(Plan[d])
        /\ first' \in Seq(Coordinators)
        /\ listened' \subseteq Coordinators /\ parked' \subseteq listened'
    BY <1>4, ProceedType DEF TakeShared
  <2> QED
    BY <1>0, <1>4, <2>1
       DEF TakeShared, Inv, TypeOK, RepairsShowLists, Quiet, OnlyStrays, OnlyLateLines,
           envVars, askVars, issueVars
<1> QED
  BY <1>1, <1>2, <1>3, <1>4 DEF Update

\* What a stray notes is late, and what is late stays so while it is listed.
LEMMA AnswersAreLate ==
    ASSUME Inv, NEW c \in Coordinators, AskReturns(c)
    PROVE  \E read \in Reads :
              /\ Reading(c, read)
              /\ lists' = Noted(read)
              /\ c \in strays => Listed(lists') \ Listed(lists) \subseteq late'
              /\ late \cap Listed(lists') \subseteq late'
<1> DEFINE read == Plan[c][asked[c]]
<1>1. Reading(c, read) /\ read \in Reads
  BY InFlight DEF AskReturns, Reading
<1>2. /\ lists' = Noted(read)
      /\ late' = (late \cup (IF c \in strays THEN Listed(Noted(read)) \ Listed(lists) ELSE {}))
                 \cap Listed(Noted(read))
  BY DEF AskReturns, Rewrite
<1> HIDE DEF read
<1> QED
  BY <1>1, <1>2

LEMMA AskKeepsInv ==
    ASSUME Inv, NEW c \in Coordinators, Ask(c) \/ AskedUpdate(c)
    PROVE  Inv'
<1>1. CASE Ask(c)
  <2>1. phase = "loaded"
    BY <1>1 DEF Ask, Ready
  <2>2. /\ asked' \in [Coordinators -> Nat]
        /\ \A d \in Coordinators : asked'[d] <= Len(Plan[d])
        /\ strays' \subseteq {d \in Coordinators : asked'[d] > 0}
    BY <1>1, PlanAssumption DEF Ask, Inv, TypeOK
  <2> QED
    BY <1>1, <2>1, <2>2
       DEF Ask, Inv, TypeOK, RepairsShowLists, Quiet, OnlyStrays, OnlyLateLines,
           envVars, entryVars, pollVars, issueVars
<1>2. CASE AskReturns(c)
  <2> DEFINE read == Plan[c][asked[c]]
  <2>1. read \in Reads /\ asked[c] > 0 /\ AskProceeds(c, OutcomeTo(read))
    BY <1>2, InFlight DEF AskReturns, Reading
  <2>2. /\ asked' \in [Coordinators -> Nat]
        /\ \A d \in Coordinators : asked'[d] <= Len(Plan[d])
        /\ \A d \in Coordinators : asked'[d] > 0 => asked[d] > 0
        /\ \A d \in Coordinators : asked'[d] > 0 => (d \in strays' <=> d \in strays)
        /\ strays' \subseteq {d \in Coordinators : asked'[d] > 0}
        /\ parked' \subseteq listened
    BY <2>1, AskProceedsType
  <2>3. /\ lists' \in [Kinds -> SUBSET Lines]
        /\ repairs' \in [Kinds -> SUBSET Lines]
        /\ RepairsShowLists'
        /\ late' \subseteq Listed(lists')
    BY <1>2, <2>1, NotedType, RewriteShows DEF AskReturns
  <2>4. burst' \in {"stale", "data", "none", "failed"}
    BY <1>2, BurstType DEF AskReturns
  <2>5. /\ UNCHANGED <<api, refused, up, phase, tracked, built, todo, first, pc, listened, due>>
    BY <1>2 DEF AskReturns, envVars, entryVars
  <2>6. TypeOK'
    BY <2>2, <2>3, <2>4, <2>5 DEF Inv, TypeOK
  <2>7. OnlyLateLines'
    <3>1. ASSUME phase = "unloaded" PROVE \A k \in Kinds : lists'[k] \subseteq late'
      <4>1. c \in strays
        BY <2>1, <3>1 DEF Inv, OnlyStrays
      <4>2. Listed(lists') \ Listed(lists) \subseteq late' /\ late \cap Listed(lists') \subseteq late'
        BY <1>2, <4>1, AnswersAreLate
      <4>3. Listed(lists) \subseteq late
        BY <3>1 DEF Inv, OnlyLateLines, Listed
      <4>4. Listed(lists') \subseteq late'
        BY <4>2, <4>3
      <4> QED
        BY <4>4 DEF Listed
    <3> QED
      BY <2>5, <3>1 DEF OnlyLateLines
  <2>8. Quiet' /\ OnlyStrays'
    BY <2>2, <2>5 DEF Inv, Quiet, OnlyStrays
  <2> QED
    BY <2>3, <2>6, <2>7, <2>8 DEF Inv
<1>3. CASE AskTakesShared(c)
  <2>1. asked[c] > 0 /\ \E outcome : AskProceeds(c, outcome)
    BY <1>3 DEF AskTakesShared
  <2>2. /\ asked' \in [Coordinators -> Nat]
        /\ \A d \in Coordinators : asked'[d] <= Len(Plan[d])
        /\ \A d \in Coordinators : asked'[d] > 0 => asked[d] > 0
        /\ \A d \in Coordinators : asked'[d] > 0 => (d \in strays' <=> d \in strays)
        /\ strays' \subseteq {d \in Coordinators : asked'[d] > 0}
        /\ parked' \subseteq listened
    BY <2>1, AskProceedsType
  <2> QED
    BY <1>3, <2>2
       DEF AskTakesShared, Inv, TypeOK, RepairsShowLists, Quiet, OnlyStrays, OnlyLateLines,
           envVars, entryVars, issueVars
<1> QED
  BY <1>1, <1>2, <1>3 DEF AskedUpdate

LEMMA SurroundingsKeepInv ==
    ASSUME Inv, ClusterChanges \/ BurstEnds
    PROVE  Inv'
<1>1. CASE ClusterChanges
  <2>1. api' \in Met /\ refused' \subseteq Withheld /\ up' \subseteq Resources
    BY <1>1 DEF ClusterChanges, Inv, TypeOK
  <2> QED
    BY <1>1, <2>1
       DEF ClusterChanges, Inv, TypeOK, RepairsShowLists, Quiet, OnlyStrays, OnlyLateLines,
           entryVars, pollVars, askVars, issueVars
<1>2. CASE BurstEnds
  BY <1>2
     DEF BurstEnds, Inv, TypeOK, RepairsShowLists, Quiet, OnlyStrays, OnlyLateLines,
         envVars, entryVars, askVars, issueVars
<1> QED
  BY <1>1, <1>2

LEMMA SetupKeepsInv ==
    ASSUME Inv, NEW ids \in SUBSET Resources, Setup(ids)
    PROVE  Inv'
<1>1. StillTracked(lists, ids) \in [Kinds -> SUBSET Lines]
  BY DEF StillTracked, Inv, TypeOK
<1>2. /\ lists' \in [Kinds -> SUBSET Lines]
      /\ repairs' \in [Kinds -> SUBSET Lines]
      /\ RepairsShowLists'
      /\ late' \subseteq Listed(lists')
  BY <1>1, RewriteShows DEF Setup
<1> QED
  BY <1>2
     DEF Setup, Inv, TypeOK, Quiet, OnlyStrays, OnlyLateLines, Owners, envVars, pollVars, askVars

LEMMA SetUpOwnerKeepsInv ==
    ASSUME Inv, NEW o \in Owners, SetUpOwner(o)
    PROVE  Inv'
<1>1. phase \in {"setup", "loaded"}
  BY DEF SetUpOwner, Inv, TypeOK, Quiet
<1>2. lists \in [Kinds -> SUBSET Lines]
  BY DEF Inv, TypeOK
<1>3. CASE first' = Owned[o] /\ built' = built \cup {o} /\ Rewrite(ExistsAgain(o), {})
  <2>1. /\ lists' \in [Kinds -> SUBSET Lines]
        /\ repairs' \in [Kinds -> SUBSET Lines]
        /\ RepairsShowLists'
        /\ late' \subseteq Listed(lists')
    BY <1>2, <1>3, OffType, RewriteShows DEF ExistsAgain
  <2>2. first' \in Seq(Coordinators)
    BY <1>3, OwnedAssumption
  <2> QED
    BY <1>1, <1>3, <2>1, <2>2
       DEF SetUpOwner, Inv, TypeOK, Quiet, OnlyStrays, OnlyLateLines, envVars, pollVars, askVars
<1>4. CASE /\ o \notin up \cup {Hub}
           /\ Rewrite(On(lists, "nonexistent", MissingLine(o)), {})
           /\ UNCHANGED <<first, built>>
  <2>1. MissingLine(o) \in Lines
    BY <1>4 DEF Lines, Owners
  <2>2. On(lists, "nonexistent", MissingLine(o)) \in [Kinds -> SUBSET Lines]
    BY <1>2, <2>1, OnType DEF Kinds
  <2>3. /\ lists' \in [Kinds -> SUBSET Lines]
        /\ repairs' \in [Kinds -> SUBSET Lines]
        /\ RepairsShowLists'
        /\ late' \subseteq Listed(lists')
    BY <1>4, <2>2, RewriteShows
  <2> QED
    BY <1>1, <1>4, <2>3
       DEF SetUpOwner, Inv, TypeOK, Quiet, OnlyStrays, OnlyLateLines, envVars, pollVars, askVars
<1> QED
  BY <1>3, <1>4 DEF SetUpOwner

LEMMA SetUpKeepsInv ==
    ASSUME Inv, SetUp \/ SetupBreaks \/ Disable
    PROVE  Inv'
<1>1. CASE SetUp
  <2>1. due' \subseteq Coordinators
    BY <1>1, RefreshedAssumption DEF SetUp
  <2> QED
    BY <1>1, <2>1
       DEF SetUp, Inv, TypeOK, RepairsShowLists, Quiet, OnlyStrays, OnlyLateLines,
           envVars, askVars, issueVars
<1>2. CASE SetupBreaks
  <2>1. \A c \in Coordinators : pc[c] = 0
    BY <1>2 DEF SetupBreaks, Flying, Inv, TypeOK
  <2>2. first' \in Seq(Coordinators)
    BY <1>2 DEF SetupBreaks
  <2> QED
    BY <1>2, <2>1, <2>2
       DEF SetupBreaks, Inv, TypeOK, RepairsShowLists, Quiet, OnlyStrays, OnlyLateLines,
           envVars, askVars, issueVars
<1>3. CASE Disable
  BY <1>3
     DEF Disable, Inv, TypeOK, RepairsShowLists, Quiet, OnlyStrays, OnlyLateLines,
         envVars, pollVars, askVars, issueVars
<1> QED
  BY <1>1, <1>2, <1>3

LEMMA GoneKeepsInv ==
    ASSUME Inv, Unload \/ Restart
    PROVE  Inv'
<1>1. Gone /\ repairs' = NoLines
  BY DEF Unload, Restart, Forgotten
<1>2. /\ pc' \in [Coordinators -> Nat]
      /\ \A c \in Coordinators : pc'[c] = 0 /\ 0 <= Len(Plan[c])
  BY <1>1, PlanAssumption DEF Gone
<1>3. first' \in Seq(Coordinators)
  BY <1>1 DEF Gone
<1>4. /\ asked' \in [Coordinators -> Nat]
      /\ \A c \in Coordinators : asked'[c] <= Len(Plan[c])
      /\ strays' \subseteq {c \in Coordinators : asked'[c] > 0}
      /\ \A c \in Coordinators : asked'[c] > 0 => c \in strays'
  BY <1>2 DEF Unload, Restart, Inv, TypeOK
<1>5. \A k \in Kinds : lists'[k] = {}
  BY <1>1 DEF Gone, NoLines
<1> QED
  BY <1>1, <1>2, <1>3, <1>4, <1>5, NoLinesType
     DEF Gone, Inv, TypeOK, RepairsShowLists, Quiet, OnlyStrays, OnlyLateLines, envVars

LEMMA DiscoveryKeepsInv ==
    ASSUME Inv, AddFails \/ \E r \in Resources : Discover(r) \/ Drop(r)
    PROVE  Inv'
<1>1. CASE AddFails
  BY <1>1
     DEF AddFails, Inv, TypeOK, RepairsShowLists, Quiet, OnlyStrays, OnlyLateLines,
         envVars, pollVars, askVars, issueVars
<1>2. ASSUME NEW r \in Resources, Discover(r)
      PROVE  Inv'
  BY <1>2
     DEF Discover, Discovering, Inv, TypeOK, RepairsShowLists, Quiet, OnlyStrays, OnlyLateLines,
         Owners, envVars, pollVars, askVars, issueVars
<1>3. ASSUME NEW r \in Resources, Drop(r)
      PROVE  Inv'
  BY <1>3
     DEF Drop, Discovering, Inv, TypeOK, RepairsShowLists, Quiet, OnlyStrays, OnlyLateLines,
         envVars, askVars, issueVars
<1> QED
  BY <1>1, <1>2, <1>3

LEMMA NextKeepsInv == Inv /\ [Next]_vars => Inv'
<1> SUFFICES ASSUME Inv, [Next]_vars PROVE Inv'
  OBVIOUS
<1>1. CASE UNCHANGED vars
  BY <1>1
     DEF vars, envVars, entryVars, pollVars, askVars, issueVars,
         Inv, TypeOK, RepairsShowLists, Quiet, OnlyStrays, OnlyLateLines
<1>2. CASE Next
  BY <1>2, SurroundingsKeepInv, UpdateKeepsInv, AskKeepsInv, SetupKeepsInv,
     SetUpOwnerKeepsInv, SetUpKeepsInv, GoneKeepsInv, DiscoveryKeepsInv
     DEF Next
<1> QED
  BY <1>1, <1>2

LEMMA Invariance == Spec => []Inv
BY InitEstablishesInv, NextKeepsInv, PTL DEF Spec

\* Every variable keeps its type: no update runs past its plan, none is parked
\* that has no listener, and no list holds a line that neither a read nor setup
\* puts there.
THEOREM TypeCorrect == Spec => []TypeOK
<1>1. Inv => TypeOK
  BY DEF Inv
<1> QED
  BY Invariance, <1>1, PTL

\* The repairs in the registry show exactly the lines the lists hold.
THEOREM RepairsCorrect == Spec => []RepairsShowLists
<1>1. Inv => RepairsShowLists
  BY DEF Inv
<1> QED
  BY Invariance, <1>1, PTL

\* An entry that was loaded and is unloaded has no repair left but of what an
\* update noted since that a service call awaited; a failed one that is only
\* disabled is not unloaded.
THEOREM UnloadIsClean == Spec => []NothingOutlivesUnload
<1>1. Inv => NothingOutlivesUnload
  BY DEF Inv, RepairsShowLists, OnlyLateLines, NothingOutlivesUnload
<1> QED
  BY Invariance, <1>1, PTL

-----------------------------------------------------------------------------
(* Entries with a fixed selection: whose coordinators are in flight, and   *)
(* which resources setup has decided about.                                *)

OwnedBy(c, o) == \E i \in DOMAIN Owned[o] : Owned[o][i] = c

Set == phase \in {"setup", "loaded"}

\* What is built or still to be set up is tracked, and nothing is both.
TrackedOwners ==
    Set => /\ built \cup todo \subseteq tracked \cup {Hub}
           /\ built \cap todo = {}
           /\ phase = "loaded" => todo = {}

\* Whatever polls belongs to an owner that is built, and what a service call
\* awaits does so too, unless it is a stray.
BuiltPoll ==
    Set => /\ \A c \in Coordinators :
                 Flying(c) \/ c \in due \/ (asked[c] > 0 /\ c \notin strays)
                     => \E o \in built : OwnedBy(c, o)
           /\ \A i \in DOMAIN first : \E o \in built : OwnedBy(first[i], o)

\* No line is of a resource the setup does not track, but for late ones.
TrackedLines ==
    Set => \A k \in Kinds : \A line \in lists[k] :
               line.of \in Resources => line.of \in tracked \/ line \in late

\* Setup has built, or found missing, what it has behind it.
Decided ==
    Set => \A r \in tracked \ todo : r \in built <=> MissingLine(r) \notin lists["nonexistent"]

FixedInv ==
    /\ ~AutoDiscovery
    /\ Inv /\ TrackedOwners /\ BuiltPoll /\ TrackedLines /\ Decided

LEMMA FixedInit == Init /\ ~AutoDiscovery => FixedInv
<1> SUFFICES ASSUME Init, ~AutoDiscovery PROVE FixedInv
  OBVIOUS
<1>1. ~Set
  BY DEF Init, Set
<1> QED
  BY <1>1, InitEstablishesInv DEF FixedInv, TrackedOwners, BuiltPoll, TrackedLines, Decided

\* What an owner's coordinators read is of what the owner is tracked as.
LEMMA ReadsAreTracked ==
    ASSUME FixedInv, Set, NEW c \in Coordinators, NEW read \in ReadsOf(c),
           NEW o \in built, OwnedBy(c, o), read.of \in Resources
    PROVE  read.of \in tracked
<1>1. o \in Owners
  BY DEF FixedInv, Inv, TypeOK
<1>2. read.of = o
  BY <1>1, OwnershipAssumption DEF OwnedBy
<1> QED
  BY <1>2, HubAssumption DEF FixedInv, TrackedOwners

\* An answer adds no line but its own, and leaves the missing ones alone.
LEMMA NotedAdds ==
    ASSUME Inv, NEW read \in Reads
    PROVE  /\ \A k \in Kinds : Noted(read)[k] \subseteq lists[k] \cup {LineOf(read)}
           /\ Noted(read)["nonexistent"] = lists["nonexistent"]
<1>1. lists \in [Kinds -> SUBSET Lines]
  BY DEF Inv, TypeOK
<1>2. \A ks, key : \A k \in Kinds : Off(lists, ks, key)[k] \subseteq lists[k]
  BY <1>1 DEF Off
<1>3. \A ks, key : "nonexistent" \notin ks => Off(lists, ks, key)["nonexistent"] = lists["nonexistent"]
  BY <1>1 DEF Off, Kinds
<1>4. ASSUME NEW j \in Kinds \ {"nonexistent"}
      PROVE  /\ \A k \in Kinds : On(lists, j, LineOf(read))[k] \subseteq lists[k] \cup {LineOf(read)}
             /\ On(lists, j, LineOf(read))["nonexistent"] = lists["nonexistent"]
  <2> DEFINE off == Off(lists, {j}, LineOf(read).key)
  <2>1. off \in [Kinds -> SUBSET Lines]
    BY <1>1, OffType
  <2>2. On(lists, j, LineOf(read)) = [off EXCEPT ![j] = @ \cup {LineOf(read)}]
    BY DEF On
  <2>3. \A k \in Kinds : off[k] \subseteq lists[k]
    BY <1>2
  <2>4. off["nonexistent"] = lists["nonexistent"] /\ "nonexistent" \in Kinds
    BY <1>3, <1>4 DEF Kinds
  <2> HIDE DEF off
  <2> QED
    BY <2>1, <2>2, <2>3, <2>4
<1>5. read.noted \in Features \cup {"forbidden", "nowhere"}
  BY PlanAssumption
<1>6. Features \cup {"forbidden"} \subseteq Kinds \ {"nonexistent"} /\ "nowhere" # "nonexistent"
  BY DEF Kinds, Features
<1> QED
  BY <1>2, <1>3, <1>4, <1>5, <1>6 DEF Noted

\* A line that was late and is still listed is late, and so is a new one that
\* a rewrite calls so.
LEMMA RewriteLists ==
    ASSUME NEW ls, NEW strayed, Rewrite(ls, strayed)
    PROVE  lists' = ls /\ (late \cup strayed) \cap Listed(lists') \subseteq late'
BY DEF Rewrite

\* What an answer does to the lines of an entry with a fixed selection, where
\* the read is of an owner that is built, or its new line is late.
LEMMA NotedTracked ==
    ASSUME FixedInv, Set, UNCHANGED <<phase, tracked, todo, built>>,
           NEW c \in Coordinators, NEW read \in ReadsOf(c),
           NEW strayed, Rewrite(Noted(read), strayed),
           \/ \E o \in built : OwnedBy(c, o)
           \/ strayed = Listed(Noted(read)) \ Listed(lists)
    PROVE  TrackedLines' /\ Decided'
<1>1. read \in Reads
  BY DEF Reads
<1>2. lists' = Noted(read) /\ (late \cup strayed) \cap Listed(lists') \subseteq late'
  BY RewriteLists
<1>3. /\ \A k \in Kinds : lists'[k] \subseteq lists[k] \cup {LineOf(read)}
      /\ lists'["nonexistent"] = lists["nonexistent"]
  BY <1>1, <1>2, NotedAdds DEF FixedInv
<1>4. Decided'
  BY <1>3 DEF FixedInv, Decided, Set
<1>5. LineOf(read).of = read.of
  BY DEF LineOf
<1>6. ASSUME NEW k \in Kinds, NEW line \in lists'[k], line.of \in Resources
      PROVE  line.of \in tracked \/ line \in late'
  <2>1. line \in Listed(lists')
    BY <1>6 DEF Listed
  <2>2. CASE line \in Listed(lists)
    <3>1. line.of \in tracked \/ line \in late
      BY <1>6, <2>2 DEF FixedInv, TrackedLines, Listed
    <3> QED
      BY <1>2, <2>1, <3>1
  <2>3. CASE line \notin Listed(lists) /\ strayed = Listed(Noted(read)) \ Listed(lists)
    BY <1>2, <2>1, <2>3
  <2>4. CASE line \notin Listed(lists) /\ \E o \in built : OwnedBy(c, o)
    <3>1. line \notin lists[k]
      BY <2>4 DEF Listed
    <3>2. line = LineOf(read)
      BY <1>3, <1>6, <3>1
    <3> QED
      BY <1>5, <1>6, <2>4, <3>2, ReadsAreTracked
  <2> QED
    BY <2>2, <2>3, <2>4
<1> QED
  BY <1>4, <1>6 DEF TrackedLines, Set

\* The coordinators that are refreshed in turn are the ones there were.
LEMMA QueueShortens ==
    ASSUME Inv, first' = first \/ (first # <<>> /\ first' = Tail(first))
    PROVE  \A i \in DOMAIN first' : \E j \in DOMAIN first : first'[i] = first[j]
<1>1. first \in Seq(Coordinators)
  BY DEF Inv, TypeOK
<1>2. CASE first' = first
  BY <1>2
<1>3. CASE first # <<>> /\ first' = Tail(first)
  <2>1. \A i \in DOMAIN Tail(first) : i + 1 \in DOMAIN first /\ Tail(first)[i] = first[i + 1]
    BY <1>1, <1>3
  <2> QED
    BY <1>3, <2>1
<1> QED
  BY <1>2, <1>3

LEMMA FixedUpdate ==
    ASSUME FixedInv, NEW c \in Coordinators, Update(c)
    PROVE  FixedInv'
<1>1. Inv /\ Inv' /\ Set /\ Set' /\ UNCHANGED <<phase, tracked, todo, built, asked, strays>>
  <2>1. Inv /\ Inv'
    BY UpdateKeepsInv DEF FixedInv
  <2>2. UNCHANGED <<phase, tracked, todo, built, asked, strays>>
    BY DEF Update, StartUpdate, Stagger, ReadReturns, TakeShared, entryVars, askVars
  <2>3. phase \in {"setup", "loaded"}
    BY <2>1, FlyingIsLoaded
  <2> QED
    BY <2>1, <2>2, <2>3 DEF Set
<1>2. TrackedOwners'
  BY <1>1 DEF FixedInv, TrackedOwners
<1>3. \E o \in built : OwnedBy(c, o)
  <2>1. CASE Flying(c) \/ c \in due
    BY <1>1, <2>1 DEF FixedInv, BuiltPoll
  <2>2. CASE Refreshing(c)
    <3>1. first \in Seq(Coordinators) /\ first # <<>> /\ c = first[1]
      BY <2>2 DEF Refreshing, FixedInv, Inv, TypeOK
    <3>2. 1 \in DOMAIN first
      BY <3>1
    <3> QED
      BY <1>1, <3>1, <3>2 DEF FixedInv, BuiltPoll
  <2>3. CASE Scheduled(c)
    BY <2>3 DEF Scheduled, Ready, OwnedBy
  <2> QED
    BY <2>1, <2>2, <2>3 DEF Update, StartUpdate, Stagger, ReadReturns, TakeShared
<1>4. BuiltPoll'
  <2>1. /\ \A d \in Coordinators : pc'[d] > 0 => d = c \/ pc[d] > 0
        /\ due' \subseteq due
    BY DEF Update, StartUpdate, Stagger, ReadReturns, TakeShared, Proceed, FixedInv, Inv, TypeOK
  <2>2. first' = first \/ (first # <<>> /\ first' = Tail(first))
    BY DEF Update, StartUpdate, Stagger, ReadReturns, TakeShared, Proceed, Refreshing, entryVars
  <2>3. \A i \in DOMAIN first' : \E j \in DOMAIN first : first'[i] = first[j]
    BY <1>1, <2>2, QueueShortens
  <2>4. /\ \A d \in Coordinators :
              Flying(d) \/ d \in due \/ (asked[d] > 0 /\ d \notin strays)
                  => \E o \in built : OwnedBy(d, o)
        /\ \A i \in DOMAIN first : \E o \in built : OwnedBy(first[i], o)
    BY <1>1 DEF FixedInv, BuiltPoll
  <2>5. ASSUME NEW d \in Coordinators,
               pc'[d] > 0 \/ d \in due' \/ (asked'[d] > 0 /\ d \notin strays')
        PROVE  \E o \in built' : OwnedBy(d, o)
    BY <1>1, <1>3, <2>1, <2>4, <2>5 DEF Flying
  <2>6. \A i \in DOMAIN first' : \E o \in built' : OwnedBy(first'[i], o)
    BY <1>1, <2>3, <2>4
  <2> QED
    BY <2>5, <2>6 DEF BuiltPoll, Flying, OwnedBy
<1>5. TrackedLines' /\ Decided'
  <2>1. CASE UNCHANGED <<lists, late>>
    BY <1>1, <2>1 DEF FixedInv, TrackedLines, Decided
  <2>2. CASE ReadReturns(c)
    <3>1. Plan[c][pc[c]] \in ReadsOf(c) /\ Rewrite(Noted(Plan[c][pc[c]]), {})
      BY <1>1, <2>2, InFlight DEF ReadReturns, Reading
    <3> QED
      BY <1>1, <1>3, <3>1, NotedTracked
  <2> QED
    BY <2>1, <2>2 DEF Update, StartUpdate, Stagger, TakeShared, issueVars
<1> QED
  BY <1>1, <1>2, <1>4, <1>5 DEF FixedInv

LEMMA FixedAsk ==
    ASSUME FixedInv, NEW c \in Coordinators, Ask(c) \/ AskedUpdate(c)
    PROVE  FixedInv'
<1>1. /\ Inv /\ Inv'
      /\ UNCHANGED <<phase, tracked, todo, built, first, pc, due>>
      /\ Set' = Set
  BY AskKeepsInv
     DEF FixedInv, Ask, AskedUpdate, AskReturns, AskTakesShared, entryVars, pollVars, Set
<1>2. CASE ~Set
  BY <1>1, <1>2 DEF FixedInv, TrackedOwners, BuiltPoll, TrackedLines, Decided
<1>3. CASE Set
  <2>1. TrackedOwners'
    BY <1>1 DEF FixedInv, TrackedOwners
  <2>2. /\ \A d \in Coordinators :
              Flying(d) \/ d \in due \/ (asked[d] > 0 /\ d \notin strays)
                  => \E o \in built : OwnedBy(d, o)
        /\ \A i \in DOMAIN first : \E o \in built : OwnedBy(first[i], o)
    BY <1>3 DEF FixedInv, BuiltPoll
  <2>3. c \in strays \/ \E o \in built : OwnedBy(c, o)
    <3>1. CASE Ask(c)
      BY <3>1 DEF Ask, Ready, OwnedBy
    <3>2. CASE AskedUpdate(c)
      BY <2>2, <3>2 DEF AskedUpdate, AskReturns, AskTakesShared
    <3> QED
      BY <3>1, <3>2
  <2>4. BuiltPoll'
    <3>1. CASE Ask(c)
      <4>1. /\ \A d \in Coordinators : asked'[d] > 0 => d = c \/ asked[d] > 0
            /\ strays' = strays /\ c \notin strays
        BY <3>1 DEF Ask, FixedInv, Inv, TypeOK
      <4> QED
        BY <1>1, <2>2, <2>3, <4>1 DEF BuiltPoll, Flying, OwnedBy
    <3>2. CASE AskedUpdate(c)
      <4>1. asked[c] > 0 /\ \E outcome : AskProceeds(c, outcome)
        BY <3>2 DEF AskedUpdate, AskReturns, AskTakesShared
      <4>2. /\ \A d \in Coordinators : asked'[d] > 0 => asked[d] > 0
            /\ \A d \in Coordinators : asked'[d] > 0 => (d \in strays' <=> d \in strays)
        BY <1>1, <4>1, AskProceedsType
      <4> QED
        BY <1>1, <2>2, <4>2 DEF BuiltPoll, Flying, OwnedBy
    <3> QED
      BY <3>1, <3>2
  <2>5. TrackedLines' /\ Decided'
    <3>1. CASE UNCHANGED <<lists, late>>
      BY <1>1, <3>1 DEF FixedInv, TrackedLines, Decided
    <3>2. CASE AskReturns(c)
      <4> DEFINE read == Plan[c][asked[c]]
                 strayed == IF c \in strays THEN Listed(Noted(read)) \ Listed(lists) ELSE {}
      <4>1. read \in ReadsOf(c)
        BY <1>1, <3>2, InFlight DEF AskReturns, Reading
      <4>2. Rewrite(Noted(read), strayed)
        BY <3>2 DEF AskReturns
      <4>3. (\E o \in built : OwnedBy(c, o)) \/ strayed = Listed(Noted(read)) \ Listed(lists)
        BY <2>3
      <4> HIDE DEF read, strayed
      <4> QED
        BY <1>1, <1>3, <4>1, <4>2, <4>3, NotedTracked
    <3> QED
      BY <3>1, <3>2 DEF Ask, AskedUpdate, AskTakesShared, issueVars
  <2> QED
    BY <1>1, <2>1, <2>4, <2>5 DEF FixedInv
<1> QED
  BY <1>2, <1>3

LEMMA FixedSetup ==
    ASSUME FixedInv, NEW ids \in SUBSET Resources, Setup(ids)
    PROVE  FixedInv'
<1>1. Inv'
  BY SetupKeepsInv DEF FixedInv
<1>2. lists' = StillTracked(lists, ids)
  BY RewriteLists DEF Setup
<1>3. /\ phase' = "setup" /\ tracked' = ids /\ todo' = ids \cup {Hub} /\ built' = {}
      /\ UNCHANGED <<first, pc, due, asked, strays>>
  BY DEF Setup, pollVars, askVars
<1>4. /\ first = <<>> /\ due = {}
      /\ \A c \in Coordinators : pc[c] = 0 /\ (asked[c] > 0 => c \in strays)
  BY DEF Setup, FixedInv, Inv, Quiet, OnlyStrays
<1>5. TrackedOwners' /\ Decided'
  BY <1>3 DEF TrackedOwners, Decided
<1>6. BuiltPoll'
  <2>1. DOMAIN first' = {}
    BY <1>3, <1>4
  <2> QED
    BY <1>3, <1>4, <2>1 DEF BuiltPoll, Flying
<1>7. TrackedLines'
  <2>1. \A k \in Kinds : \A line \in lists'[k] : line.of \in ids \cup {Untracked}
    BY <1>2 DEF StillTracked
  <2> QED
    BY <1>3, <2>1, OwnershipAssumption DEF TrackedLines
<1> QED
  BY <1>1, <1>5, <1>6, <1>7 DEF FixedInv

LEMMA FixedSetUpOwner ==
    ASSUME FixedInv, NEW o \in Owners, SetUpOwner(o)
    PROVE  FixedInv'
<1>1. Inv'
  BY SetUpOwnerKeepsInv DEF FixedInv
<1>2. Set /\ Set' /\ phase = "setup" /\ phase' = "setup" /\ UNCHANGED <<tracked, pc, due, asked, strays>>
  BY DEF SetUpOwner, FixedInv, Inv, TypeOK, Quiet, TrackedOwners, Set, pollVars, askVars
<1>3. /\ o \in todo /\ todo' = todo \ {o} /\ o \notin built
      /\ built \cup todo \subseteq tracked \cup {Hub} /\ built \cap todo = {}
  BY <1>2 DEF SetUpOwner, FixedInv, TrackedOwners
<1>4. lists \in [Kinds -> SUBSET Lines] /\ "nonexistent" \in Kinds
  BY DEF FixedInv, Inv, TypeOK, Kinds
<1>5. tracked \subseteq Resources
  BY DEF FixedInv, Inv, TypeOK
<1>6. \A r, q : MissingLine(r).key = MissingLine(q).key => r = q
  BY DEF MissingLine
<1>7. \A r : MissingLine(r).of = r /\ MissingLine(r).key = <<"missing", r>>
  BY DEF MissingLine
<1>8. CASE first' = Owned[o] /\ built' = built \cup {o} /\ Rewrite(ExistsAgain(o), {})
  <2>1. lists' = Off(lists, {"nonexistent"}, <<"missing", o>>)
    BY <1>8, RewriteLists DEF ExistsAgain
  <2>2. \A k \in Kinds : lists'[k] \subseteq lists[k]
    BY <1>4, <2>1 DEF Off
  <2>3. lists'["nonexistent"] = {line \in lists["nonexistent"] : line.key # <<"missing", o>>}
    BY <1>4, <2>1 DEF Off
  <2>4. TrackedOwners'
    BY <1>2, <1>3, <1>8 DEF TrackedOwners
  <2>5. BuiltPoll'
    <3>1. \A i \in DOMAIN first' : OwnedBy(first'[i], o)
      BY <1>8 DEF OwnedBy
    <3> QED
      BY <1>2, <1>8, <3>1 DEF FixedInv, BuiltPoll, Flying, OwnedBy
  <2>6. TrackedLines'
    <3>1. late \cap Listed(lists') \subseteq late'
      BY <1>8, RewriteLists
    <3>2. \A k \in Kinds : \A line \in lists'[k] : line \in late => line \in late'
      BY <3>1 DEF Listed
    <3> QED
      BY <1>2, <2>2, <3>2 DEF FixedInv, TrackedLines
  <2>7. Decided'
    <3>1. MissingLine(o) \notin lists'["nonexistent"]
      BY <1>7, <2>3
    <3>2. \A r : r # o => (MissingLine(r) \in lists'["nonexistent"]
                           <=> MissingLine(r) \in lists["nonexistent"])
      BY <1>6, <1>7, <2>3
    <3> QED
      BY <1>2, <1>3, <1>8, <3>1, <3>2 DEF FixedInv, Decided
  <2> QED
    BY <1>1, <2>4, <2>5, <2>6, <2>7 DEF FixedInv
<1>9. CASE /\ o \notin up \cup {Hub}
           /\ Rewrite(On(lists, "nonexistent", MissingLine(o)), {})
           /\ UNCHANGED <<first, built>>
  <2> DEFINE off == Off(lists, {"nonexistent"}, <<"missing", o>>)
  <2>1. off \in [Kinds -> SUBSET Lines]
    BY <1>4, OffType
  <2>2. lists' = [off EXCEPT !["nonexistent"] = @ \cup {MissingLine(o)}]
    BY <1>7, <1>9, RewriteLists DEF On
  <2>3. off["nonexistent"] = {line \in lists["nonexistent"] : line.key # <<"missing", o>>}
    BY <1>4 DEF Off
  <2>4. \A k \in Kinds : off[k] \subseteq lists[k]
    BY <1>4 DEF Off
  <2> HIDE DEF off
  <2>5. lists'["nonexistent"] = off["nonexistent"] \cup {MissingLine(o)}
    BY <1>4, <2>1, <2>2
  <2>6. \A k \in Kinds : lists'[k] \subseteq lists[k] \cup {MissingLine(o)}
    BY <2>1, <2>2, <2>4
  <2>7. o \in tracked
    BY <1>3, <1>9
  <2>8. TrackedOwners'
    BY <1>2, <1>3, <1>9 DEF TrackedOwners
  <2>9. BuiltPoll'
    BY <1>2, <1>9 DEF FixedInv, BuiltPoll, Flying, OwnedBy
  <2>10. TrackedLines'
    <3>1. late \cap Listed(lists') \subseteq late'
      BY <1>9, RewriteLists
    <3>2. \A k \in Kinds : \A line \in lists'[k] : line \in late => line \in late'
      BY <3>1 DEF Listed
    <3> QED
      BY <1>2, <1>7, <2>6, <2>7, <3>2 DEF FixedInv, TrackedLines
  <2>11. Decided'
    <3>1. \A r : r # o => (MissingLine(r) \in lists'["nonexistent"]
                           <=> MissingLine(r) \in lists["nonexistent"])
      BY <1>6, <1>7, <2>3, <2>5
    <3> QED
      BY <1>2, <1>3, <1>9, <2>5, <3>1 DEF FixedInv, Decided
  <2> QED
    BY <1>1, <2>8, <2>9, <2>10, <2>11 DEF FixedInv
<1> QED
  BY <1>8, <1>9 DEF SetUpOwner

LEMMA FixedStep == FixedInv /\ [Next]_vars => FixedInv'
<1> SUFFICES ASSUME FixedInv, [Next]_vars PROVE FixedInv'
  OBVIOUS
<1> USE DEF Set
<1>1. Inv'
  BY NextKeepsInv DEF FixedInv
<1>2. CASE UNCHANGED <<entryVars, pc, due, askVars, lists, late>>
  <2>1. UNCHANGED <<phase, tracked, built, todo, first, pc, due, asked, strays, lists, late>>
    BY <1>2 DEF entryVars, askVars
  <2> QED
    BY <1>1, <2>1 DEF FixedInv, TrackedOwners, BuiltPoll, TrackedLines, Decided, Flying
<1>3. CASE SetUp
  <2>1. /\ phase = "setup" /\ todo = {}
        /\ UNCHANGED <<tracked, built, todo, first, pc, asked, strays, lists, late>>
        /\ \A c \in due' : \E o \in built : OwnedBy(c, o)
    BY <1>3 DEF SetUp, askVars, issueVars, OwnedBy
  <2> QED
    BY <1>1, <2>1 DEF FixedInv, TrackedOwners, BuiltPoll, TrackedLines, Decided, Flying, OwnedBy
<1>4. CASE SetupBreaks \/ Disable \/ Unload \/ Restart
  <2>1. phase' \in {"broken", "disabled", "unloaded"}
    BY <1>4 DEF SetupBreaks, Disable, Unload, Restart, Gone
  <2> QED
    BY <1>1, <2>1 DEF FixedInv, TrackedOwners, BuiltPoll, TrackedLines, Decided
<1>5. ~AddFails /\ \A r \in Resources : ~Discover(r) /\ ~Drop(r)
  BY DEF FixedInv, TrackedOwners, AddFails, Discover, Drop, Discovering
<1>6. CASE ClusterChanges \/ BurstEnds \/ UNCHANGED vars
  BY <1>2, <1>6 DEF ClusterChanges, BurstEnds, vars, pollVars, issueVars
<1> QED
  BY <1>3, <1>4, <1>5, <1>6, FixedUpdate, FixedAsk, FixedSetup, FixedSetUpOwner DEF Next

LEMMA FixedInvariance == ~AutoDiscovery => (Spec => []FixedInv)
BY FixedInit, FixedStep, PTL DEF Spec

\* With a fixed selection a repair never names what this setup does not track,
\* whatever is in flight, broken off or deselected, but for what an update noted
\* that outlived its own setup.
THEOREM OnlyTrackedListed == ~AutoDiscovery => (Spec => []OnlyTrackedAreListed)
<1>1. FixedInv => OnlyTrackedAreListed
  BY DEF FixedInv, Inv, RepairsShowLists, TrackedLines, OnlyTrackedAreListed, Set
<1> QED
  BY FixedInvariance, <1>1, PTL

\* With a fixed selection, what setup found missing is on the repair, and what
\* it built is not.
THEOREM MissingListed == ~AutoDiscovery => (Spec => []MissingIsListed)
<1>1. FixedInv => MissingIsListed
  BY DEF FixedInv, Inv, RepairsShowLists, Decided, MissingIsListed, Set
<1> QED
  BY FixedInvariance, <1>1, PTL

-----------------------------------------------------------------------------
(* What writes the lists, one line at a time.                              *)

LEMMA OffHas ==
    ASSUME NEW ls \in [Kinds -> SUBSET Lines], NEW ks, NEW key, NEW k \in Kinds
    PROVE  \A l : l \in Off(ls, ks, key)[k] <=> l \in ls[k] /\ ~(k \in ks /\ l.key = key)
BY DEF Off

LEMMA OnHas ==
    ASSUME NEW ls \in [Kinds -> SUBSET Lines], NEW j \in Kinds, NEW line \in Lines,
           NEW k \in Kinds
    PROVE  \A l : l \in On(ls, j, line)[k] <=>
                      \/ l \in ls[k] /\ ~(k = j /\ l.key = line.key)
                      \/ k = j /\ l = line
<1> DEFINE off == Off(ls, {j}, line.key)
<1>1. off \in [Kinds -> SUBSET Lines]
  BY OffType
<1>2. On(ls, j, line) = [off EXCEPT ![j] = @ \cup {line}]
  BY DEF On
<1>3. \A l : l \in off[k] <=> l \in ls[k] /\ ~(k = j /\ l.key = line.key)
  <2>1. \A l : l \in off[k] <=> l \in ls[k] /\ ~(k \in {j} /\ l.key = line.key)
    BY OffHas
  <2> QED
    BY <2>1
<1> HIDE DEF off
<1> QED
  BY <1>1, <1>2, <1>3

\* The lists change when the entry does, with the answer to a read, and when
\* setup or discovery looks an owner up.
LEMMA ListsMove ==
    ASSUME Inv, [Next]_vars, lists' # lists
    PROVE  \/ phase' # phase /\ \A k \in Kinds : lists'[k] \subseteq lists[k]
           \/ Restart /\ \A k \in Kinds : lists'[k] \subseteq lists[k]
           \/ /\ phase' = phase
              /\ \E c \in Coordinators : \E read \in Reads :
                    Reading(c, read) /\ lists' = Noted(read)
           \/ /\ phase' = phase
              /\ \E o \in Owners :
                    \/ lists' = ExistsAgain(o)
                    \/ o \in Resources \ up /\ lists' = On(lists, "nonexistent", MissingLine(o))
<1>1. lists \in [Kinds -> SUBSET Lines]
  BY DEF Inv, TypeOK
<1>2. ASSUME NEW c \in Coordinators, Update(c) \/ Ask(c) \/ AskedUpdate(c)
      PROVE  /\ phase' = phase
             /\ \E read \in Reads : Reading(c, read) /\ lists' = Noted(read)
  <2>1. CASE ReadReturns(c)
    <3>1. Reading(c, Plan[c][pc[c]]) /\ lists' = Noted(Plan[c][pc[c]])
      BY <2>1, RewriteLists DEF ReadReturns, Reading
    <3> QED
      BY <2>1, <3>1, InFlight DEF ReadReturns
  <2>2. CASE AskReturns(c)
    <3>1. Reading(c, Plan[c][asked[c]]) /\ lists' = Noted(Plan[c][asked[c]])
      BY <2>2, RewriteLists DEF AskReturns, Reading
    <3> QED
      BY <2>2, <3>1, InFlight DEF AskReturns, entryVars
  <2> QED
    BY <1>2, <2>1, <2>2
       DEF Update, StartUpdate, Stagger, TakeShared, Ask, AskedUpdate, AskTakesShared, issueVars
<1>3. ASSUME NEW ids \in SUBSET Resources, Setup(ids)
      PROVE  phase' # phase /\ \A k \in Kinds : lists'[k] \subseteq lists[k]
  <2>1. lists' = StillTracked(lists, ids)
    BY <1>3, RewriteLists DEF Setup
  <2> QED
    BY <1>3, <2>1 DEF Setup, StillTracked
<1>4. ASSUME NEW o \in Owners, SetUpOwner(o)
      PROVE  /\ phase' = phase
             /\ \/ lists' = ExistsAgain(o)
                \/ o \in Resources \ up /\ lists' = On(lists, "nonexistent", MissingLine(o))
  BY <1>4, RewriteLists DEF SetUpOwner, Owners
<1>5. ASSUME Unload \/ Restart
      PROVE  /\ phase' # phase \/ Restart
            /\ \A k \in Kinds : lists'[k] \subseteq lists[k]
  BY <1>5 DEF Unload, Restart, Gone, NoLines
<1>6. ~ClusterChanges /\ ~BurstEnds /\ ~SetUp /\ ~SetupBreaks /\ ~Disable /\ ~AddFails
      /\ (\A r \in Resources : ~Discover(r) /\ ~Drop(r)) /\ ~UNCHANGED vars
  BY DEF ClusterChanges, BurstEnds, SetUp, SetupBreaks, Disable, AddFails, Discover, Drop,
     issueVars, vars
<1> QED
  BY <1>2, <1>3, <1>4, <1>5, <1>6 DEF Next

\* Only a path whose privilege is missing is refused, or seems empty.
LEMMA RefusedPath ==
    ASSUME Inv, NEW read, Refuses(read) \/ AnswerTo(read) = "forbidden"
    PROVE  read.path \in refused
<1>1. api # "forbidden"
  BY AnswersAssumption DEF Inv, TypeOK
<1>2. AnswerTo(read) = "forbidden" => read.path \in refused
  BY <1>1 DEF AnswerTo
<1>3. OutcomeTo(read) = "none" => AnswerTo(read) = "forbidden"
  BY DEF OutcomeTo, OutcomeOf, RefusedCredentials
<1>4. SeesNothing(read) => read.path \in refused
  BY DEF SeesNothing
<1> QED
  BY <1>2, <1>3, <1>4 DEF Refuses

NotedKinds == Kinds \ {"nonexistent"}

\* What an answer does to the lists of refusals: it adds the line of the read
\* if that was refused, and takes lines off that have the read's key, for data
\* or for the line that replaces them.
LEMMA NotedDoes ==
    ASSUME Inv, NEW read \in Reads, NEW k \in NotedKinds
    PROVE  /\ \A line \in Noted(read)[k] \ lists[k] :
                 line = LineOf(read) /\ read.path \in refused
           /\ \A line \in lists[k] \ Noted(read)[k] :
                 /\ line.key = read.key
                 /\ OutcomeTo(read) = "data" \/ \E l \in Noted(read)[k] : l.key = line.key
<1>1. lists \in [Kinds -> SUBSET Lines] /\ LineOf(read) \in Lines /\ k \in Kinds
  BY DEF Inv, TypeOK, Lines, NotedKinds
<1>2. LineOf(read).key = read.key
  BY DEF LineOf
<1>3. ASSUME NEW j \in Kinds, Noted(read) = On(lists, j, LineOf(read)), read.path \in refused
      PROVE  /\ \A line \in Noted(read)[k] \ lists[k] :
                   line = LineOf(read) /\ read.path \in refused
             /\ \A line \in lists[k] \ Noted(read)[k] :
                   /\ line.key = read.key
                   /\ \E l \in Noted(read)[k] : l.key = line.key
  <2>1. \A l : l \in Noted(read)[k] <=>
                    \/ l \in lists[k] /\ ~(k = j /\ l.key = read.key)
                    \/ k = j /\ l = LineOf(read)
    BY <1>1, <1>2, <1>3, OnHas
  <2> QED
    BY <1>2, <1>3, <2>1
<1>4. CASE Refuses(read)
  <2>1. Noted(read) = On(lists, "forbidden", LineOf(read)) /\ "forbidden" \in Kinds
    BY <1>4 DEF Noted, Kinds
  <2> QED
    BY <1>3, <1>4, <2>1, RefusedPath
<1>5. CASE ~Refuses(read) /\ OutcomeTo(read) = "data"
  <2>1. Noted(read) = Off(lists, {"forbidden", read.noted}, read.key)
    BY <1>5 DEF Noted
  <2>2. \A l : l \in Noted(read)[k] <=>
                    l \in lists[k] /\ ~(k \in {"forbidden", read.noted} /\ l.key = read.key)
    BY <1>1, <2>1, OffHas
  <2> QED
    BY <1>5, <2>2
<1>6. CASE /\ ~Refuses(read) /\ OutcomeTo(read) # "data"
           /\ AnswerTo(read) = "forbidden" /\ read.noted \in Features
  <2>1. Noted(read) = On(lists, read.noted, LineOf(read)) /\ read.noted \in Kinds
    BY <1>6 DEF Noted, Kinds
  <2> QED
    BY <1>3, <1>6, <2>1, RefusedPath
<1>7. CASE /\ ~Refuses(read) /\ OutcomeTo(read) # "data"
           /\ ~(AnswerTo(read) = "forbidden" /\ read.noted \in Features)
  BY <1>7 DEF Noted
<1> QED
  BY <1>4, <1>5, <1>6, <1>7

\* Looking an owner up writes the list of what is missing and no other.
LEMMA LookedUpDoes ==
    ASSUME Inv, NEW o \in Owners, NEW k \in Kinds,
           \/ lists' = ExistsAgain(o)
           \/ o \in Resources \ up /\ lists' = On(lists, "nonexistent", MissingLine(o))
    PROVE  /\ k \in NotedKinds => lists'[k] = lists[k]
           /\ \A line \in lists'[k] \ lists[k] :
                 o \in Resources \ up /\ line = MissingLine(o)
<1>1. lists \in [Kinds -> SUBSET Lines]
  BY DEF Inv, TypeOK
<1>2. CASE lists' = ExistsAgain(o)
  <2>1. \A l : l \in lists'[k] <=>
                    l \in lists[k] /\ ~(k \in {"nonexistent"} /\ l.key = <<"missing", o>>)
    BY <1>1, <1>2, OffHas DEF ExistsAgain
  <2> QED
    BY <2>1 DEF NotedKinds
<1>3. CASE o \in Resources \ up /\ lists' = On(lists, "nonexistent", MissingLine(o))
  <2>1. MissingLine(o) \in Lines /\ "nonexistent" \in Kinds
    BY <1>3 DEF Lines, Kinds
  <2>2. \A l : l \in lists'[k] <=>
                    \/ l \in lists[k] /\ ~(k = "nonexistent" /\ l.key = MissingLine(o).key)
                    \/ k = "nonexistent" /\ l = MissingLine(o)
    BY <1>1, <1>3, <2>1, OnHas
  <2> QED
    BY <1>3, <2>2 DEF NotedKinds
<1> QED
  BY <1>2, <1>3

\* A repair gains a line only with a read that is refused at that moment, or
\* with a resource the cluster does not list at that moment.
TrulyNoted ==
    /\ \A k \in NotedKinds : \A line \in repairs'[k] \ repairs[k] :
          \E c \in Coordinators : \E read \in ReadsOf(c) :
             Reading(c, read) /\ line = LineOf(read) /\ read.path \in refused
    /\ \A line \in repairs'["nonexistent"] \ repairs["nonexistent"] :
          \E r \in Resources \ up : line = MissingLine(r)

\* Whatever is silent, off, dropped or in turmoil, a repair names nothing that
\* was not refused or missing when it was written (issues.py, poll_api).
THEOREM NothingIsMadeUp == Spec => [][TrulyNoted]_vars
<1>1. Inv /\ Inv' /\ [Next]_vars => TrulyNoted
  <2> SUFFICES ASSUME Inv, Inv', [Next]_vars PROVE TrulyNoted
    OBVIOUS
  <2>1. repairs = lists /\ repairs' = lists' /\ "nonexistent" \in Kinds
    BY DEF Inv, RepairsShowLists, Kinds
  <2>2. CASE \A k \in Kinds : lists'[k] \subseteq lists[k]
    BY <2>1, <2>2 DEF NotedKinds, TrulyNoted
  <2>3. ASSUME NEW c \in Coordinators, NEW read \in Reads, Reading(c, read), lists' = Noted(read)
        PROVE  TrulyNoted
    <3>1. read \in ReadsOf(c)
      BY <2>3, InFlight
    <3>2. \A k \in NotedKinds : \A line \in lists'[k] \ lists[k] :
              line = LineOf(read) /\ read.path \in refused
      BY <2>3, NotedDoes
    <3>3. lists'["nonexistent"] = lists["nonexistent"]
      BY <2>3, NotedAdds
    <3> QED
      BY <2>1, <2>3, <3>1, <3>2, <3>3 DEF TrulyNoted
  <2>4. ASSUME NEW o \in Owners,
               \/ lists' = ExistsAgain(o)
               \/ o \in Resources \ up /\ lists' = On(lists, "nonexistent", MissingLine(o))
        PROVE  TrulyNoted
    <3>1. \A k \in NotedKinds : k \in Kinds /\ lists'[k] = lists[k]
      BY <2>4, LookedUpDoes DEF NotedKinds
    <3>2. \A line \in lists'["nonexistent"] \ lists["nonexistent"] :
              o \in Resources \ up /\ line = MissingLine(o)
      BY <2>1, <2>4, LookedUpDoes
    <3> QED
      BY <2>1, <3>1, <3>2 DEF TrulyNoted
  <2>5. lists' = lists => \A k \in Kinds : lists'[k] \subseteq lists[k]
    OBVIOUS
  <2> QED
    BY <2>2, <2>3, <2>4, <2>5, ListsMove
<1> QED
  BY Invariance, <1>1, PTL DEF Spec

\* A line about a refusal goes with the entry's setup, unload or restart, and
\* otherwise only with a read of its key that brought data, or that left a line
\* of that key in its place.
OnlyAnswered ==
    phase' = phase /\ ~Restart =>
        \A k \in NotedKinds : \A line \in repairs[k] \ repairs'[k] :
            \E c \in Coordinators : \E read \in ReadsOf(c) :
                /\ Reading(c, read) /\ read.key = line.key
                /\ OutcomeTo(read) = "data" \/ \E l \in repairs'[k] : l.key = line.key

\* No failure, no silence and no parked coordinator takes a line off: a repair
\* about a missing privilege ends with what was read, as _clear_permission_issue
\* is called after data and nowhere else.
THEOREM OnlyAnswersTakeOff == Spec => [][OnlyAnswered]_vars
<1>1. Inv /\ Inv' /\ [Next]_vars => OnlyAnswered
  <2> SUFFICES ASSUME Inv, Inv', [Next]_vars, phase' = phase, ~Restart,
                      NEW k \in NotedKinds, NEW line \in repairs[k] \ repairs'[k]
               PROVE  \E c \in Coordinators : \E read \in ReadsOf(c) :
                         /\ Reading(c, read) /\ read.key = line.key
                         /\ \/ OutcomeTo(read) = "data"
                            \/ \E l \in repairs'[k] : l.key = line.key
    BY DEF OnlyAnswered
  <2>1. repairs = lists /\ repairs' = lists' /\ k \in Kinds
    BY DEF Inv, RepairsShowLists, NotedKinds
  <2>2. \A o \in Owners :
            \/ lists' = ExistsAgain(o)
            \/ o \in Resources \ up /\ lists' = On(lists, "nonexistent", MissingLine(o))
            => lists'[k] = lists[k]
    BY <2>1, LookedUpDoes
  <2>3. PICK c \in Coordinators : \E read \in Reads : Reading(c, read) /\ lists' = Noted(read)
    BY <2>1, <2>2, ListsMove
  <2>4. PICK read \in Reads : Reading(c, read) /\ lists' = Noted(read)
    BY <2>3
  <2>5. read \in ReadsOf(c)
    BY <2>4, InFlight
  <2> QED
    BY <2>1, <2>4, <2>5, NotedDoes
<1> QED
  BY Invariance, <1>1, PTL DEF Spec

-----------------------------------------------------------------------------
(* A refusal that lasts: the safety half of RefusedStaysListed.            *)

\* A read that is refused for now, or whose empty listing tells of it.
IsRefused(read) ==
    /\ api = "ok" /\ read.path \in refused /\ read.at \notin Resources \ up
    /\ read.listing => read.invisible

\* The i-th read of c speaks for its resource, and every update comes by it.
SpeaksAlways(c, i) ==
    /\ Speaks(c, i)
    /\ ~Plan[c][i].shared
    /\ \A j \in 1..(i - 1) : Plan[c][j].skips = {0}

\* Both tracks of c, its own updates and those a service call awaits, end at
\* the read or before it.
LineStays(c, i) ==
    LET line == LineOf(Plan[c][i])
    IN  /\ SpeaksAlways(c, i) /\ IsRefused(Plan[c][i])
        /\ pc[c] <= i /\ asked[c] <= i
        /\ phase' = phase /\ ~Restart
        => /\ pc'[c] <= i /\ asked'[c] <= i
           /\ line \in repairs["forbidden"] => line \in repairs'["forbidden"]
           /\ (pc[c] = i /\ pc'[c] # i) \/ (asked[c] = i /\ asked'[c] # i)
              => line \in repairs'["forbidden"]

LEMMA RefusedReads ==
    ASSUME NEW read \in Reads, IsRefused(read), read.noted = "forbidden"
    PROVE  /\ Refuses(read)
           /\ OutcomeTo(read) \in {"none", "data"}
           /\ read.goesOn = {} => ~GoesOn(read, OutcomeTo(read))
<1>1. CASE read.listing
  <2>1. AnswerTo(read) = "ok"
    BY <1>1 DEF IsRefused, AnswerTo
  <2>2. OutcomeTo(read) = "data"
    BY <2>1 DEF OutcomeTo, OutcomeOf, RefusedCredentials
  <2>3. SeesNothing(read) /\ read.invisible
    BY <1>1 DEF IsRefused, SeesNothing
  <2> QED
    BY <1>1, <2>2, <2>3 DEF Refuses, GoesOn
<1>2. CASE ~read.listing
  <2>1. AnswerTo(read) = "forbidden"
    BY <1>2 DEF IsRefused, AnswerTo
  <2>2. OutcomeTo(read) = "none"
    BY <2>1 DEF OutcomeTo, OutcomeOf, RefusedCredentials
  <2> QED
    BY <2>2 DEF Refuses, GoesOn
<1> QED
  BY <1>1, <1>2

\* An update does not get past the read that speaks.
LEMMA NotPast ==
    ASSUME Inv, NEW c \in Coordinators, NEW i \in DOMAIN Plan[c],
           SpeaksAlways(c, i), NEW at \in 1..Len(Plan[c]), at <= i, NEW outcome,
           at = i => ~GoesOn(Plan[c][i], outcome)
    PROVE  \A n \in Nexts(c, at, outcome) : n <= i /\ (at = i => n = 0)
<1>1. /\ Plan[c] \in Seq(Reads) /\ i \in 1..Len(Plan[c]) /\ Len(Plan[c]) \in Nat
  BY PlanAssumption
<1>2. CASE ~GoesOn(Plan[c][at], outcome)
  BY <1>1, <1>2 DEF Nexts
<1>3. CASE GoesOn(Plan[c][at], outcome)
  <2>1. at \in 1..(i - 1)
    BY <1>1, <1>3
  <2>2. Plan[c][at].skips = {0}
    BY <2>1 DEF SpeaksAlways
  <2>3. Nexts(c, at, outcome) = {NextRead(c, at, 0)}
    BY <1>3, <2>2 DEF Nexts
  <2>4. NextRead(c, at, 0) <= i
    BY <1>1, <2>1 DEF NextRead
  <2> QED
    BY <1>1, <2>1, <2>3, <2>4
<1> QED
  BY <1>2, <1>3

\* What becomes of c's own update, and of the one for a service call, in a step
\* that is not c's: nothing, or the end of it all.
LEMMA OthersLeaveAlone ==
    ASSUME Inv, [Next]_vars, phase' = phase, ~Restart, NEW c \in Coordinators
    PROVE  /\ ~Update(c) => pc'[c] = pc[c]
           /\ ~Ask(c) /\ ~AskedUpdate(c) => asked'[c] = asked[c]
<1>1. pc \in [Coordinators -> Nat] /\ asked \in [Coordinators -> Nat]
  BY DEF Inv, TypeOK
<1>2. ASSUME NEW d \in Coordinators, Update(d)
      PROVE  (d # c => pc'[c] = pc[c]) /\ asked' = asked
  BY <1>1, <1>2
     DEF Update, StartUpdate, Stagger, ReadReturns, TakeShared, Proceed, askVars
<1>3. ASSUME NEW d \in Coordinators, Ask(d) \/ AskedUpdate(d)
      PROVE  pc' = pc /\ (d # c => asked'[c] = asked[c])
  BY <1>1, <1>3
     DEF Ask, AskedUpdate, AskReturns, AskTakesShared, AskProceeds, pollVars
<1>4. ASSUME \/ ClusterChanges \/ BurstEnds \/ (\E ids \in SUBSET Resources : Setup(ids))
             \/ (\E o \in Owners : SetUpOwner(o)) \/ SetUp \/ SetupBreaks \/ Disable \/ AddFails
             \/ (\E r \in Resources : Discover(r) \/ Drop(r)) \/ UNCHANGED vars
      PROVE  pc' = pc /\ asked' = asked
  BY <1>4 DEF ClusterChanges, BurstEnds, Setup, SetUpOwner, SetUp, SetupBreaks, Disable,
     AddFails, Discover, Drop, pollVars, askVars, vars
<1>5. ~Unload
  BY DEF Unload, Gone
<1> QED
  BY <1>2, <1>3, <1>4, <1>5 DEF Next

LEMMA StepStays ==
    ASSUME Inv, Inv', [Next]_vars, OnlyAnswered,
           NEW c \in Coordinators, NEW i \in DOMAIN Plan[c]
    PROVE  LineStays(c, i)
<1> DEFINE read == Plan[c][i]
           line == LineOf(read)
<1> SUFFICES ASSUME SpeaksAlways(c, i), IsRefused(read), pc[c] <= i, asked[c] <= i,
                    phase' = phase, ~Restart
             PROVE  /\ pc'[c] <= i /\ asked'[c] <= i
                    /\ line \in repairs["forbidden"] => line \in repairs'["forbidden"]
                    /\ (pc[c] = i /\ pc'[c] # i) \/ (asked[c] = i /\ asked'[c] # i)
                       => line \in repairs'["forbidden"]
  BY DEF LineStays
<1>1. /\ Plan[c] \in Seq(Reads) /\ read \in Reads /\ i \in 1..Len(Plan[c])
      /\ Len(Plan[c]) \in Nat
      /\ pc \in [Coordinators -> Nat] /\ asked \in [Coordinators -> Nat]
  BY PlanAssumption DEF Inv, TypeOK
<1>2. /\ read.noted = "forbidden" /\ read.goesOn = {} /\ ~read.shared
      /\ \A d \in Coordinators : \A j \in DOMAIN Plan[d] :
            Plan[d][j].key = read.key => d = c /\ j >= i
  BY DEF SpeaksAlways, Speaks
<1>3. Refuses(read) /\ ~GoesOn(read, OutcomeTo(read))
  BY <1>1, <1>2, RefusedReads
<1>4. repairs' = lists' /\ repairs = lists /\ lists \in [Kinds -> SUBSET Lines]
  BY DEF Inv, RepairsShowLists, TypeOK
<1>5. lists' = Noted(read) => line \in repairs'["forbidden"]
  <2>1. Noted(read) = On(lists, "forbidden", line) /\ "forbidden" \in Kinds /\ line \in Lines
    BY <1>1, <1>3 DEF Noted, Kinds, Lines
  <2>2. line \in Noted(read)["forbidden"]
    BY <1>4, <2>1, OnHas
  <2> QED
    BY <1>4, <2>2
<1>6. /\ pc'[c] <= i
      /\ pc[c] = i /\ pc'[c] # i => line \in repairs'["forbidden"]
  <2>1. CASE ReadReturns(c)
    <3>1. /\ Flying(c) /\ pc[c] \in 1..Len(Plan[c])
          /\ \E next \in Nexts(c, pc[c], OutcomeTo(Plan[c][pc[c]])) : pc' = [pc EXCEPT ![c] = next]
      BY <2>1, InFlight DEF ReadReturns, Proceed
    <3>2. pc'[c] \in Nexts(c, pc[c], OutcomeTo(Plan[c][pc[c]]))
      BY <1>1, <3>1
    <3>3. pc'[c] <= i
      BY <1>3, <3>1, <3>2, NotPast
    <3>4. pc[c] = i => lists' = Noted(read)
      BY <2>1, RewriteLists DEF ReadReturns
    <3> QED
      BY <1>5, <3>3, <3>4
  <2>2. CASE TakeShared(c)
    <3>1. /\ Flying(c) /\ pc[c] \in 1..Len(Plan[c]) /\ pc[c] # i
          /\ \E next \in Nexts(c, pc[c], burst) : pc' = [pc EXCEPT ![c] = next]
      BY <1>2, <2>2, InFlight DEF TakeShared, Proceed
    <3>2. pc'[c] \in Nexts(c, pc[c], burst)
      BY <1>1, <3>1
    <3> QED
      BY <3>1, <3>2, NotPast
  <2>3. CASE StartUpdate(c) \/ Stagger(c)
    <3>1. pc[c] = 0 /\ pc'[c] = 1
      BY <1>1, <2>3 DEF StartUpdate, Stagger, Flying
    <3> QED
      BY <1>1, <3>1
  <2>4. CASE ~Update(c)
    BY <2>4, OthersLeaveAlone
  <2> QED
    BY <2>1, <2>2, <2>3, <2>4 DEF Update
<1>7. /\ asked'[c] <= i
      /\ asked[c] = i /\ asked'[c] # i => line \in repairs'["forbidden"]
  <2>1. CASE AskReturns(c)
    <3>1. /\ asked[c] \in 1..Len(Plan[c])
          /\ \E next \in Nexts(c, asked[c], OutcomeTo(Plan[c][asked[c]])) :
                asked' = [asked EXCEPT ![c] = next]
      BY <2>1, InFlight DEF AskReturns, AskProceeds
    <3>2. asked'[c] \in Nexts(c, asked[c], OutcomeTo(Plan[c][asked[c]]))
      BY <1>1, <3>1
    <3>3. asked'[c] <= i
      BY <1>3, <3>1, <3>2, NotPast
    <3>4. asked[c] = i => lists' = Noted(read)
      BY <2>1, RewriteLists DEF AskReturns
    <3> QED
      BY <1>5, <3>3, <3>4
  <2>2. CASE AskTakesShared(c)
    <3>1. /\ asked[c] \in 1..Len(Plan[c]) /\ asked[c] # i
          /\ \E outcome : AskProceeds(c, outcome)
      BY <1>2, <2>2, InFlight DEF AskTakesShared
    <3>2. PICK outcome : \E next \in Nexts(c, asked[c], outcome) :
                             asked' = [asked EXCEPT ![c] = next]
      BY <3>1 DEF AskProceeds
    <3>3. asked'[c] \in Nexts(c, asked[c], outcome)
      BY <1>1, <3>2
    <3> QED
      BY <3>1, <3>3, NotPast
  <2>3. CASE Ask(c)
    <3>1. asked[c] = 0 /\ asked'[c] = 1
      BY <1>1, <2>3 DEF Ask
    <3> QED
      BY <1>1, <3>1
  <2>4. CASE ~Ask(c) /\ ~AskedUpdate(c)
    BY <2>4, OthersLeaveAlone
  <2> QED
    BY <2>1, <2>2, <2>3, <2>4 DEF AskedUpdate
<1>8. ASSUME line \in repairs["forbidden"], line \notin repairs'["forbidden"]
      PROVE  FALSE
  <2>1. "forbidden" \in NotedKinds /\ "forbidden" \in Kinds
    BY DEF NotedKinds, Kinds
  <2>2. PICK d \in Coordinators :
            \E other \in Reads : Reading(d, other) /\ lists' = Noted(other)
    <3>1. \A o \in Owners :
              \/ lists' = ExistsAgain(o)
              \/ o \in Resources \ up /\ lists' = On(lists, "nonexistent", MissingLine(o))
              => lists'["forbidden"] = lists["forbidden"]
      BY <2>1, LookedUpDoes
    <3> QED
      BY <1>4, <1>8, <3>1, ListsMove
  <2>3. PICK other \in Reads : Reading(d, other) /\ lists' = Noted(other)
    BY <2>2
  <2>4. other.key = line.key
    BY <1>4, <1>8, <2>1, <2>3, NotedDoes
  <2>5. line.key = read.key
    BY DEF LineOf
  <2>6. PICK j \in DOMAIN Plan[d] : other = Plan[d][j] /\ (j = pc[d] \/ j = asked[d])
    <3>1. Plan[d] \in Seq(Reads)
      BY PlanAssumption
    <3> QED
      BY <2>3, <3>1, InFlight DEF Reading
  <2>7. d = c /\ j >= i
    BY <1>2, <2>4, <2>5, <2>6
  <2>8. j = i
    BY <1>1, <2>6, <2>7
  <2> QED
    BY <1>5, <1>8, <2>3, <2>6, <2>7, <2>8
<1> QED
  BY <1>6, <1>7, <1>8

\* While a read that speaks for its resource is refused, its line stays once it
\* is there, and is there after the next update, be it a poll or one for a
\* service call: the guest agent and the snapshots, read under the same key, are
\* never reached to take it off.
THEOREM RefusedLinesStay ==
    Spec => [][\A c \in Coordinators : \A i \in DOMAIN Plan[c] : LineStays(c, i)]_vars
<1>1. Inv /\ Inv' /\ [Next]_vars /\ OnlyAnswered =>
          \A c \in Coordinators : \A i \in DOMAIN Plan[c] : LineStays(c, i)
  BY StepStays
<1>2. UNCHANGED vars => OnlyAnswered
  BY DEF vars, issueVars, OnlyAnswered
<1> QED
  BY Invariance, OnlyAnswersTakeOff, <1>1, <1>2, PTL DEF Spec

-----------------------------------------------------------------------------
(* The plans of PollPlans are such as PlanAssumption and                   *)
(* OwnershipAssumption ask for, the ones no run takes included.            *)

\* A read that is tracked as one of ids, and leaves out at most `most` others.
FitRead(read, ids, most) ==
    /\ DOMAIN read = DOMAIN SharedRead
    /\ read.skips \subseteq 0..most
    /\ read.noted \in Features \cup {"forbidden", "nowhere"}
    /\ read.of \in ids \cup {Untracked}

\* What an owner's plan has to be, where ids are what it has under it; no read
\* leaves out more than there are.
FitPlan(plan, ids) ==
    /\ plan \in Seq({plan[i] : i \in DOMAIN plan})
    /\ Len(plan) > 0
    /\ \A i \in DOMAIN plan : FitRead(plan[i], ids, Len(plan) - i)

\* The fields all reads have.
Fields == {"path", "key", "wants", "of", "at", "noted", "goesOn", "enough",
           "skips", "listing", "invisible", "shared"}

LEMMA SharedFields == DOMAIN SharedRead = Fields
BY DEF SharedRead, Read, Fields

LEMMA ReadFits ==
    ASSUME NEW path, NEW category, NEW id, NEW wants, NEW place, NEW most \in Nat
    PROVE  FitRead(Read(path, category, id, wants, place), {id}, most)
BY SharedFields DEF Read, Fields, FitRead

LEMMA SharedFits == ASSUME NEW ids, NEW most \in Nat PROVE FitRead(SharedRead, ids, most)
<1>1. /\ SharedRead.skips = {0} /\ SharedRead.noted = "forbidden"
      /\ SharedRead.of = Untracked
  BY DEF SharedRead, Read
<1> QED
  BY <1>1 DEF FitRead

LEMMA ChangedFits ==
    ASSUME NEW read, NEW ids, NEW most \in Nat, FitRead(read, ids, most)
    PROVE  /\ FitRead(Unnoted(read), ids, most)
           /\ FitRead(Caught(read), ids, most)
           /\ FitRead(Spared(read), ids, most)
           /\ \A n \in 0..most : FitRead(MayLeaveOut(read, n), ids, most)
           /\ \A outcomes : FitRead([read EXCEPT !.enough = outcomes], ids, most)
BY SharedFields DEF FitRead, Fields, Unnoted, Caught, Spared, MayLeaveOut

LEMMA EnoughFits ==
    ASSUME NEW read, NEW ids, NEW most \in Nat, FitRead(read, ids, most), NEW outcomes
    PROVE  FitRead([read EXCEPT !.enough = outcomes], ids, most)
BY ChangedFits

LEMMA LeavingOutFits ==
    ASSUME NEW read, NEW ids, NEW most \in Nat, FitRead(read, ids, most), NEW n \in 0..most
    PROVE  FitRead(MayLeaveOut(read, n), ids, most)
BY ChangedFits

LEMMA AgentFits ==
    ASSUME NEW what, NEW feature \in Features, NEW g, NEW most \in Nat
    PROVE  FitRead(AgentRead(what, feature, g), {g}, most)
<1> DEFINE read == Caught(GuestRead(what, "qemu", g))
<1>1. FitRead(read, {g}, most)
  BY ReadFits, ChangedFits DEF GuestRead
<1>2. AgentRead(what, feature, g) =
          [read EXCEPT !.noted = feature, !.wants = <<feature, "/vms">>]
  BY DEF AgentRead
<1> HIDE DEF read
<1> QED
  BY <1>1, <1>2, SharedFields DEF FitRead, Fields

LEMMA OneFits ==
    ASSUME NEW ids, NEW a, FitRead(a, ids, 0)
    PROVE  FitPlan(<<a>>, ids)
<1> DEFINE plan == <<a>>
<1>1. Len(plan) = 1 /\ DOMAIN plan = 1..1 /\ plan[1] = a
  OBVIOUS
<1>2. plan \in Seq({plan[i] : i \in DOMAIN plan})
  BY <1>1
<1> HIDE DEF plan
<1>3. \A i \in DOMAIN plan : FitRead(plan[i], ids, Len(plan) - i)
  BY <1>1
<1> QED
  BY <1>1, <1>2, <1>3 DEF FitPlan

LEMMA TwoFit ==
    ASSUME NEW ids, NEW a, NEW b, FitRead(a, ids, 1), FitRead(b, ids, 0)
    PROVE  FitPlan(<<a, b>>, ids)
<1> DEFINE plan == <<a, b>>
<1>1. Len(plan) = 2 /\ DOMAIN plan = 1..2 /\ plan[1] = a /\ plan[2] = b
  OBVIOUS
<1>2. plan \in Seq({plan[i] : i \in DOMAIN plan})
  BY <1>1
<1> HIDE DEF plan
<1>3. \A i \in DOMAIN plan : FitRead(plan[i], ids, Len(plan) - i)
  <2>1. \A i \in 1..2 : i = 1 \/ i = 2
    OBVIOUS
  <2>2. 2 - 1 = 1 /\ 2 - 2 = 0
    OBVIOUS
  <2> QED
    BY <1>1, <2>1, <2>2
<1> QED
  BY <1>1, <1>2, <1>3 DEF FitPlan

LEMMA FourFit ==
    ASSUME NEW ids, NEW a, NEW b, NEW c, NEW d,
           FitRead(a, ids, 3), FitRead(b, ids, 2), FitRead(c, ids, 1), FitRead(d, ids, 0)
    PROVE  FitPlan(<<a, b, c, d>>, ids)
<1> DEFINE plan == <<a, b, c, d>>
<1>1. /\ Len(plan) = 4 /\ DOMAIN plan = 1..4
      /\ plan[1] = a /\ plan[2] = b /\ plan[3] = c /\ plan[4] = d
  OBVIOUS
<1>2. plan \in Seq({plan[i] : i \in DOMAIN plan})
  BY <1>1
<1> HIDE DEF plan
<1>3. \A i \in DOMAIN plan : FitRead(plan[i], ids, Len(plan) - i)
  <2>1. \A i \in 1..4 : i = 1 \/ i = 2 \/ i = 3 \/ i = 4
    OBVIOUS
  <2>2. 4 - 1 = 3 /\ 4 - 2 = 2 /\ 4 - 3 = 1 /\ 4 - 4 = 0
    OBVIOUS
  <2> QED
    BY <1>1, <2>1, <2>2
<1> QED
  BY <1>1, <1>2, <1>3 DEF FitPlan

LEMMA FiveFit ==
    ASSUME NEW ids, NEW a, NEW b, NEW c, NEW d, NEW e,
           FitRead(a, ids, 4), FitRead(b, ids, 3), FitRead(c, ids, 2), FitRead(d, ids, 1),
           FitRead(e, ids, 0)
    PROVE  FitPlan(<<a, b, c, d, e>>, ids)
<1> DEFINE plan == <<a, b, c, d, e>>
<1>1. /\ Len(plan) = 5 /\ DOMAIN plan = 1..5
      /\ plan[1] = a /\ plan[2] = b /\ plan[3] = c /\ plan[4] = d /\ plan[5] = e
  OBVIOUS
<1>2. plan \in Seq({plan[i] : i \in DOMAIN plan})
  BY <1>1
<1> HIDE DEF plan
<1>3. \A i \in DOMAIN plan : FitRead(plan[i], ids, Len(plan) - i)
  <2>1. \A i \in 1..5 : i = 1 \/ i = 2 \/ i = 3 \/ i = 4 \/ i = 5
    OBVIOUS
  <2>2. 5 - 1 = 4 /\ 5 - 2 = 3 /\ 5 - 3 = 2 /\ 5 - 4 = 1 /\ 5 - 5 = 0
    OBVIOUS
  <2> QED
    BY <1>1, <2>1, <2>2
<1> QED
  BY <1>1, <1>2, <1>3 DEF FitPlan

LEMMA SixFit ==
    ASSUME NEW ids, NEW a, NEW b, NEW c, NEW d, NEW e, NEW f,
           FitRead(a, ids, 5), FitRead(b, ids, 4), FitRead(c, ids, 3), FitRead(d, ids, 2),
           FitRead(e, ids, 1), FitRead(f, ids, 0)
    PROVE  FitPlan(<<a, b, c, d, e, f>>, ids)
<1> DEFINE plan == <<a, b, c, d, e, f>>
<1>1. /\ Len(plan) = 6 /\ DOMAIN plan = 1..6
      /\ plan[1] = a /\ plan[2] = b /\ plan[3] = c /\ plan[4] = d /\ plan[5] = e /\ plan[6] = f
  OBVIOUS
<1>2. plan \in Seq({plan[i] : i \in DOMAIN plan})
  BY <1>1
<1> HIDE DEF plan
<1>3. \A i \in DOMAIN plan : FitRead(plan[i], ids, Len(plan) - i)
  <2>1. \A i \in 1..6 : i = 1 \/ i = 2 \/ i = 3 \/ i = 4 \/ i = 5 \/ i = 6
    OBVIOUS
  <2>2. 6 - 1 = 5 /\ 6 - 2 = 4 /\ 6 - 3 = 3 /\ 6 - 4 = 2 /\ 6 - 5 = 1 /\ 6 - 6 = 0
    OBVIOUS
  <2> QED
    BY <1>1, <2>1, <2>2
<1> QED
  BY <1>1, <1>2, <1>3 DEF FitPlan

LEMMA WideFits ==
    ASSUME NEW what
    PROVE  FitPlan(<<WideRead(what)>>, {what})
BY OneFits, ReadFits DEF WideRead

LEMMA ListingFits ==
    ASSUME NEW n, NEW most \in Nat
    PROVE  /\ FitRead(Listing(n), {n}, most)
           /\ FitRead([Listing(n) EXCEPT !.invisible = TRUE, !.enough = {"data"}], {n}, most)
<1> DEFINE read == NodeRead("nodes", n)
<1>1. FitRead(read, {n}, most)
  BY ReadFits DEF NodeRead
<1>2. Listing(n) = [read EXCEPT !.path = <<"nodes">>, !.listing = TRUE, !.at = Untracked]
  BY DEF Listing
<1> HIDE DEF read
<1>3. FitRead(Listing(n), {n}, most)
  BY <1>1, <1>2, SharedFields DEF FitRead, Fields
<1> QED
  BY <1>3, SharedFields DEF FitRead, Fields

\* Sequences are the same when they have the same members in their places.
LEMMA SameSequence ==
    ASSUME NEW S, NEW s \in Seq(S), NEW t \in Seq(S), Len(s) = Len(t),
           \A i \in 1..Len(s) : s[i] = t[i]
    PROVE  s = t
OBVIOUS

LEMMA JoinNone ==
    ASSUME NEW a, NEW b, NEW c, NEW d, NEW e
    PROVE  <<a, b, c>> \o <<>> \o <<d, e>> = <<a, b, c, d, e>>
<1> DEFINE S == {a, b, c, d, e}
           u == <<a, b, c>>
           v == <<d, e>>
<1>1. u \in Seq(S) /\ v \in Seq(S) /\ <<a, b, c, d, e>> \in Seq(S)
  OBVIOUS
<1>2. u \o <<>> = u
  OBVIOUS
<1>3. u \o v \in Seq(S) /\ Len(u \o v) = 5
  BY <1>1
<1>4. \A i \in 1..5 : (u \o v)[i] = <<a, b, c, d, e>>[i]
  OBVIOUS
<1>5. u \o v = <<a, b, c, d, e>>
  BY <1>1, <1>3, <1>4, SameSequence
<1> QED
  BY <1>2, <1>5

LEMMA JoinOne ==
    ASSUME NEW a, NEW b, NEW c, NEW d, NEW e, NEW x
    PROVE  <<a, b, c>> \o <<x>> \o <<d, e>> = <<a, b, c, x, d, e>>
<1> DEFINE S == {a, b, c, d, e, x}
           u == <<a, b, c>>
           v == <<d, e>>
           w == <<a, b, c, x>>
<1>1. /\ u \in Seq(S) /\ v \in Seq(S) /\ w \in Seq(S) /\ <<x>> \in Seq(S)
      /\ <<a, b, c, x, d, e>> \in Seq(S)
  OBVIOUS
<1>2. u \o <<x>> = w
  <2>1. u \o <<x>> \in Seq(S) /\ Len(u \o <<x>>) = 4
    BY <1>1
  <2>2. \A i \in 1..4 : (u \o <<x>>)[i] = w[i]
    OBVIOUS
  <2> QED
    BY <1>1, <2>1, <2>2, SameSequence
<1>3. w \o v \in Seq(S) /\ Len(w \o v) = 6
  BY <1>1
<1>4. \A i \in 1..6 : (w \o v)[i] = <<a, b, c, x, d, e>>[i]
  OBVIOUS
<1>5. w \o v = <<a, b, c, x, d, e>>
  BY <1>1, <1>3, <1>4, SameSequence
<1> QED
  BY <1>2, <1>5

\* Every plan in PollPlans fits: a node's coordinators read for the node, those
\* of disks, pools and cluster-wide parts for what has no device to track, a
\* guest's and a storage's for themselves.
THEOREM CodePlansFit ==
    ASSUME NEW n, NEW g, NEW s, NEW d, NEW filePath \in BOOLEAN
    PROVE  /\ FitPlan(HAResourcesPlan, {"ha_resources"})
           /\ FitPlan(HAStatusPlan, {"ha_status"})
           /\ FitPlan(BackupInfoPlan, {"backup_info"})
           /\ FitPlan(CephPlan, {"ceph"})
           /\ FitPlan(ClusterSummaryPlan, {})
           /\ FitPlan(NodePlan(n), {n})
           /\ FitPlan(UpdatePlan(n), {n})
           /\ FitPlan(CertificatePlan(n), {n})
           /\ FitPlan(SubscriptionPlan(n), {n})
           /\ FitPlan(ReplicationPlan(n), {n})
           /\ FitPlan(BackupPlan(n), {n})
           /\ FitPlan(TaskPlan(n), {n})
           /\ FitPlan(DiskPlan(n, d), {d})
           /\ FitPlan(ZFSPlan(n, d), {d})
           /\ FitPlan(StoragePlan(s), {s})
           /\ FitPlan(LXCPlan(g), {g})
           /\ FitPlan(QEMUPlan(g, filePath), {g})
<1>1. /\ FitPlan(HAResourcesPlan, {"ha_resources"}) /\ FitPlan(HAStatusPlan, {"ha_status"})
      /\ FitPlan(BackupInfoPlan, {"backup_info"}) /\ FitPlan(CephPlan, {"ceph"})
      /\ FitPlan(ClusterSummaryPlan, {})
  BY WideFits, OneFits, SharedFits, ReadFits, EnoughFits
     DEF WideRead, HAResourcesPlan, HAStatusPlan, BackupInfoPlan, CephPlan, ClusterSummaryPlan
<1>2. \A what : \A most \in Nat : FitRead(NodeRead(what, n), {n}, most)
  BY ReadFits DEF NodeRead
<1>3. FitPlan(NodePlan(n), {n})
  <2>1. FitRead([Listing(n) EXCEPT !.invisible = TRUE, !.enough = {"data"}], {n}, 5)
    BY ListingFits
  <2>2. FitRead(NodeRead("node/status", n), {n}, 4)
    BY <1>2
  <2>3. FitRead(MayLeaveOut(Spared(NodeRead("node/version", n)), 1), {n}, 3)
    <3>1. FitRead(Spared(NodeRead("node/version", n)), {n}, 3)
      BY <1>2, ChangedFits
    <3> QED
      BY <3>1, ChangedFits
  <2>4. FitRead(Unnoted(NodeRead("node/network", n)), {n}, 2)
    BY <1>2, ChangedFits
  <2>5. FitRead(Spared(Read(<<"node/qemu", n>>, "qemu", n, <<"VM.Audit", n>>, n)), {n}, 1)
    BY ReadFits, ChangedFits
  <2>6. FitRead(Spared(Read(<<"node/lxc", n>>, "lxc", n, <<"VM.Audit", n>>, n)), {n}, 0)
    BY ReadFits, ChangedFits
  <2> QED
    BY <2>1, <2>2, <2>3, <2>4, <2>5, <2>6, SixFit DEF NodePlan
<1>4. /\ FitPlan(UpdatePlan(n), {n}) /\ FitPlan(CertificatePlan(n), {n})
      /\ FitPlan(SubscriptionPlan(n), {n}) /\ FitPlan(ReplicationPlan(n), {n})
      /\ FitPlan(TaskPlan(n), {n}) /\ FitPlan(ZFSPlan(n, d), {d})
  BY <1>2, OneFits, TwoFit, ReadFits, ListingFits, EnoughFits
     DEF UpdatePlan, CertificatePlan, SubscriptionPlan, ReplicationPlan, TaskPlan, ZFSPlan
<1>5. FitPlan(BackupPlan(n), {n})
  <2>1. FitRead(Spared(Read(<<"node/active", n>>, "tasks", n, NodeAudit(n), n)), {n}, 0)
    BY ReadFits, ChangedFits
  <2> QED
    BY <2>1, ReadFits, TwoFit DEF BackupPlan
<1>6. FitPlan(DiskPlan(n, d), {d})
  <2>1. FitRead(Spared(Read(<<"disks/smart", n>>, "disk", d, RootAudit, n)), {d}, 0)
    BY ReadFits, ChangedFits
  <2>2. FitRead(Caught(Spared(Read(<<"disks/smart", n>>, "disk", d, RootAudit, n))), {d}, 0)
    BY <2>1, ChangedFits
  <2> QED
    BY <2>2, ReadFits, TwoFit DEF DiskPlan
<1>7. FitPlan(StoragePlan(s), {s})
  <2>1. FitRead(Spared(Read(<<"node/storage", s>>, "storage", s, <<"Datastore.Audit", s>>, s)),
                {s}, 0)
    BY ReadFits, ChangedFits
  <2> QED
    BY <2>1, SharedFits, TwoFit DEF StoragePlan
<1>8. \A what, kind : \A most \in Nat : FitRead(GuestRead(what, kind, g), {g}, most)
  BY ReadFits DEF GuestRead
<1>9. \A what, kind : \A most \in Nat :
          FitRead(Caught(Unnoted(GuestRead(what, kind, g))), {g}, most)
  <2>1. \A what, kind : \A most \in Nat : FitRead(Unnoted(GuestRead(what, kind, g)), {g}, most)
    BY <1>8, ChangedFits
  <2> QED
    BY <2>1, ChangedFits
<1>10. \A kind : \A most \in Nat : FitRead(Snapshots(kind, g), {g}, most)
  BY <1>9 DEF Snapshots
<1>11. FitPlan(LXCPlan(g), {g})
  <2>1. FitRead(MayLeaveOut(Snapshots("lxc", g), 1), {g}, 1)
    BY <1>10, ChangedFits
  <2> QED
    BY <1>8, <1>9, <2>1, SharedFits, FourFit DEF LXCPlan
<1>12. \A what : \A feature \in Features : \A most \in Nat :
           FitRead(AgentRead(what, feature, g), {g}, most)
  BY AgentFits
<1>13. "fsinfo" \in Features /\ "file" \in Features
  BY DEF Features
<1> DEFINE status == GuestRead("guest/status", "qemu", g)
           fsinfo == AgentRead("agent/fsinfo", "fsinfo", g)
           file == AgentRead("agent/file", "file", g)
           ports == AgentRead("agent/interfaces", "fsinfo", g)
           snaps == Snapshots("qemu", g)
<1>14. ASSUME filePath PROVE FitPlan(QEMUPlan(g, filePath), {g})
  <2>1. Len(<<file>>) = 1
    OBVIOUS
  <2>2. QEMUPlan(g, filePath) =
            <<SharedRead, MayLeaveOut(status, 2 + Len(<<file>>)), fsinfo>>
            \o <<file>> \o <<ports, snaps>>
    BY <1>14 DEF QEMUPlan
  <2>3. FitRead(status, {g}, 4)
    BY <1>8
  <2>4. FitRead(fsinfo, {g}, 3) /\ FitRead(file, {g}, 2) /\ FitRead(ports, {g}, 1)
    BY <1>12, <1>13
  <2>5. FitRead(snaps, {g}, 0)
    BY <1>10
  <2> HIDE DEF status, fsinfo, file, ports, snaps
  <2>6. QEMUPlan(g, filePath) =
            <<SharedRead, MayLeaveOut(status, 3), fsinfo, file, ports, snaps>>
    <3>1. 2 + Len(<<file>>) = 3
      BY <2>1
    <3> QED
      BY <2>2, <3>1, JoinOne
  <2>7. FitRead(MayLeaveOut(status, 3), {g}, 4)
    BY <2>3, LeavingOutFits
  <2>8. FitRead(SharedRead, {g}, 5)
    BY SharedFits
  <2> QED
    BY <2>4, <2>5, <2>6, <2>7, <2>8, SixFit
<1>15. ASSUME ~filePath PROVE FitPlan(QEMUPlan(g, filePath), {g})
  <2>1. QEMUPlan(g, filePath) =
            <<SharedRead, MayLeaveOut(status, 2 + Len(<<>>)), fsinfo>>
            \o <<>> \o <<ports, snaps>>
    BY <1>15 DEF QEMUPlan
  <2>2. FitRead(status, {g}, 3)
    BY <1>8
  <2>3. FitRead(fsinfo, {g}, 2) /\ FitRead(ports, {g}, 1)
    BY <1>12, <1>13
  <2>4. FitRead(snaps, {g}, 0)
    BY <1>10
  <2> HIDE DEF status, fsinfo, ports, snaps
  <2>5. QEMUPlan(g, filePath) = <<SharedRead, MayLeaveOut(status, 2), fsinfo, ports, snaps>>
    <3>1. 2 + Len(<<>>) = 2
      OBVIOUS
    <3> QED
      BY <2>1, <3>1, JoinNone
  <2>6. FitRead(MayLeaveOut(status, 2), {g}, 3)
    BY <2>2, LeavingOutFits
  <2>7. FitRead(SharedRead, {g}, 4)
    BY SharedFits
  <2> QED
    BY <2>3, <2>4, <2>5, <2>6, <2>7, FiveFit
<1> QED
  BY <1>1, <1>3, <1>4, <1>5, <1>6, <1>7, <1>11, <1>14, <1>15
=============================================================================
