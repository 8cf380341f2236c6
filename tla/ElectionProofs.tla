---------------------------- MODULE ElectionProofs ----------------------------
(***************************************************************************)
(* What holds of any finite number of requests, candidates and voters, and *)
(* of any counts: who has two ballots sent them at once, which ballots the *)
(* results may miss, and who is ahead in the results.                      *)
(***************************************************************************)
EXTENDS Election, FiniteSetTheorems, TLAPS

(* A step is one of these, or changes nothing. *)
Steps ==
    \/ \E s \in Status : SetStatus(s)
    \/ SetRanked
    \/ \E c \in Candidate : SetStanding(c)
    \/ \E S \in SUBSET Voter : RegisterVoters(S)
    \/ \E k \in Request, v \in Voter, choices \in Ballots : CastRead(k, v, choices)
    \/ \E k \in Request : CastCommit(k)
    \/ \E r \in Count : CountRead(r)
    \/ \E r \in Count : CountCommit(r)
    \/ UNCHANGED vars

LEMMA NextSteps == [Next]_vars => Steps
BY Zenon DEF Next, Admin, Vote, Steps

BallotType == [phase : {"none", "read", "cast"}, voter : Voter \cup {NoVoter},
               choices : Ballots \cup {<<>>}]
CountType == [phase : {"none", "read"}, loaded : Status, of : Snapshot]
ResultsType == [of : Snapshot, order : Seq(Candidate)]

(* The sequences of all members of a finite set are sequences of these. *)
LEMMA ListingsAreSeqs ==
  ASSUME NEW S, IsFiniteSet(S), NEW s \in SetToSeqs(S)
  PROVE  s \in Seq(S) /\ Len(s) \in Nat /\ DOMAIN s = 1..Len(s)
<1>1. Cardinality(S) \in Nat
  BY FS_CardinalityType
<1>2. s \in [1..Cardinality(S) -> S]
  BY DEF SetToSeqs
<1>3. s \in Seq(S)
  BY <1>1, <1>2
<1> QED
  BY <1>3

LEMMA OrdersType ==
  ASSUME NEW of \in Snapshot, NEW o \in Orders(of)
  PROVE  o \in Seq(Candidate) /\ Range(o) \subseteq of.standing
<1>1. of.standing \subseteq Candidate
  BY DEF Snapshot
<1>2. IsFiniteSet(of.standing)
  BY <1>1, FinitelyMany, FS_Subset
<1>3. o \in SetToSeqs(of.standing)
  BY DEF Orders
<1>4. o \in Seq(of.standing)
  BY <1>2, <1>3, ListingsAreSeqs
<1> QED
  BY <1>1, <1>4 DEF Range

LEMMA NowType ==
  ASSUME TypeOK
  PROVE  Now \in Snapshot
BY DEF TypeOK, Now, Snapshot, Cast

-----------------------------------------------------------------------------
(* Types. *)

LEMMA TypeInit == Init => TypeOK
<1> SUFFICES ASSUME Init PROVE TypeOK
  OBVIOUS
<1> USE DEF Init
<1>1. status \in Status /\ ranked \in BOOLEAN /\ standing \in SUBSET Candidate
  BY DEF Status
<1>2. registry \in [Voter -> {"none", "registered", "voted"}]
  OBVIOUS
<1>3. ballot \in [Request -> BallotType]
  BY DEF NoBallot, BallotType
<1>4. NoSnapshot \in Snapshot
  BY DEF NoSnapshot, Snapshot
<1>5. count \in [Count -> CountType]
  BY <1>4 DEF NoCount, CountType, Status
<1>6. results \in ResultsType
  BY <1>4 DEF NoResults, ResultsType
<1>7. Range(results.order) \subseteq results.of.standing
  BY DEF NoResults, Range
<1>8. beside \in SUBSET SUBSET Request /\ changes \in 0..MaxChanges /\ late \in SUBSET Request
  BY ChangesAreCounted
<1> QED
  BY <1>1, <1>2, <1>3, <1>5, <1>6, <1>7, <1>8 DEF TypeOK, BallotType, CountType, ResultsType

LEMMA TypeStep == TypeOK /\ [Next]_vars => TypeOK'
<1> SUFFICES ASSUME TypeOK, Steps PROVE TypeOK'
  BY NextSteps
<1>1. ASSUME NEW s \in Status, SetStatus(s) PROVE TypeOK'
  <2>1. late' \in SUBSET Request
    BY <1>1 DEF SetStatus, TypeOK, OnTheirWay
  <2>2. CASE s = "voting_open"
    <3>1. count' \in [Count -> CountType]
      <4>1. ASSUME NEW r \in Count PROVE [count[r] EXCEPT !.of.reopened = TRUE] \in CountType
        <5>1. count[r] \in CountType
          BY DEF TypeOK, CountType
        <5>2. [count[r].of EXCEPT !.reopened = TRUE] \in Snapshot
          BY <5>1 DEF CountType, Snapshot
        <5>3. [count[r] EXCEPT !.of.reopened = TRUE]
                 = [count[r] EXCEPT !.of = [count[r].of EXCEPT !.reopened = TRUE]]
          BY Zenon
        <5> QED
          BY <5>1, <5>2, <5>3 DEF CountType
      <4> QED
        BY <1>1, <2>2, <4>1 DEF SetStatus
    <3>2. results' \in ResultsType /\ Range(results'.order) \subseteq results'.of.standing
      <4>1. results \in ResultsType /\ Range(results.order) \subseteq results.of.standing
        BY DEF TypeOK, ResultsType
      <4>2. [results.of EXCEPT !.reopened = TRUE] \in Snapshot
        BY <4>1 DEF ResultsType, Snapshot
      <4>3. results' = [results EXCEPT !.of = [results.of EXCEPT !.reopened = TRUE]]
        BY <1>1, <2>2, Zenon DEF SetStatus
      <4>4. [results.of EXCEPT !.reopened = TRUE].standing = results.of.standing
        BY <4>1 DEF ResultsType, Snapshot
      <4> QED
        BY <4>1, <4>2, <4>3, <4>4 DEF ResultsType
    <3> QED
      BY <1>1, <2>1, <3>1, <3>2 DEF SetStatus, TypeOK, urn, CountType, ResultsType
  <2>3. CASE s # "voting_open"
    BY <1>1, <2>1, <2>3 DEF SetStatus, TypeOK, urn
  <2> QED
    BY <2>2, <2>3
<1>2. CASE SetRanked
  BY <1>2, ChangesAreCounted DEF SetRanked, TypeOK, urn
<1>3. ASSUME NEW c \in Candidate, SetStanding(c) PROVE TypeOK'
  BY <1>3, ChangesAreCounted DEF SetStanding, TypeOK, urn
<1>4. ASSUME NEW S \in SUBSET Voter, RegisterVoters(S) PROVE TypeOK'
  BY <1>4 DEF RegisterVoters, TypeOK
<1>5. ASSUME NEW k \in Request, NEW v \in Voter, NEW choices \in Ballots, CastRead(k, v, choices)
      PROVE  TypeOK'
  <2>1. ballot' \in [Request -> BallotType]
    BY <1>5 DEF CastRead, TypeOK, BallotType
  <2>2. beside' \in SUBSET SUBSET Request
    <3>1. \A j \in {i \in OnTheirWay : ballot[i].voter = v} : {j, k} \in SUBSET Request
      BY DEF OnTheirWay
    <3>2. {{j, k} : j \in {i \in OnTheirWay : ballot[i].voter = v}} \subseteq SUBSET Request
      BY <3>1
    <3> QED
      BY <1>5, <3>2 DEF CastRead, TypeOK
  <2> QED
    BY <1>5, <2>1, <2>2 DEF CastRead, TypeOK, BallotType
<1>6. ASSUME NEW k \in Request, CastCommit(k) PROVE TypeOK'
  <2>1. ballot' \in [Request -> BallotType]
    <3>1. [ballot[k] EXCEPT !.phase = "cast"] \in BallotType
      <4>1. ballot[k] \in BallotType
        BY DEF TypeOK, BallotType
      <4> QED
        BY <4>1 DEF BallotType
    <3>2. ballot' = [ballot EXCEPT ![k] = [ballot[k] EXCEPT !.phase = "cast"]]
      BY <1>6, Zenon DEF CastCommit
    <3> QED
      BY <3>1, <3>2 DEF TypeOK, BallotType
  <2>2. registry' \in [Voter -> {"none", "registered", "voted"}]
    BY <1>6 DEF CastCommit, TypeOK
  <2> QED
    BY <1>6, <2>1, <2>2 DEF CastCommit, TypeOK, BallotType
<1>7. ASSUME NEW r \in Count, CountRead(r) PROVE TypeOK'
  <2>1. count' \in [Count -> CountType]
    BY <1>7, NowType DEF CountRead, TypeOK, CountType
  <2> QED
    BY <1>7, <2>1 DEF CountRead, TypeOK, urn, CountType
<1>8. ASSUME NEW r \in Count, CountCommit(r) PROVE TypeOK'
  <2>1. count[r].of \in Snapshot
    BY DEF TypeOK
  <2>2. PICK o \in Orders(count[r].of) : results' = [of |-> count[r].of, order |-> o]
    BY <1>8 DEF CountCommit
  <2>3. o \in Seq(Candidate) /\ Range(o) \subseteq count[r].of.standing
    BY <2>1, OrdersType
  <2>4. results' \in ResultsType /\ Range(results'.order) \subseteq results'.of.standing
    BY <2>1, <2>2, <2>3 DEF ResultsType
  <2>5. count' \in [Count -> CountType]
    <3>1. NoCount \in CountType
      BY DEF NoCount, CountType, Status, NoSnapshot, Snapshot
    <3> QED
      BY <1>8, <3>1 DEF CountCommit, TypeOK, CountType
  <2>6. status' \in Status /\ late' \in SUBSET Request
    BY <1>8 DEF CountCommit, TypeOK, Status, OnTheirWay
  <2> QED
    BY <1>8, <2>4, <2>5, <2>6 DEF CountCommit, TypeOK, urn, CountType, ResultsType
<1>9. CASE UNCHANGED vars
  BY <1>9 DEF vars, urn, TypeOK
<1> QED
  BY <1>1, <1>2, <1>3, <1>4, <1>5, <1>6, <1>7, <1>8, <1>9 DEF Steps

(* Every variable keeps its type. *)
THEOREM TypeCorrect == Spec => []TypeOK
<1>1. Init => TypeOK
  BY TypeInit
<1>2. TypeOK /\ [Next]_vars => TypeOK'
  BY TypeStep
<1> QED
  BY <1>1, <1>2, PTL DEF Spec
-----------------------------------------------------------------------------
(* One ballot of each voter, unless they were on their way at once. *)

(* Ballots are of voters. *)
BallotsAreOfVoters == \A k \in Request : ballot[k].phase # "none" => ballot[k].voter \in Voter

(* has_voted goes with the ballots cast. *)
VotedIsCast ==
    \A v \in Voter : registry[v] = "voted" <=> \E k \in Cast : ballot[k].voter = v

(* Two ballots of one voter, cast or not, were on their way at once: no    *)
(* ballot is begun by a voter with one that is cast.                       *)
PairsWereBeside ==
    \A j, k \in Request :
        /\ j # k /\ ballot[j].voter = ballot[k].voter
        /\ ballot[j].phase # "none" /\ ballot[k].phase # "none"
        => {j, k} \in beside

BallotInv == BallotsAreOfVoters /\ VotedIsCast /\ PairsWereBeside

LEMMA BallotInit == Init => BallotInv
<1> SUFFICES ASSUME Init PROVE BallotInv
  OBVIOUS
<1>1. \A k \in Request : ballot[k].phase = "none"
  BY DEF Init, NoBallot
<1>2. Cast = {}
  BY <1>1 DEF Cast
<1>3. \A v \in Voter : registry[v] = "none"
  BY DEF Init
<1> QED
  BY <1>1, <1>2, <1>3 DEF BallotInv, BallotsAreOfVoters, VotedIsCast, PairsWereBeside

LEMMA BallotStep == TypeOK /\ BallotInv /\ [Next]_vars => BallotInv'
<1> SUFFICES ASSUME TypeOK, BallotInv, Steps PROVE BallotInv'
  BY NextSteps
<1>1. ASSUME UNCHANGED urn PROVE BallotInv'
  BY <1>1 DEF urn, BallotInv, BallotsAreOfVoters, VotedIsCast, PairsWereBeside, Cast
<1>2. ASSUME NEW S \in SUBSET Voter, RegisterVoters(S) PROVE BallotInv'
  <2>1. \A v \in Voter : registry'[v] = "voted" <=> registry[v] = "voted"
    BY <1>2 DEF RegisterVoters, TypeOK
  <2>2. UNCHANGED <<ballot, beside>>
    BY <1>2 DEF RegisterVoters
  <2> QED
    BY <2>1, <2>2 DEF BallotInv, BallotsAreOfVoters, VotedIsCast, PairsWereBeside, Cast
<1>3. ASSUME NEW k \in Request, NEW v \in Voter, NEW choices \in Ballots, CastRead(k, v, choices)
      PROVE  BallotInv'
  <2>1. /\ ballot[k].phase = "none" /\ registry[v] = "registered" /\ registry' = registry
        /\ ballot'[k] = [phase |-> "read", voter |-> v, choices |-> choices]
        /\ \A j \in Request \ {k} : ballot'[j] = ballot[j]
        /\ beside' = beside \cup {{j, k} : j \in {i \in OnTheirWay : ballot[i].voter = v}}
    BY <1>3 DEF CastRead, TypeOK
  <2>2. Cast' = Cast
    BY <2>1 DEF Cast
  <2>3. BallotsAreOfVoters'
    BY <2>1 DEF BallotInv, BallotsAreOfVoters
  <2>4. VotedIsCast'
    BY <2>1, <2>2 DEF BallotInv, VotedIsCast, Cast
  <2>5. ASSUME NEW j \in Request \ {k}, ballot[j].phase # "none", ballot[j].voter = v
        PROVE  {j, k} \in beside'
    <3>1. j \notin Cast
      BY <2>1, <2>5 DEF BallotInv, VotedIsCast
    <3>2. ballot[j].phase = "read"
      BY <2>5, <3>1 DEF Cast, TypeOK
    <3>3. j \in {i \in OnTheirWay : ballot[i].voter = v}
      BY <2>5, <3>2 DEF OnTheirWay
    <3> QED
      BY <2>1, <3>3
  <2>6. PairsWereBeside'
    <3>1. SUFFICES ASSUME NEW i \in Request, NEW j \in Request, i # j,
                          ballot'[i].voter = ballot'[j].voter,
                          ballot'[i].phase # "none", ballot'[j].phase # "none"
                   PROVE  {i, j} \in beside'
      BY DEF PairsWereBeside
    <3>2. CASE i # k /\ j # k
      BY <2>1, <3>1, <3>2 DEF BallotInv, PairsWereBeside
    <3>3. CASE i = k
      <4>1. {j, i} \in beside'
        BY <2>1, <2>5, <3>1, <3>3
      <4>2. {i, j} = {j, i}
        OBVIOUS
      <4> QED
        BY <4>1, <4>2
    <3>4. CASE j = k
      BY <2>1, <2>5, <3>1, <3>4
    <3> QED
      BY <3>2, <3>3, <3>4
  <2> QED
    BY <2>3, <2>4, <2>6 DEF BallotInv
<1>4. ASSUME NEW k \in Request, CastCommit(k) PROVE BallotInv'
  <2>1. ballot[k].phase = "read" /\ ballot[k].voter \in Voter /\ beside' = beside
    BY <1>4 DEF CastCommit, BallotInv, BallotsAreOfVoters
  <2>2. ballot'[k].phase = "cast" /\ \A j \in Request : ballot'[j].voter = ballot[j].voter
    BY <1>4 DEF CastCommit, TypeOK
  <2>3. \A j \in Request \ {k} : ballot'[j] = ballot[j]
    BY <1>4 DEF CastCommit, TypeOK
  <2>4. registry'[ballot[k].voter] = "voted"
        /\ \A v \in Voter : v # ballot[k].voter => registry'[v] = registry[v]
    BY <1>4, <2>1 DEF CastCommit, TypeOK
  <2>5. Cast' = Cast \cup {k}
    BY <2>2, <2>3 DEF Cast
  <2>6. VotedIsCast'
    BY <2>1, <2>2, <2>4, <2>5 DEF BallotInv, VotedIsCast, Cast
  <2>7. \A j \in Request : ballot'[j].phase # "none" <=> ballot[j].phase # "none"
    BY <2>1, <2>2, <2>3
  <2> QED
    BY <2>1, <2>2, <2>6, <2>7 DEF BallotInv, BallotsAreOfVoters, PairsWereBeside
<1>5. CASE Steps
  <2>1. ASSUME NEW s \in Status, SetStatus(s) PROVE BallotInv'
    BY <1>1, <2>1 DEF SetStatus
  <2>2. CASE SetRanked
    BY <1>1, <2>2 DEF SetRanked
  <2>3. ASSUME NEW c \in Candidate, SetStanding(c) PROVE BallotInv'
    BY <1>1, <2>3 DEF SetStanding
  <2>4. ASSUME NEW r \in Count, CountRead(r) PROVE BallotInv'
    BY <1>1, <2>4 DEF CountRead
  <2>5. ASSUME NEW r \in Count, CountCommit(r) PROVE BallotInv'
    BY <1>1, <2>5 DEF CountCommit
  <2>6. CASE UNCHANGED vars
    BY <1>1, <2>6 DEF vars
  <2> QED
    BY <1>2, <1>3, <1>4, <2>1, <2>2, <2>3, <2>4, <2>5, <2>6 DEF Steps
<1> QED
  BY <1>5

(* Any number of requests of one voter leave one ballot, and has_voted     *)
(* says so, but for those that were on their way at once.                  *)
THEOREM OneBallot == Spec => []OneBallotUnlessAtOnce
<1>1. Init => TypeOK /\ BallotInv
  BY TypeInit, BallotInit
<1>2. TypeOK /\ BallotInv /\ [Next]_vars => TypeOK' /\ BallotInv'
  BY TypeStep, BallotStep
<1>3. BallotInv => OneBallotUnlessAtOnce
  BY DEF BallotInv, VotedIsCast, PairsWereBeside, OneBallotUnlessAtOnce, Cast
<1> QED
  BY <1>1, <1>2, <1>3, PTL DEF Spec

-----------------------------------------------------------------------------
(* What the results miss. *)

(* While voting is not open, what is on its way was so when it ended. *)
OnTheirWayAreLate == status # "voting_open" => OnTheirWay \subseteq late

(* A snapshot since which voting was not opened again misses late ballots only. *)
MissesLate(of) == ~ of.reopened => status # "voting_open" /\ Cast \ of.counted \subseteq late

CountInv ==
    /\ OnTheirWayAreLate
    /\ MissesLate(results.of)
    /\ \A r \in Count : MissesLate(count[r].of)

LEMMA CountInit == Init => CountInv
BY DEF Init, CountInv, OnTheirWayAreLate, MissesLate, OnTheirWay, NoBallot, NoCount, NoResults, NoSnapshot

LEMMA CountStep == TypeOK /\ CountInv /\ [Next]_vars => CountInv'
<1> SUFFICES ASSUME TypeOK, CountInv, Steps PROVE CountInv'
  BY NextSteps
<1>1. ASSUME UNCHANGED <<status, ballot, count, results, late>> PROVE CountInv'
  BY <1>1 DEF CountInv, OnTheirWayAreLate, MissesLate, OnTheirWay, Cast
<1>2. ASSUME NEW s \in Status, SetStatus(s) PROVE CountInv'
  <2>1. status' = s /\ s # status /\ ballot' = ballot
    BY <1>2 DEF SetStatus, urn
  <2>2. CASE s = "voting_open"
    <3>1. \A r \in Count : count'[r].of.reopened
      BY <1>2, <2>2 DEF SetStatus, TypeOK, Snapshot
    <3>2. results'.of.reopened
      BY <1>2, <2>2 DEF SetStatus, TypeOK, Snapshot
    <3> QED
      BY <2>1, <2>2, <3>1, <3>2 DEF CountInv, OnTheirWayAreLate, MissesLate
  <2>3. CASE s # "voting_open" /\ status = "voting_open"
    BY <1>2, <2>1, <2>3 DEF SetStatus, CountInv, OnTheirWayAreLate, MissesLate, OnTheirWay
  <2>4. CASE s # "voting_open" /\ status # "voting_open"
    BY <1>2, <2>1, <2>4 DEF SetStatus, CountInv, OnTheirWayAreLate, MissesLate, OnTheirWay, Cast
  <2> QED
    BY <2>2, <2>3, <2>4
<1>3. ASSUME NEW k \in Request, NEW v \in Voter, NEW choices \in Ballots, CastRead(k, v, choices)
      PROVE  CountInv'
  BY <1>3 DEF CastRead, CountInv, OnTheirWayAreLate, MissesLate
<1>4. ASSUME NEW k \in Request, CastCommit(k) PROVE CountInv'
  <2>1. k \in OnTheirWay /\ UNCHANGED <<status, count, results, late>>
    BY <1>4 DEF CastCommit, OnTheirWay
  <2>2. OnTheirWay' \subseteq OnTheirWay /\ Cast' = Cast \cup {k}
    BY <1>4 DEF CastCommit, TypeOK, OnTheirWay, Cast
  <2> QED
    BY <2>1, <2>2 DEF CountInv, OnTheirWayAreLate, MissesLate
<1>5. ASSUME NEW r \in Count, CountRead(r) PROVE CountInv'
  <2>1. /\ status \in {"voting_closed", "results_announced"} /\ count'[r].of = Now
        /\ \A q \in Count \ {r} : count'[q] = count[q]
        /\ UNCHANGED <<status, ballot, results, late>>
    BY <1>5 DEF CountRead, TypeOK, urn
  <2>2. Now.counted = Cast /\ Cast' = Cast /\ OnTheirWay' = OnTheirWay
    BY <2>1 DEF Now, Cast, OnTheirWay
  <2> QED
    BY <2>1, <2>2 DEF CountInv, OnTheirWayAreLate, MissesLate
<1>6. ASSUME NEW r \in Count, CountCommit(r) PROVE CountInv'
  <2>1. results'.of = count[r].of
    BY <1>6 DEF CountCommit
  <2>2. /\ count'[r].of.reopened /\ \A q \in Count \ {r} : count'[q] = count[q]
        /\ ballot' = ballot
    BY <1>6 DEF CountCommit, TypeOK, NoCount, NoSnapshot, urn
  <2>3. Cast' = Cast /\ OnTheirWay' = OnTheirWay
    BY <2>2 DEF Cast, OnTheirWay
  <2>4. CASE status = "voting_open"
    BY <1>6, <2>1, <2>2, <2>3, <2>4 DEF CountCommit, CountInv, OnTheirWayAreLate, MissesLate
  <2>5. CASE status # "voting_open"
    <3>1. status' # "voting_open" /\ late' = late
      BY <1>6, <2>5 DEF CountCommit
    <3> QED
      BY <2>1, <2>2, <2>3, <2>5, <3>1 DEF CountInv, OnTheirWayAreLate, MissesLate
  <2> QED
    BY <2>4, <2>5
<1>7. CASE Steps
  <2>1. CASE SetRanked
    BY <1>1, <2>1 DEF SetRanked, urn
  <2>2. ASSUME NEW c \in Candidate, SetStanding(c) PROVE CountInv'
    BY <1>1, <2>2 DEF SetStanding, urn
  <2>3. ASSUME NEW S \in SUBSET Voter, RegisterVoters(S) PROVE CountInv'
    BY <1>1, <2>3 DEF RegisterVoters
  <2>4. CASE UNCHANGED vars
    BY <1>1, <2>4 DEF vars, urn
  <2> QED
    BY <1>2, <1>3, <1>4, <1>5, <1>6, <2>1, <2>2, <2>3, <2>4 DEF Steps
<1> QED
  BY <1>7

(* However counts overlap, the results leave out only the ballots that     *)
(* were on their way when voting ended, until voting is opened again.      *)
THEOREM ResultsMissOnlyLate == Spec => []MissedOnlyLate
<1>1. Init => TypeOK /\ CountInv
  BY TypeInit, CountInit
<1>2. TypeOK /\ CountInv /\ [Next]_vars => TypeOK' /\ CountInv'
  BY TypeStep, CountStep
<1>3. CountInv => MissedOnlyLate
  BY DEF CountInv, MissesLate, MissedOnlyLate
<1> QED
  BY <1>1, <1>2, <1>3, PTL DEF Spec

-----------------------------------------------------------------------------
(* Who is ahead. *)

(* On every counted ballot that has d, c comes before it. *)
ComesFirst(of, c, d) ==
    \A k \in of.counted : \A n \in DOMAIN ballot[k].choices :
        ballot[k].choices[n] = d => \E m \in 1..(n - 1) : ballot[k].choices[m] = c

(* The counted ballots that have c at place i. *)
Placing(of, c, i) ==
    {k \in of.counted : i \in DOMAIN ballot[k].choices /\ ballot[k].choices[i] = c}

LEMMA PlacingsAreFinite ==
  ASSUME NEW of \in Snapshot
  PROVE  \A c, i : /\ IsFiniteSet(Placing(of, c, i))
                   /\ Times(of, c, i) = Cardinality(Placing(of, c, i))
                   /\ Times(of, c, i) \in Nat
<1> SUFFICES ASSUME NEW c, NEW i
             PROVE  /\ IsFiniteSet(Placing(of, c, i))
                    /\ Times(of, c, i) = Cardinality(Placing(of, c, i))
                    /\ Times(of, c, i) \in Nat
  OBVIOUS
<1>1. Placing(of, c, i) \subseteq Request
  BY DEF Placing, Snapshot
<1>2. IsFiniteSet(Placing(of, c, i))
  BY <1>1, FinitelyMany, FS_Subset
<1> QED
  BY <1>2, FS_CardinalityType DEF Placing, Times

(* Who comes first on the ballots is placed at least as well, and strictly *)
(* better if placed at all.                                                *)
LEMMA FirstIsPlaced ==
  ASSUME TypeOK, NEW of \in Snapshot, NEW c, NEW d, ComesFirst(of, c, d)
  PROVE  /\ Times(of, d, 1) = 0
         /\ Times(of, d, 2) <= Times(of, c, 1)
         /\ Times(of, d, 3) <= Times(of, c, 1) + Times(of, c, 2)
<1>1. ASSUME NEW i \in 1..3, NEW k \in Placing(of, d, i)
      PROVE  \E m \in 1..(i - 1) : k \in Placing(of, c, m)
  <2>1. k \in of.counted /\ i \in DOMAIN ballot[k].choices /\ ballot[k].choices[i] = d
    BY DEF Placing
  <2>2. PICK m \in 1..(i - 1) : ballot[k].choices[m] = c
    BY <2>1 DEF ComesFirst
  <2>3. ballot[k].choices \in Seq(Candidate)
    <3>1. k \in Request
      BY <2>1 DEF Snapshot
    <3>2. ballot[k].choices \in Ballots \cup {<<>>}
      BY <3>1 DEF TypeOK
    <3>3. <<>> \in Seq(Candidate)
      OBVIOUS
    <3> QED
      BY <3>2, <3>3, BallotsAreLists
  <2>4. m \in DOMAIN ballot[k].choices
    BY <2>1, <2>3
  <2> QED
    BY <2>1, <2>2, <2>4 DEF Placing
<1>2. Placing(of, d, 1) = {}
  BY <1>1
<1>3. Placing(of, d, 2) \subseteq Placing(of, c, 1)
  BY <1>1
<1>4. Placing(of, d, 3) \subseteq Placing(of, c, 1) \cup Placing(of, c, 2)
  <2>1. ASSUME NEW k \in Placing(of, d, 3)
        PROVE  k \in Placing(of, c, 1) \cup Placing(of, c, 2)
    <3>1. PICK m \in 1..(3 - 1) : k \in Placing(of, c, m)
      BY <1>1
    <3>2. m = 1 \/ m = 2
      OBVIOUS
    <3> QED
      BY <3>1, <3>2
  <2> QED
    BY <2>1
<1>5. Times(of, d, 1) = 0
  BY <1>2, PlacingsAreFinite, FS_EmptySet
<1>6. Times(of, d, 2) <= Times(of, c, 1)
  BY <1>3, PlacingsAreFinite, FS_Subset
<1>7. Times(of, d, 3) <= Times(of, c, 1) + Times(of, c, 2)
  <2> DEFINE A == Placing(of, c, 1)
             B == Placing(of, c, 2)
  <2>1. IsFiniteSet(A) /\ IsFiniteSet(B) /\ Cardinality(A) \in Nat /\ Cardinality(B) \in Nat
    BY PlacingsAreFinite
  <2>2. IsFiniteSet(A \cap B) /\ Cardinality(A \cap B) \in Nat
    BY <2>1, FS_Intersection, FS_CardinalityType
  <2>3. /\ IsFiniteSet(A \cup B)
        /\ Cardinality(A \cup B) = Cardinality(A) + Cardinality(B) - Cardinality(A \cap B)
    BY <2>1, FS_Union
  <2>4. Cardinality(Placing(of, d, 3)) <= Cardinality(A \cup B)
    BY <1>4, <2>3, FS_Subset
  <2>5. Cardinality(A \cup B) \in Nat /\ Cardinality(Placing(of, d, 3)) \in Nat
    BY <2>3, PlacingsAreFinite, FS_CardinalityType
  <2>6. Cardinality(A) = Times(of, c, 1) /\ Cardinality(B) = Times(of, c, 2)
        /\ Cardinality(Placing(of, d, 3)) = Times(of, d, 3)
    BY PlacingsAreFinite
  <2> HIDE DEF A, B
  <2> QED
    BY <2>1, <2>2, <2>3, <2>4, <2>5, <2>6
<1> QED
  BY <1>5, <1>6, <1>7

LEMMA NamedIsPlaced ==
  ASSUME NEW of \in Snapshot, TypeOK, NEW c, NEW k \in of.counted,
         NEW n \in DOMAIN ballot[k].choices, n <= 3, ballot[k].choices[n] = c
  PROVE  Times(of, c, 1) + Times(of, c, 2) + Times(of, c, 3) > 0
<1>1. n \in 1..3
  <2>1. ballot[k].choices \in Seq(Candidate)
    <3>1. ballot[k].choices \in Ballots \cup {<<>>}
      BY DEF TypeOK, Snapshot
    <3>2. <<>> \in Seq(Candidate)
      OBVIOUS
    <3> QED
      BY <3>1, <3>2, BallotsAreLists
  <2> QED
    BY <2>1
<1>2. k \in Placing(of, c, n)
  BY DEF Placing
<1>3. Times(of, c, n) > 0
  BY <1>2, PlacingsAreFinite, FS_EmptySet
<1>4. Times(of, c, 1) \in Nat /\ Times(of, c, 2) \in Nat /\ Times(of, c, 3) \in Nat
  BY PlacingsAreFinite
<1>5. n = 1 \/ n = 2 \/ n = 3
  BY <1>1
<1> QED
  BY <1>3, <1>4, <1>5

(* So who comes last cannot be ahead. *)
LEMMA FavouriteWins ==
  ASSUME TypeOK, NEW of \in Snapshot, of.ranked, NEW o \in Orders(of), NEW i \in DOMAIN o, NEW j \in DOMAIN o,
         ComesFirst(of, o[i], o[j]),
         NEW k \in of.counted, NEW n \in DOMAIN ballot[k].choices, n <= 3,
         ballot[k].choices[n] = o[i]
  PROVE  i < j
<1> DEFINE c == o[i]
           d == o[j]
<1>1. i \in Nat /\ j \in Nat
  <2>1. o \in Seq(Candidate)
    BY OrdersType
  <2> QED
    BY <2>1
<1>2. /\ Times(of, c, 1) \in Nat /\ Times(of, c, 2) \in Nat /\ Times(of, c, 3) \in Nat
      /\ Times(of, d, 1) \in Nat /\ Times(of, d, 2) \in Nat /\ Times(of, d, 3) \in Nat
  BY PlacingsAreFinite
<1>3. /\ Times(of, d, 1) = 0
      /\ Times(of, d, 2) <= Times(of, c, 1)
      /\ Times(of, d, 3) <= Times(of, c, 1) + Times(of, c, 2)
  BY FirstIsPlaced
<1>4. Times(of, c, 1) + Times(of, c, 2) + Times(of, c, 3) > 0
  BY NamedIsPlaced
<1>5. j < i => Ahead(of, d, c)
  BY <1>1 DEF Orders
<1> HIDE DEF c, d
<1>6. ~Ahead(of, d, c)
  BY <1>2, <1>3, <1>4 DEF Ahead, Points
<1>7. i # j
  BY <1>2, <1>3, <1>4 DEF c, d
<1> QED
  BY <1>1, <1>5, <1>6, <1>7

-----------------------------------------------------------------------------
(* What was counted was cast, and a ballot that is cast never changes. *)
CountedIsCast ==
    /\ results.of.counted \subseteq Cast
    /\ \A r \in Count : count[r].of.counted \subseteq Cast

FavouriteInv == CountedIsCast /\ FavouriteIsAhead

LEMMA FavouriteInit == Init => FavouriteInv
BY DEF Init, FavouriteInv, CountedIsCast, FavouriteIsAhead, NoResults, NoCount, NoSnapshot

(* While the results stay, or only voting is opened again. *)
LEMMA FavouriteStays ==
  ASSUME FavouriteInv,
         \A k \in Cast : k \in Cast' /\ ballot'[k].choices = ballot[k].choices,
         /\ results'.of.counted = results.of.counted /\ results'.of.ranked = results.of.ranked
         /\ results'.order = results.order,
         \A r \in Count : count'[r].of.counted \subseteq count[r].of.counted \cup Cast
  PROVE  FavouriteInv'
<1>1. CountedIsCast'
  BY DEF FavouriteInv, CountedIsCast
<1>2. \A k \in results.of.counted : ballot'[k].choices = ballot[k].choices
  BY DEF FavouriteInv, CountedIsCast
<1>3. FavouriteIsAhead'
  BY <1>2 DEF FavouriteInv, FavouriteIsAhead
<1> QED
  BY <1>1, <1>3 DEF FavouriteInv

LEMMA FavouriteStep == TypeOK /\ FavouriteInv /\ [Next]_vars => FavouriteInv'
<1> SUFFICES ASSUME TypeOK, FavouriteInv, Steps PROVE FavouriteInv'
  BY NextSteps
<1>1. ASSUME UNCHANGED <<ballot, count, results>> PROVE FavouriteInv'
  BY <1>1, FavouriteStays DEF Cast
<1>2. ASSUME NEW s \in Status, SetStatus(s) PROVE FavouriteInv'
  <2>1. ballot' = ballot /\ Cast' = Cast
    BY <1>2 DEF SetStatus, urn, Cast
  <2>2. CASE s = "voting_open"
    <3>1. \A r \in Count : count'[r].of.counted = count[r].of.counted
      BY <1>2, <2>2 DEF SetStatus, TypeOK, Snapshot
    <3>2. /\ results'.of.counted = results.of.counted /\ results'.of.ranked = results.of.ranked
          /\ results'.order = results.order
      BY <1>2, <2>2 DEF SetStatus, TypeOK, Snapshot
    <3> QED
      BY <2>1, <3>1, <3>2, FavouriteStays
  <2>3. CASE s # "voting_open"
    BY <1>1, <1>2, <2>1, <2>3 DEF SetStatus
  <2> QED
    BY <2>2, <2>3
<1>3. ASSUME NEW k \in Request, NEW v \in Voter, NEW choices \in Ballots, CastRead(k, v, choices)
      PROVE  FavouriteInv'
  <2>1. k \notin Cast /\ \A j \in Request \ {k} : ballot'[j] = ballot[j]
    BY <1>3 DEF CastRead, Cast, TypeOK
  <2>2. \A j \in Cast : j \in Cast' /\ ballot'[j].choices = ballot[j].choices
    BY <2>1 DEF Cast
  <2> QED
    BY <1>3, <2>2, FavouriteStays DEF CastRead
<1>4. ASSUME NEW k \in Request, CastCommit(k) PROVE FavouriteInv'
  <2>1. \A j \in Request : ballot'[j].choices = ballot[j].choices
    BY <1>4 DEF CastCommit, TypeOK
  <2>2. \A j \in Cast : j \in Cast'
    BY <1>4 DEF CastCommit, TypeOK, Cast
  <2>3. Cast \subseteq Request
    BY DEF Cast
  <2> QED
    BY <1>4, <2>1, <2>2, <2>3, FavouriteStays DEF CastCommit
<1>5. ASSUME NEW r \in Count, CountRead(r) PROVE FavouriteInv'
  <2>1. ballot' = ballot /\ results' = results /\ Cast' = Cast
    BY <1>5 DEF CountRead, urn, Cast
  <2>2. \A q \in Count : count'[q].of.counted \subseteq count[q].of.counted \cup Cast
    BY <1>5 DEF CountRead, TypeOK, Now
  <2> QED
    BY <2>1, <2>2, FavouriteStays
<1>6. ASSUME NEW r \in Count, CountCommit(r) PROVE FavouriteInv'
  <2>1. ballot' = ballot /\ Cast' = Cast
    BY <1>6 DEF CountCommit, urn, Cast
  <2>2. PICK o \in Orders(count[r].of) : results' = [of |-> count[r].of, order |-> o]
    BY <1>6 DEF CountCommit
  <2>4. count[r].of \in Snapshot
    BY DEF TypeOK
  <2>5. CountedIsCast'
    <3>1. \A q \in Count : count'[q].of.counted \subseteq count[q].of.counted
      BY <1>6 DEF CountCommit, TypeOK, NoCount, NoSnapshot
    <3> QED
      BY <2>1, <2>2, <3>1 DEF FavouriteInv, CountedIsCast
  <2>6. ASSUME count[r].of.ranked, NEW i \in DOMAIN o, NEW j \in DOMAIN o,
               ComesFirst(count[r].of, o[i], o[j]),
               NEW k \in count[r].of.counted, NEW n \in DOMAIN ballot[k].choices,
               n <= 3, ballot[k].choices[n] = o[i]
        PROVE  i < j
    BY <2>4, <2>6, FavouriteWins
  <2>7. FavouriteIsAhead'
    <3>1. results'.of = count[r].of /\ results'.order = o
      BY <2>2
    <3> SUFFICES ASSUME count[r].of.ranked, NEW i \in DOMAIN o, NEW j \in DOMAIN o,
                        \A q \in count[r].of.counted : \A n \in DOMAIN ballot[q].choices :
                           ballot[q].choices[n] = o[j] =>
                              \E p \in 1..(n - 1) : ballot[q].choices[p] = o[i],
                        NEW k \in count[r].of.counted, NEW m \in DOMAIN ballot[k].choices,
                        m <= 3, ballot[k].choices[m] = o[i]
                 PROVE  i < j
      BY <2>1, <3>1 DEF FavouriteIsAhead
    <3>2. ComesFirst(count[r].of, o[i], o[j])
      BY DEF ComesFirst
    <3> QED
      BY <2>6, <3>2
  <2> QED
    BY <2>5, <2>7 DEF FavouriteInv
<1> QED
  <2>1. CASE SetRanked
    BY <1>1, <2>1 DEF SetRanked, urn
  <2>2. ASSUME NEW c \in Candidate, SetStanding(c) PROVE FavouriteInv'
    BY <1>1, <2>2 DEF SetStanding, urn
  <2>3. ASSUME NEW S \in SUBSET Voter, RegisterVoters(S) PROVE FavouriteInv'
    BY <1>1, <2>3 DEF RegisterVoters
  <2>4. CASE UNCHANGED vars
    BY <1>1, <2>4 DEF vars, urn
  <2> QED
    BY <1>2, <1>3, <1>4, <1>5, <1>6, <2>1, <2>2, <2>3, <2>4 DEF Steps

(* However many ballots a voter has, whatever they name twice and whoever  *)
(* has withdrawn: a candidate who comes before another on every ballot     *)
(* that has the other, and is among the first three of some ballot, comes  *)
(* before the other in the results.                                        *)
THEOREM FavouritesAreAhead == Spec => []FavouriteIsAhead
<1>1. Init => TypeOK /\ FavouriteInv
  BY TypeInit, FavouriteInit
<1>2. TypeOK /\ FavouriteInv /\ [Next]_vars => TypeOK' /\ FavouriteInv'
  BY TypeStep, FavouriteStep
<1>3. FavouriteInv => FavouriteIsAhead
  BY DEF FavouriteInv
<1> QED
  BY <1>1, <1>2, <1>3, PTL DEF Spec

===============================================================================
