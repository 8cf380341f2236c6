------------------------------- MODULE Election -------------------------------
(***************************************************************************)
(* School elections (api/v1/elections.py): one election from the campaign  *)
(* on, with nominated candidates.  Every handler is one transaction on a   *)
(* snapshot that it takes when it starts and that is old when it commits:  *)
(* the server runs four workers.  Nothing is locked but the rows written.  *)
(* A handler that fails is one that never commits.                         *)
(***************************************************************************)
EXTENDS Integers, FiniteSets, Sequences, SequencesExt

CONSTANTS
    Voter, Candidate,
    Request,     \* calls of cast_vote and cast_ranked_choice_vote
    Count,       \* calls of calculate_results
    Ballots,     \* the lists of candidates that a ballot may hold
    NoVoter,
    MaxChanges   \* how often ranking or a candidate is changed

ASSUME FinitelyMany == IsFiniteSet(Request) /\ IsFiniteSet(Candidate)
ASSUME BallotsAreLists == Ballots \subseteq Seq(Candidate) /\ \A l \in Ballots : Len(l) > 0
ASSUME NoVoterDiffers == NoVoter \notin Voter
ASSUME ChangesAreCounted == MaxChanges \in Nat

VARIABLES
    status,      \* election_status; "other" for those that allow neither votes nor counts
    ranked,      \* enable_ranked_choice
    standing,    \* the approved candidates
    registry,    \* voter_registry: a row, and has_voted
    ballot,      \* of each request: its rows of votes, by rank
    count,       \* of each calculation: what it has read
    results,     \* the rows of election_results, as what they were counted from
    beside,      \* history: pairs of ballots of one voter that were on their way at once
    changes,     \* counts the bounded changes
    late         \* history: the ballots that were on their way when voting last ended

urn == <<registry, ballot, beside>>
vars == <<status, ranked, standing, count, results, changes, late, urn>>

NoBallot == [phase |-> "none", voter |-> NoVoter, choices |-> <<>>]
NoSnapshot == [counted |-> {}, standing |-> {}, ranked |-> FALSE, reopened |-> TRUE]
NoCount == [phase |-> "none", loaded |-> "other", of |-> NoSnapshot]
NoResults == [of |-> NoSnapshot, order |-> <<>>]

Init ==
    /\ status = "other" /\ ranked \in BOOLEAN /\ standing \in SUBSET Candidate
    /\ registry = [v \in Voter |-> "none"]
    /\ ballot = [k \in Request |-> NoBallot]
    /\ count = [r \in Count |-> NoCount]
    /\ results = NoResults
    /\ beside = {} /\ changes = 0 /\ late = {}

OnTheirWay == {k \in Request : ballot[k].phase = "read"}
Cast       == {k \in Request : ballot[k].phase = "cast"}

-----------------------------------------------------------------------------
(* The administration. *)

(* update_election: any status follows any other. *)
SetStatus(s) ==
    /\ s # status
    /\ status' = s
    /\ IF s = "voting_open"
       THEN /\ count' = [r \in Count |-> [count[r] EXCEPT !.of.reopened = TRUE]]
            /\ results' = [results EXCEPT !.of.reopened = TRUE]
            /\ late' = {}
       ELSE /\ late' = IF status = "voting_open" THEN OnTheirWay ELSE late
            /\ UNCHANGED <<count, results>>
    /\ UNCHANGED <<ranked, standing, changes, urn>>

SetRanked ==
    /\ ranked' = ~ranked
    /\ changes < MaxChanges /\ changes' = changes + 1
    /\ UNCHANGED <<status, standing, count, results, late, urn>>

(* approve_candidate, update_candidate: at any time, in both directions. *)
SetStanding(c) ==
    /\ standing' = IF c \in standing THEN standing \ {c} ELSE standing \cup {c}
    /\ changes < MaxChanges /\ changes' = changes + 1
    /\ UNCHANGED <<status, ranked, count, results, late, urn>>

(* register_voters adds the active students S that are missing. *)
RegisterVoters(S) ==
    /\ registry' = [v \in Voter |->
          IF v \in S /\ registry[v] = "none" THEN "registered" ELSE registry[v]]
    /\ UNCHANGED <<status, ranked, standing, ballot, count, results, beside, changes, late>>

-----------------------------------------------------------------------------
(* Voting. *)

(* Mutant: nothing asks whether the voter has voted. *)
CastReadsAgain(k, v, choices) ==
    /\ ballot[k].phase = "none"
    /\ status = "voting_open" /\ registry[v] # "none"
    /\ Len(choices) > 1 => ranked
    /\ \A i \in DOMAIN choices : choices[i] \in standing
    /\ ballot' = [ballot EXCEPT ![k] = [phase |-> "read", voter |-> v, choices |-> choices]]
    /\ beside' = beside \cup {{j, k} : j \in {i \in OnTheirWay : ballot[i].voter = v}}
    /\ UNCHANGED <<status, ranked, standing, registry, count, results, changes, late>>

(* The checks of cast_vote, for one choice, and of cast_ranked_choice_vote,*)
(* where a list may name a candidate twice.  The voter_hash of the rows is *)
(* salted anew for each request, so a request is what the votes are        *)
(* grouped by: a second ballot of a voter is a list of its own, and the    *)
(* rank that cast_vote takes from its client has nothing to be compared to.*)
CastRead(k, v, choices) ==
    /\ ballot[k].phase = "none"
    /\ status = "voting_open" /\ registry[v] = "registered"
    /\ Len(choices) > 1 => ranked
    /\ \A i \in DOMAIN choices : choices[i] \in standing
    /\ ballot' = [ballot EXCEPT ![k] = [phase |-> "read", voter |-> v, choices |-> choices]]
    /\ beside' = beside \cup {{j, k} : j \in {i \in OnTheirWay : ballot[i].voter = v}}
    /\ UNCHANGED <<status, ranked, standing, registry, count, results, changes, late>>

(* The votes and has_voted are committed together. *)
CastCommit(k) ==
    /\ ballot[k].phase = "read"
    /\ ballot' = [ballot EXCEPT ![k].phase = "cast"]
    /\ registry' = [registry EXCEPT ![ballot[k].voter] = "voted"]
    /\ UNCHANGED <<status, ranked, standing, count, results, beside, changes, late>>

-----------------------------------------------------------------------------
(* Counting.  of is the snapshot that the results come from.               *)

Now == [counted |-> Cast, standing |-> standing, ranked |-> ranked, reopened |-> FALSE]

(* votes_by_voter: the ballots that have c at place i of their list.       *)
Times(of, c, i) ==
    Cardinality({k \in of.counted : i \in DOMAIN ballot[k].choices /\ ballot[k].choices[i] = c})

(* calculate_ranked_choice_results: three points, two, one, and none below.*)
(* A candidate who is not standing keeps the place, and nobody has the     *)
(* points.                                                                 *)
Points(of, c) == 3 * Times(of, c, 1) + 2 * Times(of, c, 2) + Times(of, c, 3)

(* Without ranking, every row of votes counts, those of ranked ballots too. *)
Votes(of, c) ==
    Cardinality({p \in of.counted \X (1..10) :
        p[2] \in DOMAIN ballot[p[1]].choices /\ ballot[p[1]].choices[p[2]] = c})

(* Mutant: sorted by points alone. *)
AheadByPoints(of, c, d) ==
    IF of.ranked THEN Points(of, c) >= Points(of, d) ELSE Votes(of, c) >= Votes(of, d)

Ahead(of, c, d) ==
    IF of.ranked
    THEN \/ Points(of, c) > Points(of, d)
         \/ Points(of, c) = Points(of, d) /\ Times(of, c, 1) >= Times(of, d, 1)
    ELSE Votes(of, c) >= Votes(of, d)

(* The orders the sort may leave: the database returns equals in any. *)
Orders(of) ==
    {o \in SetToSeqs(of.standing) : \A i, j \in DOMAIN o : i < j => Ahead(of, o[i], o[j])}

(* Mutant: voting need not be over. *)
CountReadsEarly(r) ==
    /\ count[r].phase = "none" /\ status # "other"
    /\ count' = [count EXCEPT ![r] = [phase |-> "read", loaded |-> status, of |-> Now]]
    /\ UNCHANGED <<status, ranked, standing, results, changes, late, urn>>

CountRead(r) ==
    /\ count[r].phase = "none" /\ status \in {"voting_closed", "results_announced"}
    /\ count' = [count EXCEPT ![r] = [phase |-> "read", loaded |-> status, of |-> Now]]
    /\ UNCHANGED <<status, ranked, standing, results, changes, late, urn>>

(* Mutant: the election is marked published. *)
CountMarksPublished(r) ==
    /\ count[r].phase = "read"
    /\ \E o \in Orders(count[r].of) : results' = [of |-> count[r].of, order |-> o]
    /\ count' = [count EXCEPT ![r] = NoCount]
    /\ status' = "published"
    /\ UNCHANGED <<ranked, standing, changes, late, urn>>

(* The results there are go, whoever counted them, and the new ones come.  *)
(* The status is written if it is not the one that was loaded.             *)
CountCommit(r) ==
    /\ count[r].phase = "read"
    /\ \E o \in Orders(count[r].of) : results' = [of |-> count[r].of, order |-> o]
    /\ count' = [count EXCEPT ![r] = NoCount]
    /\ status' = IF count[r].loaded = "results_announced" THEN status ELSE "results_announced"
    /\ late' = IF status = "voting_open" /\ status' # status THEN OnTheirWay ELSE late
    /\ UNCHANGED <<ranked, standing, changes, urn>>

-----------------------------------------------------------------------------
Status == {"other", "voting_open", "voting_closed", "results_announced"}

Admin == \/ \E s \in Status : SetStatus(s)
         \/ SetRanked
         \/ \E c \in Candidate : SetStanding(c)
         \/ \E S \in SUBSET Voter : RegisterVoters(S)
Vote(k) == \/ \E v \in Voter, choices \in Ballots : CastRead(k, v, choices)
           \/ CastCommit(k)

Next == \/ Admin
        \/ \E k \in Request : Vote(k)
        \/ \E r \in Count : CountRead(r) \/ CountCommit(r)

Spec == Init /\ [][Next]_vars

-----------------------------------------------------------------------------
(* Properties. *)

Snapshot == [counted : SUBSET Request, standing : SUBSET Candidate, ranked : BOOLEAN,
             reopened : BOOLEAN]

(* The state has the shape of the tables and of the handlers. *)
TypeOK ==
    /\ status \in Status /\ ranked \in BOOLEAN /\ standing \in SUBSET Candidate
    /\ registry \in [Voter -> {"none", "registered", "voted"}]
    /\ ballot \in [Request -> [phase : {"none", "read", "cast"}, voter : Voter \cup {NoVoter},
                               choices : Ballots \cup {<<>>}]]
    /\ count \in [Count -> [phase : {"none", "read"}, loaded : Status, of : Snapshot]]
    /\ results \in [of : Snapshot, order : Seq(Candidate)]
    /\ Range(results.order) \subseteq results.of.standing
    /\ beside \in SUBSET SUBSET Request
    /\ changes \in 0..MaxChanges
    /\ late \in SUBSET Request

(* has_voted is set exactly for those who have cast a ballot, so that the  *)
(* turnout is the number of those; and a voter has two ballots only if     *)
(* both were on their way at once: has_voted is checked on a snapshot and  *)
(* no constraint keeps the second one out.                                 *)
OneBallotUnlessAtOnce ==
    /\ \A v \in Voter : registry[v] = "voted" <=> \E k \in Cast : ballot[k].voter = v
    /\ \A j, k \in Cast : j # k /\ ballot[j].voter = ballot[k].voter => {j, k} \in beside

(* Unless voting was opened again since they were counted, the published   *)
(* results leave out no ballot but those that were on their way when it    *)
(* ended: these are stored, reported as cast, and may miss the count.  Nor *)
(* does an older count that commits after a newer one leave out others.    *)
MissedOnlyLate ==
    ~ results.of.reopened => Cast \ results.of.counted \subseteq late

(* Ranked choice: a candidate who comes before another on every ballot     *)
(* that has the other, and is among the first three of some ballot, comes  *)
(* before the other in the results, though a ballot may name the other     *)
(* twice, a voter have two ballots, and others have withdrawn.             *)
FavouriteIsAhead ==
    results.of.ranked =>
        \A i, j \in DOMAIN results.order :
           /\ \A k \in results.of.counted : \A n \in DOMAIN ballot[k].choices :
                 ballot[k].choices[n] = results.order[j] =>
                    \E m \in 1..(n - 1) : ballot[k].choices[m] = results.order[i]
           /\ \E k \in results.of.counted : \E m \in DOMAIN ballot[k].choices :
                 m <= 3 /\ ballot[k].choices[m] = results.order[i]
           => i < j

=============================================================================
