----------------------------- MODULE MCElection -----------------------------
(* Two candidates, two voters and lists with which a candidate is ranked   *)
(* first, second, or twice.                                                *)
EXTENDS Election, TLC

CONSTANTS ada, ben

MCCandidate == {ada, ben}
MCBallots == {<<ben>>, <<ada, ben, ben>>}

Symmetry == Permutations(Voter) \cup Permutations(Request) \cup Permutations(Count)
=============================================================================
