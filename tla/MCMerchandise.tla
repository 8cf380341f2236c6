---------------------------- MODULE MCMerchandise ----------------------------
(* Two orders that compete for the stock, and two submissions.  The orders  *)
(* are interchangeable, and so are the submissions.                         *)
EXTENDS Merchandise, TLC

Symmetry == Permutations(Order) \cup Permutations(Submission)

=============================================================================
