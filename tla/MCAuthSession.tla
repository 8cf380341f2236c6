--------------------------- MODULE MCAuthSession ---------------------------
(***************************************************************************)
(* AuthSession on a small number of requests.                              *)
(***************************************************************************)
EXTENDS AuthSession, TLC

(* The requests differ in nothing but their name. *)
Symmetry == Permutations(Request)
=============================================================================
