---------------------------- MODULE MCWebSession ----------------------------
(* Instances of WebSession for TLC. *)
EXTENDS WebSession, TLC

Symmetry == Permutations(Tab) \cup Permutations(Api) \cup Permutations(HookRun)
=============================================================================
