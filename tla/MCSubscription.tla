--------------------------- MODULE MCSubscription ---------------------------
(* Instances of Subscription for TLC: every subscription is of its own     *)
(* institution.                                                            *)
EXTENDS Subscription, TLC

Symmetry == Permutations(Request) \cup Permutations(Sub)

OneEach == [s \in Sub |-> s]

AllKinds == {"create", "cancelNow", "cancelEnd", "update", "renew", "invoice",
             "markPaid", "pay", "failed", "captured"}

(* Enough of them to write every column the scheduler goes by. *)
RowKinds == AllKinds \ {"invoice", "markPaid", "captured", "cancelEnd"}
=============================================================================
