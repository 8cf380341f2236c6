----------------------------- MODULE TokenLife -----------------------------
(***************************************************************************)
(* What a store of bearer tokens promises, with nothing said about how it  *)
(* is kept: a token is fresh until it is issued, live until it is revoked  *)
(* or expires, and then dead for ever.  A token whose request failed may   *)
(* die without ever having been live.  AuthSession.tla is shown to         *)
(* implement this specification twice, for the keys "session:*" and for    *)
(* the keys "refresh:*".                                                   *)
(***************************************************************************)
CONSTANT Token

VARIABLE life          \* life[t]: where token t stands

Stage == {"fresh", "live", "dead"}

Init == life = [t \in Token |-> "fresh"]

(* One token enters the store. *)
Issue(t) ==
    /\ life[t] = "fresh"
    /\ life' = [life EXCEPT ![t] = "live"]

(* Any number of live tokens leave it: a logout, a batch of a mass logout, *)
(* an expiry.                                                              *)
Revoke(S) ==
    /\ \A t \in S : life[t] = "live"
    /\ life' = [t \in Token |-> IF t \in S THEN "dead" ELSE life[t]]

(* A token that was made but never stored. *)
Void(t) ==
    /\ life[t] = "fresh"
    /\ life' = [life EXCEPT ![t] = "dead"]

Next ==
    \/ \E t \in Token : Issue(t) \/ Void(t)
    \/ \E S \in SUBSET Token : Revoke(S)

Spec == Init /\ [][Next]_life

=============================================================================
