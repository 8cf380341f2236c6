---------------------------- MODULE MCRealtimeHub ----------------------------
(* Two users, one of them with two sockets, and one handler that notifies. *)
EXTENDS RealtimeHub, TLC

CONSTANTS alice, bob, alice1, alice2, bob1

MCOwner == (alice1 :> alice) @@ (alice2 :> alice) @@ (bob1 :> bob)

=============================================================================
