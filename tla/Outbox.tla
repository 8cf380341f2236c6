------------------------------- MODULE Outbox -------------------------------
(***************************************************************************)
(* What an outbox on the phone promises, with nothing said about how it is *)
(* kept: a request put into it stays, whatever happens to the app, until   *)
(* the server has processed it, the user has removed it or it has failed   *)
(* Limit times, and the requests are sent oldest first.  All this as long  *)
(* as no mishap occurs.  Requests are numbered in the order in which they  *)
(* are made.  OfflineQueue.tla is shown to implement this specification    *)
(* with what AsyncStorage holds.                                           *)
(***************************************************************************)
EXTENDS Naturals

CONSTANTS Request, Limit

VARIABLES
    box,               \* the requests in the outbox
    put,               \* those ever put into it
    sent,              \* those the server has processed
    removed,           \* those the user removed
    fails,             \* fails[e]: how often e has failed
    trusted            \* no mishap has occurred

promised == <<box, put, sent, removed, fails, trusted>>

Init ==
    /\ box = {} /\ put = {} /\ sent = {} /\ removed = {}
    /\ fails = [e \in Request |-> 0]
    /\ trusted = TRUE

(* A request enters after all others. *)
Put(e) ==
    /\ \A d \in put \cup box : d < e
    /\ box' = box \cup {e} /\ put' = put \cup {e}
    /\ UNCHANGED <<sent, removed, fails>>

(* A request is sent, also one that is about to be put: the server         *)
(* processes it or not, and the app sees it fail or not.  Nothing older is *)
(* left to be sent.                                                        *)
Attempt(e) ==
    /\ \A d \in box \ (sent \cup removed) : e <= d
    /\ sent' \in {sent, sent \cup {e}}
    /\ fails' \in {fails, [fails EXCEPT ![e] = @ + 1]}
    /\ UNCHANGED <<box, put, removed>>

(* The user removes requests; they leave later. *)
Remove(S) ==
    /\ removed' = removed \cup S
    /\ UNCHANGED <<box, put, sent, fails>>

Done(e) == e \in sent \cup removed \/ fails[e] >= Limit

Leave(S) ==
    /\ \A e \in S : Done(e)
    /\ box' = box \ S
    /\ UNCHANGED <<put, sent, removed, fails>>

(* Failures of requests that may still be sent are counted anew: the user  *)
(* asks for it, or a kill loses counts.  A request that has left for good  *)
(* stays given up.                                                         *)
Recount ==
    /\ fails' \in [Request -> Nat]
    /\ \A e \in Request : fails'[e] # fails[e] =>
          fails'[e] < Limit /\ (fails[e] < Limit \/ e \in box)
    /\ UNCHANGED <<box, put, sent, removed>>

Promise ==
    \/ \E e \in Request : Put(e) \/ Attempt(e)
    \/ \E S \in SUBSET Request : Remove(S) \/ Leave(S)
    \/ Recount

(* After a mishap nothing is promised. *)
Next == trusted' => trusted /\ Promise

Spec == Init /\ [][Next]_promised

=============================================================================
