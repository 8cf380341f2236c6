----------------------------- MODULE Merchandise -----------------------------
(***************************************************************************)
(* Merchandise orders: the buyer orders an item and pays at Razorpay, an   *)
(* admin submits the paid order to Printful, Printful makes and ships it   *)
(* and reports by webhook.                                                 *)
(*                                                                         *)
(* The API runs four workers, each with one event loop.  A handler without *)
(* an await is one action, except the creation of an order: it reads the   *)
(* stock and later writes what it read less one, and another worker may    *)
(* commit in between.  The submission awaits Printful's answer, and        *)
(* anything may happen meanwhile; what it then commits are the columns it  *)
(* changed from the values it had loaded before.                           *)
(*                                                                         *)
(* Razorpay and Printful are outside the repository.  Printful takes or    *)
(* refuses a submission; its answer may come late or never; its webhooks   *)
(* arrive late, in any order and more than once.                           *)
(***************************************************************************)
EXTENDS Integers

CONSTANTS
    Order,             \* the orders that are ever placed, for one item
    Submission,        \* calls of submit_to_printful
    InitialStock,      \* of the item, which tracks its inventory
    NoOrder,           \* what a submission that was not made is for
    MaxPayments,       \* Razorpay orders per order (a bound)
    MaxVerified,       \* calls of verify_payment that succeed (a bound)
    MaxEdits           \* changes through update_order (a bound)

ASSUME StockIsANumber == InitialStock \in Nat
ASSUME BoundsAreCounts == MaxPayments \in Nat /\ MaxVerified \in Nat /\ MaxEdits \in Nat
ASSUME NoOrderDiffers == NoOrder \notin Order

VARIABLES
    \* the database
    stock,             \* stock_quantity of the item
    status,            \* order_status; "none" before the order exists
    captured,          \* payment_status is "captured"
    commissions,       \* MerchandiseCommission rows of the order
    printfulId,        \* printful_order_id is set
    \* the creation of order o in its worker
    creating,          \* phase and the stock that was read
    sold,              \* orders committed so far
    overlapped,        \* a creation committed over another one's commit
    \* the submissions
    call,              \* phase, the order, and the status that was loaded
    answerLost,        \* orders with a submission that ended without answer
    \* Razorpay and Printful
    opened, paid,      \* Razorpay orders opened, and those paid
    made,              \* Printful's orders for the order
    parcel,            \* what Printful did with them
    hooks,             \* webhooks on their way: event and order
    \* history
    borrowed,          \* orders verified with a payment that was for something else
    edited,            \* orders whose status was ever set through update_order
    edits, verified    \* count these changes, and the verifications

database == <<stock, status, captured, commissions, printfulId>>
creation == <<creating, sold, overlapped>>
submits  == <<call, answerLost>>
outside  == <<opened, paid, made, parcel, hooks>>
history  == <<borrowed, edited, edits, verified>>
vars     == <<database, creation, submits, outside, history>>

NotCalled == [phase |-> "idle", order |-> NoOrder, loaded |-> "none"]

Init ==
    /\ stock = InitialStock
    /\ status = [o \in Order |-> "none"]
    /\ captured = [o \in Order |-> FALSE]
    /\ commissions = [o \in Order |-> 0]
    /\ printfulId = [o \in Order |-> FALSE]
    /\ creating = [o \in Order |-> [phase |-> "no", read |-> 0]]
    /\ sold = 0
    /\ overlapped = FALSE
    /\ call = [k \in Submission |-> NotCalled]
    /\ answerLost = {}
    /\ opened = [o \in Order |-> 0]
    /\ paid = [o \in Order |-> 0]
    /\ made = [o \in Order |-> 0]
    /\ parcel = [o \in Order |-> "none"]
    /\ hooks = {}
    /\ borrowed = {} /\ edited = {} /\ edits = 0 /\ verified = 0

-----------------------------------------------------------------------------
(* create_order: the item is read for the totals, ... *)
CreateReads(o) ==
    /\ creating[o].phase = "no"
    /\ creating' = [creating EXCEPT ![o] = [phase |-> "read", read |-> stock]]
    /\ UNCHANGED <<database, sold, overlapped, submits, outside, history>>

(* Mutant: the stock is taken twice, with the order and with its item. *)
CreateCommitsTwice(o) ==
    /\ creating[o].phase = "read"
    /\ creating' = [creating EXCEPT ![o].phase = "done"]
    /\ stock' = creating[o].read - 2
    /\ overlapped' = (overlapped \/ stock # creating[o].read)
    /\ sold' = sold + 1
    /\ status' = [status EXCEPT ![o] = "pending"]
    /\ UNCHANGED <<captured, commissions, printfulId, submits, outside, history>>

(* ... and the order and the stock that was read, less one, are committed. *)
(* Nothing asks whether any was left.                                      *)
CreateCommits(o) ==
    /\ creating[o].phase = "read"
    /\ creating' = [creating EXCEPT ![o].phase = "done"]
    /\ stock' = creating[o].read - 1
    /\ overlapped' = (overlapped \/ stock # creating[o].read)
    /\ sold' = sold + 1
    /\ status' = [status EXCEPT ![o] = "pending"]
    /\ UNCHANGED <<captured, commissions, printfulId, submits, outside, history>>

(* initiate_payment opens a Razorpay order; an earlier one stays payable. *)
InitiatePayment(o) ==
    /\ status[o] # "none" /\ ~captured[o] /\ opened[o] < MaxPayments
    /\ opened' = [opened EXCEPT ![o] = @ + 1]
    /\ UNCHANGED <<database, creation, submits, paid, made, parcel, hooks, history>>

Pay(o) ==
    /\ paid[o] < opened[o]
    /\ paid' = [paid EXCEPT ![o] = @ + 1]
    /\ UNCHANGED <<database, creation, submits, opened, made, parcel, hooks, history>>

(* The signature that verify_payment checks is over the two ids in the     *)
(* payload, and nobody compares them with the order's: the payment may be  *)
(* the order's own, or one for another order, or a subscription's, which   *)
(* is paid with the same key.                                              *)
Genuine(o, own) == own => paid[o] > 0

(* Mutant: the commission is recorded only for an order that is pending. *)
VerifyPaymentOfPending(o, own) ==
    /\ status[o] # "none" /\ verified < MaxVerified /\ verified' = verified + 1
    /\ Genuine(o, own)
    /\ borrowed' = IF own THEN borrowed ELSE borrowed \cup {o}
    /\ captured' = [captured EXCEPT ![o] = TRUE]
    /\ status' = [status EXCEPT ![o] = "confirmed"]
    /\ commissions' = [commissions EXCEPT ![o] = IF status[o] = "pending" THEN @ + 1 ELSE @]
    /\ UNCHANGED <<stock, printfulId, edited, edits, creation, submits, outside>>

(* verify_payment and update_payment_status.  Whatever the order is by     *)
(* now, it is confirmed, and a commission is recorded with every call.     *)
VerifyPayment(o, own) ==
    /\ status[o] # "none" /\ verified < MaxVerified /\ verified' = verified + 1
    /\ Genuine(o, own)
    /\ borrowed' = IF own THEN borrowed ELSE borrowed \cup {o}
    /\ captured' = [captured EXCEPT ![o] = TRUE]
    /\ status' = [status EXCEPT ![o] = "confirmed"]
    /\ commissions' = [commissions EXCEPT ![o] = @ + 1]
    /\ UNCHANGED <<stock, printfulId, edited, edits, creation, submits, outside>>

(* What update_order stores: any string.  "other" stands for "delivered"   *)
(* and whatever else no other handler stores or asks for.                  *)
Word == {"pending", "confirmed", "production", "shipped", "canceled", "other"}

(* update_order, by any user of the institution. *)
UpdateOrder(o, s) ==
    /\ status[o] # "none" /\ edits < MaxEdits
    /\ status' = [status EXCEPT ![o] = s]
    /\ edited' = edited \cup {o} /\ edits' = edits + 1
    /\ UNCHANGED <<stock, captured, commissions, printfulId, borrowed, verified,
                   creation, submits, outside>>

-----------------------------------------------------------------------------
(* submit_to_printful. *)

(* Mutant: submitted as soon as the order exists. *)
SubmitUnpaid(k, o) ==
    /\ call[k] = NotCalled /\ status[o] # "none"
    /\ call' = [call EXCEPT ![k] = [phase |-> "sent", order |-> o, loaded |-> status[o]]]
    /\ UNCHANGED <<database, creation, answerLost, outside, history>>

(* A paid order is sent to Printful; the handler awaits the answer. *)
Submit(k, o) ==
    /\ call[k] = NotCalled /\ captured[o]
    /\ call' = [call EXCEPT ![k] = [phase |-> "sent", order |-> o, loaded |-> status[o]]]
    /\ UNCHANGED <<database, creation, answerLost, outside, history>>

PrintfulDecides(k) ==
    /\ call[k].phase = "sent"
    /\ \/ /\ call' = [call EXCEPT ![k].phase = "taken"]
          /\ made' = [made EXCEPT ![call[k].order] = @ + 1]
       \/ /\ call' = [call EXCEPT ![k].phase = "refused"]
          /\ UNCHANGED made
    /\ UNCHANGED <<database, creation, answerLost, opened, paid, parcel, hooks, history>>

(* Mutant: an order that has changed meanwhile is left as it is. *)
SubmitAnsweredUnlessChanged(k) ==
    /\ call[k].phase \in {"taken", "refused"}
    /\ call' = [call EXCEPT ![k].phase = "done"]
    /\ LET o == call[k].order
       IN  IF call[k].phase = "taken" /\ call[k].loaded = status[o]
           THEN /\ printfulId' = [printfulId EXCEPT ![o] = TRUE]
                /\ status' = [status EXCEPT ![o] = "production"]
           ELSE UNCHANGED <<printfulId, status, history>>
    /\ UNCHANGED <<stock, captured, commissions, creation, answerLost, outside, history>>

(* Mutant: a refusal puts the order back to where its payment left it. *)
SubmitAnsweredRollsBack(k) ==
    /\ call[k].phase \in {"taken", "refused"}
    /\ call' = [call EXCEPT ![k].phase = "done"]
    /\ LET o == call[k].order
       IN  IF call[k].phase = "taken"
           THEN /\ printfulId' = [printfulId EXCEPT ![o] = TRUE]
                /\ status' = [status EXCEPT ![o] = "production"]
           ELSE /\ status' = [status EXCEPT ![o] = "confirmed"]
                /\ UNCHANGED printfulId
    /\ UNCHANGED <<stock, captured, commissions, creation, answerLost, outside, history>>

(* The answer: the order goes into production, whatever became of it in    *)
(* the meantime, unless it was in production when it was loaded: then the  *)
(* status is not a change to write.  A refusal is an error 500.            *)
SubmitAnswered(k) ==
    /\ call[k].phase \in {"taken", "refused"}
    /\ call' = [call EXCEPT ![k].phase = "done"]
    /\ LET o == call[k].order
       IN  IF call[k].phase = "taken"
           THEN /\ printfulId' = [printfulId EXCEPT ![o] = TRUE]
                /\ status' = IF call[k].loaded = "production" THEN status
                             ELSE [status EXCEPT ![o] = "production"]
           ELSE UNCHANGED <<printfulId, status, history>>
    /\ UNCHANGED <<stock, captured, commissions, creation, answerLost, outside, history>>

(* No answer within 30 s, or the worker ends: the order stays as it is,    *)
(* and Printful may have taken it all the same.                            *)
SubmitFails(k) ==
    /\ call[k].phase \in {"sent", "taken"}
    /\ call' = [call EXCEPT ![k].phase = "done"]
    /\ answerLost' = answerLost \cup {call[k].order}
    /\ \/ call[k].phase = "sent" /\ made' = [made EXCEPT ![call[k].order] = @ + 1]
       \/ UNCHANGED made
    /\ UNCHANGED <<database, creation, opened, paid, parcel, hooks, history>>

-----------------------------------------------------------------------------
(* Printful ships and takes back; each sends a webhook. *)
PrintfulShips(o) ==
    /\ made[o] > 0 /\ parcel[o] = "none"
    /\ parcel' = [parcel EXCEPT ![o] = "shipped"]
    /\ hooks' = hooks \cup {<<"package_shipped", o>>}
    /\ UNCHANGED <<database, creation, submits, opened, paid, made, history>>

PrintfulTakesBack(o) ==
    /\ parcel[o] = "shipped"
    /\ parcel' = [parcel EXCEPT ![o] = "returned"]
    /\ hooks' = hooks \cup {<<"package_returned", o>>}
    /\ UNCHANGED <<database, creation, submits, opened, paid, made, history>>

(* Mutant: the name of the event is stored. *)
WebhookStoresEvent(event, o) ==
    /\ <<event, o>> \in hooks
    /\ hooks' \in {hooks, hooks \ {<<event, o>>}}
    /\ status' = [status EXCEPT ![o] = event]
    /\ UNCHANGED <<stock, captured, commissions, printfulId, creation, submits,
                   opened, paid, made, parcel, history>>

(* printful_webhook; Printful may send the same event again. *)
PrintfulWebhook(event, o) ==
    /\ <<event, o>> \in hooks
    /\ hooks' \in {hooks, hooks \ {<<event, o>>}}
    /\ status' = [status EXCEPT ![o] = IF event = "package_shipped" THEN "shipped" ELSE "canceled"]
    /\ UNCHANGED <<stock, captured, commissions, printfulId, creation, submits,
                   opened, paid, made, parcel, history>>

Webhook(o) == \E event \in {"package_shipped", "package_returned"} : PrintfulWebhook(event, o)

Buyer(o) == CreateReads(o) \/ CreateCommits(o) \/ InitiatePayment(o) \/ Pay(o)
            \/ \E own \in BOOLEAN : VerifyPayment(o, own)
(* What the endpoints call "Admin only"; none of them asks for an admin.   *)
Admin(o) == \/ \E s \in Word : UpdateOrder(o, s)
            \/ \E k \in Submission : Submit(k, o)
Handler(k) == SubmitAnswered(k) \/ SubmitFails(k)

Next ==
    \/ \E o \in Order : Buyer(o) \/ Admin(o)
    \/ \E o \in Order : PrintfulShips(o) \/ PrintfulTakesBack(o) \/ Webhook(o)
    \/ \E k \in Submission : PrintfulDecides(k) \/ Handler(k)

Spec == Init /\ [][Next]_vars

-----------------------------------------------------------------------------
(* Properties. *)

OrderStatus == {"none"} \cup Word
Phase == {"idle", "sent", "taken", "refused", "done"}

(* The state has the shape of the tables, the handlers and the vendors. *)
TypeOK ==
    /\ stock \in Int
    /\ status \in [Order -> OrderStatus]
    /\ captured \in [Order -> BOOLEAN]
    /\ commissions \in [Order -> Nat]
    /\ printfulId \in [Order -> BOOLEAN]
    /\ creating \in [Order -> [phase : {"no", "read", "done"}, read : Int]]
    /\ sold \in Nat
    /\ overlapped \in BOOLEAN
    /\ call \in [Submission -> [phase : Phase, order : Order \cup {NoOrder}, loaded : OrderStatus]]
    /\ answerLost \in SUBSET Order
    /\ opened \in [Order -> 0..MaxPayments]
    /\ paid \in [Order -> Nat]
    /\ made \in [Order -> Nat]
    /\ parcel \in [Order -> {"none", "shipped", "returned"}]
    /\ hooks \in SUBSET ({"package_shipped", "package_returned"} \X Order)
    /\ borrowed \in SUBSET Order /\ edited \in SUBSET Order /\ edits \in 0..MaxEdits /\ verified \in 0..MaxVerified

(* The stock is short of nothing that was not sold: two creations that     *)
(* overlap can only leave it too high, and without an overlap it is exact. *)
StockAddsUp ==
    /\ stock >= InitialStock - sold
    /\ ~overlapped => stock = InitialStock - sold

(* Printful never makes an order whose payment was not verified, though    *)
(* that is read before an await and used after it, and webhooks and users  *)
(* change the order meanwhile.  What was verified was paid for the order,  *)
(* or for something else.                                                  *)
MadeIsCaptured ==
    \A o \in Order : made[o] > 0 => captured[o] /\ (paid[o] > 0 \/ o \in borrowed)

(* A captured order has a commission, and no other order has one. *)
CommissionIffCaptured == \A o \in Order : captured[o] <=> commissions[o] > 0

(* An order that Printful made without our knowing its number is one whose *)
(* submission is under way, or ended without the answer.                   *)
MadeIsKnown ==
    \A o \in Order : made[o] > 0 =>
        \/ printfulId[o] \/ o \in answerLost
        \/ \E k \in Submission : call[k].order = o /\ call[k].phase = "taken"

(* The statuses that the program itself stores, in the order of the work.  *)
Rank(s) == CASE s = "none" -> 0 [] s = "pending" -> 1 [] s = "confirmed" -> 2
             [] s = "production" -> 3 [] s = "shipped" -> 4 [] s = "canceled" -> 5

(* While nobody has set its status by hand, an order goes back in its      *)
(* workflow only when its payment is verified again; when Printful's answer*)
(* is later than another change, or is the answer to a second submission;  *)
(* or when package_shipped comes after package_returned.                   *)
GoesBackOnlyLate ==
    [][\A o \in Order \ edited' : Rank(status'[o]) < Rank(status[o]) =>
          \/ captured[o] /\ \E own \in BOOLEAN : VerifyPayment(o, own)
          \/ \E k \in Submission :
                /\ call[k].order = o /\ SubmitAnswered(k)
                /\ call[k].loaded # status[o] \/ made[o] > 1
          \/ PrintfulWebhook("package_shipped", o) /\ status[o] = "canceled"]_vars

=============================================================================
