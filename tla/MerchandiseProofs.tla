-------------------------- MODULE MerchandiseProofs --------------------------
(***************************************************************************)
(* What holds of any number of orders and submissions, for any stock: the  *)
(* stock is never short of more than was sold, what Printful makes has a   *)
(* verified payment, commissions go with captured payments, an order that  *)
(* Printful makes is known unless an answer was lost, and an order goes    *)
(* back in its workflow only by hand, or through what is late or repeated. *)
(***************************************************************************)
EXTENDS Merchandise, TLAPS

(* A step is one of these, or changes nothing. *)
Steps ==
    \/ \E o \in Order :
          \/ CreateReads(o) \/ CreateCommits(o) \/ InitiatePayment(o) \/ Pay(o)
          \/ \E own \in BOOLEAN : VerifyPayment(o, own)
          \/ \E s \in Word : UpdateOrder(o, s)
          \/ \E k \in Submission : Submit(k, o)
          \/ PrintfulShips(o) \/ PrintfulTakesBack(o)
          \/ \E event \in {"package_shipped", "package_returned"} : PrintfulWebhook(event, o)
    \/ \E k \in Submission : PrintfulDecides(k) \/ SubmitAnswered(k) \/ SubmitFails(k)
    \/ UNCHANGED vars

LEMMA NextSteps == [Next]_vars => Steps
BY Zenon DEF Next, Buyer, Admin, Handler, Webhook, Steps

(* Only the phase of a submission changes after it was sent. *)
LEMMA CallType ==
  ASSUME TypeOK, NEW k \in Submission, NEW p \in Phase
  PROVE  [call EXCEPT ![k].phase = p]
            \in [Submission -> [phase : Phase, order : Order \cup {NoOrder}, loaded : OrderStatus]]
<1>1. call \in [Submission -> [phase : Phase, order : Order \cup {NoOrder}, loaded : OrderStatus]]
  BY DEF TypeOK
<1>2. [call[k] EXCEPT !.phase = p] \in [phase : Phase, order : Order \cup {NoOrder}, loaded : OrderStatus]
  BY <1>1
<1>3. [call EXCEPT ![k].phase = p] = [call EXCEPT ![k] = [call[k] EXCEPT !.phase = p]]
  BY Zenon
<1> QED
  BY <1>1, <1>2, <1>3

LEMMA MadeType ==
  ASSUME TypeOK, NEW x
  PROVE  [made EXCEPT ![x] = @ + 1] \in [Order -> Nat]
<1>1. made \in [Order -> Nat]
  BY DEF TypeOK
<1>2. CASE x \in Order
  <2>1. made[x] + 1 \in Nat
    BY <1>1, <1>2
  <2> QED
    BY <1>1, <2>1
<1>3. CASE x \notin Order
  <2>1. [made EXCEPT ![x] = @ + 1] = made
    BY <1>1, <1>3
  <2> QED
    BY <1>1, <2>1
<1> QED
  BY <1>2, <1>3

(* A submission that was made is for an order. *)
CallsAreOfOrders == \A j \in Submission : call[j].phase # "idle" => call[j].order \in Order

(* ... and remains for that order when its phase changes. *)
LEMMA PhaseKeepsOrders ==
  ASSUME TypeOK, CallsAreOfOrders, NEW k \in Submission, call[k].phase # "idle",
         NEW p, call' = [call EXCEPT ![k].phase = p]
  PROVE  CallsAreOfOrders'
<1>1. call \in [Submission -> [phase : Phase, order : Order \cup {NoOrder}, loaded : OrderStatus]]
  BY DEF TypeOK
<1>2. ASSUME NEW j \in Submission PROVE  call'[j].order = call[j].order
  BY <1>1
<1>3. ASSUME NEW j \in Submission, j # k PROVE  call'[j] = call[j]
  BY <1>1, <1>3
<1>4. ASSUME NEW j \in Submission, call'[j].phase # "idle" PROVE  call'[j].order \in Order
  <2>1. call[j].phase # "idle"
    BY <1>3, <1>4
  <2> QED
    BY <1>2, <2>1 DEF CallsAreOfOrders
<1> QED
  BY <1>4 DEF CallsAreOfOrders

LEMMA CallsStep ==
  ASSUME TypeOK, CallsAreOfOrders, [Next]_vars
  PROVE  CallsAreOfOrders'
<1>1. Steps
  BY NextSteps
<1>2. CASE UNCHANGED call
  BY <1>2 DEF CallsAreOfOrders
<1>3. ASSUME NEW o \in Order, NEW k \in Submission, Submit(k, o) PROVE  CallsAreOfOrders'
  <2>1. call' = [call EXCEPT ![k] = [phase |-> "sent", order |-> o, loaded |-> status[o]]]
    BY <1>3, Zenon DEF Submit
  <2>2. call \in [Submission -> [phase : Phase, order : Order \cup {NoOrder}, loaded : OrderStatus]]
    BY DEF TypeOK
  <2>3. call'[k].order = o
    BY <2>1, <2>2
  <2>4. ASSUME NEW j \in Submission, j # k PROVE  call'[j] = call[j]
    BY <2>1, <2>2, <2>4
  <2> QED
    BY <2>3, <2>4 DEF CallsAreOfOrders
<1>4. ASSUME NEW k \in Submission,
             PrintfulDecides(k) \/ SubmitAnswered(k) \/ SubmitFails(k)
      PROVE  CallsAreOfOrders'
  <2>1. call[k].phase # "idle"
    BY <1>4 DEF PrintfulDecides, SubmitAnswered, SubmitFails
  <2>2. \E p \in {"taken", "refused", "done"} : call' = [call EXCEPT ![k].phase = p]
    BY <1>4, Zenon DEF PrintfulDecides, SubmitAnswered, SubmitFails
  <2> QED
    BY <2>1, <2>2, PhaseKeepsOrders, Zenon
<1>5. \/ UNCHANGED call
      \/ \E o \in Order, k \in Submission : Submit(k, o)
      \/ \E k \in Submission : PrintfulDecides(k) \/ SubmitAnswered(k) \/ SubmitFails(k)
  BY <1>1, Zenon DEF Steps, CreateReads, CreateCommits, InitiatePayment, Pay, VerifyPayment, UpdateOrder,
     PrintfulShips, PrintfulTakesBack, PrintfulWebhook, vars, submits
<1> QED
  BY <1>2, <1>3, <1>4, <1>5, Zenon

(* Every step keeps the shape of the state. *)
LEMMA TypeStep ==
  ASSUME TypeOK, CallsAreOfOrders, [Next]_vars
  PROVE  TypeOK'
<1>1. Steps
  BY NextSteps
<1>2. ASSUME NEW o \in Order,
             CreateReads(o)
      PROVE  TypeOK'
  BY <1>2 DEF CreateReads, TypeOK, OrderStatus, Word, database, creation, submits, outside, history
<1>3. ASSUME NEW o \in Order,
             CreateCommits(o)
      PROVE  TypeOK'
  BY <1>3 DEF CreateCommits, TypeOK, OrderStatus, Word, database, creation, submits, outside, history
<1>4. ASSUME NEW o \in Order,
             InitiatePayment(o)
      PROVE  TypeOK'
  BY <1>4, BoundsAreCounts DEF InitiatePayment, TypeOK, OrderStatus, Word, database, creation, submits, outside, history
<1>5. ASSUME NEW o \in Order,
             Pay(o)
      PROVE  TypeOK'
  BY <1>5 DEF Pay, TypeOK, OrderStatus, Word, database, creation, submits, outside, history
<1>6. ASSUME NEW o \in Order, NEW own \in BOOLEAN,
             VerifyPayment(o, own)
      PROVE  TypeOK'
  BY <1>6, BoundsAreCounts DEF VerifyPayment, TypeOK, OrderStatus, Word, database, creation, submits, outside, history
<1>7. ASSUME NEW o \in Order, NEW s \in Word,
             UpdateOrder(o, s)
      PROVE  TypeOK'
  BY <1>7, BoundsAreCounts DEF UpdateOrder, TypeOK, OrderStatus, Word, database, creation, submits, outside, history
<1>8. ASSUME NEW k \in Submission, NEW o \in Order,
             Submit(k, o)
      PROVE  TypeOK'
  BY <1>8 DEF Submit, TypeOK, OrderStatus, Word, Phase, database, creation, submits, outside, history
<1>9. ASSUME NEW o \in Order,
             PrintfulShips(o)
      PROVE  TypeOK'
  BY <1>9 DEF PrintfulShips, TypeOK, OrderStatus, Word, database, creation, submits, outside, history
<1>10. ASSUME NEW o \in Order,
             PrintfulTakesBack(o)
      PROVE  TypeOK'
  BY <1>10 DEF PrintfulTakesBack, TypeOK, OrderStatus, Word, database, creation, submits, outside, history
<1>11. ASSUME NEW event \in {"package_shipped", "package_returned"}, NEW o \in Order,
             PrintfulWebhook(event, o)
      PROVE  TypeOK'
  BY <1>11 DEF PrintfulWebhook, TypeOK, OrderStatus, Word, database, creation, submits, outside, history
<1>12. ASSUME NEW k \in Submission,
             PrintfulDecides(k)
      PROVE  TypeOK'
  <2>1. call' \in [Submission -> [phase : Phase, order : Order \cup {NoOrder}, loaded : OrderStatus]]
    <3>1. "taken" \in Phase /\ "refused" \in Phase
      BY DEF Phase
    <3>2. call' = [call EXCEPT ![k].phase = "taken"] \/ call' = [call EXCEPT ![k].phase = "refused"]
      BY <1>12 DEF PrintfulDecides
    <3>3. CASE call' = [call EXCEPT ![k].phase = "taken"]
      BY <3>1, <3>3, CallType, Zenon
    <3>4. CASE call' = [call EXCEPT ![k].phase = "refused"]
      BY <3>1, <3>4, CallType, Zenon
    <3> QED
      BY <3>2, <3>3, <3>4
  <2>2. made' \in [Order -> Nat]
    BY <1>12, MadeType DEF PrintfulDecides, TypeOK
  <2> QED
    BY <1>12, <2>1, <2>2 DEF PrintfulDecides, TypeOK, database, creation, outside, history
<1>13. ASSUME NEW k \in Submission,
             SubmitAnswered(k)
      PROVE  TypeOK'
  <2>1. call' \in [Submission -> [phase : Phase, order : Order \cup {NoOrder}, loaded : OrderStatus]]
    BY <1>13, CallType DEF SubmitAnswered, Phase
  <2>2. printfulId' \in [Order -> BOOLEAN] /\ status' \in [Order -> OrderStatus]
    BY <1>13 DEF SubmitAnswered, TypeOK, OrderStatus, Word
  <2> QED
    BY <1>13, <2>1, <2>2 DEF SubmitAnswered, TypeOK, creation, outside, history
<1>14. ASSUME NEW k \in Submission,
             SubmitFails(k)
      PROVE  TypeOK'
  <2> DEFINE o == call[k].order
  <2>1. call' \in [Submission -> [phase : Phase, order : Order \cup {NoOrder}, loaded : OrderStatus]]
    BY <1>14, CallType DEF SubmitFails, Phase
  <2>2. made' \in [Order -> Nat]
    BY <1>14, MadeType DEF SubmitFails, TypeOK
  <2>3. o \in Order
    BY <1>14 DEF SubmitFails, CallsAreOfOrders
  <2>4. answerLost' \in SUBSET Order
    BY <1>14, <2>3 DEF SubmitFails, TypeOK
  <2> QED
    BY <1>14, <2>1, <2>2, <2>4 DEF SubmitFails, TypeOK, database, creation, history
<1>15. ASSUME UNCHANGED vars PROVE  TypeOK'
  BY <1>15 DEF TypeOK, vars, database, creation, submits, outside, history
<1> QED
  BY <1>1, <1>2, <1>3, <1>4, <1>5, <1>6, <1>7, <1>8, <1>9, <1>10,
     <1>11, <1>12, <1>13, <1>14, <1>15, Zenon DEF Steps

(* The state keeps the shape of the tables, the handlers and the vendors:  *)
(* merchandise_service.py and the vendors' answers store nothing else.     *)
THEOREM TypeCorrect == Spec => []TypeOK
<1>1. ASSUME Init PROVE  TypeOK
  <2>1. /\ status \in [Order -> OrderStatus]
        /\ creating \in [Order -> [phase : {"no", "read", "done"}, read : Int]]
        /\ call \in [Submission -> [phase : Phase, order : Order \cup {NoOrder}, loaded : OrderStatus]]
    BY <1>1 DEF Init, OrderStatus, Word, Phase, NotCalled
  <2>2. /\ stock \in Int /\ sold \in Nat
        /\ commissions \in [Order -> Nat] /\ opened \in [Order -> 0..MaxPayments]
        /\ paid \in [Order -> Nat] /\ made \in [Order -> Nat]
    BY <1>1, StockIsANumber, BoundsAreCounts DEF Init
  <2>3. /\ captured \in [Order -> BOOLEAN] /\ printfulId \in [Order -> BOOLEAN]
        /\ overlapped \in BOOLEAN /\ parcel \in [Order -> {"none", "shipped", "returned"}]
        /\ answerLost = {} /\ hooks = {} /\ borrowed = {} /\ edited = {}
    BY <1>1 DEF Init
  <2>4. edits \in 0..MaxEdits /\ verified \in 0..MaxVerified
    BY <1>1, BoundsAreCounts DEF Init
  <2> QED
    BY <2>1, <2>2, <2>3, <2>4 DEF TypeOK
<1>2. Init => CallsAreOfOrders
  BY DEF Init, CallsAreOfOrders, NotCalled
<1>3. TypeOK /\ CallsAreOfOrders /\ [Next]_vars => TypeOK' /\ CallsAreOfOrders'
  BY TypeStep, CallsStep
<1> QED
  BY <1>1, <1>2, <1>3, PTL DEF Spec

-----------------------------------------------------------------------------
(* StockAddsUp, and what a creation under way has read.                    *)
StockInv ==
    /\ StockAddsUp
    /\ \A o \in Order : creating[o].phase = "read" => creating[o].read >= InitialStock - sold

(* Nobody but the creations touches the stock, and a creation takes one off a stock that was not too low. *)
LEMMA StockStep ==
  ASSUME TypeOK, StockInv, [Next]_vars
  PROVE  StockInv'
<1>1. Steps
  BY NextSteps
<1>2. ASSUME NEW o \in Order,
             CreateReads(o)
      PROVE  StockInv'
  BY <1>2, StockIsANumber DEF CreateReads, StockInv, StockAddsUp, TypeOK, database
<1>3. ASSUME NEW o \in Order,
             CreateCommits(o)
      PROVE  StockInv'
  <2>1. /\ creating[o].read \in Int /\ creating[o].read >= InitialStock - sold
        /\ sold \in Nat /\ stock \in Int /\ InitialStock \in Nat
    BY <1>3, StockIsANumber DEF CreateCommits, StockInv, TypeOK
  <2>2. stock' = creating[o].read - 1 /\ sold' = sold + 1
    BY <1>3 DEF CreateCommits
  <2>3. ~overlapped' => ~overlapped /\ stock = creating[o].read
    BY <1>3 DEF CreateCommits
  <2>4. StockAddsUp'
    BY <2>1, <2>2, <2>3 DEF StockInv, StockAddsUp
  <2>5. ASSUME NEW p \in Order, creating'[p].phase = "read"
        PROVE  creating'[p].read >= InitialStock - sold'
    <3>1. creating[p].phase = "read" /\ creating'[p].read = creating[p].read
      BY <1>3, <2>5 DEF CreateCommits, TypeOK
    <3>2. creating[p].read \in Int /\ creating[p].read >= InitialStock - sold
      BY <3>1 DEF StockInv, TypeOK
    <3> QED
      BY <2>1, <2>2, <3>1, <3>2
  <2> QED
    BY <2>4, <2>5 DEF StockInv
<1>4. ASSUME NEW o \in Order,
             InitiatePayment(o)
      PROVE  StockInv'
  BY <1>4 DEF InitiatePayment, StockInv, StockAddsUp, creation, database
<1>5. ASSUME NEW o \in Order,
             Pay(o)
      PROVE  StockInv'
  BY <1>5 DEF Pay, StockInv, StockAddsUp, creation, database
<1>6. ASSUME NEW o \in Order, NEW own \in BOOLEAN,
             VerifyPayment(o, own)
      PROVE  StockInv'
  BY <1>6 DEF VerifyPayment, StockInv, StockAddsUp, creation, database
<1>7. ASSUME NEW o \in Order, NEW s \in Word,
             UpdateOrder(o, s)
      PROVE  StockInv'
  BY <1>7 DEF UpdateOrder, StockInv, StockAddsUp, creation, database
<1>8. ASSUME NEW k \in Submission, NEW o \in Order,
             Submit(k, o)
      PROVE  StockInv'
  BY <1>8 DEF Submit, StockInv, StockAddsUp, creation, database
<1>9. ASSUME NEW o \in Order,
             PrintfulShips(o)
      PROVE  StockInv'
  BY <1>9 DEF PrintfulShips, StockInv, StockAddsUp, creation, database
<1>10. ASSUME NEW o \in Order,
             PrintfulTakesBack(o)
      PROVE  StockInv'
  BY <1>10 DEF PrintfulTakesBack, StockInv, StockAddsUp, creation, database
<1>11. ASSUME NEW event \in {"package_shipped", "package_returned"}, NEW o \in Order,
             PrintfulWebhook(event, o)
      PROVE  StockInv'
  BY <1>11 DEF PrintfulWebhook, StockInv, StockAddsUp, creation, database
<1>12. ASSUME NEW k \in Submission,
             PrintfulDecides(k)
      PROVE  StockInv'
  BY <1>12 DEF PrintfulDecides, StockInv, StockAddsUp, creation, database
<1>13. ASSUME NEW k \in Submission,
             SubmitAnswered(k)
      PROVE  StockInv'
  BY <1>13 DEF SubmitAnswered, StockInv, StockAddsUp, creation, database
<1>14. ASSUME NEW k \in Submission,
             SubmitFails(k)
      PROVE  StockInv'
  BY <1>14 DEF SubmitFails, StockInv, StockAddsUp, creation, database
<1>15. ASSUME UNCHANGED vars PROVE  StockInv'
  BY <1>15 DEF StockInv, StockAddsUp, vars, database, creation, submits, outside
<1> QED
  BY <1>1, <1>2, <1>3, <1>4, <1>5, <1>6, <1>7, <1>8, <1>9, <1>10,
     <1>11, <1>12, <1>13, <1>14, <1>15, Zenon DEF Steps

(* Overlapping creations leave the stock too high, never too low, and      *)
(* without an overlap it is exact (create_order).                          *)
THEOREM StockNeverShort == Spec => []StockAddsUp
<1>1. Init => StockInv
  BY StockIsANumber DEF Init, StockInv, StockAddsUp
<1>2. TypeOK /\ StockInv /\ [Next]_vars => StockInv'
  BY StockStep
<1>3. StockInv => StockAddsUp
  BY DEF StockInv
<1> QED
  BY <1>1, <1>2, <1>3, TypeCorrect, PTL DEF Spec

-----------------------------------------------------------------------------
(* MadeIsCaptured, and what the submissions under way have seen.               *)
PaidInv ==
    /\ \A p \in Order : captured[p] => paid[p] > 0 \/ p \in borrowed
    /\ \A p \in Order : made[p] > 0 => captured[p]
    /\ CallsAreOfOrders
    /\ \A j \in Submission : call[j].phase # "idle" => captured[call[j].order]

(* A payment that was captured stays captured, and only a captured order is sent to Printful. *)
LEMMA PaidStep ==
  ASSUME TypeOK, PaidInv, [Next]_vars
  PROVE  PaidInv'
<1>0. CallsAreOfOrders'
  BY CallsStep DEF PaidInv
<1>1. Steps
  BY NextSteps
<1>2. ASSUME NEW o \in Order,
             CreateReads(o)
      PROVE  PaidInv'
  BY <1>0, <1>2 DEF CreateReads, PaidInv, TypeOK, database, creation, submits, outside, history
<1>3. ASSUME NEW o \in Order,
             CreateCommits(o)
      PROVE  PaidInv'
  BY <1>0, <1>3 DEF CreateCommits, PaidInv, TypeOK, database, creation, submits, outside, history
<1>4. ASSUME NEW o \in Order,
             InitiatePayment(o)
      PROVE  PaidInv'
  BY <1>0, <1>4 DEF InitiatePayment, PaidInv, TypeOK, database, creation, submits, outside, history
<1>5. ASSUME NEW o \in Order,
             Pay(o)
      PROVE  PaidInv'
  BY <1>0, <1>5 DEF Pay, PaidInv, TypeOK, database, creation, submits, outside, history
<1>6. ASSUME NEW o \in Order, NEW own \in BOOLEAN,
             VerifyPayment(o, own)
      PROVE  PaidInv'
  BY <1>0, <1>6 DEF VerifyPayment, Genuine, PaidInv, TypeOK, database, creation, submits, outside, history
<1>7. ASSUME NEW o \in Order, NEW s \in Word,
             UpdateOrder(o, s)
      PROVE  PaidInv'
  BY <1>0, <1>7 DEF UpdateOrder, PaidInv, TypeOK, database, creation, submits, outside, history
<1>8. ASSUME NEW k \in Submission, NEW o \in Order,
             Submit(k, o)
      PROVE  PaidInv'
  BY <1>0, <1>8 DEF Submit, PaidInv, TypeOK, NotCalled, database, creation, submits, outside, history
<1>9. ASSUME NEW o \in Order,
             PrintfulShips(o)
      PROVE  PaidInv'
  BY <1>0, <1>9 DEF PrintfulShips, PaidInv, TypeOK, database, creation, submits, outside, history
<1>10. ASSUME NEW o \in Order,
             PrintfulTakesBack(o)
      PROVE  PaidInv'
  BY <1>0, <1>10 DEF PrintfulTakesBack, PaidInv, TypeOK, database, creation, submits, outside, history
<1>11. ASSUME NEW event \in {"package_shipped", "package_returned"}, NEW o \in Order,
             PrintfulWebhook(event, o)
      PROVE  PaidInv'
  BY <1>0, <1>11 DEF PrintfulWebhook, PaidInv, TypeOK, database, creation, submits, outside, history
<1>12. ASSUME NEW k \in Submission,
             PrintfulDecides(k)
      PROVE  PaidInv'
  <2>1. call[k].phase # "idle" /\ captured[call[k].order]
    BY <1>12 DEF PrintfulDecides, PaidInv
  <2>2. UNCHANGED <<captured, paid, borrowed>>
    BY <1>12 DEF PrintfulDecides, database, outside, history
  <2>3. ASSUME NEW p \in Order, made'[p] > 0 PROVE  captured[p]
    <3>1. CASE p = call[k].order
      BY <2>1, <3>1
    <3>2. CASE p # call[k].order
      <4>1. made'[p] = made[p]
        BY <1>12, <3>2 DEF PrintfulDecides, TypeOK
      <4> QED
        BY <2>3, <4>1 DEF PaidInv
    <3> QED
      BY <3>1, <3>2
  <2>4. ASSUME NEW j \in Submission, call'[j].phase # "idle" PROVE  captured[call'[j].order]
    <3>1. call'[j].order = call[j].order /\ call[j].phase # "idle"
      BY <1>12, <2>1, <2>4 DEF PrintfulDecides, TypeOK
    <3> QED
      BY <3>1 DEF PaidInv
  <2> QED
    BY <1>0, <2>2, <2>3, <2>4 DEF PaidInv
<1>13. ASSUME NEW k \in Submission,
             SubmitAnswered(k)
      PROVE  PaidInv'
  BY <1>0, <1>13 DEF SubmitAnswered, PaidInv, TypeOK, database, creation, submits, outside, history
<1>14. ASSUME NEW k \in Submission,
             SubmitFails(k)
      PROVE  PaidInv'
  <2>1. call[k].phase # "idle" /\ captured[call[k].order]
    BY <1>14 DEF SubmitFails, PaidInv
  <2>2. UNCHANGED <<captured, paid, borrowed>>
    BY <1>14 DEF SubmitFails, database, outside, history
  <2>3. ASSUME NEW p \in Order, made'[p] > 0 PROVE  captured[p]
    <3>1. CASE p = call[k].order
      BY <2>1, <3>1
    <3>2. CASE p # call[k].order
      <4>1. made'[p] = made[p]
        BY <1>14, <3>2 DEF SubmitFails, TypeOK
      <4> QED
        BY <2>3, <4>1 DEF PaidInv
    <3> QED
      BY <3>1, <3>2
  <2>4. ASSUME NEW j \in Submission, call'[j].phase # "idle" PROVE  captured[call'[j].order]
    <3>1. call'[j].order = call[j].order /\ call[j].phase # "idle"
      BY <1>14, <2>1, <2>4 DEF SubmitFails, TypeOK
    <3> QED
      BY <3>1 DEF PaidInv
  <2> QED
    BY <1>0, <2>2, <2>3, <2>4 DEF PaidInv
<1>15. ASSUME UNCHANGED vars PROVE  PaidInv'
  BY <1>0, <1>15 DEF PaidInv, vars, database, creation, submits, outside, history
<1> QED
  BY <1>1, <1>2, <1>3, <1>4, <1>5, <1>6, <1>7, <1>8, <1>9, <1>10,
     <1>11, <1>12, <1>13, <1>14, <1>15, Zenon DEF Steps

(* submit_to_printful reads the payment before the await and uses it       *)
(* after: still, nothing that Printful makes is without a verified payment,*)
(* its own or another one.                                                 *)
THEOREM NothingMadeUncaptured == Spec => []MadeIsCaptured
<1>1. Init => PaidInv
  BY DEF Init, PaidInv, CallsAreOfOrders, NotCalled
<1>2. TypeOK /\ PaidInv /\ [Next]_vars => PaidInv'
  BY PaidStep
<1>3. PaidInv => MadeIsCaptured
  BY DEF PaidInv, MadeIsCaptured
<1> QED
  BY <1>1, <1>2, <1>3, TypeCorrect, PTL DEF Spec

-----------------------------------------------------------------------------
(* Only a verified payment captures, and it records a commission. *)
LEMMA CommissionStep ==
  ASSUME TypeOK, CommissionIffCaptured, [Next]_vars
  PROVE  CommissionIffCaptured'
<1>1. Steps
  BY NextSteps
<1>2. ASSUME NEW o \in Order,
             CreateReads(o)
      PROVE  CommissionIffCaptured'
  BY <1>2 DEF CreateReads, CommissionIffCaptured, database
<1>3. ASSUME NEW o \in Order,
             CreateCommits(o)
      PROVE  CommissionIffCaptured'
  BY <1>3 DEF CreateCommits, CommissionIffCaptured, database
<1>4. ASSUME NEW o \in Order,
             InitiatePayment(o)
      PROVE  CommissionIffCaptured'
  BY <1>4 DEF InitiatePayment, CommissionIffCaptured, database
<1>5. ASSUME NEW o \in Order,
             Pay(o)
      PROVE  CommissionIffCaptured'
  BY <1>5 DEF Pay, CommissionIffCaptured, database
<1>6. ASSUME NEW o \in Order, NEW own \in BOOLEAN,
             VerifyPayment(o, own)
      PROVE  CommissionIffCaptured'
  BY <1>6 DEF VerifyPayment, CommissionIffCaptured, TypeOK
<1>7. ASSUME NEW o \in Order, NEW s \in Word,
             UpdateOrder(o, s)
      PROVE  CommissionIffCaptured'
  BY <1>7 DEF UpdateOrder, CommissionIffCaptured, database
<1>8. ASSUME NEW k \in Submission, NEW o \in Order,
             Submit(k, o)
      PROVE  CommissionIffCaptured'
  BY <1>8 DEF Submit, CommissionIffCaptured, database
<1>9. ASSUME NEW o \in Order,
             PrintfulShips(o)
      PROVE  CommissionIffCaptured'
  BY <1>9 DEF PrintfulShips, CommissionIffCaptured, database
<1>10. ASSUME NEW o \in Order,
             PrintfulTakesBack(o)
      PROVE  CommissionIffCaptured'
  BY <1>10 DEF PrintfulTakesBack, CommissionIffCaptured, database
<1>11. ASSUME NEW event \in {"package_shipped", "package_returned"}, NEW o \in Order,
             PrintfulWebhook(event, o)
      PROVE  CommissionIffCaptured'
  BY <1>11 DEF PrintfulWebhook, CommissionIffCaptured, database
<1>12. ASSUME NEW k \in Submission,
             PrintfulDecides(k)
      PROVE  CommissionIffCaptured'
  BY <1>12 DEF PrintfulDecides, CommissionIffCaptured, database
<1>13. ASSUME NEW k \in Submission,
             SubmitAnswered(k)
      PROVE  CommissionIffCaptured'
  BY <1>13 DEF SubmitAnswered, CommissionIffCaptured, database
<1>14. ASSUME NEW k \in Submission,
             SubmitFails(k)
      PROVE  CommissionIffCaptured'
  BY <1>14 DEF SubmitFails, CommissionIffCaptured, database
<1>15. ASSUME UNCHANGED vars PROVE  CommissionIffCaptured'
  BY <1>15 DEF CommissionIffCaptured, vars, database
<1> QED
  BY <1>1, <1>2, <1>3, <1>4, <1>5, <1>6, <1>7, <1>8, <1>9, <1>10,
     <1>11, <1>12, <1>13, <1>14, <1>15, Zenon DEF Steps

(* A captured order has a commission, and no other has one, however often  *)
(* and whenever the payment is verified (update_payment_status).           *)
THEOREM CommissionsAreOfCaptured == Spec => []CommissionIffCaptured
<1>1. ASSUME Init PROVE  CommissionIffCaptured
  <2>1. \A o \in Order : ~captured[o] /\ commissions[o] = 0
    BY <1>1, Zenon DEF Init
  <2>2. ~(0 > 0)
    OBVIOUS
  <2>3. \A o \in Order : ~captured[o] /\ ~(commissions[o] > 0)
    BY <2>1, <2>2, Zenon
  <2> QED
    BY <2>3, Zenon DEF CommissionIffCaptured
<1>2. TypeOK /\ CommissionIffCaptured /\ [Next]_vars => CommissionIffCaptured'
  BY CommissionStep
<1> QED
  BY <1>1, <1>2, TypeCorrect, PTL DEF Spec

-----------------------------------------------------------------------------
(* What MadeIsKnown says of one order. *)
Known(p) == \/ made[p] = 0 \/ printfulId[p] \/ p \in answerLost
            \/ \E j \in Submission : call[j].order = p /\ call[j].phase = "taken"

(* Each step leaves an order known, or its answer lost. *)
LEMMA KnownStep ==
  ASSUME TypeOK, PaidInv, NEW p \in Order, Known(p), [Next]_vars
  PROVE  Known(p)'
<1>1. Steps
  BY NextSteps
<1>2. ASSUME NEW o \in Order,
             CreateReads(o)
      PROVE  Known(p)'
  BY <1>2 DEF CreateReads, Known, database, submits, outside
<1>3. ASSUME NEW o \in Order,
             CreateCommits(o)
      PROVE  Known(p)'
  BY <1>3 DEF CreateCommits, Known, database, submits, outside
<1>4. ASSUME NEW o \in Order,
             InitiatePayment(o)
      PROVE  Known(p)'
  BY <1>4 DEF InitiatePayment, Known, database, submits, outside
<1>5. ASSUME NEW o \in Order,
             Pay(o)
      PROVE  Known(p)'
  BY <1>5 DEF Pay, Known, database, submits, outside
<1>6. ASSUME NEW o \in Order, NEW own \in BOOLEAN,
             VerifyPayment(o, own)
      PROVE  Known(p)'
  BY <1>6 DEF VerifyPayment, Known, database, submits, outside
<1>7. ASSUME NEW o \in Order, NEW s \in Word,
             UpdateOrder(o, s)
      PROVE  Known(p)'
  BY <1>7 DEF UpdateOrder, Known, database, submits, outside
<1>8. ASSUME NEW k \in Submission, NEW o \in Order,
             Submit(k, o)
      PROVE  Known(p)'
  BY <1>8 DEF Submit, Known, TypeOK, NotCalled, database, submits, outside
<1>9. ASSUME NEW o \in Order,
             PrintfulShips(o)
      PROVE  Known(p)'
  BY <1>9 DEF PrintfulShips, Known, database, submits, outside
<1>10. ASSUME NEW o \in Order,
             PrintfulTakesBack(o)
      PROVE  Known(p)'
  BY <1>10 DEF PrintfulTakesBack, Known, database, submits, outside
<1>11. ASSUME NEW event \in {"package_shipped", "package_returned"}, NEW o \in Order,
             PrintfulWebhook(event, o)
      PROVE  Known(p)'
  BY <1>11 DEF PrintfulWebhook, Known, database, submits, outside
<1>12. ASSUME NEW k \in Submission,
             PrintfulDecides(k)
      PROVE  Known(p)'
  <2>1. UNCHANGED <<printfulId, answerLost>>
    BY <1>12 DEF PrintfulDecides, database
  <2>2. \A j \in Submission : call[j].phase = "taken" => call'[j] = call[j]
    BY <1>12 DEF PrintfulDecides, TypeOK
  <2>3. CASE made'[p] = made[p]
    BY <2>1, <2>2, <2>3 DEF Known
  <2>4. CASE made'[p] # made[p]
    <3>1. call'[k].order = p /\ call'[k].phase = "taken"
      BY <1>12, <2>4 DEF PrintfulDecides, TypeOK
    <3> QED
      BY <3>1 DEF Known
  <2> QED
    BY <2>3, <2>4
<1>13. ASSUME NEW k \in Submission,
             SubmitAnswered(k)
      PROVE  Known(p)'
  <2>1. UNCHANGED <<made, answerLost>>
    BY <1>13 DEF SubmitAnswered, outside
  <2>2. printfulId[p] => printfulId'[p]
    BY <1>13 DEF SubmitAnswered, TypeOK
  <2>3. CASE call[k].phase = "taken" /\ call[k].order = p
    <3>1. printfulId'[p]
      BY <1>13, <2>3 DEF SubmitAnswered, TypeOK
    <3> QED
      BY <3>1 DEF Known
  <2>4. CASE ~(call[k].phase = "taken" /\ call[k].order = p)
    <3>1. \A j \in Submission : call[j].phase = "taken" /\ call[j].order = p => call'[j] = call[j]
      BY <1>13, <2>4 DEF SubmitAnswered, TypeOK
    <3> QED
      BY <2>1, <2>2, <3>1 DEF Known
  <2> QED
    BY <2>3, <2>4
<1>14. ASSUME NEW k \in Submission,
             SubmitFails(k)
      PROVE  Known(p)'
  BY <1>14 DEF SubmitFails, Known, TypeOK, PaidInv, database, submits, outside
<1>15. ASSUME UNCHANGED vars PROVE  Known(p)'
  BY <1>15 DEF Known, vars, database, creation, submits, outside
<1> QED
  BY <1>1, <1>2, <1>3, <1>4, <1>5, <1>6, <1>7, <1>8, <1>9, <1>10,
     <1>11, <1>12, <1>13, <1>14, <1>15, Zenon DEF Steps

(* What Printful made is known by its number, unless the answer is still   *)
(* to come or was lost (submit_to_printful).                               *)
THEOREM MadeOrdersAreKnown == Spec => []MadeIsKnown
<1>1. Init => PaidInv /\ \A p \in Order : Known(p)
  BY DEF Init, PaidInv, CallsAreOfOrders, NotCalled, Known
<1>2. /\ TypeOK /\ PaidInv /\ (\A p \in Order : Known(p)) /\ [Next]_vars
      => PaidInv' /\ (\A p \in Order : Known(p))'
  BY PaidStep, KnownStep
<1>3. TypeOK /\ (\A p \in Order : Known(p)) => MadeIsKnown
  BY DEF Known, MadeIsKnown, TypeOK
<1> QED
  BY <1>1, <1>2, <1>3, TypeCorrect, PTL DEF Spec

-----------------------------------------------------------------------------
(* How far an order has come, as far as its status does not say so: nobody *)
(* pays before it exists, and, unless its status was set by hand, it is    *)
(* only produced when it was paid, and only shipped or returned when       *)
(* Printful made it.                                                       *)
Work(p) ==
    /\ creating[p].phase # "done" =>
          status[p] = "none" /\ opened[p] = 0 /\ paid[p] = 0 /\ ~captured[p]
    /\ parcel[p] # "none" => made[p] > 0
    /\ \A e \in {"package_shipped", "package_returned"} : <<e, p>> \in hooks => made[p] > 0
    /\ p \notin edited =>
          /\ status[p] = "production" => captured[p]
          /\ status[p] \in {"shipped", "canceled"} => made[p] > 0
          /\ status[p] # "other"

(* A submission that loaded a shipped or returned order is not the first:  *)
(* once it is taken, Printful has made the order twice.                    *)
Again(j) ==
    call[j].loaded \in {"shipped", "canceled"} /\ call[j].order \notin edited =>
        /\ call[j].phase = "sent" => made[call[j].order] > 0
        /\ call[j].phase = "taken" => made[call[j].order] > 1

(* An order that has begun, by any later sign, was created. *)
LEMMA Created ==
  ASSUME TypeOK, PaidInv, NEW p \in Order, Work(p),
         opened[p] > 0 \/ paid[p] > 0 \/ captured[p] \/ made[p] > 0 \/ status[p] # "none"
  PROVE  creating[p].phase = "done"
<1>1. opened[p] \in Int /\ paid[p] \in Int
  BY DEF TypeOK
<1>2. made[p] > 0 => captured[p]
  BY DEF PaidInv
<1> QED
  BY <1>1, <1>2 DEF Work

(* Printful's orders only grow in number. *)
LEMMA MadeGrows ==
  ASSUME TypeOK, NEW x, made' = made \/ made' = [made EXCEPT ![x] = @ + 1]
  PROVE  \A p \in Order : /\ made[p] \in Nat /\ made'[p] \in Nat
                          /\ made'[p] >= made[p]
<1>1. made \in [Order -> Nat]
  BY DEF TypeOK
<1> QED
  BY <1>1

(* Every step of the buyer, the admin and Printful keeps to that order. *)
LEMMA WorkStep ==
  ASSUME TypeOK, PaidInv, NEW p \in Order, Work(p), [Next]_vars
  PROVE  Work(p)'
<1>1. Steps
  BY NextSteps
<1>2. ASSUME NEW o \in Order,
             CreateReads(o)
      PROVE  Work(p)'
  BY <1>2 DEF CreateReads, Work, TypeOK, database, creation, submits, outside, history
<1>3. ASSUME NEW o \in Order,
             CreateCommits(o)
      PROVE  Work(p)'
  BY <1>3 DEF CreateCommits, Work, TypeOK, database, creation, submits, outside, history
<1>4. ASSUME NEW o \in Order,
             InitiatePayment(o)
      PROVE  Work(p)'
  <2>1. p = o => creating[p].phase = "done"
    BY <1>4, Created DEF InitiatePayment
  <2> QED
    BY <1>4, <2>1 DEF InitiatePayment, Work, TypeOK, creation, database, history
<1>5. ASSUME NEW o \in Order,
             Pay(o)
      PROVE  Work(p)'
  <2>1. paid[o] \in Nat /\ opened[o] \in Int
    BY DEF TypeOK
  <2>2. p = o => creating[p].phase = "done"
    BY <1>5, <2>1, Created DEF Pay
  <2> QED
    BY <1>5, <2>2 DEF Pay, Work, TypeOK, creation, database, history
<1>6. ASSUME NEW o \in Order, NEW own \in BOOLEAN,
             VerifyPayment(o, own)
      PROVE  Work(p)'
  <2>1. p = o => creating[p].phase = "done"
    BY <1>6, Created DEF VerifyPayment
  <2> QED
    BY <1>6, <2>1 DEF VerifyPayment, Work, TypeOK, creation, outside, history
<1>7. ASSUME NEW o \in Order, NEW s \in Word,
             UpdateOrder(o, s)
      PROVE  Work(p)'
  <2>1. p = o => creating[p].phase = "done"
    BY <1>7, Created DEF UpdateOrder
  <2>2. p = o => p \in edited'
    BY <1>7 DEF UpdateOrder
  <2>3. p # o => status'[p] = status[p] /\ (p \in edited' <=> p \in edited)
    BY <1>7 DEF UpdateOrder, TypeOK
  <2>4. UNCHANGED <<creating, opened, paid, parcel, hooks, captured, made>>
    BY <1>7 DEF UpdateOrder, creation, outside
  <2> QED
    BY <2>1, <2>2, <2>3, <2>4 DEF Work
<1>8. ASSUME NEW k \in Submission, NEW o \in Order,
             Submit(k, o)
      PROVE  Work(p)'
  BY <1>8 DEF Submit, Work, TypeOK, database, creation, submits, outside, history
<1>9. ASSUME NEW o \in Order,
             PrintfulShips(o)
      PROVE  Work(p)'
  BY <1>9 DEF PrintfulShips, Work, TypeOK, database, creation, submits, outside, history
<1>10. ASSUME NEW o \in Order,
             PrintfulTakesBack(o)
      PROVE  Work(p)'
  BY <1>10 DEF PrintfulTakesBack, Work, TypeOK, database, creation, submits, outside, history
<1>11. ASSUME NEW event \in {"package_shipped", "package_returned"}, NEW o \in Order,
             PrintfulWebhook(event, o)
      PROVE  Work(p)'
  <2>1. p = o => made[p] > 0
    BY <1>11 DEF PrintfulWebhook, Work
  <2>2. p = o => creating[p].phase = "done"
    BY <2>1, Created
  <2> QED
    BY <1>11, <2>1, <2>2 DEF PrintfulWebhook, Work, TypeOK, creation, history
<1>12. ASSUME NEW k \in Submission,
             PrintfulDecides(k)
      PROVE  Work(p)'
  <2>1. made[p] \in Nat /\ made'[p] \in Nat /\ made'[p] >= made[p]
    BY <1>12, MadeGrows DEF PrintfulDecides
  <2>2. UNCHANGED <<creating, status, opened, paid, parcel, hooks, captured, edited>>
    BY <1>12 DEF PrintfulDecides, database, creation, history
  <2> QED
    BY <2>1, <2>2 DEF Work
<1>13. ASSUME NEW k \in Submission,
             SubmitAnswered(k)
      PROVE  Work(p)'
  <2>1. captured[call[k].order]
    BY <1>13 DEF SubmitAnswered, PaidInv
  <2>2. p = call[k].order => creating[p].phase = "done"
    BY <2>1, Created
  <2>3. UNCHANGED <<creating, opened, paid, parcel, hooks, captured, made, edited>>
    BY <1>13 DEF SubmitAnswered, creation, outside, history
  <2>4. \/ status'[p] = status[p]
        \/ p = call[k].order /\ status'[p] = "production"
    BY <1>13 DEF SubmitAnswered, TypeOK
  <2> QED
    BY <2>1, <2>2, <2>3, <2>4 DEF Work
<1>14. ASSUME NEW k \in Submission,
             SubmitFails(k)
      PROVE  Work(p)'
  <2>1. made[p] \in Nat /\ made'[p] \in Nat /\ made'[p] >= made[p]
    BY <1>14, MadeGrows DEF SubmitFails
  <2>2. UNCHANGED <<creating, status, opened, paid, parcel, hooks, captured, edited>>
    BY <1>14 DEF SubmitFails, database, creation, history
  <2> QED
    BY <2>1, <2>2 DEF Work
<1>15. ASSUME UNCHANGED vars PROVE  Work(p)'
  BY <1>15 DEF Work, TypeOK, database, creation, submits, outside, history, vars
<1> QED
  BY <1>1, <1>2, <1>3, <1>4, <1>5, <1>6, <1>7, <1>8, <1>9, <1>10,
     <1>11, <1>12, <1>13, <1>14, <1>15, Zenon DEF Steps

(* What a submission loaded remains true of Printful's orders. *)
LEMMA AgainStep ==
  ASSUME TypeOK, PaidInv, \A p \in Order : Work(p),
         NEW j \in Submission, Again(j), [Next]_vars
  PROVE  Again(j)'
<1>1. Steps
  BY NextSteps
<1>2. ASSUME NEW o \in Order,
             CreateReads(o)
      PROVE  Again(j)'
  BY <1>2 DEF CreateReads, Again, TypeOK, database, creation, submits, outside, history
<1>3. ASSUME NEW o \in Order,
             CreateCommits(o)
      PROVE  Again(j)'
  BY <1>3 DEF CreateCommits, Again, TypeOK, database, creation, submits, outside, history
<1>4. ASSUME NEW o \in Order,
             InitiatePayment(o)
      PROVE  Again(j)'
  BY <1>4 DEF InitiatePayment, Again, TypeOK, database, creation, submits, outside, history
<1>5. ASSUME NEW o \in Order,
             Pay(o)
      PROVE  Again(j)'
  BY <1>5 DEF Pay, Again, TypeOK, database, creation, submits, outside, history
<1>6. ASSUME NEW o \in Order, NEW own \in BOOLEAN,
             VerifyPayment(o, own)
      PROVE  Again(j)'
  BY <1>6 DEF VerifyPayment, Again, TypeOK, database, creation, submits, outside, history
<1>7. ASSUME NEW o \in Order, NEW s \in Word,
             UpdateOrder(o, s)
      PROVE  Again(j)'
  BY <1>7 DEF UpdateOrder, Again, TypeOK, database, creation, submits, outside, history
<1>8. ASSUME NEW k \in Submission, NEW o \in Order,
             Submit(k, o)
      PROVE  Again(j)'
  <2>1. UNCHANGED <<made, edited>>
    BY <1>8 DEF Submit, outside, history
  <2>2. j # k => call'[j] = call[j]
    BY <1>8 DEF Submit, TypeOK
  <2>3. j = k => call'[j] = [phase |-> "sent", order |-> o, loaded |-> status[o]]
    BY <1>8 DEF Submit, TypeOK
  <2>4. status[o] \in {"shipped", "canceled"} /\ o \notin edited => made[o] > 0
    BY DEF Work
  <2>5. CASE j # k
    BY <2>1, <2>2, <2>5 DEF Again
  <2>6. CASE j = k
    BY <2>1, <2>3, <2>4, <2>6 DEF Again
  <2> QED
    BY <2>5, <2>6
<1>9. ASSUME NEW o \in Order,
             PrintfulShips(o)
      PROVE  Again(j)'
  BY <1>9 DEF PrintfulShips, Again, TypeOK, database, creation, submits, outside, history
<1>10. ASSUME NEW o \in Order,
             PrintfulTakesBack(o)
      PROVE  Again(j)'
  BY <1>10 DEF PrintfulTakesBack, Again, TypeOK, database, creation, submits, outside, history
<1>11. ASSUME NEW event \in {"package_shipped", "package_returned"}, NEW o \in Order,
             PrintfulWebhook(event, o)
      PROVE  Again(j)'
  BY <1>11 DEF PrintfulWebhook, Again, TypeOK, database, creation, submits, outside, history
<1>12. ASSUME NEW k \in Submission,
             PrintfulDecides(k)
      PROVE  Again(j)'
  <2>1. /\ UNCHANGED edited
        /\ \A q \in Order : made[q] \in Nat /\ made'[q] \in Nat /\ made'[q] >= made[q]
    BY <1>12, MadeGrows DEF PrintfulDecides, history
  <2>2. call[j].phase # "idle" => call[j].order \in Order
    BY DEF PaidInv, CallsAreOfOrders
  <2>3. CASE j # k
    <3>1. call'[j] = call[j]
      BY <1>12, <2>3 DEF PrintfulDecides, TypeOK
    <3> QED
      BY <2>1, <2>2, <3>1 DEF Again
  <2>4. CASE j = k
    <3>1. call[j].phase = "sent"
      BY <1>12, <2>4 DEF PrintfulDecides
    <3>2. call'[j].order = call[j].order /\ call'[j].loaded = call[j].loaded
      <4>1. PICK x \in {"taken", "refused"} : call' = [call EXCEPT ![k].phase = x]
        BY <1>12 DEF PrintfulDecides
      <4> QED
        BY <4>1 DEF TypeOK
    <3>3. call'[j].phase \in {"taken", "refused"}
      BY <1>12, <2>4 DEF PrintfulDecides, TypeOK
    <3>4. call'[j].phase = "taken" => made'[call[j].order] = made[call[j].order] + 1
      BY <1>12, <2>2, <2>4, <3>1 DEF PrintfulDecides, TypeOK
    <3> QED
      BY <2>1, <2>2, <3>1, <3>2, <3>3, <3>4 DEF Again
  <2> QED
    BY <2>3, <2>4
<1>13. ASSUME NEW k \in Submission,
             SubmitAnswered(k)
      PROVE  Again(j)'
  <2>1. UNCHANGED <<made, edited>>
    BY <1>13 DEF SubmitAnswered, outside, history
  <2>2. j # k => call'[j] = call[j]
    BY <1>13 DEF SubmitAnswered, TypeOK
  <2>3. j = k => call'[j].phase = "done"
    BY <1>13 DEF SubmitAnswered, TypeOK
  <2>4. CASE j # k
    BY <2>1, <2>2, <2>4 DEF Again
  <2>5. CASE j = k
    BY <2>3, <2>5 DEF Again
  <2> QED
    BY <2>4, <2>5
<1>14. ASSUME NEW k \in Submission,
             SubmitFails(k)
      PROVE  Again(j)'
  <2>1. /\ UNCHANGED edited
        /\ \A q \in Order : made[q] \in Nat /\ made'[q] \in Nat /\ made'[q] >= made[q]
    BY <1>14, MadeGrows DEF SubmitFails, history
  <2>2. call[j].phase # "idle" => call[j].order \in Order
    BY DEF PaidInv, CallsAreOfOrders
  <2>3. j # k => call'[j] = call[j]
    BY <1>14 DEF SubmitFails, TypeOK
  <2>4. j = k => call'[j].phase = "done"
    BY <1>14 DEF SubmitFails, TypeOK
  <2> QED
    BY <2>1, <2>2, <2>3, <2>4 DEF Again
<1>15. ASSUME UNCHANGED vars PROVE  Again(j)'
  BY <1>15 DEF Again, TypeOK, database, creation, submits, outside, history, vars
<1> QED
  BY <1>1, <1>2, <1>3, <1>4, <1>5, <1>6, <1>7, <1>8, <1>9, <1>10,
     <1>11, <1>12, <1>13, <1>14, <1>15, Zenon DEF Steps

(* What GoesBackOnlyLate says of one order. *)
Late(p) ==
    Rank(status'[p]) < Rank(status[p]) =>
          \/ captured[p] /\ \E own \in BOOLEAN : VerifyPayment(p, own)
          \/ \E k \in Submission :
                /\ call[k].order = p /\ SubmitAnswered(k)
                /\ call[k].loaded # status[p] \/ made[p] > 1
          \/ PrintfulWebhook("package_shipped", p) /\ status[p] = "canceled"

(* The statuses that are not set by hand, and their order. *)
Stored == {"none", "pending", "confirmed", "production", "shipped", "canceled"}

LEMMA Ranks ==
  /\ Rank("none") = 0 /\ Rank("pending") = 1 /\ Rank("confirmed") = 2
  /\ Rank("production") = 3 /\ Rank("shipped") = 4 /\ Rank("canceled") = 5
BY DEF Rank

LEMMA StoredUnlessEdited ==
  ASSUME TypeOK, NEW p \in Order, Work(p), p \notin edited
  PROVE  status[p] \in Stored
BY DEF TypeOK, Work, OrderStatus, Word, Stored

LEMMA NotBack ==
  ASSUME NEW p \in Order, status[p] \in Stored, status'[p] = status[p]
  PROVE  Late(p)
<1>1. Rank(status[p]) \in Int
  BY Ranks DEF Stored
<1>2. ~(Rank(status'[p]) < Rank(status[p]))
  BY <1>1
<1> QED
  BY <1>2 DEF Late

(* Nobody forgets that a status was set by hand. *)
LEMMA EditedGrows ==
  ASSUME [Next]_vars
  PROVE  edited \subseteq edited'
<1>1. UNCHANGED edited \/ \E o \in Order, s \in Word : UpdateOrder(o, s)
  BY NextSteps, Zenon DEF Steps, CreateReads, CreateCommits, InitiatePayment, Pay, VerifyPayment,
     Submit, PrintfulDecides, SubmitAnswered, SubmitFails, PrintfulShips, PrintfulTakesBack,
     PrintfulWebhook, vars, history
<1> QED
  BY <1>1 DEF UpdateOrder

(* Every step keeps to the workflow, but for the late ones. *)
LEMMA LateStep ==
  ASSUME TypeOK, PaidInv, \A p \in Order : Work(p), \A j \in Submission : Again(j),
         NEW p \in Order, p \notin edited', [Next]_vars
  PROVE  Late(p)
<1>0. status \in [Order -> OrderStatus]
  BY DEF TypeOK
<1>a. p \notin edited /\ status[p] \in Stored
  <2>1. edited \subseteq edited'
    BY EditedGrows
  <2> QED
    BY <2>1, StoredUnlessEdited
<1>1. Steps
  BY NextSteps
<1>2. ASSUME NEW o \in Order,
             CreateReads(o)
      PROVE  Late(p)
  BY <1>2, <1>a, NotBack DEF CreateReads, database
<1>3. ASSUME NEW o \in Order,
             CreateCommits(o)
      PROVE  Late(p)
  <2>1. CASE p = o
    <3>1. status[p] = "none" /\ status'[p] = "pending"
      BY <1>0, <1>3, <2>1 DEF CreateCommits, Work
    <3> QED
      BY <3>1, Ranks DEF Late
  <2>2. CASE p # o
    BY <1>0, <1>3, <2>2, <1>a, NotBack DEF CreateCommits
  <2> QED
    BY <2>1, <2>2
<1>4. ASSUME NEW o \in Order,
             InitiatePayment(o)
      PROVE  Late(p)
  BY <1>4, <1>a, NotBack DEF InitiatePayment, database
<1>5. ASSUME NEW o \in Order,
             Pay(o)
      PROVE  Late(p)
  BY <1>5, <1>a, NotBack DEF Pay, database
<1>6. ASSUME NEW o \in Order, NEW own \in BOOLEAN,
             VerifyPayment(o, own)
      PROVE  Late(p)
  <2>1. CASE p = o
    <3>1. status'[p] = "confirmed"
      BY <1>0, <1>6, <2>1 DEF VerifyPayment
    <3>2. status[p] \in {"production", "shipped", "canceled"} => captured[p]
      BY <1>a DEF Work, PaidInv
    <3>3. CASE status[p] \in {"production", "shipped", "canceled"}
      BY <1>6, <2>1, <3>2, <3>3, Zenon DEF Late
    <3>4. CASE status[p] \in {"none", "pending", "confirmed"}
      BY <3>1, <3>4, Ranks DEF Late
    <3> QED
      BY <1>a, <3>3, <3>4 DEF Stored
  <2>2. CASE p # o
    BY <1>0, <1>6, <2>2, <1>a, NotBack DEF VerifyPayment
  <2> QED
    BY <2>1, <2>2
<1>7. ASSUME NEW o \in Order, NEW s \in Word,
             UpdateOrder(o, s)
      PROVE  Late(p)
  <2>1. p # o
    BY <1>7 DEF UpdateOrder
  <2> QED
    BY <1>0, <1>a, <1>7, <2>1, NotBack DEF UpdateOrder
<1>8. ASSUME NEW k \in Submission, NEW o \in Order,
             Submit(k, o)
      PROVE  Late(p)
  BY <1>8, <1>a, NotBack DEF Submit, database
<1>9. ASSUME NEW o \in Order,
             PrintfulShips(o)
      PROVE  Late(p)
  BY <1>9, <1>a, NotBack DEF PrintfulShips, database
<1>10. ASSUME NEW o \in Order,
             PrintfulTakesBack(o)
      PROVE  Late(p)
  BY <1>10, <1>a, NotBack DEF PrintfulTakesBack, database
<1>11. ASSUME NEW event \in {"package_shipped", "package_returned"}, NEW o \in Order,
             PrintfulWebhook(event, o)
      PROVE  Late(p)
  <2>1. CASE p = o
    <3>1. status'[p] = IF event = "package_shipped" THEN "shipped" ELSE "canceled"
      BY <1>0, <1>11, <2>1 DEF PrintfulWebhook
    <3>2. CASE event = "package_shipped" /\ status[p] = "canceled"
      BY <1>11, <2>1, <3>2, Zenon DEF Late
    <3>3. CASE event = "package_returned" \/ status[p] # "canceled"
      BY <1>a, <3>1, <3>3, Ranks DEF Late, Stored
    <3> QED
      BY <3>2, <3>3
  <2>2. CASE p # o
    BY <1>0, <1>11, <2>2, <1>a, NotBack DEF PrintfulWebhook
  <2> QED
    BY <2>1, <2>2
<1>12. ASSUME NEW k \in Submission,
             PrintfulDecides(k)
      PROVE  Late(p)
  BY <1>12, <1>a, NotBack DEF PrintfulDecides, database
<1>13. ASSUME NEW k \in Submission,
             SubmitAnswered(k)
      PROVE  Late(p)
  <2>1. CASE status'[p] = status[p]
    BY <1>a, <2>1, NotBack
  <2>2. CASE status'[p] # status[p]
    <3>1. /\ call[k].order = p /\ call[k].phase = "taken"
          /\ call[k].loaded # "production" /\ status'[p] = "production"
      BY <1>0, <1>13, <2>2 DEF SubmitAnswered
    <3>2. call[k].loaded \in {"shipped", "canceled"} => made[p] > 1
      BY <1>a, <3>1 DEF Again
    <3>3. CASE status[p] \in {"shipped", "canceled"}
      <4>1. call[k].loaded # status[p] \/ made[p] > 1
        BY <3>2, <3>3
      <4> QED
        BY <1>13, <3>1, <4>1, Zenon DEF Late
    <3>4. CASE status[p] \in {"none", "pending", "confirmed", "production"}
      BY <3>1, <3>4, Ranks DEF Late
    <3> QED
      BY <1>a, <3>3, <3>4 DEF Stored
  <2> QED
    BY <2>1, <2>2
<1>14. ASSUME NEW k \in Submission,
             SubmitFails(k)
      PROVE  Late(p)
  BY <1>14, <1>a, NotBack DEF SubmitFails, database
<1>15. ASSUME UNCHANGED vars PROVE  Late(p)
  BY <1>15, <1>a, NotBack DEF vars, database
<1> QED
  BY <1>1, <1>2, <1>3, <1>4, <1>5, <1>6, <1>7, <1>8, <1>9, <1>10,
     <1>11, <1>12, <1>13, <1>14, <1>15, Zenon DEF Steps

(* An order whose status nobody set by hand goes back in its workflow only *)
(* through a verification that is repeated, or an answer or a              *)
(* package_shipped that comes after another change (submit_to_printful,    *)
(* printful_webhook, update_payment_status).                               *)
THEOREM BackOnlyLate == Spec => GoesBackOnlyLate
<1> DEFINE WorkInv == /\ PaidInv
                      /\ \A p \in Order : Work(p)
                      /\ \A j \in Submission : Again(j)
<1>1. Init => WorkInv
  BY DEF Init, PaidInv, CallsAreOfOrders, NotCalled, Work, Again
<1>2. TypeOK /\ WorkInv /\ [Next]_vars => WorkInv'
  BY PaidStep, WorkStep, AgainStep
<1>3. TypeOK /\ WorkInv /\ [Next]_vars => \A o \in Order \ edited' : Late(o)
  BY LateStep
<1>4. (\A o \in Order \ edited' : Late(o)) =>
        \A o \in Order \ edited' : Rank(status'[o]) < Rank(status[o]) =>
          \/ captured[o] /\ \E own \in BOOLEAN : VerifyPayment(o, own)
          \/ \E k \in Submission :
                /\ call[k].order = o /\ SubmitAnswered(k)
                /\ call[k].loaded # status[o] \/ made[o] > 1
          \/ PrintfulWebhook("package_shipped", o) /\ status[o] = "canceled"
  BY Zenon DEF Late
<1> HIDE DEF WorkInv
<1> QED
  BY <1>1, <1>2, <1>3, <1>4, TypeCorrect, PTL DEF Spec, GoesBackOnlyLate

=============================================================================
