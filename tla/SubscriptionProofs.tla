------------------------- MODULE SubscriptionProofs -------------------------
(***************************************************************************)
(* What holds of any number of subscriptions, API calls, webhooks, days    *)
(* and crashes of the scheduler: the types; that the scheduler bills       *)
(* nothing that is in a trial (what it has read may be old by then, but no *)
(* handler sets a status back to that of a trial); and that runs of     *)
(* which no two overlap bill a period twice only for one that died or a    *)
(* renewal that crossed one.  For the last the proof keeps an account,     *)
(* DupInv, of the periods that may be billed once more and of the mishaps  *)
(* that are not used up yet.                                               *)
(***************************************************************************)
EXTENDS Subscription, FiniteSetTheorems, TLAPS

(* The tables' rows, and what a request holds. *)
Invoice == [sub : Sub, start : Int, due : Int, auto : BOOLEAN,
            status : {"open", "overdue", "paid"}]
Asked   == [kind : Kinds \cup {"none"},
            pc : {"idle", "done", "insert", "commit", "invoice", "mark"},
            id : Sub \cup Nat \cup {None}, row : Row]

(* TypeOK, part by part, with what each step of a request or of a task implies. *)
ReqOK ==
    /\ req \in [Request -> Asked]
    /\ \A r \in Request :
         /\ req[r].pc \in {"insert", "commit", "invoice"} => req[r].id \in Sub
         /\ req[r].pc = "mark" => req[r].id \in DOMAIN invoices

RowsOK == sub \in [Sub -> Row] /\ now \in 0..MaxTime

BillsOK == invoices \in Seq(Invoice) /\ payments \in Seq(Sub)

ViewOK ==
    view # None => view \in SnapshotType /\ view.open \subseteq DOMAIN invoices

TodoOK ==
    /\ phase \in {"trials", "trialInvoice", "grace", "billing", "billPayment", "billAdvance"} =>
          todo \subseteq Sub
    /\ phase = "overdue" => todo \subseteq DOMAIN invoices

PhaseOK ==
    /\ phase \in {"idle", "trials", "trialInvoice", "grace", "billing",
                  "billPayment", "billAdvance", "overdue"}
    /\ (item # None) <=> (phase \in {"trialInvoice", "billPayment", "billAdvance"})
    /\ item # None => item \in Sub
    /\ dirty \subseteq DOMAIN invoices
    /\ began \in 0..MaxTime /\ crashes \in 0..MaxCrashes
    /\ crossed \in [Sub -> Nat] /\ overlapped \in BOOLEAN

SchedOK == ViewOK /\ TodoOK /\ PhaseOK

TInv == ReqOK /\ RowsOK /\ BillsOK /\ SchedOK

(* What the named assumptions say of each constant.                        *)
LEMMA Counts == /\ Trial \in Nat /\ Cycle \in Nat /\ Grace \in Nat /\ PayWithin \in Nat
                /\ MaxTime \in Nat /\ MaxCrashes \in Nat
BY Durations, BoundsAreCounts

(* A row that is not there is of the type of one. *)
LEMMA NoRowType == NoRow \in Row
BY DEF NoRow, Row, Statuses, Null

(* What create_subscription and create_institution insert are rows.        *)
LEMMA NewRowType ==
  ASSUME now \in 0..MaxTime, NEW d \in {0, Trial}
  PROVE  NewRow(d) \in Row /\ AdminRow(d) \in Row
<1> DEFINE next == now + IF d > 0 THEN d ELSE Cycle
           end  == IF d > 0 THEN now + d ELSE Null
           st   == IF d > 0 THEN "trialing" ELSE "active"
           st2  == IF d > 0 THEN "trial" ELSE "active"
<1>1. next \in Int /\ end \in Int /\ st \in Statuses /\ st2 \in Statuses /\ now + Cycle \in Int
  BY Counts DEF Null, Statuses
<1>2. NewRow(d) = [NoRow EXCEPT !.status = st, !.autoRenew = TRUE, !.trialEnd = end, !.nextBilling = next]
  BY DEF NewRow
<1> HIDE DEF next, end, st, st2
<1>3. NewRow(d) \in Row
  BY <1>1, <1>2, NoRowType DEF Row
<1>4. AdminRow(d) = [NewRow(d) EXCEPT !.status = st2, !.endDate = now + Cycle]
  BY DEF AdminRow, st2
<1>5. AdminRow(d) \in Row
  BY <1>1, <1>3, <1>4 DEF Row
<1> QED
  BY <1>3, <1>5

(* What the columns that a handler sets may be. *)
Assigns(a) ==
    /\ "status"      \in DOMAIN a => a["status"] \in {"active", "past_due", "canceled", "expired"}
    /\ "autoRenew"   \in DOMAIN a => a["autoRenew"] \in BOOLEAN
    /\ "canceled"    \in DOMAIN a => a["canceled"] \in BOOLEAN
    /\ "nextBilling" \in DOMAIN a => a["nextBilling"] \in Int
    /\ "trialEnd"    \in DOMAIN a => a["trialEnd"] \in Int
    /\ "graceEnd"    \in DOMAIN a => a["graceEnd"] \in Int
    /\ "endDate"     \in DOMAIN a => a["endDate"] \in Int

(* Every handler sets columns to values that Assigns allows.               *)
LEMMA Assignments ==
  ASSUME now \in 0..MaxTime, NEW d \in Int, NEW on \in BOOLEAN
  PROVE  /\ Assigns(Renewed) /\ Assigns(Lapsed) /\ Assigns(Expired)
         /\ Assigns([status |-> "canceled", endDate |-> now, canceled |-> TRUE, autoRenew |-> FALSE])
         /\ Assigns([endDate |-> d, canceled |-> TRUE, autoRenew |-> FALSE])
         /\ Assigns([autoRenew |-> on])
         /\ Assigns([nextBilling |-> d])
<1>0. now \in Int /\ now + Cycle \in Int /\ now + Grace \in Int /\ Null \in Int
  BY Counts DEF Null
<1>1. Assigns(Renewed)
  BY <1>0 DEF Assigns, Renewed
<1>2. Assigns(Lapsed)
  BY <1>0 DEF Assigns, Lapsed
<1>3. Assigns(Expired)
  BY <1>0 DEF Assigns, Expired
<1>4. Assigns([status |-> "canceled", endDate |-> now, canceled |-> TRUE, autoRenew |-> FALSE])
  BY <1>0 DEF Assigns
<1>5. Assigns([endDate |-> d, canceled |-> TRUE, autoRenew |-> FALSE])
  BY DEF Assigns
<1>6. Assigns([autoRenew |-> on]) /\ Assigns([nextBilling |-> d])
  BY DEF Assigns
<1> QED
  BY <1>1, <1>2, <1>3, <1>4, <1>5, <1>6

Written(row, loaded, a, c) ==
    IF /\ c \in DOMAIN a
       /\ \/ a[c] # loaded[c]
          \/ c \in DateColumns /\ a[c] # Null
    THEN a[c] ELSE row[c]

Columns == {"status", "autoRenew", "canceled", "nextBilling", "trialEnd", "graceEnd", "endDate"}

(* An UPDATE of the changed columns leaves a row, with its old status or   *)
(* one a handler sets.                                                     *)
LEMMA UpdateType ==
  ASSUME NEW row \in Row, NEW loaded, NEW a, Assigns(a)
  PROVE  /\ Update(row, loaded, a) \in Row
         /\ Update(row, loaded, a).status \in {row.status, "active", "past_due", "canceled", "expired"}
<1>1. DOMAIN row = Columns
  BY DEF Row, Columns
<1>2. Update(row, loaded, a) = [c \in Columns |-> Written(row, loaded, a, c)]
  BY <1>1, Zenon DEF Update, Written
<1>4. /\ row.status \in Statuses /\ row.autoRenew \in BOOLEAN /\ row.canceled \in BOOLEAN
      /\ row.nextBilling \in Int /\ row.trialEnd \in Int /\ row.graceEnd \in Int /\ row.endDate \in Int
  BY DEF Row
<1>5. /\ Written(row, loaded, a, "status") \in {row.status, "active", "past_due", "canceled", "expired"}
      /\ Written(row, loaded, a, "autoRenew") \in BOOLEAN /\ Written(row, loaded, a, "canceled") \in BOOLEAN
      /\ Written(row, loaded, a, "nextBilling") \in Int /\ Written(row, loaded, a, "trialEnd") \in Int
      /\ Written(row, loaded, a, "graceEnd") \in Int /\ Written(row, loaded, a, "endDate") \in Int
  BY <1>4 DEF Written, Assigns
<1>6. Written(row, loaded, a, "status") \in Statuses
  BY <1>4, <1>5 DEF Statuses
<1>7. Update(row, loaded, a) = [status      |-> Written(row, loaded, a, "status"),
                                autoRenew   |-> Written(row, loaded, a, "autoRenew"),
                                canceled    |-> Written(row, loaded, a, "canceled"),
                                nextBilling |-> Written(row, loaded, a, "nextBilling"),
                                trialEnd    |-> Written(row, loaded, a, "trialEnd"),
                                graceEnd    |-> Written(row, loaded, a, "graceEnd"),
                                endDate     |-> Written(row, loaded, a, "endDate")]
  BY <1>2 DEF Columns
<1>8. ASSUME NEW st \in Statuses, NEW ar \in BOOLEAN, NEW ca \in BOOLEAN, NEW nb \in Int,
             NEW te \in Int, NEW ge \in Int, NEW ed \in Int
      PROVE  [status |-> st, autoRenew |-> ar, canceled |-> ca, nextBilling |-> nb,
              trialEnd |-> te, graceEnd |-> ge, endDate |-> ed] \in Row
  BY DEF Row
<1>9. Update(row, loaded, a) \in Row
  BY <1>5, <1>6, <1>7, <1>8
<1> QED
  BY <1>5, <1>7, <1>9

(* A subscription that has left its trial does not come back to one. *)
Left(row)  == row.status \notin {"absent", "trial", "trialing"}
StaysLeft  == \A s \in Sub : Left(sub[s]) => Left(sub'[s])

(* An UPDATE by a handler keeps the types and sets nothing back.           *)
LEMMA WriteKeeps ==
  ASSUME RowsOK, NEW s \in Sub, NEW loaded, NEW a, Assigns(a), Write(s, loaded, a)
  PROVE  sub' \in [Sub -> Row] /\ StaysLeft
<1>1. sub[s] \in Row
  BY DEF RowsOK
<1>2. sub' = [sub EXCEPT ![s] = Update(sub[s], loaded, a)]
  BY DEF Write
<1>3. /\ Update(sub[s], loaded, a) \in Row
      /\ Update(sub[s], loaded, a).status \in {sub[s].status, "active", "past_due", "canceled", "expired"}
  BY <1>1, UpdateType
<1> QED
  BY <1>2, <1>3 DEF RowsOK, StaysLeft, Left

-----------------------------------------------------------------------------
(* No invoice goes, and none changes its subscription or its maker; those  *)
(* that come are made by the scheduler only for subscriptions that have    *)
(* left their trial.                                                       *)
InvoicesStay ==
    /\ DOMAIN invoices \subseteq DOMAIN invoices'
    /\ \A i \in DOMAIN invoices' :
          \/ /\ i \in DOMAIN invoices
             /\ invoices'[i].sub = invoices[i].sub /\ invoices'[i].auto = invoices[i].auto
          \/ invoices'[i].auto => Left(sub[invoices'[i].sub])

(* A step that leaves the invoices alone.                                  *)
LEMMA SameInvoices ==
  ASSUME BillsOK, invoices' = invoices
  PROVE  InvoicesStay
BY DEF InvoicesStay

(* generate_invoice, by the scheduler only for one that has left its       *)
(* trial.                                                                  *)
LEMMA AddKeeps ==
  ASSUME RowsOK, BillsOK, NEW s \in Sub, NEW start \in Int, NEW auto \in BOOLEAN,
         AddInvoice(s, start, auto), auto => Left(sub[s])
  PROVE  invoices' \in Seq(Invoice) /\ InvoicesStay
<1> DEFINE inv == [sub |-> s, start |-> start, due |-> now + PayWithin, status |-> "open", auto |-> auto]
<1>1. inv \in Invoice /\ inv.sub = s /\ inv.auto = auto
  BY Counts DEF Invoice, RowsOK
<1>2. invoices' = Append(invoices, inv) /\ invoices \in Seq(Invoice)
  BY DEF AddInvoice, BillsOK
<1> HIDE DEF inv
<1>3. /\ invoices' \in Seq(Invoice)
      /\ DOMAIN invoices = 1 .. Len(invoices) /\ DOMAIN invoices' = 1 .. Len(invoices) + 1
      /\ Len(invoices) \in Nat
      /\ invoices'[Len(invoices) + 1] = inv
      /\ \A i \in 1 .. Len(invoices) : invoices'[i] = invoices[i]
  BY <1>1, <1>2
<1>4. InvoicesStay
  BY <1>1, <1>3 DEF InvoicesStay
<1> QED
  BY <1>3, <1>4

(* The status of some is changed.                                          *)
LEMMA MarkKeeps ==
  ASSUME BillsOK, NEW I, NEW st \in {"open", "overdue", "paid"},
         invoices' = [i \in DOMAIN invoices |->
                        IF i \in I THEN [invoices[i] EXCEPT !.status = st] ELSE invoices[i]]
  PROVE  invoices' \in Seq(Invoice) /\ InvoicesStay
<1>1. DOMAIN invoices = 1 .. Len(invoices) /\ Len(invoices) \in Nat
  BY DEF BillsOK
<1>2. ASSUME NEW i \in DOMAIN invoices
      PROVE  /\ invoices'[i] \in Invoice
             /\ invoices'[i].sub = invoices[i].sub /\ invoices'[i].auto = invoices[i].auto
  <2>1. invoices[i] \in Invoice
    BY DEF BillsOK
  <2> QED
    BY <2>1 DEF Invoice
<1>3. DOMAIN invoices' = DOMAIN invoices
  OBVIOUS
<1>4. invoices' \in Seq(Invoice)
  <2>1. invoices' = [i \in 1 .. Len(invoices) |-> invoices'[i]]
    BY <1>1
  <2>2. \A i \in 1 .. Len(invoices) : invoices'[i] \in Invoice
    BY <1>1, <1>2
  <2> QED
    BY <1>1, <2>1, <2>2
<1> QED
  BY <1>2, <1>3, <1>4 DEF InvoicesStay

(* The scheduler's commit of the invoices it marked.                       *)
LEMMA OverdueKeeps ==
  ASSUME BillsOK, NEW I, MarkOverdue(I)
  PROVE  invoices' \in Seq(Invoice) /\ InvoicesStay
BY MarkKeeps DEF MarkOverdue

(* mark_invoice_paid.                                                      *)
LEMMA PaidKeeps ==
  ASSUME BillsOK, NEW k, invoices' = [invoices EXCEPT ![k].status = "paid"]
  PROVE  invoices' \in Seq(Invoice) /\ InvoicesStay
<1>1. invoices' = [i \in DOMAIN invoices |->
                     IF i \in {k} THEN [invoices[i] EXCEPT !.status = "paid"] ELSE invoices[i]]
  BY DEF BillsOK
<1> QED
  BY <1>1, MarkKeeps

(* create_payment.                                                         *)
LEMMA AddPaymentKeeps ==
  ASSUME BillsOK, NEW s \in Sub, AddPayment(s)
  PROVE  payments' \in Seq(Sub)
BY DEF AddPayment, BillsOK

-----------------------------------------------------------------------------
(* A request that begins, goes on or ends.                                 *)
LEMMA SameReq ==
  ASSUME ReqOK, req' = req, InvoicesStay
  PROVE  ReqOK'
BY DEF ReqOK, InvoicesStay

(* A request goes on with what it has read.                                *)
LEMMA BeginKeeps ==
  ASSUME ReqOK, InvoicesStay, NEW r \in Request, NEW k,
         NEW pc \in {"insert", "commit", "invoice", "mark"},
         NEW id, NEW x \in Row, Begin(r, k, pc, id, x),
         pc # "mark" => id \in Sub, pc = "mark" => id \in DOMAIN invoices /\ id \in Nat
  PROVE  ReqOK'
<1>1. [kind |-> k, pc |-> pc, id |-> id, row |-> x] \in Asked
  BY DEF Begin, Asked
<1>2. req' = [req EXCEPT ![r] = [kind |-> k, pc |-> pc, id |-> id, row |-> x]]
  BY DEF Begin
<1>3. req' \in [Request -> Asked]
  BY <1>1, <1>2 DEF ReqOK
<1>4. ASSUME NEW q \in Request
      PROVE  /\ req'[q].pc \in {"insert", "commit", "invoice"} => req'[q].id \in Sub
             /\ req'[q].pc = "mark" => req'[q].id \in DOMAIN invoices'
  <2>1. CASE q = r
    <3>1. req'[q].pc = pc /\ req'[q].id = id
      BY <1>2, <2>1 DEF ReqOK
    <3> QED
      BY <3>1 DEF InvoicesStay
  <2>2. CASE q # r
    BY <1>2, <2>2 DEF ReqOK, InvoicesStay
  <2> QED
    BY <2>1, <2>2
<1> QED
  BY <1>3, <1>4 DEF ReqOK

(* A request ends.                                                         *)
LEMMA FinishKeeps ==
  ASSUME ReqOK, InvoicesStay, NEW r \in Request, Finish(r)
  PROVE  ReqOK'
<1>1. Done \in Asked /\ Done.pc = "done"
  BY NoRowType DEF Done, Idle, Asked
<1>2. req' \in [Request -> Asked]
  BY <1>1 DEF Finish, ReqOK
<1>3. \A q \in Request : q # r => req'[q] = req[q]
  BY DEF Finish, ReqOK
<1>4. req'[r].pc = "done"
  BY <1>1 DEF Finish, ReqOK
<1> QED
  BY <1>2, <1>3, <1>4 DEF ReqOK, InvoicesStay

(* What the scheduler has in hand stays of its type when invoices are      *)
(* added.                                                                  *)
RunSame == /\ UNCHANGED <<phase, todo, item, view, dirty, began, crashes, parked, overlapped>>
           /\ crossed' \in [Sub -> Nat]

LEMMA SameSched ==
  ASSUME SchedOK, RunSame, InvoicesStay
  PROVE  SchedOK'
BY DEF SchedOK, ViewOK, TodoOK, PhaseOK, beside, RunSame, InvoicesStay

(* A step that leaves the scheduler alone.                                 *)
LEMMA SchedSame ==
  ASSUME SchedOK, sched' = sched
  PROVE  RunSame
BY DEF SchedOK, PhaseOK, RunSame, sched, beside

-----------------------------------------------------------------------------
(* Who has left the trial in what the scheduler has read has left it, and  *)
(* those on its list of renewals have.                                     *)
ViewLeft == view # None => \A s \in Sub : Left(view.sub[s]) => Left(sub[s])

Billing  == {"billing", "billPayment", "billAdvance"}
TodoLeft == phase \in Billing => \A s \in todo : Left(sub[s])

(* The same of a run whose turn it is not. *)
HeldOK(run) ==
    /\ RunOK(run)
    /\ run.view # None =>
         /\ run.view \in SnapshotType /\ run.view.open \subseteq DOMAIN invoices
         /\ \A s \in Sub : Left(run.view.sub[s]) => Left(sub[s])
    /\ run.phase \in {"trials", "trialInvoice", "grace"} \cup Billing => run.todo \subseteq Sub
    /\ run.phase = "overdue" => run.todo \subseteq DOMAIN invoices
    /\ run.phase \in Billing => \A s \in run.todo : Left(sub[s])

ParkedOK == /\ parked = [x \in Aside |-> parked[x]]
            /\ \A x \in Aside : HeldOK(parked[x])

Inv == TInv /\ TrialNotBilled /\ ViewLeft /\ TodoLeft /\ ParkedOK

(* The types the proof goes through are narrower than TypeOK.              *)
LEMMA TypesFollow == Inv => TypeOK
<1> SUFFICES ASSUME Inv PROVE TypeOK
  OBVIOUS
<1>1. RunOK(ThisRun)
  BY DEF Inv, TInv, SchedOK, PhaseOK, RunOK, ThisRun
<1>2. \A x \in Aside : RunOK(parked[x])
  BY DEF Inv, ParkedOK, HeldOK
<1>3. \A r \in Request : req[r].kind \in Kinds \cup {"none"} /\ req[r].row \in Row
  BY DEF Inv, TInv, ReqOK, Asked
<1> QED
  BY <1>1, <1>2, <1>3 DEF Inv, TInv, TypeOK, RowsOK, BillsOK, SchedOK, PhaseOK, Invoice

(* The run whose turn it is can be put aside.                              *)
LEMMA ThisRunHeld ==
  ASSUME Inv
  PROVE  HeldOK(ThisRun)
<1>1. /\ ThisRun.phase = phase /\ ThisRun.todo = todo /\ ThisRun.item = item
      /\ ThisRun.view = view /\ ThisRun.dirty = dirty /\ ThisRun.began = began
  BY DEF ThisRun
<1>2. RunOK(ThisRun)
  BY <1>1 DEF Inv, TInv, SchedOK, PhaseOK, RunOK
<1> QED
  BY <1>1, <1>2 DEF HeldOK, Inv, TInv, SchedOK, ViewOK, TodoOK, ViewLeft, TodoLeft, Billing

(* A step leaves the runs aside, or puts this one there.                   *)
Parks == parked' = parked \/ \E x \in Aside : parked' = [parked EXCEPT ![x] = ThisRun]

LEMMA ParkedStays ==
  ASSUME beside' = beside
  PROVE  Parks
BY DEF beside, Parks

(* What a run has in hand is good when its turn comes, whatever was        *)
(* committed meanwhile.                                                    *)
LEMMA ParkedKeeps ==
  ASSUME Inv, StaysLeft, InvoicesStay, Parks
  PROVE  ParkedOK'
<1>1. ASSUME NEW run, HeldOK(run) PROVE HeldOK(run)'
  <2>1. RunOK(run)'
    BY <1>1 DEF HeldOK, RunOK, InvoicesStay
  <2>2. run.view # None =>
         /\ run.view \in SnapshotType /\ run.view.open \subseteq DOMAIN invoices'
         /\ \A s \in Sub : Left(run.view.sub[s]) => Left(sub'[s])
    BY <1>1 DEF HeldOK, InvoicesStay, StaysLeft
  <2>3. /\ run.phase \in {"trials", "trialInvoice", "grace"} \cup Billing => run.todo \subseteq Sub
        /\ run.phase = "overdue" => run.todo \subseteq DOMAIN invoices'
    BY <1>1 DEF HeldOK, InvoicesStay
  <2>4. run.phase \in Billing => \A s \in run.todo : Left(sub'[s])
    BY <1>1 DEF HeldOK, StaysLeft
  <2> QED
    BY <2>1, <2>2, <2>3, <2>4 DEF HeldOK
<1>2. ASSUME NEW y \in Aside PROVE HeldOK(parked[y])'
  <2>1. HeldOK(ThisRun) /\ HeldOK(parked[y])
    BY ThisRunHeld DEF Inv, ParkedOK
  <2>2. parked'[y] = parked[y] \/ parked'[y] = ThisRun
    BY DEF Parks, Inv, ParkedOK
  <2>3. ASSUME NEW run, HeldOK(run), parked'[y] = run PROVE HeldOK(parked[y])'
    <3>1. HeldOK(run)'
      BY <1>1, <2>3
    <3> QED
      BY <2>3, <3>1 DEF HeldOK, RunOK
  <2> QED
    BY <2>1, <2>2, <2>3
<1>3. parked' = [y \in Aside |-> parked'[y]]
  BY DEF Parks, Inv, ParkedOK
<1> QED
  BY <1>2, <1>3 DEF ParkedOK

(* The turn goes to a run that was aside.                                  *)
TakesUp(x) == phase' = parked[x].phase /\ todo' = parked[x].todo /\ view' = parked[x].view

(* What a step has to show: the types, that writes set no trial back, and  *)
(* that the scheduler's list got shorter or is a list of such as have left *)
(* their trial.                                                            *)
LEMMA Conclude ==
  ASSUME Inv, ReqOK', RowsOK', BillsOK', SchedOK', StaysLeft, InvoicesStay, Parks,
         \/ view' = view \/ view' = None \/ (view' = Snapshot /\ sub' = sub)
         \/ \E x \in Aside : TakesUp(x),
         \/ phase' \notin Billing
         \/ phase \in Billing /\ todo' \subseteq todo
         \/ \A s \in todo' : Left(sub[s])
         \/ \E x \in Aside : TakesUp(x)
  PROVE  Inv'
<1>1. TInv'
  BY DEF TInv
<1>2. TrialNotBilled'
  <2>1. ASSUME NEW i \in DOMAIN invoices', invoices'[i].auto PROVE Left(sub'[invoices'[i].sub])
    <3>1. invoices'[i].sub \in Sub
      <4>1. invoices'[i] \in Invoice
        BY DEF BillsOK
      <4> QED
        BY <4>1 DEF Invoice
    <3>2. Left(sub[invoices'[i].sub])
      BY <2>1 DEF InvoicesStay, Inv, TrialNotBilled, Left
    <3> QED
      BY <3>1, <3>2 DEF StaysLeft
  <2> QED
    BY <2>1 DEF TrialNotBilled, Left
<1>3. ViewLeft'
  <2>1. CASE view' = Snapshot /\ sub' = sub
    <3>1. view'.sub = sub
      BY <2>1 DEF Snapshot
    <3> QED
      BY <2>1, <3>1 DEF ViewLeft
  <2>2. CASE view' = view
    BY <2>2 DEF Inv, ViewLeft, StaysLeft
  <2>3. CASE view' = None
    BY <2>3 DEF ViewLeft
  <2>4. ASSUME NEW x \in Aside, TakesUp(x) PROVE ViewLeft'
    BY <2>4 DEF TakesUp, Inv, ParkedOK, HeldOK, ViewLeft, StaysLeft
  <2> QED
    BY <2>1, <2>2, <2>3, <2>4
<1>4. TodoLeft'
  <2>1. phase' \in Billing => todo' \subseteq Sub
    BY DEF SchedOK, TodoOK, Billing
  <2>2. phase' \in Billing => \A s \in todo' : Left(sub[s])
    BY DEF TakesUp, Inv, TodoLeft, ParkedOK, HeldOK
  <2> QED
    BY <2>1, <2>2 DEF TodoLeft, StaysLeft
<1>5. ParkedOK'
  BY ParkedKeeps
<1> QED
  BY <1>1, <1>2, <1>3, <1>4, <1>5 DEF Inv

(* A step that leaves the subscriptions alone.                             *)
LEMMA SameRows ==
  ASSUME RowsOK, sub' = sub, now' = now
  PROVE  RowsOK' /\ StaysLeft
BY DEF RowsOK, StaysLeft

(* A step that leaves invoices and payments alone.                         *)
LEMMA SameBills ==
  ASSUME BillsOK, invoices' = invoices, payments' = payments
  PROVE  BillsOK' /\ InvoicesStay
BY SameInvoices DEF BillsOK

(* A step of a request, which the scheduler does not notice.               *)
LEMMA RequestConclude ==
  ASSUME Inv, ReqOK', RowsOK', BillsOK', StaysLeft, InvoicesStay, RunSame
  PROVE  Inv'
<1>1. SchedOK'
  BY SameSched DEF Inv, TInv
<1>2. view' = view /\ phase' = phase /\ todo' = todo /\ Parks
  BY DEF RunSame, Parks
<1>3. phase' \notin Billing \/ (phase \in Billing /\ todo' \subseteq todo)
  BY <1>2
<1> QED
  BY <1>1, <1>2, <1>3, Conclude

(* A request that only reads, or ends.                                     *)
LEMMA ReadKeeps ==
  ASSUME Inv, ReqOK', UNCHANGED <<now, tables, sched>>
  PROVE  Inv'
<1>1. sub' = sub /\ now' = now /\ invoices' = invoices /\ payments' = payments /\ RunSame
  BY SchedSame DEF tables, Inv, TInv
<1>2. RowsOK' /\ StaysLeft
  BY <1>1, SameRows DEF Inv, TInv
<1>3. BillsOK' /\ InvoicesStay
  BY <1>1, SameBills DEF Inv, TInv
<1> QED
  BY <1>1, <1>2, <1>3, RequestConclude

(* create_subscription: the check.                                         *)
LEMMA CreateCheckKeeps ==
  ASSUME Inv, NEW r \in Request, NEW s \in Sub, CreateCheck(r, s)
  PROVE  Inv'
<1>1. InvoicesStay
  BY SameInvoices DEF CreateCheck, tables, Inv, TInv
<1>2. ReqOK'
  BY <1>1, BeginKeeps, NoRowType DEF CreateCheck, Inv, TInv
<1> QED
  BY <1>2, ReadKeeps DEF CreateCheck

(* The reads and refusals of cancel_subscription and renew_subscription.   *)
LEMMA LoadKeeps ==
  ASSUME Inv, NEW r \in Request, NEW s \in Sub, NEW k, Load(r, k, s) \/ Refuse(r, k, s)
  PROVE  Inv'
<1>1. InvoicesStay
  BY SameInvoices DEF Load, Refuse, tables, Inv, TInv
<1>2. ReqOK'
  <2>1. CASE Load(r, k, s)
    <3>1. sub[s] \in Row
      BY DEF Inv, TInv, RowsOK
    <3> QED
      BY <1>1, <2>1, <3>1, BeginKeeps DEF Load, Inv, TInv
  <2>2. CASE Refuse(r, k, s)
    BY <1>1, <2>2, FinishKeeps DEF Refuse, Inv, TInv
  <2> QED
    BY <2>1, <2>2
<1> QED
  BY <1>2, ReadKeeps DEF Load, Refuse

(* create_subscription: the insertion of a row that was absent.            *)
LEMMA CreateInsertKeeps ==
  ASSUME Inv, NEW r \in Request, CreateInsert(r)
  PROVE  Inv'
<1>1. PICK s \in Sub, d \in {0, Trial} : sub[s].status = "absent" /\ sub' = [sub EXCEPT ![s] = NewRow(d)]
  BY DEF CreateInsert
<1>2. NewRow(d) \in Row
  BY NewRowType DEF Inv, TInv, RowsOK
<1>3. RowsOK' /\ StaysLeft
  BY <1>1, <1>2 DEF CreateInsert, Inv, TInv, RowsOK, StaysLeft, Left
<1>4. BillsOK' /\ InvoicesStay
  BY SameBills DEF CreateInsert, Inv, TInv
<1>5. ReqOK'
  BY <1>4, FinishKeeps DEF CreateInsert, Inv, TInv
<1> QED
  BY <1>3, <1>4, <1>5, SchedSame, RequestConclude DEF CreateInsert, Inv, TInv

(* The commit of a request, but for what becomes of the request.           *)
LEMMA CommitKeeps ==
  ASSUME Inv, NEW r \in Request, NEW k, NEW a, Assigns(a), Commit(r, k, a),
         crossed' \in [Sub -> Nat]
  PROVE  /\ RowsOK' /\ StaysLeft /\ BillsOK' /\ InvoicesStay /\ RunSame
         /\ req[r].id \in Sub
<1>1. req[r].id \in Sub
  BY DEF Inv, TInv, ReqOK, Commit, At
<1>2. sub' \in [Sub -> Row] /\ StaysLeft
  BY <1>1, WriteKeeps DEF Commit, Inv, TInv
<1>3. RowsOK'
  BY <1>2 DEF Commit, Inv, TInv, RowsOK
<1>4. BillsOK' /\ InvoicesStay
  BY SameBills DEF Commit, Inv, TInv
<1> QED
  BY <1>1, <1>2, <1>3, <1>4 DEF Commit, RunSame

(* A commit with which the request ends.                                   *)
LEMMA CommitEndsKeeps ==
  ASSUME Inv, NEW r \in Request, NEW k, NEW a, Assigns(a), Commit(r, k, a), Finish(r),
         UNCHANGED crossed
  PROVE  Inv'
<1>0. crossed' \in [Sub -> Nat]
  BY DEF Inv, TInv, SchedOK, PhaseOK
<1>1. ReqOK'
  BY <1>0, CommitKeeps, FinishKeeps DEF Inv, TInv
<1> QED
  BY <1>0, <1>1, CommitKeeps, RequestConclude

(* The requests that end with their commit.                                *)
LEMMA CommitsKeep ==
  ASSUME Inv, NEW r \in Request,
         CancelNow(r) \/ CancelEnd(r) \/ SetAutoRenew(r) \/ HandleFailedPayment(r)
  PROVE  Inv'
<1>0. now \in 0..MaxTime
  BY DEF Inv, TInv, RowsOK
<1>1. req[r].row.nextBilling \in Int
  BY DEF Inv, TInv, ReqOK, Asked, Row
<1>2. CASE CancelNow(r)
  BY <1>0, <1>1, <1>2, Assignments, CommitEndsKeeps DEF CancelNow
<1>3. CASE CancelEnd(r)
  BY <1>0, <1>1, <1>3, Assignments, CommitEndsKeeps DEF CancelEnd
<1>4. CASE SetAutoRenew(r)
  BY <1>0, <1>1, <1>4, Assignments, CommitEndsKeeps DEF SetAutoRenew
<1>5. CASE HandleFailedPayment(r)
  BY <1>0, <1>1, <1>5, Assignments, CommitEndsKeeps DEF HandleFailedPayment
<1> QED
  BY <1>2, <1>3, <1>4, <1>5

(* renew_subscription: the commit, before the invoice.                     *)
LEMMA RenewCommitKeeps ==
  ASSUME Inv, NEW r \in Request, RenewCommit(r)
  PROVE  Inv'
<1>1. Assigns(Renewed) /\ Commit(r, "renew", Renewed)
  <2>1. now \in 0..MaxTime /\ 0 \in Int /\ TRUE \in BOOLEAN
    BY DEF Inv, TInv, RowsOK
  <2>2. Assigns(Renewed)
    BY <2>1, Assignments
  <2> QED
    BY <2>2 DEF RenewCommit
<1>2. /\ RowsOK' /\ StaysLeft /\ BillsOK' /\ InvoicesStay /\ RunSame
      /\ req[r].id \in Sub
  <2>1. crossed' \in [Sub -> Nat]
    <3>1. crossed \in [Sub -> Nat] /\ req[r].id \in Sub
      BY <1>1 DEF Commit, At, Inv, TInv, SchedOK, PhaseOK, ReqOK
    <3>2. crossed[req[r].id] + 1 \in Nat
      BY <3>1
    <3>3. [crossed EXCEPT ![req[r].id] = crossed[req[r].id] + 1] \in [Sub -> Nat]
      BY <3>1, <3>2
    <3> QED
      BY <3>1, <3>3 DEF RenewCommit
  <2> QED
    BY <1>1, <2>1, CommitKeeps
<1>3. ReqOK'
  <2>1. req' = [req EXCEPT ![r].pc = "invoice"] /\ req[r] \in Asked
    BY DEF RenewCommit, Inv, TInv, ReqOK
  <2>2. [req[r] EXCEPT !.pc = "invoice"] \in Asked
    BY <2>1 DEF Asked
  <2>3. [req[r] EXCEPT !.pc = "invoice"].pc = "invoice" /\ [req[r] EXCEPT !.pc = "invoice"].id = req[r].id
    BY <2>1 DEF Asked
  <2>4. req' \in [Request -> Asked]
    BY <2>1, <2>2 DEF Inv, TInv, ReqOK
  <2>5. /\ req'[r].pc = "invoice" /\ req'[r].id = req[r].id
        /\ \A q \in Request : q # r => req'[q] = req[q]
    BY <2>1, <2>3 DEF Inv, TInv, ReqOK
  <2> QED
    BY <1>2, <2>4, <2>5 DEF Inv, TInv, ReqOK, InvoicesStay
<1> QED
  BY <1>2, <1>3, RequestConclude

(* A request's invoice is not one of the scheduler's making.               *)
LEMMA InvoiceKeeps ==
  ASSUME Inv, NEW r \in Request, NEW s \in Sub, AddInvoice(s, sub[s].nextBilling, FALSE), Finish(r),
         UNCHANGED <<now, sub, payments, sched>>
  PROVE  Inv'
<1>1. sub[s].nextBilling \in Int
  BY DEF Inv, TInv, RowsOK, Row
<1>2. invoices' \in Seq(Invoice) /\ InvoicesStay
  BY <1>1, AddKeeps DEF Inv, TInv
<1>3. RowsOK' /\ StaysLeft
  BY SameRows DEF Inv, TInv
<1>4. BillsOK' /\ ReqOK'
  BY <1>2, FinishKeeps DEF Inv, TInv, BillsOK
<1> QED
  BY <1>2, <1>3, <1>4, SchedSame, RequestConclude DEF Inv, TInv

(* The invoices that renewals and API calls make.                          *)
LEMMA RequestInvoicesKeep ==
  ASSUME Inv, NEW r \in Request, RenewInvoice(r) \/ \E s \in Sub : PostInvoice(r, s)
  PROVE  Inv'
<1>1. CASE RenewInvoice(r)
  <2>1. req[r].id \in Sub
    BY <1>1 DEF Inv, TInv, ReqOK, RenewInvoice, At
  <2> QED
    BY <1>1, <2>1, InvoiceKeeps DEF RenewInvoice
<1>2. CASE \E s \in Sub : PostInvoice(r, s)
  BY <1>2, InvoiceKeeps DEF PostInvoice
<1> QED
  BY <1>1, <1>2

(* Invoices that are marked paid, by the API and by payment.captured.      *)
LEMMA InvoicePaidKeeps ==
  ASSUME Inv, NEW r \in Request,
         CaptureMarksInvoice(r) \/ \E i \in DOMAIN invoices : MarkInvoicePaid(r, i)
  PROVE  Inv'
<1>1. /\ \E k : invoices' = [invoices EXCEPT ![k].status = "paid"]
      /\ Finish(r) /\ UNCHANGED <<now, sub, payments, sched>>
  BY DEF CaptureMarksInvoice, MarkInvoicePaid
<1>2. invoices' \in Seq(Invoice) /\ InvoicesStay
  BY <1>1, PaidKeeps DEF Inv, TInv
<1>3. RowsOK' /\ StaysLeft
  BY <1>1, SameRows DEF Inv, TInv
<1>4. BillsOK' /\ ReqOK'
  BY <1>1, <1>2, FinishKeeps DEF Inv, TInv, BillsOK
<1> QED
  BY <1>1, <1>2, <1>3, <1>4, SchedSame, RequestConclude DEF Inv, TInv

(* POST payments.                                                          *)
LEMMA PostPaymentKeeps ==
  ASSUME Inv, NEW r \in Request, NEW s \in Sub, PostPayment(r, s)
  PROVE  Inv'
<1>1. InvoicesStay
  BY SameInvoices DEF PostPayment, Inv, TInv
<1>2. BillsOK'
  BY AddPaymentKeeps DEF PostPayment, Inv, TInv, BillsOK
<1>3. RowsOK' /\ StaysLeft /\ ReqOK'
  BY <1>1, SameRows, FinishKeeps DEF PostPayment, Inv, TInv
<1> QED
  BY <1>1, <1>2, <1>3, SchedSame, RequestConclude DEF PostPayment, Inv, TInv

(* payment.failed and payment.captured.                                    *)
LEMMA WebhookKeeps ==
  ASSUME Inv, NEW r \in Request, NEW p \in DOMAIN payments, PaymentFailed(r, p) \/ PaymentCaptured(r, p)
  PROVE  Inv'
<1>1. InvoicesStay
  BY SameInvoices DEF PaymentFailed, PaymentCaptured, tables, Inv, TInv
<1>2. payments[p] \in Sub /\ sub[payments[p]] \in Row
  BY DEF Inv, TInv, BillsOK, RowsOK
<1>3. ReqOK'
  <2>1. CASE PaymentFailed(r, p)
    BY <1>1, <1>2, <2>1, BeginKeeps DEF PaymentFailed, Inv, TInv
  <2>2. ASSUME NEW i \in Open(payments[p]), Begin(r, "captured", "mark", i, NoRow) PROVE ReqOK'
    <3>1. i \in DOMAIN invoices /\ i \in Nat
      BY DEF Open, Inv, TInv, BillsOK
    <3> QED
      BY <1>1, <2>2, <3>1, NoRowType, BeginKeeps DEF Inv, TInv
  <2>3. CASE PaymentCaptured(r, p)
    BY <1>1, <2>2, <2>3, FinishKeeps DEF PaymentCaptured, Inv, TInv
  <2> QED
    BY <2>1, <2>3
<1> QED
  BY <1>3, ReadKeeps DEF PaymentFailed, PaymentCaptured

(* Whatever a request does.                                                *)
LEMMA RequestKeeps ==
  ASSUME Inv, NEW r \in Request, RequestStep(r)
  PROVE  Inv'
BY CreateCheckKeeps, LoadKeeps, CreateInsertKeeps, CommitsKeep, RenewCommitKeeps,
   RequestInvoicesKeep, InvoicePaidKeeps, PostPaymentKeeps, WebhookKeeps DEF RequestStep

-----------------------------------------------------------------------------
(* What a transaction of the scheduler reads.                              *)
LEMMA SnapshotIs ==
  ASSUME RowsOK, BillsOK
  PROVE  /\ Snapshot \in SnapshotType
         /\ Snapshot.sub = sub /\ Snapshot.open \subseteq DOMAIN invoices
<1>1. {i \in DOMAIN invoices : invoices[i].status = "open"} \in SUBSET Nat
  BY DEF BillsOK
<1> QED
  BY <1>1 DEF Snapshot, SnapshotType, RowsOK

(* What the scheduler has read are rows and invoices there are.            *)
LEMMA ViewIs ==
  ASSUME Inv, view # None
  PROVE  /\ \A s \in Sub : view.sub[s] \in Row /\ view.sub[s].nextBilling \in Int
         /\ view.open \subseteq DOMAIN invoices
<1>1. view.sub \in [Sub -> Row] /\ view.open \subseteq DOMAIN invoices
  BY DEF Inv, TInv, SchedOK, ViewOK, SnapshotType
<1> QED
  BY <1>1 DEF Row

(* A step that writes no table.                                            *)
LEMMA SelectKeeps ==
  ASSUME Inv, UNCHANGED <<now, tables, req>>, SchedOK', Parks,
         view' = view \/ view' = None \/ view' = Snapshot \/ \E x \in Aside : TakesUp(x),
         \/ phase' \notin Billing
         \/ phase \in Billing /\ todo' \subseteq todo
         \/ \A s \in todo' : Left(sub[s])
         \/ \E x \in Aside : TakesUp(x)
  PROVE  Inv'
<1>1. sub' = sub /\ now' = now /\ invoices' = invoices /\ payments' = payments /\ req' = req
  BY DEF tables
<1>2. RowsOK' /\ StaysLeft
  BY <1>1, SameRows DEF Inv, TInv
<1>3. BillsOK' /\ InvoicesStay
  BY <1>1, SameBills DEF Inv, TInv
<1>4. ReqOK'
  BY <1>1, <1>3, SameReq DEF Inv, TInv
<1> QED
  BY <1>1, <1>2, <1>3, <1>4, Conclude

(* The scheduler begins a run, perhaps beside another, or reads anew after *)
(* a commit.                                                               *)
LEMMA ReloadKeeps ==
  ASSUME Inv, Reload \/ StartRun \/ \E x \in Aside : StartBeside(x)
  PROVE  Inv'
<1>1. /\ Snapshot \in SnapshotType
      /\ Snapshot.sub = sub /\ Snapshot.open \subseteq DOMAIN invoices
  BY SnapshotIs DEF Inv, TInv
<1>2. view' = Snapshot /\ invoices' = invoices /\ sub' = sub /\ UNCHANGED <<now, tables, req>>
  BY DEF Reload, StartRun, StartBeside, FirstTask, tables
<1>3. ViewOK'
  BY <1>1, <1>2 DEF ViewOK
<1>4. CASE Reload
  <2>1. TodoOK' /\ PhaseOK' /\ Parks
    BY <1>2, <1>4, ParkedStays DEF Reload, Inv, TInv, SchedOK, TodoOK, PhaseOK, beside
  <2> QED
    BY <1>2, <1>3, <1>4, <2>1, SelectKeeps DEF Reload, SchedOK
<1>5. CASE StartRun
  <2>1. TodoOK' /\ PhaseOK' /\ Parks
    BY <1>2, <1>5, ParkedStays DEF StartRun, FirstTask, Inv, TInv, SchedOK, TodoOK, PhaseOK, beside
  <2>2. phase' \notin Billing
    BY <1>5 DEF StartRun, FirstTask, Billing
  <2> QED
    BY <1>2, <1>3, <2>1, <2>2, SelectKeeps DEF SchedOK
<1>6. ASSUME NEW x \in Aside, StartBeside(x) PROVE Inv'
  <2>0. /\ phase' = "trials" /\ todo' = {s \in Sub : TrialOver(sub[s])}
        /\ item' = None /\ dirty' = {} /\ began' = 0 /\ overlapped' = TRUE
        /\ UNCHANGED <<crashes, crossed>> /\ parked' = [parked EXCEPT ![x] = ThisRun]
    BY <1>6 DEF StartBeside, FirstTask
  <2>1. TodoOK' /\ Parks
    BY <2>0 DEF TodoOK, Parks
  <2>3. overlapped' \in BOOLEAN
    BY <2>0, Zenon
  <2>4. PhaseOK'
    BY <2>0, <2>3, Counts DEF Inv, TInv, SchedOK, PhaseOK
  <2>2. phase' \notin Billing
    BY <1>6 DEF StartBeside, FirstTask, Billing
  <2> QED
    BY <1>2, <1>3, <2>1, <2>2, <2>4, SelectKeeps DEF SchedOK
<1> QED
  BY <1>4, <1>5, <1>6

(* Another run goes on from where it was.                                  *)
LEMMA SwitchKeeps ==
  ASSUME Inv, NEW x \in Aside, Switch(x)
  PROVE  Inv'
<1>1. /\ TakesUp(x) /\ Parks /\ UNCHANGED <<now, tables, req, crashes, crossed, overlapped>>
      /\ item' = parked[x].item /\ dirty' = parked[x].dirty /\ began' = parked[x].began
      /\ invoices' = invoices
  BY DEF Switch, TakesUp, Parks, tables
<1>2. HeldOK(parked[x])
  BY DEF Inv, ParkedOK
<1>3. ViewOK' /\ TodoOK'
  BY <1>1, <1>2 DEF TakesUp, HeldOK, ViewOK, TodoOK, Billing
<1>4. PhaseOK'
  BY <1>1, <1>2 DEF TakesUp, HeldOK, RunOK, PhaseOK, Inv, TInv, SchedOK
<1> QED
  BY <1>1, <1>3, <1>4, SelectKeeps DEF SchedOK

(* The scheduler goes on to its next task. The list of renewals is         *)
(* selected from what it has read, and who has left the trial there has    *)
(* left it.                                                                *)
LEMMA SelectsKeep ==
  ASSUME Inv, SelectGrace \/ SelectBilling \/ SelectOverdue
  PROVE  Inv'
<1>0. /\ view # None /\ view' = view /\ item' = item /\ dirty' = dirty /\ UNCHANGED beside
      /\ UNCHANGED <<now, tables, req>> /\ invoices' = invoices
  BY DEF SelectGrace, SelectBilling, SelectOverdue, NextTask, tables
<1>1. ViewOK'
  BY <1>0 DEF Inv, TInv, SchedOK, ViewOK
<1>2. CASE SelectGrace
  <2>1. phase = "trials" /\ phase' = "grace" /\ todo' \subseteq Sub /\ began' = began
    BY <1>2 DEF SelectGrace, NextTask
  <2>2. TodoOK' /\ PhaseOK'
    BY <1>0, <2>1 DEF Inv, TInv, SchedOK, TodoOK, PhaseOK, beside
  <2>3. phase' \notin Billing
    BY <2>1 DEF Billing
  <2> QED
    BY <1>0, <1>1, <2>2, <2>3, SelectKeeps, ParkedStays DEF SchedOK
<1>3. CASE SelectBilling
  <2>1. /\ phase = "grace" /\ phase' = "billing" /\ began' = now
        /\ todo' = {s \in Sub : BillingDue(view.sub[s])}
    BY <1>3 DEF SelectBilling, NextTask
  <2>2. TodoOK' /\ PhaseOK'
    BY <1>0, <2>1 DEF Inv, TInv, SchedOK, TodoOK, PhaseOK, beside, RowsOK
  <2>3. \A s \in todo' : Left(sub[s])
    BY <1>0, <2>1 DEF Inv, ViewLeft, BillingDue, Left
  <2> QED
    BY <1>0, <1>1, <2>2, <2>3, SelectKeeps, ParkedStays DEF SchedOK
<1>4. CASE SelectOverdue
  <2>1. /\ phase = "billing" /\ phase' = "overdue" /\ began' = 0
        /\ todo' = {i \in view.open : invoices[i].due < now}
    BY <1>4 DEF SelectOverdue, NextTask
  <2>2. todo' \subseteq DOMAIN invoices
    BY <1>0, <2>1, ViewIs
  <2>3. TodoOK' /\ PhaseOK'
    BY <1>0, <2>1, <2>2, Counts DEF Inv, TInv, SchedOK, TodoOK, PhaseOK, beside
  <2>4. phase' \notin Billing
    BY <2>1 DEF Billing
  <2> QED
    BY <1>0, <1>1, <2>3, <2>4, SelectKeeps, ParkedStays DEF SchedOK
<1> QED
  BY <1>2, <1>3, <1>4

(* The commit of a row the scheduler is at.                                *)
LEMMA RowCommitKeeps ==
  ASSUME Inv, NEW s \in Sub, NEW loaded, NEW a, Assigns(a), Write(s, loaded, a),
         UNCHANGED <<now, invoices, payments, req>>, SchedOK', Parks, view' = None,
         phase' \notin Billing \/ (phase \in Billing /\ todo' \subseteq todo)
  PROVE  Inv'
<1>1. sub' \in [Sub -> Row] /\ StaysLeft
  BY WriteKeeps DEF Inv, TInv
<1>2. RowsOK'
  BY <1>1 DEF Inv, TInv, RowsOK
<1>3. BillsOK' /\ InvoicesStay
  BY SameBills DEF Inv, TInv
<1>4. ReqOK'
  BY <1>3, SameReq DEF Inv, TInv
<1> QED
  BY <1>1, <1>2, <1>3, <1>4, Conclude

(* The scheduler renews, lapses or expires one subscription.               *)
LEMMA TrialsAndGraceKeep ==
  ASSUME Inv, NEW s \in Sub,
         TrialLapses(s) \/ TrialRenewed(s) \/ TrialExpires(s) \/ GraceExpires(s)
  PROVE  Inv'
<1>0. Assigns(Renewed) /\ Assigns(Lapsed) /\ Assigns(Expired)
  <2>1. now \in 0..MaxTime /\ 0 \in Int /\ TRUE \in BOOLEAN
    BY DEF Inv, TInv, RowsOK
  <2> QED
    BY <2>1, Assignments
<1>1. CASE TrialRenewed(s)
  <2>1. /\ phase = "trials" /\ phase' = "trialInvoice" /\ item' = s /\ view' = None
        /\ todo' = todo /\ dirty' = dirty /\ began' = began /\ UNCHANGED beside
        /\ UNCHANGED <<now, invoices, payments, req>>
    BY <1>1 DEF TrialRenewed, Working
  <2>2. SchedOK'
    BY <2>1, NoneIsNothing DEF Inv, TInv, SchedOK, ViewOK, TodoOK, PhaseOK, beside
  <2>3. phase' \notin Billing
    BY <2>1 DEF Billing
  <2> QED
    BY <1>0, <1>1, <2>1, <2>2, <2>3, RowCommitKeeps, ParkedStays DEF TrialRenewed
<1>2. CASE TrialLapses(s) \/ TrialExpires(s) \/ GraceExpires(s)
  <2>1. /\ phase \in {"trials", "grace"} /\ phase' = phase /\ item' = item /\ view' = None
        /\ todo' = todo \ {s} /\ dirty' = dirty /\ began' = began /\ UNCHANGED beside
        /\ UNCHANGED <<now, invoices, payments, req>>
    BY <1>2 DEF TrialLapses, TrialExpires, GraceExpires, Working, Committed
  <2>2. SchedOK'
    BY <2>1 DEF Inv, TInv, SchedOK, ViewOK, TodoOK, PhaseOK, beside
  <2>3. phase' \notin Billing
    BY <2>1 DEF Billing
  <2>4. Write(s, view.sub[s], Lapsed) \/ Write(s, view.sub[s], Expired)
    BY <1>2 DEF TrialLapses, TrialExpires, GraceExpires
  <2> QED
    BY <1>0, <2>1, <2>2, <2>3, <2>4, RowCommitKeeps, ParkedStays
<1> QED
  BY <1>1, <1>2

(* The scheduler's invoices: after the renewal that ends a trial, and for  *)
(* one on the list of renewals.                                            *)
LEMMA SchedInvoicesKeep ==
  ASSUME Inv, TrialInvoice \/ \E s \in Sub : BillInvoice(s)
  PROVE  Inv'
<1>1. CASE TrialInvoice
  <2>1. /\ phase = "trialInvoice" /\ phase' = "trials" /\ view # None /\ view' = None
        /\ item' = None /\ todo' = todo \ {item}
        /\ AddInvoice(item, view.sub[item].nextBilling, FALSE)
        /\ dirty' = dirty /\ began' = began /\ UNCHANGED beside
        /\ sub' = sub /\ now' = now /\ payments' = payments /\ req' = req
    BY <1>1 DEF TrialInvoice
  <2>2. item \in Sub
    BY <2>1 DEF Inv, TInv, SchedOK, PhaseOK
  <2>3. view.sub[item].nextBilling \in Int
    BY <2>1, <2>2, ViewIs
  <2>4. invoices' \in Seq(Invoice) /\ InvoicesStay
    BY <2>1, <2>2, <2>3, AddKeeps DEF Inv, TInv
  <2>5. SchedOK'
    BY <2>1, <2>4 DEF Inv, TInv, SchedOK, ViewOK, TodoOK, PhaseOK, beside, InvoicesStay
  <2>6. RowsOK' /\ StaysLeft /\ ReqOK' /\ BillsOK'
    BY <2>1, <2>4, SameRows, SameReq DEF Inv, TInv, BillsOK
  <2>7. phase' \notin Billing
    BY <2>1 DEF Billing
  <2> QED
    BY <2>1, <2>4, <2>5, <2>6, <2>7, Conclude, ParkedStays
<1>2. ASSUME NEW s \in Sub, BillInvoice(s) PROVE Inv'
  <2>1. /\ phase = "billing" /\ phase' = "billPayment" /\ view # None /\ view' = None
        /\ item' = s /\ todo' = todo /\ s \in todo
        /\ AddInvoice(s, view.sub[s].nextBilling, TRUE)
        /\ dirty' = dirty /\ began' = began /\ UNCHANGED beside
        /\ sub' = sub /\ now' = now /\ payments' = payments /\ req' = req
    BY <1>2 DEF BillInvoice, Working
  <2>2. Left(sub[s])
    BY <2>1 DEF Inv, TodoLeft, Billing
  <2>3. view.sub[s].nextBilling \in Int
    BY <2>1, ViewIs
  <2>4. invoices' \in Seq(Invoice) /\ InvoicesStay
    BY <2>1, <2>2, <2>3, AddKeeps DEF Inv, TInv
  <2>5. SchedOK'
    BY <2>1, <2>4, NoneIsNothing DEF Inv, TInv, SchedOK, ViewOK, TodoOK, PhaseOK, beside, InvoicesStay
  <2>6. RowsOK' /\ StaysLeft /\ ReqOK' /\ BillsOK'
    BY <2>1, <2>4, SameRows, SameReq DEF Inv, TInv, BillsOK
  <2>7. phase \in Billing /\ todo' \subseteq todo
    BY <2>1 DEF Billing
  <2> QED
    BY <2>1, <2>4, <2>5, <2>6, <2>7, Conclude, ParkedStays
<1> QED
  BY <1>1, <1>2

(* The scheduler's payment for the invoice.                                *)
LEMMA BillPaymentKeeps ==
  ASSUME Inv, BillPayment
  PROVE  Inv'
<1>1. /\ phase = "billPayment" /\ phase' = "billAdvance" /\ view' = None
      /\ AddPayment(item) /\ item' = item /\ todo' = todo
      /\ dirty' = dirty /\ began' = began /\ UNCHANGED beside
      /\ sub' = sub /\ now' = now /\ invoices' = invoices /\ req' = req
  BY DEF BillPayment
<1>2. item \in Sub
  BY <1>1 DEF Inv, TInv, SchedOK, PhaseOK
<1>3. BillsOK' /\ InvoicesStay
  BY <1>1, <1>2, AddPaymentKeeps, SameInvoices DEF Inv, TInv, BillsOK
<1>4. SchedOK'
  BY <1>1, <1>2 DEF Inv, TInv, SchedOK, ViewOK, TodoOK, PhaseOK, beside
<1>5. RowsOK' /\ StaysLeft /\ ReqOK'
  BY <1>1, <1>3, SameRows, SameReq DEF Inv, TInv
<1>6. phase \in Billing /\ todo' \subseteq todo
  BY <1>1 DEF Billing
<1> QED
  BY <1>1, <1>3, <1>4, <1>5, <1>6, Conclude, ParkedStays

(* The scheduler moves the billing date.                                   *)
LEMMA BillAdvanceKeeps ==
  ASSUME Inv, BillAdvance
  PROVE  Inv'
<1>1. /\ phase = "billAdvance" /\ phase' = "billing" /\ view' = None
      /\ Write(item, view.sub[item], [nextBilling |-> began + Cycle])
      /\ item' = None /\ todo' = todo \ {item}
      /\ dirty' = dirty /\ began' = began /\ UNCHANGED beside
      /\ UNCHANGED <<now, invoices, payments, req>>
  BY DEF BillAdvance
<1>2. item \in Sub /\ began + Cycle \in Int
  BY <1>1, Counts DEF Inv, TInv, SchedOK, PhaseOK
<1>3. Assigns([nextBilling |-> began + Cycle])
  BY <1>2 DEF Assigns
<1>4. SchedOK'
  BY <1>1 DEF Inv, TInv, SchedOK, ViewOK, TodoOK, PhaseOK, beside
<1>5. phase \in Billing /\ todo' \subseteq todo
  BY <1>1 DEF Billing
<1> QED
  BY <1>1, <1>2, <1>3, <1>4, <1>5, RowCommitKeeps, ParkedStays

(* The scheduler takes an overdue invoice of an active subscription.       *)
LEMMA OverdueLapsesKeeps ==
  ASSUME Inv, NEW i \in DOMAIN invoices, OverdueLapses(i)
  PROVE  Inv'
<1>1. /\ phase = "overdue" /\ phase' = phase /\ view' = None
      /\ Write(invoices[i].sub, view.sub[invoices[i].sub], Lapsed)
      /\ MarkOverdue(dirty \cup {i}) /\ dirty' = {}
      /\ item' = item /\ todo' = todo \ {i} /\ began' = began /\ UNCHANGED beside
      /\ UNCHANGED <<now, payments, req>>
  BY DEF OverdueLapses, Working, Committed
<1>2. invoices[i].sub \in Sub
  <2>1. invoices[i] \in Invoice
    BY DEF Inv, TInv, BillsOK
  <2> QED
    BY <2>1 DEF Invoice
<1>3. Assigns(Lapsed)
  <2>1. now \in 0..MaxTime /\ 0 \in Int /\ TRUE \in BOOLEAN
    BY DEF Inv, TInv, RowsOK
  <2> QED
    BY <2>1, Assignments
<1>4. sub' \in [Sub -> Row] /\ StaysLeft
  BY <1>1, <1>2, <1>3, WriteKeeps DEF Inv, TInv
<1>5. invoices' \in Seq(Invoice) /\ InvoicesStay
  BY <1>1, OverdueKeeps DEF Inv, TInv
<1>6. RowsOK' /\ BillsOK' /\ ReqOK'
  BY <1>1, <1>4, <1>5, SameReq DEF Inv, TInv, RowsOK, BillsOK
<1>7. SchedOK'
  BY <1>1, <1>5 DEF Inv, TInv, SchedOK, ViewOK, TodoOK, PhaseOK, beside, InvoicesStay
<1>8. phase' \notin Billing
  BY <1>1 DEF Billing
<1> QED
  BY <1>1, <1>4, <1>5, <1>6, <1>7, <1>8, Conclude, ParkedStays

(* The scheduler takes one of any other subscription.                      *)
LEMMA OverdueNotedKeeps ==
  ASSUME Inv, NEW i \in DOMAIN invoices, OverdueNoted(i)
  PROVE  Inv'
<1>1. /\ phase = "overdue" /\ phase' = phase /\ view' = view /\ dirty' = dirty \cup {i}
      /\ item' = item /\ todo' = todo \ {i} /\ began' = began /\ UNCHANGED beside
      /\ UNCHANGED <<now, tables, req>> /\ invoices' = invoices
  BY DEF OverdueNoted, Working, tables
<1>2. SchedOK'
  BY <1>1 DEF Inv, TInv, SchedOK, ViewOK, TodoOK, PhaseOK, beside
<1>3. phase' \notin Billing
  BY <1>1 DEF Billing
<1> QED
  BY <1>1, <1>2, <1>3, SelectKeeps, ParkedStays

(* The marks are committed.                                                *)
LEMMA MarksKeep ==
  ASSUME Inv, EndRun \/ OthersCommitted
  PROVE  Inv'
<1>1. /\ MarkOverdue(dirty) /\ view' = None /\ dirty' = {} /\ item' = item /\ todo' = todo
      /\ began' = began /\ UNCHANGED beside
      /\ sub' = sub /\ now' = now /\ payments' = payments /\ req' = req
      /\ \/ phase = "overdue" /\ phase' = "idle"
         \/ phase' = phase
  BY DEF EndRun, OthersCommitted
<1>2. invoices' \in Seq(Invoice) /\ InvoicesStay
  BY <1>1, OverdueKeeps DEF Inv, TInv
<1>3. RowsOK' /\ StaysLeft /\ BillsOK' /\ ReqOK'
  BY <1>1, <1>2, SameRows, SameReq DEF Inv, TInv, BillsOK
<1>4. SchedOK'
  BY <1>1, <1>2 DEF Inv, TInv, SchedOK, ViewOK, TodoOK, PhaseOK, beside, InvoicesStay
<1>5. phase' \notin Billing \/ (phase \in Billing /\ todo' \subseteq todo)
  BY <1>1 DEF Billing
<1> QED
  BY <1>1, <1>2, <1>3, <1>4, <1>5, Conclude, ParkedStays

(* The run dies, with nothing but what it has committed.                   *)
LEMMA CrashKeeps ==
  ASSUME Inv, Crash
  PROVE  Inv'
<1>1. /\ crashes < MaxCrashes /\ crashes' = crashes + 1
      /\ phase' = "idle" /\ todo' = {} /\ item' = None /\ view' = None
      /\ dirty' = {} /\ began' = 0 /\ UNCHANGED <<now, tables, req, parked, crossed, overlapped>>
      /\ Parks
  BY DEF Crash, Parks
<1>2. SchedOK'
  BY <1>1, Counts DEF Inv, TInv, SchedOK, ViewOK, TodoOK, PhaseOK, beside
<1>3. phase' \notin Billing
  BY <1>1 DEF Billing
<1> QED
  BY <1>1, <1>2, <1>3, SelectKeeps

(* A day passes.                                                           *)
LEMMA TickKeeps ==
  ASSUME Inv, Tick
  PROVE  Inv'
<1>1. sub' = sub /\ invoices' = invoices /\ payments' = payments /\ req' = req /\ sched' = sched
  BY DEF Tick, tables
<1>2. RowsOK' /\ StaysLeft
  BY <1>1, Counts DEF Tick, Inv, TInv, RowsOK, StaysLeft
<1>3. BillsOK' /\ InvoicesStay
  BY <1>1, SameBills DEF Inv, TInv
<1>4. ReqOK'
  BY <1>1, <1>3, SameReq DEF Inv, TInv
<1> QED
  BY <1>1, <1>2, <1>3, <1>4, SchedSame, RequestConclude DEF Inv, TInv

(* Every step keeps the invariant.                                         *)
LEMMA InvStep ==
  ASSUME Inv, [Next]_vars
  PROVE  Inv'
<1>1. ASSUME UNCHANGED vars PROVE Inv'
  BY <1>1, ReadKeeps, SameReq, SameInvoices DEF vars, Inv, TInv, tables
<1>2. ASSUME Progress PROVE Inv'
  BY <1>2, ReloadKeeps, SelectsKeep, TrialsAndGraceKeep, SchedInvoicesKeep, BillPaymentKeeps,
     BillAdvanceKeeps, OverdueLapsesKeeps, OverdueNotedKeeps, MarksKeep DEF Progress
<1> QED
  BY <1>1, <1>2, RequestKeeps, ReloadKeeps, SwitchKeeps, MarksKeep, CrashKeeps, TickKeeps DEF Next

(* The inductive invariant holds whatever requests, webhooks and the       *)
(* scheduler do.                                                           *)
THEOREM InvHolds == Spec => []Inv
<1>1. Init => Inv
  <2> SUFFICES ASSUME Init PROVE Inv
    OBVIOUS
  <2>1. now \in 0..MaxTime /\ invoices = <<>> /\ payments = <<>>
    BY Counts DEF Init
  <2>2. RowsOK
    BY <2>1, NoRowType, NewRowType DEF Init, RowsOK
  <2>3. BillsOK
    BY <2>1 DEF BillsOK
  <2>4. ReqOK
    <3>1. Idle \in Asked /\ Idle.pc = "idle"
      BY NoRowType DEF Idle, Asked
    <3> QED
      BY <3>1 DEF Init, ReqOK
  <2>5. SchedOK
    <3>1. ViewOK /\ TodoOK
      BY DEF Init, ViewOK, TodoOK
    <3>2. overlapped \in BOOLEAN
      BY Zenon DEF Init
    <3>3. PhaseOK
      BY <3>2, Counts DEF Init, PhaseOK
    <3> QED
      BY <3>1, <3>3 DEF SchedOK
  <2>6. TrialNotBilled /\ ViewLeft /\ TodoLeft
    BY <2>1 DEF Init, TrialNotBilled, ViewLeft, TodoLeft
  <2>7. ParkedOK
    <3>1. parked = [x \in Aside |-> NoRun] /\ HeldOK(NoRun)
      BY Counts DEF Init, NoRun, HeldOK, RunOK, Billing
    <3> QED
      BY <3>1 DEF ParkedOK
  <2> QED
    BY <2>2, <2>3, <2>4, <2>5, <2>6, <2>7 DEF Inv, TInv
<1> QED
  BY <1>1, InvStep, PTL DEF Spec

(* Rows, invoices, payments and what the scheduler holds are of their      *)
(* types.                                                                  *)
THEOREM TypeCorrect == Spec => []TypeOK
<1>1. Inv => TypeOK
  BY TypesFollow DEF Inv
<1> QED
  BY <1>1, InvHolds, PTL

(* The scheduler bills no subscription that is still in a trial, though    *)
(* the list it works through is old by then: nothing sets a subscription   *)
(* back to its trial.                                                      *)
THEOREM NoBillInTrial == Spec => []TrialNotBilled
<1>1. Inv => TrialNotBilled
  BY DEF Inv
<1> QED
  BY <1>1, InvHolds, PTL

-----------------------------------------------------------------------------
(* The automatic invoices of a subscription for a period, and how many     *)
(* there may be too many.                                                  *)
Billed(s, d) == {i \in DOMAIN invoices : /\ invoices[i].sub = s /\ invoices[i].auto
                                         /\ invoices[i].start = d}
Times(s, d)  == Cardinality(Billed(s, d))
Mishaps(s)   == crashes + crossed[s]

(* The run has billed s and not yet moved its billing date, or s is on the *)
(* list still.                                                             *)
InHand(s) == phase \in {"billPayment", "billAdvance"} /\ item = s
Waits(s)  == phase \in Billing /\ s \in todo /\ s # item

(* No period of s after a day was billed more than n times. *)
AtMost(s, day, n) == \A d \in Int : d > day => Times(s, d) <= n

(* Mishaps account for all but one invoice of a period, ...                *)
EverCounted(s) == \A d \in Int : Times(s, d) <= 1 + Mishaps(s)

(* ... and for all invoices of a period that may be billed once more: one  *)
(* that has not begun, the one that the row or what was read of it names,  *)
(* and the one that the run is about to write there.                       *)
StillCounted(s) ==
    /\ AtMost(s, now, Mishaps(s))
    /\ ~InHand(s) => Times(s, sub[s].nextBilling) <= Mishaps(s)
    /\ view # None /\ ~InHand(s) => Times(s, view.sub[s].nextBilling) <= Mishaps(s)
    /\ InHand(s) => Times(s, began + Cycle) <= Mishaps(s)
    /\ Waits(s) => AtMost(s, began, Mishaps(s))

(* Where a renewal crosses the run, one mishap is not used up yet. *)
OneToSpare(s) ==
    /\ Waits(s) /\ sub[s].nextBilling > began => AtMost(s, began, Mishaps(s) - 1)
    /\ Waits(s) /\ view # None /\ view.sub[s].nextBilling > began
          => AtMost(s, began, Mishaps(s) - 1)
    /\ view # None /\ Left(view.sub[s]) /\ view.sub[s].nextBilling # sub[s].nextBilling
          => AtMost(s, now, Mishaps(s) - 1)

RunInv == /\ phase = "idle" => view = None
          /\ phase \in Billing => began <= now

DupOf(s) == EverCounted(s) /\ StillCounted(s) /\ OneToSpare(s)

(* While there is but one run, mishaps account for everything. *)
DupInv == ~overlapped => /\ \A x \in Aside : parked[x].phase = "idle"
                         /\ RunInv
                         /\ \A s \in Sub : DupOf(s)

(* No other run begins or goes on. *)
OneRun == \A x \in Aside : ~StartBeside(x) /\ ~Switch(x)

(* The numbers involved. *)
LEMMA TimesType ==
  ASSUME BillsOK
  PROVE  \A s, d : IsFiniteSet(Billed(s, d)) /\ Times(s, d) \in Nat
<1>1. DOMAIN invoices = 1 .. Len(invoices) /\ Len(invoices) \in Nat
  BY DEF BillsOK
<1>2. IsFiniteSet(DOMAIN invoices)
  BY <1>1, FS_Interval
<1>3. ASSUME NEW s, NEW d PROVE IsFiniteSet(Billed(s, d))
  <2>1. Billed(s, d) \subseteq DOMAIN invoices
    BY DEF Billed
  <2> QED
    BY <1>2, <2>1, FS_Subset
<1> QED
  BY <1>3, FS_CardinalityType DEF Times

DayFacts ==
    /\ now \in Int /\ began \in Int /\ Cycle \in Nat /\ Cycle > 0
    /\ \A s \in Sub : sub[s].nextBilling \in Int /\ Mishaps(s) \in Nat
    /\ view # None => \A s \in Sub : view.sub[s].nextBilling \in Int
    /\ \A s, d : IsFiniteSet(Billed(s, d)) /\ Times(s, d) \in Nat

LEMMA DayTypes == Inv => DayFacts
<1> SUFFICES ASSUME Inv PROVE DayFacts
  OBVIOUS
<1>1. \A s \in Sub : sub[s] \in Row
  BY DEF Inv, TInv, RowsOK
<1>2. \A s \in Sub : sub[s].nextBilling \in Int
  BY <1>1 DEF Row
<1>3. view # None => \A s \in Sub : view.sub[s].nextBilling \in Int
  BY ViewIs
<1>4. now \in Int /\ began \in Int
  BY Counts DEF Inv, TInv, RowsOK, SchedOK, PhaseOK
<1>5. Cycle \in Nat /\ Cycle > 0
  BY Durations
<1>6. ASSUME NEW s \in Sub PROVE Mishaps(s) \in Nat
  <2>1. crashes \in Nat /\ crossed[s] \in Nat
    BY Counts DEF Inv, TInv, SchedOK, PhaseOK
  <2> QED
    BY <2>1 DEF Mishaps
<1> QED
  BY <1>2, <1>3, <1>4, <1>5, <1>6, TimesType DEF Inv, TInv, DayFacts

LEMMA DayTypesNext == Inv' => DayFacts'
BY DayTypes, PTL

-----------------------------------------------------------------------------
(* What is done to the invoices.  Only the scheduler's count.              *)
SameTimes(s) == \A d \in Int : Times(s, d)' = Times(s, d)

LEMMA UntouchedSame ==
  ASSUME invoices' = invoices
  PROVE  \A s \in Sub : SameTimes(s)
BY DEF SameTimes, Times, Billed

(* An invoice that is added is counted for its own period, if it is the    *)
(* scheduler's.                                                            *)
LEMMA AppendBilled ==
  ASSUME BillsOK, NEW inv, invoices' = Append(invoices, inv), NEW s, NEW d
  PROVE  /\ Len(invoices) + 1 \notin Billed(s, d)
         /\ Billed(s, d)' = IF inv.sub = s /\ inv.auto /\ inv.start = d
                            THEN Billed(s, d) \cup {Len(invoices) + 1} ELSE Billed(s, d)
<1>1. /\ DOMAIN invoices = 1 .. Len(invoices) /\ DOMAIN invoices' = 1 .. (Len(invoices) + 1)
      /\ Len(invoices) \in Nat
      /\ invoices'[Len(invoices) + 1] = inv
      /\ \A i \in 1 .. Len(invoices) : invoices'[i] = invoices[i]
  BY DEF BillsOK
<1>2. Len(invoices) + 1 \notin Billed(s, d)
  BY <1>1 DEF Billed
<1>3. Billed(s, d)' = {i \in DOMAIN invoices' : /\ invoices'[i].sub = s /\ invoices'[i].auto
                                               /\ invoices'[i].start = d}
  BY DEF Billed
<1>4. ASSUME NEW i
      PROVE  i \in Billed(s, d)' <=>
               \/ i \in Billed(s, d)
               \/ i = Len(invoices) + 1 /\ inv.sub = s /\ inv.auto /\ inv.start = d
  <2>1. CASE i = Len(invoices) + 1
    BY <1>1, <1>2, <1>3, <2>1
  <2>2. CASE i # Len(invoices) + 1
    <3>1. i \in DOMAIN invoices' <=> i \in DOMAIN invoices
      BY <1>1, <2>2
    <3>2. i \in DOMAIN invoices => invoices'[i] = invoices[i]
      BY <1>1
    <3> QED
      BY <1>3, <2>2, <3>1, <3>2, Zenon DEF Billed
  <2> QED
    BY <2>1, <2>2
<1> QED
  BY <1>2, <1>4

LEMMA AddOther ==
  ASSUME BillsOK, NEW t, NEW start, NEW auto \in BOOLEAN, AddInvoice(t, start, auto),
         NEW s \in Sub, ~auto \/ s # t
  PROVE  SameTimes(s)
<1> DEFINE inv == [sub |-> t, start |-> start, due |-> now + PayWithin, status |-> "open", auto |-> auto]
<1>1. ~(inv.sub = s /\ inv.auto)
  OBVIOUS
<1>2. invoices' = Append(invoices, inv)
  BY DEF AddInvoice
<1> HIDE DEF inv
<1>3. ASSUME NEW d \in Int PROVE Billed(s, d)' = Billed(s, d)
  BY <1>1, <1>2, AppendBilled
<1> QED
  BY <1>3 DEF SameTimes, Times

LEMMA AddOne ==
  ASSUME BillsOK, NEW t, NEW start, AddInvoice(t, start, TRUE), NEW d
  PROVE  Times(t, d)' = IF d = start THEN Times(t, d) + 1 ELSE Times(t, d)
<1> DEFINE inv == [sub |-> t, start |-> start, due |-> now + PayWithin, status |-> "open", auto |-> TRUE]
<1>1. /\ Len(invoices) + 1 \notin Billed(t, d)
      /\ Billed(t, d)' = IF start = d THEN Billed(t, d) \cup {Len(invoices) + 1} ELSE Billed(t, d)
  <2>1. inv.sub = t /\ inv.auto /\ inv.start = start
    OBVIOUS
  <2>2. invoices' = Append(invoices, inv)
    BY DEF AddInvoice
  <2> HIDE DEF inv
  <2> QED
    BY <2>1, <2>2, AppendBilled
<1>2. Cardinality(Billed(t, d) \cup {Len(invoices) + 1}) = Cardinality(Billed(t, d)) + 1
  BY <1>1, TimesType, FS_AddElement
<1> QED
  BY <1>1, <1>2 DEF Times

LEMMA MarkSame ==
  ASSUME BillsOK, NEW I, NEW st,
         invoices' = [i \in DOMAIN invoices |->
                        IF i \in I THEN [invoices[i] EXCEPT !.status = st] ELSE invoices[i]]
  PROVE  \A s \in Sub : SameTimes(s)
<1>1. ASSUME NEW i \in DOMAIN invoices
      PROVE  /\ invoices'[i].sub = invoices[i].sub /\ invoices'[i].auto = invoices[i].auto
             /\ invoices'[i].start = invoices[i].start
  <2>1. invoices[i] \in Invoice
    BY DEF BillsOK
  <2> QED
    BY <2>1 DEF Invoice
<1>2. DOMAIN invoices' = DOMAIN invoices
  OBVIOUS
<1>3. ASSUME NEW s, NEW d PROVE Billed(s, d)' = Billed(s, d)
  <2>1. Billed(s, d)' = {i \in DOMAIN invoices' : /\ invoices'[i].sub = s /\ invoices'[i].auto
                                                 /\ invoices'[i].start = d}
    BY DEF Billed
  <2> QED
    BY <1>1, <1>2, <2>1 DEF Billed
<1> QED
  BY <1>3 DEF SameTimes, Times

LEMMA PaidSame ==
  ASSUME BillsOK, NEW k, invoices' = [invoices EXCEPT ![k].status = "paid"]
  PROVE  \A s \in Sub : SameTimes(s)
<1>1. invoices' = [i \in DOMAIN invoices |->
                     IF i \in {k} THEN [invoices[i] EXCEPT !.status = "paid"] ELSE invoices[i]]
  BY DEF BillsOK
<1> QED
  BY <1>1, MarkSame

(* The billing date after an UPDATE: the one assigned, if there is one.    *)
LEMMA DateWritten ==
  ASSUME RowsOK, NEW s \in Sub, NEW loaded, NEW a, Write(s, loaded, a)
  PROVE  /\ \A t \in Sub : t # s => sub'[t] = sub[t]
         /\ "nextBilling" \notin DOMAIN a => sub'[s].nextBilling = sub[s].nextBilling
         /\ "nextBilling" \in DOMAIN a /\ a["nextBilling"] # Null
               => sub'[s].nextBilling = a["nextBilling"]
<1>1. sub \in [Sub -> Row] /\ sub[s] \in Row
  BY DEF RowsOK
<1>2. DOMAIN sub[s] = Columns
  BY <1>1 DEF Row, Columns
<1>3. sub' = [sub EXCEPT ![s] = Update(sub[s], loaded, a)]
  BY DEF Write
<1>4. sub'[s] = Update(sub[s], loaded, a) /\ \A t \in Sub : t # s => sub'[t] = sub[t]
  BY <1>1, <1>3
<1>5. Update(sub[s], loaded, a) = [c \in Columns |-> Written(sub[s], loaded, a, c)]
  BY <1>2, Zenon DEF Update, Written
<1>6. sub'[s].nextBilling = Written(sub[s], loaded, a, "nextBilling")
  BY <1>4, <1>5 DEF Columns
<1> QED
  BY <1>4, <1>6 DEF Written, DateColumns

LEMMA SameDates ==
  ASSUME RowsOK, NEW s \in Sub, NEW loaded, NEW a, Write(s, loaded, a), "nextBilling" \notin DOMAIN a
  PROVE  \A t \in Sub : sub'[t].nextBilling = sub[t].nextBilling
BY DateWritten

-----------------------------------------------------------------------------
(* A step that bills s not, moves it neither into the run's hand nor out   *)
(* of it, and changes its billing date at most to a later day, when the    *)
(* run does not look at it.                                                *)
Quiet(s) ==
    /\ SameTimes(s)
    /\ Mishaps(s)' = Mishaps(s)
    /\ now' >= now
    /\ \/ sub'[s].nextBilling = sub[s].nextBilling
       \/ /\ sub'[s].nextBilling > now
          /\ ~Waits(s)'
          /\ view' = None \/ ~Left(view'.sub[s])
    /\ view' = None \/ view' = view \/ (view' = Snapshot /\ sub' = sub)
    /\ InHand(s)' <=> InHand(s)
    /\ InHand(s) => began' = began
    /\ Waits(s)' => Waits(s) /\ began' = began

LEMMA QuietKeeps ==
  ASSUME Inv, Inv', NEW s \in Sub, DupOf(s), Quiet(s)
  PROVE  DupOf(s)'
<1>0. /\ now \in Int /\ began \in Int /\ Cycle \in Nat
      /\ now' \in Int /\ began' \in Int
      /\ sub[s].nextBilling \in Int /\ sub'[s].nextBilling \in Int
      /\ view # None => view.sub[s].nextBilling \in Int
      /\ view' # None => view'.sub[s].nextBilling \in Int
      /\ Mishaps(s) \in Nat /\ Mishaps(s)' \in Nat
  BY DayTypes, DayTypesNext DEF DayFacts
<1>1. \A d \in Int : Times(s, d) \in Nat /\ Times(s, d)' \in Nat /\ Times(s, d)' = Times(s, d)
  BY DayTypes DEF DayFacts, Quiet, SameTimes
<1>3. EverCounted(s)'
  BY <1>1 DEF DupOf, EverCounted, Quiet
<1>4. view' = Snapshot /\ sub' = sub => view'.sub[s].nextBilling = sub[s].nextBilling
  BY DEF Snapshot
<1>5. StillCounted(s)'
  <2>1. AtMost(s, now, Mishaps(s))'
    BY <1>0, <1>1 DEF DupOf, StillCounted, Quiet, AtMost
  <2>2. ~InHand(s)' => Times(s, sub[s].nextBilling)' <= Mishaps(s)'
    BY <1>0, <1>1 DEF DupOf, StillCounted, Quiet, AtMost
  <2>3. view' # None /\ ~InHand(s)' => Times(s, view.sub[s].nextBilling)' <= Mishaps(s)'
    BY <1>0, <1>1, <1>4 DEF DupOf, StillCounted, Quiet
  <2>4. InHand(s)' => Times(s, began + Cycle)' <= Mishaps(s)'
    BY <1>0, <1>1 DEF DupOf, StillCounted, Quiet
  <2>5. Waits(s)' => AtMost(s, began, Mishaps(s))'
    BY <1>0, <1>1 DEF DupOf, StillCounted, Quiet, AtMost
  <2> QED
    BY <2>1, <2>2, <2>3, <2>4, <2>5 DEF StillCounted
<1>6. OneToSpare(s)'
  <2>1. Waits(s)' /\ sub'[s].nextBilling > began' => AtMost(s, began, Mishaps(s) - 1)'
    BY <1>0, <1>1 DEF DupOf, OneToSpare, Quiet, AtMost
  <2>2. Waits(s)' /\ view' # None /\ view'.sub[s].nextBilling > began'
           => AtMost(s, began, Mishaps(s) - 1)'
    BY <1>0, <1>1, <1>4 DEF DupOf, OneToSpare, Quiet, AtMost
  <2>3. view' # None /\ Left(view'.sub[s]) /\ view'.sub[s].nextBilling # sub'[s].nextBilling
           => AtMost(s, now, Mishaps(s) - 1)'
    BY <1>0, <1>1, <1>4 DEF DupOf, OneToSpare, Quiet, AtMost
  <2> QED
    BY <2>1, <2>2, <2>3 DEF OneToSpare, Left
<1> QED
  BY <1>3, <1>5, <1>6 DEF DupOf

-----------------------------------------------------------------------------
(* Quiet steps.  The run stays where it is, or is not at the renewals.     *)
ViewMoves == view' = None \/ view' = view \/ (view' = Snapshot /\ sub' = sub)

LEMMA RunStays ==
  ASSUME Inv, NEW s \in Sub, SameTimes(s), now' = now \/ now' = now + 1, ViewMoves,
         sub'[s].nextBilling = sub[s].nextBilling,
         UNCHANGED <<phase, todo, item, began, crashes, crossed>>
  PROVE  Quiet(s)
<1>1. now' >= now
  BY DayTypes DEF DayFacts
<1> QED
  BY <1>1 DEF Quiet, ViewMoves, Mishaps, InHand, Waits

LEMMA RunElsewhere ==
  ASSUME Inv, NEW s \in Sub, SameTimes(s), now' = now, ViewMoves,
         \/ sub'[s].nextBilling = sub[s].nextBilling
         \/ view' = None /\ sub'[s].nextBilling > now,
         phase \notin Billing, phase' \notin Billing, UNCHANGED beside
  PROVE  Quiet(s)
<1>1. now' >= now
  BY DayTypes DEF DayFacts
<1> QED
  BY <1>1 DEF Quiet, ViewMoves, Mishaps, InHand, Waits, Billing, beside

(* The requests, but for the insertion and the renewal.                    *)
LEMMA RequestReads ==
  ASSUME Inv, UNCHANGED <<now, tables, sched>>
  PROVE  \A s \in Sub : Quiet(s)
BY UntouchedSame, RunStays DEF tables, sched, beside, ViewMoves

LEMMA RequestCommits ==
  ASSUME Inv, NEW r \in Request,
         CancelNow(r) \/ CancelEnd(r) \/ SetAutoRenew(r) \/ HandleFailedPayment(r)
  PROVE  \A s \in Sub : Quiet(s)
<1>1. \E k, a : Commit(r, k, a) /\ "nextBilling" \notin DOMAIN a /\ UNCHANGED crossed
  <2>1. CASE CancelNow(r)
    BY <2>1 DEF CancelNow
  <2>2. CASE CancelEnd(r)
    BY <2>2 DEF CancelEnd
  <2>3. CASE SetAutoRenew(r)
    BY <2>3 DEF SetAutoRenew
  <2>4. CASE HandleFailedPayment(r)
    BY <2>4 DEF HandleFailedPayment, Lapsed
  <2> QED
    BY <2>1, <2>2, <2>3, <2>4
<1>2. PICK k, a : Commit(r, k, a) /\ "nextBilling" \notin DOMAIN a /\ UNCHANGED crossed
  BY <1>1
<1>3. req[r].id \in Sub
  BY <1>2 DEF Inv, TInv, ReqOK, Commit, At
<1>4. \A s \in Sub : sub'[s].nextBilling = sub[s].nextBilling
  BY <1>2, <1>3, SameDates DEF Commit, Inv, TInv
<1> QED
  BY <1>2, <1>4, UntouchedSame, RunStays DEF Commit, ViewMoves

LEMMA RequestInvoices ==
  ASSUME Inv, NEW r \in Request, RenewInvoice(r) \/ \E s \in Sub : PostInvoice(r, s)
  PROVE  \A s \in Sub : Quiet(s)
<1>1. /\ \E t, start : AddInvoice(t, start, FALSE)
      /\ UNCHANGED <<now, sub, payments, sched>>
  BY DEF RenewInvoice, PostInvoice
<1>2. \A s \in Sub : SameTimes(s)
  <2>1. PICK t, start : AddInvoice(t, start, FALSE)
    BY <1>1
  <2>2. FALSE \in BOOLEAN
    OBVIOUS
  <2> QED
    BY <2>1, <2>2, AddOther DEF Inv, TInv
<1> QED
  BY <1>1, <1>2, RunStays DEF sched, beside, ViewMoves

LEMMA RequestPaid ==
  ASSUME Inv, NEW r \in Request,
         CaptureMarksInvoice(r) \/ \E i \in DOMAIN invoices : MarkInvoicePaid(r, i)
  PROVE  \A s \in Sub : Quiet(s)
<1>1. /\ \E k : invoices' = [invoices EXCEPT ![k].status = "paid"]
      /\ UNCHANGED <<now, sub, payments, sched>>
  BY DEF CaptureMarksInvoice, MarkInvoicePaid
<1>2. \A s \in Sub : SameTimes(s)
  BY <1>1, PaidSame DEF Inv, TInv
<1> QED
  BY <1>1, <1>2, RunStays DEF sched, beside, ViewMoves

LEMMA RequestPayments ==
  ASSUME Inv, NEW r \in Request, \E s \in Sub : PostPayment(r, s)
  PROVE  \A s \in Sub : Quiet(s)
<1>1. UNCHANGED <<now, sub, invoices, sched>>
  BY DEF PostPayment
<1> QED
  BY <1>1, UntouchedSame, RunStays DEF sched, beside, ViewMoves

(* A new row is billed a later day, and the run has not read it. *)
LEMMA InsertQuiet ==
  ASSUME Inv, NEW r \in Request, CreateInsert(r), NEW s \in Sub
  PROVE  Quiet(s)
<1>1. PICK t \in Sub, d \in {0, Trial} : sub[t].status = "absent" /\ sub' = [sub EXCEPT ![t] = NewRow(d)]
  BY DEF CreateInsert
<1>2. SameTimes(s) /\ now' = now /\ ViewMoves
  BY UntouchedSame DEF CreateInsert, sched, ViewMoves
<1>3. UNCHANGED <<phase, todo, item, view, began, crashes, crossed>>
  BY DEF CreateInsert, sched, beside
<1>4. sub \in [Sub -> Row]
  BY DEF Inv, TInv, RowsOK
<1>5. CASE s # t
  <2>1. sub'[s].nextBilling = sub[s].nextBilling
    BY <1>1, <1>4, <1>5
  <2> QED
    BY <1>2, <1>3, <2>1, RunStays
<1>6. CASE s = t
  <2>1. sub'[s].nextBilling > now
    <3>1. sub'[s] = NewRow(d)
      BY <1>1, <1>4, <1>6
    <3>2. NewRow(d).nextBilling = now + IF d > 0 THEN d ELSE Cycle
      BY DEF NewRow, NoRow
    <3> QED
      BY <3>1, <3>2, DayTypes, Counts DEF DayFacts
  <2>2. ~Left(sub[s])
    BY <1>1, <1>6 DEF Left
  <2>3. ~Waits(s) /\ (view = None \/ ~Left(view.sub[s]))
    BY <2>2 DEF Inv, TodoLeft, ViewLeft, Waits
  <2>4. now' >= now
    BY <1>2, DayTypes DEF DayFacts
  <2> QED
    BY <1>2, <1>3, <2>1, <2>3, <2>4 DEF Quiet, Mishaps, InHand, Waits
<1> QED
  BY <1>5, <1>6

(* The run's own steps outside the renewals, and the payment of one.       *)
LEMMA ReadsQuiet ==
  ASSUME Inv, Reload \/ StartRun \/ SelectGrace \/ SelectOverdue
  PROVE  \A s \in Sub : Quiet(s)
<1>1. UNCHANGED <<now, tables, beside>> /\ ViewMoves
  BY DEF Reload, StartRun, FirstTask, SelectGrace, SelectOverdue, NextTask, tables, ViewMoves
<1>2. \A s \in Sub : SameTimes(s) /\ sub'[s].nextBilling = sub[s].nextBilling
  BY <1>1, UntouchedSame DEF tables
<1>3. CASE Reload
  BY <1>1, <1>2, <1>3, RunStays DEF Reload, beside
<1>4. CASE StartRun \/ SelectGrace
  BY <1>1, <1>2, <1>4, RunElsewhere DEF StartRun, FirstTask, SelectGrace, NextTask, Billing
<1>5. CASE SelectOverdue
  <2>1. phase = "billing" /\ phase' = "overdue" /\ todo = {}
    BY <1>5 DEF SelectOverdue, NextTask
  <2>2. \A s \in Sub : ~InHand(s) /\ ~Waits(s) /\ ~InHand(s)' /\ ~Waits(s)'
    BY <2>1 DEF InHand, Waits, Billing
  <2>3. now' >= now
    BY <1>1, DayTypes DEF DayFacts
  <2> QED
    BY <1>1, <1>2, <2>2, <2>3 DEF Quiet, Mishaps, beside, ViewMoves
<1> QED
  BY <1>3, <1>4, <1>5

LEMMA TrialsQuiet ==
  ASSUME Inv, NEW t \in Sub,
         TrialLapses(t) \/ TrialRenewed(t) \/ TrialExpires(t) \/ GraceExpires(t)
  PROVE  \A s \in Sub : Quiet(s)
<1>1. /\ UNCHANGED <<now, invoices, beside>> /\ view' = None
      /\ phase \notin Billing /\ phase' \notin Billing
  BY DEF TrialLapses, TrialRenewed, TrialExpires, GraceExpires, Working, Committed, Billing
<1>2. ASSUME NEW s \in Sub
      PROVE  sub'[s].nextBilling = sub[s].nextBilling \/ sub'[s].nextBilling > now
  <2>1. CASE TrialRenewed(t)
    <3>1. Write(t, view.sub[t], Renewed) /\ "nextBilling" \in DOMAIN Renewed
          /\ Renewed["nextBilling"] = now + Cycle
      BY <2>1 DEF TrialRenewed, Renewed
    <3>2. now + Cycle # Null /\ now + Cycle > now
      BY DayTypes, Counts DEF DayFacts, Null, Inv, TInv, RowsOK
    <3> QED
      BY <3>1, <3>2, DateWritten DEF Inv, TInv
  <2>2. CASE TrialLapses(t) \/ TrialExpires(t) \/ GraceExpires(t)
    <3>1. Write(t, view.sub[t], Lapsed) \/ Write(t, view.sub[t], Expired)
      BY <2>2 DEF TrialLapses, TrialExpires, GraceExpires
    <3>2. "nextBilling" \notin DOMAIN Lapsed /\ "nextBilling" \notin DOMAIN Expired
      BY DEF Lapsed, Expired
    <3> QED
      BY <3>1, <3>2, SameDates DEF Inv, TInv
  <2> QED
    BY <2>1, <2>2
<1> QED
  BY <1>1, <1>2, UntouchedSame, RunElsewhere DEF ViewMoves

LEMMA OwnInvoiceQuiet ==
  ASSUME Inv, TrialInvoice \/ BillPayment
  PROVE  \A s \in Sub : Quiet(s)
<1>1. CASE TrialInvoice
  <2>1. /\ AddInvoice(item, view.sub[item].nextBilling, FALSE) /\ FALSE \in BOOLEAN
        /\ UNCHANGED <<now, sub, beside>> /\ view' = None
        /\ phase \notin Billing /\ phase' \notin Billing
    BY <1>1 DEF TrialInvoice, Billing
  <2>2. \A s \in Sub : SameTimes(s)
    BY <2>1, AddOther DEF Inv, TInv
  <2> QED
    BY <2>1, <2>2, RunElsewhere DEF ViewMoves
<1>2. CASE BillPayment
  <2>1. /\ UNCHANGED <<now, sub, invoices, todo, item, began, beside>> /\ view' = None
        /\ phase = "billPayment" /\ phase' = "billAdvance"
    BY <1>2 DEF BillPayment
  <2>2. \A s \in Sub : SameTimes(s)
    BY <2>1, UntouchedSame
  <2>3. now' >= now
    BY <2>1, DayTypes DEF DayFacts
  <2> QED
    BY <2>1, <2>2, <2>3 DEF Quiet, Mishaps, beside, InHand, Waits, Billing
<1> QED
  BY <1>1, <1>2

LEMMA OverdueQuiet ==
  ASSUME Inv, \/ \E i \in DOMAIN invoices : OverdueLapses(i) \/ OverdueNoted(i)
              \/ EndRun \/ OthersCommitted
  PROVE  \A s \in Sub : Quiet(s)
<1>1. ASSUME NEW i \in DOMAIN invoices, OverdueLapses(i) PROVE \A s \in Sub : Quiet(s)
  <2>1. /\ Write(invoices[i].sub, view.sub[invoices[i].sub], Lapsed)
        /\ MarkOverdue(dirty \cup {i}) /\ UNCHANGED <<now, beside>> /\ view' = None
        /\ phase \notin Billing /\ phase' \notin Billing
    BY <1>1 DEF OverdueLapses, Working, Committed, Billing
  <2>2. invoices[i] \in Invoice
    BY DEF Inv, TInv, BillsOK
  <2>3. invoices[i].sub \in Sub
    BY <2>2 DEF Invoice
  <2>4. "nextBilling" \notin DOMAIN Lapsed
    BY DEF Lapsed
  <2>5. \A s \in Sub : sub'[s].nextBilling = sub[s].nextBilling
    BY <2>1, <2>3, <2>4, SameDates DEF Inv, TInv
  <2>6. \A s \in Sub : SameTimes(s)
    BY <2>1, MarkSame DEF MarkOverdue, Inv, TInv
  <2> QED
    BY <2>1, <2>5, <2>6, RunElsewhere DEF ViewMoves
<1>2. ASSUME NEW i \in DOMAIN invoices, OverdueNoted(i) PROVE \A s \in Sub : Quiet(s)
  <2>1. /\ UNCHANGED <<now, tables, beside, view>> /\ phase \notin Billing /\ phase' \notin Billing
    BY <1>2 DEF OverdueNoted, Working, Billing
  <2> QED
    BY <2>1, UntouchedSame, RunElsewhere DEF ViewMoves, tables
<1>3. CASE EndRun
  <2>1. /\ MarkOverdue(dirty) /\ UNCHANGED <<now, sub, beside>> /\ view' = None
        /\ phase \notin Billing /\ phase' \notin Billing
    BY <1>3 DEF EndRun, Billing
  <2>2. \A s \in Sub : SameTimes(s)
    BY <2>1, MarkSame DEF MarkOverdue, Inv, TInv
  <2> QED
    BY <2>1, <2>2, RunElsewhere DEF ViewMoves
<1>4. CASE OthersCommitted
  <2>1. /\ MarkOverdue(dirty) /\ view' = None
        /\ UNCHANGED <<now, sub, phase, todo, item, began, crashes, crossed>>
    BY <1>4 DEF OthersCommitted, beside
  <2>2. \A s \in Sub : SameTimes(s)
    BY <2>1, MarkSame DEF MarkOverdue, Inv, TInv
  <2> QED
    BY <2>1, <2>2, RunStays DEF ViewMoves
<1> QED
  BY <1>1, <1>2, <1>3, <1>4

LEMMA TickQuiet ==
  ASSUME Inv, Tick
  PROVE  \A s \in Sub : Quiet(s)
BY UntouchedSame, RunStays DEF Tick, tables, sched, beside, ViewMoves


-----------------------------------------------------------------------------
(* The steps that are not quiet for the subscription they are about.       *)
LEMMA RunStep ==
  ASSUME Inv, Inv', RunInv, [Next]_vars, OneRun
  PROVE  RunInv'
<1>1. now \in Int /\ now' \in Int /\ now <= now'
  <2>1. now' = now \/ now' = now + 1
    BY DEF Next, vars, RequestStep, CreateCheck, CreateInsert, Load, Refuse, CancelNow, CancelEnd,
       SetAutoRenew, RenewCommit, RenewInvoice, Commit, PostInvoice, MarkInvoicePaid, PostPayment,
       PaymentFailed, HandleFailedPayment, PaymentCaptured, CaptureMarksInvoice,
       Progress, Reload, StartRun, FirstTask, NextTask, SelectGrace, SelectBilling, SelectOverdue, Committed,
       TrialLapses, TrialRenewed, TrialInvoice, TrialExpires, GraceExpires, BillInvoice,
       BillPayment, BillAdvance, OverdueLapses, OverdueNoted, EndRun, OthersCommitted, Crash, Tick,
       OneRun
  <2> QED
    BY <2>1, DayTypes, DayTypesNext DEF DayFacts
<1> DEFINE Way == \/ UNCHANGED <<phase, view, began>>
                  \/ phase' # "idle" /\ phase' \notin Billing
                  \/ phase' = "idle" /\ view' = None
                  \/ phase' = "billing" /\ began' = now /\ now' = now
                  \/ phase \in Billing /\ phase' # "idle" /\ began' = began
                  \/ phase' = phase /\ phase # "idle" /\ began' = began
<1>2. Way
  <2>1. ASSUME NEW r \in Request, RequestStep(r) PROVE UNCHANGED <<phase, view, began>>
    BY <2>1 DEF sched, RequestStep, CreateCheck, CreateInsert, Load, Refuse, CancelNow, CancelEnd,
       SetAutoRenew, RenewCommit, RenewInvoice, Commit, PostInvoice, MarkInvoicePaid, PostPayment,
       PaymentFailed, HandleFailedPayment, PaymentCaptured, CaptureMarksInvoice
  <2>2. CASE Progress
    <3>1. CASE StartRun \/ SelectGrace \/ SelectBilling \/ SelectOverdue \/ EndRun
      BY <3>1 DEF StartRun, FirstTask, SelectGrace, SelectBilling, SelectOverdue, EndRun, NextTask, Billing
    <3>2. CASE \E s \in Sub : \/ TrialLapses(s) \/ TrialRenewed(s) \/ TrialExpires(s)
                             \/ GraceExpires(s) \/ BillInvoice(s)
      BY <3>2 DEF TrialLapses, TrialRenewed, TrialExpires, GraceExpires, BillInvoice, Working,
         Committed, Billing
    <3>3. CASE TrialInvoice \/ BillPayment \/ BillAdvance
      BY <3>3 DEF TrialInvoice, BillPayment, BillAdvance, Billing
    <3>4. CASE \E i \in DOMAIN invoices : OverdueLapses(i) \/ OverdueNoted(i)
      BY <3>4 DEF OverdueLapses, OverdueNoted, Working, Committed, Billing
    <3> QED
      BY <2>2, <3>1, <3>2, <3>3, <3>4 DEF Progress
  <2>3. CASE Reload \/ OthersCommitted
    BY <2>3 DEF Reload, OthersCommitted
  <2>4. CASE Crash \/ Tick \/ UNCHANGED vars
    BY <2>4 DEF Crash, Tick, vars, sched
  <2> QED
    BY <2>1, <2>2, <2>3, <2>4 DEF Next, OneRun
<1>3. began \in Int /\ began' \in Int /\ "idle" \notin Billing
  BY DayTypes, DayTypesNext DEF DayFacts, Billing
<1> QED
  BY <1>1, <1>2, <1>3 DEF RunInv, Billing

(* The list of renewals: what it names is due, and what the rows name by   *)
(* now, if that differs, took a renewal in between.                        *)
LEMMA SelectBillingDup ==
  ASSUME Inv, Inv', NEW s \in Sub, DupOf(s), SelectBilling
  PROVE  DupOf(s)'
<1>0. /\ now \in Int /\ sub[s].nextBilling \in Int /\ view.sub[s].nextBilling \in Int
      /\ Mishaps(s) \in Nat /\ \A d \in Int : Times(s, d) \in Nat
  BY DayTypes DEF DayFacts, SelectBilling, NextTask
<1>1. /\ phase = "grace" /\ phase' = "billing" /\ began' = now /\ view # None
      /\ UNCHANGED <<now, sub, invoices, view, beside>>
      /\ todo' = {t \in Sub : BillingDue(view.sub[t])}
  BY DEF SelectBilling, NextTask, tables
<1>2. \A d \in Int : Times(s, d)' = Times(s, d)
  BY <1>1, UntouchedSame DEF SameTimes
<1>3. Mishaps(s)' = Mishaps(s)
  BY <1>1 DEF Mishaps, beside
<1>4. ~InHand(s) /\ ~InHand(s)'
  BY <1>1 DEF InHand
<1>5. Waits(s)' => view.sub[s].nextBilling <= now /\ Left(view.sub[s])
  BY <1>1 DEF Waits, BillingDue, Passed, Left
<1>6. EverCounted(s)'
  BY <1>2, <1>3 DEF DupOf, EverCounted
<1>7. StillCounted(s)'
  BY <1>0, <1>1, <1>2, <1>3, <1>4 DEF DupOf, StillCounted, AtMost
<1>8. OneToSpare(s)'
  <2>1. view.sub[s].nextBilling # sub[s].nextBilling /\ Left(view.sub[s])
           => AtMost(s, now, Mishaps(s) - 1)'
    BY <1>0, <1>1, <1>2, <1>3 DEF DupOf, OneToSpare, AtMost
  <2>2. AtMost(s, now, Mishaps(s) - 1)' => AtMost(s, began, Mishaps(s) - 1)'
    BY <1>1 DEF AtMost
  <2> QED
    BY <1>0, <1>1, <1>5, <2>1, <2>2 DEF OneToSpare
<1> QED
  BY <1>6, <1>7, <1>8 DEF DupOf

(* The invoice of a renewal uses up what StillCounted left, or, of a day   *)
(* after the one the run began, the mishap to spare.                       *)
LEMMA BillInvoiceDup ==
  ASSUME Inv, Inv', RunInv, NEW s \in Sub, DupOf(s), BillInvoice(s)
  PROVE  DupOf(s)'
<1> DEFINE e == view.sub[s].nextBilling
<1>1. /\ phase = "billing" /\ phase' = "billPayment" /\ item' = s /\ s \in todo /\ view # None
      /\ view' = None /\ AddInvoice(s, e, TRUE) /\ UNCHANGED <<now, began, beside>>
  BY DEF BillInvoice, Working
<1>0. /\ now \in Int /\ began \in Int /\ Cycle \in Nat /\ Cycle > 0 /\ e \in Int
      /\ began + Cycle \in Int
      /\ Mishaps(s) \in Nat /\ \A d \in Int : Times(s, d) \in Nat
  BY <1>1, DayTypes DEF DayFacts
<1> HIDE DEF e
<1>2. \A d \in Int : Times(s, d)' = IF d = e THEN Times(s, d) + 1 ELSE Times(s, d)
  BY <1>0, <1>1, AddOne DEF Inv, TInv
<1>3. Mishaps(s)' = Mishaps(s) /\ began <= now
  BY <1>1 DEF Mishaps, beside, RunInv, Billing
<1>4. item = None /\ s # None
  BY <1>1, NoneIsNothing DEF Inv, TInv, SchedOK, PhaseOK
<1>5. ~InHand(s) /\ Waits(s) /\ InHand(s)' /\ ~Waits(s)'
  BY <1>1, <1>4 DEF InHand, Waits, Billing
<1>6. Times(s, e) <= Mishaps(s)
  BY <1>1, <1>5 DEF DupOf, StillCounted, e
<1>7. \A d \in Int : d > began => Times(s, d) <= Mishaps(s)
  BY <1>5 DEF DupOf, StillCounted, AtMost
<1>8. e > began => \A d \in Int : d > began => Times(s, d) <= Mishaps(s) - 1
  BY <1>1, <1>5 DEF DupOf, OneToSpare, AtMost, e
<1>9. EverCounted(s)'
  BY <1>0, <1>2, <1>3, <1>6 DEF DupOf, EverCounted
<1>10. \A d \in Int : d > began => Times(s, d)' <= Mishaps(s)'
  BY <1>0, <1>2, <1>3, <1>7, <1>8
<1>11. StillCounted(s)'
  <2>1. AtMost(s, now, Mishaps(s))'
    BY <1>0, <1>1, <1>3, <1>10 DEF AtMost
  <2>2. Times(s, began + Cycle)' <= Mishaps(s)'
    <3>1. (began + Cycle)' = began + Cycle /\ began + Cycle > began
      BY <1>0, <1>1
    <3> QED
      BY <1>0, <1>1, <1>10, <3>1
  <2> QED
    BY <1>1, <1>5, <2>1, <2>2 DEF StillCounted
<1>12. OneToSpare(s)'
  BY <1>1, <1>5 DEF OneToSpare
<1> QED
  BY <1>9, <1>11, <1>12 DEF DupOf

LEMMA BillInvoiceOthers ==
  ASSUME Inv, NEW t \in Sub, BillInvoice(t), NEW s \in Sub, s # t
  PROVE  Quiet(s)
<1>1. /\ phase = "billing" /\ phase' = "billPayment" /\ item' = t /\ view' = None
      /\ AddInvoice(t, view.sub[t].nextBilling, TRUE)
      /\ UNCHANGED <<now, sub, todo, began, beside>>
  BY DEF BillInvoice, Working
<1>2. SameTimes(s)
  <2>1. TRUE \in BOOLEAN
    OBVIOUS
  <2> QED
    BY <1>1, <2>1, AddOther DEF Inv, TInv
<1>3. item = None /\ s # None
  BY <1>1, NoneIsNothing DEF Inv, TInv, SchedOK, PhaseOK
<1>4. now' >= now
  BY <1>1, DayTypes DEF DayFacts
<1> QED
  BY <1>1, <1>2, <1>3, <1>4 DEF Quiet, Mishaps, beside, InHand, Waits, Billing

(* The new billing date is a cycle after the run began: it names a period  *)
(* that mishaps account for.                                               *)
LEMMA BillAdvanceDup ==
  ASSUME Inv, Inv', NEW s \in Sub, DupOf(s), BillAdvance
  PROVE  DupOf(s)'
<1>1. /\ phase = "billAdvance" /\ phase' = "billing" /\ item' = None /\ view' = None
      /\ todo' = todo \ {item} /\ UNCHANGED <<now, invoices, began, beside>>
      /\ Write(item, view.sub[item], [nextBilling |-> began + Cycle])
  BY DEF BillAdvance
<1>2. item \in Sub /\ item # None /\ s # None
  BY <1>1, NoneIsNothing DEF Inv, TInv, SchedOK, PhaseOK
<1>3. SameTimes(s) /\ now' >= now
  BY <1>1, UntouchedSame, DayTypes DEF DayFacts
<1>4. began + Cycle # Null /\ began + Cycle \in Int
  BY <1>1, Counts DEF Null, Inv, TInv, SchedOK, PhaseOK
<1>5. CASE s # item
  <2>1. sub'[s].nextBilling = sub[s].nextBilling
    BY <1>1, <1>2, <1>5, DateWritten DEF Inv, TInv
  <2> QED
    <3>1. Quiet(s)
      BY <1>1, <1>2, <1>3, <1>5, <2>1 DEF Quiet, Mishaps, beside, InHand, Waits, Billing
    <3> QED
      BY <3>1, QuietKeeps
<1>6. CASE s = item
  <2> DEFINE a == [nextBilling |-> began + Cycle]
  <2>1. sub'[s].nextBilling = began + Cycle
    <3>1. "nextBilling" \in DOMAIN a /\ a["nextBilling"] = began + Cycle
      OBVIOUS
    <3> QED
      BY <1>1, <1>4, <1>6, <3>1, DateWritten DEF Inv, TInv
  <2>2. InHand(s) /\ ~InHand(s)' /\ ~Waits(s)' /\ Mishaps(s)' = Mishaps(s)
    BY <1>1, <1>2, <1>6 DEF InHand, Waits, Mishaps, beside
  <2>3. \A d \in Int : Times(s, d)' = Times(s, d)
    BY <1>3 DEF SameTimes
  <2>4. Times(s, began + Cycle) <= Mishaps(s) /\ AtMost(s, now, Mishaps(s))
    BY <2>2 DEF DupOf, StillCounted
  <2>5. EverCounted(s)'
    BY <2>2, <2>3 DEF DupOf, EverCounted
  <2>6. AtMost(s, now, Mishaps(s))'
    BY <1>1, <2>2, <2>3, <2>4 DEF AtMost
  <2>7. Times(s, sub[s].nextBilling)' = Times(s, began + Cycle)
    BY <1>4, <2>1, <2>3
  <2>8. StillCounted(s)'
    BY <1>1, <2>2, <2>4, <2>6, <2>7 DEF StillCounted
  <2>9. OneToSpare(s)'
    BY <1>1, <2>2 DEF OneToSpare
  <2> QED
    BY <2>5, <2>8, <2>9 DEF DupOf
<1> QED
  BY <1>5, <1>6

(* A renewal that crosses a run is the mishap to spare; another one moves  *)
(* the billing date where no run looks.                                    *)
LEMMA RenewDup ==
  ASSUME Inv, Inv', RunInv, NEW s \in Sub, DupOf(s), NEW r \in Request, RenewCommit(r)
  PROVE  DupOf(s)'
<1>1. /\ Commit(r, "renew", Renewed)
      /\ UNCHANGED <<now, invoices, phase, todo, item, view, began, crashes>>
      /\ crossed' = IF phase = "idle" THEN crossed ELSE [crossed EXCEPT ![req[r].id] = @ + 1]
  BY DEF RenewCommit, Commit
<1>2. req[r].id \in Sub
  BY <1>1 DEF Inv, TInv, ReqOK, Commit, At
<1>3. SameTimes(s) /\ now' >= now
  BY <1>1, UntouchedSame, DayTypes DEF DayFacts
<1>4. crossed \in [Sub -> Nat]
  BY DEF Inv, TInv, SchedOK, PhaseOK
<1>5. now + Cycle # Null /\ now + Cycle > now /\ now + Cycle \in Int
  BY DayTypes, Counts DEF DayFacts, Null, Inv, TInv, RowsOK
<1>6. Write(req[r].id, req[r].row, Renewed)
  BY <1>1 DEF Commit
<1>7. "nextBilling" \in DOMAIN Renewed /\ Renewed["nextBilling"] = now + Cycle
  BY DEF Renewed
<1>8. UNCHANGED <<phase, todo, item, view, began>>
  BY <1>1
<1>9. CASE s # req[r].id
  <2>1. sub'[s].nextBilling = sub[s].nextBilling
    BY <1>2, <1>6, <1>9, DateWritten DEF Inv, TInv
  <2>2. Mishaps(s)' = Mishaps(s)
    BY <1>1, <1>4, <1>9 DEF Mishaps
  <2>3. Quiet(s)
    BY <1>3, <1>8, <2>1, <2>2 DEF Quiet, InHand, Waits
  <2> QED
    BY <2>3, QuietKeeps
<1>10. CASE s = req[r].id /\ phase = "idle"
  <2>1. sub'[s].nextBilling > now
    BY <1>2, <1>5, <1>6, <1>7, <1>10, DateWritten DEF Inv, TInv
  <2>2. Mishaps(s)' = Mishaps(s)
    BY <1>1, <1>10 DEF Mishaps
  <2>3. view' = None /\ ~Waits(s)'
    BY <1>8, <1>10 DEF RunInv, Waits, Billing
  <2>4. Quiet(s)
    BY <1>3, <1>8, <2>1, <2>2, <2>3 DEF Quiet, InHand, Waits
  <2> QED
    BY <2>4, QuietKeeps
<1>11. CASE s = req[r].id /\ phase # "idle"
  <2>0. Mishaps(s) \in Nat /\ \A d \in Int : Times(s, d) \in Nat
    BY DayTypes DEF DayFacts
  <2>1. sub'[s].nextBilling = now + Cycle
    BY <1>2, <1>5, <1>6, <1>7, <1>11, DateWritten DEF Inv, TInv
  <2>2. Mishaps(s)' = Mishaps(s) + 1
    <3>1. crossed'[s] = crossed[s] + 1 /\ crossed[s] \in Nat
      BY <1>1, <1>4, <1>11
    <3>2. crashes' = crashes /\ crashes \in Nat
      BY <1>1, Counts DEF Inv, TInv, SchedOK, PhaseOK
    <3> QED
      BY <3>1, <3>2 DEF Mishaps
  <2>3. \A d \in Int : Times(s, d)' = Times(s, d)
    BY <1>3 DEF SameTimes
  <2>4. (InHand(s)' <=> InHand(s)) /\ (Waits(s)' <=> Waits(s)) /\ now' = now
    BY <1>1 DEF InHand, Waits
  <2>5. /\ AtMost(s, now, Mishaps(s)) /\ AtMost(s, now, Mishaps(s))'
        /\ (Waits(s) => AtMost(s, began, Mishaps(s)) /\ AtMost(s, began, Mishaps(s))')
        /\ (InHand(s) => Times(s, began + Cycle) <= Mishaps(s))
        /\ (view # None /\ ~InHand(s) => Times(s, view.sub[s].nextBilling) <= Mishaps(s))
    BY <1>8, <2>0, <2>2, <2>3, <2>4 DEF DupOf, StillCounted, AtMost
  <2>6. EverCounted(s)'
    BY <2>0, <2>2, <2>3 DEF DupOf, EverCounted
  <2>7. StillCounted(s)'
    <3>1. Times(s, sub[s].nextBilling)' <= Mishaps(s)'
      <4>1. Times(s, now + Cycle) <= Mishaps(s)
        BY <1>5, <2>5 DEF AtMost
      <4>2. Times(s, sub[s].nextBilling)' = Times(s, now + Cycle)
        BY <1>5, <2>1, <2>3
      <4> QED
        BY <1>5, <2>0, <2>2, <4>1, <4>2
    <3>2. InHand(s) => Times(s, began + Cycle)' <= Mishaps(s)'
      <4>1. began + Cycle \in Int /\ (began + Cycle)' = began + Cycle
        BY <1>8, DayTypes DEF DayFacts
      <4> QED
        BY <2>0, <2>2, <2>3, <2>5, <4>1
    <3>3. view # None /\ ~InHand(s) => Times(s, view.sub[s].nextBilling)' <= Mishaps(s)'
      <4>1. view # None => view.sub[s].nextBilling \in Int
        BY DayTypes DEF DayFacts
      <4> QED
        BY <1>8, <2>0, <2>2, <2>3, <2>5, <4>1
    <3> QED
      BY <1>8, <2>4, <2>5, <3>1, <3>2, <3>3 DEF StillCounted
  <2>8. OneToSpare(s)'
    <3>1. (Mishaps(s) - 1)' = Mishaps(s)
      BY <2>0, <2>2
    <3>2. Waits(s) => AtMost(s, began, Mishaps(s) - 1)'
      BY <1>8, <2>3, <2>5, <3>1 DEF AtMost
    <3>3. AtMost(s, now, Mishaps(s) - 1)'
      BY <2>3, <2>4, <2>5, <3>1 DEF AtMost
    <3> QED
      BY <2>4, <3>2, <3>3 DEF OneToSpare
  <2> QED
    BY <2>6, <2>7, <2>8 DEF DupOf
<1> QED
  BY <1>9, <1>10, <1>11

(* A crash leaves the run's work where it was, and accounts for it.        *)
LEMMA CrashDup ==
  ASSUME Inv, Inv', NEW s \in Sub, DupOf(s), Crash
  PROVE  DupOf(s)'
<1>0. /\ Mishaps(s) \in Nat /\ (\A d \in Int : Times(s, d) \in Nat)
      /\ sub'[s].nextBilling \in Int /\ now' \in Int
  BY DayTypes, DayTypesNext DEF DayFacts
<1>1. phase' = "idle" /\ view' = None /\ UNCHANGED <<now, sub, invoices, crossed>>
  BY DEF Crash, tables
<1>2. Mishaps(s)' = Mishaps(s) + 1
  <2>1. crashes' = crashes + 1 /\ crashes \in Nat /\ crossed[s] \in Nat
    BY Counts DEF Crash, Inv, TInv, SchedOK, PhaseOK
  <2> QED
    BY <1>1, <2>1 DEF Mishaps
<1>3. \A d \in Int : Times(s, d)' = Times(s, d)
  BY <1>1, UntouchedSame DEF SameTimes
<1>4. \A d \in Int : Times(s, d)' <= Mishaps(s)'
  BY <1>0, <1>2, <1>3 DEF DupOf, EverCounted
<1>5. EverCounted(s)'
  BY <1>0, <1>2, <1>3, <1>4 DEF DupOf, EverCounted
<1>6. ~InHand(s)' /\ ~Waits(s)'
  BY <1>1 DEF InHand, Waits, Billing
<1>7. StillCounted(s)' /\ OneToSpare(s)'
  BY <1>0, <1>1, <1>4, <1>6 DEF StillCounted, OneToSpare, AtMost
<1> QED
  BY <1>5, <1>7 DEF DupOf

-----------------------------------------------------------------------------
(* While there is one run, no step but StartBeside makes it two.           *)
LEMMA OneRunStep ==
  ASSUME [Next]_vars, DupInv, ~overlapped'
  PROVE  ~overlapped /\ OneRun /\ parked' = parked
<1>1. ASSUME NEW x \in Aside PROVE ~StartBeside(x)
  BY DEF StartBeside
<1>2. CASE \E x \in Aside : Switch(x)
  BY <1>2 DEF Switch, DupInv
<1>3. CASE OneRun
  <2>1. ASSUME NEW r \in Request, RequestStep(r) PROVE UNCHANGED <<parked, overlapped>>
    BY <2>1 DEF sched, beside, RequestStep, CreateCheck, CreateInsert, Load, Refuse, CancelNow,
       CancelEnd, SetAutoRenew, RenewCommit, RenewInvoice, Commit, PostInvoice, MarkInvoicePaid,
       PostPayment, PaymentFailed, HandleFailedPayment, PaymentCaptured, CaptureMarksInvoice
  <2>2. ASSUME Progress PROVE UNCHANGED <<parked, overlapped>>
    BY <2>2 DEF Progress, beside, StartRun, FirstTask, NextTask, SelectGrace, SelectBilling,
       SelectOverdue, Committed, TrialLapses, TrialRenewed, TrialInvoice, TrialExpires, GraceExpires,
       BillInvoice, BillPayment, BillAdvance, OverdueLapses, OverdueNoted, EndRun
  <2>3. ASSUME Reload \/ OthersCommitted \/ Crash \/ Tick \/ UNCHANGED vars
        PROVE  UNCHANGED <<parked, overlapped>>
    BY <2>3 DEF Reload, OthersCommitted, Crash, Tick, vars, sched, beside
  <2>4. UNCHANGED <<parked, overlapped>>
    BY <1>3, <2>1, <2>2, <2>3 DEF Next, OneRun
  <2>5. parked' = parked /\ overlapped' = overlapped
    BY <2>4
  <2> QED
    BY <1>3, <2>5, Zenon
<1> QED
  BY <1>1, <1>2, <1>3 DEF OneRun

(* Every step of a single run, and of the rest, keeps the account.         *)
LEMMA DupStep ==
  ASSUME Inv, Inv', RunInv, \A s \in Sub : DupOf(s), [Next]_vars, OneRun
  PROVE  RunInv' /\ \A s \in Sub : DupOf(s)'
<1>1. RunInv'
  BY RunStep
<1>2. ASSUME NEW s \in Sub PROVE DupOf(s)'
  <2>0. RunInv /\ DupOf(s)
    OBVIOUS
  <2>1. CASE Quiet(s)
    BY <2>0, <2>1, QuietKeeps
  <2>2. ASSUME NEW r \in Request, RequestStep(r) PROVE DupOf(s)'
    <3>1. CASE \E t \in Sub : \/ CreateCheck(r, t)
                              \/ \E k \in {"cancelNow", "cancelEnd", "update", "renew"} :
                                    Load(r, k, t) \/ Refuse(r, k, t)
      BY <2>1, <3>1, RequestReads DEF CreateCheck, Load, Refuse
    <3>2. CASE \E p \in DOMAIN payments : PaymentFailed(r, p) \/ PaymentCaptured(r, p)
      BY <2>1, <3>2, RequestReads DEF PaymentFailed, PaymentCaptured
    <3>3. CASE RenewCommit(r)
      BY <2>0, <3>3, RenewDup
    <3> QED
      BY <2>1, <2>2, <3>1, <3>2, <3>3, RequestCommits, RequestInvoices, RequestPaid,
         RequestPayments, InsertQuiet DEF RequestStep
  <2>3. CASE UNCHANGED vars
    BY <2>1, <2>3, RequestReads DEF vars
  <2>4. CASE Progress
    <3>1. CASE SelectBilling
      BY <2>0, <3>1, SelectBillingDup
    <3>2. CASE BillAdvance
      BY <2>0, <3>2, BillAdvanceDup
    <3>3. ASSUME NEW t \in Sub, BillInvoice(t) PROVE DupOf(s)'
      BY <2>0, <2>1, <3>3, BillInvoiceDup, BillInvoiceOthers
    <3> QED
      BY <2>1, <2>4, <3>1, <3>2, <3>3, ReadsQuiet, TrialsQuiet, OwnInvoiceQuiet, OverdueQuiet
         DEF Progress
  <2>6. CASE Reload \/ OthersCommitted \/ Tick
    BY <2>1, <2>6, ReadsQuiet, OverdueQuiet, TickQuiet
  <2>7. CASE Crash
    BY <2>0, <2>7, CrashDup
  <2> QED
    BY <2>2, <2>3, <2>4, <2>6, <2>7 DEF Next, OneRun
<1> QED
  BY <1>1, <1>2

(* The account is kept from the start.                                     *)
LEMMA DupHolds == Spec => []DupInv
<1>1. Init /\ Inv => DupInv
  <2> SUFFICES ASSUME Init, Inv PROVE DupInv
    OBVIOUS
  <2>1. invoices = <<>> /\ phase = "idle" /\ view = None
    BY DEF Init
  <2>2. \A s, d : Times(s, d) = 0
    <3>1. \A s, d : Billed(s, d) = {}
      BY <2>1 DEF Billed
    <3> QED
      BY <3>1, FS_EmptySet DEF Times
  <2>3. \A s \in Sub : Mishaps(s) \in Nat
    BY DayTypes DEF DayFacts
  <2>4. phase \notin Billing
    BY <2>1 DEF Billing
  <2>5. ASSUME NEW s \in Sub PROVE DupOf(s)
    <3>1. ~InHand(s) /\ ~Waits(s)
      BY <2>1, <2>4 DEF InHand, Waits
    <3>2. Mishaps(s) >= 0 /\ 1 + Mishaps(s) >= 0
      BY <2>3
    <3> QED
      BY <2>1, <2>2, <3>1, <3>2 DEF DupOf, EverCounted, StillCounted, OneToSpare, AtMost
  <2>6. \A x \in Aside : parked[x].phase = "idle"
    BY DEF Init, NoRun
  <2> QED
    BY <2>1, <2>4, <2>5, <2>6 DEF DupInv, RunInv
<1>2. Inv /\ Inv' /\ DupInv /\ [Next]_vars => DupInv'
  <2> SUFFICES ASSUME Inv, Inv', DupInv, [Next]_vars, ~overlapped' PROVE DupInv'
    BY DEF DupInv
  <2>1. ~overlapped /\ OneRun /\ parked' = parked
    BY OneRunStep
  <2>2. RunInv' /\ \A s \in Sub : DupOf(s)'
    BY <2>1, DupStep DEF DupInv
  <2> QED
    BY <2>1, <2>2 DEF DupInv
<1> QED
  BY <1>1, <1>2, InvHolds, PTL DEF Spec

(* As long as no two runs of the scheduler overlapped, its invoices of a   *)
(* period are at most one more than the runs that died and the renewals    *)
(* that crossed a run.                                                     *)
THEOREM DuplicatesNeedMishaps == Spec => []RunsBillOnceButForMishaps
<1>1. Inv /\ DupInv => RunsBillOnceButForMishaps
  <2> SUFFICES ASSUME Inv, DupInv, ~overlapped, NEW s \in Sub,
                      NEW day \in {invoices[i].start : i \in DOMAIN invoices}
               PROVE  Times(s, day) <= 1 + crashes + crossed[s]
    BY DEF RunsBillOnceButForMishaps, Times, Billed
  <2>1. day \in Int
    <3>1. \A i \in DOMAIN invoices : invoices[i] \in Invoice
      BY DEF Inv, TInv, BillsOK
    <3> QED
      BY <3>1 DEF Invoice
  <2>2. Times(s, day) <= 1 + Mishaps(s)
    BY <2>1 DEF DupInv, DupOf, EverCounted
  <2>3. crashes \in Nat /\ crossed[s] \in Nat /\ Times(s, day) \in Nat
    BY Counts, DayTypes DEF DayFacts, Inv, TInv, SchedOK, PhaseOK
  <2> QED
    BY <2>2, <2>3 DEF Mishaps
<1> QED
  BY <1>1, InvHolds, DupHolds, PTL

=============================================================================
