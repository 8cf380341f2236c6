---------------------------- MODULE Subscription ----------------------------
(***************************************************************************)
(* Billing: the subscriptions, invoices and payments tables, the API       *)
(* handlers and Razorpay webhooks that write them (SubscriptionService),   *)
(* and the scheduler script (SubscriptionTaskManager) that cron starts     *)
(* every few hours.                                                        *)
(*                                                                         *)
(* Grain: the database transaction.  No row is locked and no UPDATE has a  *)
(* condition.  A handler reads a row (and checks it) in one action and     *)
(* commits in a later one; MySQL's REPEATABLE READ makes every read of the *)
(* transaction see the snapshot of the first, and SQLAlchemy writes only   *)
(* the columns whose value differs from the one it loaded.  The sessions   *)
(* expire their objects on commit, so the next read is a new snapshot.     *)
(*                                                                         *)
(* A handler that dies between two transactions is one that takes no       *)
(* further step; the scheduler dies by Crash, and cron starts it again.    *)
(* Nothing keeps a run from starting while an older one is under way: the  *)
(* variables of the scheduler are those of one run, and the runs beside it *)
(* wait in parked until it is their turn (Switch).                         *)
(***************************************************************************)
EXTENDS Integers, FiniteSets, Sequences

CONSTANTS
    Sub,               \* the subscriptions rows there can be
    Home,              \* Home[s]: the institution of s
    Aside,             \* the runs of the scheduler beside one (a bound)
    Request,           \* the API calls and webhook deliveries
    Kinds,             \* the kinds of request that are made
    Trial,             \* trial_days, when it is not 0
    Cycle,             \* days in a billing cycle
    Grace,             \* GRACE_PERIOD_DAYS
    PayWithin,         \* days an invoice may stay open
    MaxTime, MaxCrashes,
    None

ASSUME Durations == {Trial, Cycle, Grace, PayWithin} \subseteq Nat \ {0}
ASSUME BoundsAreCounts == {MaxTime, MaxCrashes} \subseteq Nat

VARIABLES
    now,
    sub,               \* sub[s]: the row of s
    invoices,          \* the invoices, oldest first
    payments,          \* the payments, oldest first: whose they are
    req,               \* req[r]: what request r is doing
    phase,             \* the task the scheduler is at
    todo,              \* what is left of the list the task selected
    item,              \* the subscription it is in the middle of
    view,              \* the snapshot of its transaction, None between two
    dirty,             \* invoices it has marked overdue and not committed
    began,             \* the time it read before it selected the list
    parked,            \* parked[x]: the state of a run whose turn it is not
    crashes,
    crossed,           \* history: renewals of s by the API in the middle of a run
    overlapped         \* history: a run began while another was under way

tables  == <<sub, invoices, payments>>
beside  == <<parked, crashes, crossed, overlapped>>
sched   == <<phase, todo, item, view, dirty, began, beside>>
vars    == <<now, tables, req, sched>>

Null == -1                        \* SQL's NULL, in a date column
Passed(date) == date # Null /\ date <= now

Statuses == {"absent", "trial", "trialing", "active", "past_due",
             "canceled", "expired"}
Row == [status : Statuses, autoRenew : BOOLEAN, canceled : BOOLEAN,
        nextBilling : Int, trialEnd : Int, graceEnd : Int, endDate : Int]
DateColumns == {"nextBilling", "graceEnd", "endDate"}

(* What a transaction may have read of the tables.                         *)
SnapshotType == [sub : [Sub -> Row], open : SUBSET Nat]

ASSUME NoneIsNothing == None \notin Sub /\ None \notin SnapshotType

NoRow == [status |-> "absent", autoRenew |-> FALSE, canceled |-> FALSE,
          nextBilling |-> Null, trialEnd |-> Null, graceEnd |-> Null,
          endDate |-> Null]

(* create_subscription's row; trial_days = 0 makes it active at once. *)
NewRow(days) ==
    [NoRow EXCEPT !.status = IF days > 0 THEN "trialing" ELSE "active",
                  !.autoRenew = TRUE,
                  !.trialEnd = IF days > 0 THEN now + days ELSE Null,
                  !.nextBilling = now + IF days > 0 THEN days ELSE Cycle]

(* The row the super admin's create_institution inserts. *)
AdminRow(days) ==
    [NewRow(days) EXCEPT !.status = IF days > 0 THEN "trial" ELSE "active",
                         !.endDate = now + Cycle]

Idle == [kind |-> "none", pc |-> "idle", id |-> None, row |-> NoRow]
Done == [Idle EXCEPT !.pc = "done"]

(* The run whose turn it is, as parked keeps one, and one that is over. *)
ThisRun == [phase |-> phase, todo |-> todo, item |-> item, view |-> view,
            dirty |-> dirty, began |-> began]
NoRun   == [phase |-> "idle", todo |-> {}, item |-> None, view |-> None,
            dirty |-> {}, began |-> 0]

(* Any mix of institutions and subscriptions that were just made. *)
Init ==
    /\ now = 0
    /\ sub \in [Sub -> {NoRow} \cup {NewRow(d) : d \in {0, Trial}}
                               \cup {AdminRow(d) : d \in {0, Trial}}]
    /\ \A s, t \in Sub : s # t /\ Home[s] = Home[t] =>
                           "absent" \in {sub[s].status, sub[t].status}
    /\ invoices = <<>> /\ payments = <<>>
    /\ req = [r \in Request |-> Idle]
    /\ phase = "idle" /\ todo = {} /\ item = None /\ view = None
    /\ dirty = {} /\ began = 0 /\ crashes = 0
    /\ parked = [x \in Aside |-> NoRun] /\ overlapped = FALSE
    /\ crossed = [s \in Sub |-> 0]

-----------------------------------------------------------------------------
(* Helpers. *)

(* The UPDATE of a commit.  assigned gives the columns the handler set; of *)
(* those, the ones that differ from the row it loaded are written (a date  *)
(* is a fresh timestamp, so it differs unless it is NULL).                 *)
Update(row, loaded, assigned) ==
    [c \in DOMAIN row |->
        IF /\ c \in DOMAIN assigned
           /\ \/ assigned[c] # loaded[c]
              \/ c \in DateColumns /\ assigned[c] # Null
        THEN assigned[c]
        ELSE row[c]]

Write(s, loaded, assigned) ==
    sub' = [sub EXCEPT ![s] = Update(@, loaded, assigned)]

(* What renew_subscription, handle_failed_payment and the two ways to      *)
(* expire set.                                                             *)
Renewed == [status |-> "active", nextBilling |-> now + Cycle, graceEnd |-> Null]
Lapsed  == [status |-> "past_due", graceEnd |-> now + Grace]
Expired == [status |-> "expired", endDate |-> now]

Renewable(row) == row.status \in {"active", "past_due"}

(* Mutant: the invoice stays a draft. *)
AddDraftInvoice(s, start, auto) ==
    invoices' = Append(invoices,
        [sub |-> s, start |-> start, due |-> now + PayWithin,
         status |-> "draft", auto |-> auto])

(* generate_invoice; auto marks the ones process_upcoming_renewals makes.  *)
AddInvoice(s, start, auto) ==
    invoices' = Append(invoices,
        [sub |-> s, start |-> start, due |-> now + PayWithin,
         status |-> "open", auto |-> auto])

AddPayment(s) == payments' = Append(payments, s)

Begin(r, k, pc, id, row) ==
    /\ k \in Kinds
    /\ req[r].pc = "idle"
    /\ req' = [req EXCEPT ![r] = [kind |-> k, pc |-> pc, id |-> id, row |-> row]]

At(r, k, pc) == req[r].kind = k /\ req[r].pc = pc

Finish(r) == req' = [req EXCEPT ![r] = Done]

-----------------------------------------------------------------------------
(* The subscription API.  POST /subscriptions/ looks for a subscription of *)
(* the institution that still serves, then inserts the new one.            *)

CreateCheck(r, s) ==
    /\ sub[s].status = "absent"
    /\ \A t \in Sub : Home[t] = Home[s] => sub[t].status \notin {"active", "trialing"}
    /\ Begin(r, "create", "insert", s, NoRow)
    /\ UNCHANGED <<now, tables, sched>>

CreateInsert(r) ==
    /\ At(r, "create", "insert")
    /\ \E s \in Sub, days \in {0, Trial} :
         /\ Home[s] = Home[req[r].id]
         /\ sub[s].status = "absent"
         /\ sub' = [sub EXCEPT ![s] = NewRow(days)]
    /\ Finish(r)
    /\ UNCHANGED <<now, invoices, payments, sched>>

(* The row is read and the handler's own check made. *)
Allows(k, row) ==
    CASE k \in {"cancelNow", "cancelEnd"} -> row.status \notin {"canceled", "expired"}
      [] k = "renew"                      -> Renewable(row)
      [] OTHER                            -> TRUE

Load(r, k, s) ==
    /\ sub[s].status # "absent"
    /\ Allows(k, sub[s])
    /\ Begin(r, k, "commit", s, sub[s])
    /\ UNCHANGED <<now, tables, sched>>

Refuse(r, k, s) ==
    /\ sub[s].status # "absent"
    /\ ~Allows(k, sub[s])
    /\ k \in Kinds /\ req[r].pc = "idle"
    /\ Finish(r)
    /\ UNCHANGED <<now, tables, sched>>

Commit(r, k, assigned) ==
    /\ At(r, k, "commit")
    /\ Write(req[r].id, req[r].row, assigned)
    /\ UNCHANGED <<now, invoices, payments, phase, todo, item, view, dirty, began,
                   parked, crashes, overlapped>>

(* cancel_subscription(immediate = True) *)
CancelNow(r) ==
    /\ Commit(r, "cancelNow", [status |-> "canceled", endDate |-> now,
                               canceled |-> TRUE, autoRenew |-> FALSE])
    /\ Finish(r) /\ UNCHANGED crossed

(* cancel_subscription(immediate = False) *)
CancelEnd(r) ==
    /\ Commit(r, "cancelEnd", [endDate |-> req[r].row.nextBilling,
                               canceled |-> TRUE, autoRenew |-> FALSE])
    /\ Finish(r) /\ UNCHANGED crossed

(* update_subscription, of the one column that matters here. *)
SetAutoRenew(r) ==
    \E on \in BOOLEAN :
      /\ Commit(r, "update", [autoRenew |-> on])
      /\ Finish(r) /\ UNCHANGED crossed

(* renew_subscription; its invoice is another transaction, which reads the *)
(* row again and starts the invoice at the billing date just written.      *)
RenewCommit(r) ==
    /\ Commit(r, "renew", Renewed)
    /\ req' = [req EXCEPT ![r].pc = "invoice"]
    /\ crossed' = IF phase = "idle" THEN crossed
                  ELSE [crossed EXCEPT ![req[r].id] = @ + 1]

RenewInvoice(r) ==
    /\ At(r, "renew", "invoice")
    /\ AddInvoice(req[r].id, sub[req[r].id].nextBilling, FALSE)
    /\ Finish(r)
    /\ UNCHANGED <<now, sub, payments, sched>>

-----------------------------------------------------------------------------
(* Invoices and payments. *)

(* POST /subscriptions/{id}/invoices *)
PostInvoice(r, s) ==
    /\ "invoice" \in Kinds /\ req[r].pc = "idle"
    /\ sub[s].status # "absent"
    /\ AddInvoice(s, sub[s].nextBilling, FALSE)
    /\ Finish(r)
    /\ UNCHANGED <<now, sub, payments, sched>>

(* POST /subscriptions/invoices/{id}/mark-paid: from any status. *)
MarkInvoicePaid(r, i) ==
    /\ "markPaid" \in Kinds /\ req[r].pc = "idle"
    /\ invoices' = [invoices EXCEPT ![i].status = "paid"]
    /\ Finish(r)
    /\ UNCHANGED <<now, sub, payments, sched>>

(* POST /subscriptions/{id}/payments *)
PostPayment(r, s) ==
    /\ "pay" \in Kinds /\ req[r].pc = "idle"
    /\ sub[s].status # "absent"
    /\ AddPayment(s)
    /\ Finish(r)
    /\ UNCHANGED <<now, sub, invoices, sched>>

(* A payment.failed webhook: of an earlier attempt, perhaps delivered late *)
(* or again.  It may be matched with any payment: with a verified one by   *)
(* its order, and one without an order, which is IS NULL to the query,     *)
(* with the first payment that has none.  handle_failed_payment reads the  *)
(* subscription.                                                           *)
PaymentFailed(r, p) ==
    /\ Begin(r, "failed", "commit", payments[p], sub[payments[p]])
    /\ UNCHANGED <<now, tables, sched>>

HandleFailedPayment(r) ==
    /\ Commit(r, "failed", Lapsed)
    /\ Finish(r) /\ UNCHANGED crossed

Open(s) == {i \in DOMAIN invoices : invoices[i].sub = s /\ invoices[i].status = "open"}

(* A payment.captured webhook, perhaps delivered again, matched likewise:  *)
(* the subscription's newest open invoice is looked up.                    *)
PaymentCaptured(r, p) ==
    /\ \/ /\ Open(payments[p]) = {}
          /\ "captured" \in Kinds /\ req[r].pc = "idle"
          /\ Finish(r)
       \/ \E i \in Open(payments[p]) :
            /\ \A j \in Open(payments[p]) : j <= i
            /\ Begin(r, "captured", "mark", i, NoRow)
    /\ UNCHANGED <<now, tables, sched>>

CaptureMarksInvoice(r) ==
    /\ At(r, "captured", "mark")
    /\ invoices' = [invoices EXCEPT ![req[r].id].status = "paid"]
    /\ Finish(r)
    /\ UNCHANGED <<now, sub, payments, sched>>

-----------------------------------------------------------------------------
(* The scheduler: run_subscription_tasks. *)

(* What later statements of a transaction can still see of its snapshot.   *)
Snapshot ==
    [sub |-> sub,
     open |-> {i \in DOMAIN invoices : invoices[i].status = "open"}]

(* The next access after a commit loads again, from a new snapshot. *)
Reload ==
    /\ phase # "idle" /\ view = None
    /\ view' = Snapshot
    /\ UNCHANGED <<now, tables, req, phase, todo, item, dirty, began, beside>>

TrialOver(row) == row.status = "trialing" /\ Passed(row.trialEnd)
GraceOver(row) == row.status = "past_due" /\ Passed(row.graceEnd)
(* Mutant: the filter on the status is missing. *)
BillingDueAnyStatus(row) == row.autoRenew /\ Passed(row.nextBilling)

BillingDue(row) == row.status = "active" /\ row.autoRenew /\ Passed(row.nextBilling)
Overdue(inv) == inv.status = "open" /\ inv.due < now

(* The first lists of a run are read in one snapshot. *)
FirstTask ==
    /\ phase' = "trials" /\ view' = Snapshot
    /\ todo' = {s \in Sub : TrialOver(sub[s])}
    /\ UNCHANGED <<now, tables, req>>

(* cron starts the script. *)
StartRun ==
    /\ phase = "idle"
    /\ FirstTask
    /\ UNCHANGED <<item, dirty, began, beside>>

(* cron starts it although a run is under way. *)
StartBeside(x) ==
    /\ phase # "idle" /\ parked[x].phase = "idle"
    /\ parked' = [parked EXCEPT ![x] = ThisRun]
    /\ overlapped' = TRUE
    /\ FirstTask
    /\ item' = None /\ dirty' = {} /\ began' = 0
    /\ UNCHANGED <<crashes, crossed>>

(* The turn goes to another run. *)
Switch(x) ==
    /\ parked[x].phase # "idle"
    /\ parked' = [parked EXCEPT ![x] = ThisRun]
    /\ phase' = parked[x].phase /\ todo' = parked[x].todo /\ item' = parked[x].item
    /\ view' = parked[x].view /\ dirty' = parked[x].dirty /\ began' = parked[x].began
    /\ UNCHANGED <<now, tables, req, crashes, crossed, overlapped>>

NextTask(from, to, list) ==
    /\ phase = from /\ todo = {} /\ view # None
    /\ phase' = to /\ todo' = list
    /\ UNCHANGED <<now, tables, req, item, view, dirty, beside>>

SelectGrace ==
    /\ NextTask("trials", "grace", {s \in Sub : GraceOver(view.sub[s])})
    /\ UNCHANGED began

(* Mutant: a renewal due right now is not selected. *)
SelectBillingStrict ==
    /\ NextTask("grace", "billing", {s \in Sub : /\ BillingDue(view.sub[s])
                                                /\ view.sub[s].nextBilling < now})
    /\ began' = now

SelectBilling ==
    /\ NextTask("grace", "billing", {s \in Sub : BillingDue(view.sub[s])})
    /\ began' = now

SelectOverdue ==
    /\ NextTask("billing", "overdue",
                {i \in view.open : invoices[i].due < now})
    /\ began' = 0

(* The step that works on element x of the list task is at. *)
Working(task, x) == phase = task /\ x \in todo /\ view # None

(* One element's transaction is committed. *)
Committed(x) ==
    /\ todo' = todo \ {x} /\ view' = None
    /\ UNCHANGED <<now, payments, req, phase, item, began, beside>>

(* process_expired_trials *)

(* Mutant: a renewal that was refused is forgotten. *)
TrialLapsesForgotten(s) ==
    /\ Working("trials", s)
    /\ view.sub[s].autoRenew /\ ~Renewable(view.sub[s])
    /\ Committed(s)
    /\ UNCHANGED <<sub, invoices, dirty>>

(* renew_subscription refuses the row, and that counts as a failed payment. *)
TrialLapses(s) ==
    /\ Working("trials", s)
    /\ view.sub[s].autoRenew /\ ~Renewable(view.sub[s])
    /\ Write(s, view.sub[s], Lapsed)
    /\ Committed(s)
    /\ UNCHANGED <<invoices, dirty>>

(* The row left its trial since the list was read. *)
TrialRenewed(s) ==
    /\ Working("trials", s)
    /\ view.sub[s].autoRenew /\ Renewable(view.sub[s])
    /\ Write(s, view.sub[s], Renewed)
    /\ phase' = "trialInvoice" /\ item' = s /\ view' = None
    /\ UNCHANGED <<now, invoices, payments, req, todo, dirty, began, beside>>

TrialInvoice ==
    /\ phase = "trialInvoice" /\ view # None
    /\ AddInvoice(item, view.sub[item].nextBilling, FALSE)
    /\ phase' = "trials" /\ item' = None /\ view' = None
    /\ todo' = todo \ {item}
    /\ UNCHANGED <<now, sub, payments, req, dirty, began, beside>>

TrialExpires(s) ==
    /\ Working("trials", s)
    /\ ~view.sub[s].autoRenew
    /\ Write(s, view.sub[s], Expired)
    /\ Committed(s)
    /\ UNCHANGED <<invoices, dirty>>

(* process_expired_grace_periods: the row is not looked at again. *)

(* Mutant: end_date is set and the status is not. *)
GraceOnlyDated(s) ==
    /\ Working("grace", s)
    /\ Write(s, view.sub[s], [endDate |-> now])
    /\ Committed(s)
    /\ UNCHANGED <<invoices, dirty>>

GraceExpires(s) ==
    /\ Working("grace", s)
    /\ Write(s, view.sub[s], Expired)
    /\ Committed(s)
    /\ UNCHANGED <<invoices, dirty>>

(* process_upcoming_renewals: three transactions. *)
BillInvoice(s) ==
    /\ Working("billing", s)
    /\ AddInvoice(s, view.sub[s].nextBilling, TRUE)
    /\ phase' = "billPayment" /\ item' = s /\ view' = None
    /\ UNCHANGED <<now, sub, payments, req, todo, dirty, began, beside>>

BillPayment ==
    /\ phase = "billPayment" /\ view # None
    /\ AddPayment(item)
    /\ phase' = "billAdvance" /\ view' = None
    /\ UNCHANGED <<now, sub, invoices, req, todo, item, dirty, began, beside>>

(* Mutant: the billing date is not moved. *)
BillAdvanceStays ==
    /\ phase = "billAdvance" /\ view # None
    /\ phase' = "billing" /\ item' = None /\ view' = None
    /\ todo' = todo \ {item}
    /\ UNCHANGED <<now, tables, req, dirty, began, beside>>

BillAdvance ==
    /\ phase = "billAdvance" /\ view # None
    /\ Write(item, view.sub[item], [nextBilling |-> began + Cycle])
    /\ phase' = "billing" /\ item' = None /\ view' = None
    /\ todo' = todo \ {item}
    /\ UNCHANGED <<now, invoices, payments, req, dirty, began, beside>>

(* check_overdue_invoices.  The marks wait for a commit, which             *)
(* handle_failed_payment makes for an active subscription.                 *)

MarkOverdue(I) ==
    invoices' = [i \in DOMAIN invoices |->
                    IF i \in I THEN [invoices[i] EXCEPT !.status = "overdue"]
                    ELSE invoices[i]]

OverdueLapses(i) ==
    /\ Working("overdue", i)
    /\ LET s == invoices[i].sub IN
         /\ view.sub[s].status = "active"
         /\ Write(s, view.sub[s], Lapsed)
    /\ MarkOverdue(dirty \cup {i})
    /\ dirty' = {}
    /\ Committed(i)

OverdueNoted(i) ==
    /\ Working("overdue", i)
    /\ view.sub[invoices[i].sub].status # "active"
    /\ dirty' = dirty \cup {i}
    /\ todo' = todo \ {i}
    /\ UNCHANGED <<now, tables, req, phase, item, view, began, beside>>

(* Mutant: the last commit is missing. *)
EndRunNoCommit ==
    /\ phase = "overdue" /\ todo = {} /\ view # None
    /\ phase' = "idle" /\ view' = None /\ dirty' = {}
    /\ UNCHANGED <<now, tables, req, todo, item, began, beside>>

EndRun ==
    /\ phase = "overdue" /\ todo = {} /\ view # None
    /\ MarkOverdue(dirty)
    /\ phase' = "idle" /\ view' = None /\ dirty' = {}
    /\ UNCHANGED <<now, sub, payments, req, todo, item, began, beside>>

(* A row of the list that is not one of Sub was committed. *)
OthersCommitted ==
    /\ phase \in {"trials", "grace", "billing", "overdue"} /\ view # None
    /\ MarkOverdue(dirty)
    /\ view' = None /\ dirty' = {}
    /\ UNCHANGED <<now, sub, payments, req, phase, todo, item, began, beside>>

Progress ==
    \/ StartRun \/ SelectGrace \/ SelectBilling \/ SelectOverdue
    \/ \E s \in Sub : \/ TrialLapses(s) \/ TrialRenewed(s) \/ TrialExpires(s)
                      \/ GraceExpires(s) \/ BillInvoice(s)
    \/ TrialInvoice \/ BillPayment \/ BillAdvance
    \/ \E i \in DOMAIN invoices : OverdueLapses(i) \/ OverdueNoted(i)
    \/ EndRun

-----------------------------------------------------------------------------
(* The environment. *)

(* The run dies (an error, or the host goes down) and its transaction is   *)
(* rolled back; at most MaxCrashes times.                                  *)
Crash ==
    /\ phase # "idle" /\ crashes < MaxCrashes
    /\ crashes' = crashes + 1
    /\ phase' = "idle" /\ todo' = {} /\ item' = None /\ view' = None
    /\ dirty' = {} /\ began' = 0
    /\ UNCHANGED <<now, tables, req, parked, crossed, overlapped>>

(* Time passes, until MaxTime. *)
Tick ==
    /\ now < MaxTime
    /\ now' = now + 1
    /\ UNCHANGED <<tables, req, sched>>

RequestStep(r) ==
    \/ \E s \in Sub : \/ CreateCheck(r, s) \/ PostInvoice(r, s) \/ PostPayment(r, s)
                      \/ \E k \in {"cancelNow", "cancelEnd", "update", "renew"} :
                           Load(r, k, s) \/ Refuse(r, k, s)
    \/ CreateInsert(r) \/ CancelNow(r) \/ CancelEnd(r) \/ SetAutoRenew(r)
    \/ RenewCommit(r) \/ RenewInvoice(r)
    \/ \E p \in DOMAIN payments : PaymentFailed(r, p) \/ PaymentCaptured(r, p)
    \/ HandleFailedPayment(r) \/ CaptureMarksInvoice(r)
    \/ \E i \in DOMAIN invoices : MarkInvoicePaid(r, i)

Next ==
    \/ \E r \in Request : RequestStep(r)
    \/ Progress \/ Reload \/ OthersCommitted
    \/ \E x \in Aside : StartBeside(x) \/ Switch(x)
    \/ Crash \/ Tick

Spec == Init /\ [][Next]_vars

(* cron keeps starting the scheduler, and a run that has started goes on   *)
(* until it ends or crashes: other rows come in between, but every list is *)
(* finite.  Nothing makes a client go on.                                  *)
FairSpec == Spec /\ WF_vars(Reload) /\ SF_vars(Progress)

-----------------------------------------------------------------------------
(* Properties. *)

(* A run is in the middle of a subscription exactly at the steps that have *)
(* one, and marks only invoices there are.                                 *)
RunOK(run) ==
    /\ run.phase \in {"idle", "trials", "trialInvoice", "grace", "billing",
                      "billPayment", "billAdvance", "overdue"}
    /\ (run.item # None) <=> (run.phase \in {"trialInvoice", "billPayment", "billAdvance"})
    /\ run.item # None => run.item \in Sub
    /\ run.dirty \subseteq DOMAIN invoices
    /\ run.began \in 0..MaxTime

(* The variables keep their types. *)
TypeOK ==
    /\ now \in 0..MaxTime
    /\ sub \in [Sub -> Row]
    /\ invoices \in Seq([sub : Sub, start : Int, due : Int, auto : BOOLEAN,
                         status : {"open", "overdue", "paid"}])
    /\ payments \in Seq(Sub)
    /\ \A r \in Request : /\ req[r].kind \in Kinds \cup {"none"}
                          /\ req[r].row \in Row
    /\ RunOK(ThisRun) /\ \A x \in Aside : RunOK(parked[x])
    /\ crashes \in 0..MaxCrashes /\ overlapped \in BOOLEAN
    /\ crossed \in [Sub -> Nat]

(* "No payment required during trial": the scheduler has billed no         *)
(* subscription that is still in its trial, though it works from a list    *)
(* selected earlier and API calls, webhooks and other runs rewrite the row *)
(* meanwhile.                                                              *)
TrialNotBilled ==
    \A i \in DOMAIN invoices :
        invoices[i].auto => sub[invoices[i].sub].status \notin {"absent", "trial", "trialing"}

(* Runs that come one after another bill no period twice but for mishaps:  *)
(* a run died between the invoice and the new billing date, or an API call *)
(* renewed the subscription in the middle of a run, which then may bill    *)
(* the period just renewed and set the billing date back to it.  There are *)
(* at most as many invoices of theirs too many as there were of these.     *)
(* Runs that overlap may both bill a period, and what an API call renews   *)
(* is billed by it and, on that day, by a run: neither is counted here.    *)
RunsBillOnceButForMishaps ==
    ~overlapped =>
    \A s \in Sub, day \in {invoices[i].start : i \in DOMAIN invoices} :
        Cardinality({i \in DOMAIN invoices : /\ invoices[i].sub = s /\ invoices[i].auto
                                             /\ invoices[i].start = day}) <= 1 + crashes + crossed[s]

(* process_expired_trials: no subscription stays in a trial that is over.  *)
TrialEnds == \A s \in Sub : TrialOver(sub[s]) ~> ~TrialOver(sub[s])

(* process_upcoming_renewals: a renewal that is due is billed (or the      *)
(* subscription stops being active or renewing), crashes notwithstanding.  *)
DueIsBilled == \A s \in Sub : BillingDue(sub[s]) ~> ~BillingDue(sub[s])

(* process_expired_grace_periods: a grace period that is over ends         *)
(* past_due, or was extended by another failed payment.                    *)
GraceRunsOut == \A s \in Sub : GraceOver(sub[s]) ~> ~GraceOver(sub[s])

(* check_overdue_invoices: the marks survive crashes and are not lost.     *)
SomeOverdue == \E i \in DOMAIN invoices : Overdue(invoices[i])
OverdueIsMarked == SomeOverdue ~> ~SomeOverdue

(* What is due is processed: the lists are old when they are worked off,   *)
(* rows come late or change, runs die, and nothing is left out for ever.   *)
DueIsProcessed == TrialEnds /\ DueIsBilled /\ GraceRunsOut /\ OverdueIsMarked

=============================================================================
