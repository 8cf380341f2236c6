--------------------------- MODULE Notifications ---------------------------
(***************************************************************************)
(* The notifications of one user, of one type and group, on whatever       *)
(* channels, and the Celery tasks that bring them to the provider.         *)
(*                                                                         *)
(* A task is a message in the broker until a worker process takes it, and  *)
(* is acknowledged then: a process that is killed loses it.  A task sees   *)
(* the database as it was at the first read after its last commit (MySQL,  *)
(* REPEATABLE READ) and writes, when it commits, the columns in which its  *)
(* objects differ from what it had loaded; others commit in between.  A    *)
(* commit that meets a deleted row fails and is rolled back.               *)
(*                                                                         *)
(* Notifications are numbered in the order of their creation.  "Aged" is   *)
(* older than an hour, which is both the age after which a grouped one is  *)
(* sent and the default window of the grouping.  The digest mode is off,   *)
(* as it is by default.  The provider is outside the repository: it takes  *)
(* the notification or not, and may take it and yet end in an exception.   *)
(***************************************************************************)
EXTENDS Integers, FiniteSets

CONSTANTS
    Worker,            \* the worker processes of Celery
    Idle,              \* the job of a worker that has none
    MaxMade,           \* notifications that are created (a bound)
    MaxRetries,        \* max_retries of retry_failed_notifications
    MaxFailures,       \* of the provider (a bound)
    MaxDisturbances,   \* lost jobs and edits of the user (a bound)
    MaxTasks           \* send tasks of one notification at a time (a bound)

Notification == 1 .. MaxMade
Status       == {"none", "PENDING", "SENT", "FAILED", "READ", "BATCHED", "DELETED"}

ASSUME BoundsAreCounts ==
    /\ MaxMade \in Nat /\ MaxRetries \in Nat
    /\ MaxFailures \in Nat /\ MaxDisturbances \in Nat

VARIABLES
    made,              \* 1 .. made have been created
    aged,              \* 1 .. aged are older than an hour
    row,               \* the table of notifications
    queued,            \* send tasks for n in the broker
    job,               \* what each worker is doing
    failures,          \* so often the provider has failed
    disturbances,      \* jobs lost and edits made so far
    \* history, which nothing in the program keeps
    fate,              \* how often the provider took n, until it is excused
    dropped            \* those whose task was lost or came too early

history == <<fate, dropped>>
vars    == <<made, aged, row, queued, job, failures, disturbances, history>>

NoRow == [status |-> "none", group |-> 0, failed |-> FALSE, retries |-> 0]

Init ==
    /\ made = 0 /\ aged = 0 /\ failures = 0 /\ disturbances = 0
    /\ row = [n \in Notification |-> NoRow]
    /\ queued = [n \in Notification |-> 0]
    /\ job = [w \in Worker |-> Idle]
    /\ fate = [n \in Notification |-> "untaken"]
    /\ dropped = {}

Here(n)      == row[n].status \notin {"none", "DELETED"}
Does(w, t)   == job[w] # Idle /\ job[w].task = t
Become(w, j) == job' = [job EXCEPT ![w] = j]
Queue(n)     == queued' = [queued EXCEPT ![n] = @ + 1]
Excuse(S)    == fate' = [n \in Notification |-> IF n \in S THEN "excused" ELSE fate[n]]

(* Mutant: the count is raised in the database, not from the loaded row.   *)
UpdateCounts(n, loaded, new) ==
    [c \in DOMAIN NoRow |->
        IF c = "retries" THEN row[n][c] + new[c] - loaded[c]
        ELSE IF new[c] # loaded[c] THEN new[c] ELSE row[n][c]]

(* The columns an UPDATE writes: those that differ from the loaded row.    *)
Update(n, loaded, new) ==
    [c \in DOMAIN NoRow |-> IF new[c] # loaded[c] THEN new[c] ELSE row[n][c]]

(* The notifications worker w will queue, or has taken out of the queue;   *)
(* those it has queued and will make PENDING; those it has listed.         *)
InHand(w) ==
    CASE Does(w, "create") \/ Does(w, "send") -> {job[w].n}
      [] Does(w, "retry") -> {job[w].next} \ {0}
      [] OTHER            -> {}

Held(w) == IF Does(w, "group") THEN job[w].done ELSE {}

Listed(w) ==
    CASE Does(w, "retry") -> DOMAIN job[w].seen
      [] Does(w, "group") -> job[w].left \cup job[w].done
      [] OTHER            -> {}

-----------------------------------------------------------------------------
(* send_bulk_notifications: a row is committed, and then its task queued.  *)

Create(w) ==
    /\ job[w] = Idle /\ made < MaxMade
    /\ made' = made + 1
    /\ row' = [row EXCEPT ![made + 1].status = "PENDING"]
    /\ Become(w, [task |-> "create", n |-> made + 1])
    /\ UNCHANGED <<aged, queued, failures, disturbances, history>>

CreateEnqueue(w) ==
    /\ Does(w, "create")
    /\ Queue(job[w].n)
    /\ Become(w, Idle)
    /\ UNCHANGED <<made, aged, row, failures, disturbances, history>>

-----------------------------------------------------------------------------
(* send_notification                                                       *)

(* Mutant: find_similar_notifications without its window.                  *)
SimilarOfAnyAge == {m \in 1 .. made : Here(m) /\ row[m].status # "READ"}

(* find_similar_notifications does not leave out the one it is called for, *)
(* and takes the newest.                                                   *)
Similar == {m \in aged + 1 .. made : Here(m) /\ row[m].status # "READ"}
Heads   == {m \in Similar : \A x \in Similar : x <= m}

(* What becomes of the notification: the preferences refuse it, or smart   *)
(* grouping is on and finds a head, or the provider is asked.              *)
Outcomes ==
    {[does |-> d] : d \in {"refuse", "sent"}}
      \cup {[does |-> d] : d \in {x \in {"failed", "unclear"} : failures < MaxFailures}}
      \cup {[does |-> "batch", head |-> m] : m \in Heads}

(* The task is taken, and does nothing unless the notification is PENDING. *)
SendStart(w, n) ==
    /\ job[w] = Idle /\ queued[n] > 0
    /\ queued' = [queued EXCEPT ![n] = @ - 1]
    /\ \/ /\ row[n].status # "PENDING"
          /\ UNCHANGED <<job, failures, fate>>
       \/ /\ row[n].status = "PENDING"
          /\ \E o \in Outcomes :
               /\ Become(w, [task |-> "send", n |-> n, how |-> o])
               /\ failures' = IF o.does \in {"failed", "unclear"} THEN failures + 1 ELSE failures
               /\ fate' = [fate EXCEPT ![n] =
                     CASE o.does = "unclear"                -> "excused"
                       [] o.does = "sent" /\ @ = "untaken"  -> "taken"
                       [] o.does = "sent" /\ @ = "taken"    -> "twice"
                       [] OTHER                             -> @]
    /\ dropped' = IF \E x \in Worker : n \in Held(x) THEN dropped \cup {n} ELSE dropped
    /\ UNCHANGED <<made, aged, row, disturbances>>

(* Mutant: group_notification does not store the head.                     *)
SentWithoutHead(r, how) ==
    CASE how.does = "refuse" -> [r EXCEPT !.status = "FAILED"]
      [] how.does = "batch"  -> [r EXCEPT !.status = "BATCHED"]
      [] how.does = "sent"   -> [r EXCEPT !.status = "SENT"]
      [] OTHER               -> [r EXCEPT !.status = "FAILED", !.failed = TRUE]

(* The row as the task leaves it.                                          *)
Sent(r, how) ==
    CASE how.does = "refuse" -> [r EXCEPT !.status = "FAILED"]
      [] how.does = "batch"  -> [r EXCEPT !.status = "BATCHED", !.group = how.head]
      [] how.does = "sent"   -> [r EXCEPT !.status = "SENT"]
      [] OTHER               -> [r EXCEPT !.status = "FAILED", !.failed = TRUE]

(* The commit.  It fails when n, or the head it was to be grouped with, is *)
(* gone; in the second case n stays PENDING.                               *)
SendEnd(w) ==
    /\ Does(w, "send")
    /\ LET n    == job[w].n
           how  == job[w].how
           gone == how.does = "batch" /\ ~Here(how.head)
       IN  /\ row' = IF Here(n) /\ ~gone THEN [row EXCEPT ![n] = Sent(@, how)] ELSE row
           /\ dropped' = IF gone THEN dropped \cup {n} ELSE dropped
    /\ Become(w, Idle)
    /\ UNCHANGED <<made, aged, queued, failures, disturbances, fate>>

-----------------------------------------------------------------------------
(* The periodic runs.  Two of one kind may overlap: beat goes on queueing  *)
(* them while the workers are busy.                                        *)

Failed == {n \in 1 .. made : row[n].status = "FAILED" /\ row[n].failed}

(* Mutant: those that were grouped once, whatever became of them.          *)
GroupedAnyStatus == {n \in 1 .. aged : Here(n) /\ row[n].group # 0}

Grouped == {n \in 1 .. aged : row[n].status = "BATCHED" /\ row[n].group # 0}

(* The bound on tasks: no run starts that would exceed it.                 *)
Room(S) ==
    \A n \in S :
        queued[n] + Cardinality({w \in Worker : n \in InHand(w) \cup Listed(w)}) < MaxTasks

Overlapping(S) == {n \in S : \E w \in Worker : n \in InHand(w) \cup Listed(w)}

(* retry_failed_notifications lists what failed in the last day.  seen:    *)
(* the rows still to come, as they were last read.                         *)
Seen(S) == [n \in {m \in S : Here(m)} |-> row[n]]

Retriable(seen) == {n \in DOMAIN seen : seen[n].retries < MaxRetries}

RetryStart(w) ==
    /\ job[w] = Idle
    /\ \E S \in SUBSET Failed :
          /\ Retriable(Seen(S)) # {} /\ Room(S)
          /\ Become(w, [task |-> "retry", next |-> 0, seen |-> Seen(S)])
          /\ Excuse(Overlapping(S))
    /\ UNCHANGED <<made, aged, row, queued, failures, disturbances, dropped>>

(* One row becomes PENDING.  Its status is not looked at again; if it was  *)
(* deleted, the run ends with an exception.                                *)
RetryRow(w, n) ==
    /\ Does(w, "retry") /\ job[w].next = 0 /\ n \in Retriable(job[w].seen)
    /\ LET old  == job[w].seen[n]
           new  == [old EXCEPT !.status = "PENDING", !.failed = FALSE, !.retries = @ + 1]
           rest == [m \in DOMAIN job[w].seen \ {n} |-> job[w].seen[m]]
       IN  IF Here(n)
           THEN /\ row' = [row EXCEPT ![n] = Update(n, old, new)]
                /\ Become(w, [task |-> "retry", next |-> n, seen |-> rest])
           ELSE Become(w, Idle) /\ UNCHANGED row
    /\ UNCHANGED <<made, aged, queued, failures, disturbances, history>>

(* The task is queued after the commit, when the rows are read anew.  The  *)
(* run ends when no row is left to retry, or a deleted one comes up.       *)
RetryEnqueue(w) ==
    /\ Does(w, "retry") /\ job[w].next # 0
    /\ LET n    == job[w].next
           left == DOMAIN job[w].seen
           rest == Seen(left)
       IN  /\ IF Here(n) THEN Queue(n) ELSE UNCHANGED queued
           /\ \/ /\ Here(n) /\ Retriable(rest) # {}
                 /\ Become(w, [task |-> "retry", next |-> 0, seen |-> rest])
              \/ /\ ~Here(n) \/ Retriable(rest) = {} \/ DOMAIN rest # left
                 /\ Become(w, Idle)
    /\ UNCHANGED <<made, aged, row, failures, disturbances, history>>

(* process_grouped_notifications: the tasks are queued one by one, and the *)
(* new status of all is committed at the end.                              *)
GroupStart(w) ==
    /\ job[w] = Idle /\ Grouped # {} /\ Room(Grouped)
    /\ Become(w, [task |-> "group", left |-> Grouped, done |-> {}])
    /\ Excuse(Overlapping(Grouped))
    /\ UNCHANGED <<made, aged, row, queued, failures, disturbances, dropped>>

GroupEnqueue(w, n) ==
    /\ Does(w, "group") /\ n \in job[w].left
    /\ Queue(n)
    /\ Become(w, [job[w] EXCEPT !.left = @ \ {n}, !.done = @ \cup {n}])
    /\ UNCHANGED <<made, aged, row, failures, disturbances, history>>

GroupEnd(w) ==
    /\ Does(w, "group") /\ job[w].left = {}
    /\ LET done == job[w].done
       IN  IF \A n \in done : Here(n)
           THEN /\ row' = [n \in Notification |->
                             IF n \in done THEN [row[n] EXCEPT !.status = "PENDING"] ELSE row[n]]
                /\ UNCHANGED fate
           ELSE Excuse(done) /\ UNCHANGED row
    /\ Become(w, Idle)
    /\ UNCHANGED <<made, aged, queued, failures, disturbances, dropped>>

-----------------------------------------------------------------------------
(* The worker is killed, the broker refuses what it wants to queue, or an  *)
(* exception ends the task: the job is lost, and what it had not committed.*)
Lost(w) ==
    /\ job[w] # Idle /\ disturbances < MaxDisturbances
    /\ disturbances' = disturbances + 1
    /\ dropped' = dropped \cup InHand(w)
    /\ Excuse(Held(w))
    /\ Become(w, Idle)
    /\ UNCHANGED <<made, aged, row, queued, failures>>

(* The user reads one or all of them.                                      *)
MarkRead(S) ==
    /\ \E n \in S : Here(n) /\ row[n].status # "READ"
    /\ disturbances < MaxDisturbances /\ disturbances' = disturbances + 1
    /\ row' = [n \in Notification |->
                 IF n \in S /\ Here(n) THEN [row[n] EXCEPT !.status = "READ"] ELSE row[n]]
    /\ UNCHANGED <<made, aged, queued, job, failures, history>>

(* The user deletes one, or cleanup_old_notifications an old one that was  *)
(* read: grouped_with_id is cleared where it is named.  What became of a   *)
(* deleted one is of no interest.                                          *)
Delete(m) ==
    /\ Here(m)
    /\ disturbances < MaxDisturbances /\ disturbances' = disturbances + 1
    /\ row' = [n \in Notification |->
                 IF n = m THEN [NoRow EXCEPT !.status = "DELETED"]
                 ELSE IF row[n].group = m THEN [row[n] EXCEPT !.group = 0]
                 ELSE row[n]]
    /\ dropped' = (dropped \cup {n \in Notification : row[n].status = "BATCHED" /\ row[n].group = m})
                     \ {m}
    /\ fate' = [fate EXCEPT ![m] = "untaken"]
    /\ UNCHANGED <<made, aged, queued, job, failures>>

(* An hour has passed since the next one was created.                      *)
Age ==
    /\ aged < made
    /\ aged' = aged + 1
    /\ UNCHANGED <<made, row, queued, job, failures, disturbances, history>>

-----------------------------------------------------------------------------
(* What a worker may take on, and what one that has a job does next.       *)
Start(w) ==
    \/ Create(w) \/ RetryStart(w) \/ GroupStart(w)
    \/ \E n \in Notification : SendStart(w, n)

Work(w) ==
    \/ CreateEnqueue(w) \/ SendEnd(w)
    \/ RetryEnqueue(w) \/ GroupEnd(w)
    \/ \E n \in Notification : RetryRow(w, n) \/ GroupEnqueue(w, n)

Next ==
    \/ \E w \in Worker : Start(w) \/ Work(w) \/ Lost(w)
    \/ MarkRead(Notification)
    \/ \E n \in Notification : MarkRead({n}) \/ Delete(n)
    \/ Age

Spec == Init /\ [][Next]_vars

(* A worker that has a job goes on with it, tasks in the broker are taken, *)
(* and beat goes on starting process_grouped_notifications.  Age is not    *)
(* fair: a newest one that stays young stands for a stream of them, one of *)
(* which is always younger than an hour.                                   *)
FairSpec ==
    /\ Spec
    /\ \A w \in Worker : WF_vars(Work(w))
    /\ WF_vars(\E w \in Worker : GroupStart(w))
    /\ \A n \in Notification : WF_vars(\E w \in Worker : SendStart(w, n))

-----------------------------------------------------------------------------
RowType ==
    [status : Status, group : 0 .. MaxMade, failed : BOOLEAN, retries : 0 .. MaxRetries]

How ==
    [does : {"refuse", "sent", "failed", "unclear"}]
      \cup [does : {"batch"}, head : Notification]

Job ==
    [task : {"create"}, n : Notification]
      \cup [task : {"send"}, n : Notification, how : How]
      \cup [task : {"retry"}, next : 0 .. MaxMade,
            seen : UNION {[S -> RowType] : S \in SUBSET Notification}]
      \cup [task : {"group"}, left : SUBSET Notification, done : SUBSET Notification]

ASSUME IdleIsNoJob == Idle \notin Job

(* Types; the rows there are are those that were made, and no row has been *)
(* retried more often than retry_failed_notifications allows.              *)
TypeOK ==
    /\ made \in 0 .. MaxMade /\ aged \in 0 .. made
    /\ row \in [Notification -> RowType]
    /\ \A n \in Notification : row[n].status = "none" <=> n > made
    /\ queued \in [Notification -> Nat]
    /\ job \in [Worker -> Job \cup {Idle}]
    /\ failures \in 0 .. MaxFailures /\ disturbances \in 0 .. MaxDisturbances
    /\ fate \in [Notification -> {"untaken", "taken", "twice", "excused"}]
    /\ dropped \subseteq Notification

(* A PENDING notification has a task, or will have one, and a BATCHED one  *)
(* has a group: nothing else looks for them.  One is left behind only when *)
(* the job that had it was lost, when its task ran before the run of       *)
(* process_grouped_notifications that queued it had committed, or when the *)
(* one it is grouped with is deleted.                                      *)
NoneForgotten ==
    \A n \in Notification \ dropped :
        /\ row[n].status = "PENDING" =>
               queued[n] > 0 \/ \E w \in Worker : n \in InHand(w)
        /\ row[n].status = "BATCHED" => row[n].group # 0

(* The provider takes a notification once, unless an exception hid that it *)
(* had, two periodic runs had listed it at once, or a run of               *)
(* process_grouped_notifications queued it and did not commit.             *)
DeliveredOnce ==
    \A n \in Notification : fate[n] # "twice"

Waits(n) == row[n].status \in {"PENDING", "BATCHED"} /\ n \notin dropped

(* A newer one that was not read is younger than an hour: n is grouped     *)
(* with it, or with one newer still, whenever it comes up again.           *)
Followed(n) ==
    \E m \in aged + 1 .. made : m > n /\ Here(m) /\ row[m].status # "READ"

(* A notification older than an hour stops to wait, PENDING or BATCHED,    *)
(* where the newer ones stop coming or are read (and unless NoneForgotten  *)
(* excepts it): also one that was grouped with itself leaves, and one      *)
(* whose group was sent long ago.  As long as there is always a newer one  *)
(* it may wait for ever, grouped anew by each run.                         *)
Arrives == \A n \in Notification : []<>(~Waits(n) \/ Followed(n) \/ n > aged)

=============================================================================
