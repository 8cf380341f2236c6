------------------------ MODULE NotificationsProofs ------------------------
(***************************************************************************)
(* What holds of any number of notifications, workers, retries, failures   *)
(* and disturbances: the types, that no notification is left where nothing *)
(* looks for it, and that the provider takes none twice. The bound         *)
(* MaxTasks on the tasks of one notification is used nowhere.              *)
(***************************************************************************)
EXTENDS Notifications, TLAPS

(* A step is one of these, or changes nothing. *)
Steps ==
    \/ \E w \in Worker :
          \/ Create(w) \/ CreateEnqueue(w)
          \/ \E n \in Notification : SendStart(w, n)
          \/ SendEnd(w)
          \/ RetryStart(w) \/ RetryEnqueue(w)
          \/ \E n \in Notification : RetryRow(w, n) \/ GroupEnqueue(w, n)
          \/ GroupStart(w) \/ GroupEnd(w)
          \/ Lost(w)
    \/ \E S \in SUBSET Notification : MarkRead(S)
    \/ \E n \in Notification : Delete(n)
    \/ Age
    \/ UNCHANGED vars

(* Next is a choice between those steps.                                   *)
LEMMA NextSteps == [Next]_vars => Steps
<1>1. ASSUME NEW S, S = Notification, MarkRead(S) PROVE Steps
  BY <1>1 DEF Steps
<1>2. ASSUME NEW n \in Notification, MarkRead({n}) PROVE Steps
  <2>1. {n} \in SUBSET Notification
    BY <1>2
  <2> QED
    BY <1>2, <2>1, Zenon DEF Steps
<1>3. ASSUME NEW w \in Worker, Start(w) \/ Work(w) \/ Lost(w) PROVE Steps
  BY <1>3, Zenon DEF Steps, Start, Work
<1> QED
  BY <1>1, <1>2, <1>3, Zenon DEF Next, Steps

(* What a worker that has a job of one kind may be doing. *)
LEMMA JobOf ==
  ASSUME TypeOK, NEW w \in Worker
  PROVE  /\ Does(w, "create") => job[w] \in [task : {"create"}, n : Notification]
         /\ Does(w, "send")   => job[w] \in [task : {"send"}, n : Notification, how : How]
         /\ Does(w, "retry")  => /\ job[w].next \in 0 .. MaxMade
                                 /\ DOMAIN job[w].seen \subseteq Notification
                                 /\ job[w].seen \in [DOMAIN job[w].seen -> RowType]
         /\ Does(w, "group")  => job[w] \in [task : {"group"}, left : SUBSET Notification,
                                             done : SUBSET Notification]
<1>1. job[w] \in Job \cup {Idle}
  BY DEF TypeOK
<1>2. ASSUME job[w] # Idle, job[w].task = "retry"
      PROVE  job[w] \in [task : {"retry"}, next : 0 .. MaxMade,
                         seen : UNION {[S -> RowType] : S \in SUBSET Notification}]
  BY <1>1, <1>2 DEF Job
<1>3. ASSUME NEW f \in UNION {[S -> RowType] : S \in SUBSET Notification}
      PROVE  DOMAIN f \subseteq Notification /\ f \in [DOMAIN f -> RowType]
  BY <1>3
<1>4. Does(w, "retry")  => /\ job[w].next \in 0 .. MaxMade
                           /\ DOMAIN job[w].seen \subseteq Notification
                           /\ job[w].seen \in [DOMAIN job[w].seen -> RowType]
  BY <1>2, <1>3 DEF Does
<1>5. Does(w, "create") => job[w] \in [task : {"create"}, n : Notification]
  BY <1>1 DEF Does, Job
<1>6. Does(w, "send")   => job[w] \in [task : {"send"}, n : Notification, how : How]
  BY <1>1 DEF Does, Job
<1>7. Does(w, "group")  => job[w] \in [task : {"group"}, left : SUBSET Notification,
                                       done : SUBSET Notification]
  BY <1>1 DEF Does, Job
<1> QED
  BY <1>4, <1>5, <1>6, <1>7

(* The jobs there are. *)
LEMMA JobTypes ==
  ASSUME TypeOK
  PROVE  /\ Idle \in Job \cup {Idle}
         /\ \A n \in Notification : [task |-> "create", n |-> n] \in Job
         /\ \A n \in Notification, h \in How : [task |-> "send", n |-> n, how |-> h] \in Job
         /\ \A k \in 0 .. MaxMade, S \in SUBSET Notification : \A f \in [S -> RowType] :
               [task |-> "retry", next |-> k, seen |-> f] \in Job
         /\ \A L, D \in SUBSET Notification : [task |-> "group", left |-> L, done |-> D] \in Job
<1>1. ASSUME NEW k \in 0 .. MaxMade, NEW S \in SUBSET Notification, NEW f \in [S -> RowType]
      PROVE  [task |-> "retry", next |-> k, seen |-> f] \in Job
  <2>1. f \in UNION {[X -> RowType] : X \in SUBSET Notification}
    BY <1>1
  <2>2. [task |-> "retry", next |-> k, seen |-> f]
           \in [task : {"retry"}, next : 0 .. MaxMade,
                seen : UNION {[X -> RowType] : X \in SUBSET Notification}]
    BY <2>1
  <2> QED
    BY <2>2, Zenon DEF Job
<1>2. ASSUME NEW L \in SUBSET Notification, NEW D \in SUBSET Notification
      PROVE [task |-> "group", left |-> L, done |-> D] \in Job
  BY <1>2 DEF Job
<1>3. \A n \in Notification : [task |-> "create", n |-> n] \in Job
  BY DEF Job
<1>4. \A n \in Notification, h \in How : [task |-> "send", n |-> n, how |-> h] \in Job
  BY DEF Job
<1> QED
  BY <1>1, <1>2, <1>3, <1>4

(* A worker that takes on a job has it, and the others keep theirs.        *)
LEMMA Becomes ==
  ASSUME TypeOK, NEW w \in Worker, NEW j \in Job \cup {Idle}, Become(w, j)
  PROVE  /\ job' \in [Worker -> Job \cup {Idle}]
         /\ job'[w] = j
         /\ \A x \in Worker : x # w => job'[x] = job[x]
BY DEF TypeOK, Become

(* The rows a run has read are rows of the table.                          *)
LEMMA SeenType ==
  ASSUME TypeOK, NEW S \in SUBSET Notification
  PROVE  /\ DOMAIN Seen(S) = {m \in S : Here(m)}
         /\ Seen(S) \in [{m \in S : Here(m)} -> RowType]
         /\ \A n \in DOMAIN Seen(S) : Seen(S)[n] = row[n]
BY DEF TypeOK, Seen

(* What may become of a notification is of the type of the jobs.           *)
LEMMA OutcomeType ==
  ASSUME TypeOK, NEW o \in Outcomes
  PROVE  o \in How
<1>1. Heads \subseteq Notification
  BY BoundsAreCounts DEF Heads, Similar, Notification, TypeOK
<1> QED
  BY <1>1 DEF Outcomes, How

(* The row send_notification leaves, from a row of the right type.         *)
LEMMA SentType ==
  ASSUME NEW r \in RowType, NEW h \in How
  PROVE  /\ Sent(r, h) \in RowType
         /\ Sent(r, h).status \in {"FAILED", "BATCHED", "SENT"}
         /\ Sent(r, h).status = "BATCHED" => Sent(r, h).group # 0
         /\ h.does = "sent" => Sent(r, h).status = "SENT"
<1>1. CASE h.does = "batch"
  <2>1. h.head \in Notification
    BY <1>1 DEF How
  <2>2. Sent(r, h) = [r EXCEPT !.status = "BATCHED", !.group = h.head]
    BY <1>1, Zenon DEF Sent
  <2>3. h.head \in 0 .. MaxMade /\ h.head # 0
    BY <2>1, BoundsAreCounts DEF Notification
  <2>4. Sent(r, h) \in RowType /\ Sent(r, h).status = "BATCHED" /\ Sent(r, h).group = h.head
    BY <2>2, <2>3 DEF RowType, Status
  <2> QED
    BY <1>1, <2>3, <2>4
<1>2. CASE h.does = "refuse"
  <2>1. Sent(r, h) = [r EXCEPT !.status = "FAILED"]
    BY <1>2 DEF Sent
  <2> QED
    BY <1>2, <2>1 DEF RowType, Status
<1>3. CASE h.does = "sent"
  <2>1. Sent(r, h) = [r EXCEPT !.status = "SENT"]
    BY <1>3 DEF Sent
  <2> QED
    BY <1>3, <2>1 DEF RowType, Status
<1>4. CASE h.does \in {"failed", "unclear"}
  <2>1. Sent(r, h) = [r EXCEPT !.status = "FAILED", !.failed = TRUE]
    BY <1>4 DEF Sent
  <2> QED
    BY <1>4, <2>1 DEF RowType, Status
<1> QED
  BY <1>1, <1>2, <1>3, <1>4 DEF How

Written(n, old, new, c) == IF new[c] # old[c] THEN new[c] ELSE row[n][c]

(* The row an UPDATE leaves, column by column.                             *)
LEMMA UpdateIs ==
  ASSUME NEW n, NEW old, NEW new
  PROVE  Update(n, old, new) = [status  |-> Written(n, old, new, "status"),
                                group   |-> Written(n, old, new, "group"),
                                failed  |-> Written(n, old, new, "failed"),
                                retries |-> Written(n, old, new, "retries")]
<1>1. DOMAIN NoRow = {"status", "group", "failed", "retries"}
  BY DEF NoRow
<1>2. Update(n, old, new) = [c \in {"status", "group", "failed", "retries"} |-> Written(n, old, new, c)]
  BY <1>1, Zenon DEF Update, Written
<1> QED
  BY <1>2

(* What the commit of one retried row leaves in it. *)
LEMMA RetriedRow ==
  ASSUME TypeOK, NEW n \in Notification, NEW old \in RowType, old.retries < MaxRetries,
         NEW new, new = [old EXCEPT !.status = "PENDING", !.failed = FALSE, !.retries = @ + 1]
  PROVE  /\ Update(n, old, new) \in RowType
         /\ Update(n, old, new).status \in {"PENDING", row[n].status}
         /\ old.status # "PENDING" => Update(n, old, new).status = "PENDING"
         /\ Update(n, old, new).group = row[n].group
<1>0. new = [status |-> "PENDING", group |-> old.group, failed |-> FALSE, retries |-> old.retries + 1]
  BY DEF RowType
<1>1. /\ old.status \in Status /\ old.group \in 0 .. MaxMade
      /\ old.failed \in BOOLEAN /\ old.retries \in 0 .. MaxRetries
      /\ row[n].status \in Status /\ row[n].group \in 0 .. MaxMade
      /\ row[n].failed \in BOOLEAN /\ row[n].retries \in 0 .. MaxRetries
  BY DEF TypeOK, RowType
<1>3. Update(n, old, new) = [status  |-> Written(n, old, new, "status"),
                             group   |-> Written(n, old, new, "group"),
                             failed  |-> Written(n, old, new, "failed"),
                             retries |-> Written(n, old, new, "retries")]
  BY UpdateIs
<1>4. /\ new.status = "PENDING" /\ new.group = old.group
      /\ new.failed = FALSE /\ new.retries = old.retries + 1
  BY <1>0
<1>5. ASSUME NEW s, NEW g, NEW f, NEW k, s \in Status, g \in 0 .. MaxMade, f \in BOOLEAN, k \in 0 .. MaxRetries
      PROVE  [status |-> s, group |-> g, failed |-> f, retries |-> k] \in RowType
  BY <1>5 DEF RowType
<1>6. /\ new.status \in Status /\ new.failed \in BOOLEAN /\ new.retries \in 0 .. MaxRetries
  BY <1>1, <1>4, BoundsAreCounts DEF Status
<1>7. /\ Written(n, old, new, "status") \in Status
      /\ Written(n, old, new, "status") \in {"PENDING", row[n].status}
      /\ old.status # "PENDING" => Written(n, old, new, "status") = "PENDING"
      /\ Written(n, old, new, "group") \in 0 .. MaxMade
      /\ Written(n, old, new, "group") = row[n].group
      /\ Written(n, old, new, "failed") \in BOOLEAN
      /\ Written(n, old, new, "retries") \in 0 .. MaxRetries
  BY <1>1, <1>4, <1>6 DEF Written
<1>8. Update(n, old, new) \in RowType
  BY <1>3, <1>5, <1>7
<1> QED
  BY <1>3, <1>7, <1>8

-----------------------------------------------------------------------------
RowsOK ==
    /\ row \in [Notification -> RowType]
    /\ \A n \in Notification : row[n].status = "none" <=> n > made

(* The counters and the history keep their types in every step. *)
CountsOK ==
    /\ made \in 0 .. MaxMade /\ aged \in 0 .. made
    /\ failures \in 0 .. MaxFailures /\ disturbances \in 0 .. MaxDisturbances

HistoryOK ==
    /\ fate \in [Notification -> {"untaken", "taken", "twice", "excused"}]
    /\ dropped \subseteq Notification

TasksOK ==
    /\ queued \in [Notification -> Nat]
    /\ job \in [Worker -> Job \cup {Idle}]

(* TypeOK, in the parts that the actions disturb one at a time.            *)
LEMMA TypeParts == TypeOK <=> RowsOK /\ CountsOK /\ HistoryOK /\ TasksOK
BY DEF TypeOK, RowsOK, CountsOK, HistoryOK, TasksOK

(* One row is changed, and is still one that was made.                     *)
LEMMA OneRow ==
  ASSUME TypeOK, NEW n \in Notification, Here(n), NEW r \in RowType, r.status # "none",
         row' = [row EXCEPT ![n] = r], made' = made
  PROVE  RowsOK'
BY DEF TypeOK, RowsOK, Here

(* Excusing notifications keeps the type of fate.                          *)
LEMMA Excused ==
  ASSUME TypeOK, NEW S, Excuse(S)
  PROVE  fate' \in [Notification -> {"untaken", "taken", "twice", "excused"}]
BY DEF TypeOK, Excuse

(* One task more is in the broker, for n alone.                            *)
LEMMA QueueOne ==
  ASSUME TypeOK, NEW n \in Notification, Queue(n)
  PROVE  /\ queued' \in [Notification -> Nat]
         /\ queued'[n] = queued[n] + 1
         /\ \A m \in Notification : m # n => queued'[m] = queued[m]
BY DEF TypeOK, Queue

(* What the workers have are notifications.                                *)
LEMMA InHandType ==
  ASSUME TypeOK, NEW w \in Worker
  PROVE  /\ InHand(w) \subseteq Notification /\ Held(w) \subseteq Notification
         /\ Listed(w) \subseteq Notification
<1>1. CASE Does(w, "create") \/ Does(w, "send")
  <2>1. InHand(w) = {job[w].n} /\ Held(w) = {} /\ Listed(w) = {}
    BY <1>1 DEF InHand, Held, Listed, Does
  <2> QED
    BY <1>1, <2>1, JobOf
<1>2. CASE Does(w, "retry")
  <2>1. InHand(w) = {job[w].next} \ {0} /\ Held(w) = {} /\ Listed(w) = DOMAIN job[w].seen
    BY <1>2 DEF InHand, Held, Listed, Does
  <2> QED
    BY <1>2, <2>1, JobOf, BoundsAreCounts DEF Notification
<1>3. CASE Does(w, "group")
  <2>1. InHand(w) = {} /\ Held(w) = job[w].done /\ Listed(w) = job[w].left \cup job[w].done
    BY <1>3 DEF InHand, Held, Listed, Does
  <2> QED
    BY <1>3, <2>1, JobOf
<1>4. CASE ~(Does(w, "create") \/ Does(w, "send") \/ Does(w, "retry") \/ Does(w, "group"))
  BY <1>4 DEF InHand, Held, Listed
<1> QED
  BY <1>1, <1>2, <1>3, <1>4

(* One more is done. *)
LEMMA DoneType ==
  ASSUME TypeOK, NEW w \in Worker, Does(w, "group"), NEW n \in Notification,
         NEW j, j = [job[w] EXCEPT !.left = @ \ {n}, !.done = @ \cup {n}]
  PROVE  /\ j \in Job /\ j.task = "group"
         /\ j.left = job[w].left \ {n} /\ j.done = job[w].done \cup {n}
<1>1. job[w] \in [task : {"group"}, left : SUBSET Notification, done : SUBSET Notification]
  BY JobOf
<1>2. job[w].left \ {n} \in SUBSET Notification /\ job[w].done \cup {n} \in SUBSET Notification
  BY <1>1
<1>3. /\ j.task = "group"
      /\ j.left = job[w].left \ {n} /\ j.done = job[w].done \cup {n}
  BY <1>1
<1>4. j \in [task : {"group"}, left : SUBSET Notification, done : SUBSET Notification]
  BY <1>1, <1>2
<1> QED
  BY <1>3, <1>4 DEF Job

(* The types, action by action.                                            *)
LEMMA CreateType ==
  ASSUME TypeOK, NEW w \in Worker, Create(w)
  PROVE  TypeOK'
<1>1. made + 1 \in Notification /\ made + 1 \in 0 .. MaxMade
  BY BoundsAreCounts DEF Create, TypeOK, Notification
<1>2. [task |-> "create", n |-> made + 1] \in Job \cup {Idle}
  BY <1>1, JobTypes
<1>3. CountsOK'
  BY <1>1, BoundsAreCounts DEF Create, TypeOK, CountsOK
<1>4. RowsOK'
  <2>1. row' = [row EXCEPT ![made + 1] = [row[made + 1] EXCEPT !.status = "PENDING"]]
    BY DEF Create
  <2>2. /\ [row[made + 1] EXCEPT !.status = "PENDING"] \in RowType
        /\ [row[made + 1] EXCEPT !.status = "PENDING"].status = "PENDING"
    BY <1>1 DEF TypeOK, RowType, Status
  <2>3. row' \in [Notification -> RowType]
    BY <2>1, <2>2 DEF TypeOK
  <2>4. \A n \in Notification : row'[n].status = "none" <=> n > made + 1
    BY <1>1, <2>1, <2>2 DEF TypeOK, Notification
  <2> QED
    BY <2>3, <2>4 DEF Create, RowsOK
<1>5. TasksOK'
  BY <1>2, Becomes DEF Create, TypeOK, TasksOK
<1>6. HistoryOK'
  BY DEF Create, TypeOK, HistoryOK, history
<1> QED
  BY <1>3, <1>4, <1>5, <1>6, TypeParts, PTL

LEMMA CreateEnqueueType ==
  ASSUME TypeOK, NEW w \in Worker, CreateEnqueue(w)
  PROVE  TypeOK'
<1>1. TasksOK'
  BY Becomes, QueueOne, JobOf DEF CreateEnqueue, TasksOK
<1>2. RowsOK' /\ CountsOK' /\ HistoryOK'
  BY DEF CreateEnqueue, TypeOK, RowsOK, CountsOK, HistoryOK, history
<1> QED
  BY <1>1, <1>2, TypeParts, PTL

LEMMA SendStartType ==
  ASSUME TypeOK, NEW w \in Worker, NEW n \in Notification, SendStart(w, n)
  PROVE  TypeOK'
<1>1. queued' \in [Notification -> Nat]
  BY DEF SendStart, TypeOK
<1>2. dropped' \subseteq Notification
  BY DEF SendStart, TypeOK
<1>3. RowsOK'
  BY DEF SendStart, TypeOK, RowsOK
<1>4. CASE UNCHANGED <<job, failures, fate>>
  <2>1. CountsOK' /\ HistoryOK' /\ TasksOK'
    BY <1>1, <1>2, <1>4 DEF SendStart, TypeOK, CountsOK, HistoryOK, TasksOK
  <2> QED
    BY <1>3, <2>1, TypeParts, PTL
<1>5. CASE ~UNCHANGED <<job, failures, fate>>
  <2>1. PICK o \in Outcomes :
          /\ Become(w, [task |-> "send", n |-> n, how |-> o])
          /\ failures' = IF o.does \in {"failed", "unclear"} THEN failures + 1 ELSE failures
          /\ fate' = [fate EXCEPT ![n] =
                CASE o.does = "unclear"                -> "excused"
                  [] o.does = "sent" /\ @ = "untaken"  -> "taken"
                  [] o.does = "sent" /\ @ = "taken"    -> "twice"
                  [] OTHER                             -> @]
    BY <1>5 DEF SendStart
  <2>2. [task |-> "send", n |-> n, how |-> o] \in Job \cup {Idle}
    BY OutcomeType, JobTypes
  <2>3. TasksOK'
    BY <1>1, <2>1, <2>2, Becomes DEF TasksOK
  <2>4. o.does \in {"failed", "unclear"} => failures < MaxFailures
    BY DEF Outcomes
  <2>5. CountsOK'
    BY <2>1, <2>4, BoundsAreCounts DEF TypeOK, CountsOK, SendStart
  <2>6. HistoryOK'
    BY <1>2, <2>1 DEF TypeOK, HistoryOK
  <2> QED
    BY <1>3, <2>3, <2>5, <2>6, TypeParts, PTL
<1> QED
  BY <1>4, <1>5

LEMMA SendEndType ==
  ASSUME TypeOK, NEW w \in Worker, SendEnd(w)
  PROVE  TypeOK'
<1>1. /\ job[w].n \in Notification /\ job[w].how \in How
  BY JobOf DEF SendEnd
<1>2. dropped' \subseteq Notification
  BY <1>1 DEF SendEnd, TypeOK
<1>3. TasksOK'
  BY JobTypes, Becomes DEF SendEnd, TypeOK, TasksOK
<1>4. CountsOK' /\ HistoryOK'
  BY <1>2 DEF SendEnd, TypeOK, CountsOK, HistoryOK
<1>5. RowsOK'
  <2>1. CASE row' = row
    BY <2>1 DEF SendEnd, TypeOK, RowsOK
  <2>2. CASE row' # row
    <3>1. Here(job[w].n) /\ row' = [row EXCEPT ![job[w].n] = Sent(row[job[w].n], job[w].how)]
      BY <2>2 DEF SendEnd
    <3>2. row[job[w].n] \in RowType
      BY <1>1 DEF TypeOK
    <3> QED
      BY <1>1, <3>1, <3>2, SentType, OneRow DEF SendEnd
  <2> QED
    BY <2>1, <2>2
<1> QED
  BY <1>3, <1>4, <1>5, TypeParts, PTL

LEMMA RetryStartType ==
  ASSUME TypeOK, NEW w \in Worker, RetryStart(w)
  PROVE  TypeOK'
<1>1. PICK S \in SUBSET Failed :
         /\ Become(w, [task |-> "retry", next |-> 0, seen |-> Seen(S)])
         /\ Excuse(Overlapping(S))
  BY DEF RetryStart
<1>2. S \in SUBSET Notification /\ 0 \in 0 .. MaxMade
  BY BoundsAreCounts DEF Failed, TypeOK, Notification
<1>3. [task |-> "retry", next |-> 0, seen |-> Seen(S)] \in Job \cup {Idle}
  BY <1>2, SeenType, JobTypes
<1>4. TasksOK'
  BY <1>1, <1>3, Becomes DEF RetryStart, TypeOK, TasksOK
<1>5. HistoryOK'
  BY <1>1, Excused DEF RetryStart, TypeOK, HistoryOK
<1>6. RowsOK' /\ CountsOK'
  BY DEF RetryStart, TypeOK, RowsOK, CountsOK
<1> QED
  BY <1>4, <1>5, <1>6, TypeParts, PTL

LEMMA RetryRowType ==
  ASSUME TypeOK, NEW w \in Worker, NEW n \in Notification, RetryRow(w, n)
  PROVE  TypeOK'
<1> DEFINE old  == job[w].seen[n]
           new  == [old EXCEPT !.status = "PENDING", !.failed = FALSE, !.retries = @ + 1]
           rest == [m \in DOMAIN job[w].seen \ {n} |-> job[w].seen[m]]
<1>1. /\ n \in DOMAIN job[w].seen /\ old.retries < MaxRetries
      /\ old \in RowType
  BY JobOf DEF RetryRow, Retriable
<1>2. [task |-> "retry", next |-> n, seen |-> rest] \in Job \cup {Idle}
  <2>1. n \in 0 .. MaxMade
    BY BoundsAreCounts DEF Notification
  <2>2. rest \in [DOMAIN job[w].seen \ {n} -> RowType] /\ DOMAIN job[w].seen \ {n} \in SUBSET Notification
    BY JobOf DEF RetryRow
  <2> HIDE DEF rest
  <2> QED
    BY <2>1, <2>2, JobTypes
<1>3. TasksOK'
  <2>1. \/ Become(w, [task |-> "retry", next |-> n, seen |-> rest])
        \/ Become(w, Idle)
    BY DEF RetryRow
  <2> HIDE DEF rest
  <2> QED
    BY <1>2, <2>1, JobTypes, Becomes DEF RetryRow, TypeOK, TasksOK
<1>4. CountsOK' /\ HistoryOK'
  BY DEF RetryRow, TypeOK, CountsOK, HistoryOK, history
<1>5. RowsOK'
  <2>1. CASE row' = row
    BY <2>1 DEF RetryRow, TypeOK, RowsOK
  <2>2. CASE row' # row
    <3>1. Here(n) /\ row' = [row EXCEPT ![n] = Update(n, old, new)]
      BY <2>2 DEF RetryRow
    <3>2. Update(n, old, new) \in RowType /\ Update(n, old, new).status \in {"PENDING", row[n].status}
      BY <1>1, RetriedRow
    <3>3. made' = made
      BY DEF RetryRow
    <3> HIDE DEF old, new
    <3> QED
      BY <3>1, <3>2, <3>3, OneRow DEF Here
  <2> QED
    BY <2>1, <2>2
<1> QED
  BY <1>3, <1>4, <1>5, TypeParts, PTL

LEMMA RetryEnqueueType ==
  ASSUME TypeOK, NEW w \in Worker, RetryEnqueue(w)
  PROVE  TypeOK'
<1> DEFINE rest == Seen(DOMAIN job[w].seen)
<1>1. job[w].next \in Notification
  BY JobOf, BoundsAreCounts DEF RetryEnqueue, Notification
<1>2. [task |-> "retry", next |-> 0, seen |-> rest] \in Job \cup {Idle}
  <2>1. DOMAIN job[w].seen \in SUBSET Notification
    BY JobOf DEF RetryEnqueue
  <2>2. /\ rest \in [{m \in DOMAIN job[w].seen : Here(m)} -> RowType]
        /\ {m \in DOMAIN job[w].seen : Here(m)} \in SUBSET Notification
    BY <2>1, SeenType
  <2>3. 0 \in 0 .. MaxMade
    BY BoundsAreCounts
  <2> HIDE DEF rest
  <2> QED
    BY <2>2, <2>3, JobTypes
<1>3. \/ Become(w, [task |-> "retry", next |-> 0, seen |-> rest])
      \/ Become(w, Idle)
  BY DEF RetryEnqueue
<1>4. Queue(job[w].next) \/ UNCHANGED queued
  BY DEF RetryEnqueue
<1>5. queued' \in [Notification -> Nat]
  BY <1>1, <1>4, QueueOne DEF TypeOK
<1>6. TasksOK'
  <2> HIDE DEF rest
  <2> QED
    BY <1>2, <1>3, <1>5, JobTypes, Becomes DEF TasksOK
<1>7. RowsOK' /\ CountsOK' /\ HistoryOK'
  BY DEF RetryEnqueue, TypeOK, RowsOK, CountsOK, HistoryOK, history
<1> QED
  BY <1>6, <1>7, TypeParts, PTL

LEMMA GroupStartType ==
  ASSUME TypeOK, NEW w \in Worker, GroupStart(w)
  PROVE  TypeOK'
<1>1. Grouped \in SUBSET Notification /\ {} \in SUBSET Notification
  BY BoundsAreCounts DEF Grouped, TypeOK, Notification
<1>2. [task |-> "group", left |-> Grouped, done |-> {}] \in Job \cup {Idle}
  BY <1>1, JobTypes
<1>3. TasksOK'
  BY <1>2, Becomes DEF GroupStart, TypeOK, TasksOK
<1>4. HistoryOK'
  BY Excused DEF GroupStart, TypeOK, HistoryOK
<1>5. RowsOK' /\ CountsOK'
  BY DEF GroupStart, TypeOK, RowsOK, CountsOK
<1> QED
  BY <1>3, <1>4, <1>5, TypeParts, PTL

LEMMA GroupEnqueueType ==
  ASSUME TypeOK, NEW w \in Worker, NEW n \in Notification, GroupEnqueue(w, n)
  PROVE  TypeOK'
<1>1. [job[w] EXCEPT !.left = @ \ {n}, !.done = @ \cup {n}] \in Job \cup {Idle}
  BY DoneType, Zenon DEF GroupEnqueue
<1>2. TasksOK'
  BY <1>1, Becomes, QueueOne DEF GroupEnqueue, TasksOK
<1>3. RowsOK' /\ CountsOK' /\ HistoryOK'
  BY DEF GroupEnqueue, TypeOK, RowsOK, CountsOK, HistoryOK, history
<1> QED
  BY <1>2, <1>3, TypeParts, PTL

LEMMA GroupEndType ==
  ASSUME TypeOK, NEW w \in Worker, GroupEnd(w)
  PROVE  TypeOK'
<1>1. TasksOK'
  BY JobTypes, Becomes DEF GroupEnd, TypeOK, TasksOK
<1>2. HistoryOK'
  BY Excused DEF GroupEnd, TypeOK, HistoryOK
<1>3. RowsOK'
  <2>1. CASE row' = row
    BY <2>1 DEF GroupEnd, TypeOK, RowsOK
  <2>2. CASE row' # row
    <3>1. /\ \A n \in job[w].done : Here(n)
          /\ row' = [n \in Notification |->
                 IF n \in job[w].done THEN [row[n] EXCEPT !.status = "PENDING"] ELSE row[n]]
      BY <2>2 DEF GroupEnd
    <3>2. \A n \in Notification : [row[n] EXCEPT !.status = "PENDING"] \in RowType
      BY DEF TypeOK, RowType, Status
    <3>3. \A n \in Notification : [row[n] EXCEPT !.status = "PENDING"].status = "PENDING"
      BY DEF TypeOK, RowType
    <3> QED
      BY <3>1, <3>2, <3>3 DEF GroupEnd, TypeOK, RowsOK, Here
  <2> QED
    BY <2>1, <2>2
<1>4. CountsOK'
  BY DEF GroupEnd, TypeOK, CountsOK
<1> QED
  BY <1>1, <1>2, <1>3, <1>4, TypeParts, PTL

LEMMA LostType ==
  ASSUME TypeOK, NEW w \in Worker, Lost(w)
  PROVE  TypeOK'
<1>1. TasksOK'
  BY JobTypes, Becomes DEF Lost, TypeOK, TasksOK
<1>2. HistoryOK'
  BY Excused, InHandType DEF Lost, TypeOK, HistoryOK
<1>3. RowsOK' /\ CountsOK'
  BY BoundsAreCounts DEF Lost, TypeOK, RowsOK, CountsOK
<1> QED
  BY <1>1, <1>2, <1>3, TypeParts, PTL

LEMMA MarkReadType ==
  ASSUME TypeOK, NEW S \in SUBSET Notification, MarkRead(S)
  PROVE  TypeOK'
<1>1. \A n \in Notification : /\ [row[n] EXCEPT !.status = "READ"] \in RowType
                              /\ [row[n] EXCEPT !.status = "READ"].status = "READ"
  BY DEF TypeOK, RowType, Status
<1>2. RowsOK'
  BY <1>1 DEF MarkRead, TypeOK, RowsOK, Here
<1>3. CountsOK' /\ HistoryOK' /\ TasksOK'
  BY BoundsAreCounts DEF MarkRead, TypeOK, CountsOK, HistoryOK, TasksOK, history
<1> QED
  BY <1>2, <1>3, TypeParts, PTL

LEMMA DeleteType ==
  ASSUME TypeOK, NEW m \in Notification, Delete(m)
  PROVE  TypeOK'
<1>1. \A n \in Notification : /\ [row[n] EXCEPT !.group = 0] \in RowType
                              /\ [row[n] EXCEPT !.group = 0].status = row[n].status
  BY BoundsAreCounts DEF TypeOK, RowType
<1>2. /\ [NoRow EXCEPT !.status = "DELETED"] \in RowType
      /\ [NoRow EXCEPT !.status = "DELETED"].status = "DELETED"
  <2>1. NoRow \in RowType
    BY BoundsAreCounts DEF NoRow, RowType, Status
  <2> QED
    BY <2>1 DEF RowType, Status
<1>3. RowsOK'
  BY <1>1, <1>2 DEF Delete, TypeOK, RowsOK, Here
<1>4. CountsOK' /\ HistoryOK' /\ TasksOK'
  BY BoundsAreCounts DEF Delete, TypeOK, CountsOK, HistoryOK, TasksOK
<1> QED
  BY <1>3, <1>4, TypeParts, PTL

(* Every step keeps the types.                                             *)
LEMMA TypeStep ==
  ASSUME TypeOK, [Next]_vars
  PROVE  TypeOK'
<1>1. ASSUME Age PROVE TypeOK'
  BY <1>1, BoundsAreCounts DEF Age, TypeOK, history
<1>2. ASSUME UNCHANGED vars PROVE TypeOK'
  BY <1>2 DEF vars, history, TypeOK
<1> QED
  BY NextSteps, CreateType, CreateEnqueueType, SendStartType, SendEndType, RetryStartType,
     RetryRowType, RetryEnqueueType, GroupStartType, GroupEnqueueType, GroupEndType, LostType,
     MarkReadType, DeleteType, <1>1, <1>2 DEF Steps

(* The state has its types, no row is there that was not made, and no row  *)
(* is retried more often than retry_failed_notifications allows, in every  *)
(* behaviour.                                                              *)
THEOREM TypeCorrect == Spec => []TypeOK
<1>1. Init => TypeOK
  BY BoundsAreCounts DEF Init, TypeOK, NoRow, RowType, Status, Notification
<1> QED
  BY <1>1, TypeStep, PTL DEF Spec

-----------------------------------------------------------------------------
(* What a worker has, by the kind of its job.                              *)
Has(w, I, H, L)  == InHand(w) = I /\ Held(w) = H /\ Listed(w) = L
Gets(w, I, H, L) == InHand(w)' = I /\ Held(w)' = H /\ Listed(w)' = L

(* What the jobs amount to, in this state ...                              *)
LEMMA HasNow ==
  ASSUME NEW w
  PROVE  /\ job[w] = Idle     => Has(w, {}, {}, {})
         /\ Does(w, "create") => Has(w, {job[w].n}, {}, {})
         /\ Does(w, "send")   => Has(w, {job[w].n}, {}, {})
         /\ Does(w, "retry")  => Has(w, {job[w].next} \ {0}, {}, DOMAIN job[w].seen)
         /\ Does(w, "group")  => Has(w, {}, job[w].done, job[w].left \cup job[w].done)
BY DEF Has, InHand, Held, Listed, Does

(* ... and in the next.                                                    *)
LEMMA GetsThen ==
  ASSUME NEW w
  PROVE  /\ job'[w] = Idle => Gets(w, {}, {}, {})
         /\ job'[w] # Idle /\ job'[w].task = "create" => Gets(w, {job'[w].n}, {}, {})
         /\ job'[w] # Idle /\ job'[w].task = "send"   => Gets(w, {job'[w].n}, {}, {})
         /\ job'[w] # Idle /\ job'[w].task = "retry"  =>
               Gets(w, {job'[w].next} \ {0}, {}, DOMAIN job'[w].seen)
         /\ job'[w] # Idle /\ job'[w].task = "group"  =>
               Gets(w, {}, job'[w].done, job'[w].left \cup job'[w].done)
BY DEF Gets, InHand, Held, Listed, Does

(* Worker w is sending n, which the provider has taken.                    *)
Takes(w, n) == Does(w, "send") /\ job[w].n = n /\ job[w].how.does = "sent"

(* Worker w has n on the list of process_grouped_notifications; it has it  *)
(* on that of retry_failed_notifications, but read it as something else    *)
(* than FAILED or READ.                                                    *)
Groups(w, n) == Does(w, "group") /\ n \in Listed(w)
Stale(w, n)  ==
    Does(w, "retry") /\ n \in Listed(w) /\ job[w].seen[n].status \notin {"FAILED", "READ"}

Same(w) ==
    /\ InHand(w)' = InHand(w) /\ Held(w)' = Held(w) /\ Listed(w)' = Listed(w)
    /\ \A n : /\ Takes(w, n)' <=> Takes(w, n)
              /\ Groups(w, n)' <=> Groups(w, n)
              /\ Stale(w, n)' <=> Stale(w, n)

(* A worker that keeps its job has what it had, and so do all but one.     *)
LEMMA SameJob ==
  ASSUME NEW w, job'[w] = job[w]
  PROVE  Same(w)
<1>1. InHand(w)' = InHand(w) /\ Held(w)' = Held(w) /\ Listed(w)' = Listed(w)
  BY DEF InHand, Held, Listed, Does
<1>2. ASSUME NEW n
      PROVE  /\ Takes(w, n)' <=> Takes(w, n)
             /\ Groups(w, n)' <=> Groups(w, n)
             /\ Stale(w, n)' <=> Stale(w, n)
  BY <1>1 DEF Takes, Groups, Stale, Does
<1> QED
  BY <1>1, <1>2 DEF Same

LEMMA OthersSame ==
  ASSUME TypeOK, NEW w \in Worker, NEW j \in Job \cup {Idle}, Become(w, j)
  PROVE  \A x \in Worker : x # w => Same(x)
BY Becomes, SameJob

(* Whom the provider has just answered.                                    *)
LEMMA TakesThen ==
  ASSUME NEW w, NEW n
  PROVE  /\ job'[w] = Idle \/ job'[w].task # "send" => ~Takes(w, n)'
         /\ job'[w] # Idle /\ job'[w].task = "send" =>
               (Takes(w, n)' <=> job'[w].n = n /\ job'[w].how.does = "sent")
BY DEF Takes, Does

(* How the periodic runs have listed what they have listed.                *)
LEMMA ListedThen ==
  ASSUME NEW w, NEW n
  PROVE  /\ job'[w] # Idle /\ job'[w].task = "retry" =>
               /\ ~Groups(w, n)'
               /\ Stale(w, n)' => n \in Listed(w)' /\ job'[w].seen[n].status \notin {"FAILED", "READ"}
         /\ job'[w] # Idle /\ job'[w].task = "group" =>
               (Groups(w, n)' <=> n \in Listed(w)')
BY DEF Groups, Stale, Does

Unchanged(w) == \A x \in Worker : x # w => Same(x)
RowsBut(n)   == \A m \in Notification : m # n => row'[m] = row[m]
TasksBut(n)  == \A m \in Notification : m # n => queued'[m] = queued[m]

-----------------------------------------------------------------------------
LEMMA IdleEffect ==
  ASSUME TypeOK, NEW w \in Worker, Become(w, Idle)
  PROVE  Gets(w, {}, {}, {}) /\ Unchanged(w) /\ \A n : ~Takes(w, n)'
BY JobTypes, Becomes, GetsThen, TakesThen, OthersSame DEF Unchanged

(* What each action does to the rows, the tasks and what the workers have; *)
(* the properties are shown from these.                                    *)
LEMMA CreateEffect ==
  ASSUME TypeOK, NEW w \in Worker, Create(w)
  PROVE  /\ made + 1 \in Notification /\ row[made + 1].status = "none"
         /\ row'[made + 1].status = "PENDING" /\ RowsBut(made + 1)
         /\ queued' = queued /\ fate' = fate /\ dropped' = dropped
         /\ Has(w, {}, {}, {}) /\ Gets(w, {made + 1}, {}, {}) /\ Unchanged(w)
         /\ \A n : ~Takes(w, n)'
<1>1. made + 1 \in Notification /\ row[made + 1].status = "none"
  BY BoundsAreCounts DEF Create, TypeOK, Notification
<1>2. [task |-> "create", n |-> made + 1] \in Job /\ Become(w, [task |-> "create", n |-> made + 1])
  BY <1>1, JobTypes DEF Create
<1>3. job'[w] = [task |-> "create", n |-> made + 1] /\ job'[w] # Idle
  BY <1>2, Becomes, IdleIsNoJob
<1>4. job'[w].task = "create" /\ job'[w].n = made + 1
  BY <1>3
<1>5. Gets(w, {made + 1}, {}, {}) /\ Unchanged(w) /\ \A n : ~Takes(w, n)'
  BY <1>2, <1>3, <1>4, GetsThen, TakesThen, OthersSame DEF Unchanged
<1>6. Has(w, {}, {}, {})
  BY HasNow DEF Create
<1>7. row'[made + 1].status = "PENDING" /\ RowsBut(made + 1)
  BY <1>1 DEF Create, TypeOK, RowType, RowsBut
<1>8. queued' = queued /\ fate' = fate /\ dropped' = dropped
  BY DEF Create, history
<1> QED
  BY <1>1, <1>5, <1>6, <1>7, <1>8

LEMMA CreateEnqueueEffect ==
  ASSUME TypeOK, NEW w \in Worker, CreateEnqueue(w)
  PROVE  /\ job[w].n \in Notification
         /\ queued'[job[w].n] = queued[job[w].n] + 1 /\ TasksBut(job[w].n)
         /\ row' = row /\ fate' = fate /\ dropped' = dropped
         /\ Has(w, {job[w].n}, {}, {}) /\ Gets(w, {}, {}, {}) /\ Unchanged(w)
         /\ \A n : ~Takes(w, n) /\ ~Takes(w, n)'
<1>1. job[w].n \in Notification /\ Has(w, {job[w].n}, {}, {}) /\ \A n : ~Takes(w, n)
  BY JobOf, HasNow DEF CreateEnqueue, Takes, Does
<1>2. Gets(w, {}, {}, {}) /\ Unchanged(w) /\ \A n : ~Takes(w, n)'
  BY IdleEffect DEF CreateEnqueue
<1>3. queued'[job[w].n] = queued[job[w].n] + 1 /\ TasksBut(job[w].n)
  BY <1>1, QueueOne DEF CreateEnqueue, TasksBut
<1> QED
  BY <1>1, <1>2, <1>3 DEF CreateEnqueue, history

(* A task that is taken: it does nothing, or the notification is asked for. *)
Ignored(w, n) == row[n].status # "PENDING" /\ fate' = fate /\ \A x \in Worker : Same(x)

Asked(w, n) ==
    /\ row[n].status = "PENDING"
    /\ Has(w, {}, {}, {}) /\ Gets(w, {n}, {}, {}) /\ Unchanged(w)
    /\ \A m : m # n => ~Takes(w, m)'
    /\ \A m \in Notification : m # n => fate'[m] = fate[m]
    /\ \/ Takes(w, n)' /\ fate'[n] = (CASE fate[n] = "untaken" -> "taken"
                                        [] fate[n] = "taken"   -> "twice"
                                        [] OTHER               -> fate[n])
       \/ ~Takes(w, n)' /\ fate'[n] \in {fate[n], "excused"}

LEMMA SendStartEffect ==
  ASSUME TypeOK, NEW w \in Worker, NEW n \in Notification, SendStart(w, n)
  PROVE  /\ queued[n] > 0 /\ queued'[n] = queued[n] - 1 /\ TasksBut(n)
         /\ row' = row
         /\ dropped' = IF \E x \in Worker : n \in Held(x) THEN dropped \cup {n} ELSE dropped
         /\ Ignored(w, n) \/ Asked(w, n)
<1>1. queued[n] > 0 /\ queued'[n] = queued[n] - 1 /\ TasksBut(n) /\ row' = row
  BY DEF SendStart, TypeOK, TasksBut
<1>2. dropped' = IF \E x \in Worker : n \in Held(x) THEN dropped \cup {n} ELSE dropped
  BY DEF SendStart
<1>3. CASE row[n].status # "PENDING"
  <2>1. job' = job /\ fate' = fate
    BY <1>3 DEF SendStart
  <2>2. \A x \in Worker : Same(x)
    BY <2>1, SameJob
  <2> QED
    BY <1>1, <1>2, <1>3, <2>1, <2>2 DEF Ignored
<1>4. CASE row[n].status = "PENDING"
  <2>1. PICK o \in Outcomes :
          /\ Become(w, [task |-> "send", n |-> n, how |-> o])
          /\ fate' = [fate EXCEPT ![n] =
                CASE o.does = "unclear"                -> "excused"
                  [] o.does = "sent" /\ @ = "untaken"  -> "taken"
                  [] o.does = "sent" /\ @ = "taken"    -> "twice"
                  [] OTHER                             -> @]
    BY <1>4 DEF SendStart
  <2>2. [task |-> "send", n |-> n, how |-> o] \in Job
    BY OutcomeType, JobTypes
  <2>3. job'[w] = [task |-> "send", n |-> n, how |-> o] /\ job'[w] # Idle
    BY <2>1, <2>2, Becomes, IdleIsNoJob
  <2>4. job'[w].task = "send" /\ job'[w].n = n /\ job'[w].how = o
    BY <2>3
  <2>5. Gets(w, {n}, {}, {}) /\ \A m : Takes(w, m)' <=> n = m /\ o.does = "sent"
    BY <2>3, <2>4, GetsThen, TakesThen
  <2>6. Has(w, {}, {}, {}) /\ Unchanged(w)
    BY <2>1, <2>2, HasNow, OthersSame DEF SendStart, Unchanged
  <2>7. /\ \A m \in Notification : m # n => fate'[m] = fate[m]
        /\ fate'[n] = (CASE o.does = "unclear"                     -> "excused"
                         [] o.does = "sent" /\ fate[n] = "untaken" -> "taken"
                         [] o.does = "sent" /\ fate[n] = "taken"   -> "twice"
                         [] OTHER                                  -> fate[n])
    BY <2>1 DEF TypeOK
  <2>8. ASSUME o.does = "sent" PROVE Asked(w, n)
    <3>1. fate'[n] = (CASE fate[n] = "untaken" -> "taken"
                        [] fate[n] = "taken"   -> "twice"
                        [] OTHER               -> fate[n])
      BY <2>7, <2>8
    <3> QED
      BY <1>4, <2>5, <2>6, <2>7, <2>8, <3>1 DEF Asked
  <2>9. ASSUME o.does # "sent" PROVE Asked(w, n)
    <3>1. fate'[n] \in {fate[n], "excused"}
      BY <2>7, <2>9
    <3> QED
      BY <1>4, <2>5, <2>6, <2>7, <2>9, <3>1 DEF Asked
  <2> QED
    BY <1>1, <1>2, <2>8, <2>9
<1> QED
  BY <1>1, <1>2, <1>3, <1>4

LEMMA SendEndEffect ==
  ASSUME TypeOK, NEW w \in Worker, SendEnd(w)
  PROVE  /\ job[w].n \in Notification /\ RowsBut(job[w].n)
         /\ queued' = queued /\ fate' = fate
         /\ Has(w, {job[w].n}, {}, {}) /\ Gets(w, {}, {}, {}) /\ Unchanged(w)
         /\ \A n : ~Takes(w, n)' /\ (n # job[w].n => ~Takes(w, n))
         /\ \/ ~Here(job[w].n) /\ row' = row /\ dropped' \in {dropped, dropped \cup {job[w].n}}
            \/ row' = row /\ dropped' = dropped \cup {job[w].n} /\ ~Takes(w, job[w].n)
            \/ /\ Here(job[w].n) /\ dropped' = dropped
               /\ row'[job[w].n].status \in {"FAILED", "BATCHED", "SENT"}
               /\ row'[job[w].n].status = "BATCHED" => row'[job[w].n].group # 0
               /\ Takes(w, job[w].n) => row'[job[w].n].status = "SENT"
<1> DEFINE n == job[w].n
           how == job[w].how
<1>1. n \in Notification /\ how \in How
  BY JobOf DEF SendEnd
<1>2. Has(w, {n}, {}, {}) /\ \A m : m # n => ~Takes(w, m)
  BY HasNow DEF SendEnd, Takes
<1>3. Gets(w, {}, {}, {}) /\ Unchanged(w) /\ \A m : ~Takes(w, m)'
  BY IdleEffect DEF SendEnd
<1>4. RowsBut(n)
  BY <1>1 DEF SendEnd, TypeOK, RowsBut
<1>5. CASE ~Here(n)
  BY <1>1, <1>2, <1>3, <1>4, <1>5 DEF SendEnd
<1>6. CASE how.does = "batch" /\ ~Here(how.head)
  <2>1. ~Takes(w, n)
    BY <1>6 DEF Takes
  <2> QED
    BY <1>1, <1>2, <1>3, <1>4, <1>6, <2>1 DEF SendEnd
<1>7. CASE Here(n) /\ ~(how.does = "batch" /\ ~Here(how.head))
  <2>1. row' = [row EXCEPT ![n] = Sent(row[n], how)] /\ dropped' = dropped
    BY <1>7 DEF SendEnd
  <2>2. row'[n] = Sent(row[n], how) /\ row[n] \in RowType
    BY <1>1, <2>1 DEF TypeOK
  <2>3. /\ row'[n].status \in {"FAILED", "BATCHED", "SENT"}
        /\ row'[n].status = "BATCHED" => row'[n].group # 0
        /\ Takes(w, n) => row'[n].status = "SENT"
    BY <1>1, <2>2, SentType DEF Takes
  <2> QED
    BY <1>1, <1>2, <1>3, <1>4, <1>7, <2>1, <2>3 DEF SendEnd
<1> QED
  BY <1>5, <1>6, <1>7

LEMMA RetryStartEffect ==
  ASSUME TypeOK, NEW w \in Worker, RetryStart(w)
  PROVE  /\ row' = row /\ queued' = queued /\ dropped' = dropped
         /\ Has(w, {}, {}, {}) /\ Unchanged(w) /\ \A n : ~Takes(w, n)'
         /\ \E S \in SUBSET Failed :
               Excuse(Overlapping(S)) /\ \E D \in SUBSET S : Gets(w, {}, {}, D)
         /\ \A n : /\ ~Groups(w, n)'
                   /\ Stale(w, n)' => n \in Listed(w)' /\ row[n].status \notin {"FAILED", "READ"}
<1>1. PICK S \in SUBSET Failed :
         /\ Become(w, [task |-> "retry", next |-> 0, seen |-> Seen(S)])
         /\ Excuse(Overlapping(S))
  BY DEF RetryStart
<1>2. S \in SUBSET Notification /\ 0 \in 0 .. MaxMade
  BY BoundsAreCounts DEF Failed, TypeOK, Notification
<1>3. [task |-> "retry", next |-> 0, seen |-> Seen(S)] \in Job
  BY <1>2, SeenType, JobTypes
<1>4. job'[w] = [task |-> "retry", next |-> 0, seen |-> Seen(S)] /\ job'[w] # Idle
  BY <1>1, <1>3, Becomes, IdleIsNoJob
<1>5. job'[w].task = "retry" /\ job'[w].next = 0 /\ job'[w].seen = Seen(S)
  BY <1>4
<1>6. Gets(w, {}, {}, DOMAIN Seen(S)) /\ \A n : ~Takes(w, n)'
  BY <1>4, <1>5, GetsThen, TakesThen
<1>7. DOMAIN Seen(S) \in SUBSET S
  BY <1>2, SeenType
<1>8. Has(w, {}, {}, {}) /\ Unchanged(w)
  BY <1>1, <1>3, HasNow, OthersSame DEF RetryStart, Unchanged
<1>9. ASSUME NEW n
      PROVE  /\ ~Groups(w, n)'
             /\ Stale(w, n)' => n \in Listed(w)' /\ row[n].status \notin {"FAILED", "READ"}
  <2>1. n \in Listed(w)' => Seen(S)[n] = row[n]
    BY <1>2, <1>6, SeenType DEF Gets
  <2> QED
    BY <1>4, <1>5, <2>1, ListedThen
<1> QED
  BY <1>1, <1>6, <1>7, <1>8, <1>9 DEF RetryStart

LEMMA RetryRowEffect ==
  ASSUME TypeOK, NEW w \in Worker, NEW n \in Notification, RetryRow(w, n)
  PROVE  /\ queued' = queued /\ fate' = fate /\ dropped' = dropped
         /\ RowsBut(n) /\ Unchanged(w) /\ \A m : ~Takes(w, m) /\ ~Takes(w, m)'
         /\ n \in DOMAIN job[w].seen /\ Has(w, {}, {}, DOMAIN job[w].seen)
         /\ \A m : ~Groups(w, m) /\ ~Groups(w, m)' /\ (Stale(w, m)' => Stale(w, m))
         /\ Here(n) /\ ~Stale(w, n) => row'[n].status = "PENDING"
         /\ \/ ~Here(n) /\ row' = row /\ Gets(w, {}, {}, {})
            \/ /\ Here(n) /\ Gets(w, {n}, {}, DOMAIN job[w].seen \ {n})
               /\ row'[n].status \in {"PENDING", row[n].status} /\ row'[n].group = row[n].group
<1> DEFINE old  == job[w].seen[n]
           new  == [old EXCEPT !.status = "PENDING", !.failed = FALSE, !.retries = @ + 1]
           rest == [m \in DOMAIN job[w].seen \ {n} |-> job[w].seen[m]]
<1>1. /\ n \in DOMAIN job[w].seen /\ old.retries < MaxRetries /\ old \in RowType
  BY JobOf DEF RetryRow, Retriable
<1>2. Has(w, {}, {}, DOMAIN job[w].seen) /\ \A m : ~Takes(w, m) /\ ~Groups(w, m)
  <2>1. Has(w, {job[w].next} \ {0}, {}, DOMAIN job[w].seen) /\ job[w].next = 0
    BY HasNow DEF RetryRow
  <2>2. {job[w].next} \ {0} = {}
    BY <2>1
  <2> QED
    BY <2>1, <2>2 DEF RetryRow, Takes, Groups, Does
<1>3. queued' = queued /\ fate' = fate /\ dropped' = dropped
  BY DEF RetryRow, history
<1>4. CASE ~Here(n)
  <2>1. row' = row /\ Become(w, Idle)
    BY <1>4 DEF RetryRow
  <2>2. Gets(w, {}, {}, {}) /\ Unchanged(w) /\ \A m : ~Takes(w, m)'
    BY <2>1, IdleEffect
  <2>3. \A m : ~Groups(w, m)' /\ ~Stale(w, m)'
    BY <2>2 DEF Gets, Groups, Stale
  <2> QED
    BY <1>1, <1>2, <1>3, <1>4, <2>1, <2>2, <2>3 DEF RowsBut
<1>5. CASE Here(n)
  <2>1. /\ row' = [row EXCEPT ![n] = Update(n, old, new)]
        /\ Become(w, [task |-> "retry", next |-> n, seen |-> rest])
    BY <1>5 DEF RetryRow
  <2>2. [task |-> "retry", next |-> n, seen |-> rest] \in Job /\ DOMAIN rest = DOMAIN job[w].seen \ {n}
    <3>1. n \in 0 .. MaxMade
      BY BoundsAreCounts DEF Notification
    <3>2. rest \in [DOMAIN job[w].seen \ {n} -> RowType] /\ DOMAIN job[w].seen \ {n} \in SUBSET Notification
      BY JobOf DEF RetryRow
    <3> HIDE DEF rest
    <3> QED
      BY <3>1, <3>2, JobTypes
  <2>3. /\ row'[n].status \in {"PENDING", row[n].status} /\ row'[n].group = row[n].group
        /\ ~Stale(w, n) => row'[n].status = "PENDING"
        /\ RowsBut(n)
    <3>1. /\ Update(n, old, new).status \in {"PENDING", row[n].status}
          /\ old.status # "PENDING" => Update(n, old, new).status = "PENDING"
          /\ Update(n, old, new).group = row[n].group
      BY <1>1, RetriedRow
    <3>2. ~Stale(w, n) => old.status # "PENDING"
      BY <1>1, <1>2 DEF Stale, Has, RetryRow
    <3> HIDE DEF old, new
    <3> QED
      BY <2>1, <3>1, <3>2 DEF TypeOK, RowsBut
  <2> HIDE DEF rest
  <2>4. job'[w] = [task |-> "retry", next |-> n, seen |-> rest] /\ job'[w] # Idle
    BY <2>1, <2>2, Becomes, IdleIsNoJob
  <2>5. job'[w].task = "retry" /\ job'[w].next = n /\ job'[w].seen = rest
    BY <2>4
  <2>6. {n} \ {0} = {n}
    BY BoundsAreCounts DEF Notification
  <2>7. Gets(w, {n}, {}, DOMAIN job[w].seen \ {n}) /\ \A m : ~Takes(w, m)'
    BY <2>2, <2>4, <2>5, <2>6, GetsThen, TakesThen
  <2>8. Unchanged(w)
    BY <2>1, <2>2, OthersSame DEF Unchanged
  <2>9. ASSUME NEW m PROVE ~Groups(w, m)' /\ (Stale(w, m)' => Stale(w, m))
    <3>1. m \in DOMAIN rest => rest[m] = job[w].seen[m] /\ m \in DOMAIN job[w].seen
      BY DEF rest
    <3> QED
      BY <1>2, <2>2, <2>4, <2>5, <2>7, <3>1, ListedThen DEF Stale, Has, Gets, RetryRow
  <2> QED
    BY <1>1, <1>2, <1>3, <1>5, <2>3, <2>7, <2>8, <2>9
<1> QED
  BY <1>4, <1>5

LEMMA RetryEnqueueEffect ==
  ASSUME TypeOK, NEW w \in Worker, RetryEnqueue(w)
  PROVE  /\ row' = row /\ fate' = fate /\ dropped' = dropped
         /\ job[w].next \in Notification
         /\ Has(w, {job[w].next}, {}, DOMAIN job[w].seen)
         /\ Unchanged(w) /\ \A n : ~Takes(w, n) /\ ~Takes(w, n)'
         /\ \E D \in SUBSET DOMAIN job[w].seen : Gets(w, {}, {}, D)
         /\ \A n : /\ ~Groups(w, n) /\ ~Groups(w, n)'
                   /\ Stale(w, n)' => row[n].status \notin {"FAILED", "READ"}
         /\ \/ /\ Here(job[w].next)
               /\ queued'[job[w].next] = queued[job[w].next] + 1 /\ TasksBut(job[w].next)
            \/ ~Here(job[w].next) /\ queued' = queued
<1> DEFINE rest == Seen(DOMAIN job[w].seen)
<1>1. job[w].next \in Notification
  BY JobOf, BoundsAreCounts DEF RetryEnqueue, Notification
<1>2. Has(w, {job[w].next}, {}, DOMAIN job[w].seen) /\ \A n : ~Takes(w, n) /\ ~Groups(w, n)
  <2>1. Has(w, {job[w].next} \ {0}, {}, DOMAIN job[w].seen) /\ job[w].next # 0
    BY HasNow DEF RetryEnqueue
  <2>2. {job[w].next} \ {0} = {job[w].next}
    BY <2>1
  <2> QED
    BY <2>1, <2>2 DEF RetryEnqueue, Takes, Groups, Does
<1>3. \/ /\ Here(job[w].next)
         /\ queued'[job[w].next] = queued[job[w].next] + 1 /\ TasksBut(job[w].next)
      \/ ~Here(job[w].next) /\ queued' = queued
  BY <1>1, QueueOne DEF RetryEnqueue, TasksBut
<1>4. /\ [task |-> "retry", next |-> 0, seen |-> rest] \in Job
      /\ DOMAIN rest \subseteq DOMAIN job[w].seen
      /\ \A n \in DOMAIN rest : rest[n] = row[n]
  <2>1. DOMAIN job[w].seen \in SUBSET Notification
    BY JobOf DEF RetryEnqueue
  <2>2. /\ rest \in [{m \in DOMAIN job[w].seen : Here(m)} -> RowType]
        /\ {m \in DOMAIN job[w].seen : Here(m)} \in SUBSET Notification
        /\ \A n \in DOMAIN rest : rest[n] = row[n]
    BY <2>1, SeenType
  <2>3. 0 \in 0 .. MaxMade
    BY BoundsAreCounts
  <2> HIDE DEF rest
  <2> QED
    BY <2>2, <2>3, JobTypes
<1>5. \/ Become(w, [task |-> "retry", next |-> 0, seen |-> rest])
      \/ Become(w, Idle)
  BY DEF RetryEnqueue
<1> HIDE DEF rest
<1>6. /\ \E D \in SUBSET DOMAIN job[w].seen : Gets(w, {}, {}, D)
      /\ Unchanged(w)
      /\ \A n : /\ ~Takes(w, n)' /\ ~Groups(w, n)'
                /\ Stale(w, n)' => row[n].status \notin {"FAILED", "READ"}
  <2>1. CASE Become(w, Idle)
    BY <2>1, IdleEffect DEF Gets, Groups, Stale
  <2>2. CASE Become(w, [task |-> "retry", next |-> 0, seen |-> rest])
    <3>1. job'[w] = [task |-> "retry", next |-> 0, seen |-> rest] /\ job'[w] # Idle
      BY <1>4, <2>2, Becomes, IdleIsNoJob
    <3>2. job'[w].task = "retry" /\ job'[w].next = 0 /\ job'[w].seen = rest
      BY <3>1
    <3>3. Gets(w, {}, {}, DOMAIN rest) /\ \A n : ~Takes(w, n)'
      BY <3>1, <3>2, GetsThen, TakesThen
    <3>4. ASSUME NEW n PROVE /\ ~Groups(w, n)'
                             /\ Stale(w, n)' => row[n].status \notin {"FAILED", "READ"}
      BY <1>4, <3>1, <3>2, <3>3, ListedThen DEF Gets
    <3> QED
      BY <1>4, <2>2, <3>3, <3>4, OthersSame DEF Unchanged
  <2> QED
    BY <1>5, <2>1, <2>2
<1> QED
  BY <1>1, <1>2, <1>3, <1>6 DEF RetryEnqueue, history

LEMMA GroupStartEffect ==
  ASSUME TypeOK, NEW w \in Worker, GroupStart(w)
  PROVE  /\ row' = row /\ queued' = queued /\ dropped' = dropped
         /\ Has(w, {}, {}, {}) /\ Gets(w, {}, {}, Grouped) /\ Unchanged(w)
         /\ Excuse(Overlapping(Grouped))
         /\ \A n : ~Takes(w, n)' /\ (Groups(w, n)' <=> n \in Listed(w)')
<1>1. Grouped \in SUBSET Notification /\ {} \in SUBSET Notification
  BY BoundsAreCounts DEF Grouped, TypeOK, Notification
<1>2. /\ [task |-> "group", left |-> Grouped, done |-> {}] \in Job
      /\ Become(w, [task |-> "group", left |-> Grouped, done |-> {}])
  BY <1>1, JobTypes DEF GroupStart
<1>3. job'[w] = [task |-> "group", left |-> Grouped, done |-> {}] /\ job'[w] # Idle
  BY <1>2, Becomes, IdleIsNoJob
<1>4. job'[w].task = "group" /\ job'[w].left = Grouped /\ job'[w].done = {}
  BY <1>3
<1>5. Gets(w, {}, {}, Grouped) /\ \A n : ~Takes(w, n)' /\ (Groups(w, n)' <=> n \in Listed(w)')
  BY <1>3, <1>4, GetsThen, TakesThen, ListedThen
<1>6. Has(w, {}, {}, {}) /\ Unchanged(w)
  BY <1>2, HasNow, OthersSame DEF GroupStart, Unchanged
<1> QED
  BY <1>5, <1>6 DEF GroupStart

LEMMA GroupEnqueueEffect ==
  ASSUME TypeOK, NEW w \in Worker, NEW n \in Notification, GroupEnqueue(w, n)
  PROVE  /\ row' = row /\ fate' = fate /\ dropped' = dropped
         /\ queued'[n] = queued[n] + 1 /\ TasksBut(n)
         /\ n \in job[w].left
         /\ Has(w, {}, job[w].done, job[w].left \cup job[w].done)
         /\ Gets(w, {}, job[w].done \cup {n}, job[w].left \cup job[w].done)
         /\ Unchanged(w)
         /\ \A m : /\ ~Takes(w, m) /\ ~Takes(w, m)' /\ ~Stale(w, m)'
                   /\ Groups(w, m) <=> m \in Listed(w)
                   /\ Groups(w, m)' <=> m \in Listed(w)'
<1> DEFINE j == [job[w] EXCEPT !.left = @ \ {n}, !.done = @ \cup {n}]
<1>1. /\ j \in Job /\ j.task = "group"
      /\ j.left = job[w].left \ {n} /\ j.done = job[w].done \cup {n}
  BY DoneType DEF GroupEnqueue
<1>2. /\ Become(w, j) /\ n \in job[w].left
      /\ Has(w, {}, job[w].done, job[w].left \cup job[w].done)
      /\ \A m : ~Takes(w, m) /\ (Groups(w, m) <=> m \in Listed(w))
  BY HasNow DEF GroupEnqueue, Takes, Groups, Does
<1>3. j # Idle
  BY <1>1, IdleIsNoJob
<1> HIDE DEF j
<1>4. job'[w] = j
  BY <1>1, <1>2, Becomes
<1>5. /\ Gets(w, {}, job[w].done \cup {n}, job[w].left \cup job[w].done)
      /\ \A m : ~Takes(w, m)' /\ (Groups(w, m)' <=> m \in Listed(w)')
  <2>1. (job[w].left \ {n}) \cup (job[w].done \cup {n}) = job[w].left \cup job[w].done
    BY <1>2
  <2> QED
    BY <1>1, <1>3, <1>4, <2>1, GetsThen, TakesThen, ListedThen
<1>6. Unchanged(w)
  BY <1>1, <1>2, OthersSame DEF Unchanged
<1>7. \A m : ~Stale(w, m)'
  BY <1>1, <1>4 DEF Stale, Does
<1> QED
  BY <1>2, <1>5, <1>6, <1>7, QueueOne DEF GroupEnqueue, TasksBut, history

LEMMA GroupEndEffect ==
  ASSUME TypeOK, NEW w \in Worker, GroupEnd(w)
  PROVE  /\ queued' = queued /\ dropped' = dropped
         /\ Has(w, {}, job[w].done, job[w].done) /\ Gets(w, {}, {}, {})
         /\ Unchanged(w) /\ \A n : ~Takes(w, n) /\ ~Takes(w, n)'
         /\ \A n \in Notification \ job[w].done : row'[n] = row[n]
         /\ \/ /\ \A n \in job[w].done : Here(n) /\ row'[n].status = "PENDING"
               /\ fate' = fate
            \/ row' = row /\ Excuse(job[w].done)
<1>1. job[w].done \subseteq Notification
  BY JobOf DEF GroupEnd
<1>2. Has(w, {}, job[w].done, job[w].done) /\ \A n : ~Takes(w, n)
  <2>1. Has(w, {}, job[w].done, job[w].left \cup job[w].done) /\ job[w].left = {}
    BY HasNow DEF GroupEnd
  <2>2. job[w].left \cup job[w].done = job[w].done
    BY <2>1
  <2> QED
    BY <2>1, <2>2 DEF GroupEnd, Takes, Does
<1>3. Gets(w, {}, {}, {}) /\ Unchanged(w) /\ \A n : ~Takes(w, n)'
  BY IdleEffect DEF GroupEnd
<1>4. CASE \A n \in job[w].done : Here(n)
  <2>1. /\ row' = [n \in Notification |->
               IF n \in job[w].done THEN [row[n] EXCEPT !.status = "PENDING"] ELSE row[n]]
        /\ fate' = fate
    BY <1>4 DEF GroupEnd
  <2>2. \A n \in Notification : [row[n] EXCEPT !.status = "PENDING"].status = "PENDING"
    BY DEF TypeOK, RowType
  <2>3. /\ \A n \in job[w].done : row'[n].status = "PENDING"
        /\ \A n \in Notification \ job[w].done : row'[n] = row[n]
    BY <1>1, <2>1, <2>2
  <2> QED
    BY <1>2, <1>3, <1>4, <2>1, <2>3 DEF GroupEnd
<1>5. CASE ~(\A n \in job[w].done : Here(n))
  BY <1>2, <1>3, <1>5 DEF GroupEnd
<1> QED
  BY <1>4, <1>5

LEMMA LostEffect ==
  ASSUME TypeOK, NEW w \in Worker, Lost(w)
  PROVE  /\ row' = row /\ queued' = queued
         /\ dropped' = dropped \cup InHand(w) /\ Excuse(Held(w))
         /\ Gets(w, {}, {}, {}) /\ Unchanged(w) /\ \A n : ~Takes(w, n)'
BY IdleEffect DEF Lost

LEMMA MarkReadEffect ==
  ASSUME TypeOK, NEW S \in SUBSET Notification, MarkRead(S)
  PROVE  /\ queued' = queued /\ fate' = fate /\ dropped' = dropped
         /\ \A x \in Worker : Same(x)
         /\ \A n \in Notification : row'[n] = row[n] \/ (Here(n) /\ row'[n].status = "READ")
<1>1. \A n \in Notification : [row[n] EXCEPT !.status = "READ"].status = "READ"
  BY DEF TypeOK, RowType
<1>2. \A x \in Worker : Same(x)
  BY SameJob DEF MarkRead
<1>3. \A n \in Notification : row'[n] = row[n] \/ (Here(n) /\ row'[n].status = "READ")
  <2>1. row' = [n \in Notification |->
                  IF n \in S /\ Here(n) THEN [row[n] EXCEPT !.status = "READ"] ELSE row[n]]
    BY DEF MarkRead
  <2> QED
    <3>1. ASSUME NEW n \in Notification PROVE row'[n] = row[n] \/ (Here(n) /\ row'[n].status = "READ")
      <4>1. CASE n \in S /\ Here(n)
        <5>1. row'[n] = [row[n] EXCEPT !.status = "READ"]
          BY <2>1, <4>1
        <5> QED
          BY <1>1, <4>1, <5>1
      <4>2. CASE ~(n \in S /\ Here(n))
        BY <2>1, <4>2
      <4> QED
        BY <4>1, <4>2
    <3> QED
      BY <3>1
<1> QED
  BY <1>2, <1>3 DEF MarkRead, history

LEMMA DeleteEffect ==
  ASSUME TypeOK, NEW m \in Notification, Delete(m)
  PROVE  /\ queued' = queued /\ fate' = [fate EXCEPT ![m] = "untaken"]
         /\ \A x \in Worker : Same(x)
         /\ Here(m) /\ row'[m].status = "DELETED"
         /\ \A n \in Notification : n # m =>
               /\ row'[n].status = row[n].status
               /\ n \notin dropped' => n \notin dropped
               /\ n \notin dropped' /\ row[n].status = "BATCHED" => row'[n].group = row[n].group
<1>1. \A n \in Notification : [row[n] EXCEPT !.group = 0].status = row[n].status
  BY DEF TypeOK, RowType
<1>2. [NoRow EXCEPT !.status = "DELETED"].status = "DELETED"
  BY DEF NoRow
<1>3. \A x \in Worker : Same(x)
  BY SameJob DEF Delete
<1>4. /\ row'[m].status = "DELETED"
      /\ \A n \in Notification : n # m => row'[n].status = row[n].status
  BY <1>1, <1>2 DEF Delete
<1>5. \A n \in Notification : n # m =>
               /\ n \notin dropped' => n \notin dropped
               /\ n \notin dropped' /\ row[n].status = "BATCHED" => row'[n].group = row[n].group
  BY DEF Delete
<1> QED
  BY <1>3, <1>4, <1>5 DEF Delete

-----------------------------------------------------------------------------
(* What a run of process_grouped_notifications has queued is queued until  *)
(* the run commits, or was taken too early.                                *)
HeldQueued ==
    \A w \in Worker : \A n \in Held(w) :
        queued[n] > 0 \/ n \in dropped \/ row[n].status = "DELETED"

NInv == NoneForgotten /\ HeldQueued

(* NInv speaks of rows, tasks and excuses only: it stays when none goes.   *)
LEMMA SameKeeps ==
  ASSUME TypeOK, NInv, row' = row, dropped' = dropped, queued' = queued,
         \A w \in Worker : InHand(w) \subseteq InHand(w)' /\ Held(w)' \subseteq Held(w)
  PROVE  NInv'
BY DEF NInv, NoneForgotten, HeldQueued

(* Every step keeps NInv: a notification that becomes PENDING is in the    *)
(* hand of the worker that makes it so, or was queued by it before; a      *)
(* worker lets go of it when it has queued it, or has changed its status.  *)
LEMMA NInvStep ==
  ASSUME TypeOK, NInv, [Next]_vars
  PROVE  NInv'
<1>1. ASSUME NEW w \in Worker, Create(w) PROVE NInv'
  <2>1. NoneForgotten'
    BY <1>1, CreateEffect DEF NInv, NoneForgotten, Has, Gets, Same, Unchanged, RowsBut
  <2>2. HeldQueued'
    BY <1>1, CreateEffect, InHandType DEF NInv, HeldQueued, Has, Gets, Same, Unchanged, RowsBut
  <2> QED
    BY <2>1, <2>2 DEF NInv
<1>2. ASSUME NEW w \in Worker, CreateEnqueue(w) PROVE NInv'
  <2>1. queued[job[w].n] \in Nat
    BY <1>2, CreateEnqueueEffect DEF TypeOK
  <2>2. NoneForgotten'
    BY <1>2, <2>1, CreateEnqueueEffect DEF NInv, NoneForgotten, Has, Gets, Same, Unchanged, TasksBut
  <2>3. HeldQueued'
    BY <1>2, <2>1, CreateEnqueueEffect, InHandType
       DEF NInv, HeldQueued, Has, Gets, Same, Unchanged, TasksBut
  <2> QED
    BY <2>2, <2>3 DEF NInv
<1>3. ASSUME NEW w \in Worker, NEW n \in Notification, SendStart(w, n) PROVE NInv'
  <2>1. CASE Ignored(w, n)
    <3>1. NoneForgotten'
      BY <1>3, <2>1, SendStartEffect DEF NInv, NoneForgotten, Ignored, Same, TasksBut
    <3>2. HeldQueued'
      BY <1>3, <2>1, SendStartEffect, InHandType DEF NInv, HeldQueued, Ignored, Same, TasksBut
    <3> QED
      BY <3>1, <3>2 DEF NInv
  <2>2. CASE Asked(w, n)
    <3>1. NoneForgotten'
      BY <1>3, <2>2, SendStartEffect
         DEF NInv, NoneForgotten, Asked, Has, Gets, Same, Unchanged, TasksBut
    <3>2. HeldQueued'
      BY <1>3, <2>2, SendStartEffect, InHandType
         DEF NInv, HeldQueued, Asked, Has, Gets, Same, Unchanged, TasksBut
    <3> QED
      BY <3>1, <3>2 DEF NInv
  <2> QED
    BY <1>3, <2>1, <2>2, SendStartEffect
<1>4. ASSUME NEW w \in Worker, SendEnd(w) PROVE NInv'
  <2>1. NoneForgotten'
    BY <1>4, SendEndEffect DEF NInv, NoneForgotten, Has, Gets, Same, Unchanged, RowsBut, Here
  <2>2. HeldQueued'
    BY <1>4, SendEndEffect, InHandType
       DEF NInv, HeldQueued, Has, Gets, Same, Unchanged, RowsBut, Here
  <2> QED
    BY <2>1, <2>2 DEF NInv
<1>5. ASSUME NEW w \in Worker, RetryStart(w) PROVE NInv'
  BY <1>5, RetryStartEffect, SameKeeps DEF Has, Gets, Same, Unchanged
<1>6. ASSUME NEW w \in Worker, NEW n \in Notification, RetryRow(w, n) PROVE NInv'
  <2>1. NoneForgotten'
    BY <1>6, RetryRowEffect DEF NInv, NoneForgotten, Has, Gets, Same, Unchanged, RowsBut, Here
  <2>2. HeldQueued'
    BY <1>6, RetryRowEffect, InHandType
       DEF NInv, HeldQueued, Has, Gets, Same, Unchanged, RowsBut, Here
  <2> QED
    BY <2>1, <2>2 DEF NInv
<1>7. ASSUME NEW w \in Worker, RetryEnqueue(w) PROVE NInv'
  <2>1. queued[job[w].next] \in Nat
    BY <1>7, RetryEnqueueEffect DEF TypeOK
  <2>2. NoneForgotten'
    BY <1>7, <2>1, RetryEnqueueEffect
       DEF NInv, NoneForgotten, Has, Gets, Same, Unchanged, TasksBut, Here
  <2>3. HeldQueued'
    BY <1>7, <2>1, RetryEnqueueEffect, InHandType
       DEF NInv, HeldQueued, Has, Gets, Same, Unchanged, TasksBut
  <2> QED
    BY <2>2, <2>3 DEF NInv
<1>8. ASSUME NEW w \in Worker, GroupStart(w) PROVE NInv'
  BY <1>8, GroupStartEffect, SameKeeps DEF Has, Gets, Same, Unchanged
<1>9. ASSUME NEW w \in Worker, NEW n \in Notification, GroupEnqueue(w, n) PROVE NInv'
  <2>1. queued[n] \in Nat
    BY DEF TypeOK
  <2>2. NoneForgotten'
    BY <1>9, <2>1, GroupEnqueueEffect DEF NInv, NoneForgotten, Has, Gets, Same, Unchanged, TasksBut
  <2>3. HeldQueued'
    BY <1>9, <2>1, GroupEnqueueEffect, InHandType
       DEF NInv, HeldQueued, Has, Gets, Same, Unchanged, TasksBut
  <2> QED
    BY <2>2, <2>3 DEF NInv
<1>10. ASSUME NEW w \in Worker, GroupEnd(w) PROVE NInv'
  <2>1. NoneForgotten'
    BY <1>10, GroupEndEffect
       DEF NInv, NoneForgotten, HeldQueued, Has, Gets, Same, Unchanged, Here
  <2>2. HeldQueued'
    BY <1>10, GroupEndEffect, InHandType
       DEF NInv, HeldQueued, Has, Gets, Same, Unchanged, Here
  <2> QED
    BY <2>1, <2>2 DEF NInv
<1>11. ASSUME NEW w \in Worker, Lost(w) PROVE NInv'
  <2>1. NoneForgotten'
    BY <1>11, LostEffect DEF NInv, NoneForgotten, Gets, Same, Unchanged
  <2>2. HeldQueued'
    BY <1>11, LostEffect DEF NInv, HeldQueued, Gets, Same, Unchanged
  <2> QED
    BY <2>1, <2>2 DEF NInv
<1>12. ASSUME NEW S \in SUBSET Notification, MarkRead(S) PROVE NInv'
  <2>1. NoneForgotten'
    BY <1>12, MarkReadEffect DEF NInv, NoneForgotten, Same
  <2>2. HeldQueued'
    BY <1>12, MarkReadEffect, InHandType DEF NInv, HeldQueued, Same, Here
  <2> QED
    BY <2>1, <2>2 DEF NInv
<1>13. ASSUME NEW m \in Notification, Delete(m) PROVE NInv'
  <2>1. NoneForgotten'
    BY <1>13, DeleteEffect DEF NInv, NoneForgotten, Same
  <2>2. HeldQueued'
    BY <1>13, DeleteEffect, InHandType DEF NInv, HeldQueued, Same
  <2> QED
    BY <2>1, <2>2 DEF NInv
<1>14. ASSUME Age \/ UNCHANGED vars PROVE NInv'
  BY <1>14, SameJob, SameKeeps DEF Age, vars, history, Same
<1> QED
  BY NextSteps, <1>1, <1>2, <1>3, <1>4, <1>5, <1>6, <1>7, <1>8, <1>9, <1>10, <1>11, <1>12,
     <1>13, <1>14 DEF Steps

(* A PENDING notification has a task or is in the hand of a worker that    *)
(* will queue one, and a BATCHED one has a group, but for those that a     *)
(* lost job, a task taken before the commit or the deletion of the head    *)
(* excuses (NoneForgotten): send_bulk_notifications, send_notification,    *)
(* retry_failed_notifications and process_grouped_notifications hand a     *)
(* notification over without a gap.                                        *)
THEOREM NothingForgotten == Spec => []NoneForgotten
<1>1. Init => NInv
  BY DEF Init, NInv, NoneForgotten, HeldQueued, NoRow, Held, Does
<1> QED
  BY <1>1, TypeCorrect, NInvStep, PTL DEF Spec, NInv

-----------------------------------------------------------------------------
(* A run of one of the periodic tasks goes through a notification once.    *)
OnceThrough(j) ==
    j # Idle => /\ j.task = "retry" => j.next \notin DOMAIN j.seen
                /\ j.task = "group" => j.left \cap j.done = {}

Passes == \A w \in Worker : OnceThrough(job[w])

(* A run lists each once, and strikes off what it has dealt with.          *)
LEMMA PassesStep ==
  ASSUME TypeOK, Passes, [Next]_vars
  PROVE  Passes'
<1>1. ASSUME NEW w \in Worker, NEW j \in Job \cup {Idle}, Become(w, j), OnceThrough(j) PROVE Passes'
  BY <1>1, Becomes DEF Passes
<1>2. ASSUME NEW w \in Worker, Become(w, Idle) PROVE Passes'
  BY <1>1, <1>2, JobTypes DEF OnceThrough
<1>3. ASSUME job' = job PROVE Passes'
  BY <1>3 DEF Passes
<1>4. ASSUME NEW w \in Worker, Create(w) PROVE Passes'
  <2>1. [task |-> "create", n |-> made + 1] \in Job
    BY <1>4, CreateEffect, JobTypes
  <2>2. OnceThrough([task |-> "create", n |-> made + 1])
    BY DEF OnceThrough
  <2> QED
    BY <1>1, <1>4, <2>1, <2>2 DEF Create
<1>5. ASSUME NEW w \in Worker, NEW n \in Notification, SendStart(w, n) PROVE Passes'
  <2>1. ASSUME NEW o \in Outcomes, Become(w, [task |-> "send", n |-> n, how |-> o]) PROVE Passes'
    <3>1. [task |-> "send", n |-> n, how |-> o] \in Job
      BY OutcomeType, JobTypes
    <3>2. OnceThrough([task |-> "send", n |-> n, how |-> o])
      BY DEF OnceThrough
    <3> QED
      BY <1>1, <2>1, <3>1, <3>2
  <2> QED
    BY <1>3, <1>5, <2>1 DEF SendStart
<1>6. ASSUME NEW w \in Worker, NEW S \in SUBSET Notification, NEW k \in 0 .. MaxMade,
             NEW f \in [S -> RowType], k \notin S,
             Become(w, [task |-> "retry", next |-> k, seen |-> f])
      PROVE  Passes'
  <2>1. [task |-> "retry", next |-> k, seen |-> f] \in Job
    BY JobTypes
  <2>2. OnceThrough([task |-> "retry", next |-> k, seen |-> f])
    BY <1>6 DEF OnceThrough
  <2> QED
    BY <1>1, <1>6, <2>1, <2>2
<1>7. 0 \notin Notification /\ 0 \in 0 .. MaxMade
  BY BoundsAreCounts DEF Notification
<1>8. ASSUME NEW w \in Worker, RetryStart(w) PROVE Passes'
  <2>1. PICK S \in SUBSET Failed : Become(w, [task |-> "retry", next |-> 0, seen |-> Seen(S)])
    BY <1>8 DEF RetryStart
  <2>2. S \in SUBSET Notification
    BY BoundsAreCounts DEF Failed, TypeOK, Notification
  <2>3. Seen(S) \in [{m \in S : Here(m)} -> RowType] /\ {m \in S : Here(m)} \in SUBSET Notification
    BY <2>2, SeenType
  <2>4. 0 \notin {m \in S : Here(m)}
    BY <1>7, <2>2
  <2> QED
    BY <1>6, <1>7, <2>1, <2>3, <2>4
<1>9. ASSUME NEW w \in Worker, RetryEnqueue(w) PROVE Passes'
  <2>1. DOMAIN job[w].seen \in SUBSET Notification
    BY <1>9, JobOf DEF RetryEnqueue
  <2> DEFINE D == {m \in DOMAIN job[w].seen : Here(m)}
  <2>2. Seen(DOMAIN job[w].seen) \in [D -> RowType] /\ D \in SUBSET Notification
    BY <2>1, SeenType
  <2>3. 0 \notin D
    BY <1>7, <2>1
  <2>4. \/ Become(w, [task |-> "retry", next |-> 0, seen |-> Seen(DOMAIN job[w].seen)])
        \/ Become(w, Idle)
    BY <1>9 DEF RetryEnqueue
  <2> HIDE DEF D
  <2> QED
    BY <1>2, <1>6, <1>7, <2>2, <2>3, <2>4
<1>10. ASSUME NEW w \in Worker, NEW n \in Notification, RetryRow(w, n) PROVE Passes'
  <2> DEFINE D    == DOMAIN job[w].seen \ {n}
             rest == [m \in D |-> job[w].seen[m]]
  <2>1. n \in 0 .. MaxMade
    BY BoundsAreCounts DEF Notification
  <2>2. rest \in [D -> RowType] /\ D \in SUBSET Notification /\ n \notin D
    BY <1>10, JobOf DEF RetryRow
  <2>3. \/ Become(w, [task |-> "retry", next |-> n, seen |-> rest])
        \/ Become(w, Idle)
    BY <1>10 DEF RetryRow
  <2> HIDE DEF D, rest
  <2> QED
    BY <1>2, <1>6, <2>1, <2>2, <2>3
<1>11. ASSUME NEW w \in Worker, GroupStart(w) PROVE Passes'
  <2>1. [task |-> "group", left |-> Grouped, done |-> {}] \in Job
    <3>1. Grouped \in SUBSET Notification /\ {} \in SUBSET Notification
      BY BoundsAreCounts DEF Grouped, TypeOK, Notification
    <3> QED
      BY <3>1, JobTypes
  <2>2. OnceThrough([task |-> "group", left |-> Grouped, done |-> {}])
    BY DEF OnceThrough
  <2> QED
    BY <1>1, <1>11, <2>1, <2>2 DEF GroupStart
<1>12. ASSUME NEW w \in Worker, NEW n \in Notification, GroupEnqueue(w, n) PROVE Passes'
  <2> DEFINE j == [job[w] EXCEPT !.left = @ \ {n}, !.done = @ \cup {n}]
  <2>1. /\ j \in Job /\ j.task = "group"
        /\ j.left = job[w].left \ {n} /\ j.done = job[w].done \cup {n}
    BY <1>12, DoneType DEF GroupEnqueue
  <2>2. Become(w, j)
    BY <1>12 DEF GroupEnqueue
  <2>3. job[w].left \cap job[w].done = {}
    BY <1>12 DEF Passes, OnceThrough, GroupEnqueue, Does
  <2> HIDE DEF j
  <2>4. OnceThrough(j)
    BY <2>1, <2>3 DEF OnceThrough
  <2> QED
    BY <1>1, <2>1, <2>2, <2>4
<1>13. ASSUME NEW w \in Worker, CreateEnqueue(w) \/ SendEnd(w) \/ GroupEnd(w) \/ Lost(w) PROVE Passes'
  BY <1>2, <1>13 DEF CreateEnqueue, SendEnd, GroupEnd, Lost
<1>14. ASSUME \/ \E S \in SUBSET Notification : MarkRead(S)
              \/ \E m \in Notification : Delete(m)
              \/ Age \/ UNCHANGED vars
       PROVE  Passes'
  BY <1>3, <1>14 DEF MarkRead, Delete, Age, vars
<1> QED
  BY NextSteps, <1>4, <1>5, <1>8, <1>9, <1>10, <1>11, <1>12, <1>13, <1>14 DEF Steps

(* While nothing excuses a second delivery, at most one task or job is     *)
(* there for a notification, and none once the provider has taken it.      *)
Hold(w) == InHand(w) \cup Listed(w)
Fine(n) == fate[n] \in {"untaken", "taken"} /\ row[n].status # "DELETED"

Alone(n) == \A w, x \in Worker : n \in Hold(w) /\ n \in Hold(x) => w = x

Fits(n) ==
    \A w \in Worker :
        /\ n \in InHand(w) => row[n].status \in {"PENDING", "READ"}
        /\ Groups(w, n)    => row[n].status \in {"BATCHED", "READ"}
        /\ n \in Listed(w) /\ ~Groups(w, n) =>
               row[n].status \in {"FAILED", "READ"} /\ ~Stale(w, n)

OneTask(n) ==
    /\ queued[n] \in {0, 1}
    /\ queued[n] = 1 => \A w \in Worker : n \in Hold(w) => n \in Held(w)
    /\ queued[n] = 1 => row[n].status # "FAILED"
    /\ queued[n] = 1 /\ row[n].status = "BATCHED" => \E w \in Worker : n \in Held(w)

Free(n) == queued[n] = 0 /\ \A w \in Worker : n \notin Hold(w)

Done(n) ==
    fate[n] = "taken" => \/ \E w \in Worker : Takes(w, n)
                         \/ row[n].status \in {"SENT", "READ", "PENDING"} /\ Free(n)

Single(n) ==
    /\ Alone(n) /\ Fits(n) /\ OneTask(n) /\ Done(n)
    /\ row[n].status = "none" => Free(n)

DInv ==
    /\ Passes
    /\ DeliveredOnce
    /\ \A n \in Notification : Fine(n) => Single(n)

(* What a run has queued is on its list, and whom the provider has just    *)
(* answered is in the hand of the worker.                                  *)
LEMMA HeldIsListed ==
  ASSUME NEW w
  PROVE  Held(w) \subseteq Listed(w) /\ Held(w)' \subseteq Listed(w)'
BY DEF Held, Listed, Does

LEMMA TakesHold ==
  ASSUME NEW w, NEW n, Takes(w, n)
  PROVE  n \in Hold(w) /\ n \notin Held(w)
BY DEF Takes, Hold, InHand, Held, Does

(* The notification n is as it was, for this matter.                       *)
Kept(n) ==
    /\ row'[n].status = row[n].status /\ queued'[n] = queued[n] /\ fate'[n] \in {fate[n], "excused"}
    /\ \A w \in Worker : /\ n \in Hold(w)' => n \in Hold(w)
                         /\ n \in Held(w)' <=> n \in Held(w)
                         /\ n \in InHand(w)' => n \in InHand(w)
                         /\ n \in Listed(w)' => n \in Listed(w)
                         /\ n \in Listed(w)' => (Groups(w, n)' <=> Groups(w, n))
                         /\ n \in Listed(w)' /\ Stale(w, n)' =>
                               Stale(w, n) \/ row[n].status \notin {"FAILED", "READ"}
                         /\ Takes(w, n)' <=> Takes(w, n)

(* What is as it was stays single.                                         *)
LEMMA KeptSingle ==
  ASSUME NEW n \in Notification, Kept(n), fate[n] # "twice", Fine(n) => Single(n)
  PROVE  fate'[n] # "twice" /\ (Fine(n)' => Single(n)')
<1>1. fate'[n] # "twice"
  BY DEF Kept
<1>2. ASSUME Fine(n)' PROVE Single(n)'
  <2>1. Fine(n) /\ fate'[n] = fate[n] /\ Single(n)
    BY <1>2 DEF Fine, Kept
  <2>2. Alone(n)'
    BY <2>1 DEF Single, Kept, Alone
  <2>3. Fits(n)'
    <3>1. \A w \in Worker : Groups(w, n)' => n \in Listed(w)'
      BY DEF Groups
    <3> QED
      BY <2>1, <3>1 DEF Single, Kept, Fits
  <2>4. OneTask(n)'
    BY <2>1 DEF Single, Kept, OneTask
  <2>5. Free(n) => Free(n)'
    BY DEF Kept, Free
  <2>6. Done(n)'
    BY <2>1, <2>5 DEF Single, Kept, Done
  <2> QED
    BY <2>1, <2>2, <2>3, <2>4, <2>5, <2>6 DEF Single, Kept
<1> QED
  BY <1>1, <1>2

Settled(n) == fate'[n] # "twice" /\ (Fine(n)' => Single(n)')

(* DInv is kept when each notification is settled by the step.             *)
LEMMA AllSettled ==
  ASSUME TypeOK, DInv, [Next]_vars, \A n \in Notification : Settled(n)
  PROVE  DInv'
<1>1. Passes'
  BY PassesStep DEF DInv
<1> QED
  BY <1>1 DEF DInv, DeliveredOnce, Settled

(* A notification is settled by a step when the provider has not taken it  *)
(* twice then, and at most one task or job is left for it.  Each action    *)
(* settles each notification: those it does not touch are as they were.    *)
LEMMA CreateSettles ==
  ASSUME TypeOK, DInv, NEW w \in Worker, Create(w), NEW n \in Notification
  PROVE  Settled(n)
<1>1. CASE n # made + 1
  <2>1. Kept(n)
    BY <1>1, CreateEffect DEF Kept, Hold, Has, Gets, Same, Unchanged, RowsBut, Takes, Create, Does
  <2> QED
    BY <2>1, KeptSingle DEF DInv, DeliveredOnce, Settled
<1>2. CASE n = made + 1
  <2>1. fate'[n] = fate[n] /\ fate[n] # "twice"
    BY CreateEffect DEF DInv, DeliveredOnce
  <2>2. ASSUME Fine(n)' PROVE Single(n)'
    <3>1. Fine(n) /\ Single(n)
      BY <1>2, <2>1, <2>2, CreateEffect DEF Fine, DInv
    <3>2. ASSUME NEW x \in Worker PROVE n \notin Hold(x) /\ n \notin Held(x) /\ ~Takes(x, n)
      BY <1>2, <3>1, CreateEffect, HeldIsListed, TakesHold DEF Single, Free, Hold
    <3>3. ASSUME NEW x \in Worker, x # w
          PROVE  n \notin Hold(x)' /\ n \notin Held(x)' /\ n \notin Listed(x)' /\ n \notin InHand(x)'
      BY <3>2, <3>3, CreateEffect DEF Hold, Same, Unchanged
    <3>4. n \in Hold(w)' /\ n \notin Held(w)' /\ n \notin Listed(w)'
      BY <1>2, CreateEffect DEF Hold, Gets
    <3>5. queued'[n] = 0 /\ row'[n].status = "PENDING" /\ fate'[n] # "taken"
      BY <1>2, <2>1, <3>1, <3>2, CreateEffect DEF Single, Free, Done
    <3>6. Alone(n)'
      BY <3>3 DEF Alone
    <3>7. Fits(n)'
      <4>1. \A x \in Worker : n \notin Listed(x)' /\ ~Groups(x, n)'
        BY <3>3, <3>4 DEF Groups
      <4> QED
        BY <3>5, <4>1 DEF Fits
    <3>8. OneTask(n)' /\ Done(n)'
      BY <3>5 DEF OneTask, Done
    <3> QED
      BY <3>5, <3>6, <3>7, <3>8 DEF Single
  <2> QED
    BY <2>1, <2>2 DEF Settled
<1> QED
  BY <1>1, <1>2

LEMMA CreateEnqueueSettles ==
  ASSUME TypeOK, DInv, NEW w \in Worker, CreateEnqueue(w), NEW n \in Notification
  PROVE  Settled(n)
<1>1. CASE n # job[w].n
  <2>1. Kept(n)
    BY <1>1, CreateEnqueueEffect DEF Kept, Hold, Has, Gets, Same, Unchanged, TasksBut
  <2> QED
    BY <2>1, KeptSingle DEF DInv, DeliveredOnce, Settled
<1>2. CASE n = job[w].n
  <2>1. fate'[n] = fate[n] /\ fate[n] # "twice" /\ row' = row
    BY CreateEnqueueEffect DEF DInv, DeliveredOnce
  <2>2. ASSUME Fine(n)' PROVE Single(n)'
    <3>1. Fine(n) /\ Single(n)
      BY <2>1, <2>2 DEF Fine, DInv
    <3>2. n \in Hold(w) /\ n \in InHand(w) /\ n \notin Held(w) /\ ~Takes(w, n)
      BY <1>2, CreateEnqueueEffect DEF Hold, Has
    <3>3. queued[n] = 0 /\ row[n].status \in {"PENDING", "READ"}
      BY <3>1, <3>2 DEF Single, OneTask, Fits
    <3>4. ASSUME NEW x \in Worker PROVE n \notin Hold(x)' /\ ~Takes(x, n)
      <4>1. CASE x = w
        BY <3>2, <4>1, CreateEnqueueEffect DEF Hold, Gets
      <4>2. CASE x # w
        BY <3>1, <3>2, <4>2, TakesHold, CreateEnqueueEffect DEF Single, Alone, Hold, Same, Unchanged
      <4> QED
        BY <4>1, <4>2
    <3>5. queued'[n] = 1
      <4>1. queued'[job[w].n] = queued[job[w].n] + 1
        BY CreateEnqueueEffect
      <4> QED
        BY <1>2, <3>3, <4>1
    <3>6. fate[n] # "taken"
      BY <3>1, <3>2, <3>4 DEF Single, Done, Free
    <3>7. Alone(n)' /\ Fits(n)'
      BY <3>4 DEF Alone, Fits, Hold, Groups
    <3>8. OneTask(n)' /\ Done(n)'
      BY <2>1, <3>3, <3>4, <3>5, <3>6 DEF OneTask, Done
    <3> QED
      BY <2>1, <3>3, <3>7, <3>8 DEF Single
  <2> QED
    BY <2>1, <2>2 DEF Settled
<1> QED
  BY <1>1, <1>2

(* What a run has queued is on the list of process_grouped_notifications.  *)
LEMMA HeldGroups ==
  ASSUME NEW w, NEW n, n \in Held(w)
  PROVE  Groups(w, n) /\ n \in Hold(w)
BY DEF Held, Groups, Hold, Listed, Does

(* Those that are excused, and no others, change their fate.               *)
LEMMA ExcuseFate ==
  ASSUME TypeOK, NEW S, Excuse(S), NEW n \in Notification
  PROVE  /\ n \in S => fate'[n] = "excused"
         /\ n \notin S => fate'[n] = fate[n]
BY DEF Excuse

(* A notification that nobody has and that has no task is single.          *)
LEMMA FreeSingle ==
  ASSUME NEW n \in Notification, queued'[n] = 0, \A x \in Worker : n \notin Hold(x)',
         fate'[n] = "taken" => row'[n].status \in {"SENT", "READ", "PENDING"}
  PROVE  Single(n)'
<1>1. Free(n)'
  BY DEF Free
<1>2. Alone(n)' /\ OneTask(n)' /\ Done(n)'
  BY <1>1 DEF Alone, OneTask, Done, Free
<1>3. Fits(n)'
  BY DEF Fits, Hold, Groups
<1> QED
  BY <1>1, <1>2, <1>3 DEF Single

(* A worker that has n, or will queue it, is the only one and there is no  *)
(* task for n; unless it is sending n, the provider has not taken it.      *)
LEMMA OnlyHolder ==
  ASSUME TypeOK, DInv, NEW w \in Worker, NEW n \in Notification, Fine(n), n \in Hold(w)
  PROVE  /\ \A x \in Worker : x # w => n \notin Hold(x) /\ n \notin Held(x) /\ ~Takes(x, n)
         /\ n \notin Held(w) => queued[n] = 0
         /\ ~Takes(w, n) => fate[n] # "taken"
         /\ row[n].status # "none"
         /\ Single(n)
<1>1. Single(n)
  BY DEF DInv
<1>2. \A x \in Worker : x # w => n \notin Hold(x) /\ n \notin Held(x) /\ ~Takes(x, n)
  BY <1>1, HeldGroups, TakesHold DEF Single, Alone
<1>3. n \notin Held(w) => queued[n] = 0
  BY <1>1 DEF Single, OneTask
<1>4. ~Free(n)
  BY DEF Free
<1>5. ~Takes(w, n) => fate[n] # "taken"
  BY <1>1, <1>2, <1>4 DEF Single, Done
<1> QED
  BY <1>1, <1>2, <1>3, <1>4, <1>5 DEF Single

LEMMA SendStartSettles ==
  ASSUME TypeOK, DInv, NEW w \in Worker, NEW m \in Notification, SendStart(w, m), NEW n \in Notification
  PROVE  Settled(n)
<1>0. /\ queued[m] > 0 /\ queued'[m] = queued[m] - 1 /\ TasksBut(m) /\ row' = row
      /\ Ignored(w, m) \/ Asked(w, m)
  BY SendStartEffect
<1>1. CASE n # m
  <2>1. CASE Ignored(w, m)
    <3>1. Kept(n)
      BY <1>0, <1>1, <2>1 DEF Kept, Ignored, Hold, Same, TasksBut
    <3> QED
      BY <3>1, KeptSingle DEF DInv, DeliveredOnce, Settled
  <2>2. CASE Asked(w, m)
    <3>1. Kept(n)
      BY <1>0, <1>1, <2>2 DEF Kept, Asked, Hold, Has, Gets, Same, Unchanged, TasksBut, SendStart, Takes, Does
    <3> QED
      BY <3>1, KeptSingle DEF DInv, DeliveredOnce, Settled
  <2> QED
    BY <1>0, <2>1, <2>2
<1>2. CASE n = m /\ Ignored(w, m)
  <2>1. fate'[n] # "twice"
    BY <1>2 DEF Ignored, DInv, DeliveredOnce
  <2>2. ASSUME Fine(n)' PROVE Single(n)'
    <3>1. Fine(n) /\ Single(n)
      BY <1>0, <1>2, <2>2 DEF Fine, DInv, Ignored
    <3>2. queued'[n] = 0 /\ ~Free(n)
      BY <1>0, <1>2, <3>1 DEF Single, OneTask, Free
    <3>3. Alone(n)' /\ Fits(n)'
      BY <1>0, <1>2, <3>1 DEF Single, Alone, Fits, Ignored, Hold, Same
    <3>4. OneTask(n)'
      BY <3>2 DEF OneTask
    <3>5. Done(n)'
      BY <1>2, <3>1, <3>2 DEF Single, Done, Ignored, Same
    <3> QED
      BY <1>0, <3>1, <3>2, <3>3, <3>4, <3>5 DEF Single
  <2> QED
    BY <2>1, <2>2 DEF Settled
<1>3. CASE n = m /\ Asked(w, m)
  <2>1. ASSUME Fine(n), NEW x \in Worker PROVE n \notin Hold(x) /\ n \notin Held(x) /\ ~Takes(x, n)
    <3>1. Single(n) /\ row[n].status = "PENDING" /\ queued[n] = 1
      BY <1>0, <1>3, <2>1 DEF DInv, Single, OneTask, Asked
    <3>2. n \notin Held(x)
      BY <3>1, HeldGroups DEF Single, Fits
    <3> QED
      BY <3>1, <3>2, TakesHold DEF Single, OneTask
  <2>2. fate[n] # "taken"
    <3>1. SUFFICES ASSUME fate[n] = "taken" PROVE FALSE
      OBVIOUS
    <3>2. Fine(n)
      BY <1>3, <3>1 DEF Fine, Asked
    <3>3. Done(n)
      BY <3>2 DEF DInv, Single
    <3> QED
      BY <1>0, <1>3, <2>1, <3>1, <3>2, <3>3 DEF Done, Free
  <2>3. /\ fate'[n] # "twice"
        /\ fate'[n] = "taken" => Takes(w, n)'
        /\ fate'[n] \in {"untaken", "taken"} => fate[n] \in {"untaken", "taken"}
    <3>1. fate[n] \in {"untaken", "excused"}
      BY <2>2 DEF TypeOK, DInv, DeliveredOnce
    <3> QED
      BY <1>3, <3>1 DEF Asked
  <2>4. ASSUME Fine(n)' PROVE Single(n)'
    <3>1. Fine(n)
      BY <1>0, <2>3, <2>4 DEF Fine
    <3>2. queued'[n] = 0 /\ row'[n].status = "PENDING"
      BY <1>0, <1>3, <3>1 DEF DInv, Single, OneTask, Asked
    <3>3. ASSUME NEW x \in Worker, x # w
          PROVE  n \notin Hold(x)' /\ n \notin Listed(x)' /\ n \notin InHand(x)'
      BY <1>3, <2>1, <3>1, <3>3 DEF Asked, Hold, Same, Unchanged
    <3>4. n \notin Listed(w)'
      BY <1>3 DEF Asked, Gets
    <3>5. Alone(n)'
      BY <3>3 DEF Alone
    <3>6. Fits(n)'
      <4>1. \A x \in Worker : n \notin Listed(x)' /\ ~Groups(x, n)'
        BY <3>3, <3>4 DEF Groups
      <4> QED
        BY <3>2, <4>1 DEF Fits
    <3>7. OneTask(n)' /\ Done(n)'
      BY <2>3, <3>2 DEF OneTask, Done
    <3> QED
      BY <3>2, <3>5, <3>6, <3>7 DEF Single
  <2> QED
    BY <2>3, <2>4 DEF Settled
<1> QED
  BY <1>0, <1>1, <1>2, <1>3

LEMMA SendEndSettles ==
  ASSUME TypeOK, DInv, NEW w \in Worker, SendEnd(w), NEW n \in Notification
  PROVE  Settled(n)
<1>1. CASE n # job[w].n
  <2>1. Kept(n)
    BY <1>1, SendEndEffect DEF Kept, Hold, Has, Gets, Same, Unchanged, RowsBut
  <2> QED
    BY <2>1, KeptSingle DEF DInv, DeliveredOnce, Settled
<1>2. CASE n = job[w].n
  <2>1. fate' = fate /\ queued' = queued /\ fate'[n] # "twice"
    BY SendEndEffect DEF DInv, DeliveredOnce
  <2>2. ASSUME Fine(n)' PROVE Single(n)'
    <3>1. n \in Hold(w) /\ n \in InHand(w) /\ n \notin Held(w)
      BY <1>2, SendEndEffect DEF Hold, Has
    <3>2. row[n].status # "DELETED"
      BY <1>2, <2>2, SendEndEffect DEF Fine, Here
    <3>3. Fine(n)
      BY <2>1, <2>2, <3>2 DEF Fine
    <3>4. /\ \A x \in Worker : x # w => n \notin Hold(x)
          /\ queued[n] = 0 /\ row[n].status \in {"PENDING", "READ"}
          /\ ~Takes(w, n) => fate[n] # "taken"
      BY <3>1, <3>3, OnlyHolder DEF Single, Fits
    <3>5. \A x \in Worker : n \notin Hold(x)'
      BY <3>4, SendEndEffect DEF Hold, Gets, Same, Unchanged
    <3>6. fate'[n] = "taken" => row'[n].status \in {"SENT", "READ", "PENDING"}
      BY <1>2, <2>1, <3>4, SendEndEffect
    <3> QED
      BY <2>1, <3>4, <3>5, <3>6, FreeSingle
  <2> QED
    BY <2>1, <2>2 DEF Settled
<1> QED
  BY <1>1, <1>2

(* A periodic run lists the notifications D, all of one status; those that *)
(* a worker has or has listed are excused.                                 *)
LEMMA ListingSettles ==
  ASSUME TypeOK, DInv, NEW w \in Worker, NEW S, NEW D \in SUBSET S,
         row' = row, queued' = queued, Excuse(Overlapping(S)),
         Has(w, {}, {}, {}), Gets(w, {}, {}, D), Unchanged(w), \A m : ~Takes(w, m)',
         NEW n \in Notification,
         n \in D => \/ row[n].status = "FAILED" /\ ~Groups(w, n)' /\ ~Stale(w, n)'
                    \/ row[n].status = "BATCHED" /\ Groups(w, n)'
  PROVE  Settled(n)
<1>1. fate'[n] \in {fate[n], "excused"} /\ fate[n] # "twice"
  BY ExcuseFate DEF DInv, DeliveredOnce
<1>2. CASE n \notin D
  <2>1. ~Takes(w, n)
    BY TakesHold DEF Has, Hold
  <2>2. Kept(n)
    BY <1>1, <1>2, <2>1 DEF Kept, Hold, Has, Gets, Same, Unchanged
  <2> QED
    BY <1>1, <2>2, KeptSingle DEF DInv, Settled
<1>3. CASE n \in D
  <2>1. ASSUME Fine(n)' PROVE Single(n)'
    <3>1. fate'[n] # "excused"
      BY <2>1 DEF Fine
    <3>2. n \notin Overlapping(S) /\ fate'[n] = fate[n]
      BY <3>1, ExcuseFate
    <3>3. \A x \in Worker : n \notin Hold(x) /\ n \notin Held(x) /\ ~Takes(x, n)
      BY <1>3, <3>2, HeldIsListed, TakesHold DEF Overlapping, Hold
    <3>4. Fine(n) /\ Single(n)
      BY <2>1, <3>2 DEF Fine, DInv
    <3>5. queued[n] = 0
      BY <1>3, <3>3, <3>4 DEF Single, OneTask
    <3>6. fate[n] # "taken"
      BY <1>3, <3>3, <3>4 DEF Single, Done
    <3>7. ASSUME NEW x \in Worker, x # w
          PROVE  n \notin Hold(x)' /\ n \notin Listed(x)' /\ n \notin InHand(x)' /\ ~Groups(x, n)'
      BY <3>3, <3>7 DEF Hold, Same, Unchanged, Groups
    <3>8. n \notin InHand(w)' /\ n \in Listed(w)'
      BY <1>3 DEF Gets
    <3>9. Alone(n)'
      BY <3>7 DEF Alone
    <3>10. Fits(n)'
      BY <1>3, <3>7, <3>8 DEF Fits
    <3>11. OneTask(n)' /\ Done(n)'
      BY <3>2, <3>5, <3>6 DEF OneTask, Done
    <3> QED
      BY <1>3, <3>9, <3>10, <3>11 DEF Single
  <2> QED
    BY <1>1, <2>1 DEF Settled
<1> QED
  BY <1>2, <1>3

(* The two periodic runs list the failed and the batched.                  *)
LEMMA StartSettles ==
  ASSUME TypeOK, DInv, NEW w \in Worker, RetryStart(w) \/ GroupStart(w), NEW n \in Notification
  PROVE  Settled(n)
<1>1. CASE RetryStart(w)
  <2>1. PICK S \in SUBSET Failed :
           Excuse(Overlapping(S)) /\ \E D \in SUBSET S : Gets(w, {}, {}, D)
    BY <1>1, RetryStartEffect
  <2>2. PICK D \in SUBSET S : Gets(w, {}, {}, D)
    BY <2>1
  <2>3. n \in D => row[n].status = "FAILED" /\ ~Groups(w, n)' /\ ~Stale(w, n)'
    BY <1>1, RetryStartEffect DEF Failed
  <2> QED
    BY <1>1, <2>1, <2>2, <2>3, RetryStartEffect, ListingSettles
<1>2. CASE GroupStart(w)
  <2>1. n \in Grouped => row[n].status = "BATCHED" /\ Groups(w, n)'
    BY <1>2, GroupStartEffect DEF Grouped, Gets
  <2>2. Grouped \in SUBSET Grouped
    OBVIOUS
  <2> QED
    BY <1>2, <2>1, <2>2, GroupStartEffect, ListingSettles
<1> QED
  BY <1>1, <1>2

LEMMA RetryRowSettles ==
  ASSUME TypeOK, DInv, NEW w \in Worker, NEW m \in Notification, RetryRow(w, m),
         NEW n \in Notification
  PROVE  Settled(n)
<1>1. fate'[n] = fate[n] /\ fate[n] # "twice"
  BY RetryRowEffect DEF DInv, DeliveredOnce
<1>2. CASE n # m
  <2>1. Kept(n)
    BY <1>2, RetryRowEffect DEF Kept, Hold, Has, Gets, Same, Unchanged, RowsBut
  <2> QED
    BY <1>1, <2>1, KeptSingle DEF DInv, Settled
<1>3. CASE n = m
  <2>1. ASSUME Fine(n)' PROVE Single(n)'
    <3>1. n \in Listed(w) /\ n \in Hold(w) /\ n \notin Held(w) /\ ~Takes(w, n) /\ ~Groups(w, n)
      BY <1>3, RetryRowEffect DEF Has, Hold
    <3>2. Fine(n)
      <4>1. row[n].status = "DELETED" => row' = row
        BY <1>3, RetryRowEffect DEF Here
      <4> QED
        BY <1>1, <2>1, <4>1 DEF Fine
    <3>3. /\ \A x \in Worker : x # w => n \notin Hold(x)
          /\ queued[n] = 0 /\ fate[n] # "taken" /\ row[n].status # "none"
          /\ ~Stale(w, n)
      BY <3>1, <3>2, OnlyHolder DEF Single, Fits
    <3>4. Here(n)
      BY <3>2, <3>3 DEF Fine, Here
    <3>5. row'[n].status = "PENDING" /\ Gets(w, {n}, {}, DOMAIN job[w].seen \ {n}) /\ queued'[n] = 0
      BY <1>3, <3>3, <3>4, RetryRowEffect
    <3>6. ASSUME NEW x \in Worker, x # w PROVE n \notin Hold(x)' /\ n \notin Listed(x)'
      BY <3>3, <3>6, RetryRowEffect DEF Hold, Same, Unchanged
    <3>7. n \notin Listed(w)'
      BY <3>5 DEF Gets
    <3>8. Alone(n)'
      BY <3>6 DEF Alone
    <3>9. Fits(n)'
      <4>1. \A x \in Worker : n \notin Listed(x)' /\ ~Groups(x, n)'
        BY <3>6, <3>7 DEF Groups
      <4> QED
        BY <3>5, <4>1 DEF Fits
    <3>10. OneTask(n)' /\ Done(n)'
      BY <1>1, <3>3, <3>5 DEF OneTask, Done
    <3> QED
      BY <3>5, <3>8, <3>9, <3>10 DEF Single
  <2> QED
    BY <1>1, <2>1 DEF Settled
<1> QED
  BY <1>2, <1>3

LEMMA RetryEnqueueSettles ==
  ASSUME TypeOK, DInv, NEW w \in Worker, RetryEnqueue(w), NEW n \in Notification
  PROVE  Settled(n)
<1>0. PICK D \in SUBSET DOMAIN job[w].seen : Gets(w, {}, {}, D)
  BY RetryEnqueueEffect
<1>1. fate'[n] = fate[n] /\ fate[n] # "twice" /\ row' = row
  BY RetryEnqueueEffect DEF DInv, DeliveredOnce
<1>2. CASE n # job[w].next
  <2>1. queued'[n] = queued[n]
    BY <1>2, RetryEnqueueEffect DEF TasksBut
  <2>2. Kept(n)
    BY <1>0, <1>1, <1>2, <2>1, RetryEnqueueEffect DEF Kept, Hold, Has, Gets, Same, Unchanged
  <2> QED
    BY <1>1, <2>2, KeptSingle DEF DInv, Settled
<1>3. CASE n = job[w].next
  <2>1. ASSUME Fine(n)' PROVE Single(n)'
    <3>1. Fine(n)
      BY <1>1, <2>1 DEF Fine
    <3>2. n \in InHand(w) /\ n \in Hold(w) /\ n \notin Held(w) /\ ~Takes(w, n)
      BY <1>3, RetryEnqueueEffect DEF Has, Hold
    <3>3. /\ \A x \in Worker : x # w => n \notin Hold(x)
          /\ queued[n] = 0 /\ fate[n] # "taken" /\ row[n].status # "none"
          /\ row[n].status \in {"PENDING", "READ"}
      BY <3>1, <3>2, OnlyHolder DEF Single, Fits
    <3>4. Here(n)
      BY <3>1, <3>3 DEF Fine, Here
    <3>5. queued'[n] = 1
      <4>1. queued'[job[w].next] = queued[job[w].next] + 1
        BY <1>3, <3>4, RetryEnqueueEffect
      <4> QED
        BY <1>3, <3>3, <4>1
    <3>6. n \notin DOMAIN job[w].seen
      BY <1>3 DEF DInv, Passes, OnceThrough, RetryEnqueue, Does
    <3>7. ASSUME NEW x \in Worker PROVE n \notin Hold(x)'
      BY <1>0, <3>3, <3>6, RetryEnqueueEffect DEF Hold, Gets, Same, Unchanged
    <3>8. Alone(n)' /\ Fits(n)'
      BY <3>7 DEF Alone, Fits, Hold, Groups
    <3>9. OneTask(n)' /\ Done(n)'
      BY <1>1, <3>3, <3>5, <3>7 DEF OneTask, Done
    <3> QED
      BY <1>1, <3>3, <3>8, <3>9 DEF Single
  <2> QED
    BY <1>1, <2>1 DEF Settled
<1> QED
  BY <1>2, <1>3

LEMMA GroupEnqueueSettles ==
  ASSUME TypeOK, DInv, NEW w \in Worker, NEW m \in Notification, GroupEnqueue(w, m),
         NEW n \in Notification
  PROVE  Settled(n)
<1>1. fate'[n] = fate[n] /\ fate[n] # "twice" /\ row' = row
  BY GroupEnqueueEffect DEF DInv, DeliveredOnce
<1>2. CASE n # m
  <2>1. Kept(n)
    BY <1>1, <1>2, GroupEnqueueEffect DEF Kept, Hold, Has, Gets, Same, Unchanged, TasksBut
  <2> QED
    BY <1>1, <2>1, KeptSingle DEF DInv, Settled
<1>3. CASE n = m
  <2>1. ASSUME Fine(n)' PROVE Single(n)'
    <3>1. Fine(n)
      BY <1>1, <2>1 DEF Fine
    <3>2. n \in Listed(w) /\ n \in Hold(w) /\ Groups(w, n) /\ ~Takes(w, n)
      BY <1>3, GroupEnqueueEffect DEF Has, Hold
    <3>3. n \notin Held(w)
      <4>1. job[w].left \cap job[w].done = {} /\ n \in job[w].left
        BY <1>3, GroupEnqueueEffect DEF DInv, Passes, OnceThrough, GroupEnqueue, Does
      <4> QED
        BY <4>1, GroupEnqueueEffect DEF Has
    <3>4. /\ \A x \in Worker : x # w => n \notin Hold(x)
          /\ queued[n] = 0 /\ fate[n] # "taken" /\ row[n].status # "none"
          /\ row[n].status \in {"BATCHED", "READ"}
      BY <3>1, <3>2, <3>3, OnlyHolder DEF Single, Fits
    <3>5. queued'[n] = 1
      <4>1. queued'[m] = queued[m] + 1
        BY GroupEnqueueEffect
      <4> QED
        BY <1>3, <3>4, <4>1
    <3>6. n \notin InHand(w)' /\ n \in Held(w)' /\ Groups(w, n)'
      <4>1. /\ Gets(w, {}, job[w].done \cup {m}, job[w].left \cup job[w].done)
            /\ m \in job[w].left
        BY GroupEnqueueEffect
      <4>2. m \in Held(w)' /\ m \notin InHand(w)' /\ m \in Listed(w)'
        BY <4>1 DEF Gets
      <4>3. Groups(w, m)'
        BY <4>2, GroupEnqueueEffect
      <4> QED
        BY <1>3, <4>2, <4>3
    <3>7. ASSUME NEW x \in Worker, x # w
          PROVE  n \notin Hold(x)' /\ n \notin Listed(x)' /\ n \notin InHand(x)' /\ ~Groups(x, n)'
      BY <3>4, <3>7, GroupEnqueueEffect DEF Hold, Same, Unchanged, Groups
    <3>8. Alone(n)'
      BY <3>7 DEF Alone
    <3>9. Fits(n)'
      BY <1>1, <3>4, <3>6, <3>7 DEF Fits
    <3>10. OneTask(n)' /\ Done(n)'
      BY <1>1, <3>4, <3>5, <3>6, <3>7 DEF OneTask, Done
    <3> QED
      BY <1>1, <3>4, <3>8, <3>9, <3>10 DEF Single
  <2> QED
    BY <1>1, <2>1 DEF Settled
<1> QED
  BY <1>2, <1>3

LEMMA GroupEndSettles ==
  ASSUME TypeOK, DInv, NEW w \in Worker, GroupEnd(w), NEW n \in Notification
  PROVE  Settled(n)
<1>1. fate'[n] \in {fate[n], "excused"} /\ fate[n] # "twice" /\ queued'[n] = queued[n]
  BY GroupEndEffect, ExcuseFate DEF DInv, DeliveredOnce
<1>2. CASE n \notin job[w].done
  <2>1. Kept(n)
    BY <1>1, <1>2, GroupEndEffect DEF Kept, Hold, Has, Gets, Same, Unchanged
  <2> QED
    BY <1>1, <2>1, KeptSingle DEF DInv, Settled
<1>3. CASE n \in job[w].done
  <2>1. ASSUME Fine(n)' PROVE Single(n)'
    <3>1. Here(n) /\ row'[n].status = "PENDING" /\ fate' = fate
      <4>1. fate'[n] # "excused"
        BY <2>1 DEF Fine
      <4> QED
        BY <1>3, <4>1, GroupEndEffect, ExcuseFate
    <3>2. Fine(n)
      BY <2>1, <3>1 DEF Fine, Here
    <3>3. n \in Held(w) /\ n \in Hold(w) /\ ~Takes(w, n)
      BY <1>3, GroupEndEffect DEF Has, Hold
    <3>4. /\ \A x \in Worker : x # w => n \notin Hold(x)
          /\ queued[n] \in {0, 1} /\ fate[n] # "taken"
      BY <3>2, <3>3, OnlyHolder DEF Single, OneTask
    <3>5. \A x \in Worker : n \notin Hold(x)'
      BY <3>4, GroupEndEffect DEF Hold, Gets, Same, Unchanged
    <3>6. Alone(n)' /\ Fits(n)'
      BY <3>5 DEF Alone, Fits, Hold, Groups
    <3>7. OneTask(n)' /\ Done(n)'
      BY <1>1, <3>1, <3>4, <3>5 DEF OneTask, Done
    <3> QED
      BY <3>1, <3>6, <3>7 DEF Single
  <2> QED
    BY <1>1, <2>1 DEF Settled
<1> QED
  BY <1>2, <1>3

LEMMA LostSettles ==
  ASSUME TypeOK, DInv, NEW w \in Worker, Lost(w), NEW n \in Notification
  PROVE  Settled(n)
<1>1. /\ fate'[n] \in {fate[n], "excused"} /\ fate[n] # "twice"
      /\ row' = row /\ queued' = queued
  BY LostEffect, ExcuseFate DEF DInv, DeliveredOnce
<1>2. CASE n \in Held(w)
  <2>1. fate'[n] = "excused"
    BY <1>2, LostEffect, ExcuseFate
  <2> QED
    BY <2>1 DEF Settled, Fine
<1>3. CASE Takes(w, n)
  <2>1. ASSUME Fine(n)' PROVE Single(n)'
    <3>1. Fine(n) /\ n \in Hold(w) /\ n \in InHand(w) /\ n \notin Held(w)
      <4>1. fate'[n] = fate[n]
        BY <1>1, <2>1 DEF Fine
      <4> QED
        BY <1>1, <1>3, <2>1, <4>1, TakesHold DEF Fine, Takes, InHand, Does
    <3>2. /\ \A x \in Worker : x # w => n \notin Hold(x)
          /\ queued[n] = 0 /\ row[n].status \in {"PENDING", "READ"}
      BY <3>1, OnlyHolder DEF Single, Fits
    <3>3. \A x \in Worker : n \notin Hold(x)'
      BY <3>2, LostEffect DEF Hold, Gets, Same, Unchanged
    <3> QED
      BY <1>1, <3>2, <3>3, FreeSingle
  <2> QED
    BY <1>1, <2>1 DEF Settled
<1>4. CASE n \notin Held(w) /\ ~Takes(w, n)
  <2>1. Kept(n)
    BY <1>1, <1>4, LostEffect DEF Kept, Hold, Gets, Same, Unchanged
  <2> QED
    BY <1>1, <2>1, KeptSingle DEF DInv, Settled
<1> QED
  BY <1>2, <1>3, <1>4

LEMMA MarkReadSettles ==
  ASSUME TypeOK, DInv, NEW S \in SUBSET Notification, MarkRead(S), NEW n \in Notification
  PROVE  Settled(n)
<1>1. /\ fate' = fate /\ fate[n] # "twice" /\ queued' = queued
      /\ \A x \in Worker : Same(x)
  BY MarkReadEffect DEF DInv, DeliveredOnce
<1>2. CASE row'[n] = row[n]
  <2>1. Kept(n)
    BY <1>1, <1>2 DEF Kept, Hold, Same
  <2> QED
    BY <1>1, <2>1, KeptSingle DEF DInv, Settled
<1>3. CASE Here(n) /\ row'[n].status = "READ"
  <2>1. ASSUME Fine(n)' PROVE Single(n)'
    <3>1. Single(n)
      BY <1>1, <1>3, <2>1 DEF Fine, Here, DInv
    <3>2. Alone(n)' /\ Fits(n)' /\ OneTask(n)'
      BY <1>1, <1>3, <3>1 DEF Single, Alone, Fits, OneTask, Hold, Same
    <3>3. Done(n)'
      BY <1>1, <1>3, <3>1 DEF Single, Done, Free, Hold, Same
    <3> QED
      BY <1>3, <3>2, <3>3 DEF Single
  <2> QED
    BY <1>1, <2>1 DEF Settled
<1> QED
  BY <1>2, <1>3, MarkReadEffect

LEMMA DeleteSettles ==
  ASSUME TypeOK, DInv, NEW m \in Notification, Delete(m), NEW n \in Notification
  PROVE  Settled(n)
<1>1. CASE n = m
  <2>1. fate'[n] = "untaken" /\ row'[n].status = "DELETED"
    BY <1>1, DeleteEffect DEF TypeOK
  <2> QED
    BY <2>1 DEF Settled, Fine
<1>2. CASE n # m
  <2>1. fate'[n] = fate[n] /\ row'[n].status = row[n].status
    BY <1>2, DeleteEffect DEF TypeOK
  <2>2. Kept(n)
    BY <2>1, DeleteEffect DEF Kept, Hold, Same
  <2> QED
    BY <2>1, <2>2, KeptSingle DEF DInv, DeliveredOnce, Settled
<1> QED
  BY <1>1, <1>2

(* Every step keeps DInv.                                                  *)
LEMMA DInvStep ==
  ASSUME TypeOK, DInv, [Next]_vars
  PROVE  DInv'
<1>1. ASSUME Age \/ UNCHANGED vars, NEW n \in Notification PROVE Settled(n)
  <2>1. row' = row /\ queued' = queued /\ fate' = fate /\ \A x \in Worker : Same(x)
    BY <1>1, SameJob DEF Age, vars, history
  <2>2. Kept(n)
    BY <2>1 DEF Kept, Hold, Same
  <2> QED
    BY <2>2, KeptSingle DEF DInv, DeliveredOnce, Settled
<1>2. \A n \in Notification : Settled(n)
  BY NextSteps, <1>1, CreateSettles, CreateEnqueueSettles, SendStartSettles, SendEndSettles,
     StartSettles, RetryRowSettles, RetryEnqueueSettles, GroupEnqueueSettles, GroupEndSettles,
     LostSettles, MarkReadSettles, DeleteSettles DEF Steps
<1> QED
  BY <1>2, AllSettled

(* The provider takes no notification twice (DeliveredOnce), with any      *)
(* number of workers, tasks and overlapping runs: besides the excuses at   *)
(* most one task or job is there for a notification at a time, and a       *)
(* worker that has been answered commits a status other than PENDING or    *)
(* loses the job, after which no task is left that would ask again.        *)
THEOREM NeverTakenTwice == Spec => []DeliveredOnce
<1>1. Init => DInv
  <2>1. ASSUME Init, NEW n \in Notification PROVE Single(n)
    <3>1. /\ queued[n] = 0 /\ fate[n] = "untaken"
          /\ \A w \in Worker : n \notin Hold(w) /\ ~Groups(w, n)
      BY <2>1 DEF Init, Hold, InHand, Listed, Groups, Does
    <3> QED
      BY <3>1 DEF Single, Alone, Fits, OneTask, Done, Free, Hold
  <2>2. Init => Passes /\ DeliveredOnce
    BY DEF Init, Passes, OnceThrough, DeliveredOnce
  <2> QED
    BY <2>1, <2>2 DEF DInv
<1>2. DInv => DeliveredOnce
  BY DEF DInv
<1> QED
  BY <1>1, <1>2, TypeCorrect, DInvStep, PTL DEF Spec
=============================================================================
