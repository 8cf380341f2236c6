---------------------------- MODULE OfflineQueue ----------------------------
(***************************************************************************)
(* The mobile app's queue of requests made while offline                   *)
(* (OfflineQueueManager), the HTTP client that feeds it and sends its      *)
(* requests, AsyncStorage that keeps it over restarts, and NetInfo.        *)
(*                                                                         *)
(* Grain: the app is one JavaScript thread, so what runs between two       *)
(* awaits is one action; calls of addToQueue, processQueue and             *)
(* retryFailedRequests interleave at their awaits.  A Task is one such     *)
(* call under way (addToQueue goes on as the processQueue it calls).       *)
(* AsyncStorage performs the setItem calls one after the other, in the     *)
(* order of the calls, some time later.                                    *)
(***************************************************************************)
EXTENDS Naturals, Sequences, FiniteSets

CONSTANTS
    Task,              \* the calls there can be at a time
    MaxEntries,        \* the requests ever queued
    MaxRetries,        \* MAX_RETRIES
    MaxLinkChanges, MaxFaults, MaxEdits,
    MaxDisturbances,   \* how many of these there are in all
    None

ASSUME SomeTasks == IsFiniteSet(Task)
ASSUME SomeRetries == MaxRetries \in Nat \ {0} /\ MaxEntries \in Nat

VARIABLES
    queue,             \* this.queue, the ids of its requests
    retry,             \* retry[e]: retryCount of request e
    made,              \* the ids given are 1 to made
    isProcessing,
    isOnline,          \* what the last NetInfo event said
    loading,           \* loadQueue has not set this.queue yet
    loaded,            \* what its getItem found
    call,              \* call[t]: what task t is doing
    stored,            \* the AsyncStorage item; None: there is none
    writes,            \* setItem calls not performed yet
    link,              \* there is a connection
    event,             \* a NetInfo event is on its way
    changes, faults, edits,
    processed,         \* history: requests the server has processed
    answered,          \* history: those whose success the app has heard of
    accepted,          \* history: requests whose addToQueue has saved them
    removed,           \* history: requests the user removed
    blame,             \* history: mishaps that can drop or reorder requests
    excused            \* history: a reason to leave the queue waiting

memory  == <<queue, retry, made, isProcessing, isOnline, loading, loaded>>
storage == <<stored, writes>>
world   == <<link, event, changes, faults, edits>>
past    == <<processed, answered, accepted, removed, blame>>
vars    == <<memory, call, storage, world, past, excused>>

Entry == 1..MaxEntries
Snapshots == Seq([id : Entry, retry : Nat])     \* what JSON.stringify makes of queues

ASSUME NoneIsNothing == None \notin Task /\ None \notin Snapshots

(* "loop" is the head of processQueue's while, "exec" its request under    *)
(* way, "clone" the same while the interceptor adds a copy of it.          *)
InLoop == {"loop", "exec", "clone", "shiftSave"}
Step == InLoop \cup {"idle", "addSave", "addFetch", "fetch", "retrySave", "retryTail"}
Idle == [at |-> "idle", req |-> 0, copier |-> None]

(* The app's first start: nothing is stored. *)
Init ==
    /\ queue = <<>> /\ retry = [e \in Entry |-> 0] /\ made = 0
    /\ isProcessing = FALSE /\ isOnline = TRUE
    /\ loading = TRUE /\ loaded = None
    /\ call = [t \in Task |-> Idle]
    /\ stored = None /\ writes = <<>>
    /\ link \in BOOLEAN /\ event = TRUE
    /\ changes = 0 /\ faults = 0 /\ edits = 0
    /\ processed = {} /\ answered = {} /\ accepted = {} /\ removed = {}
    /\ blame = {} /\ excused = FALSE

-----------------------------------------------------------------------------
(* Helpers. *)

Ids(q) == {q[i] : i \in DOMAIN q}
IdsOf(snapshot) == [i \in DOMAIN snapshot |-> snapshot[i].id]

(* Array.filter: what is not in S, in its order. *)
Without(q, S) ==
    LET kept[n \in 0..Len(q)] ==
          IF n = 0 THEN <<>>
          ELSE IF q[n] \in S THEN kept[n - 1] ELSE Append(kept[n - 1], q[n])
    IN  kept[Len(q)]

(* Mutant: the request is only read. *)
ShiftNothing(q) == q

(* Array.shift: the head goes, whatever it is; nothing on an empty array. *)
Shift(q) == IF q = <<>> THEN q ELSE Tail(q)

(* saveQueue by task t (None: nobody waits for it) of the new queue. *)
Save(t) ==
    writes' = Append(writes, [by |-> t,
        snap |-> [i \in DOMAIN queue' |-> [id |-> queue'[i], retry |-> retry'[queue'[i]]]]])

(* The bounds on what disturbs the queue: one of a kind n can occur. *)
Allowed(n, max) == n < max /\ changes + faults + edits < MaxDisturbances

At(t, step) == call[t].at = step
Goto(t, step) == call' = [call EXCEPT ![t].at = step]
End(t) == call' = [call EXCEPT ![t] = Idle]

Looping == {t \in Task : call[t].at \in InLoop}

(* The mishaps: drains that overlap; the request being sent is removed;    *)
(* AsyncStorage fails; the queue is changed before it was loaded.          *)
Mishap(name, happened) == IF happened THEN {name} ELSE {}
Early == Mishap("early", loading)
Blame(mishaps) == blame' = blame \cup mishaps

-----------------------------------------------------------------------------
(* addToQueue *)

(* A new request is pushed, and task t waits for the save. *)
Push(t) ==
    /\ made < MaxEntries /\ made' = made + 1
    /\ queue' = Append(queue, made + 1)
    /\ retry' = retry
    /\ Save(t)
    /\ Blame(Early)

Adding(e) == [Idle EXCEPT !.at = "addSave", !.req = e]

AddToQueue(t) ==
    /\ At(t, "idle")
    /\ Push(t)
    /\ call' = [call EXCEPT ![t] = Adding(made + 1)]
    /\ UNCHANGED <<isProcessing, isOnline, loading, loaded, stored, world,
                   processed, answered, accepted, removed, excused>>

(* processQueue's first check. *)
Runnable == ~isProcessing /\ queue # <<>>

(* Mutant: only the first request in the queue starts a drain. *)
StartsAfterFirst == link /\ Runnable /\ Len(queue) = 1

StartsAfterAdd == link /\ Runnable

(* NetInfo.fetch has answered: call processQueue unless one is running.    *)
(* An interceptor that awaits this call goes on.                           *)
AddTail(t) ==
    /\ At(t, "addFetch")
    /\ LET next == [Idle EXCEPT !.at = IF StartsAfterAdd THEN "fetch" ELSE "idle"] IN
       call' = [u \in Task |-> IF u = t THEN next
                               ELSE IF call[u].copier = t THEN [call[u] EXCEPT !.copier = None]
                               ELSE call[u]]
    /\ excused' = (excused \/ ~link)
    /\ UNCHANGED <<memory, storage, world, past>>

-----------------------------------------------------------------------------
(* processQueue *)

(* A call from the user interface. *)
ProcessQueue(t) ==
    /\ At(t, "idle") /\ Runnable
    /\ Goto(t, "fetch")
    /\ UNCHANGED <<memory, storage, world, past, excused>>

(* NetInfo.fetch has answered: isProcessing is set without a second look. *)
Fetched(t) ==
    /\ At(t, "fetch")
    /\ isProcessing' = (isProcessing \/ link)
    /\ Goto(t, IF link THEN "loop" ELSE "idle")
    /\ Blame(Mishap("overlap", link /\ Looping # {}))
    /\ excused' = ~link
    /\ UNCHANGED <<queue, retry, made, isOnline, loading, loaded, storage, world,
                   processed, answered, accepted, removed>>

(* Mutant: the newest request is sent. *)
NewestRequest == queue[Len(queue)]

NextRequest == Head(queue)

(* The while: the head is sent, or the loop ends. *)
LoopSends(t) ==
    /\ At(t, "loop") /\ queue # <<>>
    /\ call' = [call EXCEPT ![t].at = "exec", ![t].req = NextRequest]
    /\ UNCHANGED <<memory, storage, world, past, excused>>

LoopEnds(t) ==
    /\ At(t, "loop") /\ queue = <<>>
    /\ End(t)
    /\ isProcessing' = FALSE
    /\ UNCHANGED <<queue, retry, made, isOnline, loading, loaded, storage, world,
                   past, excused>>

(* Mutant: the save is forgotten. *)
ShiftOnly(t) ==
    /\ queue' = Shift(queue)
    /\ writes' = writes
    /\ call' = [call EXCEPT ![t] = [Idle EXCEPT !.at = "loop"]]

(* queue.shift() and the save that follows it. *)
ShiftAndSave(t) ==
    /\ queue' = Shift(queue)
    /\ Save(t)
    /\ call' = [call EXCEPT ![t] = [Idle EXCEPT !.at = "shiftSave"]]

(* The server processed the request and its answer arrived. *)
ExecOk(t) ==
    /\ At(t, "exec") /\ link
    /\ processed' = processed \cup {call[t].req}
    /\ answered' = answered \cup {call[t].req}
    /\ retry' = retry
    /\ ShiftAndSave(t)
    /\ UNCHANGED <<made, isProcessing, isOnline, loading, loaded, stored, world,
                   accepted, removed, blame, excused>>

(* Mutants: a request is given up at its first failure, or never; the flag *)
(* stays set.                                                              *)
GivesUpAtOnce(e) == TRUE
GivesUpNever(e) == FALSE
StopKeepsFlag == UNCHANGED isProcessing

GivesUp(e) == retry'[e] >= MaxRetries
Stop == isProcessing' = FALSE

(* What processQueue does when the request has failed: give it up after    *)
(* maxRetries, else leave the loop without saving the count.               *)
Failed(t) ==
    LET e == call[t].req IN
    /\ retry' = [retry EXCEPT ![e] = @ + 1]
    /\ \/ /\ GivesUp(e)
          /\ ShiftAndSave(t)
          /\ UNCHANGED <<isProcessing, excused>>
       \/ /\ ~GivesUp(e)
          /\ Stop /\ End(t)
          /\ excused' = TRUE
          /\ UNCHANGED <<queue, writes>>
    /\ UNCHANGED <<made, isOnline, loading, loaded, stored, world,
                   answered, accepted, removed, blame>>

(* The request fails, processed by the server all the same (its answer was *)
(* lost) or not, and the interceptor leaves it at that: the client         *)
(* believes it is online, or the method is GET.                            *)
ExecFails(t) ==
    /\ At(t, "exec")
    /\ processed' \in {processed, processed \cup {call[t].req}}
    /\ Failed(t)

(* It fails while the client believes it is offline: the interceptor calls *)
(* addToQueue (task u) with a copy of the request before it rejects.       *)
ExecFailsOffline(t, u) ==
    /\ At(t, "exec") /\ ~isOnline
    /\ At(u, "idle")
    /\ processed' \in {processed, processed \cup {call[t].req}}
    /\ Push(u)
    /\ call' = [call EXCEPT ![t].at = "clone", ![t].copier = u, ![u] = Adding(made + 1)]
    /\ UNCHANGED <<isProcessing, isOnline, loading, loaded, stored, world,
                   answered, accepted, removed, excused>>

(* The copy is in the queue; now the request fails. *)
CloneAdded(t) ==
    /\ At(t, "clone") /\ call[t].copier = None
    /\ Failed(t)
    /\ UNCHANGED processed

-----------------------------------------------------------------------------
(* The queue screen: removeFromQueue, clearQueue, clearFailedRequests and  *)
(* retryFailedRequests.                                                    *)

FailedOnes == {e \in Ids(queue) : retry[e] > 0}

(* The first three replace this.queue by a filtered array, and save it. *)
RemoveFromQueue(S) ==
    /\ Allowed(edits, MaxEdits) /\ edits' = edits + 1
    /\ queue' = Without(queue, S)
    /\ retry' = retry
    /\ Save(None)
    /\ removed' = removed \cup S
    /\ Blame(Early \cup Mishap("edit", \E t \in Looping : call[t].req \in S))
    /\ UNCHANGED <<made, isProcessing, isOnline, loading, loaded, call, stored,
                   link, event, changes, faults, processed, answered, accepted, excused>>

RetryFailedRequests(t) ==
    /\ Allowed(edits, MaxEdits) /\ edits' = edits + 1
    /\ At(t, "idle") /\ Goto(t, "retrySave")
    /\ queue' = queue
    /\ retry' = [e \in Entry |-> IF e \in FailedOnes THEN 0 ELSE retry[e]]
    /\ Save(t)
    /\ Blame(Early)
    /\ UNCHANGED <<made, isProcessing, isOnline, loading, loaded, stored, link,
                   event, changes, faults, processed, answered, accepted, removed, excused>>

RetryTail(t) ==
    /\ At(t, "retryTail")
    /\ Goto(t, IF isOnline /\ Runnable THEN "fetch" ELSE "idle")
    /\ UNCHANGED <<memory, storage, world, past, excused>>

-----------------------------------------------------------------------------
(* AsyncStorage. *)

NextStep == [addSave |-> "addFetch", shiftSave |-> "loop", retrySave |-> "retryTail"]

(* The promise of a setItem call is settled; saveQueue hides a failure. *)
Settle(w) ==
    /\ writes' = Tail(writes)
    /\ IF w.by = None
       THEN UNCHANGED <<call, accepted>>
       ELSE /\ Goto(w.by, NextStep[call[w.by].at])
            /\ accepted' = accepted \cup (IF At(w.by, "addSave") THEN {call[w.by].req} ELSE {})
    /\ UNCHANGED <<memory, link, event, changes, edits, processed, answered,
                   removed, excused>>

PerformWrite ==
    /\ writes # <<>>
    /\ stored' = Head(writes).snap
    /\ Settle(Head(writes))
    /\ UNCHANGED <<faults, blame>>

WriteFails ==
    /\ writes # <<>>
    /\ Allowed(faults, MaxFaults) /\ faults' = faults + 1
    /\ Settle(Head(writes))
    /\ Blame({"storage"})
    /\ UNCHANGED stored

(* loadQueue's getItem was called before every setItem: loaded is what it  *)
(* found, and replaces the queue whatever was pushed meanwhile.            *)
Load ==
    /\ loading /\ loading' = FALSE /\ loaded' = None
    /\ IF loaded = None
       THEN UNCHANGED <<queue, retry, excused>>
       ELSE /\ queue' = IdsOf(loaded)
            /\ retry' = [e \in Entry |->
                  IF e \in Ids(IdsOf(loaded))
                  THEN loaded[CHOOSE i \in DOMAIN loaded : loaded[i].id = e].retry
                  ELSE retry[e]]
            /\ excused' = TRUE
    /\ UNCHANGED <<made, isProcessing, isOnline, call, storage, world, past>>

LoadFails ==
    /\ loading /\ loading' = FALSE /\ loaded' = None
    /\ Allowed(faults, MaxFaults) /\ faults' = faults + 1
    /\ Blame({"storage"})
    /\ UNCHANGED <<queue, retry, made, isProcessing, isOnline, call, storage, link,
                   event, changes, edits, processed, answered, accepted, removed, excused>>

-----------------------------------------------------------------------------
(* The network and the phone. *)

(* The connection comes, goes or changes its kind. *)
LinkChange(up) ==
    /\ Allowed(changes, MaxLinkChanges) /\ changes' = changes + 1
    /\ link' = up /\ event' = TRUE
    /\ UNCHANGED <<memory, call, storage, faults, edits, past, excused>>

(* The listener of setupNetworkListener, also called once after start-up.  *)
NetInfoEvent ==
    /\ event /\ event' = FALSE
    /\ isOnline' = link
    /\ IF link /\ Runnable
       THEN \E t \in Task : At(t, "idle") /\ Goto(t, "fetch")
       ELSE UNCHANGED call
    /\ UNCHANGED <<queue, retry, made, isProcessing, loading, loaded, storage, link,
                   changes, faults, edits, past, excused>>

(* The app is killed and started again. *)
Restart ==
    /\ Allowed(faults, MaxFaults) /\ faults' = faults + 1
    /\ queue' = <<>> /\ isProcessing' = FALSE /\ isOnline' = TRUE
    /\ loading' = TRUE /\ loaded' = stored
    /\ call' = [t \in Task |-> Idle]
    /\ writes' = <<>> /\ event' = TRUE
    /\ UNCHANGED <<retry, made, stored, link, changes, edits, past, excused>>

-----------------------------------------------------------------------------
(* The steps that a started call takes by itself. *)
TaskStep(t) ==
    \/ AddTail(t) \/ Fetched(t) \/ LoopSends(t) \/ LoopEnds(t)
    \/ ExecOk(t) \/ ExecFails(t) \/ CloneAdded(t) \/ RetryTail(t)

User ==
    \/ \E t \in Task : AddToQueue(t) \/ ProcessQueue(t) \/ RetryFailedRequests(t)
    \/ \E S \in {{e} : e \in Ids(queue)} \cup {Ids(queue), FailedOnes} : RemoveFromQueue(S)

Next ==
    \/ \E t \in Task : TaskStep(t)
    \/ \E t, u \in Task : ExecFailsOffline(t, u)
    \/ PerformWrite \/ WriteFails \/ Load \/ LoadFails
    \/ User
    \/ \E up \in BOOLEAN : LinkChange(up)
    \/ NetInfoEvent \/ Restart

Spec == Init /\ [][Next]_vars

(* AsyncStorage, NetInfo and axios (which has a timeout) settle every      *)
(* promise, and NetInfo delivers its events; nothing makes a user act.     *)
FairSpec ==
    /\ Spec
    /\ WF_vars(PerformWrite) /\ WF_vars(Load) /\ WF_vars(NetInfoEvent)
    /\ \A t \in Task : WF_vars(TaskStep(t))

-----------------------------------------------------------------------------
(* Properties. *)

(* The variables keep their types.  A retry count may pass maxRetries only *)
(* by drains that fail with the same request at the same time.             *)
TypeOK ==
    /\ queue \in Seq(Entry) /\ made \in 0..MaxEntries
    /\ retry \in [Entry -> 0..(MaxRetries + Cardinality(Task) - 1)]
    /\ isProcessing \in BOOLEAN /\ isOnline \in BOOLEAN /\ loading \in BOOLEAN
    /\ call \in [Task -> [at : Step, req : 0..MaxEntries, copier : Task \cup {None}]]
    /\ \A s \in {stored, loaded} : s = None \/ s \in Snapshots
    /\ writes \in Seq([by : Task \cup {None}, snap : Snapshots])

(* saveQueue: once AsyncStorage is done, it holds the requests of the      *)
(* queue in their order, unless it failed or the queue was changed before  *)
(* it was loaded.                                                          *)
StoredFollowsQueue ==
    writes = <<>> /\ ~loading /\ blame \cap {"storage", "early"} = {}
        => IdsOf(IF stored = None THEN <<>> ELSE stored) = queue

(* What the queue holds, or will when it is loaded. *)
Kept == IF ~loading THEN Ids(queue)
        ELSE IF loaded = None THEN {} ELSE Ids(IdsOf(loaded))

(* A request whose addToQueue returned leaves the queue only when the      *)
(* server has processed it, when its retries are used up or when the user  *)
(* removes it, through restarts at any point; else one of these mishaps    *)
(* has occurred.                                                           *)
NoneLost(mishaps) ==
    \A e \in accepted \ (Kept \cup processed \cup removed) :
        retry[e] >= MaxRetries \/ blame \cap mishaps # {}

AcceptedNotLost == NoneLost({"overlap", "edit", "storage", "early"})

(* processQueue sends no request while an earlier one waits unprocessed,   *)
(* unless a mishap occurred (or a restart brought back a request that the  *)
(* user had removed).                                                      *)
ServedInOrder ==
    blame = {} => \A e \in Ids(queue) \ (processed \cup removed), f \in processed : e > f

(* A request whose success the app has heard of is not sent again, unless  *)
(* the app was restarted, a save failed, or drains overlapped.             *)
AnsweredNotResent ==
    faults = 0 /\ "overlap" \notin blame =>
        \A t \in Task : At(t, "exec") => call[t].req \notin answered

(* With every call ended, requests wait in the queue only if the last word *)
(* was a failed request, no connection, or a restart: no request slips     *)
(* between a drain that ends and an addToQueue that sees it running.       *)
NoLostWakeup ==
    (\A t \in Task : At(t, "idle")) /\ ~loading /\ queue # <<>> => excused

(* The requests in AsyncStorage. *)
Held == IF stored = None THEN {} ELSE Ids(IdsOf(stored))

Box == INSTANCE Outbox WITH
    Request <- Entry, Limit <- MaxRetries,
    box <- Held, put <- accepted, sent <- processed, fails <- retry,
    trusted <- blame = {}

(* What AsyncStorage holds is an outbox: every setItem that is performed   *)
(* puts one request into it or takes out what is done with, requests are   *)
(* sent in its order, and a kill of the app at any point does not touch    *)
(* it, unless a mishap occurred.                                           *)
StoredIsAnOutbox == Box!Spec

(* isProcessing is always reset: however requests fail, the queue is not   *)
(* blocked for good.                                                       *)
FlagIsReleased == isProcessing ~> ~isProcessing

=============================================================================
