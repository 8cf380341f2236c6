----------------------------- MODULE RealtimeHub -----------------------------
(***************************************************************************)
(* The real-time hub of the API: websocket_manager, one object per server  *)
(* process that holds every open WebSocket by user, and the /ws endpoint,  *)
(* one coroutine per socket.  Endpoints and the REST handlers that notify  *)
(* (RealtimeService) send to the sockets of a user, of a room's            *)
(* subscribers, or of everybody else (presence).                           *)
(*                                                                         *)
(* Grain: the coroutines of one event loop.  A coroutine runs until it     *)
(* awaits a send or a receive; running holds the one in the middle of such *)
(* a run, and the others step only when there is none.                     *)
(*                                                                         *)
(* The loops iterate over the live sets and dict of the manager across     *)
(* their awaits.  CPython's iterators then raise RuntimeError when the     *)
(* size has changed since they were made; when an element was exchanged    *)
(* for another (moved), what they still visit is unspecified, and they may *)
(* raise too.  A set is deleted with its last element, and an iterator     *)
(* over it finds it empty for ever: its size becomes Deleted.              *)
(***************************************************************************)
EXTENDS FiniteSets, Naturals

CONSTANTS
    User, Conn,        \* users and the sockets they ever open
    Owner,             \* Owner[c]: the user of the token socket c came with
    Sender,            \* REST handlers that notify
    None,              \* nobody
    MaxJobs            \* messages and notifications in all (a bound)

ASSUME OwnerIsUser == Owner \in [Conn -> User]
ASSUME TasksDiffer == None \notin User \cup Conn \cup Sender /\ Conn \cap Sender = {}
ASSUME JobsAreCounted == MaxJobs \in Nat /\ IsFiniteSet(User) /\ IsFiniteSet(Conn)

Task == Conn \cup Sender

VARIABLES
    active,            \* active_connections: the registered sockets by user
    online,            \* user_presence: status is "online"
    room,              \* room_subscriptions of one room
    up,                \* sockets whose client is there
    pc,                \* pc[c]: where the endpoint of socket c stands
    job,               \* job[k]: what k sends: kind and the user it is about
    outer,             \* outer[k]: iterator over the users to send to
    inner,             \* inner[k]: iterator over the sockets of one user
    running,           \* the coroutine between two awaits
    jobs               \* messages and notifications so far

hub   == <<active, online, room>>
loops == <<job, outer, inner>>
vars  == <<hub, up, pc, loops, running, jobs>>

NoJob   == [kind |-> "none", about |-> None]
NoOuter == [size |-> 0, seen |-> {}, moved |-> FALSE]
NoInner == [to |-> None, size |-> 0, seen |-> {}, failed |-> {}, moved |-> FALSE]

(* A size that none of the sets has. *)
Deleted == Cardinality(User) + Cardinality(Conn) + 1

Init ==
    /\ active = [u \in User |-> {}]
    /\ online = [u \in User |-> FALSE]
    /\ room = {}
    /\ up = {}
    /\ pc = [c \in Conn |-> "off"]
    /\ job = [k \in Task |-> NoJob]
    /\ outer = [k \in Task |-> NoOuter]
    /\ inner = [k \in Task |-> NoInner]
    /\ running = None
    /\ jobs = 0

-----------------------------------------------------------------------------
(* The sets of the manager change under the loops of the other coroutines. *)

(* disconnect: sockets S of user u go, and with the last one the key and   *)
(* the status.                                                             *)
Without(S, u) == [active EXCEPT ![u] = @ \ S]

(* Mutant: the status goes with any socket. *)
StatusGoesWithAny(S, u) == [online EXCEPT ![u] = @ /\ S = {}]

StatusWithout(S, u) == [online EXCEPT ![u] = @ /\ active[u] \ S # {}]

InnerWithout(S, u) ==
    [k \in Task |->
        IF inner[k].to # u \/ active[u] \cap S = {} THEN inner[k]
        ELSE [inner[k] EXCEPT !.moved = TRUE,
                              !.size = IF active[u] \subseteq S THEN Deleted ELSE @]]

OuterWithout(S, u) ==
    [k \in Task |->
        IF job[k].kind # "presence" \/ active[u] \cap S = {} \/ ~(active[u] \subseteq S)
        THEN outer[k]
        ELSE [outer[k] EXCEPT !.moved = TRUE, !.seen = @ \ {u}]]

-----------------------------------------------------------------------------
(* Sending.  A job goes to one user, to the room without one user, or, for *)
(* a change of presence, to every other user.                              *)

Keys(a) == {u \in User : a[u] # {}}

(* The users a loop goes over; it skips the one the job is about. *)
Audience(kind, a) == IF kind = "presence" THEN Keys(a) ELSE room

SetOf(u, a) ==
    IF a[u] = {} THEN NoInner
    ELSE [to |-> u, size |-> Cardinality(a[u]), seen |-> {}, failed |-> {}, moved |-> FALSE]

(* Coroutine k calls send_personal_message, broadcast_to_room or           *)
(* broadcast_presence_update; a, outs and ins are active_connections and   *)
(* the iterators at that moment.                                           *)
Begin(k, kind, u, a, outs, ins) ==
    /\ job' = [job EXCEPT ![k] = [kind |-> kind, about |-> u]]
    /\ outer' = [outs EXCEPT ![k] =
                    IF kind = "personal" THEN NoOuter
                    ELSE [size |-> Cardinality(Audience(kind, a)), seen |-> {}, moved |-> FALSE]]
    /\ inner' = [ins EXCEPT ![k] = IF kind = "personal" THEN SetOf(u, a) ELSE NoInner]
    /\ running' = k

(* The next user of a broadcast; send_personal_message returns at once for *)
(* one who has no socket.                                                  *)
NextUser(k) ==
    /\ running = k /\ job[k].kind \in {"presence", "room"} /\ inner[k].to = None
    /\ LET audience == Audience(job[k].kind, active)
       IN  /\ outer[k].size = Cardinality(audience)
           /\ \E u \in audience \ outer[k].seen :
                /\ outer' = [outer EXCEPT ![k].seen = @ \cup {u}]
                /\ inner' = [inner EXCEPT ![k] =
                                IF u = job[k].about THEN NoInner ELSE SetOf(u, active)]
    /\ UNCHANGED <<hub, up, pc, job, running, jobs>>

(* The next socket of one user: k awaits the send.  A socket whose client  *)
(* has gone takes the text, or fails.                                      *)
SendNext(k) ==
    /\ running \in {None, k} /\ inner[k].to # None
    /\ inner[k].size = Cardinality(active[inner[k].to])
    /\ \E c \in active[inner[k].to] \ inner[k].seen, fails \in BOOLEAN :
         /\ fails => c \notin up
         /\ inner' = [inner EXCEPT ![k].seen = @ \cup {c},
                                   ![k].failed = IF fails THEN @ \cup {c} ELSE @]
    /\ running' = None
    /\ UNCHANGED <<hub, up, pc, job, outer, jobs>>

(* Mutant: the sends that failed are tried again, until they go. *)
UserDoneRetries(k) ==
    /\ running \in {None, k} /\ inner[k].to # None
    /\ inner[k].size = Cardinality(active[inner[k].to])
    /\ inner[k].moved \/ active[inner[k].to] \subseteq inner[k].seen
    /\ inner' = IF inner[k].failed = {} THEN [inner EXCEPT ![k] = NoInner]
                ELSE [inner EXCEPT ![k].seen = @ \ inner[k].failed, ![k].failed = {}]
    /\ running' = IF inner[k].failed = {} THEN k ELSE None
    /\ UNCHANGED <<hub, up, pc, job, outer, jobs>>

(* The loop over a user's sockets is over: those that failed go. *)
UserDone(k) ==
    /\ running \in {None, k} /\ inner[k].to # None
    /\ LET u == inner[k].to
           S == inner[k].failed
       IN  /\ inner[k].size = Cardinality(active[u])
           /\ inner[k].moved \/ active[u] \subseteq inner[k].seen
           /\ active' = Without(S, u)
           /\ online' = StatusWithout(S, u)
           /\ outer' = OuterWithout(S, u)
           /\ inner' = [InnerWithout(S, u) EXCEPT ![k] = NoInner]
    /\ running' = k
    /\ UNCHANGED <<room, up, pc, job, jobs>>

(* What an endpoint does after the job it awaited: it greets the client,   *)
(* waits for the next message, or ends.                                    *)
AfterJob(c) ==
    CASE pc[c] = "joining" -> "greeting"
      [] pc[c] \in {"greeting", "busy"} -> "serving"
      [] OTHER -> "gone"

JobDone(k) ==
    /\ running = k /\ job[k].kind # "none" /\ inner[k].to = None
    /\ job[k].kind # "personal" =>
         LET audience == Audience(job[k].kind, active)
         IN  /\ outer[k].size = Cardinality(audience)
             /\ outer[k].moved \/ audience \subseteq outer[k].seen
    /\ pc' = IF k \in Conn THEN [pc EXCEPT ![k] = AfterJob(k)] ELSE pc
    /\ IF k \in Conn /\ pc[k] = "joining"
       THEN Begin(k, "personal", Owner[k], active, outer, inner)
       ELSE /\ job' = [job EXCEPT ![k] = NoJob]
            /\ outer' = [outer EXCEPT ![k] = NoOuter]
            /\ running' = None
            /\ UNCHANGED inner
    /\ UNCHANGED <<hub, up, jobs>>

(* An iterator finds its set or dict changed.  The RuntimeError ends a     *)
(* notification; an endpoint closes its socket and leaves it registered.   *)
Collide(k) ==
    /\ \/ /\ running \in {None, k} /\ inner[k].to # None
          /\ inner[k].moved \/ inner[k].size # Cardinality(active[inner[k].to])
       \/ /\ running = k /\ job[k].kind \in {"presence", "room"} /\ inner[k].to = None
          /\ outer[k].moved \/ outer[k].size # Cardinality(Audience(job[k].kind, active))
    /\ pc' = IF k \in Sender THEN pc
             ELSE [pc EXCEPT ![k] = IF @ = "leaving" THEN "gone" ELSE "crashed"]
    /\ up' = up \ {k}
    /\ job' = [job EXCEPT ![k] = NoJob]
    /\ outer' = [outer EXCEPT ![k] = NoOuter]
    /\ inner' = [inner EXCEPT ![k] = NoInner]
    /\ running' = None
    /\ UNCHANGED <<hub, jobs>>

-----------------------------------------------------------------------------
(* The endpoint of socket c. *)

(* connect: registered, online, and the others are told. *)
Connect(c) ==
    /\ running = None /\ pc[c] = "off"
    /\ pc' = [pc EXCEPT ![c] = "joining"]
    /\ up' = up \cup {c}
    /\ active' = [active EXCEPT ![Owner[c]] = @ \cup {c}]
    /\ online' = [online EXCEPT ![Owner[c]] = TRUE]
    /\ Begin(c, "presence", Owner[c], active', outer, inner)
    /\ UNCHANGED <<room, jobs>>

(* Mutant: the room lists the socket, not its user. *)
ChangeRoomOfSocket(c) ==
    /\ running = None /\ pc[c] = "serving" /\ jobs < MaxJobs
    /\ jobs' = jobs + 1
    /\ room' = room \cup {c}
    /\ UNCHANGED <<active, online, up, pc, loops, running>>

(* The client asks for the room or leaves it; the reply to a client that   *)
(* has gone may raise, which leaves the socket registered.                 *)
ChangeRoom(c) ==
    /\ running = None /\ pc[c] = "serving" /\ jobs < MaxJobs
    /\ jobs' = jobs + 1
    /\ LET u == Owner[c]
       IN  \/ /\ room' = room \cup {u}
              /\ UNCHANGED outer
           \/ /\ room' = room \ {u}
              /\ outer' = [k \in Task |->
                    IF job[k].kind # "room" \/ u \notin room THEN outer[k]
                    ELSE [outer[k] EXCEPT !.moved = TRUE, !.seen = @ \ {u},
                                          !.size = IF room = {u} THEN Deleted ELSE @]]
    /\ \E raises \in BOOLEAN :
         /\ raises => c \notin up
         /\ pc' = IF raises THEN [pc EXCEPT ![c] = "crashed"] ELSE pc
    /\ UNCHANGED <<active, online, up, job, inner, running>>

(* The client is typing, for the room, or away, for everybody. *)
Announce(c) ==
    /\ running = None /\ pc[c] = "serving" /\ jobs < MaxJobs
    /\ jobs' = jobs + 1
    /\ pc' = [pc EXCEPT ![c] = "busy"]
    /\ \E kind \in {"room", "presence"} : Begin(c, kind, Owner[c], active, outer, inner)
    /\ UNCHANGED <<hub, up>>

(* Mutant: the endpoint forgets to call disconnect. *)
LeaveKeepsSocket(c) ==
    /\ running = None /\ pc[c] = "serving" /\ c \notin up
    /\ pc' = [pc EXCEPT ![c] = "leaving"]
    /\ Begin(c, "presence", Owner[c], active, outer, inner)
    /\ UNCHANGED <<hub, up, jobs>>

(* WebSocketDisconnect, as the endpoint waits for a message: disconnect,   *)
(* and the others are told, whatever other sockets the user has.           *)
Leave(c) ==
    /\ running = None /\ pc[c] = "serving" /\ c \notin up
    /\ pc' = [pc EXCEPT ![c] = "leaving"]
    /\ LET u == Owner[c]
       IN  /\ active' = Without({c}, u)
           /\ online' = StatusWithout({c}, u)
           /\ Begin(c, "presence", u, active', OuterWithout({c}, u), InnerWithout({c}, u))
    /\ UNCHANGED <<room, up, jobs>>

-----------------------------------------------------------------------------
(* A client goes, by closing or by losing its connection; the event loop   *)
(* learns of it between the runs of two coroutines.                        *)
ClientGone(c) ==
    /\ running = None /\ c \in up
    /\ up' = up \ {c}
    /\ UNCHANGED <<hub, pc, loops, running, jobs>>

(* A REST handler notifies a user, or a room without the sender. *)
Notify(s) ==
    /\ running = None /\ job[s] = NoJob /\ jobs < MaxJobs
    /\ jobs' = jobs + 1
    /\ \E kind \in {"personal", "room"}, u \in User : Begin(s, kind, u, active, outer, inner)
    /\ UNCHANGED <<hub, up, pc>>

Work(k) == NextUser(k) \/ SendNext(k) \/ UserDone(k) \/ JobDone(k) \/ Collide(k)

Next ==
    \/ \E k \in Task : Work(k)
    \/ \E c \in Conn : Connect(c) \/ ChangeRoom(c) \/ Announce(c) \/ Leave(c) \/ ClientGone(c)
    \/ \E s \in Sender : Notify(s)

Spec == Init /\ [][Next]_vars

(* The event loop runs every coroutine that can go on, and an endpoint     *)
(* that waits for a message is told that its client has gone.              *)
FairSpec ==
    /\ Spec
    /\ \A k \in Task : WF_vars(Work(k))
    /\ \A c \in Conn : SF_vars(Leave(c))

-----------------------------------------------------------------------------
(* Properties. *)

Endpoint == {"off", "joining", "greeting", "serving", "busy", "leaving", "gone", "crashed"}
Size  == 0..Deleted
Job   == [kind : {"none", "personal", "presence", "room"}, about : User \cup {None}]
Outer == [size : Size, seen : SUBSET User, moved : BOOLEAN]
Inner == [to : User \cup {None}, size : Size, seen : SUBSET Conn, failed : SUBSET Conn,
          moved : BOOLEAN]

(* The state has the shape of the manager and of the coroutines' loops. *)
TypeOK ==
    /\ active \in [User -> SUBSET Conn]
    /\ online \in [User -> BOOLEAN]
    /\ room \in SUBSET User
    /\ up \in SUBSET Conn
    /\ pc \in [Conn -> Endpoint]
    /\ job \in [Task -> Job]
    /\ outer \in [Task -> Outer]
    /\ inner \in [Task -> Inner]
    /\ running \in Task \cup {None}
    /\ jobs \in 0..MaxJobs

(* A user is online in user_presence exactly as long as one of their       *)
(* sockets is registered, whichever socket goes first, by its endpoint or  *)
(* by a send that failed under another coroutine.                          *)
PresenceFollowsSockets == \A u \in User : online[u] <=> active[u] # {}

(* Only a socket whose endpoint runs, or whose endpoint broke off, is      *)
(* registered; and an endpoint that serves a client that is there has not  *)
(* been unregistered by the jobs of others.                                *)
ServedIsRegistered ==
    \A c \in Conn :
      /\ c \in active[Owner[c]] => pc[c] \notin {"off", "leaving", "gone"}
      /\ c \in up /\ pc[c] \in {"joining", "greeting", "serving", "busy"} => c \in active[Owner[c]]

(* Again and again there is a moment when every socket whose client has    *)
(* gone is out of the manager, but those whose endpoint broke off in the   *)
(* middle of a message: no loop over the sockets goes on for ever.         *)
ClosedSocketsLeave ==
    []<>(\A c \in Conn : c \in active[Owner[c]] => c \in up \/ pc[c] = "crashed")

=============================================================================
