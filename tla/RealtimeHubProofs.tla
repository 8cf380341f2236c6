-------------------------- MODULE RealtimeHubProofs --------------------------
(***************************************************************************)
(* What holds of the hub for any users, sockets and handlers: the state    *)
(* keeps its shape, a user is online exactly as long as a socket of theirs *)
(* is registered, and only sockets whose endpoints run or broke off are.   *)
(***************************************************************************)
EXTENDS RealtimeHub, FiniteSetTheorems, TLAPS

(* The sizes iterators remember are sizes of sets of users or sockets.     *)
LEMMA SetSize ==
  ASSUME NEW S, S \subseteq Conn \/ S \subseteq User
  PROVE  Cardinality(S) \in Size
<1>1. /\ IsFiniteSet(User) /\ Cardinality(User) \in Nat
      /\ IsFiniteSet(Conn) /\ Cardinality(Conn) \in Nat
  BY JobsAreCounted, FS_CardinalityType
<1>2. Cardinality(S) \in Nat /\ (Cardinality(S) <= Cardinality(Conn) \/ Cardinality(S) <= Cardinality(User))
  BY <1>1, FS_Subset, FS_CardinalityType
<1> QED
  BY <1>1, <1>2 DEF Size, Deleted

LEMMA SizeBounds == 0 \in Size /\ Deleted \in Size
<1>1. Deleted \in Nat
  BY JobsAreCounted, FS_CardinalityType DEF Deleted
<1> QED
  BY <1>1 DEF Size

(* Iterators over a set that shrinks stay iterators. *)
LEMMA InnerWithoutType ==
  ASSUME TypeOK, NEW S, NEW u \in User
  PROVE  InnerWithout(S, u) \in [Task -> Inner]
<1> SUFFICES ASSUME NEW k \in Task
             PROVE  (IF inner[k].to # u \/ active[u] \cap S = {} THEN inner[k]
                     ELSE [inner[k] EXCEPT !.moved = TRUE,
                              !.size = IF active[u] \subseteq S THEN Deleted ELSE @]) \in Inner
  BY DEF InnerWithout
<1>1. inner[k] \in Inner
  BY DEF TypeOK
<1>2. inner[k].size \in Size /\ Deleted \in Size
  BY <1>1, SizeBounds DEF Inner
<1> QED
  BY <1>1, <1>2 DEF Inner

LEMMA OuterWithoutType ==
  ASSUME TypeOK, NEW S, NEW u \in User
  PROVE  OuterWithout(S, u) \in [Task -> Outer]
<1> SUFFICES ASSUME NEW k \in Task
             PROVE  (IF job[k].kind # "presence" \/ active[u] \cap S = {} \/ ~(active[u] \subseteq S)
                     THEN outer[k]
                     ELSE [outer[k] EXCEPT !.moved = TRUE, !.seen = @ \ {u}]) \in Outer
  BY DEF OuterWithout
<1>1. outer[k] \in Outer
  BY DEF TypeOK
<1> QED
  BY <1>1 DEF Outer

LEMMA SetOfType ==
  ASSUME NEW u \in User, NEW a \in [User -> SUBSET Conn]
  PROVE  SetOf(u, a) \in Inner
<1>1. Cardinality(a[u]) \in Size
  BY SetSize
<1> QED
  BY <1>1, SizeBounds DEF SetOf, NoInner, Inner

LEMMA IdleType == NoJob \in Job /\ NoOuter \in Outer /\ NoInner \in Inner
BY SizeBounds DEF NoJob, NoOuter, NoInner, Job, Outer, Inner

(* A coroutine that begins a job has a job and iterators. *)
LEMMA BeginType ==
  ASSUME TypeOK, NEW k \in Task, NEW kind \in {"personal", "presence", "room"}, NEW u \in User,
         NEW a \in [User -> SUBSET Conn], NEW outs \in [Task -> Outer], NEW ins \in [Task -> Inner],
         Begin(k, kind, u, a, outs, ins)
  PROVE  /\ job' \in [Task -> Job]
         /\ outer' \in [Task -> Outer]
         /\ inner' \in [Task -> Inner]
         /\ running' \in Task \cup {None}
<1>1. [kind |-> kind, about |-> u] \in Job
  BY DEF Job
<1>2. job' \in [Task -> Job]
  BY <1>1 DEF Begin, TypeOK
<1>3. Audience(kind, a) \subseteq User
  BY DEF Audience, Keys, TypeOK
<1>4. [size |-> Cardinality(Audience(kind, a)), seen |-> {}, moved |-> FALSE] \in Outer
  BY <1>3, SetSize DEF Outer
<1>5. outer' \in [Task -> Outer]
  BY <1>4, IdleType DEF Begin
<1>6. inner' \in [Task -> Inner]
  BY SetOfType, IdleType DEF Begin
<1> QED
  BY <1>2, <1>5, <1>6 DEF Begin

-----------------------------------------------------------------------------
(* The state keeps its shape: what every other fact rests on. *)
THEOREM TypeCorrect == Spec => []TypeOK
<1>1. Init => TypeOK
  <2> SUFFICES ASSUME Init PROVE TypeOK
    OBVIOUS
  <2>1. job \in [Task -> Job] /\ outer \in [Task -> Outer] /\ inner \in [Task -> Inner]
    BY IdleType DEF Init
  <2> QED
    BY <2>1, JobsAreCounted DEF Init, TypeOK, Endpoint
<1>2. TypeOK /\ [Next]_vars => TypeOK'
  <2> SUFFICES ASSUME TypeOK, [Next]_vars PROVE TypeOK'
    OBVIOUS
  <2> USE DEF hub
  <2>1. ASSUME NEW k \in Task, NextUser(k) PROVE TypeOK'
    <3>1. PICK u \in Audience(job[k].kind, active) :
             /\ outer' = [outer EXCEPT ![k].seen = @ \cup {u}]
             /\ inner' = [inner EXCEPT ![k] =
                             IF u = job[k].about THEN NoInner ELSE SetOf(u, active)]
      BY <2>1 DEF NextUser
    <3>2. u \in User
      BY DEF Audience, Keys, TypeOK
    <3>3. outer' \in [Task -> Outer]
      BY <3>1, <3>2 DEF TypeOK, Outer
    <3>4. inner' \in [Task -> Inner]
      BY <3>1, <3>2, SetOfType, IdleType DEF TypeOK
    <3> QED
      BY <2>1, <3>3, <3>4 DEF NextUser, TypeOK
  <2>2. ASSUME NEW k \in Task, SendNext(k) PROVE TypeOK'
    <3>1. PICK c \in active[inner[k].to], fails \in BOOLEAN :
             inner' = [inner EXCEPT ![k].seen = @ \cup {c},
                                    ![k].failed = IF fails THEN @ \cup {c} ELSE @]
      BY <2>2 DEF SendNext
    <3>2. inner[k].to \in User
      BY <2>2 DEF SendNext, TypeOK, Inner
    <3>3. c \in Conn
      BY <3>2 DEF TypeOK
    <3>4. inner[k] \in Inner /\ inner \in [Task -> Inner]
      BY DEF TypeOK
    <3>5. [inner[k] EXCEPT !.seen = @ \cup {c}, !.failed = IF fails THEN @ \cup {c} ELSE @] \in Inner
      BY <3>3, <3>4 DEF Inner
    <3>6. inner' = [inner EXCEPT ![k] = [inner[k] EXCEPT !.seen = @ \cup {c},
                                             !.failed = IF fails THEN @ \cup {c} ELSE @]]
      BY <3>1, <3>4, Zenon
    <3>7. inner' \in [Task -> Inner]
      BY <3>4, <3>5, <3>6
    <3> QED
      BY <2>2, <3>7 DEF SendNext, TypeOK
  <2>3. ASSUME NEW k \in Task, UserDone(k) PROVE TypeOK'
    <3> DEFINE u == inner[k].to
               S == inner[k].failed
    <3>1. u \in User
      BY <2>3 DEF UserDone, TypeOK, Inner
    <3>2. active' \in [User -> SUBSET Conn] /\ online' \in [User -> BOOLEAN]
      BY <2>3, <3>1 DEF UserDone, Without, StatusWithout, TypeOK
    <3>3. outer' \in [Task -> Outer]
      BY <2>3, <3>1, OuterWithoutType DEF UserDone
    <3>4. InnerWithout(S, u) \in [Task -> Inner]
      BY <3>1, InnerWithoutType
    <3>5. inner' \in [Task -> Inner]
      BY <2>3, <3>4, IdleType DEF UserDone
    <3> QED
      BY <2>3, <3>2, <3>3, <3>5 DEF UserDone, TypeOK
  <2>4. ASSUME NEW k \in Task, JobDone(k) PROVE TypeOK'
    <3>1. pc' \in [Conn -> Endpoint]
      BY <2>4 DEF JobDone, TypeOK, AfterJob, Endpoint
    <3>2. /\ job' \in [Task -> Job] /\ outer' \in [Task -> Outer]
          /\ inner' \in [Task -> Inner] /\ running' \in Task \cup {None}
      <4>1. CASE k \in Conn /\ pc[k] = "joining"
        <5>1. Begin(k, "personal", Owner[k], active, outer, inner)
          BY <2>4, <4>1 DEF JobDone
        <5>2. Owner[k] \in User
          BY <4>1, OwnerIsUser
        <5>3. outer \in [Task -> Outer] /\ inner \in [Task -> Inner] /\ active \in [User -> SUBSET Conn]
          BY DEF TypeOK
        <5> QED
          BY <5>1, <5>2, <5>3, BeginType
      <4>2. CASE ~(k \in Conn /\ pc[k] = "joining")
        BY <2>4, <4>2, IdleType DEF JobDone, TypeOK
      <4> QED
        BY <4>1, <4>2
    <3> QED
      BY <2>4, <3>1, <3>2 DEF JobDone, TypeOK
  <2>5. ASSUME NEW k \in Task, Collide(k) PROVE TypeOK'
    <3>1. pc' \in [Conn -> Endpoint] /\ up' \in SUBSET Conn
      BY <2>5 DEF Collide, TypeOK, Endpoint
    <3>2. job' \in [Task -> Job] /\ outer' \in [Task -> Outer] /\ inner' \in [Task -> Inner]
      BY <2>5, IdleType DEF Collide, TypeOK
    <3> QED
      BY <2>5, <3>1, <3>2 DEF Collide, TypeOK
  <2>6. ASSUME NEW c \in Conn, Connect(c) PROVE TypeOK'
    <3>1. Owner[c] \in User /\ c \in Task
      BY OwnerIsUser DEF Task
    <3>2. active' \in [User -> SUBSET Conn] /\ online' \in [User -> BOOLEAN] /\ up' \in SUBSET Conn
      BY <2>6, <3>1 DEF Connect, TypeOK
    <3>3. Begin(c, "presence", Owner[c], active', outer, inner)
      BY <2>6 DEF Connect
    <3>4. outer \in [Task -> Outer] /\ inner \in [Task -> Inner]
      BY DEF TypeOK
    <3>5. /\ job' \in [Task -> Job] /\ outer' \in [Task -> Outer]
          /\ inner' \in [Task -> Inner] /\ running' \in Task \cup {None}
      BY <3>1, <3>2, <3>3, <3>4, BeginType
    <3>6. pc' \in [Conn -> Endpoint]
      BY <2>6 DEF Connect, TypeOK, Endpoint
    <3> QED
      BY <2>6, <3>2, <3>5, <3>6 DEF Connect, TypeOK
  <2>7. ASSUME NEW c \in Conn, ChangeRoom(c) PROVE TypeOK'
    <3>1. Owner[c] \in User
      BY OwnerIsUser
    <3>2. room' \in SUBSET User
      BY <2>7, <3>1 DEF ChangeRoom, TypeOK
    <3>3. outer' \in [Task -> Outer]
      <4>1. CASE UNCHANGED outer
        BY <4>1 DEF TypeOK
      <4>2. CASE outer' = [k \in Task |->
                     IF job[k].kind # "room" \/ Owner[c] \notin room THEN outer[k]
                     ELSE [outer[k] EXCEPT !.moved = TRUE, !.seen = @ \ {Owner[c]},
                              !.size = IF room = {Owner[c]} THEN Deleted ELSE @]]
        <5> SUFFICES ASSUME NEW k \in Task PROVE outer'[k] \in Outer
          BY <4>2
        <5>1. outer[k] \in Outer
          BY DEF TypeOK
        <5>2. outer[k].size \in Size /\ Deleted \in Size
          BY <5>1, SizeBounds DEF Outer
        <5> QED
          BY <4>2, <5>1, <5>2 DEF Outer
      <4> QED
        BY <2>7, <4>1, <4>2 DEF ChangeRoom
    <3>4. "crashed" \in Endpoint
      BY DEF Endpoint
    <3>5. pc' \in [Conn -> Endpoint]
      BY <2>7, <3>4, Zenon DEF ChangeRoom, TypeOK
    <3>6. jobs < MaxJobs /\ jobs' = jobs + 1 /\ jobs \in 0..MaxJobs
      BY <2>7 DEF ChangeRoom, TypeOK
    <3>7. jobs' \in 0..MaxJobs
      BY <3>6, JobsAreCounted
    <3> QED
      BY <2>7, <3>2, <3>3, <3>5, <3>7 DEF ChangeRoom, TypeOK
  <2>8. ASSUME NEW c \in Conn, Announce(c) PROVE TypeOK'
    <3>1. Owner[c] \in User /\ c \in Task
      BY OwnerIsUser DEF Task
    <3>2. PICK kind \in {"room", "presence"} : Begin(c, kind, Owner[c], active, outer, inner)
      BY <2>8 DEF Announce
    <3>3. outer \in [Task -> Outer] /\ inner \in [Task -> Inner] /\ active \in [User -> SUBSET Conn]
      BY DEF TypeOK
    <3>4. /\ job' \in [Task -> Job] /\ outer' \in [Task -> Outer]
          /\ inner' \in [Task -> Inner] /\ running' \in Task \cup {None}
      BY <3>1, <3>2, <3>3, BeginType
    <3>5. pc' \in [Conn -> Endpoint] /\ jobs' \in 0..MaxJobs
      BY <2>8, JobsAreCounted DEF Announce, TypeOK, Endpoint
    <3> QED
      BY <2>8, <3>4, <3>5 DEF Announce, TypeOK
  <2>9. ASSUME NEW c \in Conn, Leave(c) PROVE TypeOK'
    <3>1. Owner[c] \in User /\ c \in Task
      BY OwnerIsUser DEF Task
    <3>2. active' \in [User -> SUBSET Conn] /\ online' \in [User -> BOOLEAN]
      BY <2>9, <3>1 DEF Leave, Without, StatusWithout, TypeOK
    <3>3. Begin(c, "presence", Owner[c], active', OuterWithout({c}, Owner[c]), InnerWithout({c}, Owner[c]))
      BY <2>9 DEF Leave
    <3>4. /\ OuterWithout({c}, Owner[c]) \in [Task -> Outer]
          /\ InnerWithout({c}, Owner[c]) \in [Task -> Inner]
      BY <3>1, OuterWithoutType, InnerWithoutType
    <3>5. /\ job' \in [Task -> Job] /\ outer' \in [Task -> Outer]
          /\ inner' \in [Task -> Inner] /\ running' \in Task \cup {None}
      BY <3>1, <3>2, <3>3, <3>4, BeginType
    <3>6. pc' \in [Conn -> Endpoint]
      BY <2>9 DEF Leave, TypeOK, Endpoint
    <3> QED
      BY <2>9, <3>2, <3>5, <3>6 DEF Leave, TypeOK
  <2>10. ASSUME NEW c \in Conn, ClientGone(c) PROVE TypeOK'
    BY <2>10 DEF ClientGone, loops, TypeOK
  <2>11. ASSUME NEW s \in Sender, Notify(s) PROVE TypeOK'
    <3>1. s \in Task
      BY DEF Task
    <3>2. PICK kind \in {"personal", "room"}, u \in User : Begin(s, kind, u, active, outer, inner)
      BY <2>11 DEF Notify
    <3>3. outer \in [Task -> Outer] /\ inner \in [Task -> Inner] /\ active \in [User -> SUBSET Conn]
      BY DEF TypeOK
    <3>4. /\ job' \in [Task -> Job] /\ outer' \in [Task -> Outer]
          /\ inner' \in [Task -> Inner] /\ running' \in Task \cup {None}
      BY <3>1, <3>2, <3>3, BeginType
    <3>5. jobs' \in 0..MaxJobs
      BY <2>11, JobsAreCounted DEF Notify, TypeOK
    <3> QED
      BY <2>11, <3>4, <3>5 DEF Notify, TypeOK
  <2>12. CASE UNCHANGED vars
    BY <2>12 DEF vars, loops, TypeOK
  <2> QED
    BY <2>1, <2>2, <2>3, <2>4, <2>5, <2>6, <2>7, <2>8, <2>9, <2>10, <2>11, <2>12 DEF Next, Work
<1> QED
  BY <1>1, <1>2, PTL DEF Spec

-----------------------------------------------------------------------------
(* Every registered socket came with a token of its user. *)
SocketsOfTheirOwner == \A u \in User : \A c \in active[u] : Owner[c] = u

OwnedPresence == PresenceFollowsSockets /\ SocketsOfTheirOwner

LEMMA WithoutKeepsPresence ==
  ASSUME TypeOK, OwnedPresence, NEW S, NEW u \in User,
         active' = Without(S, u), online' = StatusWithout(S, u)
  PROVE  OwnedPresence'
<1> SUFFICES ASSUME NEW w \in User
             PROVE  (online'[w] <=> active'[w] # {}) /\ \A c \in active'[w] : Owner[c] = w
  BY DEF OwnedPresence, PresenceFollowsSockets, SocketsOfTheirOwner
<1>1. (online[w] <=> active[w] # {}) /\ \A c \in active[w] : Owner[c] = w
  BY DEF OwnedPresence, PresenceFollowsSockets, SocketsOfTheirOwner
<1>2. CASE w = u
  <2>1. active'[w] = active[w] \ S /\ online'[w] = (online[w] /\ active[w] \ S # {})
    BY <1>2 DEF Without, StatusWithout, TypeOK
  <2> QED
    BY <1>1, <2>1
<1>3. CASE w # u
  <2>1. active'[w] = active[w] /\ online'[w] = online[w]
    BY <1>3 DEF Without, StatusWithout, TypeOK
  <2> QED
    BY <1>1, <2>1
<1> QED
  BY <1>2, <1>3

(* A user is online exactly as long as a socket of theirs is registered:   *)
(* connect, disconnect and the cleaning after failed sends keep it.        *)
LEMMA OwnedPresenceHolds == Spec => []OwnedPresence
<1>1. Init => OwnedPresence
  BY DEF Init, OwnedPresence, PresenceFollowsSockets, SocketsOfTheirOwner
<1>2. TypeOK /\ OwnedPresence /\ [Next]_vars => OwnedPresence'
  <2> SUFFICES ASSUME TypeOK, OwnedPresence, [Next]_vars PROVE OwnedPresence'
    OBVIOUS
  <2>1. ASSUME NEW k \in Task, UserDone(k) PROVE OwnedPresence'
    <3>1. inner[k].to \in User
      BY <2>1 DEF UserDone, TypeOK, Inner
    <3>2. /\ active' = Without(inner[k].failed, inner[k].to)
          /\ online' = StatusWithout(inner[k].failed, inner[k].to)
      BY <2>1 DEF UserDone
    <3> QED
      BY <3>1, <3>2, WithoutKeepsPresence
  <2>2. ASSUME NEW c \in Conn, Leave(c) PROVE OwnedPresence'
    <3>1. Owner[c] \in User
      BY OwnerIsUser
    <3>2. active' = Without({c}, Owner[c]) /\ online' = StatusWithout({c}, Owner[c])
      BY <2>2 DEF Leave
    <3> QED
      BY <3>1, <3>2, WithoutKeepsPresence
  <2>3. ASSUME NEW c \in Conn, Connect(c) PROVE OwnedPresence'
    <3> SUFFICES ASSUME NEW w \in User
                 PROVE  (online'[w] <=> active'[w] # {}) /\ \A d \in active'[w] : Owner[d] = w
      BY DEF OwnedPresence, PresenceFollowsSockets, SocketsOfTheirOwner
    <3>1. (online[w] <=> active[w] # {}) /\ \A d \in active[w] : Owner[d] = w
      BY DEF OwnedPresence, PresenceFollowsSockets, SocketsOfTheirOwner
    <3>2. CASE w = Owner[c]
      <4>1. active'[w] = active[w] \cup {c} /\ online'[w]
        BY <2>3, <3>2 DEF Connect, TypeOK
      <4> QED
        BY <3>1, <3>2, <4>1
    <3>3. CASE w # Owner[c]
      <4>1. active'[w] = active[w] /\ online'[w] = online[w]
        BY <2>3, <3>3 DEF Connect, TypeOK
      <4> QED
        BY <3>1, <4>1
    <3> QED
      BY <3>2, <3>3
  <2>4. CASE UNCHANGED <<active, online>>
    BY <2>4 DEF OwnedPresence, PresenceFollowsSockets, SocketsOfTheirOwner
  <2>5. ASSUME NEW k \in Task, NextUser(k) \/ SendNext(k) \/ JobDone(k) \/ Collide(k)
        PROVE  UNCHANGED <<active, online>>
    BY <2>5 DEF NextUser, SendNext, JobDone, Collide, hub
  <2>6. ASSUME NEW c \in Conn, ChangeRoom(c) \/ Announce(c) \/ ClientGone(c)
        PROVE  UNCHANGED <<active, online>>
    BY <2>6 DEF ChangeRoom, Announce, ClientGone, hub
  <2>7. ASSUME NEW s \in Sender, Notify(s) PROVE UNCHANGED <<active, online>>
    BY <2>7 DEF Notify, hub
  <2>8. CASE UNCHANGED vars
    BY <2>4, <2>8 DEF vars, hub
  <2> QED
    BY <2>1, <2>2, <2>3, <2>4, <2>5, <2>6, <2>7, <2>8 DEF Next, Work
<1> QED
  BY <1>1, <1>2, TypeCorrect, PTL DEF Spec

THEOREM PresenceIsTrue == Spec => []PresenceFollowsSockets
<1>1. OwnedPresence => PresenceFollowsSockets
  BY DEF OwnedPresence
<1> QED
  BY <1>1, OwnedPresenceHolds, PTL

-----------------------------------------------------------------------------
(* Which endpoints have their socket registered.  A job belongs to an      *)
(* endpoint that awaits it, and only a send to a socket whose client has   *)
(* gone fails, so that the jobs of others take no live socket away.        *)
Awaiting == {"joining", "greeting", "busy", "leaving"}

JobsAreAwaited ==
    \A k \in Task : inner[k].to # None \/ job[k].kind # "none"
                      => job[k].kind # "none" /\ (k \in Conn => pc[k] \in Awaiting)

FailedAreGone ==
    \A k \in Task : \A c \in inner[k].failed : c \notin up /\ pc[c] # "off"

RegisteredRan == \A u \in User : \A c \in active[u] : pc[c] \notin {"off", "leaving", "gone"}
LiveAreRegistered ==
    \A c \in Conn : c \in up /\ pc[c] \in {"joining", "greeting", "serving", "busy"}
                      => c \in active[Owner[c]]

HubInv == JobsAreAwaited /\ FailedAreGone /\ RegisteredRan /\ LiveAreRegistered

LEMMA InnerWithoutKeeps ==
  ASSUME NEW S, NEW u, NEW k \in Task, inner[k] \in Inner
  PROVE  /\ InnerWithout(S, u)[k].to = inner[k].to
         /\ InnerWithout(S, u)[k].failed = inner[k].failed
BY DEF InnerWithout, Inner

(* A coroutine that awaits the job it begins leaves the facts about jobs   *)
(* and about failed sends as they are.                                     *)
LEMMA BeginKeepsJobs ==
  ASSUME TypeOK, JobsAreAwaited, NEW k \in Task, NEW kind \in {"personal", "presence", "room"},
         NEW u \in User, NEW a, NEW outs, NEW ins \in [Task -> Inner],
         \A j \in Task : ins[j].to = inner[j].to /\ ins[j].failed = inner[j].failed,
         Begin(k, kind, u, a, outs, ins),
         k \in Conn => pc'[k] \in Awaiting,
         \A c \in Conn \ {k} : pc'[c] = pc[c]
  PROVE  JobsAreAwaited' /\ \A j \in Task : inner'[j].failed \subseteq inner[j].failed
<1>1. job'[k].kind = kind /\ inner'[k].failed = {}
  BY DEF Begin, TypeOK, SetOf, NoInner
<1>2. ASSUME NEW j \in Task, j # k
      PROVE  job'[j] = job[j] /\ inner'[j].to = inner[j].to /\ inner'[j].failed = inner[j].failed
  BY <1>2 DEF Begin, TypeOK
<1>3. ASSUME NEW j \in Task, inner'[j].to # None \/ job'[j].kind # "none"
      PROVE  job'[j].kind # "none" /\ (j \in Conn => pc'[j] \in Awaiting)
  <2>1. CASE j = k
    BY <1>1, <2>1
  <2>2. CASE j # k
    <3>1. job[j].kind # "none" /\ (j \in Conn => pc[j] \in Awaiting)
      BY <1>2, <1>3, <2>2 DEF JobsAreAwaited
    <3> QED
      BY <1>2, <2>2, <3>1
  <2> QED
    BY <2>1, <2>2
<1> QED
  BY <1>1, <1>2, <1>3 DEF JobsAreAwaited

(* Sends go on failing only to sockets whose client has gone. *)
LEMMA FailedStayGone ==
  ASSUME TypeOK, FailedAreGone, pc' \in [Conn -> Endpoint],
         \A j \in Task : inner'[j].failed \subseteq inner[j].failed,
         \A c \in Conn : c \in up' => c \in up \/ pc[c] = "off",
         \A c \in Conn : pc[c] # "off" => pc'[c] # "off"
  PROVE  FailedAreGone'
<1> SUFFICES ASSUME NEW j \in Task, NEW c \in inner'[j].failed PROVE c \notin up' /\ pc'[c] # "off"
  BY DEF FailedAreGone
<1>1. c \in inner[j].failed /\ c \in Conn
  BY DEF TypeOK, Inner
<1>2. c \notin up /\ pc[c] # "off"
  BY <1>1 DEF FailedAreGone
<1> QED
  BY <1>1, <1>2

(* The steps that leave the manager's sets alone and move at most the      *)
(* endpoints of sockets on from one state to a later one.                  *)
LEMMA SocketsStay ==
  ASSUME TypeOK, RegisteredRan, LiveAreRegistered, active' = active,
         \A c \in Conn : c \in up' => c \in up,
         \A c \in Conn : \/ pc'[c] = pc[c]
                         \/ pc'[c] = "crashed"
                         \/ /\ pc[c] \in {"joining", "greeting", "serving", "busy"}
                            /\ pc'[c] \in {"joining", "greeting", "serving", "busy"}
                         \/ pc[c] = "leaving" /\ pc'[c] = "gone"
  PROVE  RegisteredRan' /\ LiveAreRegistered'
<1>1. ASSUME NEW u \in User, NEW c \in active'[u] PROVE pc'[c] \notin {"off", "leaving", "gone"}
  <2>1. c \in Conn /\ pc[c] \notin {"off", "leaving", "gone"}
    BY DEF TypeOK, RegisteredRan
  <2> QED
    BY <2>1
<1>2. ASSUME NEW c \in Conn, c \in up', pc'[c] \in {"joining", "greeting", "serving", "busy"}
      PROVE  c \in active'[Owner[c]]
  BY <1>2 DEF LiveAreRegistered
<1> QED
  BY <1>1, <1>2 DEF RegisteredRan, LiveAreRegistered

LEMMA HubStep == TypeOK /\ OwnedPresence /\ HubInv /\ [Next]_vars /\ TypeOK' => HubInv'
<1> SUFFICES ASSUME TypeOK, OwnedPresence, HubInv, [Next]_vars, TypeOK' PROVE HubInv'
  OBVIOUS
<1> USE DEF hub
<1>0. /\ JobsAreAwaited /\ FailedAreGone /\ RegisteredRan /\ LiveAreRegistered
      /\ pc \in [Conn -> Endpoint] /\ pc' \in [Conn -> Endpoint]
      /\ inner \in [Task -> Inner] /\ active \in [User -> SUBSET Conn]
      /\ \A j \in Task : inner[j] \in Inner
  BY DEF HubInv, TypeOK
<1>1. ASSUME NEW k \in Task, NextUser(k) PROVE HubInv'
  <2>1. PICK u \in Audience(job[k].kind, active) :
           inner' = [inner EXCEPT ![k] = IF u = job[k].about THEN NoInner ELSE SetOf(u, active)]
    BY <1>1 DEF NextUser
  <2>2. \A j \in Task : inner'[j].failed \subseteq inner[j].failed
    BY <1>0, <2>1 DEF NoInner, SetOf
  <2>3. \A j \in Task : j # k => inner'[j] = inner[j]
    BY <1>0, <2>1
  <2>4. UNCHANGED <<active, up, pc, job>> /\ job[k].kind # "none"
    BY <1>1 DEF NextUser
  <2>5. JobsAreAwaited'
    BY <1>0, <2>3, <2>4 DEF JobsAreAwaited
  <2>6. FailedAreGone'
    BY <1>0, <2>2, <2>4, FailedStayGone
  <2>7. RegisteredRan' /\ LiveAreRegistered'
    BY <1>0, <2>4, SocketsStay
  <2> QED
    BY <2>5, <2>6, <2>7 DEF HubInv
<1>2. ASSUME NEW k \in Task, SendNext(k) PROVE HubInv'
  <2>1. PICK c \in active[inner[k].to], fails \in BOOLEAN :
           /\ fails => c \notin up
           /\ inner' = [inner EXCEPT ![k].seen = @ \cup {c},
                                     ![k].failed = IF fails THEN @ \cup {c} ELSE @]
    BY <1>2 DEF SendNext
  <2>2. UNCHANGED <<active, up, pc, job>> /\ inner[k].to \in User
    BY <1>0, <1>2 DEF SendNext, Inner
  <2>3. c \in Conn /\ pc[c] # "off"
    BY <1>0, <2>2 DEF RegisteredRan
  <2>4. ASSUME NEW j \in Task
        PROVE  /\ inner'[j].to = inner[j].to
               /\ \A d \in inner'[j].failed : d \in inner[j].failed \/ (d = c /\ fails)
    <3>1. CASE j = k
      <4>1. /\ inner'[j].to = inner[j].to
            /\ inner'[j].failed = IF fails THEN inner[j].failed \cup {c} ELSE inner[j].failed
        BY <1>0, <2>1, <3>1 DEF Inner
      <4> QED
        BY <4>1
    <3>2. CASE j # k
      BY <1>0, <2>1, <3>2
    <3> QED
      BY <3>1, <3>2
  <2>5. JobsAreAwaited'
    BY <1>0, <2>2, <2>4 DEF JobsAreAwaited
  <2>6. FailedAreGone'
    BY <1>0, <2>1, <2>2, <2>3, <2>4 DEF FailedAreGone
  <2>7. RegisteredRan' /\ LiveAreRegistered'
    BY <1>0, <2>2, SocketsStay
  <2> QED
    BY <2>5, <2>6, <2>7 DEF HubInv
<1>3. ASSUME NEW k \in Task, UserDone(k) PROVE HubInv'
  <2> DEFINE u == inner[k].to
             S == inner[k].failed
  <2>1. /\ active' = Without(S, u) /\ inner' = [InnerWithout(S, u) EXCEPT ![k] = NoInner]
        /\ UNCHANGED <<up, pc, job>> /\ u \in User
    BY <1>0, <1>3 DEF UserDone, Inner
  <2>2. ASSUME NEW j \in Task
        PROVE  inner'[j].failed \subseteq inner[j].failed /\ inner'[j].to \in {None, inner[j].to}
    <3>1. j # k => inner'[j] = InnerWithout(S, u)[j]
      BY <2>1 DEF InnerWithout
    <3>2. j = k => inner'[j] = NoInner
      BY <2>1 DEF InnerWithout
    <3> QED
      BY <1>0, <3>1, <3>2, InnerWithoutKeeps DEF NoInner
  <2>3. JobsAreAwaited'
    BY <1>0, <2>1, <2>2 DEF JobsAreAwaited
  <2>4. FailedAreGone'
    BY <1>0, <2>1, <2>2, FailedStayGone
  <2>5. ASSUME NEW w \in User PROVE active'[w] \subseteq active[w] /\ active[w] \ S \subseteq active'[w]
    BY <1>0, <2>1 DEF Without
  <2>6. RegisteredRan'
    BY <1>0, <2>1, <2>5 DEF RegisteredRan
  <2>7. \A c \in Conn : c \in up => c \notin S
    BY <1>0 DEF FailedAreGone
  <2>8. LiveAreRegistered'
    <3> SUFFICES ASSUME NEW c \in Conn, c \in up', pc'[c] \in {"joining", "greeting", "serving", "busy"}
                 PROVE  c \in active'[Owner[c]]
      BY DEF LiveAreRegistered
    <3>1. c \in active[Owner[c]] /\ c \notin S /\ Owner[c] \in User
      BY <1>0, <2>1, <2>7, OwnerIsUser DEF LiveAreRegistered
    <3> QED
      BY <2>5, <3>1
  <2> QED
    BY <2>3, <2>4, <2>6, <2>8 DEF HubInv
<1>4. ASSUME NEW k \in Task, JobDone(k) PROVE HubInv'
  <2>1. /\ job[k].kind # "none" /\ UNCHANGED <<active, up>>
        /\ pc' = IF k \in Conn THEN [pc EXCEPT ![k] = AfterJob(k)] ELSE pc
    BY <1>4 DEF JobDone
  <2>2. k \in Conn => pc[k] \in Awaiting
    BY <1>0, <2>1 DEF JobsAreAwaited
  <2>3. /\ \A c \in Conn \ {k} : pc'[c] = pc[c]
        /\ k \in Conn => pc'[k] = AfterJob(k)
    BY <1>0, <2>1
  <2>4. \A c \in Conn : \/ pc'[c] = pc[c]
                        \/ /\ pc[c] \in {"joining", "greeting", "serving", "busy"}
                           /\ pc'[c] \in {"joining", "greeting", "serving", "busy"}
                        \/ pc[c] = "leaving" /\ pc'[c] = "gone"
    BY <2>2, <2>3 DEF AfterJob, Awaiting
  <2>5. RegisteredRan' /\ LiveAreRegistered'
    BY <1>0, <2>1, <2>4, SocketsStay
  <2>6. JobsAreAwaited' /\ \A j \in Task : inner'[j].failed \subseteq inner[j].failed
    <3>1. CASE k \in Conn /\ pc[k] = "joining"
      <4>1. Begin(k, "personal", Owner[k], active, outer, inner)
        BY <1>4, <3>1 DEF JobDone
      <4>2. pc'[k] \in Awaiting /\ Owner[k] \in User
        BY <2>3, <3>1, OwnerIsUser DEF AfterJob, Awaiting
      <4>3. \A j \in Task : inner[j].to = inner[j].to /\ inner[j].failed = inner[j].failed
        OBVIOUS
      <4> QED
        BY <1>0, <2>3, <4>1, <4>2, <4>3, BeginKeepsJobs
    <3>2. CASE ~(k \in Conn /\ pc[k] = "joining")
      <4>1. inner' = inner /\ inner[k].to = None /\ job' = [job EXCEPT ![k] = NoJob]
        BY <1>4, <3>2 DEF JobDone
      <4>2. job'[k].kind = "none" /\ \A j \in Task : j # k => job'[j] = job[j]
        BY <4>1 DEF NoJob, TypeOK
      <4>3. JobsAreAwaited'
        BY <1>0, <2>3, <4>1, <4>2 DEF JobsAreAwaited
      <4> QED
        BY <4>1, <4>3
    <3> QED
      BY <3>1, <3>2
  <2>7. FailedAreGone'
    <3>1. \A c \in Conn : pc[c] # "off" => pc'[c] # "off"
      BY <2>4
    <3> QED
      BY <1>0, <2>1, <2>6, <3>1, FailedStayGone
  <2> QED
    BY <2>5, <2>6, <2>7 DEF HubInv
<1>5. ASSUME NEW k \in Task, Collide(k) PROVE HubInv'
  <2>1. /\ UNCHANGED active /\ up' = up \ {k}
        /\ job' = [job EXCEPT ![k] = NoJob] /\ inner' = [inner EXCEPT ![k] = NoInner]
    BY <1>5 DEF Collide
  <2>2. job[k].kind # "none" \/ inner[k].to # None
    BY <1>5 DEF Collide
  <2>3. k \in Conn => pc[k] \in Awaiting
    BY <1>0, <2>2 DEF JobsAreAwaited
  <2>4. /\ \A c \in Conn \ {k} : pc'[c] = pc[c]
        /\ k \in Conn => pc'[k] = IF pc[k] = "leaving" THEN "gone" ELSE "crashed"
    BY <1>0, <1>5, TasksDiffer DEF Collide
  <2>5. \A c \in Conn : \/ pc'[c] = pc[c]
                        \/ pc'[c] = "crashed"
                        \/ pc[c] = "leaving" /\ pc'[c] = "gone"
    BY <2>4
  <2>6. RegisteredRan' /\ LiveAreRegistered'
    BY <1>0, <2>1, <2>5, SocketsStay
  <2>7. /\ job'[k].kind = "none" /\ inner'[k].to = None /\ inner'[k].failed = {}
        /\ \A j \in Task : j # k => job'[j] = job[j] /\ inner'[j] = inner[j]
    BY <2>1 DEF NoJob, NoInner, TypeOK
  <2>8. JobsAreAwaited'
    BY <1>0, <2>4, <2>7 DEF JobsAreAwaited
  <2>9. \A j \in Task : inner'[j].failed \subseteq inner[j].failed
    BY <2>7
  <2>10. \A c \in Conn : pc[c] # "off" => pc'[c] # "off"
    BY <2>5
  <2>11. FailedAreGone'
    BY <1>0, <2>1, <2>9, <2>10, FailedStayGone
  <2> QED
    BY <2>6, <2>8, <2>11 DEF HubInv
<1>6. ASSUME NEW c \in Conn, Connect(c) PROVE HubInv'
  <2>1. /\ pc[c] = "off" /\ up' = up \cup {c} /\ pc' = [pc EXCEPT ![c] = "joining"]
        /\ active' = [active EXCEPT ![Owner[c]] = @ \cup {c}]
        /\ Begin(c, "presence", Owner[c], active', outer, inner)
        /\ Owner[c] \in User /\ c \in Task
    BY <1>6, OwnerIsUser DEF Connect, Task
  <2>2. pc'[c] = "joining" /\ \A d \in Conn \ {c} : pc'[d] = pc[d]
    BY <1>0, <2>1
  <2>3. pc'[c] \in Awaiting
    BY <2>2 DEF Awaiting
  <2>4. \A j \in Task : inner[j].to = inner[j].to /\ inner[j].failed = inner[j].failed
    OBVIOUS
  <2>5. JobsAreAwaited' /\ \A j \in Task : inner'[j].failed \subseteq inner[j].failed
    BY <1>0, <2>1, <2>2, <2>3, <2>4, BeginKeepsJobs
  <2>6. FailedAreGone'
    BY <1>0, <2>1, <2>2, <2>5, FailedStayGone
  <2>7. ASSUME NEW w \in User
        PROVE  active[w] \subseteq active'[w] /\ active'[w] \subseteq active[w] \cup {c}
    BY <1>0, <2>1
  <2>8. c \in active'[Owner[c]]
    BY <1>0, <2>1
  <2>9. RegisteredRan'
    <3> SUFFICES ASSUME NEW w \in User, NEW d \in active'[w] PROVE pc'[d] \notin {"off", "leaving", "gone"}
      BY DEF RegisteredRan
    <3>1. d = c \/ d \in active[w]
      BY <2>7
    <3>2. CASE d = c
      BY <2>2, <3>2
    <3>3. CASE d # c
      <4>1. d \in Conn /\ pc[d] \notin {"off", "leaving", "gone"}
        BY <1>0, <3>1, <3>3 DEF RegisteredRan
      <4> QED
        BY <2>2, <3>3, <4>1
    <3> QED
      BY <3>2, <3>3
  <2>10. LiveAreRegistered'
    <3> SUFFICES ASSUME NEW d \in Conn, d \in up', pc'[d] \in {"joining", "greeting", "serving", "busy"}
                 PROVE  d \in active'[Owner[d]]
      BY DEF LiveAreRegistered
    <3>1. CASE d = c
      BY <2>8, <3>1
    <3>2. CASE d # c
      <4>1. d \in active[Owner[d]] /\ Owner[d] \in User
        BY <1>0, <2>1, <2>2, <3>2, OwnerIsUser DEF LiveAreRegistered
      <4> QED
        BY <2>7, <4>1
    <3> QED
      BY <3>1, <3>2
  <2> QED
    BY <2>5, <2>6, <2>9, <2>10 DEF HubInv
<1>7. ASSUME NEW c \in Conn, ChangeRoom(c) PROVE HubInv'
  <2>1. UNCHANGED <<active, up, job, inner>> /\ pc[c] = "serving"
    BY <1>7 DEF ChangeRoom
  <2>2. pc' = pc \/ pc' = [pc EXCEPT ![c] = "crashed"]
    BY <1>7, Zenon DEF ChangeRoom
  <2>3. (\A d \in Conn \ {c} : pc'[d] = pc[d]) /\ (pc'[c] = pc[c] \/ pc'[c] = "crashed")
    BY <1>0, <2>2
  <2>4. \A d \in Conn : pc'[d] = pc[d] \/ pc'[d] = "crashed"
    BY <2>3
  <2>5. RegisteredRan' /\ LiveAreRegistered'
    BY <1>0, <2>1, <2>4, SocketsStay
  <2>6. \A d \in Conn : pc[d] \in Awaiting => pc'[d] = pc[d]
    BY <2>1, <2>3 DEF Awaiting
  <2>7. JobsAreAwaited'
    BY <1>0, <2>1, <2>6 DEF JobsAreAwaited
  <2>8. FailedAreGone'
    BY <1>0, <2>1, <2>4, FailedStayGone
  <2> QED
    BY <2>5, <2>7, <2>8 DEF HubInv
<1>8. ASSUME NEW c \in Conn, Announce(c) PROVE HubInv'
  <2>1. PICK kind \in {"room", "presence"} : Begin(c, kind, Owner[c], active, outer, inner)
    BY <1>8 DEF Announce
  <2>2. /\ pc[c] = "serving" /\ pc' = [pc EXCEPT ![c] = "busy"] /\ UNCHANGED <<active, up>>
        /\ Owner[c] \in User /\ c \in Task
    BY <1>8, OwnerIsUser DEF Announce, Task
  <2>3. pc'[c] = "busy" /\ \A d \in Conn \ {c} : pc'[d] = pc[d]
    BY <1>0, <2>2
  <2>4. pc'[c] \in Awaiting
    BY <2>3 DEF Awaiting
  <2>5. \A j \in Task : inner[j].to = inner[j].to /\ inner[j].failed = inner[j].failed
    OBVIOUS
  <2>6. JobsAreAwaited' /\ \A j \in Task : inner'[j].failed \subseteq inner[j].failed
    BY <1>0, <2>1, <2>2, <2>3, <2>4, <2>5, BeginKeepsJobs
  <2>7. RegisteredRan' /\ LiveAreRegistered'
    BY <1>0, <2>2, <2>3, SocketsStay
  <2>8. FailedAreGone'
    BY <1>0, <2>2, <2>3, <2>6, FailedStayGone
  <2> QED
    BY <2>6, <2>7, <2>8 DEF HubInv
<1>9. ASSUME NEW c \in Conn, Leave(c) PROVE HubInv'
  <2> DEFINE u == Owner[c]
  <2>1. /\ pc[c] = "serving" /\ c \notin up /\ up' = up /\ pc' = [pc EXCEPT ![c] = "leaving"]
        /\ active' = Without({c}, u) /\ u \in User /\ c \in Task
        /\ Begin(c, "presence", u, active', OuterWithout({c}, u), InnerWithout({c}, u))
    BY <1>9, OwnerIsUser DEF Leave, Task
  <2>2. pc'[c] = "leaving" /\ \A d \in Conn \ {c} : pc'[d] = pc[d]
    BY <1>0, <2>1
  <2>3. pc'[c] \in Awaiting
    BY <2>2 DEF Awaiting
  <2>4. \A j \in Task : /\ InnerWithout({c}, u)[j].to = inner[j].to
                        /\ InnerWithout({c}, u)[j].failed = inner[j].failed
    BY <1>0, InnerWithoutKeeps
  <2>5. InnerWithout({c}, u) \in [Task -> Inner]
    BY <2>1, InnerWithoutType
  <2>6. JobsAreAwaited' /\ \A j \in Task : inner'[j].failed \subseteq inner[j].failed
    BY <1>0, <2>1, <2>2, <2>3, <2>4, <2>5, BeginKeepsJobs
  <2>7. FailedAreGone'
    BY <1>0, <2>1, <2>2, <2>6, FailedStayGone
  <2>8. ASSUME NEW w \in User
        PROVE  active'[w] \subseteq active[w] /\ active[w] \ {c} \subseteq active'[w] /\ c \notin active'[w]
    <3>1. c \in active[w] => w = u
      BY DEF OwnedPresence, SocketsOfTheirOwner
    <3> QED
      BY <1>0, <2>1, <3>1 DEF Without
  <2>9. RegisteredRan'
    <3> SUFFICES ASSUME NEW w \in User, NEW d \in active'[w] PROVE pc'[d] \notin {"off", "leaving", "gone"}
      BY DEF RegisteredRan
    <3>1. d # c /\ d \in Conn /\ pc[d] \notin {"off", "leaving", "gone"}
      BY <1>0, <2>8 DEF RegisteredRan
    <3> QED
      BY <2>2, <3>1
  <2>10. LiveAreRegistered'
    <3> SUFFICES ASSUME NEW d \in Conn, d \in up', pc'[d] \in {"joining", "greeting", "serving", "busy"}
                 PROVE  d \in active'[Owner[d]]
      BY DEF LiveAreRegistered
    <3>1. d # c
      BY <2>1
    <3>2. d \in active[Owner[d]] /\ Owner[d] \in User
      BY <1>0, <2>1, <2>2, <3>1, OwnerIsUser DEF LiveAreRegistered
    <3> QED
      BY <2>8, <3>1, <3>2
  <2> QED
    BY <2>6, <2>7, <2>9, <2>10 DEF HubInv
<1>10. ASSUME NEW c \in Conn, ClientGone(c) PROVE HubInv'
  <2>1. UNCHANGED <<active, pc, job, inner>> /\ up' = up \ {c}
    BY <1>10 DEF ClientGone, loops
  <2> QED
    BY <1>0, <2>1 DEF HubInv, JobsAreAwaited, FailedAreGone, RegisteredRan, LiveAreRegistered
<1>11. ASSUME NEW s \in Sender, Notify(s) PROVE HubInv'
  <2>1. PICK kind \in {"personal", "room"}, u \in User : Begin(s, kind, u, active, outer, inner)
    BY <1>11 DEF Notify
  <2>2. UNCHANGED <<active, up, pc>> /\ s \in Task /\ s \notin Conn
    BY <1>11, TasksDiffer DEF Notify, Task
  <2>3. \A j \in Task : inner[j].to = inner[j].to /\ inner[j].failed = inner[j].failed
    OBVIOUS
  <2>4. JobsAreAwaited' /\ \A j \in Task : inner'[j].failed \subseteq inner[j].failed
    BY <1>0, <2>1, <2>2, <2>3, BeginKeepsJobs
  <2>5. RegisteredRan' /\ LiveAreRegistered'
    BY <1>0, <2>2, SocketsStay
  <2>6. FailedAreGone'
    BY <1>0, <2>2, <2>4, FailedStayGone
  <2> QED
    BY <2>4, <2>5, <2>6 DEF HubInv
<1>12. CASE UNCHANGED vars
  BY <1>12 DEF vars, loops, HubInv, JobsAreAwaited, FailedAreGone, RegisteredRan, LiveAreRegistered
<1> QED
  BY <1>1, <1>2, <1>3, <1>4, <1>5, <1>6, <1>7, <1>8, <1>9, <1>10, <1>11, <1>12 DEF Next, Work

(* Only sockets whose endpoints run or broke off are registered, and no    *)
(* job of another coroutine unregisters the socket of a client that is     *)
(* being served.                                                           *)
THEOREM ServedStayRegistered == Spec => []ServedIsRegistered
<1>1. Init => HubInv
  BY DEF Init, NoJob, NoInner, HubInv, JobsAreAwaited, FailedAreGone, RegisteredRan, LiveAreRegistered
<1>2. HubInv => ServedIsRegistered
  BY OwnerIsUser DEF HubInv, RegisteredRan, LiveAreRegistered, ServedIsRegistered
<1> QED
  BY <1>1, <1>2, HubStep, TypeCorrect, OwnedPresenceHolds, PTL DEF Spec

=============================================================================
