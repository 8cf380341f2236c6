------------------------- MODULE OfflineQueueProofs -------------------------
(***************************************************************************)
(* What holds of the offline queue for any number of calls, requests,      *)
(* retries, failures and restarts: the invariants of OfflineQueue, and     *)
(* that AsyncStorage holds an Outbox.                                      *)
(*                                                                         *)
(* The argument follows a chain: what is stored now, and what each pending *)
(* setItem call will store.  Its end is the queue, so what holds along the *)
(* whole chain holds whichever part of it a restart finds.                 *)
(***************************************************************************)
EXTENDS OfflineQueue, FiniteSetTheorems, WellFoundedInduction, TLAPS

-----------------------------------------------------------------------------
(* Induction over numbers, and Array.filter.                               *)

(* A set of numbers that is not empty has a least one.                     *)
LEMMA Least ==
  ASSUME NEW T \in SUBSET Nat, T # {}
  PROVE  \E n \in T : \A m \in T : n <= m
<1> DEFINE R == {ss \in Nat \X Nat : ss[1] < ss[2]}
<1>1. IsWellFoundedOn(R, Nat)
  BY NatLessThanWellFounded, Zenon DEF OpToRel
<1>2. \E n \in T : \A m \in T : <<m, n>> \notin R
  <2> HIDE DEF R
  <2> QED
    BY <1>1, WFMin
<1>3. PICK n \in T : \A m \in T : <<m, n>> \notin R
  BY <1>2
<1>4. \A m \in T : m \in Nat /\ n \in Nat /\ ~ (m < n)
  <2>1. \A m \in T : <<m, n>> \in Nat \X Nat
    OBVIOUS
  <2>2. \A m \in T : ~ (<<m, n>>[1] < <<m, n>>[2])
    BY <1>3, <2>1
  <2> QED
    BY <2>2
<1> QED
  BY <1>4

(* A set of the numbers up to N that holds 0, and each number whose        *)
(* predecessor it holds, holds them all.                                   *)
LEMMA Induction ==
  ASSUME NEW N \in Nat, NEW T \in SUBSET (0..N), 0 \in T,
         \A n \in 1..N : n - 1 \in T => n \in T
  PROVE  T = 0..N
<1>1. ASSUME (0..N) \ T # {} PROVE FALSE
  <2>1. PICK n \in (0..N) \ T : \A m \in (0..N) \ T : n <= m
    <3> DEFINE U == (0..N) \ T
    <3>1. U \in SUBSET Nat /\ U # {}
      BY <1>1
    <3> HIDE DEF U
    <3>2. \E n \in U : \A m \in U : n <= m
      BY <3>1, Least
    <3> QED
      BY <3>2 DEF U
  <2>2. n \in 1..N /\ n - 1 \in 0..N
    BY <2>1
  <2>3. n - 1 \in T
    BY <2>1, <2>2
  <2> QED
    BY <2>1, <2>2, <2>3
<1> QED
  BY <1>1

(* f is the function by which Without(q, S) is defined, of the first m     *)
(* elements.                                                               *)
Keeps(q, S, f, m) ==
  f = [n \in 0..m |-> IF n = 0 THEN <<>>
                      ELSE IF q[n] \in S THEN f[n - 1] ELSE Append(f[n - 1], q[n])]

(* The function by which Without is defined is there for every sequence.   *)
LEMMA KeepsExists ==
  ASSUME NEW q \in Seq(Entry), NEW S
  PROVE  \E f : Keeps(q, S, f, Len(q))
<1> DEFINE N == Len(q)
           T == {m \in 0..N : \E f : Keeps(q, S, f, m)}
<1>1. N \in Nat
  OBVIOUS
<1>2. 0 \in T
  <2> DEFINE f == [n \in 0..0 |-> <<>>]
  <2>1. f = [n \in 0..0 |-> IF n = 0 THEN <<>>
                      ELSE IF q[n] \in S THEN f[n - 1] ELSE Append(f[n - 1], q[n])]
    OBVIOUS
  <2> HIDE DEF f
  <2>2. Keeps(q, S, f, 0)
    BY <2>1 DEF Keeps
  <2> QED
    BY <1>1, <2>2
<1>3. ASSUME NEW m \in 1..N, m - 1 \in T PROVE m \in T
  <2>1. PICK g : Keeps(q, S, g, m - 1)
    BY <1>3
  <2> DEFINE G(n) == IF q[n] \in S THEN g[n - 1] ELSE Append(g[n - 1], q[n])
             f == [n \in 0..m |-> IF n = 0 THEN <<>> ELSE G(n)]
  <2>2. \A n \in 0..(m - 1) : f[n] = g[n]
    <3>1. \A n \in 0..(m - 1) : n \in 0..m
      OBVIOUS
    <3>2. \A n \in 0..(m - 1) : g[n] = IF n = 0 THEN <<>> ELSE G(n)
      BY <2>1 DEF Keeps
    <3> HIDE DEF G
    <3> QED
      BY <3>1, <3>2
  <2>3. \A n \in 1..m : n - 1 \in 0..(m - 1)
    OBVIOUS
  <2>4. \A n \in 1..m : G(n) = IF q[n] \in S THEN f[n - 1] ELSE Append(f[n - 1], q[n])
    <3> HIDE DEF f
    <3> QED
      BY <2>2, <2>3
  <2>5. f = [n \in 0..m |-> IF n = 0 THEN <<>>
                      ELSE IF q[n] \in S THEN f[n - 1] ELSE Append(f[n - 1], q[n])]
    <3> HIDE DEF G
    <3>1. \A n \in 0..m : n # 0 => n \in 1..m
      OBVIOUS
    <3>2. f = [n \in 0..m |-> IF n = 0 THEN <<>> ELSE G(n)]
      OBVIOUS
    <3> HIDE DEF f
    <3> QED
      BY <2>4, <3>1, <3>2
  <2>6. Keeps(q, S, f, m)
    BY <2>5 DEF Keeps
  <2> HIDE DEF f
  <2> QED
    BY <2>6
<1>4. T \in SUBSET (0..N)
  OBVIOUS
<1> HIDE DEF T, N
<1>5. T = 0..N
  BY <1>1, <1>2, <1>3, <1>4, Induction
<1> QED
  BY <1>1, <1>5 DEF T, N

(* Without is its last value.                                              *)
LEMMA WithoutIs ==
  ASSUME NEW q \in Seq(Entry), NEW S
  PROVE  \E f : Keeps(q, S, f, Len(q)) /\ Without(q, S) = f[Len(q)]
<1> DEFINE f == CHOOSE f : Keeps(q, S, f, Len(q))
<1>1. Keeps(q, S, f, Len(q))
  BY KeepsExists
<1>2. Without(q, S) = f[Len(q)]
  BY DEF Without, Keeps
<1> QED
  BY <1>1, <1>2

(* Ids ascend.                                                             *)
Asc(q) == \A i, j \in DOMAIN q : i < j => q[i] < q[j]

(* r is what is left of the first n elements.                              *)
Filters(q, S, n, r) ==
    /\ r \in Seq(Entry)
    /\ \A k \in DOMAIN r : \E i \in 1..n : q[i] = r[k] /\ q[i] \notin S
    /\ \A i \in 1..n : q[i] \notin S => \E k \in DOMAIN r : r[k] = q[i]
    /\ Asc(q) => Asc(r)
    /\ n > 0 /\ q[1] \notin S => r # <<>> /\ r[1] = q[1]

(* One more element filtered.                                              *)
LEMMA FiltersNext ==
  ASSUME NEW q \in Seq(Entry), NEW S, NEW n \in 1..Len(q), NEW r, Filters(q, S, n - 1, r)
  PROVE  Filters(q, S, n, IF q[n] \in S THEN r ELSE Append(r, q[n]))
<1>1. /\ r \in Seq(Entry) /\ q[n] \in Entry /\ DOMAIN q = 1..Len(q) /\ Len(q) \in Nat
      /\ DOMAIN r = 1..Len(r) /\ Len(r) \in Nat /\ n \in Nat
  BY DEF Filters
<1>2. \A i \in 1..n : i # n => i \in 1..(n - 1)
  BY <1>1
<1>3. \A i \in 1..(n - 1) : i \in 1..n
  BY <1>1
<1>4. ASSUME q[n] \in S PROVE Filters(q, S, n, r)
  BY <1>1, <1>2, <1>3, <1>4 DEF Filters
<1>5. ASSUME q[n] \notin S PROVE Filters(q, S, n, Append(r, q[n]))
  <2> DEFINE a == Append(r, q[n])
  <2>1. /\ a \in Seq(Entry) /\ Len(a) = Len(r) + 1 /\ DOMAIN a = 1..(Len(r) + 1)
        /\ a[Len(r) + 1] = q[n] /\ \A k \in 1..Len(r) : a[k] = r[k]
    BY <1>1
  <2> HIDE DEF a
  <2>2. \A k \in DOMAIN a : k = Len(r) + 1 \/ k \in DOMAIN r
    BY <1>1, <2>1
  <2>3. \A k \in DOMAIN a : \E i \in 1..n : q[i] = a[k] /\ q[i] \notin S
    <3> TAKE k \in DOMAIN a
    <3>1. CASE k = Len(r) + 1
      BY <1>1, <1>5, <2>1, <3>1
    <3>2. CASE k \in DOMAIN r
      <4>1. PICK i \in 1..(n - 1) : q[i] = r[k] /\ q[i] \notin S
        BY <3>2 DEF Filters
      <4> QED
        BY <1>1, <1>3, <2>1, <3>2, <4>1
    <3> QED
      BY <2>2, <3>1, <3>2
  <2>4. \A i \in 1..n : q[i] \notin S => \E k \in DOMAIN a : a[k] = q[i]
    <3> SUFFICES ASSUME NEW i \in 1..n, q[i] \notin S PROVE \E k \in DOMAIN a : a[k] = q[i]
      OBVIOUS
    <3>1. CASE i = n
      BY <1>1, <2>1, <3>1
    <3>2. CASE i # n
      <4>1. PICK k \in DOMAIN r : r[k] = q[i]
        BY <1>2, <3>2 DEF Filters
      <4>2. k \in DOMAIN a
        BY <1>1, <2>1
      <4> QED
        BY <1>1, <2>1, <4>1, <4>2
    <3> QED
      BY <3>1, <3>2
  <2>5. Asc(q) => Asc(a)
    <3> SUFFICES ASSUME Asc(q), NEW k \in DOMAIN a, NEW l \in DOMAIN a, k < l PROVE a[k] < a[l]
      BY DEF Asc
    <3>1. k \in DOMAIN r
      BY <1>1, <2>1
    <3>2. CASE l \in DOMAIN r
      BY <1>1, <2>1, <3>1, <3>2 DEF Filters, Asc
    <3>3. CASE l = Len(r) + 1
      <4>1. PICK i \in 1..(n - 1) : q[i] = r[k]
        BY <3>1 DEF Filters
      <4>2. q[i] < q[n]
        BY <1>1, <4>1 DEF Asc
      <4> QED
        BY <1>1, <2>1, <3>1, <3>3, <4>1, <4>2
    <3> QED
      BY <2>2, <3>2, <3>3
  <2>6. q[1] \notin S => a # <<>> /\ a[1] = q[1]
    <3>1. a # <<>>
      BY <1>1, <2>1
    <3>2. CASE n = 1
      <4>1. r = <<>>
        <5>1. DOMAIN r = {}
          BY <3>2 DEF Filters
        <5> QED
          BY <1>1, <5>1
      <4> QED
        BY <2>1, <3>1, <3>2, <4>1
    <3>3. CASE n # 1
      <4>1. q[1] \notin S => r # <<>> /\ r[1] = q[1]
        BY <1>1, <3>3 DEF Filters
      <4>2. r # <<>> => 1 \in 1..Len(r)
        BY <1>1
      <4> QED
        BY <2>1, <3>1, <4>1, <4>2
    <3> QED
      BY <3>2, <3>3
  <2>7. Filters(q, S, n, a)
    BY <2>1, <2>3, <2>4, <2>5, <2>6 DEF Filters
  <2> QED
    BY <2>7 DEF a
<1> QED
  BY <1>4, <1>5

(* Without filters the whole sequence.                                     *)
LEMMA WithoutFilters ==
  ASSUME NEW q \in Seq(Entry), NEW S
  PROVE  Filters(q, S, Len(q), Without(q, S))
<1>1. PICK f : Keeps(q, S, f, Len(q)) /\ Without(q, S) = f[Len(q)]
  BY WithoutIs
<1> DEFINE N == Len(q)
           T == {n \in 0..N : Filters(q, S, n, f[n])}
<1>2. N \in Nat
  OBVIOUS
<1>3. \A n \in 0..N : f[n] = IF n = 0 THEN <<>>
                      ELSE IF q[n] \in S THEN f[n - 1] ELSE Append(f[n - 1], q[n])
  BY <1>1 DEF Keeps
<1>4. 0 \in T
  <2>1. f[0] = <<>>
    BY <1>2, <1>3
  <2>2. Filters(q, S, 0, <<>>)
    BY DEF Filters, Asc
  <2> QED
    BY <1>2, <2>1, <2>2
<1>5. ASSUME NEW n \in 1..N, n - 1 \in T PROVE n \in T
  <2>1. Filters(q, S, n - 1, f[n - 1])
    BY <1>5
  <2>2. f[n] = IF q[n] \in S THEN f[n - 1] ELSE Append(f[n - 1], q[n])
    BY <1>2, <1>3
  <2>3. Filters(q, S, n, f[n])
    BY <2>1, <2>2, FiltersNext
  <2> QED
    BY <1>2, <2>3
<1>6. T \in SUBSET (0..N)
  OBVIOUS
<1> HIDE DEF T, N
<1>7. T = 0..N
  BY <1>2, <1>4, <1>5, <1>6, Induction
<1>8. Filters(q, S, N, f[N])
  BY <1>2, <1>7 DEF T
<1> QED
  BY <1>1, <1>8 DEF N

(* What Array.filter keeps: all that is not in S, in order; and the head,  *)
(* unless it is in S.                                                      *)
LEMMA WithoutKeeps ==
  ASSUME NEW q \in Seq(Entry), NEW S
  PROVE  /\ Without(q, S) \in Seq(Entry)
         /\ Ids(Without(q, S)) = Ids(q) \ S
         /\ Asc(q) => Asc(Without(q, S))
         /\ q # <<>> /\ Head(q) \notin S =>
               Without(q, S) # <<>> /\ Head(Without(q, S)) = Head(q)
<1> DEFINE r == Without(q, S)
<1>1. Filters(q, S, Len(q), r)
  BY WithoutFilters
<1> HIDE DEF r
<1>2. Ids(r) = Ids(q) \ S
  <2>1. DOMAIN q = 1..Len(q)
    OBVIOUS
  <2>2. \A k \in DOMAIN r : \E i \in DOMAIN q : r[k] = q[i] /\ q[i] \notin S
    BY <1>1, <2>1, Zenon DEF Filters
  <2>3. \A i \in DOMAIN q : q[i] \notin S => \E k \in DOMAIN r : q[i] = r[k]
    BY <1>1, <2>1, Zenon DEF Filters
  <2> QED
    BY <2>2, <2>3 DEF Ids
<1>3. q # <<>> => Len(q) > 0 /\ Head(q) = q[1]
  OBVIOUS
<1>4. r \in Seq(Entry)
  BY <1>1 DEF Filters
<1>5. r # <<>> => Head(r) = r[1]
  BY <1>4
<1> QED
  BY <1>1, <1>2, <1>3, <1>4, <1>5 DEF Filters, r

-----------------------------------------------------------------------------
(* The basic facts.                                                        *)

(* Steps of a call, records of calls and of setItem calls.                 *)
Sending == {"exec", "clone"}
Saving  == {"addSave", "shiftSave", "retrySave"}
Call    == [at : Step, req : 0..MaxEntries, copier : Task \cup {None}]
Write   == [by : Task \cup {None}, snap : Snapshots]

(* A queue: ids of requests made, ascending; and a snapshot of one, whose  *)
(* requests are not given up.                                              *)
Ordered(q, m) == q \in Seq(Entry) /\ Asc(q) /\ \A i \in DOMAIN q : q[i] <= m
Sound(s, m) ==
    s \in Snapshots /\ Ordered(IdsOf(s), m) /\ \A i \in DOMAIN s : s[i].retry < MaxRetries

(* The basic facts, one variable or two at a time. A request that is sent  *)
(* is the head of the queue if it is in the queue at all.                  *)
QueueOK == made \in 0..MaxEntries /\ Ordered(queue, made)
RetryOK ==
    /\ retry \in [Entry -> Nat]
    /\ \A e \in Ids(queue) : retry[e] < MaxRetries
    /\ \A e \in Entry : e > made => retry[e] = 0
CallType == call \in [Task -> Call]
HeadIf(e) == e \in Ids(queue) => queue[1] = e
SendOK ==
    \A t \in Task : call[t].at \in Sending => call[t].req \in 1..made /\ HeadIf(call[t].req)
AddOK == \A t \in Task : call[t].at = "addSave" => call[t].req \in 1..made
StoreOK ==
    /\ \A s \in {stored, loaded} : s = None \/ Sound(s, made)
    /\ writes \in Seq(Write) /\ \A k \in DOMAIN writes : Sound(writes[k].snap, made)
WritesOK ==
    \A k \in DOMAIN writes : writes[k].by \in Task =>
        /\ call[writes[k].by].at \in Saving
        /\ \A l \in DOMAIN writes : writes[l].by = writes[k].by => l = k
        /\ call[writes[k].by].at = "addSave" =>
              call[writes[k].by].req \in Ids(IdsOf(writes[k].snap))
ApartOK ==
    loading /\ loaded # None =>
        /\ Ids(queue) \cap Ids(IdsOf(loaded)) = {}
        /\ \A t \in Task : call[t].at \in Sending => call[t].req \notin Ids(IdsOf(loaded))
PastOK == processed \cup answered \cup accepted \cup removed \subseteq 1..made
FlagsOK == isProcessing \in BOOLEAN /\ isOnline \in BOOLEAN /\ loading \in BOOLEAN /\ link \in BOOLEAN

Basic ==
    /\ QueueOK /\ RetryOK /\ CallType /\ SendOK /\ AddOK
    /\ StoreOK /\ WritesOK /\ ApartOK /\ PastOK /\ FlagsOK

(* What SomeRetries says of each constant.                                 *)
LEMMA Numbers == MaxRetries \in Nat /\ MaxRetries > 0 /\ MaxEntries \in Nat
BY SomeRetries

-----------------------------------------------------------------------------
(* Snapshots *)

(* The ids of a snapshot make a queue of its length.                       *)
LEMMA IdsOfSnapshot ==
  ASSUME NEW s \in Snapshots
  PROVE  /\ IdsOf(s) \in Seq(Entry) /\ DOMAIN IdsOf(s) = DOMAIN s
         /\ \A i \in DOMAIN s : s[i].id \in Entry /\ s[i].retry \in Nat /\ IdsOf(s)[i] = s[i].id
<1> DEFINE R == [id : Entry, retry : Nat]
<1>0. s \in Seq(R)
  BY DEF Snapshots
<1>1. \A i \in DOMAIN s : s[i] \in R
  <2> HIDE DEF R
  <2> QED
    BY <1>0
<1>2. DOMAIN s = 1..Len(s) /\ Len(s) \in Nat
  <2> HIDE DEF R
  <2> QED
    BY <1>0
<1>3. IdsOf(s) = [i \in 1..Len(s) |-> s[i].id]
  BY <1>2 DEF IdsOf
<1>4. \A i \in 1..Len(s) : s[i].id \in Entry /\ s[i].retry \in Nat
  BY <1>1, <1>2
<1> QED
  BY <1>2, <1>3, <1>4

(* A sound snapshot stays one as ids are given.                            *)
LEMMA SoundStays ==
  ASSUME NEW m \in Nat, NEW n \in Nat, m <= n, NEW s, Sound(s, m)
  PROVE  Sound(s, n)
<1> DEFINE q == IdsOf(s)
<1>1. s \in Snapshots
  BY DEF Sound
<1>2. \A i \in DOMAIN s : q[i] \in Entry /\ DOMAIN q = DOMAIN s
  BY <1>1, IdsOfSnapshot
<1>3. Ordered(q, m)
  BY DEF Sound
<1> HIDE DEF q
<1>4. \A i \in DOMAIN q : q[i] <= n
  BY <1>2, <1>3, Numbers DEF Ordered, Entry
<1>5. Ordered(q, n)
  BY <1>3, <1>4 DEF Ordered
<1> QED
  BY <1>5 DEF Sound, q

(* saveQueue appends one sound snapshot of the new queue.                  *)
LEMMA SaveIs ==
  ASSUME QueueOK', RetryOK', NEW b \in Task \cup {None}, Save(b)
  PROVE  \E s : /\ writes' = Append(writes, [by |-> b, snap |-> s])
                /\ s \in Snapshots /\ IdsOf(s) = queue' /\ Sound(s, made')
<1> DEFINE s == [i \in DOMAIN queue' |-> [id |-> queue'[i], retry |-> retry'[queue'[i]]]]
<1>1. writes' = Append(writes, [by |-> b, snap |-> s])
  BY DEF Save
<1>2. queue' \in Seq(Entry) /\ DOMAIN queue' = 1..Len(queue') /\ Len(queue') \in Nat
  BY DEF QueueOK, Ordered
<1>3. \A i \in DOMAIN queue' : queue'[i] \in Entry /\ queue'[i] \in Ids(queue')
  BY <1>2 DEF Ids
<1>4. \A i \in DOMAIN queue' : /\ [id |-> queue'[i], retry |-> retry'[queue'[i]]] \in [id : Entry, retry : Nat]
                               /\ retry'[queue'[i]] < MaxRetries
  BY <1>3 DEF RetryOK
<1>5. s \in Snapshots
  BY <1>2, <1>4 DEF Snapshots
<1>6. IdsOf(s) = queue'
  <2>1. IdsOf(s) = [i \in 1..Len(queue') |-> queue'[i]]
    BY <1>2 DEF IdsOf
  <2> QED
    BY <1>2, <2>1
<1>7. \A i \in DOMAIN s : s[i].retry < MaxRetries
  BY <1>4
<1> HIDE DEF s
<1>8. Sound(s, made')
  BY <1>5, <1>6, <1>7 DEF Sound, QueueOK
<1> QED
  BY <1>1, <1>5, <1>6, <1>8

-----------------------------------------------------------------------------
(* The queue *)

(* What QueueOK says of the queue's places and ids.                        *)
LEMMA QueueIs ==
  ASSUME QueueOK
  PROVE  /\ made \in Nat /\ made <= MaxEntries /\ queue \in Seq(Entry)
         /\ DOMAIN queue = 1..Len(queue) /\ Len(queue) \in Nat
         /\ \A i \in DOMAIN queue : queue[i] \in Entry /\ queue[i] \in 1..made /\ queue[i] \in Ids(queue)
         /\ \A e \in Ids(queue) : e \in Entry /\ e \in 1..made
         /\ queue # <<>> => /\ 1 \in DOMAIN queue /\ Head(queue) = queue[1]
                            /\ queue[1] \in Ids(queue)
<1>1. made \in Nat /\ made <= MaxEntries /\ queue \in Seq(Entry)
  BY Numbers DEF QueueOK, Ordered
<1>2. DOMAIN queue = 1..Len(queue) /\ Len(queue) \in Nat
  BY <1>1
<1>3. \A i \in DOMAIN queue : queue[i] \in Entry
  BY <1>1
<1>4. \A i \in DOMAIN queue : queue[i] \in 1..made
  BY <1>1, <1>3 DEF Entry, QueueOK, Ordered
<1> QED
  BY <1>1, <1>2, <1>3, <1>4 DEF Ids

(* What could only be the head still could be nothing else.                *)
HeadStays == \A e \in 1..made : HeadIf(e) => HeadIf(e)'

(* push in addToQueue: the newest id comes last.                           *)
LEMMA PushQueue ==
  ASSUME QueueOK, RetryOK, made < MaxEntries, made' = made + 1,
         queue' = Append(queue, made + 1), retry' = retry
  PROVE  /\ QueueOK' /\ RetryOK' /\ HeadStays
         /\ Ids(queue') = Ids(queue) \cup {made + 1}
<1> USE QueueIs
<1>1. made + 1 \in Entry /\ made' \in 0..MaxEntries
  BY Numbers DEF Entry
<1>2. /\ queue' \in Seq(Entry) /\ Len(queue') = Len(queue) + 1
      /\ DOMAIN queue' = 1..(Len(queue) + 1)
      /\ queue'[Len(queue) + 1] = made + 1
      /\ \A i \in DOMAIN queue : queue'[i] = queue[i]
  BY <1>1
<1>3. \A i \in DOMAIN queue' : i \in DOMAIN queue \/ i = Len(queue) + 1
  BY <1>2
<1>4. Asc(queue')
  <2> SUFFICES ASSUME NEW i \in DOMAIN queue', NEW j \in DOMAIN queue', i < j
               PROVE  queue'[i] < queue'[j]
    BY DEF Asc
  <2>1. i \in DOMAIN queue
    BY <1>2
  <2>2. CASE j \in DOMAIN queue
    BY <1>2, <2>1, <2>2 DEF QueueOK, Ordered, Asc
  <2>3. CASE j = Len(queue) + 1
    BY <1>2, <2>1, <2>3
  <2> QED
    BY <1>3, <2>2, <2>3
<1>5. \A i \in DOMAIN queue' : queue'[i] <= made'
  BY <1>2, <1>3
<1>6. QueueOK'
  BY <1>1, <1>2, <1>4, <1>5 DEF QueueOK, Ordered
<1>7. Ids(queue') = Ids(queue) \cup {made + 1}
  <2>1. \A i \in DOMAIN queue' : queue'[i] \in Ids(queue) \cup {made + 1}
    BY <1>2, <1>3
  <2>2. \A i \in DOMAIN queue : i \in DOMAIN queue' /\ queue'[i] = queue[i]
    BY <1>2
  <2>3. Len(queue) + 1 \in DOMAIN queue'
    BY <1>2
  <2> QED
    BY <1>2, <2>1, <2>2, <2>3 DEF Ids
<1>8. RetryOK'
  <2>1. \A e \in Ids(queue') : retry[e] < MaxRetries
    BY <1>1, <1>7, Numbers DEF RetryOK
  <2>2. \A e \in Entry : e > made' => e > made
    BY DEF Entry
  <2> QED
    BY <2>1, <2>2 DEF RetryOK
<1>9. HeadStays
  <2> SUFFICES ASSUME NEW e \in 1..made, HeadIf(e), e \in Ids(queue') PROVE queue'[1] = e
    BY DEF HeadStays, HeadIf
  <2>1. e \in Ids(queue)
    BY <1>7
  <2>2. queue # <<>>
    BY <2>1 DEF Ids
  <2> QED
    BY <1>2, <2>1, <2>2 DEF HeadIf
<1> QED
  BY <1>6, <1>7, <1>8, <1>9

(* shift in processQueue: the head goes, and a request that could only be  *)
(* the head is gone.                                                       *)
LEMMA ShiftQueue ==
  ASSUME QueueOK, made' = made, queue' = Shift(queue)
  PROVE  /\ QueueOK' /\ HeadStays
         /\ Ids(queue') \subseteq Ids(queue)
         /\ \A e : HeadIf(e) => e \notin Ids(queue')
         /\ \A e \in Ids(queue) \ Ids(queue') : e = queue[1]
<1> USE QueueIs
<1>1. CASE queue = <<>>
  <2>1. queue' = queue /\ Ids(queue) = {}
    BY <1>1 DEF Shift, Ids
  <2> QED
    BY <2>1 DEF HeadStays, HeadIf, QueueOK, Ordered
<1>2. CASE queue # <<>>
  <2>1. /\ queue' \in Seq(Entry) /\ DOMAIN queue' = 1..(Len(queue) - 1)
        /\ \A i \in 1..(Len(queue) - 1) : queue'[i] = queue[i + 1]
    BY <1>2 DEF Shift
  <2>2. \A i \in DOMAIN queue' : i + 1 \in DOMAIN queue /\ i \in Nat
    BY <2>1
  <2>3. \A i \in DOMAIN queue' : queue'[i] = queue[i + 1]
    BY <2>1
  <2>4. Asc(queue')
    <3> SUFFICES ASSUME NEW i \in DOMAIN queue', NEW j \in DOMAIN queue', i < j
                 PROVE  queue'[i] < queue'[j]
      BY DEF Asc
    <3>1. i + 1 < j + 1
      BY <2>2
    <3> QED
      BY <2>2, <2>3, <3>1 DEF QueueOK, Ordered, Asc
  <2>5. QueueOK'
    BY <2>1, <2>2, <2>3, <2>4 DEF QueueOK, Ordered
  <2>6. Ids(queue') \subseteq Ids(queue)
    BY <2>2, <2>3 DEF Ids
  <2>7. \A i \in DOMAIN queue' : queue[1] < queue'[i]
    <3> TAKE i \in DOMAIN queue'
    <3>1. 1 < i + 1
      BY <2>1
    <3> QED
      BY <1>2, <2>2, <2>3, <3>1 DEF QueueOK, Ordered, Asc
  <2>8. queue[1] \notin Ids(queue')
    <3>1. \A i \in DOMAIN queue' : queue'[i] # queue[1]
      <4> TAKE i \in DOMAIN queue'
      <4>1. queue[1] \in Nat
        BY <1>2
      <4> QED
        BY <2>7, <4>1
    <3> QED
      BY <3>1 DEF Ids
  <2>9. \A e : HeadIf(e) => e \notin Ids(queue')
    BY <2>6, <2>8 DEF HeadIf
  <2>10. \A e \in Ids(queue) \ Ids(queue') : e = queue[1]
    <3> TAKE e \in Ids(queue) \ Ids(queue')
    <3>1. PICK i \in DOMAIN queue : e = queue[i]
      BY DEF Ids
    <3>2. ASSUME i # 1 PROVE FALSE
      <4>1. i - 1 \in DOMAIN queue' /\ (i - 1) + 1 = i
        BY <2>1, <3>2
      <4>2. queue'[i - 1] = e
        BY <2>3, <3>1, <4>1
      <4> QED
        BY <4>1, <4>2 DEF Ids
    <3> QED
      BY <3>1, <3>2
  <2> QED
    BY <2>5, <2>6, <2>9, <2>10 DEF HeadStays, HeadIf
<1> QED
  BY <1>1, <1>2

(* The filters of the queue screen.                                        *)
LEMMA FilterQueue ==
  ASSUME QueueOK, made' = made, NEW S, queue' = Without(queue, S)
  PROVE  /\ QueueOK' /\ HeadStays
         /\ Ids(queue') = Ids(queue) \ S
         /\ queue # <<>> /\ queue[1] \notin S => queue' # <<>> /\ queue'[1] = queue[1]
<1> USE QueueIs
<1>1. /\ queue' \in Seq(Entry) /\ Ids(queue') = Ids(queue) \ S /\ Asc(queue')
      /\ queue # <<>> /\ Head(queue) \notin S => queue' # <<>> /\ Head(queue') = Head(queue)
  BY WithoutKeeps DEF QueueOK, Ordered
<1>2. \A i \in DOMAIN queue' : queue'[i] \in Ids(queue')
  BY DEF Ids
<1>3. QueueOK'
  BY <1>1, <1>2 DEF QueueOK, Ordered
<1>4. queue' # <<>> => Head(queue') = queue'[1]
  BY <1>1
<1>5. HeadStays
  <2> SUFFICES ASSUME NEW e \in 1..made, HeadIf(e), e \in Ids(queue') PROVE queue'[1] = e
    BY DEF HeadStays, HeadIf
  <2>1. e \in Ids(queue) /\ e \notin S
    BY <1>1
  <2>2. queue # <<>>
    BY <2>1 DEF Ids
  <2> QED
    BY <1>1, <1>4, <2>1, <2>2 DEF HeadIf
<1> QED
  BY <1>1, <1>3, <1>4, <1>5

(* One step of a call that does not begin or end a save. *)
SameSaver(t) ==
    call[t].at \in Saving \/ call'[t].at \in Saving =>
        call'[t].at = call[t].at /\ call'[t].req = call[t].req
SameSender(t) ==
    call'[t].at \in Sending => call[t].at \in Sending /\ call'[t].req = call[t].req
NewSender(t) == queue # <<>> /\ call'[t].req = queue[1]

-----------------------------------------------------------------------------
(* Steps that save and steps that do not.                                  *)

(* What StoreOK says of the pending setItem calls.                         *)
LEMMA StoreIs ==
  ASSUME StoreOK
  PROVE  /\ writes \in Seq(Write) /\ Len(writes) \in Nat /\ DOMAIN writes = 1..Len(writes)
         /\ \A k \in DOMAIN writes :
               /\ writes[k].by \in Task \cup {None} /\ writes[k].snap \in Snapshots
               /\ Sound(writes[k].snap, made)
<1>1. writes \in Seq(Write) /\ Len(writes) \in Nat /\ DOMAIN writes = 1..Len(writes)
  BY DEF StoreOK
<1>2. \A k \in DOMAIN writes : writes[k] \in Write
  BY <1>1
<1> QED
  BY <1>1, <1>2 DEF StoreOK, Write

(* A save adds one call at the end and leaves the others.                  *)
LEMMA SaveAppends ==
  ASSUME QueueOK, StoreOK, QueueOK', RetryOK', made <= made', NEW b \in Task \cup {None},
         Save(b), UNCHANGED <<stored, loaded>>
  PROVE  /\ StoreOK'
         /\ Len(writes') = Len(writes) + 1 /\ DOMAIN writes' = 1..(Len(writes) + 1)
         /\ \A k \in DOMAIN writes : writes'[k] = writes[k]
         /\ writes'[Len(writes) + 1].by = b /\ IdsOf(writes'[Len(writes) + 1].snap) = queue'
<1>1. PICK s : /\ writes' = Append(writes, [by |-> b, snap |-> s])
               /\ s \in Snapshots /\ IdsOf(s) = queue' /\ Sound(s, made')
  BY SaveIs
<1> DEFINE w == [by |-> b, snap |-> s]
<1>2. w \in Write /\ w.by = b /\ w.snap = s
  BY <1>1 DEF Write
<1>3. writes' = Append(writes, w)
  BY <1>1
<1> HIDE DEF w
<1>4. /\ writes' \in Seq(Write) /\ Len(writes') = Len(writes) + 1
      /\ DOMAIN writes' = 1..(Len(writes) + 1)
      /\ \A k \in DOMAIN writes : writes'[k] = writes[k]
      /\ writes'[Len(writes) + 1] = w
  BY <1>2, <1>3, StoreIs
<1>5. made \in Nat /\ made' \in Nat
  BY QueueIs, Numbers DEF QueueOK
<1>6. \A t \in {stored', loaded'} : t = None \/ Sound(t, made')
  BY <1>5, SoundStays DEF StoreOK
<1>7. \A k \in DOMAIN writes' : Sound(writes'[k].snap, made')
  <2> TAKE k \in DOMAIN writes'
  <2>1. CASE k = Len(writes) + 1
    BY <1>1, <1>2, <1>4, <2>1
  <2>2. CASE k \in DOMAIN writes
    BY <1>4, <1>5, <2>2, StoreIs, SoundStays
  <2> QED
    BY <1>4, <2>1, <2>2, StoreIs
<1>8. StoreOK'
  BY <1>4, <1>6, <1>7 DEF StoreOK
<1> QED
  BY <1>1, <1>2, <1>4, <1>8

(* A step that saves nothing keeps the basic facts.                        *)
LEMMA MovesKeep ==
  ASSUME Basic, UNCHANGED <<queue, made, loading, loaded, stored, writes>>,
         RetryOK', CallType', PastOK', FlagsOK',
         \A t \in Task : SameSaver(t) /\ (SameSender(t) \/ NewSender(t))
  PROVE  Basic'
<1>1. QueueOK' /\ StoreOK'
  BY DEF Basic, QueueOK, StoreOK
<1>2. SendOK'
  <2> SUFFICES ASSUME NEW t \in Task, call'[t].at \in Sending
               PROVE  call'[t].req \in 1..made /\ HeadIf(call'[t].req)
    BY DEF SendOK, HeadIf
  <2>1. CASE NewSender(t)
    BY <2>1, QueueIs DEF NewSender, HeadIf, Basic
  <2>2. CASE SameSender(t)
    BY <2>2 DEF SameSender, SendOK, Basic
  <2> QED
    BY <2>1, <2>2
<1>3. AddOK'
  BY DEF Basic, AddOK, SameSaver, Saving
<1>4. WritesOK'
  BY DEF Basic, WritesOK, SameSaver
<1>5. ApartOK'
  <2> SUFFICES ASSUME loading, loaded # None,
                      NEW t \in Task, call'[t].at \in Sending
               PROVE  call'[t].req \notin Ids(IdsOf(loaded))
    BY DEF Basic, ApartOK
  <2>1. CASE NewSender(t)
    BY <2>1, QueueIs DEF NewSender, ApartOK, Basic
  <2>2. CASE SameSender(t)
    BY <2>2 DEF SameSender, ApartOK, Basic
  <2> QED
    BY <2>1, <2>2
<1> QED
  BY <1>1, <1>2, <1>3, <1>4, <1>5 DEF Basic

(* A step that saves the queue keeps them.                                 *)
LEMMA SavesKeep ==
  ASSUME Basic, NEW b \in Task \cup {None}, Save(b), UNCHANGED <<loading, loaded, stored>>,
         QueueOK', RetryOK', CallType', PastOK', FlagsOK',
         HeadStays, made <= made', Ids(queue') \subseteq Ids(queue) \cup ((made + 1)..made'),
         \A t \in Task : SameSender(t) /\ (t # b => SameSaver(t)),
         b \in Task => /\ call[b].at \notin Saving /\ call'[b].at \in Saving
                       /\ call'[b].at = "addSave" => call'[b].req \in Ids(queue')
  PROVE  Basic'
<1>0. /\ QueueOK /\ StoreOK /\ made \in Nat /\ made' \in Nat
      /\ \A e \in Ids(queue') : e \in 1..made'
  BY QueueIs, Numbers DEF Basic, QueueOK
<1>1. /\ StoreOK'
      /\ Len(writes') = Len(writes) + 1 /\ DOMAIN writes' = 1..(Len(writes) + 1)
      /\ \A k \in DOMAIN writes : writes'[k] = writes[k]
      /\ writes'[Len(writes) + 1].by = b /\ IdsOf(writes'[Len(writes) + 1].snap) = queue'
  BY <1>0, SaveAppends
<1>2. SendOK'
  <2> SUFFICES ASSUME NEW t \in Task, call'[t].at \in Sending
               PROVE  call'[t].req \in 1..made' /\ (call'[t].req \in Ids(queue') => queue'[1] = call'[t].req)
    BY DEF SendOK, HeadIf
  <2>1. call'[t].req = call[t].req /\ call[t].req \in 1..made /\ HeadIf(call[t].req)
    BY DEF SameSender, SendOK, Basic
  <2>2. call[t].req \in Ids(queue') => queue'[1] = call[t].req
    BY <2>1 DEF HeadStays, HeadIf
  <2> QED
    BY <1>0, <2>1, <2>2
<1>3. AddOK'
  <2> SUFFICES ASSUME NEW t \in Task, call'[t].at = "addSave" PROVE call'[t].req \in 1..made'
    BY DEF AddOK
  <2>1. CASE t = b
    BY <1>0, <2>1
  <2>2. CASE t # b
    BY <1>0, <2>2 DEF SameSaver, Saving, AddOK, Basic
  <2> QED
    BY <2>1, <2>2
<1>4. WritesOK'
  <2>0. DOMAIN writes = 1..Len(writes) /\ Len(writes) \in Nat
    BY <1>0, StoreIs
  <2>1. \A k \in DOMAIN writes' : k \in DOMAIN writes \/ k = Len(writes) + 1
    BY <1>1, <2>0
  <2>2. \A k \in DOMAIN writes : writes[k].by \in Task => writes[k].by # b
    BY DEF Basic, WritesOK
  <2> SUFFICES ASSUME NEW k \in DOMAIN writes', writes'[k].by \in Task
               PROVE  /\ call'[writes'[k].by].at \in Saving
                      /\ \A l \in DOMAIN writes' : writes'[l].by = writes'[k].by => l = k
                      /\ call'[writes'[k].by].at = "addSave" =>
                            call'[writes'[k].by].req \in Ids(IdsOf(writes'[k].snap))
    BY DEF WritesOK
  <2>3. CASE k = Len(writes) + 1
    <3>1. writes'[k].by = b /\ IdsOf(writes'[k].snap) = queue'
      BY <1>1, <2>3
    <3>2. \A l \in DOMAIN writes' : writes'[l].by = b => l = k
      BY <1>1, <2>1, <2>2, <2>3, <3>1
    <3> QED
      BY <3>1, <3>2
  <2>4. CASE k \in DOMAIN writes
    <3>1. writes'[k] = writes[k] /\ writes[k].by # b
      BY <1>1, <2>2, <2>4
    <3>2. \A l \in DOMAIN writes' : writes'[l].by = writes[k].by => l = k
      BY <1>1, <2>1, <2>4, <3>1 DEF Basic, WritesOK
    <3> QED
      BY <2>4, <3>1, <3>2 DEF Basic, WritesOK, SameSaver
  <2> QED
    BY <2>1, <2>3, <2>4
<1>5. ApartOK'
  <2> SUFFICES ASSUME loading, loaded # None
               PROVE  /\ Ids(queue') \cap Ids(IdsOf(loaded)) = {}
                      /\ \A t \in Task : call'[t].at \in Sending => call'[t].req \notin Ids(IdsOf(loaded))
    BY DEF ApartOK
  <2>1. \A e \in Ids(IdsOf(loaded)) : e \in Int /\ e <= made
    <3>1. Sound(loaded, made)
      BY DEF Basic, StoreOK
    <3>2. loaded \in Snapshots /\ Ordered(IdsOf(loaded), made)
      BY <3>1 DEF Sound
    <3>3. \A i \in DOMAIN IdsOf(loaded) : IdsOf(loaded)[i] \in Int /\ IdsOf(loaded)[i] <= made
      BY <3>2, IdsOfSnapshot DEF Ordered, Entry
    <3> QED
      BY <3>3 DEF Ids
  <2>2. Ids(queue) \cap Ids(IdsOf(loaded)) = {}
    BY DEF Basic, ApartOK
  <2>3. \A e \in (made + 1)..made' : e \notin Ids(IdsOf(loaded))
    BY <1>0, <2>1
  <2> QED
    BY <2>2, <2>3 DEF Basic, ApartOK, SameSender
<1> QED
  BY <1>1, <1>2, <1>3, <1>4, <1>5 DEF Basic

-----------------------------------------------------------------------------
(* AsyncStorage and restarts.                                              *)

(* What the end of the first setItem call changes.                         *)
LEMMA SettleDoes ==
  ASSUME Basic, writes # <<>>, Settle(Head(writes))
  PROVE  /\ Len(writes') = Len(writes) - 1 /\ DOMAIN writes' = 1..(Len(writes) - 1)
         /\ \A k \in DOMAIN writes' : k + 1 \in DOMAIN writes /\ writes'[k] = writes[k + 1]
         /\ 1 \in DOMAIN writes /\ Head(writes) = writes[1] /\ writes' \in Seq(Write)
         /\ CallType'
         /\ \A t \in Task : t # writes[1].by => call'[t] = call[t]
         /\ LET t == writes[1].by IN
            t \in Task => /\ call[t].at \in Saving
                          /\ call'[t].at = NextStep[call[t].at] /\ call'[t].req = call[t].req
                          /\ call'[t].at \in {"addFetch", "loop", "retryTail"}
         /\ \A e \in accepted' \ accepted :
               /\ writes[1].by \in Task /\ call[writes[1].by].at = "addSave"
               /\ e = call[writes[1].by].req
         /\ accepted \subseteq accepted'
<1>1. /\ writes \in Seq(Write) /\ Len(writes) \in Nat /\ DOMAIN writes = 1..Len(writes)
      /\ \A k \in DOMAIN writes : writes[k].by \in Task \cup {None}
  BY StoreIs DEF Basic
<1>2. 1 \in DOMAIN writes /\ Head(writes) = writes[1]
  BY <1>1
<1>3. writes' = Tail(writes)
  BY DEF Settle
<1>4. /\ Len(writes') = Len(writes) - 1 /\ DOMAIN writes' = 1..(Len(writes) - 1)
      /\ \A k \in DOMAIN writes' : k + 1 \in DOMAIN writes /\ writes'[k] = writes[k + 1]
      /\ writes' \in Seq(Write)
  BY <1>1, <1>3
<1>5. CASE writes[1].by = None
  <2>1. call' = call /\ accepted' = accepted
    BY <1>2, <1>5 DEF Settle
  <2>2. CallType'
    BY <2>1 DEF Basic, CallType
  <2> QED
    BY <1>2, <1>4, <1>5, <2>1, <2>2, NoneIsNothing
<1>6. CASE writes[1].by \in Task
  <2> DEFINE t == writes[1].by
  <2>1. call[t].at \in Saving
    BY <1>2, <1>6 DEF Basic, WritesOK
  <2>2. /\ call' = [call EXCEPT ![t].at = NextStep[call[t].at]]
        /\ accepted' = accepted \cup (IF At(t, "addSave") THEN {call[t].req} ELSE {})
    BY <1>2, <1>6, NoneIsNothing DEF Settle, Goto
  <2>3. NextStep[call[t].at] \in {"addFetch", "loop", "retryTail"}
    BY <2>1 DEF Saving, NextStep
  <2>4. call[t] \in Call
    BY <1>6 DEF Basic, CallType
  <2> HIDE DEF t
  <2>5. t \in Task
    BY <1>6 DEF t
  <2>6. /\ \A u \in Task : u # t => call'[u] = call[u]
        /\ call'[t].at = NextStep[call[t].at] /\ call'[t].req = call[t].req
        /\ CallType'
    <3>1. call \in [Task -> Call]
      BY DEF Basic, CallType
    <3>2. \A c \in Call, x \in Step : [c EXCEPT !.at = x] \in Call
      BY DEF Call
    <3>3. NextStep[call[t].at] \in Step
      BY <2>3 DEF Step, InLoop
    <3> DEFINE c == [call[t] EXCEPT !.at = NextStep[call[t].at]]
    <3>4. c \in Call /\ c.at = NextStep[call[t].at] /\ c.req = call[t].req
      BY <2>4, <3>2, <3>3 DEF Call
    <3>5. call' = [call EXCEPT ![t] = c]
      BY <2>2
    <3> HIDE DEF c
    <3> QED
      BY <2>5, <3>1, <3>4, <3>5 DEF CallType
  <2> QED
    BY <1>2, <1>4, <2>1, <2>2, <2>3, <2>5, <2>6 DEF t, At
<1> QED
  BY <1>1, <1>2, <1>5, <1>6

(* A setItem call that ends, or fails, keeps the basic facts.              *)
LEMMA SettleKeeps ==
  ASSUME Basic, PerformWrite \/ WriteFails
  PROVE  Basic'
<1>1. /\ writes # <<>> /\ Settle(Head(writes))
      /\ stored' = stored \/ stored' = Head(writes).snap
  BY DEF PerformWrite, WriteFails
<1>2. UNCHANGED <<queue, retry, made, isProcessing, isOnline, link, loading, loaded, processed, answered, removed>>
  BY <1>1 DEF Settle, memory
<1> DEFINE b == writes[1].by
<1>3. /\ Len(writes') = Len(writes) - 1 /\ DOMAIN writes' = 1..(Len(writes) - 1)
      /\ \A k \in DOMAIN writes' : k + 1 \in DOMAIN writes /\ writes'[k] = writes[k + 1]
      /\ 1 \in DOMAIN writes /\ Head(writes) = writes[1] /\ writes' \in Seq(Write)
      /\ CallType'
      /\ \A t \in Task : t # b => call'[t] = call[t]
      /\ b \in Task => /\ call[b].at \in Saving
                       /\ call'[b].at \in {"addFetch", "loop", "retryTail"}
                       /\ call'[b].req = call[b].req
      /\ \A e \in accepted' \ accepted :
           b \in Task /\ call[b].at = "addSave" /\ e = call[b].req
  BY <1>1, SettleDoes
<1> HIDE DEF b
<1>4. QueueOK' /\ RetryOK' /\ FlagsOK'
  BY <1>2 DEF Basic, QueueOK, RetryOK, FlagsOK
<1>5. \A t \in Task : /\ call'[t].at \in Sending => call'[t] = call[t]
                      /\ call'[t].at \in Saving => call'[t] = call[t] /\ t # b
  BY <1>3 DEF Sending, Saving
<1>6. SendOK'
  BY <1>2, <1>5 DEF Basic, SendOK, HeadIf
<1>7. AddOK'
  BY <1>2, <1>5 DEF Basic, AddOK, Saving
<1>8. PastOK'
  <2>1. accepted' \subseteq 1..made
    BY <1>3 DEF Basic, PastOK, AddOK
  <2> QED
    BY <1>2, <2>1 DEF Basic, PastOK
<1>9. StoreOK'
  <2>1. \A k \in DOMAIN writes' : Sound(writes'[k].snap, made)
    BY <1>3, StoreIs DEF Basic
  <2>2. Sound(writes[1].snap, made)
    BY <1>3, StoreIs DEF Basic
  <2>3. \A s \in {stored', loaded'} : s = None \/ Sound(s, made)
    BY <1>1, <1>2, <1>3, <2>2 DEF Basic, StoreOK
  <2> QED
    BY <1>2, <1>3, <2>1, <2>3 DEF StoreOK
<1>10. WritesOK'
  <2> SUFFICES ASSUME NEW k \in DOMAIN writes', writes'[k].by \in Task
               PROVE  /\ call'[writes'[k].by].at \in Saving
                      /\ \A l \in DOMAIN writes' : writes'[l].by = writes'[k].by => l = k
                      /\ call'[writes'[k].by].at = "addSave" =>
                            call'[writes'[k].by].req \in Ids(IdsOf(writes'[k].snap))
    BY DEF WritesOK
  <2>0. DOMAIN writes = 1..Len(writes) /\ Len(writes) \in Nat
    BY StoreIs DEF Basic
  <2>1. k + 1 \in DOMAIN writes /\ writes'[k] = writes[k + 1] /\ k + 1 # 1 /\ k \in Nat
    BY <1>3, <2>0
  <2>2. writes[k + 1].by # b
    BY <1>3, <2>1 DEF Basic, WritesOK, b
  <2>3. call'[writes'[k].by] = call[writes[k + 1].by]
    BY <1>3, <2>1, <2>2
  <2>4. \A l \in DOMAIN writes' : writes'[l].by = writes'[k].by => l = k
    <3> TAKE l \in DOMAIN writes'
    <3>1. l + 1 \in DOMAIN writes /\ writes'[l] = writes[l + 1] /\ l \in Nat
      BY <1>3, <2>0
    <3>2. writes[l + 1].by = writes[k + 1].by => l + 1 = k + 1
      BY <2>1, <3>1 DEF Basic, WritesOK
    <3> QED
      BY <2>1, <3>1, <3>2
  <2> QED
    BY <2>1, <2>3, <2>4 DEF Basic, WritesOK
<1>11. ApartOK'
  BY <1>2, <1>5 DEF Basic, ApartOK
<1> QED
  BY <1>3, <1>4, <1>6, <1>7, <1>8, <1>9, <1>10, <1>11 DEF Basic

(* What loadQueue makes of what it found.                                  *)
LEMMA LoadDoes ==
  ASSUME Basic, Load, loaded # None
  PROVE  /\ queue' = IdsOf(loaded) /\ Sound(loaded, made)
         /\ QueueOK' /\ RetryOK'
         /\ \A e \in Entry \ Ids(queue') : retry'[e] = retry[e]
<1>1. Sound(loaded, made)
  BY DEF Basic, StoreOK
<1>2. loaded \in Snapshots /\ Ordered(IdsOf(loaded), made)
  BY <1>1 DEF Sound
<1>3. queue' = IdsOf(loaded) /\ made' = made
  BY DEF Load
<1>4. QueueOK'
  BY <1>2, <1>3 DEF Basic, QueueOK
<1> DEFINE Of(e) == loaded[CHOOSE i \in DOMAIN loaded : loaded[i].id = e].retry
<1>5. retry' = [e \in Entry |-> IF e \in Ids(IdsOf(loaded)) THEN Of(e) ELSE retry[e]]
  BY DEF Load
<1>6. \A e \in Ids(queue') : Of(e) \in Nat /\ Of(e) < MaxRetries
  <2> TAKE e \in Ids(queue')
  <2>1. PICK i \in DOMAIN queue' : queue'[i] = e
    BY DEF Ids
  <2>2. i \in DOMAIN loaded /\ loaded[i].id = e
    BY <1>2, <1>3, <2>1, IdsOfSnapshot
  <2> DEFINE j == CHOOSE j \in DOMAIN loaded : loaded[j].id = e
  <2>3. j \in DOMAIN loaded
    BY <2>2
  <2> HIDE DEF j
  <2>4. loaded[j].retry \in Nat /\ loaded[j].retry < MaxRetries
    BY <1>1, <1>2, <2>3, IdsOfSnapshot DEF Sound
  <2> QED
    BY <2>4 DEF j
<1> HIDE DEF Of
<1>7. \A e \in Ids(queue') : e \in 1..made /\ e \in Entry
  <2>1. \A i \in DOMAIN queue' : queue'[i] \in Entry /\ queue'[i] <= made /\ made \in Nat
    BY <1>3, <1>4, QueueIs DEF Basic, QueueOK, Ordered
  <2>2. \A i \in DOMAIN queue' : queue'[i] \in 1..made
    BY <2>1 DEF Entry
  <2> QED
    BY <2>1, <2>2 DEF Ids
<1>8. RetryOK'
  <2>1. retry' \in [Entry -> Nat]
    BY <1>3, <1>5, <1>6 DEF Basic, RetryOK
  <2>2. \A e \in Ids(queue') : retry'[e] < MaxRetries
    BY <1>3, <1>5, <1>6, <1>7
  <2>3. \A e \in Entry : e > made => e \notin Ids(queue')
    BY <1>7, QueueIs DEF Basic
  <2>4. \A e \in Entry : e > made => retry'[e] = 0
    BY <1>3, <1>5, <2>3 DEF Basic, RetryOK
  <2> QED
    BY <1>3, <2>1, <2>2, <2>4 DEF RetryOK
<1> QED
  BY <1>1, <1>3, <1>4, <1>5, <1>8

(* loadQueue keeps them.                                                   *)
LEMMA LoadKeeps ==
  ASSUME Basic, Load \/ LoadFails
  PROVE  Basic'
<1>1. /\ loading = TRUE /\ loading' = FALSE /\ loaded' = None
      /\ UNCHANGED <<made, isProcessing, isOnline, link, call, stored, writes,
                     processed, answered, accepted, removed>>
  BY DEF Load, LoadFails, storage, world, past, Basic, FlagsOK
<1>2. CallType' /\ AddOK' /\ WritesOK' /\ PastOK' /\ FlagsOK'
  BY <1>1 DEF Basic, CallType, AddOK, WritesOK, PastOK, FlagsOK
<1>3. StoreOK'
  BY <1>1 DEF Basic, StoreOK
<1>4. ApartOK'
  BY <1>1 DEF ApartOK
<1>5. CASE Load /\ loaded # None
  <2>1. QueueOK' /\ RetryOK' /\ queue' = IdsOf(loaded)
    BY <1>5, LoadDoes
  <2>2. SendOK'
    BY <1>1, <1>5, <2>1 DEF Basic, SendOK, HeadIf, ApartOK
  <2> QED
    BY <1>2, <1>3, <1>4, <2>1, <2>2 DEF Basic
<1>6. CASE LoadFails \/ loaded = None
  <2>1. queue' = queue /\ retry' = retry
    BY <1>6 DEF Load, LoadFails
  <2>2. QueueOK' /\ RetryOK' /\ SendOK'
    BY <1>1, <2>1 DEF Basic, QueueOK, RetryOK, SendOK, HeadIf
  <2> QED
    BY <1>2, <1>3, <1>4, <2>2 DEF Basic
<1> QED
  BY <1>5, <1>6

(* The app starts anew: they hold again.                                   *)
LEMMA RestartKeeps ==
  ASSUME Basic, Restart
  PROVE  Basic'
<1>1. /\ queue' = <<>> /\ isProcessing' = FALSE /\ isOnline' = TRUE
      /\ loading' = TRUE /\ loaded' = stored /\ writes' = <<>>
      /\ UNCHANGED <<retry, made, stored, link, processed, answered, accepted, removed>>
  BY DEF Restart, past
<1>2. Ids(queue') = {} /\ \A t \in Task : call'[t] = Idle
  BY <1>1 DEF Ids, Restart
<1>3. Idle \in Call /\ Idle.at = "idle"
  BY Numbers DEF Idle, Call, Step
<1>4. CallType'
  BY <1>3 DEF CallType, Restart
<1>5. QueueOK'
  BY <1>1 DEF Basic, QueueOK, Ordered, Asc
<1>6. RetryOK' /\ PastOK' /\ FlagsOK'
  BY <1>1, <1>2 DEF Basic, RetryOK, PastOK, FlagsOK
<1>7. SendOK' /\ AddOK' /\ ApartOK'
  BY <1>2, <1>3 DEF SendOK, AddOK, ApartOK, Sending
<1>8. StoreOK' /\ WritesOK'
  BY <1>1 DEF Basic, StoreOK, WritesOK
<1> QED
  BY <1>4, <1>5, <1>6, <1>7, <1>8 DEF Basic

-----------------------------------------------------------------------------
(* The steps of calls.                                                     *)

(* Calls move only if there is something to send, or a call under way.     *)
Awake == call' = call \/ queue # <<>> \/ \E t \in Task : call[t].at # "idle"

(* A step that leaves the queue and what is saved alone. *)
Moves ==
    /\ UNCHANGED <<queue, made, loading, loaded, stored, writes>>
    /\ \A t \in Task : SameSaver(t) /\ (SameSender(t) \/ NewSender(t))
    /\ Awake

(* A step that saves the queue, after a change or not. *)
Saves(b) ==
    /\ Save(b)
    /\ UNCHANGED <<loading, loaded, stored>>
    /\ HeadStays /\ made <= made'
    /\ Ids(queue') \subseteq Ids(queue) \cup ((made + 1)..made')
    /\ \A t \in Task : SameSender(t) /\ (t # b => SameSaver(t))
    /\ b \in Task => /\ call[b].at \notin Saving /\ call'[b].at \in Saving
                     /\ call'[b].at = "addSave" => call'[b].req \in Ids(queue')
    /\ loading => "early" \in blame' \/ \E t \in Task : call[t].at # "idle"

(* Records of calls.                                                       *)
LEMMA InCall ==
  /\ Idle \in Call /\ Idle.at = "idle" /\ Idle.req = 0
  /\ \A c \in Call, x \in Step : /\ [c EXCEPT !.at = x] \in Call
                                 /\ [c EXCEPT !.at = x].at = x /\ [c EXCEPT !.at = x].req = c.req
  /\ \A x \in Step : /\ [Idle EXCEPT !.at = x] \in Call
                     /\ [Idle EXCEPT !.at = x].at = x /\ [Idle EXCEPT !.at = x].req = 0
<1>1. Idle \in Call /\ Idle.at = "idle" /\ Idle.req = 0
  BY Numbers DEF Idle, Call, Step
<1>2. \A c \in Call, x \in Step : /\ [c EXCEPT !.at = x] \in Call
                                 /\ [c EXCEPT !.at = x].at = x /\ [c EXCEPT !.at = x].req = c.req
  BY DEF Call
<1> QED
  BY <1>1, <1>2

(* One call is replaced.                                                   *)
LEMMA OneCall ==
  ASSUME CallType, NEW t \in Task, NEW c \in Call, call' = [call EXCEPT ![t] = c]
  PROVE  CallType' /\ call'[t] = c /\ \A u \in Task : u # t => call'[u] = call[u]
BY DEF CallType

(* One call goes on to its next step.                                      *)
LEMMA Gone ==
  ASSUME CallType, NEW t \in Task, NEW x \in Step, Goto(t, x)
  PROVE  /\ CallType' /\ call'[t].at = x /\ call'[t].req = call[t].req
         /\ \A u \in Task : u # t => call'[u] = call[u]
<1> DEFINE c == [call[t] EXCEPT !.at = x]
<1>1. c \in Call /\ c.at = x /\ c.req = call[t].req
  BY InCall DEF CallType
<1>2. call' = [call EXCEPT ![t] = c]
  BY DEF Goto
<1> HIDE DEF c
<1> QED
  BY <1>1, <1>2, OneCall

(* One call's step that does not save.                                     *)
LEMMA OneMoves ==
  ASSUME Basic, NEW t \in Task, UNCHANGED <<queue, made, loading, loaded, stored, writes>>,
         CallType', \A u \in Task : u # t => call'[u].at = call[u].at /\ call'[u].req = call[u].req,
         call[t].at \notin Saving, call'[t].at \notin Saving,
         call'[t].at \notin Sending \/ (call'[t].at = "exec" /\ NewSender(t)),
         call[t].at # "idle" \/ queue # <<>>
  PROVE  Moves
BY DEF Moves, SameSaver, SameSender, Awake

(* addToQueue after its NetInfo.fetch.                                     *)
LEMMA AddTailMoves ==
  ASSUME Basic, NEW t \in Task, AddTail(t)
  PROVE  Moves /\ Basic'
<1> DEFINE next == [Idle EXCEPT !.at = IF StartsAfterAdd THEN "fetch" ELSE "idle"]
<1>1. next \in Call /\ next.at \in {"fetch", "idle"}
  BY InCall DEF Step
<1>2. call' = [u \in Task |-> IF u = t THEN next
                              ELSE IF call[u].copier = t THEN [call[u] EXCEPT !.copier = None]
                              ELSE call[u]]
  BY DEF AddTail
<1> HIDE DEF next
<1>3. \A u \in Task : call[u] \in Call
  BY DEF Basic, CallType
<1>4. \A c \in Call : /\ [c EXCEPT !.copier = None] \in Call
                      /\ [c EXCEPT !.copier = None].at = c.at /\ [c EXCEPT !.copier = None].req = c.req
  BY DEF Call
<1>5. CallType'
  BY <1>1, <1>2, <1>3, <1>4 DEF CallType
<1>6. \A u \in Task : u # t => call'[u].at = call[u].at /\ call'[u].req = call[u].req
  BY <1>2, <1>3, <1>4
<1>7. call'[t].at \in {"fetch", "idle"} /\ call[t].at = "addFetch"
  BY <1>1, <1>2 DEF AddTail, At
<1>8. UNCHANGED <<queue, retry, made, isProcessing, isOnline, link, loading, loaded, stored, writes,
                  processed, answered, accepted, removed>>
  BY DEF AddTail, memory, storage, world, past
<1>9. Moves
  BY <1>5, <1>6, <1>7, <1>8, OneMoves DEF Saving, Sending
<1>10. RetryOK' /\ PastOK' /\ FlagsOK'
  BY <1>8 DEF Basic, RetryOK, PastOK, FlagsOK
<1> QED
  BY <1>5, <1>9, <1>10, MovesKeep DEF Moves

(* A call begins to drain, ends or waits.                                  *)
LEMMA CallMoves ==
  ASSUME Basic, NEW t \in Task, ProcessQueue(t) \/ Fetched(t) \/ LoopSends(t) \/ LoopEnds(t) \/ RetryTail(t)
  PROVE  Moves /\ Basic'
<1>1. UNCHANGED <<queue, retry, made, isOnline, link, loading, loaded, stored, writes,
                  processed, answered, accepted, removed>>
  BY DEF ProcessQueue, Fetched, LoopSends, LoopEnds, RetryTail, memory, storage, world, past
<1>2. /\ CallType'
      /\ \A u \in Task : u # t => call'[u] = call[u]
      /\ call[t].at \in {"idle", "fetch", "loop", "retryTail"}
      /\ call[t].at = "idle" => queue # <<>>
      /\ call'[t].at \in {"fetch", "loop", "idle"} \/ (call'[t].at = "exec" /\ NewSender(t))
  <2>0. CallType
    BY DEF Basic
  <2>1. CASE ProcessQueue(t)
    BY <2>0, <2>1, Gone DEF ProcessQueue, At, Runnable, Step
  <2>2. CASE Fetched(t)
    <3>1. (IF link THEN "loop" ELSE "idle") \in Step
      BY DEF Step, InLoop
    <3> QED
      BY <2>0, <2>2, <3>1, Gone DEF Fetched, At
  <2>3. CASE LoopSends(t)
    <3> DEFINE c == [[call[t] EXCEPT !.at = "exec"] EXCEPT !.req = Head(queue)]
    <3>1. queue[1] \in 0..MaxEntries /\ Head(queue) = queue[1] /\ queue # <<>>
      BY <2>3, QueueIs DEF LoopSends, Basic, Entry
    <3>2. c \in Call /\ c.at = "exec" /\ c.req = queue[1]
      BY <2>0, <3>1 DEF CallType, Call, Step, InLoop
    <3>3. call' = [call EXCEPT ![t] = c]
      BY <2>3 DEF LoopSends, NextRequest
    <3> HIDE DEF c
    <3> QED
      BY <2>0, <2>3, <3>1, <3>2, <3>3, OneCall DEF LoopSends, At, NewSender
  <2>4. CASE LoopEnds(t)
    BY <2>0, <2>4, InCall, OneCall DEF LoopEnds, At, End
  <2>5. CASE RetryTail(t)
    <3>1. (IF isOnline /\ Runnable THEN "fetch" ELSE "idle") \in Step
      BY DEF Step
    <3> QED
      BY <2>0, <2>5, <3>1, Gone DEF RetryTail, At
  <2> QED
    BY <2>1, <2>2, <2>3, <2>4, <2>5
<1>3. Moves
  BY <1>1, <1>2, OneMoves DEF Saving, Sending
<1>4. RetryOK' /\ PastOK'
  BY <1>1 DEF Basic, RetryOK, PastOK
<1>5. FlagsOK'
  <2>1. isProcessing' \in BOOLEAN
    BY DEF Basic, FlagsOK, ProcessQueue, Fetched, LoopSends, LoopEnds, RetryTail, memory
  <2> QED
    BY <1>1, <2>1 DEF Basic, FlagsOK
<1> QED
  BY <1>2, <1>3, <1>4, <1>5, MovesKeep DEF Moves

-----------------------------------------------------------------------------
(* The steps that save.                                                    *)

(* SavesKeep, for what Saves describes.                                    *)
LEMMA SaverKeeps ==
  ASSUME Basic, NEW b \in Task \cup {None}, Saves(b),
         QueueOK', RetryOK', CallType', PastOK', FlagsOK'
  PROVE  Basic'
BY SavesKeep DEF Saves

(* The request pushed and the call that adds it.                           *)
LEMMA PushCall ==
  ASSUME Basic, Push(None) \/ \E t \in Task : Push(t)
  PROVE  /\ Adding(made + 1) \in Call /\ Adding(made + 1).at = "addSave"
         /\ Adding(made + 1).req = made + 1
         /\ QueueOK' /\ RetryOK' /\ HeadStays /\ made <= made'
         /\ Ids(queue') = Ids(queue) \cup {made + 1} /\ made' = made + 1
         /\ Ids(queue') \subseteq Ids(queue) \cup ((made + 1)..made')
<1>1. /\ made < MaxEntries /\ made' = made + 1
      /\ queue' = Append(queue, made + 1) /\ retry' = retry
  BY DEF Push
<1>2. QueueOK /\ RetryOK /\ made \in Nat
  BY QueueIs DEF Basic
<1>3. QueueOK' /\ RetryOK' /\ HeadStays /\ Ids(queue') = Ids(queue) \cup {made + 1}
  BY <1>1, <1>2, PushQueue
<1>4. made + 1 \in 0..MaxEntries /\ "addSave" \in Step
  BY <1>1, <1>2, Numbers DEF Step
<1>5. /\ Adding(made + 1) \in Call /\ Adding(made + 1).at = "addSave"
      /\ Adding(made + 1).req = made + 1
  BY <1>4 DEF Adding, Idle, Call
<1>6. made <= made' /\ {made + 1} \subseteq (made + 1)..made'
  BY <1>1, <1>2
<1> QED
  BY <1>1, <1>3, <1>5, <1>6

(* addToQueue.                                                             *)
LEMMA AddToQueueSaves ==
  ASSUME Basic, NEW t \in Task, AddToQueue(t)
  PROVE  Saves(t) /\ Basic'
<1>0. Push(t) /\ call[t].at = "idle" /\ call' = [call EXCEPT ![t] = Adding(made + 1)]
  BY DEF AddToQueue, At
<1>1. /\ Adding(made + 1) \in Call /\ Adding(made + 1).at = "addSave"
      /\ Adding(made + 1).req = made + 1
      /\ QueueOK' /\ RetryOK' /\ HeadStays /\ made <= made'
      /\ Ids(queue') = Ids(queue) \cup {made + 1} /\ made' = made + 1
      /\ Ids(queue') \subseteq Ids(queue) \cup ((made + 1)..made')
  BY <1>0, PushCall
<1>2. CallType' /\ call'[t] = Adding(made + 1) /\ \A u \in Task : u # t => call'[u] = call[u]
  BY <1>0, <1>1, OneCall DEF Basic
<1>3. /\ UNCHANGED <<isProcessing, isOnline, link, loading, loaded, stored,
                     processed, answered, accepted, removed>>
      /\ Save(t) /\ blame' = blame \cup Early
  BY DEF AddToQueue, Push, Blame, world
<1>4. loading => "early" \in blame'
  BY <1>3 DEF Early, Mishap
<1>5. Saves(t)
  BY <1>0, <1>1, <1>2, <1>3, <1>4 DEF Saves, SameSender, SameSaver, Saving, Sending
<1>6. PastOK' /\ FlagsOK'
  BY <1>1, <1>3, QueueIs DEF Basic, PastOK, FlagsOK
<1> QED
  BY <1>1, <1>2, <1>5, <1>6, SaverKeeps

(* The interceptor queues a copy of the request under way.                 *)
LEMMA ExecFailsOfflineSaves ==
  ASSUME Basic, NEW t \in Task, NEW u \in Task, ExecFailsOffline(t, u)
  PROVE  Saves(u) /\ Basic'
<1>0. /\ Push(u) /\ call[u].at = "idle" /\ call[t].at = "exec" /\ t # u
      /\ call' = [call EXCEPT ![t].at = "clone", ![t].copier = u, ![u] = Adding(made + 1)]
  BY DEF ExecFailsOffline, At
<1>1. /\ Adding(made + 1) \in Call /\ Adding(made + 1).at = "addSave"
      /\ Adding(made + 1).req = made + 1
      /\ QueueOK' /\ RetryOK' /\ HeadStays /\ made <= made'
      /\ Ids(queue') = Ids(queue) \cup {made + 1} /\ made' = made + 1
      /\ Ids(queue') \subseteq Ids(queue) \cup ((made + 1)..made')
  BY <1>0, PushCall
<1>2. /\ CallType' /\ call'[u] = Adding(made + 1)
      /\ call'[t].at = "clone" /\ call'[t].req = call[t].req
      /\ \A v \in Task : v \notin {t, u} => call'[v] = call[v]
  <2>1. call \in [Task -> Call] /\ call[t] \in Call
    BY DEF Basic, CallType
  <2> DEFINE c == [[call[t] EXCEPT !.at = "clone"] EXCEPT !.copier = u]
  <2>2. c \in Call /\ c.at = "clone" /\ c.req = call[t].req
    BY <2>1 DEF Call, Step, InLoop
  <2>3. call' = [[call EXCEPT ![t] = c] EXCEPT ![u] = Adding(made + 1)]
    BY <1>0, <2>1
  <2> HIDE DEF c
  <2> QED
    BY <1>0, <1>1, <2>1, <2>2, <2>3 DEF CallType
<1>3. /\ UNCHANGED <<isProcessing, isOnline, link, loading, loaded, stored,
                     answered, accepted, removed>>
      /\ processed' \in {processed, processed \cup {call[t].req}}
      /\ Save(u) /\ blame' = blame \cup Early
  BY DEF ExecFailsOffline, Push, Blame, world
<1>4. loading => "early" \in blame'
  BY <1>3 DEF Early, Mishap
<1>5. Saves(u)
  <2>1. \A v \in Task : SameSender(v) /\ (v # u => SameSaver(v))
    BY <1>0, <1>1, <1>2 DEF SameSender, SameSaver, Saving, Sending
  <2> QED
    BY <1>0, <1>1, <1>2, <1>3, <1>4, <2>1 DEF Saves, Saving
<1>6. PastOK' /\ FlagsOK'
  <2>1. call[t].req \in 1..made
    BY <1>0 DEF Basic, SendOK, Sending
  <2> QED
    BY <1>1, <1>3, <2>1, QueueIs DEF Basic, PastOK, FlagsOK
<1> QED
  BY <1>1, <1>2, <1>5, <1>6, SaverKeeps

(* The end of a request that leaves the queue.                             *)
LEMMA ShiftSaves ==
  ASSUME Basic, NEW t \in Task, call[t].at \in Sending, ShiftAndSave(t),
         UNCHANGED <<made, loading, loaded, stored>>,
         retry' \in [Entry -> Nat],
         \A e \in Entry : retry'[e] # retry[e] => e = call[t].req
  PROVE  Saves(t) /\ QueueOK' /\ RetryOK' /\ CallType'
<1>1. /\ QueueOK' /\ HeadStays
      /\ Ids(queue') \subseteq Ids(queue)
      /\ \A e : HeadIf(e) => e \notin Ids(queue')
  BY ShiftQueue DEF ShiftAndSave, Basic
<1> DEFINE c == [Idle EXCEPT !.at = "shiftSave"]
<1>2. c \in Call /\ c.at = "shiftSave"
  BY InCall DEF Step, InLoop
<1>3. call' = [call EXCEPT ![t] = c]
  BY DEF ShiftAndSave
<1> HIDE DEF c
<1>4. CallType' /\ call'[t].at = "shiftSave" /\ \A u \in Task : u # t => call'[u] = call[u]
  BY <1>2, <1>3, OneCall DEF Basic
<1>5. call[t].req \in 1..made /\ HeadIf(call[t].req)
  BY DEF Basic, SendOK
<1>6. RetryOK'
  <2>1. \A e \in Ids(queue') : e \in Entry /\ e # call[t].req /\ retry'[e] = retry[e]
    BY <1>1, <1>5, QueueIs DEF Basic
  <2>2. \A e \in Entry : e > made => e # call[t].req
    BY <1>5, QueueIs DEF Basic, Entry
  <2> QED
    BY <1>1, <2>1, <2>2 DEF Basic, RetryOK
<1>7. Saves(t)
  <2>1. \A u \in Task : SameSender(u) /\ (u # t => SameSaver(u))
    BY <1>4 DEF SameSender, SameSaver, Saving, Sending
  <2>2. made <= made' /\ call[t].at # "idle" /\ call[t].at \notin Saving
    BY QueueIs DEF Basic, Sending, Saving
  <2> QED
    BY <1>1, <1>4, <2>1, <2>2 DEF Saves, ShiftAndSave, Saving
<1> QED
  BY <1>1, <1>4, <1>6, <1>7

(* A request is answered.                                                  *)
LEMMA ExecOkSaves ==
  ASSUME Basic, NEW t \in Task, ExecOk(t)
  PROVE  Saves(t) /\ Basic'
<1>1. /\ call[t].at \in Sending /\ ShiftAndSave(t) /\ retry' = retry
      /\ processed' = processed \cup {call[t].req} /\ answered' = answered \cup {call[t].req}
      /\ UNCHANGED <<made, isProcessing, isOnline, link, loading, loaded, stored, accepted, removed>>
  BY DEF ExecOk, At, Sending, world
<1>2. Saves(t) /\ QueueOK' /\ RetryOK' /\ CallType'
  BY <1>1, ShiftSaves DEF Basic, RetryOK
<1>3. PastOK' /\ FlagsOK'
  BY <1>1 DEF Basic, PastOK, FlagsOK, SendOK
<1> QED
  BY <1>2, <1>3, SaverKeeps

(* A request fails: it is given up with a save, or the drain stops.        *)
LEMMA FailedDoes ==
  ASSUME Basic, NEW t \in Task, call[t].at \in Sending, Failed(t),
         processed' \in {processed, processed \cup {call[t].req}}
  PROVE  Basic' /\ (Saves(t) \/ Moves)
<1> DEFINE e == call[t].req
<1>0. e \in 1..made /\ e \in Entry /\ HeadIf(e)
  BY QueueIs, Numbers DEF Basic, SendOK, Entry
<1>1. /\ retry' = [retry EXCEPT ![e] = @ + 1]
      /\ UNCHANGED <<made, isOnline, link, loading, loaded, stored, answered, accepted, removed>>
  BY DEF Failed, world
<1> HIDE DEF e
<1>2. /\ retry' \in [Entry -> Nat] /\ retry'[e] = retry[e] + 1
      /\ \A d \in Entry : d # e => retry'[d] = retry[d]
  BY <1>0, <1>1 DEF Basic, RetryOK
<1>3. PastOK'
  BY <1>0, <1>1 DEF Basic, PastOK, e
<1>4. CASE GivesUp(e)
  <2>1. ShiftAndSave(t) /\ isProcessing' = isProcessing
    BY <1>4 DEF Failed, e
  <2>2. Saves(t) /\ QueueOK' /\ RetryOK' /\ CallType'
    BY <1>1, <1>2, <2>1, ShiftSaves DEF e
  <2>3. FlagsOK'
    BY <1>1, <2>1 DEF Basic, FlagsOK
  <2> QED
    BY <1>3, <2>2, <2>3, SaverKeeps
<1>5. CASE ~GivesUp(e)
  <2>1. isProcessing' = FALSE /\ call' = [call EXCEPT ![t] = Idle] /\ UNCHANGED <<queue, writes>>
    BY <1>5 DEF Failed, Stop, End, e
  <2>2. CallType' /\ call'[t] = Idle /\ \A u \in Task : u # t => call'[u] = call[u]
    BY <2>1, InCall, OneCall DEF Basic
  <2>3. Moves
    BY <1>1, <2>1, <2>2, InCall, OneMoves DEF Saving, Sending
  <2>4. RetryOK'
    <3>1. retry'[e] < MaxRetries
      BY <1>0, <1>2, <1>5, Numbers DEF GivesUp, Basic, RetryOK
    <3>2. \A d \in Entry : d > made => d # e
      BY <1>0, QueueIs DEF Basic, Entry
    <3>3. \A d \in Ids(queue) : retry'[d] < MaxRetries
      BY <1>2, <3>1, QueueIs DEF Basic, RetryOK
    <3> QED
      BY <1>1, <1>2, <2>1, <3>2, <3>3 DEF Basic, RetryOK
  <2>5. FlagsOK'
    BY <1>1, <2>1 DEF Basic, FlagsOK
  <2> QED
    BY <1>3, <2>2, <2>3, <2>4, <2>5, MovesKeep DEF Moves
<1> QED
  BY <1>4, <1>5

(* It fails with or without a copy of it queued.                           *)
LEMMA FailsDo ==
  ASSUME Basic, NEW t \in Task, ExecFails(t) \/ CloneAdded(t)
  PROVE  Basic' /\ (Saves(t) \/ Moves)
BY FailedDoes DEF ExecFails, CloneAdded, At, Sending

(* removeFromQueue, clearQueue and clearFailedRequests.                    *)
LEMMA RemoveSaves ==
  ASSUME Basic, NEW S, S \subseteq Ids(queue), RemoveFromQueue(S)
  PROVE  Saves(None) /\ Basic'
<1>1. /\ queue' = Without(queue, S) /\ retry' = retry /\ Save(None)
      /\ removed' = removed \cup S /\ Early \subseteq blame'
      /\ UNCHANGED <<made, isProcessing, isOnline, link, loading, loaded, call, stored,
                     processed, answered, accepted>>
  BY DEF RemoveFromQueue, Blame
<1>2. /\ QueueOK' /\ HeadStays
      /\ Ids(queue') = Ids(queue) \ S
  BY <1>1, FilterQueue DEF Basic
<1>3. RetryOK' /\ CallType' /\ FlagsOK'
  BY <1>1, <1>2 DEF Basic, RetryOK, CallType, FlagsOK
<1>4. PastOK'
  <2>1. S \subseteq 1..made
    BY QueueIs DEF Basic
  <2> QED
    BY <1>1, <2>1 DEF Basic, PastOK
<1>5. loading => "early" \in blame'
  BY <1>1 DEF Early, Mishap
<1>6. Saves(None)
  BY <1>1, <1>2, <1>5, QueueIs, NoneIsNothing DEF Saves, SameSender, SameSaver, Basic
<1> QED
  BY <1>2, <1>3, <1>4, <1>6, SaverKeeps

(* retryFailedRequests.                                                    *)
LEMMA RetryFailedSaves ==
  ASSUME Basic, NEW t \in Task, RetryFailedRequests(t)
  PROVE  Saves(t) /\ Basic'
<1>1. /\ queue' = queue /\ Save(t) /\ call[t].at = "idle" /\ Goto(t, "retrySave")
      /\ retry' = [e \in Entry |-> IF e \in FailedOnes THEN 0 ELSE retry[e]]
      /\ blame' = blame \cup Early
      /\ UNCHANGED <<made, isProcessing, isOnline, link, loading, loaded, stored,
                     processed, answered, accepted, removed>>
  BY DEF RetryFailedRequests, Blame, At
<1>2. /\ CallType' /\ call'[t].at = "retrySave"
      /\ \A u \in Task : u # t => call'[u] = call[u]
  BY <1>1, Gone DEF Basic, Step
<1>3. QueueOK' /\ HeadStays
  BY <1>1 DEF Basic, QueueOK, HeadStays, HeadIf
<1>4. RetryOK'
  BY <1>1, Numbers, QueueIs DEF Basic, RetryOK
<1>5. PastOK' /\ FlagsOK'
  BY <1>1 DEF Basic, PastOK, FlagsOK
<1>6. Saves(t)
  <2>1. \A u \in Task : SameSender(u) /\ (u # t => SameSaver(u))
    BY <1>2 DEF SameSender, SameSaver, Sending
  <2>2. loading => "early" \in blame'
    BY <1>1 DEF Early, Mishap
  <2> QED
    BY <1>1, <1>2, <1>3, <2>1, <2>2, QueueIs DEF Saves, Saving, Basic
<1> QED
  BY <1>2, <1>3, <1>4, <1>5, <1>6, SaverKeeps

(* The connection and NetInfo's listener.                                  *)
LEMMA LinkMoves ==
  ASSUME Basic, NetInfoEvent \/ \E up \in BOOLEAN : LinkChange(up)
  PROVE  Moves /\ Basic'
<1>1. /\ UNCHANGED <<queue, retry, made, isProcessing, loading, loaded, stored, writes, past>>
      /\ isOnline' \in BOOLEAN /\ link' \in BOOLEAN
  BY DEF NetInfoEvent, LinkChange, memory, storage, Basic, FlagsOK
<1>0. RetryOK' /\ PastOK' /\ FlagsOK'
  BY <1>1 DEF Basic, RetryOK, PastOK, FlagsOK, past
<1>2. CASE call' = call
  <2>1. Moves /\ CallType'
    BY <1>1, <1>2 DEF Basic, CallType, Moves, SameSaver, SameSender, Awake
  <2> QED
    BY <1>0, <1>1, <2>1, MovesKeep DEF Moves
<1>3. CASE call' # call
  <2>1. PICK t \in Task : call[t].at = "idle" /\ Goto(t, "fetch") /\ queue # <<>>
    BY <1>3 DEF NetInfoEvent, LinkChange, Runnable, At
  <2>2. /\ CallType' /\ call'[t].at = "fetch"
        /\ \A u \in Task : u # t => call'[u] = call[u]
    BY <2>1, Gone DEF Basic, Step
  <2>3. Moves
    BY <1>1, <2>1, <2>2, OneMoves DEF Saving, Sending
  <2> QED
    BY <1>0, <2>2, <2>3, MovesKeep DEF Moves
<1> QED
  BY <1>2, <1>3

-----------------------------------------------------------------------------
(* Every step *)
Loads == PerformWrite \/ WriteFails \/ Load \/ LoadFails \/ Restart

(* Nothing happens.                                                        *)
LEMMA StutterMoves ==
  ASSUME Basic, UNCHANGED vars
  PROVE  Moves /\ Basic'
<1>1. /\ UNCHANGED <<queue, retry, made, isProcessing, isOnline, link, loading, loaded, stored, writes,
                     call, processed, answered, accepted, removed>>
  BY DEF vars, memory, storage, world, past
<1>2. Moves
  BY <1>1 DEF Moves, SameSaver, SameSender, Awake
<1>3. CallType' /\ RetryOK' /\ PastOK' /\ FlagsOK'
  BY <1>1 DEF Basic, CallType, RetryOK, PastOK, FlagsOK
<1> QED
  BY <1>1, <1>2, <1>3, MovesKeep DEF Moves

(* Every step keeps the basic facts, and is one of three kinds: it leaves  *)
(* the queue and the saves alone, saves, or is one of the storage's or a   *)
(* restart.                                                                *)
LEMMA StepKinds ==
  ASSUME Basic, [Next]_vars
  PROVE  Basic' /\ (Moves \/ (\E b \in Task \cup {None} : Saves(b)) \/ Loads)
<1>1. ASSUME NEW t \in Task, TaskStep(t) PROVE Basic' /\ (Moves \/ Saves(t))
  BY <1>1, AddTailMoves, CallMoves, ExecOkSaves, FailsDo, Zenon DEF TaskStep
<1>2. ASSUME User PROVE Basic' /\ (Moves \/ \E b \in Task \cup {None} : Saves(b))
  <2>1. ASSUME NEW t \in Task, AddToQueue(t) \/ ProcessQueue(t) \/ RetryFailedRequests(t)
        PROVE  Basic' /\ (Moves \/ Saves(t))
    BY <2>1, AddToQueueSaves, CallMoves, RetryFailedSaves
  <2>2. ASSUME NEW S \in {{e} : e \in Ids(queue)} \cup {Ids(queue), FailedOnes}, RemoveFromQueue(S)
        PROVE  Basic' /\ Saves(None)
    <3>1. S \subseteq Ids(queue)
      BY DEF FailedOnes
    <3> QED
      BY <2>2, <3>1, RemoveSaves
  <2> QED
    BY <1>2, <2>1, <2>2, Zenon DEF User
<1>3. ASSUME NEW t \in Task, NEW u \in Task, ExecFailsOffline(t, u) PROVE Basic' /\ Saves(u)
  BY <1>3, ExecFailsOfflineSaves
<1>4. ASSUME Loads PROVE Basic'
  BY <1>4, SettleKeeps, LoadKeeps, RestartKeeps DEF Loads
<1>5. ASSUME NetInfoEvent \/ \E up \in BOOLEAN : LinkChange(up) PROVE Basic' /\ Moves
  BY <1>5, LinkMoves
<1>6. ASSUME UNCHANGED vars PROVE Basic' /\ Moves
  BY <1>6, StutterMoves
<1>7. \A t \in Task : t \in Task \cup {None}
  OBVIOUS
<1>8. CASE Next
  <2>1. CASE \E t \in Task : TaskStep(t)
    BY <1>1, <1>7, <2>1, Zenon
  <2>2. CASE \E t, u \in Task : ExecFailsOffline(t, u)
    BY <1>3, <1>7, <2>2, Zenon
  <2>3. CASE Loads
    BY <1>4, <2>3, Zenon
  <2>4. CASE User
    BY <1>2, <2>4, Zenon
  <2>5. CASE NetInfoEvent \/ \E up \in BOOLEAN : LinkChange(up)
    BY <1>5, <2>5, Zenon
  <2> QED
    BY <1>8, <2>1, <2>2, <2>3, <2>4, <2>5, Zenon DEF Next, Loads
<1> QED
  BY <1>6, <1>8

(* Mishaps are not forgotten, and a failing AsyncStorage is one.           *)
LEMMA BlameGrows ==
  ASSUME [Next]_vars
  PROVE  /\ blame \subseteq blame'
         /\ WriteFails \/ LoadFails => "storage" \in blame'
<1>1. ASSUME NEW t \in Task, TaskStep(t) PROVE blame \subseteq blame'
  BY <1>1 DEF TaskStep, AddTail, Fetched, LoopSends, LoopEnds, ExecOk, ExecFails, CloneAdded,
     Failed, RetryTail, past, Blame
<1>2. ASSUME User PROVE blame \subseteq blame'
  BY <1>2 DEF User, AddToQueue, ProcessQueue, RetryFailedRequests, RemoveFromQueue, Push, past, Blame
<1>3. ASSUME Loads PROVE blame \subseteq blame'
  BY <1>3 DEF Loads, PerformWrite, WriteFails, Load, LoadFails, Restart, past, Blame
<1>4. ASSUME NEW t \in Task, NEW u \in Task, ExecFailsOffline(t, u) PROVE blame \subseteq blame'
  BY <1>4 DEF ExecFailsOffline, Push, Blame
<1>5. ASSUME NetInfoEvent \/ \E up \in BOOLEAN : LinkChange(up) PROVE blame \subseteq blame'
  BY <1>5 DEF NetInfoEvent, LinkChange, past
<1>6. ASSUME UNCHANGED vars PROVE blame \subseteq blame'
  BY <1>6 DEF vars, past
<1>7. WriteFails \/ LoadFails => "storage" \in blame'
  BY DEF WriteFails, LoadFails, Blame
<1> QED
  BY <1>1, <1>2, <1>3, <1>4, <1>5, <1>6, <1>7 DEF Next, Loads

-----------------------------------------------------------------------------
(* What AsyncStorage holds now and will hold after each pending setItem. *)
Saved(k) == IF k = 0 THEN (IF stored = None THEN <<>> ELSE IdsOf(stored))
                     ELSE IdsOf(writes[k].snap)

(* A save adds the new queue to the chain of what is and will be stored.   *)
LEMMA SavesChain ==
  ASSUME Basic, NEW b \in Task \cup {None}, Saves(b), Basic'
  PROVE  /\ Len(writes') = Len(writes) + 1 /\ Len(writes) \in Nat
         /\ DOMAIN writes' = 1..(Len(writes) + 1)
         /\ \A k \in DOMAIN writes : writes'[k] = writes[k]
         /\ writes'[Len(writes) + 1].by = b
         /\ \A k \in 0..Len(writes) : Saved(k)' = Saved(k)
         /\ \A k : k = Len(writes) + 1 => Saved(k)' = queue'
<1>1. made <= made' /\ Save(b) /\ UNCHANGED <<stored, loaded>>
  BY DEF Saves
<1>2. /\ Len(writes') = Len(writes) + 1 /\ DOMAIN writes' = 1..(Len(writes) + 1)
      /\ \A k \in DOMAIN writes : writes'[k] = writes[k]
      /\ writes'[Len(writes) + 1].by = b /\ IdsOf(writes'[Len(writes) + 1].snap) = queue'
  BY <1>1, SaveAppends DEF Basic
<1>3. Len(writes) \in Nat /\ DOMAIN writes = 1..Len(writes)
  BY StoreIs DEF Basic
<1>4. \A k \in 0..Len(writes) : Saved(k)' = Saved(k)
  <2> TAKE k \in 0..Len(writes)
  <2>1. CASE k = 0
    BY <1>1, <2>1 DEF Saved
  <2>2. CASE k # 0
    <3>1. k \in DOMAIN writes
      BY <1>3, <2>2
    <3> QED
      BY <1>2, <2>2, <3>1 DEF Saved
  <2> QED
    BY <2>1, <2>2
<1>5. \A k : k = Len(writes) + 1 => Saved(k)' = queue'
  BY <1>2, <1>3 DEF Saved
<1> QED
  BY <1>2, <1>3, <1>4, <1>5

(* A setItem call that is performed takes the chain one on.                *)
LEMMA PerformChain ==
  ASSUME Basic, PerformWrite
  PROVE  /\ Len(writes') = Len(writes) - 1 /\ Len(writes) \in Nat /\ Len(writes) > 0
         /\ \A k \in 0..Len(writes') : k + 1 \in 1..Len(writes) /\ Saved(k)' = Saved(k + 1)
<1>0. writes # <<>> /\ Settle(Head(writes)) /\ stored' = Head(writes).snap
  BY DEF PerformWrite
<1>1. /\ Len(writes') = Len(writes) - 1 /\ DOMAIN writes' = 1..(Len(writes) - 1)
      /\ \A k \in DOMAIN writes' : k + 1 \in DOMAIN writes /\ writes'[k] = writes[k + 1]
      /\ 1 \in DOMAIN writes /\ Head(writes) = writes[1]
  BY <1>0, SettleDoes
<1>2. /\ Len(writes) \in Nat /\ DOMAIN writes = 1..Len(writes) /\ Len(writes) > 0
      /\ writes[1].snap \in Snapshots
  BY <1>1, StoreIs DEF Basic
<1>3. \A k \in 0..Len(writes') : k + 1 \in 1..Len(writes) /\ Saved(k)' = Saved(k + 1)
  <2> TAKE k \in 0..Len(writes')
  <2>1. k + 1 \in 1..Len(writes) /\ k + 1 # 0
    BY <1>1, <1>2
  <2>2. CASE k = 0
    BY <1>0, <1>1, <1>2, <2>1, <2>2, NoneIsNothing DEF Saved
  <2>3. CASE k # 0
    <3>1. k \in DOMAIN writes'
      BY <1>1, <1>2, <2>3
    <3> QED
      BY <1>1, <2>1, <2>3, <3>1 DEF Saved
  <2> QED
    BY <2>1, <2>2, <2>3
<1> QED
  BY <1>1, <1>2, <1>3

(* Other steps leave the chain alone.                                      *)
LEMMA MovesChain ==
  ASSUME Moves
  PROVE  writes' = writes /\ \A k : Saved(k)' = Saved(k)
BY DEF Moves, Saved

(* The end of the chain is the queue; nothing has happened before it was   *)
(* loaded.                                                                 *)
SaveInv ==
    blame \cap {"storage", "early"} = {} =>
        /\ loading => /\ queue = <<>> /\ writes = <<>> /\ loaded = stored
                      /\ \A t \in Task : call[t].at = "idle"
        /\ ~loading => Saved(Len(writes)) = queue

(* Every step keeps SaveInv.                                               *)
LEMMA SaveInvStep ==
  ASSUME Basic, SaveInv, [Next]_vars
  PROVE  SaveInv'
<1> SUFFICES ASSUME blame' \cap {"storage", "early"} = {}
             PROVE  /\ loading' => /\ queue' = <<>> /\ writes' = <<>> /\ loaded' = stored'
                                   /\ \A t \in Task : call'[t].at = "idle"
                    /\ ~loading' => Saved(Len(writes))' = queue'
  BY DEF SaveInv
<1>1. /\ blame \cap {"storage", "early"} = {} /\ "early" \notin blame'
      /\ ~WriteFails /\ ~LoadFails
  BY BlameGrows
<1>2. /\ loading => /\ queue = <<>> /\ writes = <<>> /\ loaded = stored
                    /\ \A t \in Task : call[t].at = "idle"
      /\ ~loading => Saved(Len(writes)) = queue
  BY <1>1 DEF SaveInv
<1>3. CASE Moves
  BY <1>2, <1>3, MovesChain DEF Moves, Awake
<1>4. ASSUME NEW b \in Task \cup {None}, Saves(b)
      PROVE  ~loading' /\ Saved(Len(writes))' = queue'
  <2>1. ~loading /\ ~loading'
    BY <1>1, <1>2, <1>4 DEF Saves
  <2>2. \A k : k = Len(writes) + 1 => Saved(k)' = queue'
    BY <1>4, SavesChain, StepKinds
  <2>3. Len(writes') = Len(writes) + 1
    BY <1>4, SavesChain, StepKinds
  <2> DEFINE n == Len(writes) + 1
  <2>4. Saved(Len(writes))' = IF Len(writes') = 0 THEN (IF stored' = None THEN <<>> ELSE IdsOf(stored'))
                     ELSE IdsOf(writes'[Len(writes')].snap)
    BY DEF Saved
  <2> QED
    BY <2>1, <2>2, <2>3, <2>4 DEF Saved
<1>5. CASE PerformWrite
  <2>1. ~loading /\ ~loading' /\ queue' = queue
    BY <1>2, <1>5 DEF PerformWrite, Settle, memory
  <2> QED
    BY <1>2, <1>5, <2>1, PerformChain DEF Saved
<1>6. CASE Load
  <2>1. writes' = <<>> /\ ~loading' /\ stored' = stored
    BY <1>2, <1>6 DEF Load, storage
  <2>2. queue' = IF stored = None THEN <<>> ELSE IdsOf(stored)
    BY <1>2, <1>6 DEF Load
  <2> QED
    BY <2>1, <2>2 DEF Saved
<1>7. CASE Restart
  BY <1>7 DEF Restart, Idle
<1> QED
  BY <1>1, <1>3, <1>4, <1>5, <1>6, <1>7, StepKinds DEF Loads

-----------------------------------------------------------------------------
(* The drains.                                                             *)

(* No mishap has occurred.                                                 *)
Clean == blame \cap {"overlap", "edit", "storage", "early"} = {}

(* The reasons to leave the queue.                                         *)
Excused(e) == e \in processed \cup removed \/ retry[e] >= MaxRetries

(* One drain at a time; and what it sends is the head.                     *)
OverlapInv == "overlap" \notin blame => \A t, u \in Looping : t = u

HeadInv ==
    Clean => \A t \in Task : call[t].at \in Sending => queue # <<>> /\ queue[1] = call[t].req

(* Without a mishap after the step there was none before.                  *)
LEMMA CleanBefore ==
  ASSUME [Next]_vars, Clean'
  PROVE  Clean /\ ~WriteFails /\ ~LoadFails
BY BlameGrows DEF Clean

-----------------------------------------------------------------------------
(* Who drains *)
LoopStep ==
    \A t \in Task : call'[t].at \in InLoop =>
        \/ call[t].at \in InLoop
        \/ /\ Looping # {} => "overlap" \in blame'
           /\ \A u \in Task : u # t => call'[u].at = call[u].at

(* A call that does not begin to drain leaves the drains at most as many.  *)
LEMMA LoopSame ==
  ASSUME Basic, NEW t \in Task, call'[t].at \notin InLoop \/ call[t].at \in InLoop,
         \A u \in Task : u # t => call'[u].at = call[u].at
  PROVE  LoopStep
BY DEF LoopStep

(* A call that sends is in processQueue's loop, and of those that save     *)
(* only the one after a shift is.                                          *)
LEMMA SendingLoops == Sending \subseteq InLoop /\ Saving \cap InLoop = {"shiftSave"}
BY DEF Sending, Saving, InLoop

(* A started call's step: only Fetched begins a drain.                     *)
LEMMA TaskLoops ==
  ASSUME Basic, NEW t \in Task, TaskStep(t)
  PROVE  LoopStep
<1>0. CallType
  BY DEF Basic
<1>1. CASE AddTail(t)
  <2>1. \A u \in Task : call'[u].at = call[u].at \/ call'[u].at \in {"fetch", "idle"}
    <3>1. \A u \in Task : call[u] \in Call
      BY DEF Basic, CallType
    <3>2. \A c \in Call : [c EXCEPT !.copier = None].at = c.at
      BY DEF Call
    <3>3. [Idle EXCEPT !.at = IF StartsAfterAdd THEN "fetch" ELSE "idle"].at \in {"fetch", "idle"}
      BY DEF Idle
    <3>4. call' = [u \in Task |-> IF u = t THEN [Idle EXCEPT !.at = IF StartsAfterAdd THEN "fetch" ELSE "idle"]
                                  ELSE IF call[u].copier = t THEN [call[u] EXCEPT !.copier = None]
                                  ELSE call[u]]
      BY <1>1 DEF AddTail
    <3> QED
      BY <3>1, <3>2, <3>3, <3>4
  <2> QED
    BY <2>1 DEF LoopStep, InLoop
<1>2. CASE Fetched(t)
  <2>1. (IF link THEN "loop" ELSE "idle") \in Step
    BY DEF Step, InLoop
  <2>2. \A u \in Task : u # t => call'[u].at = call[u].at
    BY <1>0, <1>2, <2>1, Gone DEF Fetched
  <2>3. call'[t].at = IF link THEN "loop" ELSE "idle"
    BY <1>0, <1>2, <2>1, Gone DEF Fetched
  <2>4. link /\ Looping # {} => "overlap" \in blame'
    BY <1>2 DEF Fetched, Blame, Mishap
  <2> QED
    BY <2>2, <2>3, <2>4 DEF LoopStep, InLoop
<1>3. CASE RetryTail(t)
  <2>1. (IF isOnline /\ Runnable THEN "fetch" ELSE "idle") \in Step
    BY DEF Step
  <2>2. call'[t].at \notin InLoop /\ \A u \in Task : u # t => call'[u].at = call[u].at
    BY <1>0, <1>3, <2>1, Gone DEF RetryTail, InLoop
  <2> QED
    BY <2>2, LoopSame
<1>4. CASE LoopSends(t) \/ LoopEnds(t) \/ ExecOk(t) \/ ExecFails(t) \/ CloneAdded(t)
  <2>1. call[t].at \in InLoop
    BY <1>4 DEF LoopSends, LoopEnds, ExecOk, ExecFails, CloneAdded, At, InLoop
  <2>2. \A u \in Task : u # t => call'[u] = call[u]
    BY <1>4 DEF LoopSends, LoopEnds, ExecOk, ExecFails, CloneAdded, Failed, ShiftAndSave, End,
       Basic, CallType
  <2> QED
    BY <2>1, <2>2, LoopSame
<1> QED
  BY <1>1, <1>2, <1>3, <1>4 DEF TaskStep

(* The user's calls begin none by themselves.                              *)
LEMMA UserLoops ==
  ASSUME Basic, NEW t \in Task,
         AddToQueue(t) \/ ProcessQueue(t) \/ RetryFailedRequests(t)
  PROVE  LoopStep
<1>1. CallType
  BY DEF Basic
<1>2. CASE AddToQueue(t)
  <2>1. Adding(made + 1).at = "addSave"
    BY DEF Adding, Idle
  <2>2. call' = [call EXCEPT ![t] = Adding(made + 1)]
    BY <1>2 DEF AddToQueue
  <2>3. call'[t].at \notin InLoop /\ \A u \in Task : u # t => call'[u] = call[u]
    BY <1>1, <2>1, <2>2 DEF InLoop, CallType
  <2> QED
    BY <2>3, LoopSame
<1>3. CASE ProcessQueue(t)
  BY <1>1, <1>3, Gone, LoopSame DEF ProcessQueue, Step, InLoop
<1>4. CASE RetryFailedRequests(t)
  BY <1>1, <1>4, Gone, LoopSame DEF RetryFailedRequests, Step, InLoop
<1> QED
  BY <1>2, <1>3, <1>4

(* Neither does the interceptor.                                           *)
LEMMA CloneLoops ==
  ASSUME Basic, NEW t \in Task, NEW u \in Task, ExecFailsOffline(t, u)
  PROVE  LoopStep
<1>1. /\ call' = [call EXCEPT ![t].at = "clone", ![t].copier = u, ![u] = Adding(made + 1)]
      /\ call[t].at = "exec" /\ call \in [Task -> Call]
  BY DEF ExecFailsOffline, At, Basic, CallType
<1>2. Adding(made + 1).at = "addSave"
  BY DEF Adding, Idle
<1>3. \A v \in Task : v \notin {t, u} => call'[v] = call[v]
  BY <1>1
<1>4. call'[u] = Adding(made + 1)
  BY <1>1
<1> QED
  BY <1>1, <1>2, <1>3, <1>4 DEF LoopStep, InLoop

(* Nor AsyncStorage, NetInfo, a restart or the queue screen.               *)
LEMMA OtherLoops ==
  ASSUME Basic,
         \/ Loads \/ NetInfoEvent \/ UNCHANGED vars
         \/ \E up \in BOOLEAN : LinkChange(up)
         \/ \E S : RemoveFromQueue(S)
  PROVE  LoopStep
<1>1. CASE PerformWrite \/ WriteFails
  <2>1. writes # <<>> /\ Settle(Head(writes))
    BY <1>1 DEF PerformWrite, WriteFails
  <2>2. /\ \A t \in Task : t # writes[1].by => call'[t] = call[t]
        /\ LET t == writes[1].by IN
           t \in Task => /\ call[t].at \in Saving
                          /\ call'[t].at = NextStep[call[t].at] /\ call'[t].req = call[t].req
                          /\ call'[t].at \in {"addFetch", "loop", "retryTail"}
    BY <2>1, SettleDoes
  <2> QED
    BY <2>2 DEF LoopStep, InLoop, Saving, NextStep
<1>2. CASE NetInfoEvent
  <2>1. CASE call' = call
    BY <2>1 DEF LoopStep
  <2>2. CASE call' # call
    <3>1. PICK t \in Task : Goto(t, "fetch")
      BY <1>2, <2>2 DEF NetInfoEvent
    <3> QED
      BY <3>1, Gone, LoopSame DEF Basic, Step, InLoop
  <2> QED
    BY <2>1, <2>2
<1>3. CASE Load \/ LoadFails \/ UNCHANGED vars \/ (\E up \in BOOLEAN : LinkChange(up))
           \/ \E S : RemoveFromQueue(S)
  BY <1>3 DEF Load, LoadFails, vars, LinkChange, RemoveFromQueue, LoopStep
<1>4. CASE Restart
  BY <1>4 DEF Restart, Idle, LoopStep, InLoop
<1> QED
  BY <1>1, <1>2, <1>3, <1>4 DEF Loads

(* Whoever begins to drain while another does leaves the mishap overlap.   *)
LEMMA StepLoops ==
  ASSUME Basic, [Next]_vars
  PROVE  LoopStep
<1>1. CASE User
  BY <1>1, UserLoops, OtherLoops, Zenon DEF User
<1>2. CASE \E t \in Task : TaskStep(t)
  BY <1>2, TaskLoops
<1>3. CASE \E t, u \in Task : ExecFailsOffline(t, u)
  BY <1>3, CloneLoops
<1> QED
  BY <1>1, <1>2, <1>3, OtherLoops, Zenon DEF Next, Loads

(* Every step keeps OverlapInv.                                            *)
LEMMA OverlapInvStep ==
  ASSUME Basic, OverlapInv, [Next]_vars
  PROVE  OverlapInv'
<1>1. LoopStep /\ blame \subseteq blame'
  BY StepLoops, BlameGrows
<1> SUFFICES ASSUME "overlap" \notin blame', NEW t \in Task, NEW u \in Task,
                    call'[t].at \in InLoop, call'[u].at \in InLoop, t # u
             PROVE  FALSE
  BY DEF OverlapInv, Looping
<1>2. \A v, w \in Task : call[v].at \in InLoop /\ call[w].at \in InLoop => v = w
  BY <1>1 DEF OverlapInv, Looping
<1>3. \A v \in Task : call[v].at \in InLoop => Looping # {}
  BY DEF Looping
<1> QED
  BY <1>1, <1>2, <1>3 DEF LoopStep

-----------------------------------------------------------------------------
(* What the steps record *)

(* What the server processed, the user removed and addToQueue returned     *)
(* from stays recorded.                                                    *)
LEMMA StepRecords ==
  ASSUME Basic, [Next]_vars
  PROVE  /\ processed \subseteq processed' /\ removed \subseteq removed' /\ accepted \subseteq accepted'
         /\ accepted' = accepted \/ PerformWrite \/ WriteFails
<1>1. ASSUME NEW t \in Task, TaskStep(t)
      PROVE  /\ processed \subseteq processed' /\ removed \subseteq removed' /\ accepted' = accepted
  BY <1>1 DEF TaskStep, AddTail, Fetched, LoopSends, LoopEnds, ExecOk, ExecFails, CloneAdded,
     Failed, RetryTail, past
<1>2. ASSUME User
      PROVE  /\ processed \subseteq processed' /\ removed \subseteq removed' /\ accepted' = accepted
  BY <1>2 DEF User, AddToQueue, ProcessQueue, RetryFailedRequests, RemoveFromQueue, past
<1>3. ASSUME Load \/ LoadFails \/ Restart
      PROVE  /\ processed \subseteq processed' /\ removed \subseteq removed' /\ accepted' = accepted
  BY <1>3 DEF Load, LoadFails, Restart, past
<1>4. ASSUME NEW t \in Task, NEW u \in Task, ExecFailsOffline(t, u)
      PROVE  /\ processed \subseteq processed' /\ removed \subseteq removed' /\ accepted' = accepted
  BY <1>4 DEF ExecFailsOffline
<1>5. ASSUME NetInfoEvent \/ (\E up \in BOOLEAN : LinkChange(up)) \/ UNCHANGED vars
      PROVE  /\ processed \subseteq processed' /\ removed \subseteq removed' /\ accepted' = accepted
  BY <1>5 DEF NetInfoEvent, LinkChange, past, vars
<1>6. ASSUME PerformWrite \/ WriteFails
      PROVE  processed \subseteq processed' /\ removed \subseteq removed' /\ accepted \subseteq accepted'
  BY <1>6 DEF PerformWrite, WriteFails, Settle
<1> QED
  BY <1>1, <1>2, <1>3, <1>4, <1>5, <1>6, Zenon DEF Next

(* A failure lowers no count.                                              *)
LEMMA FailedGrows ==
  ASSUME Basic, NEW t \in Task, call[t].at \in Sending, Failed(t)
  PROVE  \A e \in Entry : retry'[e] >= retry[e]
<1>1. call[t].req \in Entry
  BY QueueIs, Numbers DEF Basic, SendOK, Entry
<1>2. retry' = [retry EXCEPT ![call[t].req] = @ + 1] /\ retry \in [Entry -> Nat]
  BY DEF Failed, Basic, RetryOK
<1>3. \A e \in Entry : retry[e] \in Nat
  BY <1>2
<1> QED
  BY <1>1, <1>2, <1>3

(* A count goes down only when its request is in the queue.                *)
LEMMA RetryStays ==
  ASSUME Basic, [Next]_vars, NEW e \in Entry, e \notin Ids(queue), e \notin Ids(queue')
  PROVE  retry'[e] >= retry[e]
<1>0. retry[e] \in Nat
  BY DEF Basic, RetryOK
<1>1. ASSUME retry' = retry PROVE retry'[e] >= retry[e]
  BY <1>0, <1>1
<1>2. ASSUME NEW t \in Task, TaskStep(t) PROVE retry'[e] >= retry[e]
  <2>1. CASE ExecFails(t) \/ CloneAdded(t)
    BY <2>1, FailedGrows DEF ExecFails, CloneAdded, At, Sending
  <2>2. CASE AddTail(t) \/ Fetched(t) \/ LoopSends(t) \/ LoopEnds(t) \/ ExecOk(t) \/ RetryTail(t)
    BY <1>1, <2>2 DEF AddTail, Fetched, LoopSends, LoopEnds, ExecOk, RetryTail, memory
  <2> QED
    BY <1>2, <2>1, <2>2 DEF TaskStep
<1>3. ASSUME NEW t \in Task, RetryFailedRequests(t) PROVE retry'[e] >= retry[e]
  <2>1. retry' = [d \in Entry |-> IF d \in FailedOnes THEN 0 ELSE retry[d]]
    BY <1>3 DEF RetryFailedRequests
  <2>2. e \notin FailedOnes
    BY DEF FailedOnes
  <2> QED
    BY <1>0, <2>1, <2>2
<1>4. ASSUME User PROVE retry'[e] >= retry[e]
  <2>1. ASSUME NEW t \in Task, AddToQueue(t) \/ ProcessQueue(t) PROVE retry' = retry
    BY <2>1 DEF AddToQueue, Push, ProcessQueue, memory
  <2>2. ASSUME NEW S, RemoveFromQueue(S) PROVE retry' = retry
    BY <2>2 DEF RemoveFromQueue
  <2> QED
    BY <1>1, <1>3, <1>4, <2>1, <2>2, Zenon DEF User
<1>5. ASSUME Load PROVE retry'[e] >= retry[e]
  <2>1. CASE loaded = None
    BY <1>1, <1>5, <2>1 DEF Load
  <2>2. CASE loaded # None
    <3>1. retry'[e] = retry[e]
      BY <1>5, <2>2, LoadDoes
    <3> QED
      BY <1>0, <3>1
  <2> QED
    BY <2>1, <2>2
<1>6. ASSUME \/ PerformWrite \/ WriteFails \/ LoadFails \/ Restart \/ NetInfoEvent \/ UNCHANGED vars
             \/ \E up \in BOOLEAN : LinkChange(up)
             \/ \E t, u \in Task : ExecFailsOffline(t, u)
      PROVE  retry' = retry
  BY <1>6 DEF PerformWrite, WriteFails, Settle, LoadFails, Restart, NetInfoEvent, vars, LinkChange,
     ExecFailsOffline, Push, memory
<1> QED
  BY <1>1, <1>2, <1>4, <1>5, <1>6, Zenon DEF Next

(* A request out of the queue keeps the reason for which it left.          *)
LEMMA ExcuseStays ==
  ASSUME Basic, [Next]_vars, NEW e \in Entry, e \notin Ids(queue), e \notin Ids(queue'), Excused(e)
  PROVE  Excused(e)'
<1>1. retry'[e] >= retry[e] /\ processed \subseteq processed' /\ removed \subseteq removed'
  BY RetryStays, StepRecords
<1>2. retry[e] \in Nat /\ retry'[e] \in Nat
  BY StepKinds DEF Basic, RetryOK
<1> QED
  BY <1>1, <1>2, Numbers DEF Excused

-----------------------------------------------------------------------------
(* What a request that leaves the queue leaves it for. *)
Drops == \A e \in Ids(queue) \ Ids(queue') :
            Excused(e)' /\ \A t \in Task : call'[t].at \in Sending => call'[t].req # e

(* What is shifted out is the request of the drain that shifts.            *)
LEMMA ShiftDrops ==
  ASSUME Basic, OverlapInv, HeadInv, Clean, NEW t \in Task, call[t].at \in Sending, ShiftAndSave(t),
         made' = made, NEW d, d = call[t].req, Excused(d)'
  PROVE  Drops
<1>1. \A e \in Ids(queue) \ Ids(queue') : e = queue[1]
  BY ShiftQueue DEF ShiftAndSave, Basic
<1>2. queue[1] = call[t].req
  BY DEF HeadInv
<1>3. \A u \in Task : call'[u].at \notin Sending
  <2>1. call' = [call EXCEPT ![t] = [Idle EXCEPT !.at = "shiftSave"]]
    BY DEF ShiftAndSave
  <2>2. \A u \in Task : u # t => call[u].at \notin Sending
    BY SendingLoops DEF OverlapInv, Clean, Looping
  <2>3. [Idle EXCEPT !.at = "shiftSave"].at \notin Sending
    BY DEF Idle, Sending
  <2> QED
    BY <2>1, <2>2, <2>3 DEF Basic, CallType
<1> QED
  BY <1>1, <1>2, <1>3 DEF Drops

(* A failed request leaves the queue with its retries used up.             *)
LEMMA FailedDrops ==
  ASSUME Basic, OverlapInv, HeadInv, Clean, NEW t \in Task, call[t].at \in Sending, Failed(t)
  PROVE  Drops
<1>1. CASE ShiftAndSave(t) /\ GivesUp(call[t].req)
  <2> SUFFICES ASSUME NEW d, d = call[t].req PROVE Drops
    OBVIOUS
  <2>1. Excused(d)'
    BY <1>1 DEF GivesUp, Excused
  <2>2. made' = made
    BY DEF Failed
  <2> QED
    BY <1>1, <2>1, <2>2, ShiftDrops
<1>2. CASE queue' = queue
  BY <1>2 DEF Drops
<1> QED
  BY <1>1, <1>2 DEF Failed

(* What leaves the queue without a mishap has been processed, removed or   *)
(* given up.                                                               *)
LEMMA StepDrops ==
  ASSUME Basic, OverlapInv, HeadInv, [Next]_vars, Clean', ~Load, ~Restart
  PROVE  Drops
<1>0. Clean
  BY CleanBefore
<1>1. ASSUME Ids(queue) \subseteq Ids(queue') PROVE Drops
  BY <1>1 DEF Drops
<1>2. ASSUME NEW t \in Task, TaskStep(t) PROVE Drops
  <2>1. CASE ExecFails(t) \/ CloneAdded(t)
    BY <1>0, <2>1, FailedDrops DEF ExecFails, CloneAdded, At, Sending
  <2>2. CASE ExecOk(t)
    <3> SUFFICES ASSUME NEW d, d = call[t].req PROVE Drops
      OBVIOUS
    <3>1. Excused(d)'
      BY <2>2 DEF ExecOk, Excused
    <3>2. made' = made /\ ShiftAndSave(t) /\ call[t].at \in Sending
      BY <2>2 DEF ExecOk, At, Sending
    <3> QED
      BY <1>0, <3>1, <3>2, ShiftDrops
  <2>3. CASE AddTail(t) \/ Fetched(t) \/ LoopSends(t) \/ LoopEnds(t) \/ RetryTail(t)
    <3>1. queue' = queue
      BY <2>3 DEF AddTail, Fetched, LoopSends, LoopEnds, RetryTail, memory
    <3> QED
      BY <1>1, <3>1
  <2> QED
    BY <1>2, <2>1, <2>2, <2>3 DEF TaskStep
<1>3. ASSUME NEW S, RemoveFromQueue(S) PROVE Drops
  <2>1. /\ queue' = Without(queue, S) /\ made' = made /\ removed' = removed \cup S /\ call' = call
        /\ Mishap("edit", \E t \in Looping : call[t].req \in S) \subseteq blame'
    BY <1>3 DEF RemoveFromQueue, Blame
  <2>2. Ids(queue') = Ids(queue) \ S
    BY <2>1, FilterQueue DEF Basic
  <2>3. \A t \in Looping : call[t].req \notin S
    BY <2>1 DEF Clean, Mishap
  <2>4. \A t \in Task : call[t].at \in Sending => t \in Looping
    BY SendingLoops DEF Looping
  <2> QED
    BY <2>1, <2>2, <2>3, <2>4 DEF Drops, Excused
<1>4. ASSUME NEW t \in Task, Push(t) PROVE Drops
  BY <1>1, <1>4, PushCall
<1>5. ASSUME User PROVE Drops
  <2>1. ASSUME NEW t \in Task, ProcessQueue(t) \/ RetryFailedRequests(t) PROVE Drops
    BY <1>1, <2>1 DEF ProcessQueue, RetryFailedRequests, memory
  <2>2. ASSUME NEW t \in Task, AddToQueue(t) PROVE Drops
    BY <1>4, <2>2 DEF AddToQueue
  <2> QED
    BY <1>3, <1>5, <2>1, <2>2, Zenon DEF User
<1>6. ASSUME NEW t \in Task, NEW u \in Task, ExecFailsOffline(t, u) PROVE Drops
  BY <1>4, <1>6 DEF ExecFailsOffline
<1>7. ASSUME \/ PerformWrite \/ WriteFails \/ LoadFails \/ NetInfoEvent \/ UNCHANGED vars
             \/ \E up \in BOOLEAN : LinkChange(up)
      PROVE  Drops
  <2>1. queue' = queue
    BY <1>7 DEF PerformWrite, WriteFails, Settle, LoadFails, NetInfoEvent, vars, LinkChange, memory
  <2> QED
    BY <1>1, <2>1
<1> QED
  BY <1>2, <1>5, <1>6, <1>7, Zenon DEF Next

(* Every step keeps HeadInv.                                               *)
LEMMA HeadInvStep ==
  ASSUME Basic, SaveInv, OverlapInv, HeadInv, [Next]_vars
  PROVE  HeadInv'
<1> SUFFICES ASSUME Clean', NEW t \in Task, call'[t].at \in Sending
             PROVE  queue' # <<>> /\ queue'[1] = call'[t].req
  BY DEF HeadInv
<1>1. Clean /\ ~WriteFails /\ ~LoadFails
  BY CleanBefore
<1>2. call[t].at \in Sending => queue # <<>> /\ queue[1] = call[t].req
  BY <1>1 DEF HeadInv
<1>3. CASE Moves
  BY <1>2, <1>3 DEF Moves, SameSender, NewSender
<1>4. ASSUME NEW b \in Task \cup {None}, Saves(b), ~Load, ~Restart
      PROVE  queue' # <<>> /\ queue'[1] = call'[t].req
  <2>1. call'[t].req = call[t].req /\ queue # <<>> /\ queue[1] = call[t].req
    BY <1>2, <1>4 DEF Saves, SameSender
  <2>2. queue[1] \in Ids(queue) /\ queue[1] \in 1..made
    BY <2>1, QueueIs DEF Basic
  <2>3. queue[1] \in Ids(queue')
    BY <1>4, <2>1, <2>2, StepDrops DEF Drops
  <2>4. HeadIf(queue[1])
    BY DEF HeadIf
  <2>5. queue'[1] = queue[1]
    <3> DEFINE e == queue[1]
    <3>1. \A d \in 1..made : HeadIf(d) => HeadIf(d)'
      BY <1>4 DEF Saves, HeadStays
    <3>2. \A d \in 1..made : (d \in Ids(queue) => queue[1] = d) => (d \in Ids(queue') => queue'[1] = d)
      BY <3>1 DEF HeadIf
    <3> QED
      BY <2>2, <2>3, <3>2
  <2>6. queue' # <<>>
    BY <2>3 DEF Ids
  <2> QED
    BY <2>1, <2>5, <2>6
<1>5. CASE PerformWrite
  <2>1. writes # <<>> /\ Settle(Head(writes)) /\ queue' = queue
    BY <1>5 DEF PerformWrite, Settle, memory
  <2>2. call'[t] = call[t]
    BY <2>1, SettleDoes DEF Sending
  <2> QED
    BY <1>2, <2>1, <2>2
<1>6. CASE Load
  BY <1>1, <1>6 DEF Load, SaveInv, Clean, Sending
<1>7. CASE Restart
  BY <1>7 DEF Restart, Idle, Sending
<1> QED
  BY <1>1, <1>3, <1>4, <1>5, <1>6, <1>7, StepKinds DEF Loads

-----------------------------------------------------------------------------
(* What is kept.                                                           *)

(* The end of the chain.                                                   *)
Last == Saved(Len(writes))

Left(e) == e \notin Ids(Last) /\ Excused(e)

(* What is dropped along the chain, and what was accepted but is not       *)
(* stored, has left for a reason and does not come back at the end.        *)
KeepInv ==
    Clean =>
        /\ \A j, k \in 0..Len(writes) :
              j <= k => \A e \in Ids(Saved(j)) \ Ids(Saved(k)) : Left(e)
        /\ \A e \in accepted \ Ids(Saved(0)) : Left(e)

(* Everything in the chain is an ascending sequence of ids given.          *)
LEMMA ChainIs ==
  ASSUME Basic
  PROVE  /\ Len(writes) \in Nat /\ DOMAIN writes = 1..Len(writes)
         /\ \A k \in 0..Len(writes) : /\ Saved(k) \in Seq(Entry) /\ Asc(Saved(k))
                                      /\ \A e \in Ids(Saved(k)) : e \in 1..made /\ e \in Entry
<1>1. Len(writes) \in Nat /\ DOMAIN writes = 1..Len(writes)
      /\ \A k \in DOMAIN writes : Sound(writes[k].snap, made)
  BY StoreIs DEF Basic
<1>2. \A s : Sound(s, made) => /\ IdsOf(s) \in Seq(Entry) /\ Asc(IdsOf(s))
                               /\ \A e \in Ids(IdsOf(s)) : e \in 1..made /\ e \in Entry
  <2> SUFFICES ASSUME NEW s, Sound(s, made), NEW q, q = IdsOf(s)
               PROVE  /\ q \in Seq(Entry) /\ Asc(q)
                      /\ \A e \in Ids(q) : e \in 1..made /\ e \in Entry
    OBVIOUS
  <2>1. Ordered(q, made)
    BY DEF Sound
  <2>2. \A i \in DOMAIN q : q[i] \in Entry /\ q[i] <= made
    BY <2>1 DEF Ordered
  <2>3. made \in Nat
    BY QueueIs DEF Basic
  <2> QED
    BY <2>1, <2>2, <2>3 DEF Ordered, Ids, Entry
<1>3. <<>> \in Seq(Entry) /\ Asc(<<>>) /\ Ids(<<>>) = {}
  BY DEF Asc, Ids
<1>4. stored = None \/ Sound(stored, made)
  BY DEF Basic, StoreOK
<1> SUFFICES ASSUME NEW k \in 0..Len(writes)
             PROVE  /\ Saved(k) \in Seq(Entry) /\ Asc(Saved(k))
                    /\ \A e \in Ids(Saved(k)) : e \in 1..made /\ e \in Entry
  BY <1>1
<1>5. CASE k = 0
  <2>1. Saved(k) = <<>> \/ (Saved(k) = IdsOf(stored) /\ Sound(stored, made))
    BY <1>4, <1>5 DEF Saved
  <2> QED
    BY <1>2, <1>3, <2>1
<1>6. CASE k # 0
  <2>1. Saved(k) = IdsOf(writes[k].snap) /\ Sound(writes[k].snap, made)
    BY <1>1, <1>6 DEF Saved
  <2> QED
    BY <1>2, <2>1
<1> QED
  BY <1>5, <1>6

(* After a save the end of the chain is the new queue.                     *)
LEMMA LastSaved ==
  ASSUME Basic, NEW b \in Task \cup {None}, Saves(b), Basic'
  PROVE  Last' = queue'
<1>1. Len(writes') = Len(writes) + 1 /\ \A k : k = Len(writes) + 1 => Saved(k)' = queue'
  BY SavesChain
<1>2. Last' = IF Len(writes') = 0 THEN (IF stored' = None THEN <<>> ELSE IdsOf(stored'))
                     ELSE IdsOf(writes'[Len(writes')].snap)
  BY DEF Saved, Last
<1> QED
  BY <1>1, <1>2 DEF Saved

(* A setItem call that is performed leaves the end of the chain.           *)
LEMMA LastPerformed ==
  ASSUME Basic, PerformWrite
  PROVE  Last' = Last
BY PerformChain DEF Saved, Last

(* Without a mishap the end of the chain is the queue, or what it will be  *)
(* when it is loaded.                                                      *)
LEMMA LastIs ==
  ASSUME SaveInv, Clean
  PROVE  /\ ~loading => Last = queue
         /\ loading => queue = <<>> /\ writes = <<>> /\ loaded = stored /\ Len(writes) = 0
BY DEF SaveInv, Clean, Last

(* An old request that is not at the end of the chain does not come back,  *)
(* unless the app starts anew.                                             *)
LEMMA LastStays ==
  ASSUME Basic, SaveInv, [Next]_vars, Clean', ~Restart,
         NEW e \in 1..made, e \notin Ids(Last)
  PROVE  (e \notin Ids(Last))'
<1>1. Clean /\ ~WriteFails /\ ~LoadFails
  BY CleanBefore
<1>2. CASE Moves
  BY <1>2, MovesChain DEF Last
<1>3. ASSUME NEW b \in Task \cup {None}, Saves(b) PROVE (e \notin Ids(Last))'
  <2>1. Last' = queue'
    BY <1>3, LastSaved, StepKinds
  <2>2. ~loading
    BY <1>1, <1>3 DEF SaveInv, Saves, Clean
  <2>3. Last = queue
    BY <1>1, <2>2, LastIs
  <2>4. Ids(queue') \subseteq Ids(queue) \cup ((made + 1)..made')
    BY <1>3 DEF Saves
  <2>5. e \notin (made + 1)..made' /\ made \in Nat
    BY QueueIs DEF Basic
  <2> QED
    BY <2>1, <2>3, <2>4, <2>5
<1>4. CASE PerformWrite
  BY <1>4, LastPerformed
<1>5. CASE Load
  BY <1>5 DEF Load, storage, Last, Saved
<1> QED
  BY <1>1, <1>2, <1>3, <1>4, <1>5, StepKinds DEF Loads

(* It keeps its reason as well.                                            *)
LEMMA LeftStays ==
  ASSUME Basic, SaveInv, [Next]_vars, Clean', ~Restart, NEW e \in 1..made, Left(e)
  PROVE  Left(e)'
<1>1. Clean /\ SaveInv' /\ e \in Entry
  <2>1. Clean /\ SaveInv'
    BY CleanBefore, SaveInvStep
  <2>2. QueueOK
    BY DEF Basic
  <2>3. made \in Nat /\ made <= MaxEntries
    BY <2>2, QueueIs
  <2> QED
    BY <2>1, <2>3, Numbers DEF Entry
<1>2. (e \notin Ids(Last))'
  BY LastStays DEF Left
<1>3. e \notin Ids(queue) 
  BY <1>1, LastIs DEF Left, Ids
<1>4. e \notin Ids(queue')
  <2>1. (~loading => Last = queue)' /\ (loading => queue = <<>>)'
    BY <1>1, LastIs, PTL
  <2> QED
    BY <1>2, <2>1 DEF Ids
<1>5. Excused(e)'
  BY <1>1, <1>3, <1>4, ExcuseStays DEF Left
<1> QED
  BY <1>2, <1>5 DEF Left

(* Every step keeps KeepInv.                                               *)
LEMMA KeepInvStep ==
  ASSUME Basic, SaveInv, OverlapInv, HeadInv, KeepInv, [Next]_vars
  PROVE  KeepInv'
<1> SUFFICES ASSUME Clean'
             PROVE  /\ \A j, k \in 0..Len(writes') : j <= k =>
                          \A e \in Ids(Saved(j)') \ Ids(Saved(k)') : Left(e)'
                    /\ \A e \in accepted' \ Ids(Saved(0)') : Left(e)'
  BY DEF KeepInv
<1>1. Clean /\ ~WriteFails /\ ~LoadFails /\ Basic' /\ SaveInv'
  BY CleanBefore, StepKinds, SaveInvStep
<1>2. /\ \A j, k \in 0..Len(writes) : j <= k => \A e \in Ids(Saved(j)) \ Ids(Saved(k)) : Left(e)
      /\ \A e \in accepted \ Ids(Saved(0)) : Left(e)
  BY <1>1 DEF KeepInv
<1>3. /\ Len(writes) \in Nat
      /\ \A k \in 0..Len(writes) : \A e \in Ids(Saved(k)) : e \in 1..made
      /\ \A e \in accepted : e \in 1..made
  BY ChainIs DEF Basic, PastOK
<1>4. ~Restart => \A e \in 1..made : Left(e) => Left(e)'
  BY LeftStays
<1>5. CASE Moves /\ accepted' = accepted /\ ~Restart
  BY <1>2, <1>3, <1>4, <1>5, MovesChain
<1>6. ASSUME NEW b \in Task \cup {None}, Saves(b), ~Load, ~Restart, accepted' = accepted
      PROVE  /\ \A j, k \in 0..Len(writes') : j <= k =>
                   \A e \in Ids(Saved(j)') \ Ids(Saved(k)') : Left(e)'
             /\ \A e \in accepted' \ Ids(Saved(0)') : Left(e)'
  <2> DEFINE n == Len(writes)
  <2>1. /\ Len(writes') = n + 1
        /\ \A k \in 0..n : Saved(k)' = Saved(k)
        /\ \A k : k = n + 1 => Saved(k)' = queue'
    BY <1>1, <1>6, SavesChain
  <2>2. ~loading /\ Last = queue
    BY <1>1, <1>6, LastIs DEF SaveInv, Saves, Clean
  <2>3. Last' = queue'
    BY <1>1, <1>6, LastSaved
  <2>4. \A e \in Ids(queue) \ Ids(queue') : Excused(e)'
    BY <1>6, StepDrops DEF Drops
  <2>5. \A e \in Ids(Last) \ Ids(queue') : Left(e)'
    BY <2>2, <2>3, <2>4 DEF Left
  <2>6. n \in 0..n /\ Last = Saved(n) /\ n \in Nat /\ 0 \in 0..n
    BY <1>3 DEF Last
  <2>7. \A j \in 0..n : \A e \in Ids(Saved(j)) \ Ids(queue') : Left(e)'
    <3> SUFFICES ASSUME NEW j \in 0..n, NEW e \in Ids(Saved(j)), e \notin Ids(queue')
                 PROVE  Left(e)'
      OBVIOUS
    <3>1. CASE e \in Ids(Last)
      BY <2>5, <3>1
    <3>2. CASE e \notin Ids(Last)
      <4>1. Left(e) /\ e \in 1..made
        BY <1>2, <1>3, <2>6, <3>2
      <4> QED
        BY <1>4, <1>6, <4>1
    <3> QED
      BY <3>1, <3>2
  <2>8. ASSUME NEW j \in 0..Len(writes'), NEW k \in 0..Len(writes'), j <= k,
               NEW e \in Ids(Saved(j)'), e \notin Ids(Saved(k)')
        PROVE  Left(e)'
    <3>1. CASE k \in 0..n
      <4>1. j \in 0..n
        BY <2>6, <2>8, <3>1
      <4> QED
        BY <1>2, <1>3, <1>4, <1>6, <2>1, <2>8, <3>1, <4>1
    <3>2. CASE k = n + 1
      <4>1. j \in 0..n
        <5>1. j # k
          BY <2>8
        <5> QED
          BY <2>1, <2>6, <3>2, <5>1
      <4> QED
        BY <2>1, <2>7, <2>8, <3>2, <4>1
    <3> QED
      BY <2>1, <2>6, <3>1, <3>2
  <2>9. \A e \in accepted' \ Ids(Saved(0)') : Left(e)'
    BY <1>2, <1>3, <1>4, <1>6, <2>1, <2>6
  <2> QED
    BY <2>8, <2>9
<1>7. CASE PerformWrite /\ ~Restart
  <2>1. /\ Len(writes') = Len(writes) - 1 /\ Len(writes) > 0
        /\ \A k \in 0..Len(writes') : k + 1 \in 1..Len(writes) /\ Saved(k)' = Saved(k + 1)
    BY <1>7, PerformChain
  <2>2. ASSUME NEW j \in 0..Len(writes'), NEW k \in 0..Len(writes'), j <= k,
               NEW e \in Ids(Saved(j)'), e \notin Ids(Saved(k)')
        PROVE  Left(e)'
    <3>1. j + 1 \in 0..Len(writes) /\ k + 1 \in 0..Len(writes) /\ j + 1 <= k + 1
      BY <1>3, <2>1, <2>2
    <3>2. e \in Ids(Saved(j + 1)) /\ e \notin Ids(Saved(k + 1))
      BY <2>1, <2>2
    <3> QED
      BY <1>2, <1>3, <1>4, <1>7, <3>1, <3>2
  <2>3. ASSUME NEW e \in accepted', e \notin Ids(Saved(0)') PROVE Left(e)'
    <3>0. 0 \in 0..Len(writes') /\ 1 \in 0..Len(writes) /\ 0 \in 0..Len(writes) /\ 0 <= 1
      BY <1>3, <2>1
    <3>1. e \notin Ids(Saved(1))
      BY <2>1, <2>3, <3>0
    <3>2. CASE e \in accepted
      <4>1. Left(e)
        BY <1>2, <3>0, <3>1, <3>2
      <4> QED
        BY <1>3, <1>4, <1>7, <3>2, <4>1
    <3>3. CASE e \notin accepted
      <4>1. /\ writes[1].by \in Task /\ call[writes[1].by].at = "addSave"
            /\ e = call[writes[1].by].req /\ 1 \in DOMAIN writes
        BY <1>7, <2>3, <3>3, SettleDoes DEF PerformWrite
      <4>2. e \in Ids(IdsOf(writes[1].snap))
        BY <4>1 DEF Basic, WritesOK
      <4> QED
        BY <3>1, <4>2 DEF Saved
    <3> QED
      BY <3>2, <3>3
  <2> QED
    BY <2>2, <2>3
<1>8. CASE Load
  <2>1. /\ writes = <<>> /\ accepted' = accepted /\ Len(writes') = 0 /\ ~Restart
        /\ Saved(0)' = Saved(0) /\ Len(writes) = 0
    <3>1. writes = <<>> /\ Len(writes) = 0
      BY <1>1, <1>8, LastIs DEF Load
    <3>2. writes' = writes /\ stored' = stored /\ accepted' = accepted
      BY <1>8 DEF Load, storage, past
    <3>3. ~Restart
      BY <1>8 DEF Load, Restart
    <3> QED
      BY <3>1, <3>2, <3>3 DEF Saved
  <2> QED
    BY <1>2, <1>3, <1>4, <2>1
<1>9. CASE Restart
  <2>1. /\ Len(writes') = 0 /\ accepted' = accepted /\ Saved(0)' = Saved(0)
        /\ \A e : Excused(e) => Excused(e)'
    BY <1>9 DEF Restart, past, Saved, Excused
  <2>2. Last' = Saved(0)
    BY <2>1 DEF Last, Saved
  <2>3. \A e \in accepted : e \in Ids(Saved(0)) \/ Left(e)'
    BY <1>2, <2>1, <2>2 DEF Left
  <2> QED
    BY <2>1, <2>3
<1>10. accepted' = accepted \/ PerformWrite
  BY <1>1, StepRecords
<1>11. PerformWrite => ~Restart /\ ~Load
  <2>1. ASSUME PerformWrite PROVE Len(writes') = Len(writes) - 1 /\ Len(writes) \in Nat
    BY <2>1, PerformChain
  <2>2. Load => writes' = writes
    BY DEF Load, storage
  <2>3. ASSUME PerformWrite, Load PROVE FALSE
    BY <2>1, <2>2, <2>3
  <2>4. ASSUME PerformWrite, Restart PROVE FALSE
    BY <2>4 DEF PerformWrite, Restart
  <2> QED
    BY <2>3, <2>4
<1> QED
  BY <1>1, <1>5, <1>6, <1>7, <1>8, <1>9, <1>10, <1>11, StepKinds DEF Loads

(* With no call pending the end of the chain is what is stored.            *)
LEMMA SaveInvStores == SaveInv => StoredFollowsQueue
<1> SUFFICES ASSUME SaveInv, writes = <<>>, ~loading, blame \cap {"storage", "early"} = {}
             PROVE  IdsOf(IF stored = None THEN <<>> ELSE stored) = queue
  BY DEF StoredFollowsQueue
<1>1. IdsOf(<<>>) = <<>>
  BY DEF IdsOf
<1>2. Len(writes) = 0 /\ Saved(Len(writes)) = queue
  BY DEF SaveInv
<1> QED
  BY <1>1, <1>2 DEF Saved

(* An accepted request is at the end of the chain or has left for a        *)
(* reason.                                                                 *)
LEMMA KeepInvKeeps ==
  ASSUME Basic, SaveInv, KeepInv
  PROVE  AcceptedNotLost
<1> SUFFICES ASSUME NEW e \in accepted, e \notin Kept \cup processed \cup removed,
                    ~(retry[e] >= MaxRetries), Clean
             PROVE  FALSE
  BY DEF AcceptedNotLost, NoneLost, Clean
<1>1. \A d \in accepted \ Ids(Saved(0)) : Left(d)
  BY DEF KeepInv
<1>2. e \in Ids(Saved(0))
  BY <1>1 DEF Left, Excused
<1>3. Last = queue \/ (loading /\ Len(writes) = 0 /\ loaded = stored)
  BY LastIs
<1>4. CASE loading
  <2>1. Len(writes) = 0 /\ loaded = stored
    BY <1>4, LastIs
  <2> QED
    BY <1>2, <1>4, <2>1 DEF Kept, Saved, Ids
<1>5. CASE ~loading
  <2>1. Last = queue
    BY <1>5, LastIs
  <2>2. e \notin Ids(Last)
    BY <1>5, <2>1 DEF Kept
  <2>3. /\ 0 \in 0..Len(writes) /\ Len(writes) \in 0..Len(writes) /\ 0 <= Len(writes)
    BY ChainIs
  <2>4. Left(e)
    BY <1>2, <2>2, <2>3 DEF KeepInv, Last
  <2> QED
    BY <2>4 DEF Left, Excused
<1> QED
  BY <1>4, <1>5

-----------------------------------------------------------------------------
(* What comes back, and in which order.                                    *)

(* A pending save that a drain waits for after a shift.                    *)
Shifts(l) == writes[l].by \in Task /\ call[writes[l].by].at = "shiftSave"
ShiftAfter(k) == \E l \in (k + 1)..Len(writes) : Shifts(l)

(* What a restart would bring back was removed, or a drain still waits for *)
(* the save that drops it.                                                 *)
GapInv ==
    Clean => \A k \in 0..Len(writes) : \A e \in Ids(Saved(k)) \ Ids(Last) : e \in removed \/ ShiftAfter(k)

(* Along the whole chain no request is older than a processed one.         *)
OrderInv ==
    Clean => \A k \in 0..Len(writes) : \A e \in Ids(Saved(k)) \ (processed \cup removed), f \in processed : e > f

(* The save that follows a shift is the last one pending.                  *)
LEMMA ShiftGap ==
  ASSUME Basic, NEW t \in Task, call[t].at \in Sending, ShiftAndSave(t), Basic',
         UNCHANGED <<stored, loaded, made>>
  PROVE  \A l : l = Len(writes) + 1 => Shifts(l)'
<1>1. writes'[Len(writes) + 1].by = t
  <2>1. Save(t)
    BY DEF ShiftAndSave
  <2>2. made <= made' /\ QueueOK /\ StoreOK /\ QueueOK' /\ RetryOK'
    BY QueueIs DEF Basic
  <2> QED
    BY <2>1, <2>2, SaveAppends
<1>2. call'[t].at = "shiftSave"
  <2>1. call' = [call EXCEPT ![t] = [Idle EXCEPT !.at = "shiftSave"]]
    BY DEF ShiftAndSave
  <2>2. [Idle EXCEPT !.at = "shiftSave"].at = "shiftSave"
    BY DEF Idle
  <2> QED
    BY <2>1, <2>2 DEF Basic, CallType
<1> QED
  BY <1>1, <1>2 DEF Shifts

(* Only the user's removals and a shift take something out of the queue.   *)
LEMMA StepGaps ==
  ASSUME Basic, [Next]_vars, Basic', ~Load, ~Restart
  PROVE  \A e \in Ids(queue) \ Ids(queue') : e \in removed' \/ \A l : l = Len(writes) + 1 => Shifts(l)'
<1> DEFINE Gaps == \A e \in Ids(queue) \ Ids(queue') : e \in removed' \/ \A l : l = Len(writes) + 1 => Shifts(l)'
<1>1. ASSUME Ids(queue) \subseteq Ids(queue') PROVE Gaps
  BY <1>1
<1>2. ASSUME NEW t \in Task, TaskStep(t) PROVE Gaps
  <2>1. CASE ExecFails(t) \/ CloneAdded(t)
    <3>1. call[t].at \in Sending /\ Failed(t) /\ UNCHANGED <<stored, loaded, made>>
      BY <2>1 DEF ExecFails, CloneAdded, At, Sending, Failed
    <3>2. CASE ShiftAndSave(t)
      BY <3>1, <3>2, ShiftGap
    <3>3. CASE queue' = queue
      BY <3>3
    <3> QED
      BY <3>1, <3>2, <3>3 DEF Failed
  <2>2. CASE ExecOk(t)
    <3>1. call[t].at \in Sending /\ ShiftAndSave(t) /\ UNCHANGED <<stored, loaded, made>>
      BY <2>2 DEF ExecOk, At, Sending
    <3> QED
      BY <3>1, ShiftGap
  <2>3. CASE AddTail(t) \/ Fetched(t) \/ LoopSends(t) \/ LoopEnds(t) \/ RetryTail(t)
    <3>1. queue' = queue
      BY <2>3 DEF AddTail, Fetched, LoopSends, LoopEnds, RetryTail, memory
    <3> QED
      BY <1>1, <3>1
  <2> QED
    BY <1>2, <2>1, <2>2, <2>3 DEF TaskStep
<1>3. ASSUME NEW S, RemoveFromQueue(S) PROVE Gaps
  <2>1. queue' = Without(queue, S) /\ made' = made /\ removed' = removed \cup S
    BY <1>3 DEF RemoveFromQueue
  <2>2. Ids(queue') = Ids(queue) \ S
    BY <2>1, FilterQueue DEF Basic
  <2> QED
    BY <2>1, <2>2
<1>4. ASSUME NEW t \in Task, Push(t) PROVE Gaps
  BY <1>1, <1>4, PushCall
<1>5. ASSUME User PROVE Gaps
  <2>1. ASSUME NEW t \in Task, ProcessQueue(t) \/ RetryFailedRequests(t) PROVE Gaps
    BY <1>1, <2>1 DEF ProcessQueue, RetryFailedRequests, memory
  <2>2. ASSUME NEW t \in Task, AddToQueue(t) PROVE Gaps
    BY <1>4, <2>2 DEF AddToQueue
  <2> HIDE DEF Gaps
  <2> QED
    BY <1>3, <1>5, <2>1, <2>2, Zenon DEF User
<1>6. ASSUME NEW t \in Task, NEW u \in Task, ExecFailsOffline(t, u) PROVE Gaps
  BY <1>4, <1>6 DEF ExecFailsOffline
<1>7. ASSUME \/ PerformWrite \/ WriteFails \/ LoadFails \/ NetInfoEvent \/ UNCHANGED vars
             \/ \E up \in BOOLEAN : LinkChange(up)
      PROVE  Gaps
  <2>1. queue' = queue
    BY <1>7 DEF PerformWrite, WriteFails, Settle, LoadFails, NetInfoEvent, vars, LinkChange, memory
  <2> QED
    BY <1>1, <2>1
<1>8. Gaps
  <2> HIDE DEF Gaps
  <2> QED
    BY <1>2, <1>5, <1>6, <1>7, Zenon DEF Next
<1> QED
  BY <1>8

(* A drain waits for its save until that save is settled.                  *)
LEMMA ShiftStays ==
  ASSUME Basic, Basic', NEW l \in DOMAIN writes, Shifts(l)
  PROVE  /\ Moves => Shifts(l)'
         /\ \A b \in Task \cup {None} : Saves(b) => Shifts(l)'
<1>1. Moves => Shifts(l)'
  BY DEF Moves, Shifts, SameSaver, Saving
<1>2. ASSUME NEW b \in Task \cup {None}, Saves(b) PROVE Shifts(l)'
  <2>1. writes'[l] = writes[l]
    BY <1>2, SavesChain
  <2>2. writes[l].by # b
    BY <1>2 DEF Shifts, Saves, Saving
  <2>3. call'[writes[l].by].at = "shiftSave"
    BY <1>2, <2>2 DEF Shifts, Saves, SameSaver, Saving
  <2> QED
    BY <2>1, <2>3 DEF Shifts
<1> QED
  BY <1>1, <1>2

(* Every step keeps GapInv.                                                *)
LEMMA GapInvStep ==
  ASSUME Basic, SaveInv, GapInv, [Next]_vars
  PROVE  GapInv'
<1> SUFFICES ASSUME Clean', NEW k \in 0..Len(writes'), NEW e \in Ids(Saved(k)'), e \notin Ids(Last')
             PROVE  e \in removed' \/ ShiftAfter(k)'
  BY DEF GapInv
<1>1. Clean /\ ~WriteFails /\ ~LoadFails /\ Basic' /\ removed \subseteq removed'
  BY CleanBefore, StepKinds, StepRecords
<1>2. \A j \in 0..Len(writes) : \A d \in Ids(Saved(j)) \ Ids(Last) : d \in removed \/ ShiftAfter(j)
  BY <1>1 DEF GapInv
<1>3. Len(writes) \in Nat /\ DOMAIN writes = 1..Len(writes) /\ k \in Nat
  BY ChainIs
<1>4. CASE Moves
  <2>1. writes' = writes /\ Saved(k)' = Saved(k) /\ Last' = Last
    BY <1>4, MovesChain DEF Last
  <2>2. \A l \in (k + 1)..Len(writes) : Shifts(l) => Shifts(l)'
    BY <1>1, <1>3, <1>4, ShiftStays
  <2> QED
    BY <1>1, <1>2, <2>1, <2>2 DEF ShiftAfter
<1>5. ASSUME NEW b \in Task \cup {None}, Saves(b), ~Load, ~Restart
      PROVE  e \in removed' \/ ShiftAfter(k)'
  <2>1. /\ Len(writes') = Len(writes) + 1
        /\ \A j \in 0..Len(writes) : Saved(j)' = Saved(j)
        /\ \A j : j = Len(writes) + 1 => Saved(j)' = queue'
    BY <1>1, <1>5, SavesChain
  <2>2. Last = queue /\ Last' = queue'
    BY <1>1, <1>5, LastIs, LastSaved DEF SaveInv, Saves, Clean
  <2>3. k \in 0..Len(writes) /\ k # Len(writes) + 1 /\ e \in Ids(Saved(k))
    BY <1>3, <2>1, <2>2
  <2>4. CASE e \in Ids(Last)
    <3> SUFFICES ASSUME NEW l, l = Len(writes) + 1, Shifts(l)' PROVE ShiftAfter(k)'
      BY <1>1, <1>5, <2>2, <2>4, StepGaps
    <3>1. l \in (k + 1)..Len(writes')
      BY <1>3, <2>1, <2>3
    <3> QED
      BY <3>1 DEF ShiftAfter
  <2>5. CASE e \notin Ids(Last) /\ ShiftAfter(k)
    <3>1. PICK l \in (k + 1)..Len(writes) : Shifts(l)
      BY <2>5 DEF ShiftAfter
    <3>2. l \in (k + 1)..Len(writes') /\ l \in DOMAIN writes
      BY <1>3, <2>1
    <3>3. Shifts(l)'
      BY <1>1, <1>5, <3>1, <3>2, ShiftStays
    <3> QED
      BY <3>2, <3>3 DEF ShiftAfter
  <2> QED
    BY <1>1, <1>2, <2>3, <2>4, <2>5
<1>6. CASE PerformWrite
  <2>1. /\ Len(writes') = Len(writes) - 1
        /\ k + 1 \in 1..Len(writes) /\ Saved(k)' = Saved(k + 1) /\ Last' = Last
    BY <1>6, PerformChain, LastPerformed
  <2>2. k + 1 \in 0..Len(writes)
    BY <1>3, <2>1
  <2>3. CASE ShiftAfter(k + 1)
    <3>1. PICK l \in (k + 1 + 1)..Len(writes) : Shifts(l)
      BY <2>3 DEF ShiftAfter
    <3> DEFINE m == l - 1
    <3>2. m \in (k + 1)..Len(writes') /\ m + 1 = l /\ l # 1 /\ l \in DOMAIN writes /\ m \in 1..Len(writes')
      BY <1>3, <2>1
    <3> HIDE DEF m
    <3>3. /\ DOMAIN writes' = 1..Len(writes') /\ writes'[m] = writes[m + 1] /\ 1 \in DOMAIN writes
          /\ \A t \in Task : t # writes[1].by => call'[t] = call[t]
      BY <1>6, <2>1, <3>2, SettleDoes DEF PerformWrite
    <3>4. writes[l].by # writes[1].by
      BY <3>1, <3>2, <3>3 DEF Basic, WritesOK, Shifts
    <3>5. Shifts(m)'
      BY <3>1, <3>2, <3>3, <3>4 DEF Shifts
    <3> QED
      BY <3>2, <3>5 DEF ShiftAfter
  <2> QED
    BY <1>1, <1>2, <2>1, <2>2, <2>3
<1>7. CASE Load \/ Restart
  <2>1. Len(writes') = 0
    <3>1. Load => writes' = writes /\ writes = <<>>
      BY <1>1, LastIs DEF Load, storage
    <3> QED
      BY <1>7, <3>1 DEF Restart
  <2>2. k = 0 /\ Last' = Saved(k)'
    BY <2>1, <1>3 DEF Last, Saved
  <2> QED
    BY <2>2
<1> QED
  BY <1>1, <1>4, <1>5, <1>6, <1>7, StepKinds DEF Loads

(* The server processes what a drain sends.                                *)
LEMMA ProcessedBy ==
  ASSUME Basic, [Next]_vars
  PROVE  \/ processed' = processed
         \/ \E t \in Task : call[t].at \in Sending /\ processed' = processed \cup {call[t].req}
<1>1. ASSUME NEW t \in Task, ExecOk(t) \/ ExecFails(t)
      PROVE  \/ processed' = processed
             \/ call[t].at \in Sending /\ processed' = processed \cup {call[t].req}
  BY <1>1 DEF ExecOk, ExecFails, At, Sending
<1>2. ASSUME NEW t \in Task, NEW u \in Task, ExecFailsOffline(t, u)
      PROVE  \/ processed' = processed
             \/ call[t].at \in Sending /\ processed' = processed \cup {call[t].req}
  BY <1>2 DEF ExecFailsOffline, At, Sending
<1>3. ASSUME NEW t \in Task, AddTail(t) \/ Fetched(t) \/ LoopSends(t) \/ LoopEnds(t) \/ CloneAdded(t) \/ RetryTail(t)
      PROVE  processed' = processed
  BY <1>3 DEF AddTail, Fetched, LoopSends, LoopEnds, CloneAdded, RetryTail, past
<1>4. ASSUME User PROVE processed' = processed
  BY <1>4 DEF User, AddToQueue, ProcessQueue, RetryFailedRequests, RemoveFromQueue, past
<1>5. ASSUME Loads \/ NetInfoEvent \/ (\E up \in BOOLEAN : LinkChange(up)) \/ UNCHANGED vars
      PROVE  processed' = processed
  BY <1>5 DEF Loads, PerformWrite, WriteFails, Settle, Load, LoadFails, Restart, NetInfoEvent, LinkChange,
     past, vars
<1> QED
  BY <1>1, <1>2, <1>3, <1>4, <1>5, Zenon DEF Next, TaskStep, Loads

(* The head of the queue is its oldest request.                            *)
LEMMA HeadLeast ==
  ASSUME QueueOK, NEW e \in Ids(queue), e # queue[1]
  PROVE  e > queue[1]
<1>1. PICK i \in DOMAIN queue : queue[i] = e
  BY DEF Ids
<1>2. DOMAIN queue = 1..Len(queue) /\ Len(queue) \in Nat /\ 1 \in DOMAIN queue /\ i # 1
  BY <1>1, QueueIs
<1>3. 1 < i /\ Asc(queue)
  BY <1>2 DEF QueueOK, Ordered
<1>4. queue[1] < queue[i]
  BY <1>2, <1>3 DEF Asc
<1> QED
  BY <1>1, <1>4, QueueIs DEF Entry

(* While a request is sent nothing older is left, waiting or saved: a save *)
(* that would still bring an older one back keeps the drain from sending.  *)
LEMMA SentInOrder ==
  ASSUME Basic, SaveInv, OverlapInv, HeadInv, GapInv, Clean,
         NEW t \in Task, call[t].at \in Sending, NEW k \in 0..Len(writes),
         NEW e \in Ids(Saved(k)), e \notin removed, e # call[t].req
  PROVE  e > call[t].req
<1>1. queue[1] = call[t].req
  BY DEF HeadInv
<1>2. ~loading
  BY LastIs DEF HeadInv
<1>3. e \in Ids(queue)
  <2>1. ASSUME ShiftAfter(k) PROVE FALSE
    <3>1. PICK l \in (k + 1)..Len(writes) : Shifts(l)
      BY <2>1 DEF ShiftAfter
    <3> DEFINE u == writes[l].by
    <3>2. u \in Task /\ call[u].at = "shiftSave"
      BY <3>1 DEF Shifts
    <3>3. u \in Looping /\ t \in Looping
      BY <3>2 DEF Looping, InLoop, Sending
    <3> QED
      BY <3>2, <3>3 DEF OverlapInv, Clean, Sending
  <2>2. e \in Ids(Last)
    BY <2>1 DEF GapInv
  <2> QED
    BY <1>2, <2>2, LastIs
<1> QED
  BY <1>1, <1>3, HeadLeast DEF Basic

(* Every step keeps OrderInv.                                              *)
LEMMA OrderInvStep ==
  ASSUME Basic, SaveInv, OverlapInv, HeadInv, GapInv, OrderInv, [Next]_vars
  PROVE  OrderInv'
<1> SUFFICES ASSUME Clean', NEW k \in 0..Len(writes'), NEW e \in Ids(Saved(k)'),
                    e \notin processed' \cup removed', NEW f \in processed'
             PROVE  e > f
  BY DEF OrderInv
<1>1. /\ Clean /\ ~WriteFails /\ ~LoadFails /\ Basic'
      /\ processed \subseteq processed' /\ removed \subseteq removed'
  BY CleanBefore, StepKinds, StepRecords
<1>2. Len(writes) \in Nat /\ k \in Nat /\ e \notin processed /\ e \notin removed
  BY <1>1, ChainIs
<1>3. ASSUME NEW j \in 0..Len(writes), e \in Ids(Saved(j))
      PROVE  e > f
  <2>1. CASE f \in processed
    BY <1>1, <1>2, <1>3, <2>1 DEF OrderInv
  <2>2. CASE f \notin processed
    <3>1. PICK t \in Task : call[t].at \in Sending /\ f = call[t].req
      BY <2>2, ProcessedBy
    <3> QED
      BY <1>1, <1>2, <1>3, <3>1, SentInOrder
  <2> QED
    BY <2>1, <2>2
<1>4. ASSUME NEW b \in Task \cup {None}, Saves(b) PROVE e > f
  <2>1. /\ Len(writes') = Len(writes) + 1
        /\ \A j \in 0..Len(writes) : Saved(j)' = Saved(j)
        /\ \A j : j = Len(writes) + 1 => Saved(j)' = queue'
    BY <1>1, <1>4, SavesChain
  <2>2. Last = queue /\ Ids(queue') \subseteq Ids(queue) \cup ((made + 1)..made')
    BY <1>1, <1>4, LastIs DEF SaveInv, Saves, Clean
  <2>3. CASE k \in 0..Len(writes)
    BY <1>3, <2>1, <2>3
  <2>4. CASE k = Len(writes) + 1
    <3>1. e \in Ids(queue')
      BY <2>1, <2>4
    <3>2. CASE e \in Ids(queue)
      <4>1. Len(writes) \in 0..Len(writes)
        BY <1>2
      <4> QED
        BY <1>3, <2>2, <3>2, <4>1 DEF Last
    <3>3. CASE e \in (made + 1)..made'
      <4>1. f \in 1..made /\ made \in Nat
        <5>1. processed \subseteq 1..made
          BY DEF Basic, PastOK
        <5>2. \A t \in Task : call[t].at \in Sending => call[t].req \in 1..made
          BY DEF Basic, SendOK
        <5>3. made \in Nat
          BY QueueIs DEF Basic
        <5>4. f \in processed \/ \E t \in Task : call[t].at \in Sending /\ f = call[t].req
          <6>1. CASE processed' = processed
            BY <6>1
          <6>2. CASE processed' # processed
            BY <6>2, ProcessedBy
          <6> QED
            BY <6>1, <6>2
        <5> QED
          BY <5>1, <5>2, <5>3, <5>4
      <4>2. made' \in Nat
        BY <1>1, QueueIs, Numbers DEF Basic, QueueOK
      <4> QED
        BY <3>3, <4>1, <4>2
    <3> QED
      BY <2>2, <3>1, <3>2, <3>3
  <2> QED
    BY <1>2, <2>1, <2>3, <2>4
<1>5. CASE Moves
  BY <1>3, <1>5, MovesChain
<1>6. CASE PerformWrite
  <2>1. k + 1 \in 1..Len(writes) /\ Saved(k)' = Saved(k + 1)
    BY <1>6, PerformChain
  <2> QED
    BY <1>2, <1>3, <2>1
<1>7. CASE Load \/ Restart
  <2>1. Len(writes') = 0 /\ stored' = stored
    <3>1. Load => writes' = writes /\ writes = <<>>
      BY <1>1, LastIs DEF Load, storage
    <3> QED
      BY <1>7, <3>1 DEF Restart, Load, storage
  <2>2. k = 0 /\ Saved(0)' = Saved(0) /\ 0 \in 0..Len(writes)
    BY <2>1, <1>2 DEF Saved
  <2> QED
    BY <1>3, <2>2
<1> QED
  BY <1>1, <1>4, <1>5, <1>6, <1>7, StepKinds DEF Loads

(* The order of the whole chain is that of the queue.                      *)
LEMMA OrderInvServes ==
  ASSUME Basic, SaveInv, OrderInv
  PROVE  ServedInOrder
<1> SUFFICES ASSUME blame = {}, NEW e \in Ids(queue) \ (processed \cup removed), NEW f \in processed
             PROVE  e > f
  BY DEF ServedInOrder
<1>1. Clean
  BY DEF Clean
<1>2. Last = queue
  BY <1>1, LastIs DEF Ids
<1>3. Len(writes) \in 0..Len(writes)
  BY ChainIs
<1> QED
  BY <1>1, <1>2, <1>3 DEF OrderInv, Last

-----------------------------------------------------------------------------
(* What was answered.                                                      *)

(* With no failure and no restart, what was answered is neither queued nor *)
(* sent.                                                                   *)
AnsweredInv ==
    /\ faults \in Nat
    /\ faults = 0 => loaded = None
    /\ faults = 0 /\ "overlap" \notin blame =>
          /\ answered \cap Ids(queue) = {}
          /\ \A t \in Task : call[t].at \in Sending => call[t].req \notin answered

(* Failures and restarts are counted, and only a restart has anything to   *)
(* load.                                                                   *)
LEMMA FaultsCounted ==
  ASSUME [Next]_vars, faults \in Nat
  PROVE  /\ faults' \in Nat /\ faults' >= faults
         /\ WriteFails \/ LoadFails \/ Restart => faults' > 0
         /\ loaded' = loaded \/ loaded' = None \/ Restart
<1> DEFINE Goal == /\ faults' \in Nat /\ faults' >= faults
                   /\ WriteFails \/ LoadFails \/ Restart => faults' > 0
                   /\ loaded' = loaded \/ loaded' = None \/ Restart
<1>1. WriteFails \/ LoadFails \/ Restart => faults' = faults + 1
  BY DEF WriteFails, LoadFails, Restart
<1>2. ASSUME faults' = faults, loaded' = loaded \/ loaded' = None PROVE Goal
  BY <1>1, <1>2
<1>3. ASSUME NEW t \in Task, TaskStep(t) PROVE faults' = faults /\ loaded' = loaded
  BY <1>3 DEF TaskStep, AddTail, Fetched, LoopSends, LoopEnds, ExecOk, ExecFails, CloneAdded,
     Failed, RetryTail, world, memory
<1>4. ASSUME User PROVE faults' = faults /\ loaded' = loaded
  BY <1>4 DEF User, AddToQueue, ProcessQueue, RetryFailedRequests, RemoveFromQueue, world, memory
<1>5. ASSUME NEW t \in Task, NEW u \in Task, ExecFailsOffline(t, u) PROVE faults' = faults /\ loaded' = loaded
  BY <1>5 DEF ExecFailsOffline, world
<1>6. ASSUME PerformWrite \/ NetInfoEvent \/ (\E up \in BOOLEAN : LinkChange(up)) \/ UNCHANGED vars
      PROVE  faults' = faults /\ loaded' = loaded
  BY <1>6 DEF PerformWrite, Settle, NetInfoEvent, LinkChange, vars, world, memory
<1>7. ASSUME Load PROVE faults' = faults /\ loaded' = None
  BY <1>7 DEF Load, world
<1>8. ASSUME WriteFails \/ LoadFails \/ Restart PROVE Goal
  BY <1>1, <1>8 DEF WriteFails, LoadFails, Settle, memory
<1>9. Goal
  <2> HIDE DEF Goal
  <2> QED
    BY <1>2, <1>3, <1>4, <1>5, <1>6, <1>7, <1>8, Zenon DEF Next
<1> QED
  BY <1>9

(* The app hears of a success in one place.                                *)
LEMMA AnsweredBy ==
  ASSUME [Next]_vars
  PROVE  answered' = answered \/ \E t \in Task : ExecOk(t)
<1>1. ASSUME NEW t \in Task, TaskStep(t) PROVE answered' = answered \/ ExecOk(t)
  BY <1>1 DEF TaskStep, AddTail, Fetched, LoopSends, LoopEnds, ExecFails, CloneAdded,
     Failed, RetryTail, past
<1>2. ASSUME User PROVE answered' = answered
  BY <1>2 DEF User, AddToQueue, ProcessQueue, RetryFailedRequests, RemoveFromQueue, past
<1>3. ASSUME NEW t \in Task, NEW u \in Task, ExecFailsOffline(t, u) PROVE answered' = answered
  BY <1>3 DEF ExecFailsOffline
<1>4. ASSUME Loads \/ NetInfoEvent \/ (\E up \in BOOLEAN : LinkChange(up)) \/ UNCHANGED vars
      PROVE  answered' = answered
  BY <1>4 DEF Loads, PerformWrite, WriteFails, Settle, Load, LoadFails, Restart, NetInfoEvent, LinkChange,
     past, vars
<1> QED
  BY <1>1, <1>2, <1>3, <1>4, Zenon DEF Next, Loads

(* Every step keeps AnsweredInv.                                           *)
LEMMA AnsweredInvStep ==
  ASSUME Basic, OverlapInv, AnsweredInv, [Next]_vars
  PROVE  AnsweredInv'
<1>1. /\ faults \in Nat /\ faults' \in Nat /\ faults' >= faults
      /\ WriteFails \/ LoadFails \/ Restart => faults' > 0
      /\ loaded' = loaded \/ loaded' = None \/ Restart
  BY FaultsCounted DEF AnsweredInv
<1>2. faults' = 0 => faults = 0 /\ loaded = None /\ loaded' = None /\ ~WriteFails /\ ~LoadFails /\ ~Restart
  BY <1>1 DEF AnsweredInv
<1> SUFFICES ASSUME faults' = 0, "overlap" \notin blame'
             PROVE  /\ answered' \cap Ids(queue') = {}
                    /\ \A t \in Task : call'[t].at \in Sending => call'[t].req \notin answered'
  BY <1>1, <1>2 DEF AnsweredInv
<1>3. /\ "overlap" \notin blame
      /\ answered \cap Ids(queue) = {}
      /\ \A t \in Task : call[t].at \in Sending => call[t].req \notin answered
  BY <1>2, BlameGrows DEF AnsweredInv
<1>4. /\ Ids(queue') \subseteq Ids(queue) \cup ((made + 1)..made')
      /\ \A t \in Task : call'[t].at \in Sending =>
            \/ call[t].at \in Sending /\ call'[t].req = call[t].req
            \/ call'[t].req \in Ids(queue)
  <2>1. CASE Moves
    <3>1. \A t \in Task : NewSender(t) => call'[t].req \in Ids(queue)
      BY QueueIs DEF NewSender, Basic
    <3> QED
      BY <2>1, <3>1 DEF Moves, SameSender
  <2>2. ASSUME NEW b \in Task \cup {None}, Saves(b)
        PROVE  /\ Ids(queue') \subseteq Ids(queue) \cup ((made + 1)..made')
               /\ \A t \in Task : SameSender(t)
    BY <2>2 DEF Saves
  <2>3. CASE PerformWrite
    <3>1. \A t \in Task : call'[t].at \in Sending => call'[t] = call[t]
      BY <2>3, SettleDoes DEF PerformWrite, Sending
    <3> QED
      BY <2>3, <3>1 DEF PerformWrite, Settle, memory
  <2>4. CASE Load
    BY <1>2, <2>4 DEF Load
  <2> QED
    BY <1>2, <2>1, <2>2, <2>3, <2>4, StepKinds DEF Loads, SameSender
<1>5. answered \subseteq 1..made /\ made \in Nat
  BY QueueIs DEF Basic, PastOK
<1>6. answered \cap ((made + 1)..made') = {}
  <2>1. made' \in Nat
    BY StepKinds, QueueIs, Numbers DEF Basic, QueueOK
  <2> QED
    BY <1>5, <2>1
<1>7. CASE answered' = answered
  BY <1>3, <1>4, <1>6, <1>7
<1>8. ASSUME NEW t \in Task, ExecOk(t)
      PROVE  /\ answered' \cap Ids(queue') = {}
             /\ \A u \in Task : call'[u].at \in Sending => call'[u].req \notin answered'
  <2>1. /\ call[t].at \in Sending /\ ShiftAndSave(t) /\ made' = made
        /\ answered' = answered \cup {call[t].req}
    BY <1>8 DEF ExecOk, At, Sending
  <2>2. call[t].req \notin Ids(queue')
    BY <2>1, ShiftQueue DEF ShiftAndSave, Basic, SendOK
  <2>3. \A u \in Task : call'[u].at \notin Sending
    <3>1. call' = [call EXCEPT ![t] = [Idle EXCEPT !.at = "shiftSave"]]
      BY <2>1 DEF ShiftAndSave
    <3>2. \A u \in Task : u # t => call[u].at \notin Sending
      BY <1>3, <2>1, SendingLoops DEF OverlapInv, Looping
    <3>3. [Idle EXCEPT !.at = "shiftSave"].at \notin Sending
      BY DEF Idle, Sending
    <3> QED
      BY <3>1, <3>2, <3>3 DEF Basic, CallType
  <2> QED
    BY <1>3, <1>4, <1>6, <2>1, <2>2, <2>3
<1> QED
  BY <1>7, <1>8, AnsweredBy

(* A request being sent has not been answered.                             *)
LEMMA AnsweredInvHolds ==
  ASSUME AnsweredInv
  PROVE  AnsweredNotResent
BY DEF AnsweredInv, AnsweredNotResent, At, Sending

-----------------------------------------------------------------------------
(* Retry counts.                                                           *)

(* The count of a request and the calls that may still raise it.           *)
Senders(e) == {t \in Task : call[t].at \in Sending /\ call[t].req = e}
SpentInv == \A e \in Entry : retry[e] + Cardinality(Senders(e)) <= MaxRetries - 1 + Cardinality(Task)

(* Sets of calls are finite.                                               *)
LEMMA SendersFinite ==
  ASSUME NEW S, S \subseteq Task
  PROVE  IsFiniteSet(S) /\ Cardinality(S) \in Nat /\ Cardinality(S) <= Cardinality(Task)
         /\ Cardinality(Task) \in Nat
BY SomeTasks, FS_Subset, FS_CardinalityType

(* The count of a request out of the queue rises only when one of its      *)
(* senders fails, which then sends it no more.                             *)
LEMMA RetryRises ==
  ASSUME Basic, [Next]_vars, NEW e \in Entry, e \notin Ids(queue')
  PROVE  \/ retry'[e] <= retry[e]
         \/ /\ retry'[e] = retry[e] + 1
            /\ \E t \in Senders(e) : call'[t].at \notin Sending
<1>0. retry[e] \in Nat
  BY DEF Basic, RetryOK
<1> DEFINE Goal == \/ retry'[e] <= retry[e]
                   \/ /\ retry'[e] = retry[e] + 1
                      /\ \E t \in Senders(e) : call'[t].at \notin Sending
<1>1. ASSUME retry' = retry PROVE Goal
  BY <1>0, <1>1
<1>2. ASSUME NEW t \in Task, TaskStep(t) PROVE Goal
  <2>1. CASE ExecFails(t) \/ CloneAdded(t)
    <3>1. call[t].at \in Sending /\ Failed(t)
      BY <2>1 DEF ExecFails, CloneAdded, At, Sending
    <3>2. retry' = [retry EXCEPT ![call[t].req] = @ + 1] /\ retry \in [Entry -> Nat]
      BY <3>1 DEF Failed, Basic, RetryOK
    <3>3. call'[t].at \notin Sending
      <4>1. call' = [call EXCEPT ![t] = [Idle EXCEPT !.at = "shiftSave"]] \/ call' = [call EXCEPT ![t] = Idle]
        BY <3>1 DEF Failed, ShiftAndSave, End
      <4>2. [Idle EXCEPT !.at = "shiftSave"].at \notin Sending /\ Idle.at \notin Sending
        BY DEF Idle, Sending
      <4> QED
        BY <4>1, <4>2 DEF Basic, CallType
    <3>4. CASE e = call[t].req
      <4>1. retry'[e] = retry[e] + 1 /\ t \in Senders(e)
        BY <3>1, <3>2, <3>4 DEF Senders
      <4> QED
        BY <3>3, <4>1
    <3>5. CASE e # call[t].req
      <4>1. retry'[e] = retry[e]
        BY <3>2, <3>5
      <4> QED
        BY <1>0, <4>1
    <3> QED
      BY <3>4, <3>5
  <2>2. CASE AddTail(t) \/ Fetched(t) \/ LoopSends(t) \/ LoopEnds(t) \/ ExecOk(t) \/ RetryTail(t)
    <3>1. retry' = retry
      BY <2>2 DEF AddTail, Fetched, LoopSends, LoopEnds, ExecOk, RetryTail, memory
    <3> HIDE DEF Goal
    <3> QED
      BY <1>1, <3>1
  <2> HIDE DEF Goal
  <2> QED
    BY <1>2, <2>1, <2>2 DEF TaskStep
<1>3. ASSUME NEW t \in Task, RetryFailedRequests(t) PROVE Goal
  <2>1. retry' = [d \in Entry |-> IF d \in FailedOnes THEN 0 ELSE retry[d]]
    BY <1>3 DEF RetryFailedRequests
  <2>2. retry'[e] = 0 \/ retry'[e] = retry[e]
    BY <2>1
  <2> QED
    BY <1>0, <2>2
<1>4. ASSUME User PROVE Goal
  <2>1. ASSUME NEW t \in Task, AddToQueue(t) \/ ProcessQueue(t) PROVE retry' = retry
    BY <2>1 DEF AddToQueue, Push, ProcessQueue, memory
  <2>2. ASSUME NEW S, RemoveFromQueue(S) PROVE retry' = retry
    BY <2>2 DEF RemoveFromQueue
  <2> HIDE DEF Goal
  <2> QED
    BY <1>1, <1>3, <1>4, <2>1, <2>2, Zenon DEF User
<1>5. ASSUME Load PROVE Goal
  <2>1. CASE loaded = None
    <3>1. retry' = retry
      BY <1>5, <2>1 DEF Load
    <3> QED
      BY <1>1, <3>1
  <2>2. CASE loaded # None
    <3>1. retry'[e] = retry[e]
      BY <1>5, <2>2, LoadDoes
    <3> QED
      BY <1>0, <3>1
  <2> QED
    BY <2>1, <2>2
<1>6. ASSUME \/ PerformWrite \/ WriteFails \/ LoadFails \/ Restart \/ NetInfoEvent \/ UNCHANGED vars
             \/ \E up \in BOOLEAN : LinkChange(up)
             \/ \E t, u \in Task : ExecFailsOffline(t, u)
      PROVE  retry' = retry
  BY <1>6 DEF PerformWrite, WriteFails, Settle, LoadFails, Restart, NetInfoEvent, vars, LinkChange,
     ExecFailsOffline, Push, memory
<1>7. Goal
  <2> HIDE DEF Goal
  <2> QED
    BY <1>1, <1>2, <1>4, <1>5, <1>6, Zenon DEF Next
<1> QED
  BY <1>7

(* Nobody begins to send what is not in the queue.                         *)
LEMMA NoNewSenders ==
  ASSUME Basic, [Next]_vars, NEW e \in Entry, e \notin Ids(queue')
  PROVE  \A t \in Task : call'[t].at \in Sending /\ call'[t].req = e => t \in Senders(e)
<1>1. CASE Moves
  <2>1. \A t \in Task : NewSender(t) => call'[t].req \in Ids(queue')
    BY <1>1, QueueIs DEF NewSender, Basic, Moves
  <2> QED
    BY <1>1, <2>1 DEF Moves, SameSender, Senders
<1>2. ASSUME NEW b \in Task \cup {None}, Saves(b) PROVE \A t \in Task : SameSender(t)
  BY <1>2 DEF Saves
<1>3. CASE PerformWrite \/ WriteFails
  BY <1>3, SettleDoes DEF PerformWrite, WriteFails, Sending, Senders
<1>4. CASE Load \/ LoadFails
  BY <1>4 DEF Load, LoadFails, Senders
<1>5. CASE Restart
  BY <1>5 DEF Restart, Idle, Sending
<1> QED
  BY <1>1, <1>2, <1>3, <1>4, <1>5, StepKinds DEF Loads, SameSender, Senders

(* Every step keeps SpentInv.                                              *)
LEMMA SpentInvStep ==
  ASSUME Basic, SpentInv, [Next]_vars
  PROVE  SpentInv'
<1> SUFFICES ASSUME NEW e \in Entry, NEW S, S = {t \in Task : call'[t].at \in Sending /\ call'[t].req = e}
             PROVE  retry'[e] + Cardinality(S) <= MaxRetries - 1 + Cardinality(Task)
  BY DEF SpentInv, Senders
<1>1. /\ Cardinality(S) \in Nat /\ Cardinality(S) <= Cardinality(Task) /\ Cardinality(Task) \in Nat
      /\ IsFiniteSet(Senders(e)) /\ Cardinality(Senders(e)) \in Nat
  BY SendersFinite DEF Senders
<1>2. retry[e] \in Nat /\ retry'[e] \in Nat /\ Basic'
  BY StepKinds DEF Basic, RetryOK
<1>3. CASE e \in Ids(queue')
  <2>1. retry'[e] < MaxRetries
    BY <1>2, <1>3 DEF Basic, RetryOK
  <2> QED
    BY <1>1, <1>2, <2>1, Numbers
<1>4. CASE e \notin Ids(queue')
  <2>1. S \subseteq Senders(e)
    BY <1>4, NoNewSenders
  <2>2. Cardinality(S) <= Cardinality(Senders(e))
    BY <1>1, <2>1, FS_Subset
  <2>3. retry[e] + Cardinality(Senders(e)) <= MaxRetries - 1 + Cardinality(Task)
    BY DEF SpentInv
  <2>4. CASE retry'[e] <= retry[e]
    BY <1>1, <1>2, <2>2, <2>3, <2>4, Numbers
  <2>5. CASE /\ retry'[e] = retry[e] + 1
             /\ \E t \in Senders(e) : call'[t].at \notin Sending
    <3>1. PICK t \in Senders(e) : call'[t].at \notin Sending
      BY <2>5
    <3>2. S \subseteq Senders(e) \ {t}
      BY <2>1, <3>1
    <3>3. IsFiniteSet(Senders(e) \ {t}) /\ Cardinality(Senders(e) \ {t}) = Cardinality(Senders(e)) - 1
      BY <1>1, <3>1, FS_RemoveElement
    <3>4. Cardinality(S) <= Cardinality(Senders(e)) - 1
      BY <3>2, <3>3, FS_Subset
    <3> QED
      BY <1>1, <1>2, <2>3, <2>5, <3>4, Numbers
  <2> QED
    BY <1>4, <2>4, <2>5, RetryRises
<1> QED
  BY <1>3, <1>4

(* The bound of retry counts is that of TypeOK.                            *)
LEMMA SpentInvTypes ==
  ASSUME Basic, SpentInv
  PROVE  TypeOK
<1>1. retry \in [Entry -> 0..(MaxRetries + Cardinality(Task) - 1)]
  <2>1. retry \in [Entry -> Nat]
    BY DEF Basic, RetryOK
  <2>2. \A e \in Entry : retry[e] \in 0..(MaxRetries + Cardinality(Task) - 1)
    <3> TAKE e \in Entry
    <3>1. retry[e] + Cardinality(Senders(e)) <= MaxRetries - 1 + Cardinality(Task)
      BY DEF SpentInv
    <3>2. Cardinality(Senders(e)) \in Nat /\ Cardinality(Task) \in Nat
      BY SendersFinite DEF Senders
    <3>3. retry[e] \in Nat
      BY <2>1
    <3> QED
      BY <3>1, <3>2, <3>3, Numbers
  <2> QED
    BY <2>1, <2>2
<1>2. queue \in Seq(Entry) /\ made \in 0..MaxEntries
  BY DEF Basic, QueueOK, Ordered
<1>3. call \in [Task -> [at : Step, req : 0..MaxEntries, copier : Task \cup {None}]]
  BY DEF Basic, CallType, Call
<1>4. \A s \in {stored, loaded} : s = None \/ s \in Snapshots
  BY DEF Basic, StoreOK, Sound
<1>5. writes \in Seq([by : Task \cup {None}, snap : Snapshots])
  BY DEF Basic, StoreOK, Write
<1>6. isProcessing \in BOOLEAN /\ isOnline \in BOOLEAN /\ loading \in BOOLEAN
  BY DEF Basic, FlagsOK
<1> QED
  BY <1>1, <1>2, <1>3, <1>4, <1>5, <1>6 DEF TypeOK

-----------------------------------------------------------------------------
(* Wakeups.                                                                *)

(* The steps after which the queue is looked at again.                     *)
Working == {"addSave", "addFetch", "fetch"} \cup InLoop

(* Someone drains while isProcessing; someone will look at a queue that    *)
(* nothing excuses.                                                        *)
FlagInv == isProcessing => Looping # {}
WakeInv == queue # <<>> /\ ~excused => \E t \in Task : call[t].at \in Working

(* One call moves, and no other. *)
Only(t) == \A u \in Task : u # t => call'[u].at = call[u].at

(* What each step does to those two facts. *)
Wakes ==
    /\ isProcessing' => \E t \in Task : call'[t].at \in InLoop
    /\ queue' # <<>> /\ ~excused' => \E t \in Task : call'[t].at \in Working

(* A call outside the loop leaves the one that drains.                     *)
LEMMA StaysLooping ==
  ASSUME FlagInv, NEW t \in Task, Only(t), call[t].at \notin InLoop, isProcessing
  PROVE  \E u \in Task : u # t /\ call'[u].at \in InLoop
BY DEF FlagInv, Looping, Only

(* A call that will not drain leaves the one that will.                    *)
LEMMA StaysWorking ==
  ASSUME WakeInv, NEW t \in Task, Only(t), call[t].at \notin Working, queue # <<>>, ~excused
  PROVE  \E u \in Task : u # t /\ call'[u].at \in Working
BY DEF WakeInv, Only

(* The steps of a call, sorted.                                            *)
LEMMA InWorking == InLoop \subseteq Working /\ {"addSave", "addFetch", "fetch"} \subseteq Working
                   /\ {"loop", "exec", "clone", "shiftSave"} = InLoop
                   /\ {"idle", "retrySave", "retryTail"} \cap Working = {}
                   /\ {"idle", "addSave", "addFetch", "fetch", "retrySave", "retryTail"} \cap InLoop = {}
BY DEF Working, InLoop

(* addToQueue ends without a drain only if one is running or there is no   *)
(* connection.                                                             *)
LEMMA AddTailWakes ==
  ASSUME Basic, FlagInv, WakeInv, NEW t \in Task, AddTail(t)
  PROVE  Wakes
<1> DEFINE next == [Idle EXCEPT !.at = IF StartsAfterAdd THEN "fetch" ELSE "idle"]
<1>1. call' = [u \in Task |-> IF u = t THEN next
                              ELSE IF call[u].copier = t THEN [call[u] EXCEPT !.copier = None]
                              ELSE call[u]]
  BY DEF AddTail
<1>2. \A u \in Task : call[u] \in Call
  BY DEF Basic, CallType
<1>3. \A c \in Call : [c EXCEPT !.copier = None].at = c.at
  BY DEF Call
<1>4. Only(t)
  BY <1>1, <1>2, <1>3 DEF Only
<1>5. call[t].at = "addFetch" /\ queue' = queue /\ isProcessing' = isProcessing /\ (excused' <=> excused \/ ~link)
  BY DEF AddTail, At, memory
<1>6. isProcessing => \E u \in Task : call'[u].at \in InLoop
  BY <1>4, <1>5, StaysLooping, InWorking
<1>7. ASSUME ~isProcessing, queue # <<>>, link PROVE call'[t].at \in Working
  <2>1. StartsAfterAdd
    BY <1>7 DEF StartsAfterAdd, Runnable
  <2>2. next.at = "fetch"
    BY <2>1 DEF Idle
  <2> QED
    BY <1>1, <2>2, InWorking
<1> QED
  BY <1>5, <1>6, <1>7, InWorking DEF Wakes

(* processQueue begins, drains or ends, and retryFailedRequests ends.      *)
LEMMA CallWakes ==
  ASSUME Basic, FlagInv, WakeInv, NEW t \in Task,
         ProcessQueue(t) \/ Fetched(t) \/ LoopSends(t) \/ LoopEnds(t) \/ RetryTail(t)
  PROVE  Wakes
<1>0. CallType /\ queue' = queue
  BY DEF Basic, ProcessQueue, Fetched, LoopSends, LoopEnds, RetryTail, memory
<1>1. CASE ProcessQueue(t)
  <2>1. call'[t].at = "fetch" /\ Only(t)
    BY <1>0, <1>1, Gone DEF ProcessQueue, Step, Only
  <2>2. call[t].at = "idle" /\ isProcessing' = isProcessing
    BY <1>1 DEF ProcessQueue, At, memory
  <2> QED
    BY <2>1, <2>2, StaysLooping, InWorking DEF Wakes
<1>2. CASE Fetched(t)
  <2>1. (IF link THEN "loop" ELSE "idle") \in Step
    BY DEF Step, InLoop
  <2>2. call'[t].at = (IF link THEN "loop" ELSE "idle") /\ Only(t)
    BY <1>0, <1>2, <2>1, Gone DEF Fetched, Only
  <2>3. call[t].at = "fetch" /\ (isProcessing' <=> isProcessing \/ link) /\ (excused' <=> ~link)
    BY <1>2 DEF Fetched, At
  <2> QED
    BY <2>2, <2>3, StaysLooping, InWorking DEF Wakes
<1>3. CASE LoopSends(t)
  <2>1. call' = [call EXCEPT ![t].at = "exec", ![t].req = NextRequest]
    BY <1>3 DEF LoopSends
  <2>2. call'[t].at = "exec"
    BY <1>0, <2>1 DEF CallType, Call
  <2> QED
    BY <2>2, InWorking DEF Wakes
<1>4. CASE LoopEnds(t)
  BY <1>0, <1>4 DEF LoopEnds, Wakes
<1>5. CASE RetryTail(t)
  <2>1. (IF isOnline /\ Runnable THEN "fetch" ELSE "idle") \in Step
    BY DEF Step
  <2>2. Only(t)
    BY <1>0, <1>5, <2>1, Gone DEF RetryTail, Only
  <2>3. call[t].at = "retryTail" /\ isProcessing' = isProcessing /\ excused' = excused
    BY <1>5 DEF RetryTail, At, memory
  <2> QED
    BY <1>0, <2>2, <2>3, StaysLooping, StaysWorking, InWorking DEF Wakes
<1> QED
  BY <1>1, <1>2, <1>3, <1>4, <1>5

(* A drain that saves goes on.                                             *)
LEMMA ShiftWakes ==
  ASSUME Basic, NEW t \in Task, ShiftAndSave(t)
  PROVE  Wakes
<1>1. call' = [call EXCEPT ![t] = [Idle EXCEPT !.at = "shiftSave"]]
  BY DEF ShiftAndSave
<1>2. [Idle EXCEPT !.at = "shiftSave"].at = "shiftSave"
  BY DEF Idle
<1>3. call'[t].at = "shiftSave"
  BY <1>1, <1>2 DEF Basic, CallType
<1> QED
  BY <1>3, InWorking DEF Wakes

(* A request is answered or fails.                                         *)
LEMMA ExecWakes ==
  ASSUME Basic, NEW t \in Task, ExecOk(t) \/ ExecFails(t) \/ CloneAdded(t)
  PROVE  Wakes
<1>1. ShiftAndSave(t) \/ (isProcessing' = FALSE /\ excused' = TRUE)
  BY DEF ExecOk, ExecFails, CloneAdded, Failed, Stop
<1> QED
  BY <1>1, ShiftWakes DEF Wakes

(* The user's calls.                                                       *)
LEMMA UserWakes ==
  ASSUME Basic, FlagInv, WakeInv, NEW t \in Task, AddToQueue(t) \/ RetryFailedRequests(t)
  PROVE  Wakes
<1>0. CallType /\ call[t].at = "idle" /\ isProcessing' = isProcessing /\ excused' = excused
  BY DEF Basic, AddToQueue, RetryFailedRequests, At
<1>1. CASE AddToQueue(t)
  <2>1. Adding(made + 1).at = "addSave"
    BY DEF Adding, Idle
  <2>2. call' = [call EXCEPT ![t] = Adding(made + 1)]
    BY <1>1 DEF AddToQueue
  <2>3. call'[t].at = "addSave" /\ Only(t)
    BY <1>0, <2>1, <2>2 DEF CallType, Only
  <2> QED
    BY <1>0, <2>3, StaysLooping, InWorking DEF Wakes
<1>2. CASE RetryFailedRequests(t)
  <2>1. Only(t) /\ queue' = queue
    BY <1>0, <1>2, Gone DEF RetryFailedRequests, Step, Only
  <2> QED
    BY <1>0, <2>1, StaysLooping, StaysWorking, InWorking DEF Wakes
<1> QED
  BY <1>1, <1>2

(* Steps that change neither the flag nor who drains.                      *)
LEMMA SameWakes ==
  ASSUME FlagInv, WakeInv, isProcessing' = isProcessing, queue' # <<>> => queue # <<>>, excused' = excused,
         \A t \in Task : call[t].at \in InLoop => call'[t].at \in InLoop,
         \A t \in Task : call[t].at \in Working => call'[t].at \in Working
  PROVE  Wakes
BY DEF FlagInv, WakeInv, Wakes, Looping

(* AsyncStorage, NetInfo, a restart and the queue screen.                  *)
LEMMA OtherWakes ==
  ASSUME Basic, FlagInv, WakeInv,
         \/ Loads \/ NetInfoEvent \/ UNCHANGED vars
         \/ \E up \in BOOLEAN : LinkChange(up)
         \/ \E S : RemoveFromQueue(S)
  PROVE  Wakes
<1>1. CASE PerformWrite \/ WriteFails
  <2>1. writes # <<>> /\ Settle(Head(writes)) /\ UNCHANGED <<isProcessing, queue, excused>>
    BY <1>1 DEF PerformWrite, WriteFails, Settle, memory
  <2>2. /\ \A t \in Task : t # writes[1].by => call'[t] = call[t]
        /\ LET t == writes[1].by IN
           t \in Task => call[t].at \in Saving /\ call'[t].at = NextStep[call[t].at]
    BY <2>1, SettleDoes
  <2>3. \A t \in Task : \/ call'[t].at = call[t].at
                        \/ call[t].at = "addSave" /\ call'[t].at = "addFetch"
                        \/ call[t].at = "shiftSave" /\ call'[t].at = "loop"
                        \/ call[t].at = "retrySave" /\ call'[t].at = "retryTail"
    BY <2>2 DEF Saving, NextStep
  <2> QED
    BY <2>1, <2>3, SameWakes, InWorking
<1>2. CASE Load
  <2>1. UNCHANGED <<isProcessing, call>> /\ ((queue' = queue /\ excused' = excused) \/ excused' = TRUE)
    BY <1>2 DEF Load
  <2> QED
    BY <2>1 DEF Wakes, FlagInv, WakeInv, Looping
<1>3. CASE Restart
  BY <1>3 DEF Restart, Wakes
<1>4. CASE NetInfoEvent
  <2>1. UNCHANGED <<isProcessing, queue, excused>>
    BY <1>4 DEF NetInfoEvent
  <2>2. CASE call' = call
    BY <2>1, <2>2, SameWakes
  <2>3. CASE call' # call
    <3>1. PICK t \in Task : call[t].at = "idle" /\ Goto(t, "fetch")
      BY <1>4, <2>3 DEF NetInfoEvent, At
    <3>2. call'[t].at = "fetch" /\ Only(t)
      BY <3>1, Gone DEF Basic, Step, Only
    <3> QED
      BY <2>1, <3>1, <3>2, StaysLooping, InWorking DEF Wakes
  <2> QED
    BY <2>2, <2>3
<1>5. CASE LoadFails \/ UNCHANGED vars \/ \E up \in BOOLEAN : LinkChange(up)
  <2>1. UNCHANGED <<isProcessing, queue, excused, call>>
    BY <1>5 DEF LoadFails, vars, LinkChange, memory
  <2> QED
    BY <2>1, SameWakes
<1>6. ASSUME NEW S, RemoveFromQueue(S) PROVE Wakes
  <2>1. UNCHANGED <<isProcessing, excused, call, made>> /\ queue' = Without(queue, S)
    BY <1>6 DEF RemoveFromQueue
  <2>2. queue' # <<>> => queue # <<>>
    <3>1. Ids(queue') = Ids(queue) \ S /\ QueueOK'
      BY <2>1, FilterQueue DEF Basic
    <3>2. queue' # <<>> => Ids(queue') # {}
      <4>1. queue' \in Seq(Entry)
        BY <3>1 DEF QueueOK, Ordered
      <4>2. queue' # <<>> => 1 \in DOMAIN queue'
        BY <4>1
      <4> QED
        BY <4>2 DEF Ids
    <3>3. queue = <<>> => Ids(queue) = {}
      BY DEF Ids
    <3> QED
      BY <3>1, <3>2, <3>3
  <2> QED
    BY <2>1, <2>2, SameWakes
<1> QED
  BY <1>1, <1>2, <1>3, <1>4, <1>5, <1>6 DEF Loads

(* Every step keeps FlagInv and WakeInv.                                   *)
LEMMA WakeInvStep ==
  ASSUME Basic, FlagInv, WakeInv, [Next]_vars
  PROVE  FlagInv' /\ WakeInv'
<1>1. ASSUME NEW t \in Task, TaskStep(t) PROVE Wakes
  BY <1>1, AddTailWakes, CallWakes, ExecWakes, Zenon DEF TaskStep
<1>2. ASSUME User PROVE Wakes
  BY <1>2, UserWakes, CallWakes, OtherWakes, Zenon DEF User
<1>3. ASSUME NEW t \in Task, NEW u \in Task, ExecFailsOffline(t, u) PROVE Wakes
  <2>1. /\ call' = [call EXCEPT ![t].at = "clone", ![t].copier = u, ![u] = Adding(made + 1)]
        /\ call[t].at = "exec" /\ call[u].at = "idle" /\ call \in [Task -> Call]
    BY <1>3 DEF ExecFailsOffline, At, Basic, CallType
  <2>2. call'[t].at = "clone"
    BY <2>1 DEF Call
  <2> QED
    BY <2>2, InWorking DEF Wakes
<1>4. Wakes
  BY <1>1, <1>2, <1>3, OtherWakes, Zenon DEF Next, Loads
<1> QED
  BY <1>4 DEF Wakes, FlagInv, WakeInv, Looping

(* With every call ended, something has excused the requests that wait.    *)
LEMMA WakeInvHolds ==
  ASSUME WakeInv
  PROVE  NoLostWakeup
BY InWorking DEF WakeInv, NoLostWakeup, At

-----------------------------------------------------------------------------
(* The invariant, and what follows from it. *)
IInv ==
    /\ Basic /\ SaveInv /\ OverlapInv /\ HeadInv /\ KeepInv /\ GapInv /\ OrderInv
    /\ AnsweredInv /\ SpentInv /\ FlagInv /\ WakeInv

(* The first start: the basic facts and SaveInv.                           *)
LEMMA InitBasic == Init => Basic /\ SaveInv
<1> SUFFICES ASSUME Init PROVE Basic /\ SaveInv
  OBVIOUS
<1>0. Ids(<<>>) = {} /\ MaxEntries \in Nat /\ MaxRetries \in Nat /\ MaxRetries > 0
  BY Numbers DEF Ids
<1>1. QueueOK
  <2>1. 0 \in 0..MaxEntries
    BY <1>0
  <2> QED
    BY <2>1 DEF Init, QueueOK, Ordered, Asc
<1>2. RetryOK
  BY <1>0 DEF Init, RetryOK
<1>3. Idle \in Call /\ Idle.at = "idle" /\ \A t \in Task : call[t] = Idle
  BY InCall DEF Init
<1>4. CallType
  BY <1>3 DEF Init, CallType
<1>5. SendOK /\ AddOK /\ ApartOK
  BY <1>3 DEF SendOK, AddOK, ApartOK, Sending, Init
<1>6. StoreOK /\ WritesOK
  BY DEF Init, StoreOK, WritesOK
<1>7. PastOK /\ FlagsOK
  BY DEF Init, PastOK, FlagsOK
<1>8. SaveInv
  BY <1>3 DEF Init, SaveInv
<1> QED
  BY <1>1, <1>2, <1>4, <1>5, <1>6, <1>7, <1>8 DEF Basic

(* The first start.                                                        *)
LEMMA InitIInv == Init => IInv
<1> SUFFICES ASSUME Init PROVE IInv
  OBVIOUS
<1>1. Basic /\ SaveInv
  BY InitBasic
<1>2. \A t \in Task : call[t].at = "idle"
  BY DEF Init, Idle
<1>3. OverlapInv /\ HeadInv
  BY <1>2 DEF OverlapInv, HeadInv, Looping, InLoop, Sending
<1>4. KeepInv /\ GapInv /\ OrderInv
  <2>1. /\ Len(writes) = 0 /\ accepted = {} /\ processed = {}
        /\ \A k \in 0..0 : Saved(k) = <<>>
    BY DEF Init, Saved
  <2>2. Ids(<<>>) = {}
    BY DEF Ids
  <2> QED
    BY <2>1, <2>2 DEF KeepInv, GapInv, OrderInv
<1>5. AnsweredInv
  BY <1>2 DEF Init, AnsweredInv
<1>6. SpentInv
  <2> SUFFICES ASSUME NEW e \in Entry
               PROVE  retry[e] + Cardinality(Senders(e)) <= MaxRetries - 1 + Cardinality(Task)
    BY DEF SpentInv
  <2>1. retry[e] = 0
    BY DEF Init
  <2>2. Cardinality(Senders(e)) \in Nat /\ Cardinality(Senders(e)) <= Cardinality(Task)
        /\ Cardinality(Task) \in Nat
    BY SendersFinite DEF Senders
  <2> QED
    BY <2>1, <2>2, Numbers
<1>7. FlagInv /\ WakeInv
  BY DEF Init, FlagInv, WakeInv
<1> QED
  BY <1>1, <1>3, <1>4, <1>5, <1>6, <1>7 DEF IInv

(* Every step.                                                             *)
LEMMA StepIInv == IInv /\ [Next]_vars => IInv'
<1> SUFFICES ASSUME IInv, [Next]_vars PROVE IInv'
  OBVIOUS
<1>1. /\ Basic /\ SaveInv /\ OverlapInv /\ HeadInv /\ KeepInv /\ GapInv /\ OrderInv
      /\ AnsweredInv /\ SpentInv /\ FlagInv /\ WakeInv
  BY DEF IInv
<1>2. Basic' /\ SaveInv' /\ OverlapInv' /\ HeadInv'
  BY <1>1, StepKinds, SaveInvStep, OverlapInvStep, HeadInvStep
<1>3. KeepInv' /\ GapInv' /\ OrderInv'
  BY <1>1, KeepInvStep, GapInvStep, OrderInvStep
<1>4. AnsweredInv' /\ SpentInv' /\ FlagInv' /\ WakeInv'
  BY <1>1, AnsweredInvStep, SpentInvStep, WakeInvStep
<1> QED
  BY <1>2, <1>3, <1>4 DEF IInv

(* The inductive invariant holds, however calls interleave and whatever    *)
(* fails.                                                                  *)
THEOREM InvHolds == Spec => []IInv
BY InitIInv, StepIInv, PTL DEF Spec

(* The variables keep their types, retry counts included: each passes      *)
(* MaxRetries at most by the drains that send its request at the same      *)
(* time.                                                                   *)
THEOREM TypeCorrect == Spec => []TypeOK
<1>1. IInv => TypeOK
  BY SpentInvTypes DEF IInv
<1> QED
  BY <1>1, InvHolds, PTL

(* saveQueue: with no setItem call pending, AsyncStorage holds the queue,  *)
(* for any number of calls whose saves interleave.                         *)
THEOREM StoredIsTheQueue == Spec => []StoredFollowsQueue
<1>1. IInv => StoredFollowsQueue
  BY SaveInvStores DEF IInv
<1> QED
  BY <1>1, InvHolds, PTL

(* A request whose addToQueue returned is kept until the server has        *)
(* processed it, its retries are used up or the user removes it, through   *)
(* restarts at any point; else one of the four mishaps has occurred.       *)
THEOREM NothingAcceptedIsLost == Spec => []AcceptedNotLost
<1>1. IInv => AcceptedNotLost
  BY KeepInvKeeps DEF IInv
<1> QED
  BY <1>1, InvHolds, PTL

(* processQueue sends the requests in the order they were made, restarts   *)
(* included, unless a mishap has occurred.                                 *)
THEOREM SentFirstComeFirst == Spec => []ServedInOrder
<1>1. IInv => ServedInOrder
  BY OrderInvServes DEF IInv
<1> QED
  BY <1>1, InvHolds, PTL

(* A request whose success the app has heard of is not sent again, unless  *)
(* the app was restarted, a save failed or drains overlapped.              *)
THEOREM NotSentTwice == Spec => []AnsweredNotResent
<1>1. IInv => AnsweredNotResent
  BY AnsweredInvHolds DEF IInv
<1> QED
  BY <1>1, InvHolds, PTL

(* When all calls have ended, requests wait only after a failure, without  *)
(* a connection or after a restart: no wakeup is lost between a drain that *)
(* ends and an addToQueue that sees it running.                            *)
THEOREM WakeupsKept == Spec => []NoLostWakeup
<1>1. IInv => NoLostWakeup
  BY WakeInvHolds DEF IInv
<1> QED
  BY <1>1, InvHolds, PTL

-----------------------------------------------------------------------------
(* The outbox.                                                             *)

(* The pending saves of pushes, and what they add. *)
Adds(k) == writes[k].by \in Task /\ call[writes[k].by].at = "addSave"
Added(k) == call[writes[k].by].req

(* Each pending save of a push adds one request, which is newer than all   *)
(* that was saved before; the other saves add none.                        *)
LinkInv ==
    Clean => \A k \in 1..Len(writes) :
        /\ ~Adds(k) => Ids(Saved(k)) \subseteq Ids(Saved(k - 1))
        /\ Adds(k) => /\ Ids(Saved(k)) = Ids(Saved(k - 1)) \cup {Added(k)}
                      /\ \A d \in accepted : d < Added(k)
                      /\ \A j \in 0..(k - 1) : \A d \in Ids(Saved(j)) : d < Added(k)

(* A push, by addToQueue or the interceptor.                               *)
LEMMA PushAdds ==
  ASSUME Basic, Basic', NEW t \in Task, Push(t), Saves(t), call'[t] = Adding(made + 1),
         NEW n, n = Len(writes) + 1
  PROVE  Adds(n)' /\ Added(n)' = made + 1 /\ Ids(queue') = Ids(queue) \cup {made + 1}
<1>1. /\ Ids(queue') = Ids(queue) \cup {made + 1}
      /\ call'[t].at = "addSave" /\ call'[t].req = made + 1
  BY PushCall
<1>2. writes'[n].by = t
  BY SavesChain
<1> QED
  BY <1>1, <1>2 DEF Adds, Added

(* A shift.                                                                *)
LEMMA ShiftAdds ==
  ASSUME Basic, Basic', NEW t \in Task, call[t].at \in Sending, ShiftAndSave(t),
         UNCHANGED <<stored, loaded, made>>, NEW n, n = Len(writes) + 1
  PROVE  ~Adds(n)' /\ Ids(queue') \subseteq Ids(queue)
<1>1. Shifts(n)'
  BY ShiftGap
<1>2. Ids(queue') \subseteq Ids(queue)
  BY ShiftQueue DEF ShiftAndSave, Basic
<1> QED
  BY <1>1, <1>2 DEF Shifts, Adds

(* A step that saves adds the newest request to the queue, or none.        *)
LEMMA StepAdds ==
  ASSUME Basic, Basic', [Next]_vars, ~Load, ~Restart,
         NEW b \in Task \cup {None}, Saves(b), NEW n, n = Len(writes) + 1
  PROVE  \/ ~Adds(n)' /\ Ids(queue') \subseteq Ids(queue)
         \/ Adds(n)' /\ Added(n)' = made + 1 /\ Ids(queue') = Ids(queue) \cup {made + 1}
<1> DEFINE Goal == \/ ~Adds(n)' /\ Ids(queue') \subseteq Ids(queue)
                   \/ Adds(n)' /\ Added(n)' = made + 1 /\ Ids(queue') = Ids(queue) \cup {made + 1}
<1>1. writes' # writes
  BY SavesChain
<1>2. ASSUME NEW t \in Task, TaskStep(t) PROVE Goal
  <2>1. CASE ExecFails(t) \/ CloneAdded(t)
    <3>1. call[t].at \in Sending /\ Failed(t) /\ UNCHANGED <<stored, loaded, made>>
      BY <2>1 DEF ExecFails, CloneAdded, At, Sending, Failed
    <3>2. CASE ShiftAndSave(t)
      BY <3>1, <3>2, ShiftAdds
    <3> QED
      BY <1>1, <3>1, <3>2 DEF Failed
  <2>2. CASE ExecOk(t)
    <3>1. call[t].at \in Sending /\ ShiftAndSave(t) /\ UNCHANGED <<stored, loaded, made>>
      BY <2>2 DEF ExecOk, At, Sending
    <3> QED
      BY <3>1, ShiftAdds
  <2>3. CASE AddTail(t) \/ Fetched(t) \/ LoopSends(t) \/ LoopEnds(t) \/ RetryTail(t)
    BY <1>1, <2>3 DEF AddTail, Fetched, LoopSends, LoopEnds, RetryTail, storage
  <2> QED
    BY <1>2, <2>1, <2>2, <2>3 DEF TaskStep
<1>3. ASSUME NEW S \in {{e} : e \in Ids(queue)} \cup {Ids(queue), FailedOnes}, RemoveFromQueue(S)
      PROVE  Goal
  <2>1. S \subseteq Ids(queue) /\ queue' = Without(queue, S) /\ made' = made
    BY <1>3 DEF RemoveFromQueue, FailedOnes
  <2>2. Saves(None)
    BY <1>3, <2>1, RemoveSaves
  <2>3. writes'[n].by = None
    BY <2>2, SavesChain
  <2>4. Ids(queue') = Ids(queue) \ S
    BY <2>1, FilterQueue DEF Basic
  <2> QED
    BY <2>3, <2>4, NoneIsNothing DEF Adds
<1>4. ASSUME NEW t \in Task, RetryFailedRequests(t) PROVE Goal
  <2>1. Saves(t) /\ queue' = queue
    BY <1>4, RetryFailedSaves DEF RetryFailedRequests
  <2>2. writes'[n].by = t
    BY <2>1, SavesChain
  <2>3. call'[t].at = "retrySave"
    BY <1>4, Gone DEF RetryFailedRequests, Basic, Step
  <2> QED
    BY <2>1, <2>2, <2>3 DEF Adds
<1>5. ASSUME NEW t \in Task, AddToQueue(t) PROVE Goal
  <2>1. Saves(t) /\ Push(t) /\ call' = [call EXCEPT ![t] = Adding(made + 1)]
    BY <1>5, AddToQueueSaves DEF AddToQueue
  <2>2. call'[t] = Adding(made + 1)
    BY <2>1 DEF Basic, CallType
  <2> QED
    BY <2>1, <2>2, PushAdds
<1>6. ASSUME NEW t \in Task, NEW u \in Task, ExecFailsOffline(t, u) PROVE Goal
  <2>1. Saves(u) /\ Push(u)
        /\ call' = [call EXCEPT ![t].at = "clone", ![t].copier = u, ![u] = Adding(made + 1)]
    BY <1>6, ExecFailsOfflineSaves DEF ExecFailsOffline
  <2>2. call'[u] = Adding(made + 1)
    BY <2>1 DEF Basic, CallType
  <2> QED
    BY <2>1, <2>2, PushAdds
<1>7. ASSUME NEW t \in Task, ProcessQueue(t) PROVE Goal
  BY <1>1, <1>7 DEF ProcessQueue, storage
<1>8. ASSUME NetInfoEvent \/ (\E up \in BOOLEAN : LinkChange(up)) \/ LoadFails \/ UNCHANGED vars
      PROVE  Goal
  BY <1>1, <1>8 DEF NetInfoEvent, LinkChange, LoadFails, vars, storage
<1>9. ASSUME PerformWrite \/ WriteFails PROVE Goal
  <2>1. writes # <<>> /\ Settle(Head(writes))
    BY <1>9 DEF PerformWrite, WriteFails
  <2>2. Len(writes') = Len(writes) - 1 /\ Len(writes') = Len(writes) + 1 /\ Len(writes) \in Nat
    BY <2>1, SettleDoes, SavesChain
  <2> QED
    BY <2>2
<1>10. Goal
  <2> HIDE DEF Goal
  <2>1. CASE User
    BY <1>3, <1>4, <1>5, <1>7, <2>1, Zenon DEF User
  <2> QED
    BY <1>2, <1>6, <1>8, <1>9, <2>1, Zenon DEF Next
<1> QED
  BY <1>10

(* The pending save of a push stays one until it is performed.             *)
LEMMA AddStays ==
  ASSUME Basic, Basic', NEW l \in DOMAIN writes
  PROVE  /\ Moves => /\ Adds(l)' = Adds(l)
                     /\ Adds(l) => Added(l)' = Added(l)
         /\ \A b \in Task \cup {None} : Saves(b) =>
               /\ Adds(l)' = Adds(l)
               /\ Adds(l) => Added(l)' = Added(l)
<1>0. writes[l].by \in Task => call[writes[l].by].at \in Saving
  BY DEF Basic, WritesOK
<1>1. ASSUME Moves PROVE Adds(l)' = Adds(l) /\ (Adds(l) => Added(l)' = Added(l))
  BY <1>0, <1>1 DEF Moves, Adds, Added, SameSaver
<1>2. ASSUME NEW b \in Task \cup {None}, Saves(b)
      PROVE  Adds(l)' = Adds(l) /\ (Adds(l) => Added(l)' = Added(l))
  <2>1. writes'[l] = writes[l]
    BY <1>2, SavesChain
  <2>2. writes[l].by \in Task => writes[l].by # b
    BY <1>0, <1>2 DEF Saves
  <2>3. writes[l].by \in Task => /\ call'[writes[l].by].at = call[writes[l].by].at
                                 /\ call'[writes[l].by].req = call[writes[l].by].req
    BY <1>0, <1>2, <2>2 DEF Saves, SameSaver
  <2> QED
    BY <2>1, <2>3 DEF Adds, Added
<1> QED
  BY <1>1, <1>2

(* Every step keeps LinkInv.                                               *)
LEMMA LinkInvStep ==
  ASSUME Basic, SaveInv, LinkInv, [Next]_vars
  PROVE  LinkInv'
<1> DEFINE Linked(k) ==
             /\ ~Adds(k) => Ids(Saved(k)) \subseteq Ids(Saved(k - 1))
             /\ Adds(k) => /\ Ids(Saved(k)) = Ids(Saved(k - 1)) \cup {Added(k)}
                           /\ \A d \in accepted : d < Added(k)
                           /\ \A j \in 0..(k - 1) : \A d \in Ids(Saved(j)) : d < Added(k)
<1> SUFFICES ASSUME Clean', NEW k \in 1..Len(writes')
             PROVE  Linked(k)'
  BY DEF LinkInv
<1>1. Clean /\ ~WriteFails /\ ~LoadFails /\ Basic'
  BY CleanBefore, StepKinds
<1>2. \A l \in 1..Len(writes) : Linked(l)
  BY <1>1 DEF LinkInv
<1>3. /\ Len(writes) \in Nat /\ DOMAIN writes = 1..Len(writes) /\ k \in Nat
      /\ \A l \in 0..Len(writes) : \A e \in Ids(Saved(l)) : e \in 1..made
      /\ \A e \in accepted : e \in 1..made
      /\ made \in Nat
  BY ChainIs, QueueIs DEF Basic, PastOK
<1>4. accepted' = accepted \/ PerformWrite
  BY <1>1, StepRecords
<1>5. ASSUME k \in 1..Len(writes), Adds(k)' = Adds(k), Adds(k) => Added(k)' = Added(k),
             accepted' = accepted, \A l \in 0..Len(writes) : Saved(l)' = Saved(l)
      PROVE  Linked(k)'
  <2>1. Saved(k)' = Saved(k) /\ Saved(k - 1)' = Saved(k - 1)
        /\ \A j \in 0..(k - 1) : Saved(j)' = Saved(j)
    BY <1>3, <1>5
  <2>2. Linked(k)
    BY <1>2, <1>5
  <2> QED
    BY <1>5, <2>1, <2>2
<1>6. CASE Moves /\ ~PerformWrite
  <2>1. k \in 1..Len(writes) /\ \A l : Saved(l)' = Saved(l)
    BY <1>6, MovesChain
  <2> QED
    BY <1>1, <1>3, <1>4, <1>5, <1>6, <2>1, AddStays
<1>7. ASSUME NEW b \in Task \cup {None}, Saves(b), ~Load, ~Restart, ~PerformWrite
      PROVE  Linked(k)'
  <2> DEFINE n == Len(writes) + 1
  <2>1. /\ Len(writes') = n /\ \A j \in 0..Len(writes) : Saved(j)' = Saved(j)
        /\ \A j : j = n => Saved(j)' = queue'
    BY <1>1, <1>7, SavesChain
  <2>2. Last = queue
    BY <1>1, <1>7, LastIs DEF SaveInv, Saves, Clean
  <2>3. CASE k \in 1..Len(writes)
    BY <1>1, <1>3, <1>4, <1>5, <1>7, <2>1, <2>3, AddStays
  <2>4. CASE k = n
    <3>1. /\ Saved(k)' = queue' /\ k - 1 = Len(writes) /\ Saved(k - 1)' = queue
          /\ \A j \in 0..(k - 1) : Saved(j)' = Saved(j) /\ j \in 0..Len(writes)
      <4>1. k - 1 = Len(writes) /\ Len(writes) \in 0..Len(writes)
        BY <1>3, <2>4
      <4>2. \A j \in 0..Len(writes) : Saved(j)' = Saved(j)
        BY <2>1
      <4>3. \A j : j = Len(writes) => Saved(j)' = queue
        BY <2>2, <4>1, <4>2 DEF Last
      <4> QED
        BY <1>3, <2>1, <2>4, <4>1, <4>2, <4>3
    <3>2. \/ ~Adds(k)' /\ Ids(queue') \subseteq Ids(queue)
          \/ Adds(k)' /\ Added(k)' = made + 1 /\ Ids(queue') = Ids(queue) \cup {made + 1}
      BY <1>1, <1>7, <2>4, StepAdds
    <3>3. \A e \in 1..made : e < made + 1
      BY <1>3
    <3> QED
      BY <1>3, <1>4, <1>7, <3>1, <3>2, <3>3
  <2> QED
    BY <1>3, <2>1, <2>3, <2>4
<1>8. CASE PerformWrite
  <2>1. /\ Len(writes') = Len(writes) - 1 /\ \A j \in 0..Len(writes') : Saved(j)' = Saved(j + 1)
        /\ Len(writes) > 0
    BY <1>8, PerformChain
  <2>2. /\ DOMAIN writes' = 1..Len(writes') /\ writes'[k] = writes[k + 1] /\ 1 \in DOMAIN writes
        /\ \A t \in Task : t # writes[1].by => call'[t] = call[t]
        /\ \A e \in accepted' \ accepted : Adds(1) /\ e = Added(1)
    BY <1>8, <2>1, SettleDoes DEF PerformWrite, Adds, Added
  <2>3. k + 1 \in 1..Len(writes) /\ k + 1 # 1 /\ k + 1 \in DOMAIN writes
    BY <1>3, <2>1
  <2>4. writes[k + 1].by \in Task => writes[k + 1].by # writes[1].by
    BY <2>2, <2>3 DEF Basic, WritesOK
  <2>5. Adds(k)' = Adds(k + 1) /\ (Adds(k + 1) => Added(k)' = Added(k + 1))
    BY <2>2, <2>4 DEF Adds, Added
  <2>6. /\ Saved(k)' = Saved(k + 1) /\ Saved(k - 1)' = Saved(k) /\ k + 1 - 1 = k
        /\ \A j \in 0..(k - 1) : Saved(j)' = Saved(j + 1) /\ j + 1 \in 0..k
    BY <1>3, <2>1
  <2>7. Linked(k + 1)
    BY <1>2, <2>3
  <2>8. Adds(1) => Added(1) \in Ids(Saved(1)) /\ 1 \in 0..k
    <3>1. 1 \in 1..Len(writes) /\ 1 \in 0..k
      BY <1>3, <2>1
    <3> QED
      BY <1>2, <3>1
  <2> QED
    BY <2>2, <2>5, <2>6, <2>7, <2>8
<1>9. CASE Load \/ Restart
  <2>1. Len(writes') = 0
    <3>1. Load => writes' = writes /\ writes = <<>>
      BY <1>1, LastIs DEF Load, storage
    <3> QED
      BY <1>9, <3>1 DEF Restart
  <2> QED
    BY <2>1
<1> QED
  BY <1>1, <1>6, <1>7, <1>8, <1>9, StepKinds DEF Loads

(* AsyncStorage holds the head of the chain.                               *)
LEMMA HeldIs == Held = Ids(Saved(0)) /\ Held' = Ids(Saved(0)')
<1>1. Ids(<<>>) = {}
  BY DEF Ids
<1>2. Held = Ids(Saved(0))
  BY <1>1 DEF Held, Saved
<1>3. Held' = Ids(Saved(0)')
  BY <1>1 DEF Held, Saved
<1> QED
  BY <1>2, <1>3

(* A request that is sent is the oldest that is left to be sent.           *)
LEMMA SendsAttempt ==
  ASSUME IInv, Clean, NEW t \in Task, call[t].at \in Sending,
         processed' \in {processed, processed \cup {call[t].req}},
         retry' \in {retry, [retry EXCEPT ![call[t].req] = @ + 1]},
         UNCHANGED <<stored, accepted, removed>>
  PROVE  \E e \in Entry : Box!Attempt(e)
<1> DEFINE e == call[t].req
<1>1. Basic /\ SaveInv /\ OverlapInv /\ HeadInv /\ GapInv
  BY DEF IInv
<1>2. e \in 1..made /\ e \in Entry
  BY <1>1, QueueIs, Numbers DEF Basic, SendOK, Entry
<1>3. \A d \in Held \ (processed \cup removed) : e <= d
  <2> SUFFICES ASSUME NEW d \in Held, d \notin removed, d # e
               PROVE  e <= d
    BY <1>2
  <2>1. 0 \in 0..Len(writes) /\ d \in Ids(Saved(0)) /\ d \in 1..made /\ made \in Nat
    BY <1>1, ChainIs, HeldIs, QueueIs DEF Basic
  <2>2. d > e
    BY <1>1, <2>1, SentInOrder
  <2> QED
    BY <1>2, <2>1, <2>2
<1>4. Held' = Held
  BY DEF Held
<1> QED
  BY <1>2, <1>3, <1>4 DEF Box!Attempt

(* A setItem call that is performed puts one request in, or takes out what *)
(* is done with.                                                           *)
LEMMA PerformsOutbox ==
  ASSUME IInv, LinkInv, Clean, PerformWrite
  PROVE  (\E e \in Entry : Box!Put(e)) \/ (\E S \in SUBSET Entry : Box!Leave(S))
<1>1. Basic /\ SaveInv /\ KeepInv
  BY DEF IInv
<1>2. /\ Len(writes) > 0 /\ 1 \in 1..Len(writes) /\ Saved(0)' = Saved(1) /\ Len(writes) \in Nat
      /\ 0 \in 0..Len(writes) /\ 1 \in 0..Len(writes)
  <2>1. Len(writes') = Len(writes) - 1 /\ Len(writes) > 0 /\ Len(writes) \in Nat
    BY <1>1, PerformChain
  <2>2. 0 \in 0..Len(writes')
    BY <2>1
  <2> QED
    BY <1>1, <2>1, <2>2, PerformChain
<1>3. Held = Ids(Saved(0)) /\ Held' = Ids(Saved(1))
  BY <1>2, HeldIs
<1>4. processed' = processed /\ removed' = removed /\ retry' = retry
  BY DEF PerformWrite, Settle, memory
<1>5. /\ ~Adds(1) => Held' \subseteq Held
      /\ Adds(1) => /\ Held' = Held \cup {Added(1)}
                    /\ \A d \in accepted \cup Held : d < Added(1)
  <2>1. 1 - 1 = 0 /\ 0 \in 0..(1 - 1)
    OBVIOUS
  <2> QED
    BY <1>2, <1>3, <2>1 DEF LinkInv
<1>6. writes[1].by \in Task \cup {None} /\ Head(writes) = writes[1]
  BY <1>1, <1>2, StoreIs DEF Basic
<1>7. accepted' = accepted \cup (IF Adds(1) THEN {Added(1)} ELSE {})
  <2>1. Settle(writes[1])
    BY <1>6 DEF PerformWrite
  <2>2. CASE writes[1].by = None
    BY <2>1, <2>2, NoneIsNothing DEF Settle, Adds
  <2>3. CASE writes[1].by # None
    BY <1>6, <2>1, <2>3 DEF Settle, Adds, Added, At
  <2> QED
    BY <2>2, <2>3
<1>8. CASE Adds(1)
  <2>1. Added(1) \in Ids(Saved(1))
    BY <1>3, <1>5, <1>8
  <2>2. Added(1) \in Entry
    BY <1>1, <1>2, <2>1, ChainIs
  <2>3. Box!Put(Added(1))
    BY <1>4, <1>5, <1>7, <1>8 DEF Box!Put
  <2> QED
    BY <2>2, <2>3
<1>9. CASE ~Adds(1)
  <2> DEFINE S == Held \ Held'
  <2>1. \A e \in S : Excused(e)
    BY <1>1, <1>2, <1>3 DEF KeepInv, Left
  <2>2. S \subseteq Entry
    BY <1>1, <1>2, <1>3, ChainIs
  <2>3. Held' = Held \ S
    BY <1>5, <1>9
  <2>4. Box!Leave(S)
    BY <1>4, <1>7, <1>9, <2>1, <2>3 DEF Box!Leave, Box!Done, Excused
  <2> QED
    BY <2>2, <2>4
<1> QED
  BY <1>8, <1>9

(* Counts that begin anew.                                                 *)
LEMMA CountsAnew ==
  ASSUME IInv, Clean, Basic', Load \/ \E t \in Task : RetryFailedRequests(t)
  PROVE  Box!Recount
<1>1. Basic /\ SaveInv
  BY DEF IInv
<1>2. UNCHANGED <<stored, accepted, processed, removed>>
  BY DEF Load, RetryFailedRequests, storage, past
<1>3. Held' = Held
  BY <1>2 DEF Held
<1>4. retry' \in [Entry -> Nat]
  BY DEF Basic, RetryOK
<1>5. ASSUME NEW e \in Entry, retry'[e] # retry[e]
      PROVE  retry'[e] < MaxRetries /\ (retry[e] < MaxRetries \/ e \in Held)
  <2>1. ASSUME NEW t \in Task, RetryFailedRequests(t)
        PROVE  retry'[e] < MaxRetries /\ (retry[e] < MaxRetries \/ e \in Held)
    <3>1. retry' = [d \in Entry |-> IF d \in FailedOnes THEN 0 ELSE retry[d]]
      BY <2>1 DEF RetryFailedRequests
    <3>2. e \in Ids(queue) /\ retry'[e] = 0
      BY <1>5, <3>1 DEF FailedOnes
    <3> QED
      BY <1>1, <3>2, Numbers DEF Basic, RetryOK
  <2>2. CASE Load
    <3>1. loaded # None
      BY <1>5, <2>2 DEF Load
    <3>2. e \in Ids(queue') /\ queue' = IdsOf(loaded)
      BY <1>1, <1>5, <2>2, <3>1, LoadDoes
    <3>3. retry'[e] < MaxRetries
      BY <3>2 DEF Basic, RetryOK
    <3>4. loaded = stored
      BY <1>1, <2>2, LastIs DEF Load
    <3> QED
      BY <3>1, <3>2, <3>3, <3>4 DEF Held
  <2> QED
    BY <2>1, <2>2
<1> QED
  BY <1>2, <1>3, <1>4, <1>5 DEF Box!Recount

(* Every step without a mishap is one of the outbox, or none.              *)
LEMMA OutboxStep == IInv /\ LinkInv /\ [Next]_vars => [Box!Next]_(Box!promised)
<1> SUFFICES ASSUME IInv, LinkInv, [Next]_vars, blame' = {}
             PROVE  blame = {} /\ (Box!Promise \/ UNCHANGED Box!promised)
  BY DEF Box!Next
<1>1. blame = {} /\ Clean /\ ~WriteFails /\ ~LoadFails
  BY BlameGrows DEF Clean
<1>2. IInv' /\ Basic' /\ Basic
  BY StepIInv DEF IInv
<1>3. ASSUME UNCHANGED <<stored, accepted, processed, removed, retry>>
      PROVE  UNCHANGED Box!promised
  BY <1>1, <1>3 DEF Box!promised, Held
<1>4. ASSUME NEW t \in Task, ExecOk(t) \/ ExecFails(t) \/ CloneAdded(t) PROVE Box!Promise
  <2>1. /\ call[t].at \in Sending
        /\ processed' \in {processed, processed \cup {call[t].req}}
        /\ retry' \in {retry, [retry EXCEPT ![call[t].req] = @ + 1]}
        /\ UNCHANGED <<stored, accepted, removed>>
    BY <1>4 DEF ExecOk, ExecFails, CloneAdded, Failed, At, Sending
  <2> QED
    BY <1>1, <2>1, SendsAttempt DEF Box!Promise
<1>5. ASSUME NEW t \in Task, NEW u \in Task, ExecFailsOffline(t, u) PROVE Box!Promise
  <2>1. /\ call[t].at \in Sending
        /\ processed' \in {processed, processed \cup {call[t].req}}
        /\ retry' = retry /\ UNCHANGED <<stored, accepted, removed>>
    BY <1>5 DEF ExecFailsOffline, Push, At, Sending
  <2> QED
    BY <1>1, <2>1, SendsAttempt DEF Box!Promise
<1>6. ASSUME NEW S \in {{e} : e \in Ids(queue)} \cup {Ids(queue), FailedOnes}, RemoveFromQueue(S)
      PROVE  Box!Promise
  <2>1. S \subseteq Entry
    BY <1>2, QueueIs DEF FailedOnes, Basic
  <2>2. Box!Remove(S)
    BY <1>6 DEF RemoveFromQueue, Box!Remove, Held
  <2> QED
    BY <2>1, <2>2 DEF Box!Promise
<1>7. ASSUME Load \/ \E t \in Task : RetryFailedRequests(t) PROVE Box!Promise
  BY <1>1, <1>2, <1>7, CountsAnew DEF Box!Promise
<1>8. ASSUME PerformWrite PROVE Box!Promise
  BY <1>1, <1>8, PerformsOutbox DEF Box!Promise
<1>9. ASSUME \/ \E t \in Task : \/ AddTail(t) \/ Fetched(t) \/ LoopSends(t) \/ LoopEnds(t)
                                \/ RetryTail(t) \/ AddToQueue(t) \/ ProcessQueue(t)
             \/ NetInfoEvent \/ (\E up \in BOOLEAN : LinkChange(up)) \/ Restart \/ UNCHANGED vars
      PROVE  UNCHANGED <<stored, accepted, processed, removed, retry>>
  BY <1>9 DEF AddTail, Fetched, LoopSends, LoopEnds, RetryTail, AddToQueue, Push, ProcessQueue,
     NetInfoEvent, LinkChange, Restart, vars, memory, storage, past
<1>10. Box!Promise \/ UNCHANGED Box!promised
  <2>1. CASE User
    BY <1>3, <1>6, <1>7, <1>9, <2>1, Zenon DEF User
  <2>2. CASE \E t \in Task : TaskStep(t)
    BY <1>3, <1>4, <1>9, <2>2, Zenon DEF TaskStep
  <2>3. CASE UNCHANGED vars
    BY <1>3, <1>9, <2>3, Zenon
  <2> QED
    BY <1>1, <1>3, <1>5, <1>7, <1>8, <1>9, <2>1, <2>2, <2>3, Zenon DEF Next
<1> QED
  BY <1>1, <1>10

(* What AsyncStorage holds is an outbox: each setItem that is performed    *)
(* puts the newest request in or takes out what was processed, removed or  *)
(* given up, the oldest is sent first, and a kill at any point is a step   *)
(* that nobody sees; as long as no mishap has occurred.                    *)
THEOREM StoredImplementsOutbox == Spec => StoredIsAnOutbox
<1>1. Init => LinkInv
  BY DEF Init, LinkInv
<1>2. IInv /\ LinkInv /\ [Next]_vars => LinkInv'
  BY LinkInvStep DEF IInv
<1>3. Init => Box!Init
  BY DEF Init, Box!Init, Held
<1> QED
  BY <1>1, <1>2, <1>3, InvHolds, OutboxStep, PTL DEF Spec, StoredIsAnOutbox, Box!Spec

=============================================================================
