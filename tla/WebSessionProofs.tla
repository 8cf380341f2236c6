-------------------------- MODULE WebSessionProofs --------------------------
(***************************************************************************)
(* Theorems about WebSession for any number of pages, calls and logins:    *)
(* its types, that nothing waits behind a refresh that is over, and that   *)
(* no token the server would take stays when every page is signed out.     *)
(***************************************************************************)
EXTENDS WebSession, TLAPS

-----------------------------------------------------------------------------
(* What the building blocks of the actions do to the types. *)

StorageOK == access \in {None, Given, Undefined} /\ refresh \in Pair \cup {None} /\ fresh \in BOOLEAN
PagesOK   == /\ page \in [Tab -> {"loading", "in", "out"}]
             /\ isRefreshing \in [Tab -> BOOLEAN]
             /\ current \in [Tab -> SUBSET HookRun]
CallsOK   == /\ pc \in [Tab -> [Slot -> Pc]]
             /\ tok \in [Tab -> [Slot -> Token]]
             /\ retried \in [Tab -> SUBSET Slot]
ServerOK  == logins \in 0..MaxLogins /\ unspent \subseteq Pair

(* The four parts are all of it. *)
LEMMA TypeParts == TypeOK <=> StorageOK /\ PagesOK /\ CallsOK /\ ServerOK
BY DEF TypeOK, StorageOK, PagesOK, CallsOK, ServerOK

(* Signing out. *)
LEMMA StoreLogoutTypes ==
    ASSUME PagesOK, NEW t \in Tab, StoreLogout(t), UNCHANGED isRefreshing
    PROVE  StorageOK' /\ PagesOK'
BY DEF StoreLogout, ClearTokens, StorageOK, PagesOK, Token

(* Loading a page. *)
LEMMA LoadPageTypes ==
    ASSUME PagesOK, CallsOK, NEW t \in Tab, LoadPage(t)
    PROVE  PagesOK' /\ CallsOK'
BY DEF LoadPage, PagesOK, CallsOK, Pc, Token

(* Redirecting a page. *)
LEMMA RedirectTypes ==
    ASSUME PagesOK, CallsOK, NEW t \in Tab, Redirect(t)
    PROVE  StorageOK' /\ PagesOK' /\ CallsOK'
BY LoadPageTypes DEF Redirect, ClearTokens, StorageOK, Token

(* Settling a call. *)
LEMMA SettleTypes ==
    ASSUME CallsOK, NEW t \in Tab, NEW s \in Slot, Settle(t, s)
    PROVE  CallsOK'
BY DEF Settle, Goto, CallsOK, Pc, Token

(* Sending a call. *)
LEMMA StartTypes ==
    ASSUME CallsOK, NEW t \in Tab, NEW s \in Slot, NEW token \in Token, Start(t, s, token),
           UNCHANGED retried
    PROVE  CallsOK'
BY DEF Start, Goto, CallsOK, Pc

(* Rejecting a call. *)
LEMMA RejectTypes ==
    ASSUME StorageOK, PagesOK, CallsOK, NEW t \in Tab, NEW s \in Slot, Reject(t, s)
    PROVE  StorageOK' /\ PagesOK' /\ CallsOK'
<1>1. CASE s = Refresh
  BY <1>1, RedirectTypes DEF Reject
<1>2. CASE s # Refresh
  <2>1. Settle(t, s) /\ UNCHANGED isRefreshing
    BY <1>2 DEF Reject
  <2>2. CallsOK'
    BY <2>1, SettleTypes
  <2>3. CASE StoreLogout(t)
    BY <2>1, <2>2, <2>3, StoreLogoutTypes
  <2>4. CASE UNCHANGED <<storage, page, current>>
    BY <2>1, <2>2, <2>4 DEF StorageOK, PagesOK, storage
  <2>5. QED
    BY <1>2, <2>3, <2>4 DEF Reject
<1>3. QED
  BY <1>1, <1>2

(* What the server issues. *)
LEMMA ServerTypes ==
    ASSUME ServerOK, NEW t \in Tab, NEW s \in Slot, MaySucceed(t, s), ServerEffect(t, s)
    PROVE  ServerOK' /\ (s = Login => logins' \in Pair)
<1>1. CASE s = Login
  <2>1. logins < MaxLogins
    BY <1>1, SlotsDiffer DEF MaySucceed, IsRefresh
  <2>2. logins' = logins + 1 /\ unspent' = unspent \cup {logins'}
    BY <1>1 DEF ServerEffect
  <2>3. logins' \in 0..MaxLogins /\ logins' \in Pair
    BY <2>1, <2>2, LoginsAreCounted DEF ServerOK, Pair
  <2>4. QED
    BY <2>2, <2>3 DEF ServerOK, Pair
<1>2. CASE s # Login
  <2>1. logins' = logins /\ unspent' \subseteq unspent
    BY <1>2 DEF ServerEffect
  <2>2. QED
    BY <1>2, <2>1 DEF ServerOK, Pair
<1>3. QED
  BY <1>1, <1>2

-----------------------------------------------------------------------------
(* Every step keeps the types. *)
LEMMA TypeStep ==
    ASSUME TypeOK, [Next]_vars
    PROVE  TypeOK'
<1> SUFFICES StorageOK' /\ PagesOK' /\ CallsOK' /\ ServerOK'
  BY TypeParts DEF TypeOK, StorageOK, PagesOK, CallsOK, ServerOK
<1>0. StorageOK /\ PagesOK /\ CallsOK /\ ServerOK
  BY TypeParts
<1>1. ASSUME NEW t \in Tab, Initialize(t)
      PROVE  StorageOK' /\ PagesOK' /\ CallsOK' /\ ServerOK'
  <2>1. ServerOK'
    BY <1>0, <1>1 DEF Initialize, server, ServerOK
  <2>2. CASE access # None /\ fresh
    <3>1. Start(t, Me, access) /\ UNCHANGED <<storage, pageVars, retried>>
      BY <1>1, <2>2 DEF Initialize
    <3>2. CallsOK'
      BY <1>0, <3>1, StartTypes DEF StorageOK, Slot, Token
    <3>3. QED
      BY <1>0, <2>1, <3>1, <3>2 DEF StorageOK, PagesOK, storage, pageVars
  <2>3. CASE ~(access # None /\ fresh)
    <3>1. StoreLogout(t) /\ UNCHANGED <<isRefreshing, pc, tok, retried>>
      BY <1>1, <2>3 DEF Initialize
    <3>2. QED
      BY <1>0, <2>1, <3>1, StoreLogoutTypes DEF CallsOK
  <2>4. QED
    BY <2>2, <2>3
<1>2. ASSUME NEW t \in Tab, Reload(t)
      PROVE  StorageOK' /\ PagesOK' /\ CallsOK' /\ ServerOK'
  BY <1>0, <1>2, LoadPageTypes DEF Reload, storage, server, StorageOK, ServerOK
<1>3. ASSUME NEW t \in Tab, Tick(t)
      PROVE  StorageOK' /\ PagesOK' /\ CallsOK' /\ ServerOK'
  <2>1. ServerOK'
    BY <1>0, <1>3 DEF Tick, server, ServerOK
  <2>2. CASE refresh = None
    <3>1. StoreLogout(t) /\ UNCHANGED <<isRefreshing, pc, tok, retried>>
      BY <1>3, <2>2 DEF Tick
    <3>2. QED
      BY <1>0, <2>1, <3>1, StoreLogoutTypes DEF CallsOK
  <2>3. CASE refresh # None
    <3>1. PICK h \in HookRun : Start(t, h, refresh) /\ current' = [current EXCEPT ![t] = {h}]
      BY <1>3, <2>3 DEF Tick
    <3>2. UNCHANGED <<storage, page, isRefreshing, retried>>
      BY <1>3, <2>3 DEF Tick
    <3>3. CallsOK'
      BY <1>0, <3>1, <3>2, StartTypes DEF StorageOK, Slot, Token
    <3>4. StorageOK' /\ PagesOK'
      BY <1>0, <3>1, <3>2 DEF StorageOK, PagesOK, storage
    <3>5. QED
      BY <2>1, <3>3, <3>4
  <2>4. QED
    BY <2>2, <2>3
<1>4. ASSUME NEW t \in Tab, SessionTimeout(t)
      PROVE  StorageOK' /\ PagesOK' /\ CallsOK' /\ ServerOK'
  BY <1>0, <1>4, StoreLogoutTypes DEF SessionTimeout, callVars, server, CallsOK, ServerOK
<1>5. ASSUME NEW t \in Tab, NEW s \in Api \cup {Login, Logout}, Request(t, s)
      PROVE  StorageOK' /\ PagesOK' /\ CallsOK' /\ ServerOK'
  <2>1. CallsOK'
    BY <1>0, <1>5, StartTypes DEF Request, StorageOK, Slot, Token
  <2>2. QED
    BY <1>0, <1>5, <2>1
       DEF Request, storage, pageVars, server, StorageOK, PagesOK, ServerOK
<1>6. ASSUME NEW t \in Tab, NEW s \in Slot, OnOk(t, s)
      PROVE  StorageOK' /\ PagesOK' /\ CallsOK' /\ ServerOK'
  <2>1. ServerOK' /\ (s = Login => logins' \in Pair)
    BY <1>0, <1>6, ServerTypes DEF OnOk
  <2>2. CASE s = Refresh
    <3>1. Refreshed(t)
      BY <1>6, <2>2 DEF OnOk
    <3>2. StorageOK' /\ PagesOK'
      BY <1>0, <3>1 DEF Refreshed, StorageOK, PagesOK, Token
    <3>3. CallsOK'
      BY <1>0, <3>1 DEF Refreshed, Resend, CallsOK, Pc, Token
    <3>4. QED
      BY <2>1, <3>2, <3>3
  <2>3. CASE s # Refresh
    <3>1. Settle(t, s) /\ UNCHANGED isRefreshing
      BY <1>6, <2>3 DEF OnOk
    <3>2. CallsOK'
      BY <1>0, <3>1, SettleTypes
    <3>3. CASE s = Me /\ page' = [page EXCEPT ![t] = "in"] /\ UNCHANGED <<storage, current>>
      BY <1>0, <2>1, <3>1, <3>2, <3>3 DEF StorageOK, PagesOK, storage
    <3>4. CASE s \in HookRun /\ HookStores(t, s) /\ UNCHANGED <<page, current>>
      <4>1. tok[t][s] \in Pair
        BY <1>0, <1>6, <3>4, SlotsDiffer DEF OnOk, MaySucceed, IsRefresh, ServerOK
      <4>2. QED
        BY <1>0, <2>1, <3>1, <3>2, <3>4, <4>1 DEF HookStores, StorageOK, PagesOK, Token
    <3>5. CASE /\ s = Login
               /\ access' = Given /\ refresh' = logins' /\ fresh' = TRUE
               /\ page' = [page EXCEPT ![t] = "in"] /\ UNCHANGED current
      BY <1>0, <2>1, <3>1, <3>2, <3>5 DEF StorageOK, PagesOK, Token
    <3>6. CASE StoreLogout(t)
      BY <1>0, <2>1, <3>1, <3>2, <3>6, StoreLogoutTypes
    <3>7. CASE UNCHANGED <<storage, page, current>>
      BY <1>0, <2>1, <3>1, <3>2, <3>7 DEF StorageOK, PagesOK, storage
    <3>8. QED
      BY <1>6, <2>3, <3>3, <3>4, <3>5, <3>6, <3>7 DEF OnOk
  <2>4. QED
    BY <2>2, <2>3
<1>7. ASSUME NEW t \in Tab, NEW s \in Slot, OnFailed(t, s)
      PROVE  StorageOK' /\ PagesOK' /\ CallsOK' /\ ServerOK'
  <2>1. StorageOK' /\ PagesOK' /\ CallsOK'
    BY <1>0, <1>7, RejectTypes DEF OnFailed
  <2>2. ServerOK'
    BY <1>0, <1>7, ServerTypes DEF OnFailed, server, ServerOK
  <2>3. QED
    BY <2>1, <2>2
<1>8. ASSUME NEW t \in Tab, NEW s \in Slot, OnUnauthorized(t, s)
      PROVE  StorageOK' /\ PagesOK' /\ CallsOK' /\ ServerOK'
  <2>1. ServerOK'
    BY <1>0, <1>8 DEF OnUnauthorized, server, ServerOK
  <2>2. CASE Reject(t, s)
    BY <1>0, <2>1, <2>2, RejectTypes
  <2>3. CASE Goto(t, s, "queued") /\ UNCHANGED <<storage, pageVars, tok, retried>>
    BY <1>0, <2>1, <2>3 DEF Goto, storage, pageVars, StorageOK, PagesOK, CallsOK, Pc
  <2>4. CASE Redirect(t)
    BY <1>0, <2>1, <2>4, RedirectTypes
  <2>5. CASE /\ pc' = [pc EXCEPT ![t][s] = "refreshing", ![t][Refresh] = "sent"]
             /\ tok' = [tok EXCEPT ![t][Refresh] = refresh]
             /\ retried' = [retried EXCEPT ![t] = @ \cup {s}]
             /\ isRefreshing' = [isRefreshing EXCEPT ![t] = TRUE]
             /\ UNCHANGED <<storage, page, current>>
    <3>1. StorageOK' /\ PagesOK'
      BY <1>0, <2>5 DEF storage, StorageOK, PagesOK
    <3>2. CallsOK'
      BY <1>0, <2>5 DEF StorageOK, CallsOK, Pc, Token, Slot
    <3>3. QED
      BY <2>1, <3>1, <3>2
  <2>6. QED
    BY <1>8, <2>2, <2>3, <2>4, <2>5 DEF OnUnauthorized
<1>9. CASE ExpireClient
  BY <1>0, <1>9 DEF ExpireClient, pageVars, callVars, server, StorageOK, PagesOK, CallsOK, ServerOK
<1>10. CASE UNCHANGED vars
  BY <1>0, <1>10 DEF vars, storage, pageVars, callVars, server, StorageOK, PagesOK, CallsOK, ServerOK
<1>11. QED
  BY <1>1, <1>2, <1>3, <1>4, <1>5, <1>6, <1>7, <1>8, <1>9, <1>10 DEF Next, CallStep

(* Every variable keeps its type; above all, the stored refresh token is   *)
(* one the server gave, whatever a refresh answers.                        *)
THEOREM TypeCorrect == Spec => []TypeOK
<1>1. Init => TypeOK
  <2> SUFFICES ASSUME Init PROVE TypeOK
    OBVIOUS
  <2>1. StorageOK /\ ServerOK
    <3>1. CASE access = None /\ refresh = None /\ fresh = FALSE /\ logins = 0 /\ unspent = {}
      <4>1. StorageOK /\ unspent \subseteq Pair
        BY <3>1 DEF StorageOK, Token
      <4>2. logins \in 0..MaxLogins
        BY <3>1, LoginsAreCounted
      <4>3. QED
        BY <4>1, <4>2 DEF ServerOK
    <3>2. CASE /\ 1 \in Pair /\ access = Given /\ refresh = 1 /\ fresh \in BOOLEAN
               /\ logins = 1 /\ unspent = {1}
      <4>1. StorageOK /\ unspent \subseteq Pair
        BY <3>2 DEF StorageOK, Token
      <4>2. logins \in 0..MaxLogins
        BY <3>2, LoginsAreCounted DEF Pair
      <4>3. QED
        BY <4>1, <4>2 DEF ServerOK
    <3>3. QED
      BY <3>1, <3>2 DEF Init
  <2>2. PagesOK /\ CallsOK
    BY DEF Init, PagesOK, CallsOK, Pc, Token
  <2>3. QED
    BY <2>1, <2>2, TypeParts
<1>2. TypeOK /\ [Next]_vars => TypeOK'
  BY TypeStep
<1>3. QED
  BY <1>1, <1>2, PTL DEF Spec

-----------------------------------------------------------------------------
(* On page t the flag, the refresh call and the call that began it belong  *)
(* together; the refresh call itself never awaits a refresh it began, for  *)
(* it finds isRefreshing set.                                              *)
PageQueue(t) ==
    /\ isRefreshing[t] <=> pc[t][Refresh] # "idle"
    /\ isRefreshing[t] <=> \E s \in Slot : pc[t][s] = "refreshing"
    /\ \A r, s \in Slot : pc[t][r] = "refreshing" /\ pc[t][s] = "refreshing" => r = s
    /\ InQueue(t) # {} => isRefreshing[t]
    /\ pc[t][Refresh] # "refreshing"

QueueInv == \A t \in Tab : PageQueue(t)

(* A page whose flag and calls stay as they are keeps the relation. *)
LEMMA QueueUnchanged ==
    ASSUME NEW q \in Tab, PageQueue(q), pc'[q] = pc[q], isRefreshing'[q] = isRefreshing[q]
    PROVE  PageQueue(q)'
BY DEF PageQueue, InQueue

(* So does one on which one call goes from idle or sent to idle or sent,   *)
(* or into the queue while the page refreshes.                             *)
LEMMA QueueOneCall ==
    ASSUME CallsOK, NEW q \in Tab, PageQueue(q), NEW s \in Slot, NEW step \in Pc,
           pc[q][s] \in {"idle", "sent"}, isRefreshing'[q] = isRefreshing[q],
           Goto(q, s, step),
           step = "queued" => isRefreshing[q],
           s = Refresh => step = "queued",
           step # "refreshing"
    PROVE  PageQueue(q)'
<1> DEFINE now == [pc[q] EXCEPT ![s] = step]
<1>1. pc'[q] = now /\ pc[q] \in [Slot -> Pc] /\ Refresh \in Slot
  BY DEF Goto, CallsOK, Slot
<1>2. \A r \in Slot : now[r] = "refreshing" <=> pc[q][r] = "refreshing"
  BY <1>1
<1>3. now[Refresh] = "idle" <=> pc[q][Refresh] = "idle"
  BY <1>1, <1>2 DEF PageQueue
<1>4. (\E r \in Slot : now[r] = "queued") => isRefreshing[q]
  BY <1>1 DEF PageQueue, InQueue
<1>5. QED
  BY <1>1, <1>2, <1>3, <1>4 DEF PageQueue, InQueue

(* A page that is loaded has nothing queued. *)
LEMMA QueueLoaded ==
    ASSUME PagesOK, CallsOK, NEW q \in Tab, LoadPage(q)
    PROVE  PageQueue(q)'
<1>1. ~isRefreshing'[q] /\ pc'[q] = [s \in Slot |-> "idle"] /\ Refresh \in Slot
  BY DEF LoadPage, PagesOK, CallsOK, Slot
<1>2. QED
  BY <1>1 DEF PageQueue, InQueue

(* A rejected call leaves the queue alone, or ends the page. *)
LEMMA QueueReject ==
    ASSUME PagesOK, CallsOK, NEW q \in Tab, PageQueue(q), NEW s \in Slot,
           pc[q][s] = "sent", Reject(q, s)
    PROVE  PageQueue(q)'
<1>1. CASE s = Refresh
  BY <1>1, QueueLoaded DEF Reject, Redirect
<1>2. CASE s # Refresh
  <2>1. Goto(q, s, "idle") /\ isRefreshing' = isRefreshing
    BY <1>2 DEF Reject, Settle
  <2>2. QED
    BY <1>2, <2>1, QueueOneCall DEF Pc
<1>3. QED
  BY <1>1, <1>2

(* Other pages keep their calls and their flag. *)
LEMMA OtherPages ==
    ASSUME TypeOK, NEW t \in Tab, NEW q \in Tab, q # t,
           \/ Initialize(t) \/ Reload(t) \/ Tick(t) \/ SessionTimeout(t)
           \/ \E s \in Slot : Request(t, s) \/ CallStep(t, s)
    PROVE  pc'[q] = pc[q] /\ isRefreshing'[q] = isRefreshing[q]
<1> USE DEF storage, pageVars, callVars, TypeOK
<1>1. CASE Initialize(t) \/ Reload(t) \/ SessionTimeout(t)
  BY <1>1 DEF Initialize, Reload, SessionTimeout, LoadPage, Start, Goto
<1>2. CASE Tick(t)
  BY <1>2 DEF Tick, Start, Goto
<1>3. ASSUME NEW s \in Slot, Request(t, s)
      PROVE  pc'[q] = pc[q] /\ isRefreshing'[q] = isRefreshing[q]
  BY <1>3 DEF Request, Start, Goto
<1>4. ASSUME NEW s \in Slot, OnOk(t, s)
      PROVE  pc'[q] = pc[q] /\ isRefreshing'[q] = isRefreshing[q]
  BY <1>4 DEF OnOk, Refreshed, Resend, Settle, Goto
<1>5. ASSUME NEW s \in Slot, Reject(t, s)
      PROVE  pc'[q] = pc[q] /\ isRefreshing'[q] = isRefreshing[q]
  BY <1>5 DEF Reject, Redirect, LoadPage, Settle, Goto
<1>6. ASSUME NEW s \in Slot, OnUnauthorized(t, s)
      PROVE  pc'[q] = pc[q] /\ isRefreshing'[q] = isRefreshing[q]
  BY <1>5, <1>6 DEF OnUnauthorized, Redirect, LoadPage, Goto
<1>7. QED
  BY <1>1, <1>2, <1>3, <1>4, <1>5, <1>6 DEF CallStep, OnFailed

(* Every step keeps the relation on every page. *)
LEMMA QueueStep ==
    ASSUME TypeOK, QueueInv, [Next]_vars
    PROVE  QueueInv'
<1> SUFFICES ASSUME NEW q \in Tab
             PROVE  PageQueue(q)'
  BY DEF QueueInv
<1>0. PageQueue(q) /\ PagesOK /\ CallsOK
  BY TypeParts DEF QueueInv
<1>1. CASE Initialize(q)
  BY <1>0, <1>1, QueueUnchanged, QueueOneCall, SlotsDiffer
     DEF Initialize, Start, Slot, Pc, pageVars
<1>2. CASE Reload(q)
  BY <1>0, <1>2, QueueLoaded DEF Reload
<1>3. CASE Tick(q)
  BY <1>0, <1>3, QueueUnchanged, QueueOneCall, SlotsDiffer DEF Tick, Start, Slot, Pc
<1>4. CASE SessionTimeout(q)
  BY <1>0, <1>4, QueueUnchanged DEF SessionTimeout, callVars
<1>5. ASSUME NEW s \in Api \cup {Login, Logout}, Request(q, s)
      PROVE  PageQueue(q)'
  BY <1>0, <1>5, QueueOneCall, SlotsDiffer DEF Request, Start, Slot, Pc, pageVars
<1>6. ASSUME NEW s \in Slot, OnOk(q, s)
      PROVE  PageQueue(q)'
  <2>1. CASE s = Refresh
    <3>1. Refreshed(q) /\ pc[q][Refresh] = "sent" /\ Refresh \in Slot
      BY <1>6, <2>1 DEF OnOk, Slot
    <3>2. ~isRefreshing'[q]
      BY <1>0, <3>1 DEF Refreshed, PagesOK
    <3>3. \A r \in Slot : pc'[q][r] \in {"idle", "sent"}
      BY <1>0, <3>1 DEF Refreshed, Resend, InQueue, CallsOK, Pc
    <3>4. pc'[q][Refresh] = "idle"
      BY <1>0, <3>1 DEF Refreshed, Resend, InQueue, CallsOK
    <3>5. QED
      BY <3>2, <3>3, <3>4 DEF PageQueue, InQueue
  <2>2. CASE s # Refresh
    <3>1. Goto(q, s, "idle") /\ isRefreshing' = isRefreshing /\ pc[q][s] = "sent"
      BY <1>6, <2>2 DEF OnOk, Settle
    <3>2. QED
      BY <1>0, <2>2, <3>1, QueueOneCall DEF Pc
  <2>3. QED
    BY <2>1, <2>2
<1>7. ASSUME NEW s \in Slot, OnFailed(q, s)
      PROVE  PageQueue(q)'
  BY <1>0, <1>7, QueueReject DEF OnFailed
<1>8. ASSUME NEW s \in Slot, OnUnauthorized(q, s)
      PROVE  PageQueue(q)'
  <2>0. pc[q][s] = "sent"
    BY <1>8 DEF OnUnauthorized
  <2>1. CASE Reject(q, s)
    BY <1>0, <2>0, <2>1, QueueReject
  <2>2. CASE isRefreshing[q] /\ Goto(q, s, "queued") /\ UNCHANGED pageVars
    BY <1>0, <2>0, <2>2, QueueOneCall DEF Pc, pageVars
  <2>3. CASE Redirect(q)
    BY <1>0, <2>3, QueueLoaded DEF Redirect
  <2>4. CASE /\ ~isRefreshing[q]
             /\ pc' = [pc EXCEPT ![q][s] = "refreshing", ![q][Refresh] = "sent"]
             /\ isRefreshing' = [isRefreshing EXCEPT ![q] = TRUE]
    <3>1. pc[q][Refresh] = "idle" /\ \A r \in Slot : pc[q][r] # "refreshing"
      BY <1>0, <2>4 DEF PageQueue
    <3>2. s # Refresh /\ Refresh \in Slot
      BY <2>0, <3>1 DEF Slot
    <3>3. isRefreshing'[q] /\ pc'[q][Refresh] = "sent" /\ pc'[q][s] = "refreshing"
      BY <1>0, <2>4, <3>2 DEF PagesOK, CallsOK
    <3>4. \A r \in Slot \ {s} : pc'[q][r] # "refreshing"
      BY <1>0, <2>4, <3>1, <3>2 DEF CallsOK
    <3>5. QED
      BY <3>2, <3>3, <3>4 DEF PageQueue, InQueue
  <2>5. QED
    BY <1>8, <2>1, <2>2, <2>3, <2>4 DEF OnUnauthorized
<1>9. ASSUME NEW t \in Tab, t # q,
             \/ Initialize(t) \/ Reload(t) \/ Tick(t) \/ SessionTimeout(t)
             \/ \E s \in Slot : Request(t, s) \/ CallStep(t, s)
      PROVE  PageQueue(q)'
  BY <1>0, <1>9, OtherPages, QueueUnchanged
<1>10. CASE ExpireClient \/ UNCHANGED vars
  BY <1>0, <1>10, QueueUnchanged DEF ExpireClient, vars, pageVars, callVars
<1>11. QED
  BY <1>1, <1>2, <1>3, <1>4, <1>5, <1>6, <1>7, <1>8, <1>9, <1>10 DEF Next, CallStep, Slot

(* The flag is set exactly while a refresh is under way for one call that  *)
(* awaits it, and nothing is queued behind a refresh that is over.         *)
THEOREM QueueWaitsForARefresh == Spec => []WaitersHaveARefresh
<1>1. Init => QueueInv
  BY SlotsDiffer DEF Init, QueueInv, PageQueue, InQueue, Slot
<1>2. TypeOK /\ QueueInv /\ [Next]_vars => QueueInv'
  BY QueueStep
<1>3. QueueInv => WaitersHaveARefresh
  BY DEF QueueInv, PageQueue, WaitersHaveARefresh
<1>4. QED
  BY <1>1, <1>2, <1>3, TypeCorrect, PTL DEF Spec

-----------------------------------------------------------------------------
(* A refresh token that is stored or carried by a call is of a login that  *)
(* was made, so what a later login issues is not one of them.              *)
PastTokens ==
    /\ refresh \in Pair => refresh <= logins
    /\ \A t \in Tab, s \in Slot : tok[t][s] \in Pair => tok[t][s] <= logins

(* None of the special values is a refresh token. *)
LEMMA SpecialValues ==
    /\ Pair \subseteq Nat
    /\ None \notin Pair /\ Given \notin Pair /\ Undefined \notin Pair
    /\ Given \notin {None, Undefined}
BY LoginsAreCounted DEF Pair

(* What a call that ends leaves to the others. *)
LEMMA CarriedTokens ==
    ASSUME TypeOK, PastTokens, logins' \in Nat, logins <= logins',
           NEW t \in Tab, NEW s \in Slot, NEW q \in Tab, NEW r \in Slot,
           tok'[q][r] \in Pair,
           \/ UNCHANGED tok
           \/ LoadPage(t)
           \/ Settle(t, s)
           \/ \E S \in SUBSET Slot : Resend(t, S, Undefined)
           \/ \E token \in Token \ Pair : Start(t, s, token)
           \/ tok' = [tok EXCEPT ![t][s] = refresh]
    PROVE  tok'[q][r] <= logins'
<1>1. tok'[q][r] \in {None, Undefined, Given, tok[q][r], refresh}
  BY DEF LoadPage, Settle, Resend, Start, Token, TypeOK
<1>2. tok'[q][r] = tok[q][r] \/ tok'[q][r] = refresh
  BY <1>1, SpecialValues
<1>3. tok'[q][r] <= logins /\ tok'[q][r] \in Nat /\ logins \in Nat
  <2>1. logins \in Nat /\ (tok[q][r] \in Pair => tok[q][r] <= logins)
    BY LoginsAreCounted DEF PastTokens, TypeOK
  <2>2. refresh \in Pair => refresh <= logins
    BY DEF PastTokens
  <2>3. tok'[q][r] \in Nat
    BY SpecialValues
  <2>4. QED
    BY <1>2, <2>1, <2>2, <2>3
<1>4. QED
  BY <1>3

(* Every step leaves only tokens of logins that were made. *)
LEMMA PastStep ==
    ASSUME TypeOK, PastTokens, [Next]_vars
    PROVE  PastTokens'
<1> DEFINE Kept(q, r) == tok'[q][r] \in Pair => tok'[q][r] <= logins'
           KeptAll == \A q \in Tab, r \in Slot : Kept(q, r)
<1>a. logins \in Nat
  BY LoginsAreCounted DEF TypeOK
<1>b. access \in Token \ Pair /\ None \in Token \ Pair /\ Refresh \in Slot /\ Me \in Slot
  BY SpecialValues DEF TypeOK, Token, Slot
<1>c. refresh \in Pair => refresh \in Nat /\ refresh <= logins
  BY SpecialValues DEF PastTokens
<1>0. logins <= logins /\ refresh \in Pair \cup {None}
  BY <1>a DEF TypeOK
<1>1. ASSUME refresh' \in {refresh, None}, logins' = logins
      PROVE  refresh' \in Pair => refresh' <= logins'
  <2>1. CASE refresh' = refresh
    BY <1>1, <1>c, <2>1
  <2>2. CASE refresh' = None
    BY <2>2, SpecialValues
  <2>3. QED
    BY <1>1, <2>1, <2>2
<1>2. ASSUME NEW t \in Tab, Initialize(t)
      PROVE  PastTokens'
  <2>1. KeptAll
    BY <1>0, <1>a, <1>b, <1>c, <1>2, CarriedTokens DEF Initialize, server, Slot
  <2>2. QED
    BY <1>1, <1>2, <2>1 DEF Initialize, StoreLogout, ClearTokens, storage, server, PastTokens, Pair
<1>3. ASSUME NEW t \in Tab, Reload(t)
      PROVE  PastTokens'
  <2>1. KeptAll
    BY <1>0, <1>a, <1>b, <1>c, <1>3, CarriedTokens DEF Reload, server, Slot
  <2>2. QED
    BY <1>1, <1>3, <2>1 DEF Reload, storage, server, PastTokens, Pair
<1>4. ASSUME NEW t \in Tab, Tick(t)
      PROVE  PastTokens'
  <2>1. KeptAll
    <3>1. CASE refresh = None
      BY <1>0, <1>a, <1>b, <1>c, <1>4, <3>1, CarriedTokens DEF Tick, server, Slot
    <3>2. CASE refresh # None
      <4>1. PICK h \in Slot : tok' = [tok EXCEPT ![t][h] = refresh]
        BY <1>4, <3>2 DEF Tick, Start, Slot
      <4>2. QED
        BY <1>0, <1>a, <1>b, <1>c, <1>4, <4>1, CarriedTokens DEF Tick, server
    <3>3. QED
      BY <3>1, <3>2
  <2>2. QED
    BY <1>1, <1>4, <2>1 DEF Tick, StoreLogout, ClearTokens, storage, server, PastTokens, Pair
<1>5. ASSUME NEW t \in Tab, SessionTimeout(t)
      PROVE  PastTokens'
  BY <1>1, <1>5 DEF SessionTimeout, StoreLogout, ClearTokens, callVars, server, PastTokens, Pair
<1>6. ASSUME NEW t \in Tab, NEW s \in Slot, Request(t, s)
      PROVE  PastTokens'
  <2>1. KeptAll
    BY <1>0, <1>a, <1>b, <1>c, <1>6, CarriedTokens DEF Request, server
  <2>2. QED
    BY <1>1, <1>6, <2>1 DEF Request, storage, server, PastTokens, Pair
<1>7. ASSUME NEW t \in Tab, NEW s \in Slot, MaySucceed(t, s), ServerEffect(t, s)
      PROVE  logins' \in Nat /\ logins <= logins'
  BY <1>0, <1>a, <1>b, <1>c, <1>7 DEF ServerEffect
<1>8. ASSUME NEW t \in Tab, NEW s \in Slot, OnOk(t, s)
      PROVE  PastTokens'
  <2>1. logins' \in Nat /\ logins <= logins'
    BY <1>7, <1>8 DEF OnOk
  <2>2. Settle(t, s) \/ (s = Refresh /\ Refreshed(t))
    BY <1>8 DEF OnOk
  <2>3. KeptAll
    <3>1. CASE Settle(t, s)
      BY <2>1, <3>1, CarriedTokens
    <3>2. CASE Refreshed(t)
      <4>1. \E S \in SUBSET Slot : Resend(t, S, Undefined)
        BY <3>2 DEF Refreshed, InQueue
      <4>2. QED
        BY <1>8, <2>1, <4>1, CarriedTokens
    <3>3. QED
      BY <2>2, <3>1, <3>2
  <2>4. refresh' \in {refresh, None} \/ (s = Login /\ refresh' = logins') \/ refresh' = tok[t][s]
    BY <1>8 DEF OnOk, Refreshed, HookStores, StoreLogout, ClearTokens, storage
  <2>5. refresh' \in Pair => refresh' <= logins'
    BY <1>0, <1>a, <1>b, <1>c, <2>1, <2>4, SpecialValues DEF PastTokens, Pair
  <2>6. QED
    BY <2>3, <2>5 DEF PastTokens, Pair
<1>9. ASSUME NEW t \in Tab, NEW s \in Slot, Reject(t, s), logins' \in Nat, logins <= logins'
      PROVE  PastTokens'
  <2>1. Settle(t, s) \/ LoadPage(t)
    BY <1>9 DEF Reject, Redirect
  <2>2. KeptAll
    BY <1>9, <2>1, CarriedTokens
  <2>3. refresh' \in {refresh, None}
    BY <1>9 DEF Reject, Redirect, StoreLogout, ClearTokens, storage
  <2>4. refresh' \in Pair => refresh' <= logins'
    BY <1>a, <1>c, <1>9, <2>3, SpecialValues
  <2>5. QED
    BY <2>2, <2>4 DEF PastTokens, Pair
<1>10. ASSUME NEW t \in Tab, NEW s \in Slot, OnFailed(t, s)
       PROVE  PastTokens'
  BY <1>0, <1>a, <1>b, <1>c, <1>7, <1>9, <1>10 DEF OnFailed, server
<1>11. ASSUME NEW t \in Tab, NEW s \in Slot, OnUnauthorized(t, s)
       PROVE  PastTokens'
  <2>0. logins' = logins /\ logins' \in Nat /\ logins <= logins' /\ Refresh \in Slot
    BY <1>0, <1>a, <1>b, <1>c, <1>11 DEF OnUnauthorized, server, Slot
  <2>1. CASE Reject(t, s)
    BY <1>9, <2>0, <2>1
  <2>2. CASE UNCHANGED storage /\ (UNCHANGED tok \/ tok' = [tok EXCEPT ![t][Refresh] = refresh])
    <3>1. KeptAll
      BY <2>0, <2>2, CarriedTokens
    <3>2. QED
      BY <1>1, <2>0, <2>2, <3>1 DEF storage, PastTokens, Pair
  <2>3. CASE Redirect(t)
    <3>1. KeptAll
      BY <1>11, <2>0, <2>3, CarriedTokens DEF Redirect
    <3>2. QED
      BY <1>1, <2>0, <2>3, <3>1 DEF Redirect, ClearTokens, PastTokens, Pair
  <2>4. QED
    BY <1>11, <2>1, <2>2, <2>3 DEF OnUnauthorized, storage
<1>12. CASE ExpireClient \/ UNCHANGED vars
  BY <1>1, <1>12 DEF ExpireClient, vars, storage, callVars, server, PastTokens, Pair
<1>13. QED
  BY <1>2, <1>3, <1>4, <1>5, <1>6, <1>8, <1>10, <1>11, <1>12 DEF Next, CallStep, Slot

(* When all pages are signed out, localStorage holds no access token the   *)
(* server gave and no refresh token it would still take: a late answer can *)
(* only bring back a refresh token that it has just used up.               *)
THEOREM NoTokenWithoutAPage == Spec => []NoLiveTokenWithoutAPage
<1> DEFINE Dead == access # Given /\ refresh \notin unspent
           Good == PastTokens /\ NoLiveTokenWithoutAPage
<1>1. Init => Good
  BY PagesAreOpen, SpecialValues DEF Init, PastTokens, NoLiveTokenWithoutAPage
<1>2. TypeOK /\ Good /\ [Next]_vars => Good'
  <2> SUFFICES ASSUME TypeOK, Good, [Next]_vars
               PROVE  NoLiveTokenWithoutAPage'
    BY PastStep
  <2>0. /\ PagesOK /\ unspent \subseteq Pair /\ logins \in Nat
        /\ refresh \in Pair \cup {None}
    BY LoginsAreCounted, TypeParts DEF TypeOK
  <2>1. ASSUME ClearTokens, unspent' \subseteq Pair
        PROVE  NoLiveTokenWithoutAPage'
    BY <2>1, SpecialValues DEF ClearTokens, NoLiveTokenWithoutAPage
  <2>2. ASSUME NEW t \in Tab, page' = [page EXCEPT ![t] = "in"] \/ page' = [page EXCEPT ![t] = "loading"]
        PROVE  NoLiveTokenWithoutAPage'
    BY <2>0, <2>2 DEF NoLiveTokenWithoutAPage, PagesOK
  <2>3. ASSUME UNCHANGED <<refresh, page>>, access' \in {access, Undefined},
               unspent' \subseteq unspent \cup {logins + 1}
        PROVE  NoLiveTokenWithoutAPage'
    <3>1. refresh # logins + 1
      <4>1. CASE refresh = logins + 1
        <5>1. refresh \in Nat
          BY <2>0, <4>1
        <5>2. refresh \in Pair
          BY <2>0, <5>1, LoginsAreCounted
        <5>3. QED
          BY <2>0, <4>1, <5>2 DEF PastTokens
      <4>2. QED
        BY <4>1
    <3>2. QED
      BY <2>3, <3>1, SpecialValues DEF NoLiveTokenWithoutAPage
  <2>4. TypeOK'
    BY TypeStep
  <2>5. unspent' \subseteq Pair
    BY <2>4 DEF TypeOK, Pair
  <2>6. CASE UNCHANGED <<access, refresh, page, unspent>>
    BY <2>3, <2>6
  <2>7. ASSUME NEW t \in Tab, Initialize(t) \/ Tick(t) \/ SessionTimeout(t)
        PROVE  NoLiveTokenWithoutAPage'
    BY <2>1, <2>5, <2>6, <2>7
       DEF Initialize, Tick, SessionTimeout, StoreLogout, storage, pageVars, server
  <2>8. ASSUME NEW t \in Tab, Reload(t)
        PROVE  NoLiveTokenWithoutAPage'
    BY <2>2, <2>8 DEF Reload, LoadPage
  <2>9. ASSUME NEW t \in Tab, NEW s \in Api \cup {Login, Logout}, Request(t, s)
        PROVE  NoLiveTokenWithoutAPage'
    BY <2>6, <2>9 DEF Request, storage, pageVars, server
  <2>10. ASSUME NEW t \in Tab, NEW s \in Slot, ServerEffect(t, s)
         PROVE  unspent' \subseteq unspent \cup {logins + 1}
    BY <2>10 DEF ServerEffect
  <2>11. ASSUME NEW t \in Tab, NEW s \in Slot, OnOk(t, s)
         PROVE  NoLiveTokenWithoutAPage'
    <3>1. CASE access' = Undefined /\ UNCHANGED <<refresh, page>>
      BY <2>3, <2>10, <2>11, <3>1 DEF OnOk
    <3>2. CASE s \in HookRun /\ HookStores(t, s)
      <4>1. unspent' = unspent \ {tok[t][s]}
        BY <2>11, <3>2, SlotsDiffer DEF OnOk, ServerEffect, IsRefresh
      <4>2. QED
        BY <3>2, <4>1, SpecialValues DEF HookStores, NoLiveTokenWithoutAPage
    <3>3. CASE page' = [page EXCEPT ![t] = "in"]
      BY <2>2, <3>3
    <3>4. CASE StoreLogout(t)
      BY <2>1, <2>5, <3>4 DEF StoreLogout
    <3>5. CASE UNCHANGED <<storage, page>>
      BY <2>3, <2>10, <2>11, <3>5 DEF OnOk, storage
    <3>6. QED
      BY <2>11, <3>1, <3>2, <3>3, <3>4, <3>5 DEF OnOk, Refreshed
  <2>12. ASSUME NEW t \in Tab, NEW s \in Slot, Reject(t, s),
                unspent' \subseteq unspent \cup {logins + 1}
         PROVE  NoLiveTokenWithoutAPage'
    BY <2>1, <2>3, <2>5, <2>12 DEF Reject, Redirect, StoreLogout, storage
  <2>13. ASSUME NEW t \in Tab, NEW s \in Slot, OnFailed(t, s)
         PROVE  NoLiveTokenWithoutAPage'
    BY <2>10, <2>12, <2>13 DEF OnFailed, server
  <2>14. ASSUME NEW t \in Tab, NEW s \in Slot, OnUnauthorized(t, s)
         PROVE  NoLiveTokenWithoutAPage'
    BY <2>1, <2>5, <2>6, <2>12, <2>14 DEF OnUnauthorized, Redirect, storage, pageVars, server
  <2>15. CASE ExpireClient \/ UNCHANGED vars
    BY <2>6, <2>15 DEF ExpireClient, vars, storage, pageVars, server
  <2>16. QED
    BY <2>7, <2>8, <2>9, <2>11, <2>13, <2>14, <2>15 DEF Next, CallStep
<1>3. QED
  BY <1>1, <1>2, TypeCorrect, PTL DEF Spec

=============================================================================
