----------------------------- MODULE WebSession -----------------------------
(***************************************************************************)
(* The signed-in browser: every call of the web client goes through one    *)
(* axios instance per page, whose response interceptor refreshes the       *)
(* access token on a 401 and queues the calls that fail meanwhile;         *)
(* useTokenRefresh refreshes it on a timer; useAuthStore, AuthProvider and *)
(* useSessionTimeout sign the page in and out.  The pages (tabs) of one    *)
(* browser share the tokens in localStorage, and the server rotates the    *)
(* refresh token at each refresh.                                          *)
(*                                                                         *)
(* Grain: a page is one JavaScript thread, so a callback runs to its next  *)
(* await; pages and answers interleave everywhere else.  An answer is      *)
(* given and arrives in one step: the server may refuse any token at any   *)
(* time, for tokens expire and sessions end, so when it did so makes no    *)
(* difference.  It takes a refresh token once (AuthSession has its session *)
(* keys and their races).  Setting location.href ends the page and the     *)
(* calls it waits for at once.                                             *)
(*                                                                         *)
(* The server names the fields of its answer access_token and              *)
(* refresh_token and sends no lifetime; the client reads accessToken and   *)
(* expiresIn.  So a refresh stores the text "undefined" as access token    *)
(* and an expiry that is not a number, and never the new refresh token.    *)
(***************************************************************************)
EXTENDS FiniteSets, Naturals

CONSTANTS
    Tab,               \* the open pages of the application
    Api,               \* other calls one page makes at a time (a bound)
    HookRun,           \* runs of the timer's refresh at a time (a bound)
    Me, Login, Logout, \* AuthProvider's call, POST /auth/login and /logout
    Refresh,           \* the interceptor's refresh
    None,              \* no token
    Given,             \* an access token the server gave
    Undefined,         \* the text "undefined"
    MaxLogins,         \* logins, one refresh token each (a bound)
    MaxCalls           \* calls under way when a user begins one (a bound)

Slot == Api \cup HookRun \cup {Me, Login, Logout, Refresh}

ASSUME SlotsDiffer ==
    /\ Api \cap HookRun = {}
    /\ {Me, Login, Logout, Refresh} \cap (Api \cup HookRun) = {}
    /\ Refresh \notin {Me, Login, Logout} /\ Me \notin {Login, Logout} /\ Login # Logout
ASSUME PagesAreOpen == Tab # {}
ASSUME LoginsAreCounted ==
    /\ MaxLogins \in Nat /\ MaxCalls \in Nat
    /\ {None, Given, Undefined} \cap Nat = {}
    /\ None # Undefined /\ Given \notin {None, Undefined}

VARIABLES
    access,            \* localStorage access_token
    refresh,           \* localStorage refresh_token, by the login it is of
    fresh,             \* localStorage token_expiry is over a minute away
    page,              \* page[t]: AuthProvider loading, signed in or out
    isRefreshing,      \* isRefreshing[t]: the interceptor's flag
    current,           \* current[t]: runs of the hook that is mounted
    pc,                \* pc[t][s]: where call s of page t stands
    tok,               \* tok[t][s]: the token call s carries
    retried,           \* retried[t]: calls whose config has _retry
    logins,            \* logins so far
    unspent            \* logins whose refresh token was not used

storage  == <<access, refresh, fresh>>
pageVars == <<page, isRefreshing, current>>
callVars == <<pc, tok, retried>>
server   == <<logins, unspent>>
vars     == <<storage, pageVars, callVars, server>>

Pair  == 1..MaxLogins
Token == Pair \cup {None, Given, Undefined}

(* A call is on its way, in failedQueue, or awaiting the refresh it began. *)
Pc == {"idle", "sent", "queued", "refreshing"}

Init ==
    /\ page = [t \in Tab |-> "loading"]
    /\ isRefreshing = [t \in Tab |-> FALSE]
    /\ current = [t \in Tab |-> {}]
    /\ pc = [t \in Tab |-> [s \in Slot |-> "idle"]]
    /\ tok = [t \in Tab |-> [s \in Slot |-> None]]
    /\ retried = [t \in Tab |-> {}]
    /\ \/ access = None /\ refresh = None /\ fresh = FALSE /\ logins = 0 /\ unspent = {}
       \/ /\ 1 \in Pair                              \* an earlier visit
          /\ access = Given /\ refresh = 1 /\ fresh \in BOOLEAN /\ logins = 1 /\ unspent = {1}

-----------------------------------------------------------------------------
(* Tokens and pages. *)

ClearTokens == access' = None /\ refresh' = None /\ fresh' = FALSE

(* Mutant: the store forgets the user and leaves the tokens. *)
StoreLogoutKeepsTokens(t) ==
    /\ UNCHANGED storage
    /\ page' = [page EXCEPT ![t] = "out"]
    /\ current' = [current EXCEPT ![t] = {}]

(* useAuthStore.logout: the tokens go, and ProtectedRoute leaves for the   *)
(* login page, which unmounts the refresh hook.                            *)
StoreLogout(t) ==
    /\ ClearTokens
    /\ page' = [page EXCEPT ![t] = "out"]
    /\ current' = [current EXCEPT ![t] = {}]

(* The page is loaded anew: nothing of its JavaScript state survives.      *)
LoadPage(t) ==
    /\ page' = [page EXCEPT ![t] = "loading"]
    /\ isRefreshing' = [isRefreshing EXCEPT ![t] = FALSE]
    /\ current' = [current EXCEPT ![t] = {}]
    /\ pc' = [pc EXCEPT ![t] = [s \in Slot |-> "idle"]]
    /\ tok' = [tok EXCEPT ![t] = [s \in Slot |-> None]]
    /\ retried' = [retried EXCEPT ![t] = {}]

(* clearTokens and window.location.href = '/login'. *)
Redirect(t) == ClearTokens /\ LoadPage(t)

Goto(t, s, step) == pc' = [pc EXCEPT ![t][s] = step]

(* The promise of call s is settled. *)
Settle(t, s) ==
    /\ Goto(t, s, "idle")
    /\ tok' = [tok EXCEPT ![t][s] = None]
    /\ retried' = [retried EXCEPT ![t] = @ \ {s}]

(* A call of the page leaves, through the request interceptor. *)
Start(t, s, token) ==
    /\ pc[t][s] = "idle"
    /\ Goto(t, s, "sent")
    /\ tok' = [tok EXCEPT ![t][s] = token]

-----------------------------------------------------------------------------
(* What users, timers and components start. *)

(* A signed-in page calls the API or POST /auth/logout; the login page     *)
(* calls POST /auth/login.                                                 *)
Request(t, s) ==
    /\ page[t] = (IF s = Login THEN "out" ELSE "in")
    /\ Cardinality({c \in Tab \X Slot : pc[c[1]][c[2]] # "idle"}) <= MaxCalls
    /\ Start(t, s, access)
    /\ UNCHANGED <<storage, pageVars, retried, server>>

(* AuthProvider's effect: without a token that looks valid the user is     *)
(* signed out, with one GET /auth/me decides.                              *)
Initialize(t) ==
    /\ page[t] = "loading" /\ pc[t][Me] = "idle"
    /\ IF access # None /\ fresh
       THEN /\ Start(t, Me, access)
            /\ UNCHANGED <<storage, pageVars>>
       ELSE /\ StoreLogout(t)
            /\ UNCHANGED <<isRefreshing, pc, tok>>
    /\ UNCHANGED <<retried, server>>

(* The user reloads the page. *)
Reload(t) ==
    /\ LoadPage(t)
    /\ UNCHANGED <<storage, server>>

(* Mutant: without a refresh token the timer does nothing. *)
TickIgnoresLogout(t) ==
    /\ page[t] = "in" /\ ~fresh /\ refresh # None
    /\ \A h \in current[t] : pc[t][h] = "idle"
    /\ \E h \in HookRun :
         /\ Start(t, h, refresh)
         /\ current' = [current EXCEPT ![t] = {h}]
    /\ UNCHANGED <<storage, page, isRefreshing, retried, server>>

(* useTokenRefresh, when it mounts and each minute: an expired token is    *)
(* refreshed unless isRefreshingRef says that a run is under way.          *)
Tick(t) ==
    /\ page[t] = "in" /\ ~fresh
    /\ \A h \in current[t] : pc[t][h] = "idle"
    /\ IF refresh = None
       THEN /\ StoreLogout(t)
            /\ UNCHANGED <<isRefreshing, pc, tok>>
       ELSE /\ \E h \in HookRun :
                 /\ Start(t, h, refresh)
                 /\ current' = [current EXCEPT ![t] = {h}]
            /\ UNCHANGED <<storage, page, isRefreshing>>
    /\ UNCHANGED <<retried, server>>

(* useSessionTimeout: half an hour without a key or a click. *)
SessionTimeout(t) ==
    /\ page[t] = "in"
    /\ StoreLogout(t)
    /\ UNCHANGED <<isRefreshing, callVars, server>>

(* The time in token_expiry comes near. *)
ExpireClient ==
    /\ fresh' = FALSE
    /\ UNCHANGED <<access, refresh, pageVars, callVars, server>>

-----------------------------------------------------------------------------
(* What the server may answer. *)

IsRefresh(s) == s \in HookRun \cup {Refresh}

(* A login gives a new pair of tokens, a refresh token is good for one     *)
(* refresh, and other calls need an access token.                          *)
MaySucceed(t, s) ==
    \/ s = Login /\ logins < MaxLogins
    \/ IsRefresh(s) /\ tok[t][s] \in unspent
    \/ s \in Api \cup {Me, Logout} /\ tok[t][s] = Given

ServerEffect(t, s) ==
    /\ logins' = IF s = Login THEN logins + 1 ELSE logins
    /\ unspent' = IF s = Login THEN unspent \cup {logins'}
                  ELSE IF IsRefresh(s) THEN unspent \ {tok[t][s]} ELSE unspent

(* A wrong password, an expired token, a session that ended: 401.  Without *)
(* a token HTTPBearer answers 403.                                         *)
MayBeRefused(t, s) == s \in Api \cup {Me, Logout} => tok[t][s] # None

-----------------------------------------------------------------------------
(* What a page does with an answer. *)

InQueue(t) == {s \in Slot : pc[t][s] = "queued"}

(* A call is sent once more, with the access token that is stored by then; *)
(* the body of a refresh stays what it was.                                *)
Resend(t, S, token) ==
    /\ pc' = [pc EXCEPT ![t] = [s \in Slot |->
                 IF s \in S THEN "sent" ELSE IF s = Refresh THEN "idle" ELSE @[s]]]
    /\ tok' = [tok EXCEPT ![t] = [s \in Slot |->
                 IF s = Refresh THEN None
                 ELSE IF s \in S /\ ~IsRefresh(s) THEN token ELSE @[s]]]
    /\ retried' = [retried EXCEPT ![t] = @ \ {Refresh}]

(* Mutant: only the call that began the refresh is sent again. *)
RefreshedForgetsQueue(t) ==
    /\ access' = Undefined /\ UNCHANGED <<refresh, fresh>>
    /\ Resend(t, {s \in Slot : pc[t][s] = "refreshing"}, access')
    /\ isRefreshing' = [isRefreshing EXCEPT ![t] = FALSE]
    /\ UNCHANGED <<page, current>>

(* The interceptor's refresh succeeded: the queue and the call that began  *)
(* the refresh are sent again.                                             *)
Refreshed(t) ==
    /\ access' = Undefined /\ UNCHANGED <<refresh, fresh>>
    /\ Resend(t, InQueue(t) \cup {s \in Slot : pc[t][s] = "refreshing"}, access')
    /\ isRefreshing' = [isRefreshing EXCEPT ![t] = FALSE]
    /\ UNCHANGED <<page, current>>

(* Mutant: the hook takes the refresh token from the answer too. *)
HookStoresAnswer(t, h) == access' = Undefined /\ refresh' = Undefined /\ fresh' = FALSE

(* The hook stores the refresh token it sent, and an expiry that           *)
(* isTokenExpired takes for none.                                          *)
HookStores(t, h) == access' = Undefined /\ refresh' = tok[t][h] /\ fresh' = FALSE

(* A call succeeded. *)
OnOk(t, s) ==
    /\ pc[t][s] = "sent" /\ MaySucceed(t, s)
    /\ ServerEffect(t, s)
    /\ IF s = Refresh
       THEN Refreshed(t)
       ELSE /\ Settle(t, s)
            /\ UNCHANGED isRefreshing
            /\ \/ /\ s = Me                            \* setAuthenticated(true)
                  /\ page' = [page EXCEPT ![t] = "in"]
                  /\ UNCHANGED <<storage, current>>
               \/ /\ s \in HookRun
                  /\ HookStores(t, s)
                  /\ UNCHANGED <<page, current>>
               \/ /\ s = Login
                  /\ access' = Given /\ refresh' = logins' /\ fresh' = TRUE
                  /\ page' = [page EXCEPT ![t] = "in"]
                  /\ UNCHANGED current
               \/ /\ s = Logout
                  /\ StoreLogout(t)
               \/ /\ s \in Api
                  /\ UNCHANGED <<storage, page, current>>

(* The promise of a call is rejected: the code that awaits it. *)
Reject(t, s) ==
    IF s = Refresh THEN Redirect(t)
    ELSE /\ Settle(t, s)
         /\ UNCHANGED isRefreshing
         /\ IF s \in HookRun \cup {Me, Logout}
            THEN StoreLogout(t)
            ELSE UNCHANGED <<storage, page, current>>

(* 403, a server error, no network, or 30 seconds: the server may have     *)
(* done its part.                                                          *)
OnFailed(t, s) ==
    /\ pc[t][s] = "sent"
    /\ Reject(t, s)
    /\ UNCHANGED server \/ (MaySucceed(t, s) /\ ServerEffect(t, s))

(* Mutant: the flag is set when the refresh is sent off, not before. *)
OnUnauthorizedFlagLate(t, s) ==
    /\ pc[t][s] = "sent" /\ MayBeRefused(t, s) /\ s \notin retried[t]
    /\ pc[t][Refresh] = "idle" /\ refresh # None
    /\ pc' = [pc EXCEPT ![t][s] = "refreshing", ![t][Refresh] = "sent"]
    /\ tok' = [tok EXCEPT ![t][Refresh] = refresh]
    /\ retried' = [retried EXCEPT ![t] = @ \cup {s}]
    /\ UNCHANGED <<storage, pageVars, server>>

(* A 401: a call that was retried is rejected; while the page refreshes,   *)
(* any other is queued, the refresh itself included; the first one begins  *)
(* the refresh, or signs the page out when there is nothing to refresh     *)
(* with.                                                                   *)
OnUnauthorized(t, s) ==
    /\ pc[t][s] = "sent" /\ MayBeRefused(t, s)
    /\ \/ /\ s \in retried[t]
          /\ Reject(t, s)
       \/ /\ s \notin retried[t] /\ isRefreshing[t]
          /\ Goto(t, s, "queued")
          /\ UNCHANGED <<storage, pageVars, tok, retried>>
       \/ /\ s \notin retried[t] /\ ~isRefreshing[t] /\ refresh = None
          /\ Redirect(t)
       \/ /\ s \notin retried[t] /\ ~isRefreshing[t] /\ refresh # None
          /\ pc' = [pc EXCEPT ![t][s] = "refreshing", ![t][Refresh] = "sent"]
          /\ tok' = [tok EXCEPT ![t][Refresh] = refresh]
          /\ retried' = [retried EXCEPT ![t] = @ \cup {s}]
          /\ isRefreshing' = [isRefreshing EXCEPT ![t] = TRUE]
          /\ UNCHANGED <<storage, page, current>>
    /\ UNCHANGED server

-----------------------------------------------------------------------------
(* A call that is on its way is answered, or fails after 30 seconds. *)
CallStep(t, s) == OnOk(t, s) \/ OnFailed(t, s) \/ OnUnauthorized(t, s)

Next ==
    \/ \E t \in Tab :
         \/ Initialize(t) \/ Reload(t) \/ Tick(t) \/ SessionTimeout(t)
         \/ \E s \in Api \cup {Login, Logout} : Request(t, s)
         \/ \E s \in Slot : CallStep(t, s)
    \/ ExpireClient

Spec == Init /\ [][Next]_vars

(* axios gives up after 30 seconds, the hook's interval fires each minute, *)
(* and React runs the effects of what it mounts.                           *)
FairSpec ==
    /\ Spec
    /\ \A t \in Tab :
         /\ WF_vars(Initialize(t)) /\ WF_vars(Tick(t))
         /\ \A s \in Slot : WF_vars(CallStep(t, s))

-----------------------------------------------------------------------------
(* Every variable keeps its type. *)
TypeOK ==
    /\ access \in {None, Given, Undefined}
    /\ refresh \in Pair \cup {None}
    /\ fresh \in BOOLEAN
    /\ page \in [Tab -> {"loading", "in", "out"}]
    /\ isRefreshing \in [Tab -> BOOLEAN]
    /\ current \in [Tab -> SUBSET HookRun]
    /\ pc \in [Tab -> [Slot -> Pc]]
    /\ tok \in [Tab -> [Slot -> Token]]
    /\ retried \in [Tab -> SUBSET Slot]
    /\ logins \in 0..MaxLogins
    /\ unspent \subseteq Pair

(* A page is refreshing exactly while one call that began the refresh      *)
(* waits for the interceptor's refresh call, and a call is in failedQueue  *)
(* only then: nothing is queued behind a refresh that is over.             *)
WaitersHaveARefresh ==
    \A t \in Tab :
        /\ isRefreshing[t] <=> pc[t][Refresh] # "idle"
        /\ isRefreshing[t] <=> \E s \in Slot : pc[t][s] = "refreshing"
        /\ \A r, s \in Slot : pc[t][r] = "refreshing" /\ pc[t][s] = "refreshing" => r = s
        /\ InQueue(t) # {} => isRefreshing[t]

(* Once every page has signed out, whichever page began it and whatever    *)
(* answers arrive late, localStorage holds no token the server would still *)
(* take: no access token it gave, and no refresh token that was not used.  *)
(* A used refresh token and the text "undefined" may stay.                 *)
NoLiveTokenWithoutAPage ==
    (\A t \in Tab : page[t] = "out") => access # Given /\ refresh \notin unspent

(* The refresh call was refused, and waits in failedQueue for itself. *)
Stuck(t) == pc[t][Refresh] = "queued"

(* The interceptor's refresh comes to an end and takes failedQueue with    *)
(* it, whatever fails, unless the refresh itself was refused.              *)
RefreshEnds ==
    \A t \in Tab :
        isRefreshing[t] ~> (~isRefreshing[t] /\ InQueue(t) = {}) \/ Stuck(t)

(* When one page signs out, the others follow: a page does not stay signed *)
(* in without a refresh token, unless it is stuck.                         *)
LogoutReachesEveryPage ==
    \A t \in Tab :
        page[t] = "in" /\ refresh = None ~> page[t] # "in" \/ refresh # None \/ Stuck(t)

=============================================================================
