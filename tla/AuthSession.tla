---------------------------- MODULE AuthSession ----------------------------
(***************************************************************************)
(* The tokens and the password of one account: AuthService (login,         *)
(* refresh, logout, logout-all, forgot, reset and change password) over    *)
(* the SessionManager's keys in Redis and the users and                    *)
(* password_reset_tokens tables.  Every key and every row carries the      *)
(* user id, so accounts do not interact.                                   *)
(*                                                                         *)
(* Grain: the production image runs four uvicorn workers, each an event    *)
(* loop, so two requests interleave at every await (a Redis command) and   *)
(* between a database read and its commit.  One action is one Redis        *)
(* command, or one stretch of handler code between two of them.            *)
(*                                                                         *)
(* A JWT carries a uuid4 jti, so no two are equal: a request that makes an *)
(* access and a refresh token names both of them, and a request that sets  *)
(* a password or makes a reset token names that one.  None names the       *)
(* password the account starts with.                                       *)
(***************************************************************************)
EXTENDS FiniteSets, Naturals

CONSTANTS
    Request,           \* the HTTP requests the account ever receives
    None

ASSUME NoneIsNoRequest == None \notin Request

VARIABLES
    kind,              \* kind[r]: the endpoint r calls
    pc,                \* pc[r]: the next step of r's handler
    tok,               \* tok[r]: the token r presents
    scan,              \* scan[r]: the keys r's current SCAN must return
    sessions,          \* access tokens with a key session:{user}:{token}
    refreshKeys,       \* refresh tokens with a key refresh:{user}:{token}
    age,               \* age[t]: 1 when access JWT t expired, 2 when both did
    password,          \* users.hashed_password, by the request that set it
    resetToken,        \* the password_reset_tokens row request t inserted
    userActive,        \* users.is_active
    instActive,        \* institutions.is_active
    cred,              \* history: the password token r's login was checked on
    before             \* history: tokens delivered before r's mass logout

reqVars  == <<kind, pc, tok, scan>>
keyVars  == <<sessions, refreshKeys, age>>
dbVars   == <<password, resetToken>>
flagVars == <<userActive, instActive>>
history  == <<cred, before>>
vars     == <<reqVars, keyVars, dbVars, flagVars, history>>

Kind == {"none", "login", "refresh", "logoutBody", "logoutQuery",
         "logoutAll", "change", "forgot", "reset"}

LoginSteps   == {"l_session", "l_refresh", "l_commit"}
RefreshSteps == {"r_user", "r_session", "r_revoke", "r_store"}
LogoutSteps  == {"o_session", "o_refresh"}
MassSteps    == {"m_sessions", "m_refresh", "m_commit"}
Steps        == LoginSteps \cup RefreshSteps \cup LogoutSteps \cup MassSteps
                  \cup {"authed"}
Pc           == Steps \cup {"idle", "done", "failed"}

Init ==
    /\ kind = [r \in Request |-> "none"]
    /\ pc = [r \in Request |-> "idle"]
    /\ tok = [r \in Request |-> None]
    /\ scan = [r \in Request |-> {}]
    /\ sessions = {} /\ refreshKeys = {}
    /\ age = [r \in Request |-> 0]
    /\ password = None
    /\ resetToken = [r \in Request |-> "none"]
    /\ userActive = TRUE /\ instActive = TRUE
    /\ cred = [r \in Request |-> None]
    /\ before = [r \in Request |-> {}]

-----------------------------------------------------------------------------
(* Helpers. *)

(* A request that ended well has given its tokens to a client. *)
Delivered(t) == pc[t] = "done" /\ kind[t] \in {"login", "refresh"}

(* get_current_user: the JWT has not expired and its session key exists. *)
Accepts(t) == age[t] = 0 /\ t \in sessions

Goto(r, step) == pc' = [pc EXCEPT ![r] = step]

Begin(r, k, t, step) ==
    /\ pc[r] = "idle"
    /\ kind' = [kind EXCEPT ![r] = k]
    /\ tok' = [tok EXCEPT ![r] = t]
    /\ Goto(r, step)

(* The first SCAN of logout_all_sessions is about to run. *)
BeginMass(r) ==
    /\ scan' = [scan EXCEPT ![r] = sessions]
    /\ before' = [before EXCEPT ![r] = {t \in Request : Delivered(t)}]

-----------------------------------------------------------------------------
(* POST /auth/login *)

(* The password is checked and the account found active. *)
LoginCheck(r) ==
    /\ userActive /\ instActive
    /\ Begin(r, "login", None, "l_session")
    /\ cred' = [cred EXCEPT ![r] = password]
    /\ UNCHANGED <<scan, keyVars, dbVars, flagVars, before>>

LoginSession(r) ==
    /\ pc[r] = "l_session"
    /\ sessions' = sessions \cup {r}
    /\ Goto(r, "l_refresh")
    /\ UNCHANGED <<kind, tok, scan, refreshKeys, age, dbVars, flagVars, history>>

LoginRefresh(r) ==
    /\ pc[r] = "l_refresh"
    /\ refreshKeys' = refreshKeys \cup {r}
    /\ Goto(r, "l_commit")
    /\ UNCHANGED <<kind, tok, scan, sessions, age, dbVars, flagVars, history>>

(* last_login is committed and the tokens are returned. *)
LoginCommit(r) ==
    /\ pc[r] = "l_commit"
    /\ Goto(r, "done")
    /\ UNCHANGED <<kind, tok, scan, keyVars, dbVars, flagVars, history>>

-----------------------------------------------------------------------------
(* POST /auth/refresh *)

(* decode_token, then EXISTS refresh:{user}:{t}. *)
RefreshVerify(r, t) ==
    /\ Delivered(t) /\ age[t] < 2
    /\ t \in refreshKeys
    /\ Begin(r, "refresh", t, "r_user")
    /\ cred' = [cred EXCEPT ![r] = cred[t]]
    /\ UNCHANGED <<scan, keyVars, dbVars, flagVars, before>>

(* The user is loaded; the institution's flag is not looked at. *)
RefreshUser(r) ==
    /\ pc[r] = "r_user" /\ userActive
    /\ Goto(r, "r_session")
    /\ UNCHANGED <<kind, tok, scan, keyVars, dbVars, flagVars, history>>

(* Mutant: the session of the old access token is written again. *)
RefreshSessionKeepsOld(r) ==
    /\ pc[r] = "r_session"
    /\ sessions' = sessions \cup {r, tok[r]}
    /\ Goto(r, "r_revoke")
    /\ UNCHANGED <<kind, tok, scan, refreshKeys, age, dbVars, flagVars, history>>

RefreshSession(r) ==
    /\ pc[r] = "r_session"
    /\ sessions' = sessions \cup {r}
    /\ Goto(r, "r_revoke")
    /\ UNCHANGED <<kind, tok, scan, refreshKeys, age, dbVars, flagVars, history>>

RefreshRevoke(r) ==
    /\ pc[r] = "r_revoke"
    /\ refreshKeys' = refreshKeys \ {tok[r]}
    /\ Goto(r, "r_store")
    /\ UNCHANGED <<kind, tok, scan, sessions, age, dbVars, flagVars, history>>

(* Mutant: the token that was presented is stored, not the new one. *)
RefreshStoreOld(r) ==
    /\ pc[r] = "r_store"
    /\ refreshKeys' = refreshKeys \cup {tok[r]}
    /\ Goto(r, "done")
    /\ UNCHANGED <<kind, tok, scan, sessions, age, dbVars, flagVars, history>>

RefreshStore(r) ==
    /\ pc[r] = "r_store"
    /\ refreshKeys' = refreshKeys \cup {r}
    /\ Goto(r, "done")
    /\ UNCHANGED <<kind, tok, scan, sessions, age, dbVars, flagVars, history>>

-----------------------------------------------------------------------------
(* The endpoints that need a session: get_current_user reads the session   *)
(* key, then loads the user; the handler runs after that await.            *)

Authenticate(r, k, t) ==
    /\ Delivered(t) /\ Accepts(t)
    /\ Begin(r, k, t, "authed")
    /\ UNCHANGED <<scan, keyVars, dbVars, flagVars, history>>

(* POST /auth/logout.  Its refresh_token is a query parameter: one sent in *)
(* the body never reaches AuthService.logout.                              *)
LogoutStart(r) ==
    /\ pc[r] = "authed" /\ userActive
    /\ kind[r] \in {"logoutBody", "logoutQuery"}
    /\ Goto(r, "o_session")
    /\ UNCHANGED <<kind, tok, scan, keyVars, dbVars, flagVars, history>>

LogoutSession(r) ==
    /\ pc[r] = "o_session"
    /\ sessions' = sessions \ {tok[r]}
    /\ Goto(r, IF kind[r] = "logoutQuery" THEN "o_refresh" ELSE "done")
    /\ UNCHANGED <<kind, tok, scan, refreshKeys, age, dbVars, flagVars, history>>

LogoutRefresh(r) ==
    /\ pc[r] = "o_refresh"
    /\ refreshKeys' = refreshKeys \ {tok[r]}
    /\ Goto(r, "done")
    /\ UNCHANGED <<kind, tok, scan, sessions, age, dbVars, flagVars, history>>

(* POST /auth/logout-all, and POST /auth/change-password once the current  *)
(* password was verified (against the row get_current_user loaded).        *)
MassLogoutStart(r) ==
    /\ pc[r] = "authed" /\ userActive
    /\ kind[r] \in {"logoutAll", "change"}
    /\ BeginMass(r)
    /\ Goto(r, "m_sessions")
    /\ UNCHANGED <<kind, tok, keyVars, dbVars, flagVars, cred>>

-----------------------------------------------------------------------------
(* POST /auth/forgot-password and POST /auth/reset-password *)

(* Mutant: older tokens are not invalidated. *)
ForgotKeepsOlder(r) ==
    /\ Begin(r, "forgot", None, "done")
    /\ resetToken' = [resetToken EXCEPT ![r] = "open"]
    /\ UNCHANGED <<scan, keyVars, password, flagVars, history>>

(* Older unused tokens are marked used and the new one inserted, in one    *)
(* transaction and without an await.                                       *)
Forgot(r) ==
    /\ Begin(r, "forgot", None, "done")
    /\ resetToken' = [t \in Request |->
                        IF t = r THEN "open"
                        ELSE IF resetToken[t] = "open" THEN "used"
                        ELSE resetToken[t]]
    /\ UNCHANGED <<scan, keyVars, password, flagVars, history>>

(* Mutant: is_used is committed before the sessions are deleted. *)
ResetStartCommitsEarly(r, t) ==
    /\ resetToken[t] = "open"
    /\ Begin(r, "reset", t, "m_sessions")
    /\ BeginMass(r)
    /\ resetToken' = [resetToken EXCEPT ![t] = "used"]
    /\ UNCHANGED <<keyVars, password, flagVars, cred>>

(* The row is read unused and unexpired; the new hash and is_used stay in  *)
(* the ORM session until the commit that follows the mass logout.          *)
ResetStart(r, t) ==
    /\ resetToken[t] = "open"
    /\ Begin(r, "reset", t, "m_sessions")
    /\ BeginMass(r)
    /\ UNCHANGED <<keyVars, dbVars, flagVars, cred>>

-----------------------------------------------------------------------------
(* logout_all_sessions: a SCAN loop over session:{user}:*, then one over   *)
(* refresh:{user}:*.  SCAN returns every key that is there from the start  *)
(* of the loop to its end, and any others it happens to meet.              *)

(* Mutant: the first batch is taken for the whole of it. *)
ScanFirstBatchOnly(r, keys, K) == TRUE

(* Deleting the keys of the last batch K completes the loop. *)
ScanComplete(r, keys, K) == scan[r] \cap keys \subseteq K

MassSessions(r) ==
    /\ pc[r] = "m_sessions"
    /\ \E K \in SUBSET sessions :
         /\ sessions' = sessions \ K
         /\ \/ /\ ScanComplete(r, sessions, K)
               /\ scan' = [scan EXCEPT ![r] = refreshKeys]
               /\ Goto(r, "m_refresh")
            \/ UNCHANGED <<scan, pc>>
    /\ UNCHANGED <<kind, tok, refreshKeys, age, dbVars, flagVars, history>>

MassRefresh(r) ==
    /\ pc[r] = "m_refresh"
    /\ \E K \in SUBSET refreshKeys :
         /\ refreshKeys' = refreshKeys \ K
         /\ \/ /\ ScanComplete(r, refreshKeys, K)
               /\ scan' = [scan EXCEPT ![r] = {}]
               /\ Goto(r, IF kind[r] = "logoutAll" THEN "done" ELSE "m_commit")
            \/ UNCHANGED <<scan, pc>>
    /\ UNCHANGED <<kind, tok, sessions, age, dbVars, flagVars, history>>

(* The new hash, and for a reset the row's is_used, reach the database. *)
MassCommit(r) ==
    /\ pc[r] = "m_commit"
    /\ password' = r
    /\ resetToken' = IF kind[r] = "reset"
                     THEN [resetToken EXCEPT ![tok[r]] = "used"]
                     ELSE resetToken
    /\ Goto(r, "done")
    /\ UNCHANGED <<kind, tok, scan, keyVars, flagVars, history>>

-----------------------------------------------------------------------------
(* The environment. *)

(* A check fails, Redis or the database raises, or the worker dies: the    *)
(* handler ends where it is, and the ORM session is rolled back.           *)
Fail(r) ==
    /\ pc[r] \in Steps
    /\ scan' = [scan EXCEPT ![r] = {}]
    /\ Goto(r, "failed")
    /\ UNCHANGED <<kind, tok, keyVars, dbVars, flagVars, history>>

(* Mutant: a token expires again and again. *)
ExpireAccessAgain(t) ==
    /\ pc[t] \in {"done", "failed"} /\ kind[t] \in {"login", "refresh"}
    /\ age' = [age EXCEPT ![t] = @ + 1]
    /\ sessions' = sessions \ {t}
    /\ UNCHANGED <<reqVars, refreshKeys, dbVars, flagVars, history>>

(* 30 minutes, then 7 days, after a token was made: the JWT expires, and   *)
(* with it its key.  No request is that slow.                              *)
ExpireAccess(t) ==
    /\ pc[t] \in {"done", "failed"} /\ kind[t] \in {"login", "refresh"}
    /\ age[t] = 0
    /\ age' = [age EXCEPT ![t] = 1]
    /\ sessions' = sessions \ {t}
    /\ UNCHANGED <<reqVars, refreshKeys, dbVars, flagVars, history>>

ExpireRefresh(t) ==
    /\ age[t] = 1
    /\ age' = [age EXCEPT ![t] = 2]
    /\ refreshKeys' = refreshKeys \ {t}
    /\ UNCHANGED <<reqVars, sessions, dbVars, flagVars, history>>

(* 60 minutes after it was made. *)
ExpireReset(t) ==
    /\ resetToken[t] = "open"
    /\ resetToken' = [resetToken EXCEPT ![t] = "expired"]
    /\ UNCHANGED <<reqVars, keyVars, password, flagVars, history>>

(* An administrator switches the account or its institution off or on. *)
SwitchUser ==
    /\ userActive' = ~userActive
    /\ UNCHANGED <<reqVars, keyVars, dbVars, instActive, history>>

SwitchInstitution ==
    /\ instActive' = ~instActive
    /\ UNCHANGED <<reqVars, keyVars, dbVars, userActive, history>>

-----------------------------------------------------------------------------
HandlerStep(r) ==
    \/ LoginSession(r) \/ LoginRefresh(r) \/ LoginCommit(r)
    \/ RefreshUser(r) \/ RefreshSession(r) \/ RefreshRevoke(r) \/ RefreshStore(r)
    \/ LogoutStart(r) \/ LogoutSession(r) \/ LogoutRefresh(r)
    \/ MassLogoutStart(r) \/ MassSessions(r) \/ MassRefresh(r) \/ MassCommit(r)

Arrive(r) ==
    \/ LoginCheck(r)
    \/ Forgot(r)
    \/ \E t \in Request :
         \/ RefreshVerify(r, t)
         \/ ResetStart(r, t)
         \/ \E k \in {"logoutBody", "logoutQuery", "logoutAll", "change"} :
              Authenticate(r, k, t)

Environment ==
    \/ \E r \in Request :
         Fail(r) \/ ExpireAccess(r) \/ ExpireRefresh(r) \/ ExpireReset(r)
    \/ SwitchUser \/ SwitchInstitution

Next ==
    \/ \E r \in Request : Arrive(r) \/ HandlerStep(r)
    \/ Environment

Spec == Init /\ [][Next]_vars

-----------------------------------------------------------------------------
(* Every variable keeps its type: no handler leaves a value another one    *)
(* does not expect.                                                        *)
TypeOK ==
    /\ kind \in [Request -> Kind]
    /\ pc \in [Request -> Pc]
    /\ tok \in [Request -> Request \cup {None}]
    /\ scan \in [Request -> SUBSET Request]
    /\ sessions \subseteq Request
    /\ refreshKeys \subseteq Request
    /\ age \in [Request -> 0..2]
    /\ password \in Request \cup {None}
    /\ resetToken \in [Request -> {"none", "open", "used", "expired"}]
    /\ userActive \in BOOLEAN
    /\ instActive \in BOOLEAN
    /\ cred \in [Request -> Request \cup {None}]
    /\ before \in [Request -> SUBSET Request]

-----------------------------------------------------------------------------
(* What holds. *)

MassLogoutDone(r) ==
    kind[r] \in {"logoutAll", "change", "reset"} /\ pc[r] = "done"

(* A mass logout that completed (logout-all, a password change, a password *)
(* reset) has killed every token pair a client held when it began, however *)
(* the two SCAN loops interleaved with logins, refreshes, expiries and     *)
(* other mass logouts.                                                     *)
MassLogoutComplete ==
    \A r \in Request :
        MassLogoutDone(r) => before[r] \cap (sessions \cup refreshKeys) = {}

(* Once a refresh has completed, the token it was given is never again in  *)
(* Redis: nothing stores an old token, not even a slower refresh of it.    *)
RotatedTokenStaysDead ==
    \A r \in Request :
        kind[r] = "refresh" /\ pc[r] = "done" => tok[r] \notin refreshKeys

(* At most one password reset token of the account can be used, the one    *)
(* made last.                                                              *)
OneOpenResetToken ==
    \A t, u \in Request :
        resetToken[t] = "open" /\ resetToken[u] = "open" => t = u

(* A reset token is spent only when a reset changed the password or        *)
(* another forgot_password of the user was answered: a reset that fails    *)
(* half way (sessions already deleted, the database rolled back) leaves    *)
(* the user a token to retry with.                                         *)
ResetTokenSpentForAReason ==
    \A t \in Request :
        resetToken[t] = "used" =>
            \/ \E r \in Request : kind[r] = "reset" /\ tok[r] = t /\ pc[r] = "done"
            \/ \E u \in Request : u # t /\ kind[u] = "forgot"

(* Where a token stands, read off the keys of one kind: a token that was   *)
(* made and is not stored is dead.                                         *)
Stored(r, keys, unmade) ==
    IF r \in keys THEN "live"
    ELSE IF kind[r] \notin {"login", "refresh"} \/ pc[r] \in unmade THEN "fresh"
    ELSE "dead"

AccessLife ==
    [r \in Request |-> Stored(r, sessions, {"l_session", "r_user", "r_session"})]

RefreshLife ==
    [r \in Request |-> Stored(r, refreshKeys, {"l_session", "l_refresh"} \cup RefreshSteps)]

Access  == INSTANCE TokenLife WITH Token <- Request, life <- AccessLife
Refresh == INSTANCE TokenLife WITH Token <- Request, life <- RefreshLife

(* A session is written once, by the request that made its access token,   *)
(* and one that was deleted or expired never comes back.                   *)
AccessKeysImplementTokenLife == Access!Spec

(* A refresh token is stored once, by the request that made it, and one    *)
(* that was revoked, rotated out or expired never comes back.              *)
RefreshKeysImplementTokenLife == Refresh!Spec

(* Both kinds of key live as TokenLife says: no request that is still on   *)
(* its way brings back what a logout, a rotation or an expiry has ended.   *)
KeysImplementTokenLife ==
    AccessKeysImplementTokenLife /\ RefreshKeysImplementTokenLife

-----------------------------------------------------------------------------
(* What the repository's documents say and the code does not do: a run of  *)
(* its own finds it violated.                                              *)

(* docs/ARCHITECTURE.md: "All sessions invalidated on password change".    *)
PasswordChangeEndsOldSessions == \A t \in sessions : cred[t] = password

=============================================================================
