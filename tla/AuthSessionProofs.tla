------------------------- MODULE AuthSessionProofs -------------------------
(***************************************************************************)
(* Theorems about AuthSession for any set of requests: its types, that a   *)
(* mass logout is complete, that a rotated token stays dead, what becomes  *)
(* of reset tokens, and that both kinds of keys implement TokenLife.       *)
(***************************************************************************)
EXTENDS AuthSession, TLAPS

-----------------------------------------------------------------------------
(* The inductive invariant. *)

(* A handler is at a step of the endpoint it serves, a request that has    *)
(* not arrived has no endpoint, and the token a refresh was given had been *)
(* delivered: that is what ties the shared step names to the endpoints.    *)
Coherent ==
    \A r \in Request :
        /\ pc[r] = "idle" => kind[r] = "none"
        /\ pc[r] \in LoginSteps => kind[r] = "login"
        /\ pc[r] \in RefreshSteps => kind[r] = "refresh"
        /\ pc[r] \in LogoutSteps => kind[r] \in {"logoutBody", "logoutQuery"}
        /\ pc[r] \in MassSteps => kind[r] \in {"logoutAll", "change", "reset"}
        /\ kind[r] = "refresh" => tok[r] \in Request /\ Delivered(tok[r])

(* A key belongs to a login or a refresh that has reached the step that    *)
(* stores it.                                                              *)
KeysStored ==
    /\ \A t \in sessions :
         /\ kind[t] \in {"login", "refresh"}
         /\ pc[t] \notin {"l_session", "r_user", "r_session"}
    /\ \A t \in refreshKeys :
         /\ kind[t] \in {"login", "refresh"}
         /\ pc[t] \notin {"l_session", "l_refresh"} \cup RefreshSteps

(* How far request r's mass logout has come with the tokens delivered      *)
(* before it: what is left of them is what its SCAN still has to return.   *)
MassProgress(r) ==
    /\ before[r] \subseteq {t \in Request : Delivered(t)}
    /\ pc[r] = "m_sessions" => before[r] \cap sessions \subseteq scan[r]
    /\ pc[r] \in {"m_refresh", "m_commit"} \/ MassLogoutDone(r)
         => before[r] \cap sessions = {}
    /\ pc[r] = "m_refresh" => before[r] \cap refreshKeys \subseteq scan[r]
    /\ pc[r] = "m_commit" \/ MassLogoutDone(r)
         => before[r] \cap refreshKeys = {}

MassInv == \A r \in Request : MassProgress(r)

(* The token a refresh was given is gone from the moment it is revoked.    *)
RotationInv ==
    \A r \in Request :
        kind[r] = "refresh" /\ pc[r] \in {"r_store", "done"}
            => tok[r] \notin refreshKeys

Inv == TypeOK /\ Coherent /\ KeysStored /\ MassInv /\ RotationInv

-----------------------------------------------------------------------------
(* Every variable keeps its type, for any set of requests. *)
THEOREM TypeCorrect == Spec => []TypeOK
  <1>1. Init => TypeOK
    BY DEF Init, TypeOK, Kind, Pc
  <1>2. TypeOK /\ [Next]_vars => TypeOK'
    <2> SUFFICES ASSUME TypeOK, [Next]_vars
                 PROVE  TypeOK'
      OBVIOUS
    <2> USE NoneIsNoRequest DEF TypeOK, Kind, Pc, Steps, LoginSteps, RefreshSteps,
              LogoutSteps, MassSteps
    <2>1. ASSUME NEW r \in Request, LoginCheck(r) PROVE  TypeOK'
      BY <2>1 DEF LoginCheck, Goto, reqVars, keyVars, dbVars, flagVars, history, Begin
    <2>2. ASSUME NEW r \in Request, LoginSession(r) PROVE  TypeOK'
      BY <2>2 DEF LoginSession, Goto, reqVars, keyVars, dbVars, flagVars, history
    <2>3. ASSUME NEW r \in Request, LoginRefresh(r) PROVE  TypeOK'
      BY <2>3 DEF LoginRefresh, Goto, reqVars, keyVars, dbVars, flagVars, history
    <2>4. ASSUME NEW r \in Request, LoginCommit(r) PROVE  TypeOK'
      BY <2>4 DEF LoginCommit, Goto, reqVars, keyVars, dbVars, flagVars, history
    <2>5. ASSUME NEW r \in Request, RefreshUser(r) PROVE  TypeOK'
      BY <2>5 DEF RefreshUser, Goto, reqVars, keyVars, dbVars, flagVars, history
    <2>6. ASSUME NEW r \in Request, RefreshSession(r) PROVE  TypeOK'
      BY <2>6 DEF RefreshSession, Goto, reqVars, keyVars, dbVars, flagVars, history
    <2>7. ASSUME NEW r \in Request, RefreshRevoke(r) PROVE  TypeOK'
      BY <2>7 DEF RefreshRevoke, Goto, reqVars, keyVars, dbVars, flagVars, history
    <2>8. ASSUME NEW r \in Request, RefreshStore(r) PROVE  TypeOK'
      BY <2>8 DEF RefreshStore, Goto, reqVars, keyVars, dbVars, flagVars, history
    <2>9. ASSUME NEW r \in Request, LogoutStart(r) PROVE  TypeOK'
      BY <2>9 DEF LogoutStart, Goto, reqVars, keyVars, dbVars, flagVars, history
    <2>10. ASSUME NEW r \in Request, LogoutSession(r) PROVE  TypeOK'
      BY <2>10 DEF LogoutSession, Goto, reqVars, keyVars, dbVars, flagVars, history
    <2>11. ASSUME NEW r \in Request, LogoutRefresh(r) PROVE  TypeOK'
      BY <2>11 DEF LogoutRefresh, Goto, reqVars, keyVars, dbVars, flagVars, history
    <2>12. ASSUME NEW r \in Request, MassLogoutStart(r) PROVE  TypeOK'
      BY <2>12 DEF MassLogoutStart, Goto, reqVars, keyVars, dbVars, flagVars, history, BeginMass
    <2>13. ASSUME NEW r \in Request, MassSessions(r) PROVE  TypeOK'
      BY <2>13 DEF MassSessions, Goto, reqVars, keyVars, dbVars, flagVars, history
    <2>14. ASSUME NEW r \in Request, MassRefresh(r) PROVE  TypeOK'
      BY <2>14 DEF MassRefresh, Goto, reqVars, keyVars, dbVars, flagVars, history
    <2>15. ASSUME NEW r \in Request, MassCommit(r) PROVE  TypeOK'
      BY <2>15 DEF MassCommit, Goto, reqVars, keyVars, dbVars, flagVars, history
    <2>16. ASSUME NEW r \in Request, Forgot(r) PROVE  TypeOK'
      BY <2>16 DEF Forgot, Goto, reqVars, keyVars, dbVars, flagVars, history, Begin
    <2>17. ASSUME NEW r \in Request, Fail(r) PROVE  TypeOK'
      BY <2>17 DEF Fail, Goto, reqVars, keyVars, dbVars, flagVars, history
    <2>18. ASSUME NEW r \in Request, ExpireAccess(r) PROVE  TypeOK'
      BY <2>18 DEF ExpireAccess, Goto, reqVars, keyVars, dbVars, flagVars, history
    <2>19. ASSUME NEW r \in Request, ExpireRefresh(r) PROVE  TypeOK'
      BY <2>19 DEF ExpireRefresh, Goto, reqVars, keyVars, dbVars, flagVars, history
    <2>20. ASSUME NEW r \in Request, ExpireReset(r) PROVE  TypeOK'
      BY <2>20 DEF ExpireReset, Goto, reqVars, keyVars, dbVars, flagVars, history
    <2>21. ASSUME NEW r \in Request, NEW t \in Request, RefreshVerify(r, t) PROVE  TypeOK'
      BY <2>21 DEF RefreshVerify, Goto, reqVars, keyVars, dbVars, flagVars, history, Begin
    <2>22. ASSUME NEW r \in Request, NEW t \in Request, ResetStart(r, t) PROVE  TypeOK'
      BY <2>22 DEF ResetStart, Goto, reqVars, keyVars, dbVars, flagVars, history, Begin, BeginMass
    <2>23. ASSUME NEW r \in Request, NEW t \in Request,
                   NEW k \in {"logoutBody", "logoutQuery", "logoutAll", "change"},
                   Authenticate(r, k, t)
            PROVE  TypeOK'
      BY <2>23 DEF Authenticate, Goto, reqVars, keyVars, dbVars, flagVars, history, Begin
    <2>24. CASE SwitchUser
      BY <2>24 DEF SwitchUser, Goto, reqVars, keyVars, dbVars, flagVars, history
    <2>25. CASE SwitchInstitution
      BY <2>25 DEF SwitchInstitution, Goto, reqVars, keyVars, dbVars, flagVars, history
    <2>26. CASE UNCHANGED vars
      BY <2>26 DEF vars, reqVars, keyVars, dbVars, flagVars, history, Goto, reqVars, keyVars, dbVars, flagVars, history
    <2>27. QED
      BY <2>1, <2>2, <2>3, <2>4, <2>5, <2>6, <2>7, <2>8, <2>9, <2>10, <2>11, <2>12, <2>13, <2>14, <2>15, <2>16, <2>17, <2>18, <2>19, <2>20, <2>21, <2>22, <2>23, <2>24, <2>25, <2>26
         DEF Next, Arrive, HandlerStep, Environment
  <1>3. QED
    BY <1>1, <1>2, PTL DEF Spec

-----------------------------------------------------------------------------
(* Endpoints and steps stay coherent: an endpoint is chosen once, when the  *)
(* request arrives, and a delivered token stays delivered.                 *)
LEMMA CoherentStep ==
    ASSUME TypeOK, Coherent, [Next]_vars
    PROVE  Coherent'
  <1> USE NoneIsNoRequest DEF TypeOK, Coherent, Delivered, Steps, LoginSteps, RefreshSteps, LogoutSteps, MassSteps, Kind, Pc
  <1>1. ASSUME NEW r \in Request, LoginCheck(r) PROVE  Coherent'
    BY <1>1 DEF LoginCheck, Goto, reqVars, keyVars, dbVars, flagVars, history, Begin
  <1>2. ASSUME NEW r \in Request, LoginSession(r) PROVE  Coherent'
    BY <1>2 DEF LoginSession, Goto, reqVars, keyVars, dbVars, flagVars, history
  <1>3. ASSUME NEW r \in Request, LoginRefresh(r) PROVE  Coherent'
    BY <1>3 DEF LoginRefresh, Goto, reqVars, keyVars, dbVars, flagVars, history
  <1>4. ASSUME NEW r \in Request, LoginCommit(r) PROVE  Coherent'
    BY <1>4 DEF LoginCommit, Goto, reqVars, keyVars, dbVars, flagVars, history
  <1>5. ASSUME NEW r \in Request, RefreshUser(r) PROVE  Coherent'
    BY <1>5 DEF RefreshUser, Goto, reqVars, keyVars, dbVars, flagVars, history
  <1>6. ASSUME NEW r \in Request, RefreshSession(r) PROVE  Coherent'
    BY <1>6 DEF RefreshSession, Goto, reqVars, keyVars, dbVars, flagVars, history
  <1>7. ASSUME NEW r \in Request, RefreshRevoke(r) PROVE  Coherent'
    BY <1>7 DEF RefreshRevoke, Goto, reqVars, keyVars, dbVars, flagVars, history
  <1>8. ASSUME NEW r \in Request, RefreshStore(r) PROVE  Coherent'
    BY <1>8 DEF RefreshStore, Goto, reqVars, keyVars, dbVars, flagVars, history
  <1>9. ASSUME NEW r \in Request, LogoutStart(r) PROVE  Coherent'
    BY <1>9 DEF LogoutStart, Goto, reqVars, keyVars, dbVars, flagVars, history
  <1>10. ASSUME NEW r \in Request, LogoutSession(r) PROVE  Coherent'
    BY <1>10 DEF LogoutSession, Goto, reqVars, keyVars, dbVars, flagVars, history
  <1>11. ASSUME NEW r \in Request, LogoutRefresh(r) PROVE  Coherent'
    BY <1>11 DEF LogoutRefresh, Goto, reqVars, keyVars, dbVars, flagVars, history
  <1>12. ASSUME NEW r \in Request, MassLogoutStart(r) PROVE  Coherent'
    BY <1>12 DEF MassLogoutStart, Goto, reqVars, keyVars, dbVars, flagVars, history, BeginMass
  <1>13. ASSUME NEW r \in Request, MassSessions(r) PROVE  Coherent'
    BY <1>13 DEF MassSessions, Goto, reqVars, keyVars, dbVars, flagVars, history
  <1>14. ASSUME NEW r \in Request, MassRefresh(r) PROVE  Coherent'
    BY <1>14 DEF MassRefresh, Goto, reqVars, keyVars, dbVars, flagVars, history
  <1>15. ASSUME NEW r \in Request, MassCommit(r) PROVE  Coherent'
    BY <1>15 DEF MassCommit, Goto, reqVars, keyVars, dbVars, flagVars, history
  <1>16. ASSUME NEW r \in Request, Forgot(r) PROVE  Coherent'
    BY <1>16 DEF Forgot, Goto, reqVars, keyVars, dbVars, flagVars, history, Begin
  <1>17. ASSUME NEW r \in Request, Fail(r) PROVE  Coherent'
    BY <1>17 DEF Fail, Goto, reqVars, keyVars, dbVars, flagVars, history
  <1>18. ASSUME NEW r \in Request, ExpireAccess(r) PROVE  Coherent'
    BY <1>18 DEF ExpireAccess, Goto, reqVars, keyVars, dbVars, flagVars, history
  <1>19. ASSUME NEW r \in Request, ExpireRefresh(r) PROVE  Coherent'
    BY <1>19 DEF ExpireRefresh, Goto, reqVars, keyVars, dbVars, flagVars, history
  <1>20. ASSUME NEW r \in Request, ExpireReset(r) PROVE  Coherent'
    BY <1>20 DEF ExpireReset, Goto, reqVars, keyVars, dbVars, flagVars, history
  <1>21. ASSUME NEW r \in Request, NEW t \in Request, RefreshVerify(r, t) PROVE  Coherent'
    BY <1>21 DEF RefreshVerify, Goto, reqVars, keyVars, dbVars, flagVars, history, Begin
  <1>22. ASSUME NEW r \in Request, NEW t \in Request, ResetStart(r, t) PROVE  Coherent'
    BY <1>22 DEF ResetStart, Goto, reqVars, keyVars, dbVars, flagVars, history, Begin, BeginMass
  <1>23. ASSUME NEW r \in Request, NEW t \in Request,
                 NEW k \in {"logoutBody", "logoutQuery", "logoutAll", "change"},
                 Authenticate(r, k, t)
          PROVE  Coherent'
    BY <1>23 DEF Authenticate, Goto, reqVars, keyVars, dbVars, flagVars, history, Begin
  <1>24. CASE SwitchUser
    BY <1>24 DEF SwitchUser, Goto, reqVars, keyVars, dbVars, flagVars, history
  <1>25. CASE SwitchInstitution
    BY <1>25 DEF SwitchInstitution, Goto, reqVars, keyVars, dbVars, flagVars, history
  <1>26. CASE UNCHANGED vars
    BY <1>26 DEF vars, reqVars, keyVars, dbVars, flagVars, history, Goto, reqVars, keyVars, dbVars, flagVars, history
  <1>27. QED
    BY <1>1, <1>2, <1>3, <1>4, <1>5, <1>6, <1>7, <1>8, <1>9, <1>10, <1>11, <1>12, <1>13, <1>14, <1>15, <1>16, <1>17, <1>18, <1>19, <1>20, <1>21, <1>22, <1>23, <1>24, <1>25, <1>26
       DEF Next, Arrive, HandlerStep, Environment

-----------------------------------------------------------------------------
(* Only the two steps that store a key add one, each its own. *)
LEMMA KeysStoredStep ==
    ASSUME TypeOK, Coherent, KeysStored, [Next]_vars
    PROVE  KeysStored'
  <1> USE NoneIsNoRequest DEF TypeOK, Coherent, KeysStored, Steps, LoginSteps, RefreshSteps, LogoutSteps, MassSteps
  <1>1. ASSUME NEW r \in Request, LoginCheck(r) PROVE  KeysStored'
    BY <1>1 DEF LoginCheck, Goto, reqVars, keyVars, dbVars, flagVars, history, Begin
  <1>2. ASSUME NEW r \in Request, LoginSession(r) PROVE  KeysStored'
    BY <1>2 DEF LoginSession, Goto, reqVars, keyVars, dbVars, flagVars, history
  <1>3. ASSUME NEW r \in Request, LoginRefresh(r) PROVE  KeysStored'
    BY <1>3 DEF LoginRefresh, Goto, reqVars, keyVars, dbVars, flagVars, history
  <1>4. ASSUME NEW r \in Request, LoginCommit(r) PROVE  KeysStored'
    BY <1>4 DEF LoginCommit, Goto, reqVars, keyVars, dbVars, flagVars, history
  <1>5. ASSUME NEW r \in Request, RefreshUser(r) PROVE  KeysStored'
    BY <1>5 DEF RefreshUser, Goto, reqVars, keyVars, dbVars, flagVars, history
  <1>6. ASSUME NEW r \in Request, RefreshSession(r) PROVE  KeysStored'
    BY <1>6 DEF RefreshSession, Goto, reqVars, keyVars, dbVars, flagVars, history
  <1>7. ASSUME NEW r \in Request, RefreshRevoke(r) PROVE  KeysStored'
    BY <1>7 DEF RefreshRevoke, Goto, reqVars, keyVars, dbVars, flagVars, history
  <1>8. ASSUME NEW r \in Request, RefreshStore(r) PROVE  KeysStored'
    BY <1>8 DEF RefreshStore, Goto, reqVars, keyVars, dbVars, flagVars, history
  <1>9. ASSUME NEW r \in Request, LogoutStart(r) PROVE  KeysStored'
    BY <1>9 DEF LogoutStart, Goto, reqVars, keyVars, dbVars, flagVars, history
  <1>10. ASSUME NEW r \in Request, LogoutSession(r) PROVE  KeysStored'
    BY <1>10 DEF LogoutSession, Goto, reqVars, keyVars, dbVars, flagVars, history
  <1>11. ASSUME NEW r \in Request, LogoutRefresh(r) PROVE  KeysStored'
    BY <1>11 DEF LogoutRefresh, Goto, reqVars, keyVars, dbVars, flagVars, history
  <1>12. ASSUME NEW r \in Request, MassLogoutStart(r) PROVE  KeysStored'
    BY <1>12 DEF MassLogoutStart, Goto, reqVars, keyVars, dbVars, flagVars, history, BeginMass
  <1>13. ASSUME NEW r \in Request, MassSessions(r) PROVE  KeysStored'
    BY <1>13 DEF MassSessions, Goto, reqVars, keyVars, dbVars, flagVars, history
  <1>14. ASSUME NEW r \in Request, MassRefresh(r) PROVE  KeysStored'
    BY <1>14 DEF MassRefresh, Goto, reqVars, keyVars, dbVars, flagVars, history
  <1>15. ASSUME NEW r \in Request, MassCommit(r) PROVE  KeysStored'
    BY <1>15 DEF MassCommit, Goto, reqVars, keyVars, dbVars, flagVars, history
  <1>16. ASSUME NEW r \in Request, Forgot(r) PROVE  KeysStored'
    BY <1>16 DEF Forgot, Goto, reqVars, keyVars, dbVars, flagVars, history, Begin
  <1>17. ASSUME NEW r \in Request, Fail(r) PROVE  KeysStored'
    BY <1>17 DEF Fail, Goto, reqVars, keyVars, dbVars, flagVars, history
  <1>18. ASSUME NEW r \in Request, ExpireAccess(r) PROVE  KeysStored'
    BY <1>18 DEF ExpireAccess, Goto, reqVars, keyVars, dbVars, flagVars, history
  <1>19. ASSUME NEW r \in Request, ExpireRefresh(r) PROVE  KeysStored'
    BY <1>19 DEF ExpireRefresh, Goto, reqVars, keyVars, dbVars, flagVars, history
  <1>20. ASSUME NEW r \in Request, ExpireReset(r) PROVE  KeysStored'
    BY <1>20 DEF ExpireReset, Goto, reqVars, keyVars, dbVars, flagVars, history
  <1>21. ASSUME NEW r \in Request, NEW t \in Request, RefreshVerify(r, t) PROVE  KeysStored'
    BY <1>21 DEF RefreshVerify, Goto, reqVars, keyVars, dbVars, flagVars, history, Begin
  <1>22. ASSUME NEW r \in Request, NEW t \in Request, ResetStart(r, t) PROVE  KeysStored'
    BY <1>22 DEF ResetStart, Goto, reqVars, keyVars, dbVars, flagVars, history, Begin, BeginMass
  <1>23. ASSUME NEW r \in Request, NEW t \in Request,
                 NEW k \in {"logoutBody", "logoutQuery", "logoutAll", "change"},
                 Authenticate(r, k, t)
          PROVE  KeysStored'
    BY <1>23 DEF Authenticate, Goto, reqVars, keyVars, dbVars, flagVars, history, Begin
  <1>24. CASE SwitchUser
    BY <1>24 DEF SwitchUser, Goto, reqVars, keyVars, dbVars, flagVars, history
  <1>25. CASE SwitchInstitution
    BY <1>25 DEF SwitchInstitution, Goto, reqVars, keyVars, dbVars, flagVars, history
  <1>26. CASE UNCHANGED vars
    BY <1>26 DEF vars, reqVars, keyVars, dbVars, flagVars, history, Goto, reqVars, keyVars, dbVars, flagVars, history
  <1>27. QED
    BY <1>1, <1>2, <1>3, <1>4, <1>5, <1>6, <1>7, <1>8, <1>9, <1>10, <1>11, <1>12, <1>13, <1>14, <1>15, <1>16, <1>17, <1>18, <1>19, <1>20, <1>21, <1>22, <1>23, <1>24, <1>25, <1>26
       DEF Next, Arrive, HandlerStep, Environment

-----------------------------------------------------------------------------
(* A mass logout only makes progress: no delivered token returns to Redis,  *)
(* and a SCAN ends only when it has returned all it had to.                *)
LEMMA MassStep ==
    ASSUME TypeOK, Coherent, MassInv, [Next]_vars
    PROVE  MassInv'
  <1> SUFFICES ASSUME NEW q \in Request
               PROVE  MassProgress(q)'
    BY DEF MassInv
  <1>0. MassProgress(q)
    BY DEF MassInv
  <1> USE <1>0 DEF TypeOK, Coherent, MassProgress, MassLogoutDone, Delivered, ScanComplete,
        LoginSteps, RefreshSteps, LogoutSteps, MassSteps
  <1>1. ASSUME NEW r \in Request, LoginCheck(r) PROVE  MassProgress(q)'
    BY <1>1 DEF LoginCheck, Goto, reqVars, keyVars, dbVars, flagVars, history, Begin
  <1>2. ASSUME NEW r \in Request, LoginSession(r) PROVE  MassProgress(q)'
    BY <1>2 DEF LoginSession, Goto, reqVars, keyVars, dbVars, flagVars, history
  <1>3. ASSUME NEW r \in Request, LoginRefresh(r) PROVE  MassProgress(q)'
    BY <1>3 DEF LoginRefresh, Goto, reqVars, keyVars, dbVars, flagVars, history
  <1>4. ASSUME NEW r \in Request, LoginCommit(r) PROVE  MassProgress(q)'
    BY <1>4 DEF LoginCommit, Goto, reqVars, keyVars, dbVars, flagVars, history
  <1>5. ASSUME NEW r \in Request, RefreshUser(r) PROVE  MassProgress(q)'
    BY <1>5 DEF RefreshUser, Goto, reqVars, keyVars, dbVars, flagVars, history
  <1>6. ASSUME NEW r \in Request, RefreshSession(r) PROVE  MassProgress(q)'
    BY <1>6 DEF RefreshSession, Goto, reqVars, keyVars, dbVars, flagVars, history
  <1>7. ASSUME NEW r \in Request, RefreshRevoke(r) PROVE  MassProgress(q)'
    BY <1>7 DEF RefreshRevoke, Goto, reqVars, keyVars, dbVars, flagVars, history
  <1>8. ASSUME NEW r \in Request, RefreshStore(r) PROVE  MassProgress(q)'
    BY <1>8 DEF RefreshStore, Goto, reqVars, keyVars, dbVars, flagVars, history
  <1>9. ASSUME NEW r \in Request, LogoutStart(r) PROVE  MassProgress(q)'
    BY <1>9 DEF LogoutStart, Goto, reqVars, keyVars, dbVars, flagVars, history
  <1>10. ASSUME NEW r \in Request, LogoutSession(r) PROVE  MassProgress(q)'
    BY <1>10 DEF LogoutSession, Goto, reqVars, keyVars, dbVars, flagVars, history
  <1>11. ASSUME NEW r \in Request, LogoutRefresh(r) PROVE  MassProgress(q)'
    BY <1>11 DEF LogoutRefresh, Goto, reqVars, keyVars, dbVars, flagVars, history
  <1>12. ASSUME NEW r \in Request, MassLogoutStart(r) PROVE  MassProgress(q)'
    BY <1>12 DEF MassLogoutStart, Goto, reqVars, keyVars, dbVars, flagVars, history, BeginMass
  <1>13. ASSUME NEW r \in Request, MassSessions(r) PROVE  MassProgress(q)'
    BY <1>13 DEF MassSessions, Goto, reqVars, keyVars, dbVars, flagVars, history
  <1>14. ASSUME NEW r \in Request, MassRefresh(r) PROVE  MassProgress(q)'
    BY <1>14 DEF MassRefresh, Goto, reqVars, keyVars, dbVars, flagVars, history
  <1>15. ASSUME NEW r \in Request, MassCommit(r) PROVE  MassProgress(q)'
    BY <1>15 DEF MassCommit, Goto, reqVars, keyVars, dbVars, flagVars, history
  <1>16. ASSUME NEW r \in Request, Forgot(r) PROVE  MassProgress(q)'
    BY <1>16 DEF Forgot, Goto, reqVars, keyVars, dbVars, flagVars, history, Begin
  <1>17. ASSUME NEW r \in Request, Fail(r) PROVE  MassProgress(q)'
    BY <1>17 DEF Fail, Goto, reqVars, keyVars, dbVars, flagVars, history, Steps
  <1>18. ASSUME NEW r \in Request, ExpireAccess(r) PROVE  MassProgress(q)'
    BY <1>18 DEF ExpireAccess, Goto, reqVars, keyVars, dbVars, flagVars, history
  <1>19. ASSUME NEW r \in Request, ExpireRefresh(r) PROVE  MassProgress(q)'
    BY <1>19 DEF ExpireRefresh, Goto, reqVars, keyVars, dbVars, flagVars, history
  <1>20. ASSUME NEW r \in Request, ExpireReset(r) PROVE  MassProgress(q)'
    BY <1>20 DEF ExpireReset, Goto, reqVars, keyVars, dbVars, flagVars, history
  <1>21. ASSUME NEW r \in Request, NEW t \in Request, RefreshVerify(r, t) PROVE  MassProgress(q)'
    BY <1>21 DEF RefreshVerify, Goto, reqVars, keyVars, dbVars, flagVars, history, Begin
  <1>22. ASSUME NEW r \in Request, NEW t \in Request, ResetStart(r, t) PROVE  MassProgress(q)'
    BY <1>22 DEF ResetStart, Goto, reqVars, keyVars, dbVars, flagVars, history, Begin, BeginMass
  <1>23. ASSUME NEW r \in Request, NEW t \in Request,
                 NEW k \in {"logoutBody", "logoutQuery", "logoutAll", "change"},
                 Authenticate(r, k, t)
          PROVE  MassProgress(q)'
    BY <1>23 DEF Authenticate, Goto, reqVars, keyVars, dbVars, flagVars, history, Begin
  <1>24. CASE SwitchUser
    BY <1>24 DEF SwitchUser, Goto, reqVars, keyVars, dbVars, flagVars, history
  <1>25. CASE SwitchInstitution
    BY <1>25 DEF SwitchInstitution, Goto, reqVars, keyVars, dbVars, flagVars, history
  <1>26. CASE UNCHANGED vars
    BY <1>26 DEF vars, reqVars, keyVars, dbVars, flagVars, history, Goto, reqVars, keyVars, dbVars, flagVars, history
  <1>27. QED
    BY <1>1, <1>2, <1>3, <1>4, <1>5, <1>6, <1>7, <1>8, <1>9, <1>10, <1>11, <1>12, <1>13, <1>14, <1>15, <1>16, <1>17, <1>18, <1>19, <1>20, <1>21, <1>22, <1>23, <1>24, <1>25, <1>26
       DEF Next, Arrive, HandlerStep, Environment

-----------------------------------------------------------------------------
(* The token a refresh was given had been delivered, so nothing stores it    *)
(* again.                                                                  *)
LEMMA RotationStep ==
    ASSUME TypeOK, Coherent, KeysStored, RotationInv, [Next]_vars
    PROVE  RotationInv'
  <1> USE NoneIsNoRequest DEF TypeOK, Coherent, RotationInv, Delivered, Steps, LoginSteps, RefreshSteps, LogoutSteps, MassSteps
  <1>1. ASSUME NEW r \in Request, LoginCheck(r) PROVE  RotationInv'
    BY <1>1 DEF LoginCheck, Goto, reqVars, keyVars, dbVars, flagVars, history, Begin
  <1>2. ASSUME NEW r \in Request, LoginSession(r) PROVE  RotationInv'
    BY <1>2 DEF LoginSession, Goto, reqVars, keyVars, dbVars, flagVars, history
  <1>3. ASSUME NEW r \in Request, LoginRefresh(r) PROVE  RotationInv'
    BY <1>3 DEF LoginRefresh, Goto, reqVars, keyVars, dbVars, flagVars, history
  <1>4. ASSUME NEW r \in Request, LoginCommit(r) PROVE  RotationInv'
    BY <1>4 DEF LoginCommit, Goto, reqVars, keyVars, dbVars, flagVars, history
  <1>5. ASSUME NEW r \in Request, RefreshUser(r) PROVE  RotationInv'
    BY <1>5 DEF RefreshUser, Goto, reqVars, keyVars, dbVars, flagVars, history
  <1>6. ASSUME NEW r \in Request, RefreshSession(r) PROVE  RotationInv'
    BY <1>6 DEF RefreshSession, Goto, reqVars, keyVars, dbVars, flagVars, history
  <1>7. ASSUME NEW r \in Request, RefreshRevoke(r) PROVE  RotationInv'
    BY <1>7 DEF RefreshRevoke, Goto, reqVars, keyVars, dbVars, flagVars, history
  <1>8. ASSUME NEW r \in Request, RefreshStore(r) PROVE  RotationInv'
    BY <1>8 DEF RefreshStore, Goto, reqVars, keyVars, dbVars, flagVars, history
  <1>9. ASSUME NEW r \in Request, LogoutStart(r) PROVE  RotationInv'
    BY <1>9 DEF LogoutStart, Goto, reqVars, keyVars, dbVars, flagVars, history
  <1>10. ASSUME NEW r \in Request, LogoutSession(r) PROVE  RotationInv'
    BY <1>10 DEF LogoutSession, Goto, reqVars, keyVars, dbVars, flagVars, history
  <1>11. ASSUME NEW r \in Request, LogoutRefresh(r) PROVE  RotationInv'
    BY <1>11 DEF LogoutRefresh, Goto, reqVars, keyVars, dbVars, flagVars, history
  <1>12. ASSUME NEW r \in Request, MassLogoutStart(r) PROVE  RotationInv'
    BY <1>12 DEF MassLogoutStart, Goto, reqVars, keyVars, dbVars, flagVars, history, BeginMass
  <1>13. ASSUME NEW r \in Request, MassSessions(r) PROVE  RotationInv'
    BY <1>13 DEF MassSessions, Goto, reqVars, keyVars, dbVars, flagVars, history
  <1>14. ASSUME NEW r \in Request, MassRefresh(r) PROVE  RotationInv'
    BY <1>14 DEF MassRefresh, Goto, reqVars, keyVars, dbVars, flagVars, history
  <1>15. ASSUME NEW r \in Request, MassCommit(r) PROVE  RotationInv'
    BY <1>15 DEF MassCommit, Goto, reqVars, keyVars, dbVars, flagVars, history
  <1>16. ASSUME NEW r \in Request, Forgot(r) PROVE  RotationInv'
    BY <1>16 DEF Forgot, Goto, reqVars, keyVars, dbVars, flagVars, history, Begin
  <1>17. ASSUME NEW r \in Request, Fail(r) PROVE  RotationInv'
    BY <1>17 DEF Fail, Goto, reqVars, keyVars, dbVars, flagVars, history
  <1>18. ASSUME NEW r \in Request, ExpireAccess(r) PROVE  RotationInv'
    BY <1>18 DEF ExpireAccess, Goto, reqVars, keyVars, dbVars, flagVars, history
  <1>19. ASSUME NEW r \in Request, ExpireRefresh(r) PROVE  RotationInv'
    BY <1>19 DEF ExpireRefresh, Goto, reqVars, keyVars, dbVars, flagVars, history
  <1>20. ASSUME NEW r \in Request, ExpireReset(r) PROVE  RotationInv'
    BY <1>20 DEF ExpireReset, Goto, reqVars, keyVars, dbVars, flagVars, history
  <1>21. ASSUME NEW r \in Request, NEW t \in Request, RefreshVerify(r, t) PROVE  RotationInv'
    BY <1>21 DEF RefreshVerify, Goto, reqVars, keyVars, dbVars, flagVars, history, Begin
  <1>22. ASSUME NEW r \in Request, NEW t \in Request, ResetStart(r, t) PROVE  RotationInv'
    BY <1>22 DEF ResetStart, Goto, reqVars, keyVars, dbVars, flagVars, history, Begin, BeginMass
  <1>23. ASSUME NEW r \in Request, NEW t \in Request,
                 NEW k \in {"logoutBody", "logoutQuery", "logoutAll", "change"},
                 Authenticate(r, k, t)
          PROVE  RotationInv'
    BY <1>23 DEF Authenticate, Goto, reqVars, keyVars, dbVars, flagVars, history, Begin
  <1>24. CASE SwitchUser
    BY <1>24 DEF SwitchUser, Goto, reqVars, keyVars, dbVars, flagVars, history
  <1>25. CASE SwitchInstitution
    BY <1>25 DEF SwitchInstitution, Goto, reqVars, keyVars, dbVars, flagVars, history
  <1>26. CASE UNCHANGED vars
    BY <1>26 DEF vars, reqVars, keyVars, dbVars, flagVars, history, Goto, reqVars, keyVars, dbVars, flagVars, history
  <1>27. QED
    BY <1>1, <1>2, <1>3, <1>4, <1>5, <1>6, <1>7, <1>8, <1>9, <1>10, <1>11, <1>12, <1>13, <1>14, <1>15, <1>16, <1>17, <1>18, <1>19, <1>20, <1>21, <1>22, <1>23, <1>24, <1>25, <1>26
       DEF Next, Arrive, HandlerStep, Environment

-----------------------------------------------------------------------------
THEOREM InvHolds == Spec => []Inv
  <1>1. Init => Inv
    <2> SUFFICES ASSUME Init PROVE Inv
      OBVIOUS
    <2>1. TypeOK
      BY DEF Init, TypeOK, Kind, Pc
    <2>2. Coherent /\ KeysStored /\ MassInv /\ RotationInv
      BY DEF Init, Coherent, KeysStored, MassInv, MassProgress, MassLogoutDone,
             RotationInv, LoginSteps, RefreshSteps, LogoutSteps, MassSteps
    <2> QED
      BY <2>1, <2>2 DEF Inv
  <1>2. TypeOK' /\ Inv /\ [Next]_vars => Inv'
    BY CoherentStep, KeysStoredStep, MassStep, RotationStep DEF Inv
  <1>3. QED
    BY <1>1, <1>2, TypeCorrect, PTL DEF Spec

(* A completed mass logout has killed every token pair delivered before it *)
(* began.                                                                  *)
THEOREM MassLogoutIsComplete == Spec => []MassLogoutComplete
  <1>1. Inv => MassLogoutComplete
    BY DEF Inv, MassInv, MassProgress, MassLogoutComplete
  <1>2. QED
    BY <1>1, InvHolds, PTL

(* Once its refresh has completed a refresh token is never in Redis again. *)
THEOREM RotatedTokensStayDead == Spec => []RotatedTokenStaysDead
  <1>1. Inv => RotatedTokenStaysDead
    BY DEF Inv, RotationInv, RotatedTokenStaysDead
  <1>2. QED
    BY <1>1, InvHolds, PTL

-----------------------------------------------------------------------------
(* Password reset tokens. *)

(* Only three actions write a reset token.                                 *)
LEMMA ResetTokenWriters ==
    ASSUME [Next]_vars
    PROVE  \/ resetToken' = resetToken
           \/ \E r \in Request : Forgot(r) \/ MassCommit(r) \/ ExpireReset(r)
  <1> USE DEF reqVars, keyVars, dbVars, flagVars, history
  <1>1. ASSUME NEW r \in Request, Arrive(r), ~Forgot(r)
        PROVE  resetToken' = resetToken
    BY <1>1 DEF Arrive, LoginCheck, RefreshVerify, ResetStart, Authenticate
  <1>2. ASSUME NEW r \in Request, HandlerStep(r), ~MassCommit(r)
        PROVE  resetToken' = resetToken
    BY <1>2 DEF HandlerStep, LoginSession, LoginRefresh, LoginCommit, RefreshUser,
           RefreshSession, RefreshRevoke, RefreshStore, LogoutStart, LogoutSession,
           LogoutRefresh, MassLogoutStart, MassSessions, MassRefresh
  <1>3. ASSUME NEW r \in Request, Fail(r) \/ ExpireAccess(r) \/ ExpireRefresh(r)
        PROVE  resetToken' = resetToken
    BY <1>3 DEF Fail, ExpireAccess, ExpireRefresh
  <1>4. ASSUME SwitchUser \/ SwitchInstitution \/ UNCHANGED vars
        PROVE  resetToken' = resetToken
    BY <1>4 DEF SwitchUser, SwitchInstitution, vars
  <1>5. QED
    BY <1>1, <1>2, <1>3, <1>4 DEF Next, Environment

(* At most one reset token can be used, however many requests make them.   *)
THEOREM OneResetTokenOpen == Spec => []OneOpenResetToken
  <1>1. Init => OneOpenResetToken
    BY DEF Init, OneOpenResetToken
  <1>2. TypeOK /\ OneOpenResetToken /\ [Next]_vars => OneOpenResetToken'
    <2> SUFFICES ASSUME TypeOK, OneOpenResetToken, [Next]_vars
                 PROVE  OneOpenResetToken'
      OBVIOUS
    <2> USE DEF TypeOK, OneOpenResetToken
    <2>1. CASE resetToken' = resetToken
      BY <2>1
    <2>2. ASSUME NEW r \in Request, Forgot(r) PROVE OneOpenResetToken'
      BY <2>2 DEF Forgot
    <2>3. ASSUME NEW r \in Request, MassCommit(r) PROVE OneOpenResetToken'
      BY <2>3 DEF MassCommit
    <2>4. ASSUME NEW r \in Request, ExpireReset(r) PROVE OneOpenResetToken'
      BY <2>4 DEF ExpireReset
    <2>5. QED
      BY <2>1, <2>2, <2>3, <2>4, ResetTokenWriters
  <1>3. QED
    BY <1>1, <1>2, TypeCorrect, PTL DEF Spec

(* What a request asked for is settled when it arrives, and one that ended *)
(* well stays so.                                                          *)
LEMMA PastStays ==
    ASSUME TypeOK, Coherent, [Next]_vars,
           NEW q \in Request, kind[q] # "none"
    PROVE  /\ kind'[q] = kind[q]
           /\ tok'[q] = tok[q]
           /\ pc[q] = "done" => pc'[q] = "done"
  <1> USE DEF reqVars, keyVars, dbVars, flagVars, history, Goto, TypeOK
  <1>1. pc[q] # "idle"
    BY DEF Coherent
  <1>2. ASSUME NEW r \in Request, Arrive(r)
        PROVE  r # q /\ kind'[q] = kind[q] /\ tok'[q] = tok[q] /\ pc'[q] = pc[q]
    BY <1>1, <1>2 DEF Arrive, Begin, LoginCheck, Forgot, RefreshVerify, ResetStart,
           Authenticate
  <1>3. ASSUME NEW r \in Request, HandlerStep(r)
        PROVE  /\ kind' = kind /\ tok' = tok
               /\ pc[q] = "done" => pc'[q] = "done"
    <2>1. kind' = kind /\ tok' = tok
      BY <1>3 DEF HandlerStep, LoginSession, LoginRefresh, LoginCommit, RefreshUser,
           RefreshSession, RefreshRevoke, RefreshStore, LogoutStart, LogoutSession,
           LogoutRefresh, MassLogoutStart, MassSessions, MassRefresh, MassCommit
    <2>2. CASE LoginSession(r) \/ LoginRefresh(r) \/ LoginCommit(r)
      BY <2>1, <2>2 DEF LoginSession, LoginRefresh, LoginCommit
    <2>3. CASE \/ RefreshUser(r) \/ RefreshSession(r) \/ RefreshRevoke(r)
               \/ RefreshStore(r)
      BY <2>1, <2>3 DEF RefreshUser, RefreshSession, RefreshRevoke, RefreshStore
    <2>4. CASE LogoutStart(r) \/ LogoutSession(r) \/ LogoutRefresh(r)
      BY <2>1, <2>4 DEF LogoutStart, LogoutSession, LogoutRefresh
    <2>5. CASE \/ MassLogoutStart(r) \/ MassSessions(r) \/ MassRefresh(r)
               \/ MassCommit(r)
      BY <2>1, <2>5 DEF MassLogoutStart, MassSessions, MassRefresh, MassCommit
    <2>6. QED
      BY <1>3, <2>2, <2>3, <2>4, <2>5 DEF HandlerStep
  <1>4. ASSUME NEW r \in Request, Fail(r)
        PROVE  kind' = kind /\ tok' = tok /\ (pc[q] = "done" => pc'[q] = "done")
    BY <1>4 DEF Fail, Steps, LoginSteps, RefreshSteps, LogoutSteps, MassSteps
  <1>5. ASSUME \/ \E r \in Request : ExpireAccess(r) \/ ExpireRefresh(r) \/ ExpireReset(r)
               \/ SwitchUser \/ SwitchInstitution \/ UNCHANGED vars
        PROVE  kind' = kind /\ tok' = tok /\ pc' = pc
    BY <1>5 DEF ExpireAccess, ExpireRefresh, ExpireReset, SwitchUser,
           SwitchInstitution, vars
  <1>6. QED
    BY <1>2, <1>3, <1>4, <1>5 DEF Next, Environment

(* A reset token is spent only by a reset that ended or by another         *)
(* forgot_password.                                                        *)
THEOREM ResetTokensSpentForAReason == Spec => []ResetTokenSpentForAReason
  <1>1. Init => ResetTokenSpentForAReason
    BY DEF Init, ResetTokenSpentForAReason
  <1>2. TypeOK /\ Coherent /\ ResetTokenSpentForAReason /\ [Next]_vars
            => ResetTokenSpentForAReason'
    <2> SUFFICES ASSUME TypeOK, Coherent, ResetTokenSpentForAReason, [Next]_vars,
                        NEW t \in Request, resetToken'[t] = "used"
                 PROVE  \/ \E r \in Request : kind'[r] = "reset" /\ tok'[r] = t /\ pc'[r] = "done"
                        \/ \E u \in Request : u # t /\ kind'[u] = "forgot"
      BY DEF ResetTokenSpentForAReason
    <2>1. CASE resetToken[t] = "used"
      <3>1. \/ \E r \in Request : kind[r] = "reset" /\ tok[r] = t /\ pc[r] = "done"
            \/ \E u \in Request : u # t /\ kind[u] = "forgot"
        BY <2>1 DEF ResetTokenSpentForAReason
      <3>2. QED
        BY <3>1, PastStays
    <2>2. ASSUME resetToken[t] # "used", NEW r \in Request, Forgot(r)
          PROVE  r # t /\ kind'[r] = "forgot"
      BY <2>2 DEF Forgot, Begin, TypeOK
    <2>3. ASSUME resetToken[t] # "used", NEW r \in Request, MassCommit(r)
          PROVE  kind'[r] = "reset" /\ tok'[r] = t /\ pc'[r] = "done"
      BY <2>3 DEF MassCommit, Goto, TypeOK
    <2>4. ASSUME NEW r \in Request, ExpireReset(r)
          PROVE  resetToken[t] = "used"
      BY <2>4 DEF ExpireReset, TypeOK
    <2>5. QED
      BY <2>1, <2>2, <2>3, <2>4, ResetTokenWriters
  <1>3. QED
    BY <1>1, <1>2, TypeCorrect, InvHolds, PTL DEF Spec, Inv

-----------------------------------------------------------------------------
(* The refinements. *)

(* A step of the account is a step of its access tokens' life, or none.    *)
LEMMA AccessStep ==
    ASSUME Inv, Inv', [Next]_vars
    PROVE  [Access!Next]_AccessLife
  <1>a. ASSUME NEW r \in Request, Access!Issue(r) \/ Access!Void(r)
        PROVE  Access!Next
    BY <1>a DEF Access!Next
  <1>b. ASSUME NEW S \in SUBSET Request, Access!Revoke(S)
        PROVE  Access!Next
    BY <1>b DEF Access!Next
  <1>c. TypeOK /\ Coherent /\ KeysStored
    BY DEF Inv
  <1> USE <1>c DEF TypeOK, Coherent, KeysStored, AccessLife, Stored, LoginSteps, RefreshSteps,
        LogoutSteps, MassSteps
  <1>1. ASSUME NEW r \in Request, LoginCheck(r) PROVE  [Access!Next]_AccessLife
    BY <1>1 DEF LoginCheck, Begin, Goto, reqVars, keyVars, dbVars, flagVars, history
  <1>2. ASSUME NEW r \in Request, LoginSession(r) PROVE  [Access!Next]_AccessLife
    <2>1. Access!Issue(r)
      BY <1>2 DEF LoginSession, Goto, Access!Issue
    <2> HIDE DEF AccessLife
    <2> QED
      BY <2>1, <1>a
  <1>3. ASSUME NEW r \in Request, LoginRefresh(r) PROVE  [Access!Next]_AccessLife
    BY <1>3 DEF LoginRefresh, Goto, reqVars, keyVars, dbVars, flagVars, history
  <1>4. ASSUME NEW r \in Request, LoginCommit(r) PROVE  [Access!Next]_AccessLife
    BY <1>4 DEF LoginCommit, Goto, reqVars, keyVars, dbVars, flagVars, history
  <1>5. ASSUME NEW r \in Request, RefreshUser(r) PROVE  [Access!Next]_AccessLife
    BY <1>5 DEF RefreshUser, Goto, reqVars, keyVars, dbVars, flagVars, history
  <1>6. ASSUME NEW r \in Request, RefreshSession(r) PROVE  [Access!Next]_AccessLife
    <2>1. Access!Issue(r)
      BY <1>6 DEF RefreshSession, Goto, Access!Issue
    <2> HIDE DEF AccessLife
    <2> QED
      BY <2>1, <1>a
  <1>7. ASSUME NEW r \in Request, RefreshRevoke(r) PROVE  [Access!Next]_AccessLife
    BY <1>7 DEF RefreshRevoke, Goto, reqVars, keyVars, dbVars, flagVars, history
  <1>8. ASSUME NEW r \in Request, RefreshStore(r) PROVE  [Access!Next]_AccessLife
    BY <1>8 DEF RefreshStore, Goto, reqVars, keyVars, dbVars, flagVars, history
  <1>9. ASSUME NEW r \in Request, LogoutStart(r) PROVE  [Access!Next]_AccessLife
    BY <1>9 DEF LogoutStart, Goto, reqVars, keyVars, dbVars, flagVars, history
  <1>10. ASSUME NEW r \in Request, LogoutSession(r) PROVE  [Access!Next]_AccessLife
    <2>1. Access!Revoke(sessions \ sessions')
      BY <1>10 DEF LogoutSession, Goto, reqVars, Access!Revoke
    <2>2. sessions \ sessions' \in SUBSET Request
      OBVIOUS
    <2> HIDE DEF AccessLife
    <2> QED
      BY <2>1, <2>2, <1>b
  <1>11. ASSUME NEW r \in Request, LogoutRefresh(r) PROVE  [Access!Next]_AccessLife
    BY <1>11 DEF LogoutRefresh, Goto, reqVars, keyVars, dbVars, flagVars, history
  <1>12. ASSUME NEW r \in Request, MassLogoutStart(r) PROVE  [Access!Next]_AccessLife
    BY <1>12 DEF MassLogoutStart, BeginMass, Goto, reqVars, keyVars, dbVars, flagVars, history
  <1>13. ASSUME NEW r \in Request, MassSessions(r) PROVE  [Access!Next]_AccessLife
    <2>1. Access!Revoke(sessions \ sessions')
      BY <1>13 DEF MassSessions, Goto, reqVars, Access!Revoke
    <2>2. sessions \ sessions' \in SUBSET Request
      OBVIOUS
    <2> HIDE DEF AccessLife
    <2> QED
      BY <2>1, <2>2, <1>b
  <1>14. ASSUME NEW r \in Request, MassRefresh(r) PROVE  [Access!Next]_AccessLife
    BY <1>14 DEF MassRefresh, Goto, reqVars, keyVars, dbVars, flagVars, history
  <1>15. ASSUME NEW r \in Request, MassCommit(r) PROVE  [Access!Next]_AccessLife
    BY <1>15 DEF MassCommit, Goto, reqVars, keyVars, dbVars, flagVars, history
  <1>16. ASSUME NEW r \in Request, Forgot(r) PROVE  [Access!Next]_AccessLife
    BY <1>16 DEF Forgot, Begin, Goto, reqVars, keyVars, dbVars, flagVars, history
  <1>17. ASSUME NEW r \in Request, Fail(r) PROVE  [Access!Next]_AccessLife
    <2>1. CASE AccessLife[r] = "fresh" /\ kind[r] \in {"login", "refresh"}
      <3>1. \A q \in Request : AccessLife'[q] = IF q = r THEN "dead" ELSE AccessLife[q]
        BY <1>17, <2>1 DEF Fail, Steps, Goto, keyVars
      <3>2. AccessLife = [q \in Request |-> AccessLife[q]] /\ AccessLife' = [q \in Request |-> AccessLife'[q]]
        OBVIOUS
      <3> HIDE DEF AccessLife
      <3>3. Access!Void(r)
        BY <2>1, <3>1, <3>2 DEF Access!Void
      <3> QED
        BY <3>3, <1>a
    <2>2. CASE ~(AccessLife[r] = "fresh" /\ kind[r] \in {"login", "refresh"})
      BY <1>17, <2>2 DEF Fail, Steps, Goto, keyVars
    <2> QED
      BY <2>1, <2>2
  <1>18. ASSUME NEW r \in Request, ExpireAccess(r) PROVE  [Access!Next]_AccessLife
    <2>1. Access!Revoke(sessions \ sessions')
      BY <1>18 DEF ExpireAccess, Goto, reqVars, Access!Revoke
    <2>2. sessions \ sessions' \in SUBSET Request
      OBVIOUS
    <2> HIDE DEF AccessLife
    <2> QED
      BY <2>1, <2>2, <1>b
  <1>19. ASSUME NEW r \in Request, ExpireRefresh(r) PROVE  [Access!Next]_AccessLife
    BY <1>19 DEF ExpireRefresh, Goto, reqVars, keyVars, dbVars, flagVars, history
  <1>20. ASSUME NEW r \in Request, ExpireReset(r) PROVE  [Access!Next]_AccessLife
    BY <1>20 DEF ExpireReset, Goto, reqVars, keyVars, dbVars, flagVars, history
  <1>21. ASSUME NEW r \in Request, NEW t \in Request,
               RefreshVerify(r, t)
        PROVE  [Access!Next]_AccessLife
    BY <1>21 DEF RefreshVerify, Begin, Goto, reqVars, keyVars, dbVars, flagVars, history
  <1>22. ASSUME NEW r \in Request, NEW t \in Request,
               ResetStart(r, t)
        PROVE  [Access!Next]_AccessLife
    BY <1>22 DEF ResetStart, Begin, BeginMass, Goto, reqVars, keyVars, dbVars, flagVars, history
  <1>23. ASSUME NEW r \in Request, NEW t \in Request,
               NEW k \in {"logoutBody", "logoutQuery", "logoutAll", "change"},
               Authenticate(r, k, t)
        PROVE  [Access!Next]_AccessLife
    BY <1>23 DEF Authenticate, Begin, Goto, reqVars, keyVars, dbVars, flagVars, history
  <1>24. CASE SwitchUser
    BY <1>24 DEF SwitchUser, Goto, reqVars, keyVars, dbVars, flagVars, history
  <1>25. CASE SwitchInstitution
    BY <1>25 DEF SwitchInstitution, Goto, reqVars, keyVars, dbVars, flagVars, history
  <1>26. CASE UNCHANGED vars
    BY <1>26 DEF vars, reqVars, keyVars
  <1>27. QED
    BY <1>1, <1>2, <1>3, <1>4, <1>5, <1>6, <1>7, <1>8, <1>9, <1>10, <1>11, <1>12, <1>13, <1>14, <1>15, <1>16, <1>17, <1>18, <1>19, <1>20, <1>21, <1>22, <1>23, <1>24, <1>25, <1>26
       DEF Next, Arrive, HandlerStep, Environment

(* The session keys implement TokenLife: a session that ended never comes  *)
(* back.                                                                   *)
THEOREM AccessRefinement == Spec => AccessKeysImplementTokenLife
  <1>1. Init => Access!Init
    BY DEF Init, Access!Init, AccessLife, Stored
  <1>2. Inv /\ Inv' /\ [Next]_vars => [Access!Next]_AccessLife
    BY AccessStep
  <1>3. QED
    BY <1>1, <1>2, InvHolds, PTL DEF Spec, AccessKeysImplementTokenLife, Access!Spec

(* A step of the account is a step of its refresh tokens' life, or none.   *)
LEMMA RefreshStep ==
    ASSUME Inv, Inv', [Next]_vars
    PROVE  [Refresh!Next]_RefreshLife
  <1>a. ASSUME NEW r \in Request, Refresh!Issue(r) \/ Refresh!Void(r)
        PROVE  Refresh!Next
    BY <1>a DEF Refresh!Next
  <1>b. ASSUME NEW S \in SUBSET Request, Refresh!Revoke(S)
        PROVE  Refresh!Next
    BY <1>b DEF Refresh!Next
  <1>c. TypeOK /\ Coherent /\ KeysStored
    BY DEF Inv
  <1> USE <1>c DEF TypeOK, Coherent, KeysStored, RefreshLife, Stored, LoginSteps, RefreshSteps,
        LogoutSteps, MassSteps
  <1>1. ASSUME NEW r \in Request, LoginCheck(r) PROVE  [Refresh!Next]_RefreshLife
    BY <1>1 DEF LoginCheck, Begin, Goto, reqVars, keyVars, dbVars, flagVars, history
  <1>2. ASSUME NEW r \in Request, LoginSession(r) PROVE  [Refresh!Next]_RefreshLife
    BY <1>2 DEF LoginSession, Goto, reqVars, keyVars, dbVars, flagVars, history
  <1>3. ASSUME NEW r \in Request, LoginRefresh(r) PROVE  [Refresh!Next]_RefreshLife
    <2>1. Refresh!Issue(r)
      BY <1>3 DEF LoginRefresh, Goto, Refresh!Issue
    <2> HIDE DEF RefreshLife
    <2> QED
      BY <2>1, <1>a
  <1>4. ASSUME NEW r \in Request, LoginCommit(r) PROVE  [Refresh!Next]_RefreshLife
    BY <1>4 DEF LoginCommit, Goto, reqVars, keyVars, dbVars, flagVars, history
  <1>5. ASSUME NEW r \in Request, RefreshUser(r) PROVE  [Refresh!Next]_RefreshLife
    BY <1>5 DEF RefreshUser, Goto, reqVars, keyVars, dbVars, flagVars, history
  <1>6. ASSUME NEW r \in Request, RefreshSession(r) PROVE  [Refresh!Next]_RefreshLife
    BY <1>6 DEF RefreshSession, Goto, reqVars, keyVars, dbVars, flagVars, history
  <1>7. ASSUME NEW r \in Request, RefreshRevoke(r) PROVE  [Refresh!Next]_RefreshLife
    <2>1. Refresh!Revoke(refreshKeys \ refreshKeys')
      BY <1>7 DEF RefreshRevoke, Goto, reqVars, Refresh!Revoke
    <2>2. refreshKeys \ refreshKeys' \in SUBSET Request
      OBVIOUS
    <2> HIDE DEF RefreshLife
    <2> QED
      BY <2>1, <2>2, <1>b
  <1>8. ASSUME NEW r \in Request, RefreshStore(r) PROVE  [Refresh!Next]_RefreshLife
    <2>1. Refresh!Issue(r)
      BY <1>8 DEF RefreshStore, Goto, Refresh!Issue
    <2> HIDE DEF RefreshLife
    <2> QED
      BY <2>1, <1>a
  <1>9. ASSUME NEW r \in Request, LogoutStart(r) PROVE  [Refresh!Next]_RefreshLife
    BY <1>9 DEF LogoutStart, Goto, reqVars, keyVars, dbVars, flagVars, history
  <1>10. ASSUME NEW r \in Request, LogoutSession(r) PROVE  [Refresh!Next]_RefreshLife
    BY <1>10 DEF LogoutSession, Goto, reqVars, keyVars, dbVars, flagVars, history
  <1>11. ASSUME NEW r \in Request, LogoutRefresh(r) PROVE  [Refresh!Next]_RefreshLife
    <2>1. Refresh!Revoke(refreshKeys \ refreshKeys')
      BY <1>11 DEF LogoutRefresh, Goto, reqVars, Refresh!Revoke
    <2>2. refreshKeys \ refreshKeys' \in SUBSET Request
      OBVIOUS
    <2> HIDE DEF RefreshLife
    <2> QED
      BY <2>1, <2>2, <1>b
  <1>12. ASSUME NEW r \in Request, MassLogoutStart(r) PROVE  [Refresh!Next]_RefreshLife
    BY <1>12 DEF MassLogoutStart, BeginMass, Goto, reqVars, keyVars, dbVars, flagVars, history
  <1>13. ASSUME NEW r \in Request, MassSessions(r) PROVE  [Refresh!Next]_RefreshLife
    BY <1>13 DEF MassSessions, Goto, reqVars, keyVars, dbVars, flagVars, history
  <1>14. ASSUME NEW r \in Request, MassRefresh(r) PROVE  [Refresh!Next]_RefreshLife
    <2>1. Refresh!Revoke(refreshKeys \ refreshKeys')
      BY <1>14 DEF MassRefresh, Goto, reqVars, Refresh!Revoke
    <2>2. refreshKeys \ refreshKeys' \in SUBSET Request
      OBVIOUS
    <2> HIDE DEF RefreshLife
    <2> QED
      BY <2>1, <2>2, <1>b
  <1>15. ASSUME NEW r \in Request, MassCommit(r) PROVE  [Refresh!Next]_RefreshLife
    BY <1>15 DEF MassCommit, Goto, reqVars, keyVars, dbVars, flagVars, history
  <1>16. ASSUME NEW r \in Request, Forgot(r) PROVE  [Refresh!Next]_RefreshLife
    BY <1>16 DEF Forgot, Begin, Goto, reqVars, keyVars, dbVars, flagVars, history
  <1>17. ASSUME NEW r \in Request, Fail(r) PROVE  [Refresh!Next]_RefreshLife
    <2>1. CASE RefreshLife[r] = "fresh" /\ kind[r] \in {"login", "refresh"}
      <3>1. \A q \in Request : RefreshLife'[q] = IF q = r THEN "dead" ELSE RefreshLife[q]
        BY <1>17, <2>1 DEF Fail, Steps, Goto, keyVars
      <3>2. RefreshLife = [q \in Request |-> RefreshLife[q]] /\ RefreshLife' = [q \in Request |-> RefreshLife'[q]]
        OBVIOUS
      <3> HIDE DEF RefreshLife
      <3>3. Refresh!Void(r)
        BY <2>1, <3>1, <3>2 DEF Refresh!Void
      <3> QED
        BY <3>3, <1>a
    <2>2. CASE ~(RefreshLife[r] = "fresh" /\ kind[r] \in {"login", "refresh"})
      BY <1>17, <2>2 DEF Fail, Steps, Goto, keyVars
    <2> QED
      BY <2>1, <2>2
  <1>18. ASSUME NEW r \in Request, ExpireAccess(r) PROVE  [Refresh!Next]_RefreshLife
    BY <1>18 DEF ExpireAccess, Goto, reqVars, keyVars, dbVars, flagVars, history
  <1>19. ASSUME NEW r \in Request, ExpireRefresh(r) PROVE  [Refresh!Next]_RefreshLife
    <2>1. Refresh!Revoke(refreshKeys \ refreshKeys')
      BY <1>19 DEF ExpireRefresh, Goto, reqVars, Refresh!Revoke
    <2>2. refreshKeys \ refreshKeys' \in SUBSET Request
      OBVIOUS
    <2> HIDE DEF RefreshLife
    <2> QED
      BY <2>1, <2>2, <1>b
  <1>20. ASSUME NEW r \in Request, ExpireReset(r) PROVE  [Refresh!Next]_RefreshLife
    BY <1>20 DEF ExpireReset, Goto, reqVars, keyVars, dbVars, flagVars, history
  <1>21. ASSUME NEW r \in Request, NEW t \in Request,
               RefreshVerify(r, t)
        PROVE  [Refresh!Next]_RefreshLife
    BY <1>21 DEF RefreshVerify, Begin, Goto, reqVars, keyVars, dbVars, flagVars, history
  <1>22. ASSUME NEW r \in Request, NEW t \in Request,
               ResetStart(r, t)
        PROVE  [Refresh!Next]_RefreshLife
    BY <1>22 DEF ResetStart, Begin, BeginMass, Goto, reqVars, keyVars, dbVars, flagVars, history
  <1>23. ASSUME NEW r \in Request, NEW t \in Request,
               NEW k \in {"logoutBody", "logoutQuery", "logoutAll", "change"},
               Authenticate(r, k, t)
        PROVE  [Refresh!Next]_RefreshLife
    BY <1>23 DEF Authenticate, Begin, Goto, reqVars, keyVars, dbVars, flagVars, history
  <1>24. CASE SwitchUser
    BY <1>24 DEF SwitchUser, Goto, reqVars, keyVars, dbVars, flagVars, history
  <1>25. CASE SwitchInstitution
    BY <1>25 DEF SwitchInstitution, Goto, reqVars, keyVars, dbVars, flagVars, history
  <1>26. CASE UNCHANGED vars
    BY <1>26 DEF vars, reqVars, keyVars
  <1>27. QED
    BY <1>1, <1>2, <1>3, <1>4, <1>5, <1>6, <1>7, <1>8, <1>9, <1>10, <1>11, <1>12, <1>13, <1>14, <1>15, <1>16, <1>17, <1>18, <1>19, <1>20, <1>21, <1>22, <1>23, <1>24, <1>25, <1>26
       DEF Next, Arrive, HandlerStep, Environment

(* The refresh keys implement TokenLife: a refresh token that was revoked   *)
(* or rotated out never comes back.                                        *)
THEOREM RefreshRefinement == Spec => RefreshKeysImplementTokenLife
  <1>1. Init => Refresh!Init
    BY DEF Init, Refresh!Init, RefreshLife, Stored
  <1>2. Inv /\ Inv' /\ [Next]_vars => [Refresh!Next]_RefreshLife
    BY RefreshStep
  <1>3. QED
    BY <1>1, <1>2, InvHolds, PTL DEF Spec, RefreshKeysImplementTokenLife, Refresh!Spec

(* Both kinds of key implement TokenLife: neither an access token nor a    *)
(* refresh token that has left Redis is ever accepted again.               *)
THEOREM KeysRefinement == Spec => KeysImplementTokenLife
  BY AccessRefinement, RefreshRefinement DEF KeysImplementTokenLife
=============================================================================
