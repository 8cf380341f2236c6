# Formal verification of eduApp

TLA+ models of the stateful core of eduApp (a FastAPI backend in `src/src`, a
React web client in `src/frontend`, an Expo mobile client in `src/mobile`), the
TLC configurations that check them, and proofs that the TLA+ proof system
checks. Paths below are relative to the repository.

1. [What the system is made of](#1-what-the-system-is-made-of)
2. [Modules](#2-modules)
3. [AuthSession](#3-authsession), [WebSession](#4-websession), [RealtimeHub](#5-realtimehub),
   [Subscription](#6-subscription), [Merchandise](#7-merchandise), [Election](#8-election),
   [OfflineQueue](#9-offlinequeue), [Notifications](#10-notifications)
4. [Runs](#11-runs), [bounds](#12-bounds), [fairness](#13-fairness), [proofs](#14-proofs)
5. [Where the code and its documents disagree](#15-where-the-code-and-its-documents-disagree)
6. [What is not modelled](#16-what-is-not-modelled)
7. [Plan](#17-plan)

To repeat a check, in this directory:

    tlc -workers 2 -config MCSubscription.cfg MCSubscription
    tlapm AuthSessionProofs.tla

## 1. What the system is made of

The backend is one FastAPI application, which the production image starts as
four uvicorn workers (`Dockerfile.prod:67`), each an event loop. Handlers share
MySQL (through SQLAlchemy, one session per request, `database.py:23`) and Redis
(sessions, Celery's broker). A Celery worker and beat run periodic tasks;
billing runs from a script of its own that cron starts, with nothing to keep two runs
apart (`scripts/subscription_scheduler.py`). Real-time messages go through WebSockets
that each worker keeps in memory. The two clients hold tokens, refresh them on a
401, and the mobile one queues requests while it is offline.

Five sources of concurrency follow, and they shape every model here:

* two requests interleave at every `await` and, across workers, between any two
  statements; no database row is ever locked and no `UPDATE` carries a condition;
* a periodic task works from a list it selected some time ago;
* a WebSocket endpoint is a coroutine that walks shared sets of sockets and awaits
  a send at each, while others connect and disconnect;
* a page of the web client, and the mobile app, is one JavaScript thread whose calls
  interleave at each `await`; pages share localStorage, and the phone may kill the
  app at any point;
* Razorpay and Printful answer late or never, and repeat and reorder their webhooks.

### Modelled

| Component | State | Operations | Interacts with | Hard behaviour | What makes it correct |
| --- | --- | --- | --- | --- | --- |
| **Authentication and sessions** (`services/auth_service.py`, `utils/session.py`, `dependencies/auth.py`, `api/v1/auth.py`) | Redis keys `session:{user}:{token}`, `refresh:{user}:{token}`; `users.hashed_password`, `is_active`; `password_reset_tokens` | login, refresh, logout, logout-all, change password, forgot, reset; every authenticated request | Redis (EXISTS, SETEX, DEL, SCAN), the database, the clients' refresh | a handler is a chain of Redis commands with other handlers in between; SCAN is not a snapshot; Redis first, database last | a mass logout misses nothing; a rotated token stays dead; dead tokens never come back; one usable reset token |
| **Web client session** (`frontend/src/lib/axios.ts`, `lib/tokenManager.ts`, `hooks/useTokenRefresh.ts`, `hooks/useSessionTimeout.ts`, `hooks/useAuth.ts`, `store/useAuthStore.ts`, `components/auth/AuthProvider.tsx`, `ProtectedRoute.tsx`) | tokens in localStorage; per page: signed in or not, `isRefreshing`, `failedQueue`, the hook's ref | load, login, logout, API calls with the interceptor's refresh and queue, the timer's refresh, the idle timer | the authentication endpoints; other pages of the browser | the refresh passes through the interceptor it serves; answers after a sign-out; one rotated token for several pages | nothing queued without a refresh; a refresh ends; signing out reaches every page and leaves no token the server still takes |
| **Real-time hub** (`services/websocket_manager.py`, `api/v1/websocket.py`, `services/realtime_service.py`) | sockets per user, presence, rooms; each endpoint's loops | connect, disconnect, subscribe, unsubscribe, typing, presence, personal and room messages | clients; REST handlers that notify | live sets walked across awaits; iterators that raise; errors that skip the clean-up | presence follows the sockets; a served socket stays registered; closed ones leave |
| **Subscription billing** (`services/subscription_service.py`, `utils/subscription_tasks.py`, `api/v1/webhooks.py`, `api/v1/subscriptions.py`, `scripts/subscription_scheduler.py`) | `subscriptions`, `invoices`, `payments` | create, cancel now or at period end, update, renew, invoice, mark paid, pay, verify; `payment.captured` and `payment.failed` webhooks; four scheduler tasks | Razorpay (webhooks late, repeated), cron, super admin | read-check-commit without locks; one transaction split in three; stale lists; runs that overlap; crashes between the transactions | no bill in a trial; runs that do not overlap bill a period once; whatever is due is processed in the end |
| **Merchandise orders** (`services/merchandise_service.py`, `api/v1/merchandise.py`, `services/printful_service.py`) | stock, orders, commissions; Printful's orders | create, initiate payment, verify, update, submit, Printful's webhooks | Razorpay, Printful (answers lost, webhooks late, repeated, reordered) | stock read in one statement and written in another; an await between the check of an order and its write | the stock is never short; nothing is made without a verified payment; commissions go with captured payments; what is made is known; orders go back only by hand, or for a reason |
| **School elections** (`api/v1/elections.py`) | status, ranking, candidates, `voter_registry.has_voted`, `votes`, `election_results` | open, close, approve, withdraw, register, vote, ranked vote, count | the database; students and administrators | each handler checks a snapshot and commits later, on four workers; counts overlap; two ballots of one voter are both counted | two ballots of a voter only if sent at once; results miss late ballots only; who is preferred by all is ahead |
| **Mobile offline queue** (`mobile/src/utils/offlineQueue.ts`, `mobile/src/api/client.ts`) | `queue`, `isProcessing`, `isOnline`, the AsyncStorage item | add, process, remove, clear, clear failed, retry failed, load, save, network event | AsyncStorage, NetInfo, axios and its interceptor (which queues copies), the server | a flag tested before an `await` and set after it; kills between answer and save; asynchronous load | accepted requests are not lost, are sent in order and once; no lost wake-up; the flag is released |
| **Notifications** (`services/notification_service.py`, `tasks/notification_tasks.py`, `api/v1/notifications.py`, `celery_app.py`) | `notifications` rows (status, group, error, retries), tasks in the broker | create, send, group, queue the failed and the grouped again, read, delete | Celery's workers and beat, the e-mail, SMS and push providers, users | tasks are lost with their worker; a task is queued before or after the commit it depends on; periodic runs overlap and work from old lists; a notification may be grouped with itself, or with a newer one by every run | none is left where nothing looks for it; the provider takes each once; each leaves PENDING and BATCHED once newer ones stop coming |

### Not modelled yet, or not to be

`PROJECT.json` lists each with its sources and the reason. In short:

| Component | State | Operations | Hard behaviour | What would make it correct |
| --- | --- | --- | --- | --- |
| Mobile token refresh (`mobile/src/api/client.ts:95`) | `refreshTokenPromise`, secure storage | response interceptor | none: no request carries a token (section 16) | - |
| Real-time clients (`frontend/src/lib/websocket.ts`, `mobile/src/services/websocketService.ts`) | socket, attempt counter, timer | connect, disconnect, reconnect | the close event after a disconnect; two timers | no socket after a disconnect; at most one socket |
| Live classroom and live events | as the hub, and meeting rows | join, leave, start, end | the same | the same |
| Event tickets (`services/event_ticket_service.py`) | payment status, refunded, redeemed | create, redeem, refund; nothing calls complete or fail | none: no ticket is ever paid | - |
| Conferences (`services/conference_service.py`) | a slot's counter, bookings, reminders | book (which always fails, section 16), cancel, check in, complete | capacity check and counter with a call to Zoom in between | counter equals live bookings and stays in its limit |
| Quizzes, carpools, tutoring, library, gamification | counters against rows | attempt, join, book, issue, award | the same check-then-insert | the counter equals the rows and stays in its limit |
| Announcements, conference notices | pending notification rows | create; nothing queues them (section 15) | none: no task is ever made for them | - |
| Celery tasks other than those of notifications | reports, caches | recompute | none: they rebuild what they read | - |
| Institutions, users, roles, tenants, messaging, attendance, grades, documents, credentials | rows | CRUD in one transaction each | little interaction between requests | access rules, which are one-step predicates |
| Rate limiting, machine learning, recommendation, database maintenance, migrations, user interfaces, deployment | - | - | libraries, numerics, I/O, generated code, layout | out of a model checker's reach or without protocol state |

## 2. Modules

| Module | What it is |
| --- | --- |
| `TokenLife.tla` | abstract specification: a token is fresh, then live, then dead for ever |
| `AuthSession.tla` | the tokens, the password and the reset tokens of one account; instantiates `TokenLife` twice |
| `AuthSessionProofs.tla` | theorems about `AuthSession`, for any set of requests |
| `MCAuthSession.tla` | its instance for TLC |
| `WebSession.tla` | the pages of one browser: tokens, interceptor, refresh hook, idle timer, against a server that rotates refresh tokens |
| `WebSessionProofs.tla` | theorems about `WebSession`, for any pages, calls and logins |
| `MCWebSession.tla` | its instance for TLC |
| `RealtimeHub.tla` | the connection manager, the `/ws` endpoints and the handlers that notify |
| `RealtimeHubProofs.tla` | theorems about `RealtimeHub`, for any users, sockets and handlers |
| `MCRealtimeHub.tla` | its instances for TLC |
| `Subscription.tla` | subscriptions, invoices, payments, API, webhooks and the scheduler |
| `SubscriptionProofs.tla` | theorems about `Subscription`, for any subscriptions, requests and durations |
| `MCSubscription.tla` | its instances for TLC |
| `Merchandise.tla` | merchandise orders, stock, commissions, Razorpay's payments and Printful |
| `MerchandiseProofs.tla` | theorems about `Merchandise`, for any orders and submissions |
| `MCMerchandise.tla` | its instance for TLC |
| `Election.tla` | one election: its administration, the ballots and the counts |
| `ElectionProofs.tla` | theorems about `Election`, for any counts and voters, and finitely many requests and candidates |
| `MCElection.tla` | its instance for TLC |
| `OfflineQueue.tla` | the mobile app's queue, its HTTP client, AsyncStorage and NetInfo |
| `Outbox.tla` | what an outbox on the phone promises, abstractly |
| `OfflineQueueProofs.tla` | theorems about `OfflineQueue`, for any requests, retries and restarts, and finitely many calls |
| `MCOfflineQueue.tla` | its instances for TLC |
| `Notifications.tla` | one user's notifications of one type and group, and the Celery tasks that deliver them |
| `NotificationsProofs.tla` | theorems about `Notifications`, for any notifications, workers and bounds |
| `MCNotifications.tla` | its instance for TLC |

The definitions marked "Mutant" in a module are what a plausible mistake in the
code would make of the definition that follows them. `PROJECT.json` names, for
every checked property, the mutant that breaks it: substituted for the original
under the same configuration, it makes TLC report that property. No
specification uses them.

## 3. AuthSession

One account; every key and row carries the user id, so accounts do not
interact. A `Request` is one HTTP request, and its name doubles as the name of
whatever it creates (a JWT carries a uuid4 `jti`, so no two are equal).

| Model | Code |
| --- | --- |
| `sessions`, `refreshKeys` | keys `session:*`, `refresh:*` (`utils/session.py`) |
| `age` | expiry of the JWT and of its key: 30 minutes, 7 days (`utils/security.py:19-53`) |
| `password`, `resetToken` | `users.hashed_password`; rows of `password_reset_tokens` |
| `pc` | where a handler awaits: one action per Redis command |
| `scan` | what a SCAN loop has to return: the keys present when it began |
| `LoginCheck` .. `LoginCommit` | `AuthService.login` |
| `RefreshVerify` .. `RefreshStore` | `refresh_access_token`: EXISTS, user, SETEX session, DEL, SETEX refresh |
| `Authenticate`, `LogoutStart` .. `LogoutRefresh` | `get_current_user`, then `logout` |
| `MassLogoutStart`, `MassSessions`, `MassRefresh`, `MassCommit` | `logout_all_sessions` and, after it, the commit of a password change or reset |
| `Forgot`, `ResetStart` | `create_password_reset_token`, `reset_password` |
| `Fail` | a check fails, Redis or the database raises, the worker dies; the ORM session rolls back |

`MassSessions` and `MassRefresh` give SCAN exactly its documented guarantee: a
key present from start to end is returned; any other may or may not be. A batch
is any set of keys, so the loop may take one step or many.

`logoutQuery` and `logoutBody` are the same endpoint: `refresh_token` is a query
parameter (`api/v1/auth.py:66`), so a client that sends it in the body ends only
its session key.

Two things are taken from the environment of the code: no request outlives its
own access token's 30 minutes, and Redis is available (without it,
`SessionManager` trusts any unexpired JWT and all of this is void).

`cred` and `before` are history: the password token's login was checked on, and
the tokens clients held when a mass logout began.

## 4. WebSession

One browser, `Tab` its open pages. A page is one JavaScript thread, so a callback
up to its next `await` is one action.

| Model | Code |
| --- | --- |
| `access`, `refresh`, `fresh` | localStorage: the access token (none, one the server gave, or the text "undefined"), the refresh token by the login it is of, and whether `token_expiry` is over a minute away |
| `page[t]` | AuthProvider loading, signed in, signed out (`useAuthStore`, `AuthProvider.tsx:15-40`) |
| `isRefreshing[t]`, `pc[t][s] = "queued"`, `retried[t]` | the interceptor's flag, `failedQueue`, `_retry` |
| `pc[t][s]`, `tok[t][s]` | a call on its way and the token it carries; `Refresh` is the interceptor's own call, a `HookRun` one of the timer's |
| `current[t]` | the run `isRefreshingRef` stands for: a hook mounted anew does not know the runs of the one before |
| `Initialize`, `Request`, `Tick`, `SessionTimeout`, `Reload` | AuthProvider's effect, calls of the page, `useTokenRefresh`, `useSessionTimeout`, the user |
| `OnOk`, `OnFailed`, `OnUnauthorized` | a call succeeds, fails otherwise, or gets a 401 (`axios.ts:51-126`) and what the code that awaits it does |
| `StoreLogout`, `Redirect` | `useAuthStore.logout`; `clearTokens` and `location.href` |
| `unspent` | the server's refresh tokens that were not used: a token is good for one refresh |

What the server answers and what the client reads have different names
(`access_token`, `accessToken`; there is no `expires_in`). So after any refresh the
access token is the text "undefined" and the expiry not a number, and the old
refresh token stays although the server revoked it; the next 401 signs the page
out. The model keeps this: no property relies on a refresh that works.

A run of the hook that is answered after a sign-out stores that text and the refresh
token it sent into the cleared storage, and a next visit starts with them
(section 15). So `NoLiveTokenWithoutAPage` cannot say that storage is empty once every
page has signed out. It says that nothing in it is of use to anybody: no access token
the server gave, and no refresh token the server has not taken back yet.

A refresh that itself gets a 401 is put into the queue it would empty
(`axios.ts:59`). `Stuck` names that page; the liveness properties hold for all
others, and for a stuck one as soon as it is loaded anew.

## 5. RealtimeHub

One server process: sockets are in the memory of the worker that accepted them.

| Model | Code |
| --- | --- |
| `active`, `online`, `room` | `active_connections`, `user_presence`, one of `room_subscriptions` |
| `up` | the sockets whose client is there |
| `pc[c]` | where the endpoint of socket `c` stands (`websocket.py:20-121`) |
| `job[k]`, `outer[k]`, `inner[k]` | what a coroutine is sending, and its two iterators: over users and over one user's sockets |
| `running` | the coroutine between two awaits: others step only when there is none |
| `Connect`, `Leave`, `ChangeRoom`, `Announce` | `connect`, `WebSocketDisconnect` with `disconnect`, subscribe and unsubscribe, typing and presence messages |
| `NextUser`, `SendNext`, `UserDone`, `JobDone` | the loops of `send_personal_message`, `broadcast_to_room` and `broadcast_presence_update`; `UserDone` removes the sockets that failed |
| `Collide` | an iterator raises RuntimeError: the endpoint closes its socket and leaves it registered |
| `Notify` | `RealtimeService`, called by REST handlers |

CPython's iterators remember a size and raise when it differs at the next element.
An exchange that keeps the size goes unnoticed; the model then lets the loop end,
go on or raise (`moved`). A set that is deleted with its last element and made anew
is another object, so an iterator over the old one finds it empty (`Deleted`).

## 6. Subscription

| Model | Code |
| --- | --- |
| `sub[s]` | the columns of a `subscriptions` row that the logic reads: status, auto_renew, canceled_at set, next_billing_date, trial_end, grace_period_end, end_date |
| `invoices`, `payments` | the rows in insertion order; of a payment only whose it is |
| `req[r]` | a handler between its read (with the row it read) and its commit |
| `crossed` | history: per subscription, the renewals by the API committed while a run was under way |
| `phase`, `todo`, `item`, `view`, `dirty`, `began` | the scheduler run: its task, what is left of the list it selected, the row it is in the middle of, the snapshot of its transaction, marks not committed yet, the `now` it read |
| `parked`, `overlapped` | the same of the runs beside it; history: whether a run began while another was under way |
| `Update`, `Write` | SQLAlchemy writes the columns whose value differs from the loaded one: two commits on a row merge column by column |
| `Snapshot`, `Reload` | MySQL's REPEATABLE READ, and `expire_on_commit`: the first access after a commit loads again |
| `StartRun`, `StartBeside`, `Switch` | cron starts the script, with or without a run under way; the turn goes to another run |
| `FirstTask`, `SelectGrace`, `SelectBilling`, `SelectOverdue`, `EndRun` | `run_subscription_tasks` and the queries of its four tasks |
| `TrialLapses`, `TrialRenewed`, `TrialInvoice`, `TrialExpires` | `process_expired_trials` |
| `GraceExpires` | `process_expired_grace_periods` |
| `BillInvoice`, `BillPayment`, `BillAdvance` | `process_upcoming_renewals`, three transactions |
| `OverdueLapses`, `OverdueNoted` | `check_overdue_invoices`; marks stay uncommitted until somebody commits |
| `OthersCommitted` | a row of the list that the instance does not contain was processed |
| `Crash` | the run raises or dies; cron starts another |

A trial whose subscription renews automatically never becomes active by the
scheduler: `renew_subscription` refuses a row that is trialing, and the refusal
counts as a failed payment (`TrialLapses`). `TrialRenewed` is only reached when
the row left the trial after the list was read. Super admins create rows with the
status `trial`, which no query of the scheduler matches (`AdminRow`).

Nothing in `scripts/subscription_scheduler.py` looks for another run: there is no lock,
no lease and no condition on any UPDATE, and the documentation tells cron to start it
every six hours or every hour (`docs/SUBSCRIPTION_BILLING.md:373-379`). So a run may start while
an older one is under way (`StartBeside`). The variables of the scheduler are those of
the run whose turn it is, and `Switch` exchanges them with those of a parked one: every
interleaving of the steps of two runs is a behaviour of the model.

A webhook finds its payment by the `order_id` of its payload (`webhooks.py:93`, `:122`). One
without it filters by IS NULL and gets the first payment that was never verified, and
one with it a verified payment; so `PaymentFailed` and `PaymentCaptured` may meet any payment,
and `verify_razorpay_payment`, which writes nothing else that is read here, is no action.

Amounts, plans, proration and usage records are left out: no step modelled here
depends on them. The `subscription.*` webhooks find no row, since
`razorpay_subscription_id` is never set, and do nothing.

## 7. Merchandise

Orders for one item whose inventory is tracked.

| Model | Code |
| --- | --- |
| `stock`, `status`, `captured`, `commissions`, `printfulId` | columns of `merchandise_items` and `merchandise_orders`, rows of `merchandise_commissions` |
| `creating` | a `create_order` between its first read of the item and its commit. SQLAlchemy writes the difference it computed as a constant |
| `InitiatePayment`, `Pay` | the payment endpoints and Razorpay (external) |
| `Submit`, `PrintfulDecides`, `SubmitAnswered`, `SubmitFails` | `submit_to_printful` before and after its await; Printful takes or refuses; the timeout of 30 s |
| `call[k].loaded` | the status the handler had loaded: a column is written only if it changes from that |
| `hooks`, `PrintfulWebhook` | webhooks on their way, any number of times and in any order |
| `VerifyPayment` | `own` says whether the payment was for this order: the signature is checked over the two ids in the payload, which nobody compares with the order's (`merchandise.py:320-339`), so a payment for another order, or for a subscription (the key is the same), verifies it as well |
| `UpdateOrder` | `update_order`: any string at any time (`schemas/merchandise.py:141`), by any user of the institution |
| `made`, `parcel` | Printful's orders, and what it did with them (external) |

`sold`, `overlapped`, `answerLost`, `borrowed` (orders verified with a payment that was for
something else) and `edited` (orders whose status was ever set by hand) are history.
Webhooks are Printful's.

## 8. Election

One election with nominated candidates. Every handler is one transaction on a
snapshot (InnoDB's repeatable read), taken when it starts and old when it commits;
`CastRead` and `CountRead` take it, `CastCommit` and `CountCommit` write.

| Model | Code |
| --- | --- |
| `status`, `ranked` | `election_status` (`"other"` for the statuses that allow neither votes nor counts), `enable_ranked_choice` |
| `standing` | candidates whose `candidate_status` is `approved` |
| `registry` | rows of `voter_registry`, and `has_voted` |
| `ballot` | a request to vote: the voter, and the rows of `votes` by rank |
| `count[r].of`, `results` | what a count read; the rows of `election_results`: what they come from, and the order |
| `SetStatus`, `SetRanked`, `SetStanding` | `update_election`, `update_candidate`, `approve_candidate`: any value at any time |
| `RegisterVoters` | `register_voters`, for the students active at that moment |
| `Times`, `Points`, `Votes`, `Ahead`, `Orders` | `votes_by_voter`, the points, the plain count, the sorts (the database returns equals in any order) |

`beside`, `late` and the field `reopened` of a snapshot are history. Two counts cannot
interleave their writes: the first statement of each deletes the rows of the other
and waits for its commit, so deletion and insertion are one step at the commit. The
rows are grouped by `voter_hash`, which is salted anew for each request
(`elections.py:35-37`), so a request is a list of its own, and the rank that a client may
give to a single vote has nothing to be compared to.

## 9. OfflineQueue

A `Task` is one asynchronous call under way: `addToQueue`, `processQueue`,
`retryFailedRequests` or the copy that the HTTP client's interceptor queues.

| Model | Code |
| --- | --- |
| `queue`, `retry` | `this.queue` and each request's `retryCount` |
| `isProcessing`, `isOnline` | the fields of the same name |
| `loading`, `loaded` | `loadQueue`'s `getItem`, and what it will put in place of `this.queue` |
| `stored`, `writes` | the AsyncStorage item; `setItem` calls not performed yet, in the order of the calls |
| `link`, `event` | the connection; a NetInfo event on its way |
| `AddToQueue`, `AddTail` | `addToQueue` up to the save, then after `NetInfo.fetch()` |
| `ProcessQueue`, `Fetched` | `processQueue`'s test of `isProcessing`, then, after the `await`, its assignment |
| `LoopSends`, `ExecOk`, `ExecFails`, `LoopEnds` | the `while`, a request that succeeds or fails (processed by the server or not) |
| `ExecFailsOffline`, `CloneAdded` | the interceptor queues a copy and waits for it before it rejects (`client.ts:66-70`) |
| `RemoveFromQueue`, `RetryFailedRequests` | the queue screen (`OfflineQueueViewer.tsx`) |
| `Load`, `PerformWrite`, `Restart`, `NetInfoEvent` | storage, a kill and start, the network listener |

The properties are conditional on mishaps, recorded in `blame` as they happen:
drains that *overlap*, an *edit* that removes the request being sent, *storage*
that fails, a change *early*, before the stored queue was loaded. Each property
names the mishaps that can break it and no other, so it says both what the code
guarantees and what the guarantee costs. Leaving one mishap out of the list makes
the property false: without *overlap*, `AcceptedNotLost` is violated by two drains that
both pass the test of `isProcessing`, both send the head and both shift.

`excused` records the reasons for which a queue may be left waiting.

`Outbox.tla` says without queue, drains, saves and restarts what the user relies on.
Requests are *put* into a box one after the other, *attempted* oldest first, *removed* by
the user, and *leave* only when the server has processed them, the user has removed them
or they have failed `Limit` times; a failure count begins *anew* only for a request that
may still be sent; after a mishap nothing is promised. `OfflineQueue` implements it
(`StoredIsAnOutbox`), the box being what AsyncStorage holds (`Held`), and not
`this.queue`: of all steps only `PerformWrite` changes it, each time by one of the box's
operations, whatever calls have saved in between, and `Restart` maps to a step that
changes nothing. A request that was processed while its removal was not saved yet is
still in the box and may be attempted again: this is the duplicate that the code accepts.
`ServedInOrder` says of `this.queue` what `Attempt` says of the box; it has a theorem and
no run of its own.

The model is the native client's. `offlineQueue.web.ts` differs in that it reads
`navigator.onLine` (no `await` between test and assignment) and walks the array
while it collects what succeeded.

## 10. Notifications

The notifications of one user, of one type and group. Grouping never looks across these;
it does look across channels, which `find_similar_notifications` does not ask for
(`notification_service.py:321-329`), so the notifications here may be on any. Workers
are Celery's processes.

| Model | Code |
| --- | --- |
| `row[n]` | a row of `notifications`: status, `grouped_with_id`, whether an error is stored, `retry_count` |
| `queued[n]` | tasks `send_notification_task(n)` in the broker |
| `job[w]` | the task a worker runs, and what it has read |
| `made`, `aged` | rows in the order of their creation; the first `aged` are older than an hour, which is the age at which a batched one is sent and the window in which others are similar |
| `Create`, `CreateEnqueue` | `send_bulk_notifications`: the row is committed, then its task queued |
| `SendStart`, `SendEnd`, `Outcomes`, `Sent` | `send_notification`: preferences, smart grouping, the provider, and the commit |
| `RetryStart`, `RetryRow`, `RetryEnqueue` | `retry_failed_notifications`: the list, a commit for each row, its task |
| `GroupStart`, `GroupEnqueue`, `GroupEnd` | `process_grouped_notifications`: the list, the tasks, and one commit for all |
| `MarkRead`, `Delete` | reading one or all; deletion, which clears `grouped_with_id` where it names the row; the clean-up of old ones |
| `Lost` | the worker is killed, the broker refuses a task, an exception ends it |
| `Age` | time |

A task is acknowledged when a worker takes it, so a killed worker loses it. A task
sees MySQL's snapshot of its first read after a commit, and its `UPDATE` writes only the
columns that differ from what it loaded (`Update`), so what a user did in between
survives in the others. An `UPDATE` of a row that was deleted makes the commit fail
(`StaleDataError`), and the whole of it is rolled back: `GroupEnd` then leaves all its
notifications batched, though their tasks are queued.

`fate` and `dropped` are history: how often the provider took a notification, and why
one may be left. Both say what the guarantee costs, and without any of these excuses
TLC finds the property violated:

* `fate` is excused when an exception hid that the provider had taken it (`unclear`),
  when two periodic runs listed it at once (`Overlapping`), and when a run of
  `process_grouped_notifications` that had queued it did not commit;
* `dropped` are those whose job was lost, whose task ran before the commit of the run
  that queued it (the task finds it batched and does nothing, and the run then makes it
  PENDING, `notification_tasks.py:505`), and whose head was deleted.

A notification younger than an hour is similar to itself: with smart grouping on, a
fresh one may be grouped with itself and waits until it is an hour old. It is not
similar to itself any more then, and `process_grouped_notifications` queues it again. But
`send_notification` then groups it with any newer similar one that was not read
(`notification_service.py:321-329`, `:343-355`), and so does every later run, each 15
minutes: with one similar notification in every hour it is never sent. `Arrives` is stated
with this exception (`Followed`): an aged notification stops to wait unless there is always
a newer one. Without it TLC finds the endless round, in which a newer one that stays
young stands for the stream.

## 11. Runs

Eight components, twelve runs. Runs that must pass:

| Run | Instance | Shows |
| --- | --- | --- |
| `auth_session` | 3 requests of any kind, symmetric; 29,596 states | `MassLogoutComplete`: a completed mass logout has killed every token pair delivered before it, however the SCAN loops interleave. `RotatedTokenStaysDead`: nothing stores a rotated-out token again. `OneOpenResetToken`: only the newest reset token is usable. `ResetTokenSpentForAReason`: a reset that fails half way leaves its token usable. `KeysImplementTokenLife`: the keys of both kinds implement the abstract life of a token |
| `web_session` | 2 pages, 2 logins, one of which may be an earlier visit, 1 timer run at a time, fair; 136,368 states | `WaitersHaveARefresh`: a call is in the queue only while the refresh that empties it is under way. `NoLiveTokenWithoutAPage`: when all pages have signed out, no access token the server gave and no refresh token it still takes is stored, however late answers come; a refresh token that was used, and the text "undefined", may be. `RefreshEnds`: a refresh ends and takes the queue with it. `LogoutReachesEveryPage`: when one page has cleared the tokens, the others sign out |
| `realtime_hub` | 2 users, one with 2 sockets, 1 handler that notifies, 1 message; 1,756,167 states | `PresenceFollowsSockets`: a user is online exactly as long as one of their sockets is registered. `ServedIsRegistered`: nobody's clean-up removes a socket that is being served, and none that left comes back |
| `realtime_hub_live` | the same sockets without messages, fair; 78,479 states | `ClosedSocketsLeave`: the sockets of clients that went leave the manager, but those whose endpoint broke off |
| `subscription` | 1 subscription, 2 requests of six kinds, 2 runs of the scheduler that overlap, 1 day, symmetric; 2,375,446 states | `TrialNotBilled`: the scheduler bills nothing that is in a trial, though its list is old and another run works on the same rows |
| `subscription_live` | 1 request of every kind, 2 days, a cycle of 1 day, 1 crash, runs one after another, fair; 63,369 states | `RunsBillOnceButForMishaps`: the runs bill a period again only as often as runs died or renewals by the API crossed a run. `DueIsProcessed`: what each of the four tasks is there for happens (`TrialEnds`, `DueIsBilled`, `GraceRunsOut`, `OverdueIsMarked`), whatever one request and one crash do |
| `merchandise` | 2 orders, 2 submissions, a stock of 1, 1 payment of each order, 2 verifications and 1 status set by hand, symmetric; 2,898,459 states | `StockAddsUp`: the stock is never lower than what was not sold, and exact without an overlap. `MadeIsCaptured`: Printful makes nothing without a verified payment, though it is read before an await; the payment may have been for something else. `CommissionIffCaptured`: the captured orders are those with a commission. `MadeIsKnown`: an order that Printful made has a number here unless an answer is still to come or was lost. `GoesBackOnlyLate`: an order whose status nobody set by hand goes back in its workflow only through a late or repeated answer, webhook or verification |
| `election` | 2 voters, 2 ballots, 2 counts at a time, 1 change of the ranking or of a candidate, symmetric; 1,037,392 states | `OneBallotUnlessAtOnce`: `has_voted` goes with the ballots, and a voter has two only if both were on their way at once. `MissedOnlyLate`: the results miss only ballots that were on their way when voting ended, until it is opened again, also when counts overlap. `FavouriteIsAhead`: a candidate who comes before another on every ballot that has the other comes before them in the results |
| `offline_queue` | 2 tasks, 2 requests (copies count), 2 retries, 2 of: connection change, kill or storage failure, user's edit; 1,581,260 states | `StoredFollowsQueue`: storage holds the queue. `AcceptedNotLost`, `AnsweredNotResent`: what is kept and how often it is sent. `StoredIsAnOutbox`: what AsyncStorage holds implements `Outbox`, sent oldest first and untouched by a kill, as long as no mishap occurs. `NoLostWakeup`: no request slips between a drain that ends and an add that sees it running |
| `offline_queue_live` | 2 tasks, 2 requests, 1 connection change, fair; 110,405 states | `FlagIsReleased`: `isProcessing` never stays set |
| `notifications` | 2 workers, 2 notifications, 1 retry, 1 failure of the provider, 1 disturbance, fair; 736,580 states | `NoneForgotten`: whatever is PENDING has a task or a worker that will queue one, whatever is batched a group. `DeliveredOnce`: the provider takes none twice, but for the three excuses. `Arrives`: each that is older than an hour leaves PENDING and BATCHED, unless there is always a newer unread one it is grouped with |

One run must find a violation, of a documented claim (section 15):
`password_change_old_sessions`.

`CHECK_DEADLOCK FALSE` is set everywhere but in `web_session` (a page can always be
reloaded) and `election` (the status can always be changed), because the instances may stop: all requests have
been made, time is at its bound, the queue is empty and nobody adds to it, every
notification has been delivered.

## 12. Bounds

* **AuthSession: three requests.** The hazards involve a login, something that
  revokes it, and one more handler that races it; the violations are found with
  three. Section 14 proves the properties of this run for every number.
* **WebSession: two pages, two logins.** One timer run, the interceptor's refresh, and
  login, logout and `/auth/me` of each page; the API calls of a page are those three,
  since a queued `/auth/me` or logout is treated like any other call. The second login
  meets what an earlier visit or session left under way. `MaxCalls` 1: a user begins a
  call while at most one other is under way in the browser; what timers, AuthProvider
  and the interceptor begin is not bounded. An instance with one page, one more API
  call and no such bound passes as well (15,561 states).
* **RealtimeHub: two users, three sockets.** A user with two sockets is needed for
  presence to differ from one socket's life, and another user to broadcast to. Every
  socket connects once: a client that comes back is another socket. `MaxJobs` is 1,
  beside the broadcasts of connects and disconnects, which are not bounded.
* **Merchandise: two orders, stock of one.** Two creations overlap and oversell. Two
  submissions cover one order submitted twice and two orders submitted at once.
  `MaxVerified` 2 allows a second verification at any point, or one of each order, and
  `MaxEdits` 1 one status set by hand at any point, to any word the program itself
  stores or to another (`"other"`, "delivered" included).
* **Subscription: one row.** No action of the scheduler or of a handler reads
  another subscription's row, except the check of `create`; `OthersCommitted`
  gives the run's transaction the breaks that other rows cause. In `subscription` two
  requests race each other and two overlapping runs (`Aside` has one), which end and
  start again without a bound, up to day 1: trials and renewals are due then, a grace
  period too, and no invoice is overdue yet. Its kinds of request are the six of `RowKinds`,
  which between them write every column the scheduler goes by; with all ten it passes as
  well (3,839,024 states) and takes too long. `subscription_live` has the rest: all ten
  kinds, but one request; day 2, on which invoices are overdue and a renewal of day 1
  is due again (`Cycle` is 1): a renewal can cross a run, the run sets the billing date
  back, and a later one bills the period again; and `MaxCrashes` 1, which kills one run at
  any point, and the next run completes. Its runs come one after another (`Aside` is empty):
  with overlapping ones the graph is too large for a liveness check, and what
  `DueIsProcessed` says of overlapping runs is not checked. `Trial`, `Grace` and `PayWithin`
  are 1. Section 14 proves the safety properties for all requests, any number of
  overlapping runs and every length.
* **Election: two voters, two ballots, two counts.** The ballots may be of one voter,
  and two counts cover an older one that commits after a newer one; a count that has
  committed can be made again, without a bound. The ballots are `<<ben>>` and
  `<<ada, ben, ben>>`: one candidate, a list with a candidate twice (a tie of points
  decided by the first choices), and both of one voter. Any candidates may
  stand at first; `MaxChanges` 1 is a withdrawal, an approval or a change of the
  ranking, at any point. Voting is closed and opened again without a bound.
* **OfflineQueue: two tasks, two requests.** Two drains, or a drain and an add,
  are what the hazards need. A copy made by the interceptor is one of the two
  requests. `MaxRetries` is 2 (the code's is 3) so that a request can fail, be
  tried again and be given up. At most one change of connection, one fault (kill,
  failed read or write) and one edit happen, at most `MaxDisturbances` = 2 of
  them together. The same run with all three allowed (3.5 million states), and
  one with three requests and no edit (5 million), pass too and are left out for
  time.
* **Notifications: two workers, two notifications.** Two workers are what overlaps
  need, two notifications what a group, and a list of which one member is deleted or
  delivered meanwhile, need. `MaxRetries` 1 (the code's is 3) lets a notification be
  retried and then given up; `MaxFailures` 1 and `MaxDisturbances` 1 put a failure and
  a lost job, a reading or a deletion anywhere. `MaxTasks` 2 allows two tasks of one
  notification, which the excused cases make; no theorem of section 14 uses it. `MaxMade`
  ends the stream of notifications, but time need not pass (section 13): a second
  notification that stays young for ever does to the first what a stream of them would,
  and the round in which the first is grouped anew by each run is in the graph. With 2
  retries, 2 failures and no disturbance the safety properties pass as well (416,189
  states, workers symmetric).

## 13. Fairness

Safety runs use `Spec` without fairness. Liveness runs use `FairSpec`:

* **WebSession.** axios gives up after 30 seconds, so a call on its way comes to an
  end (`WF` of `CallStep`); React runs AuthProvider's effect (`Initialize`) and the
  hook's interval fires each minute (`Tick`). Nothing is assumed of the user.
* **RealtimeHub.** The event loop resumes every coroutine that can go on (`WF` of
  `Work`). An endpoint that waits for a message when its client goes gets
  `WebSocketDisconnect`: `SF`, because other coroutines' runs disable it again and
  again. Clients need not go, and senders need not send.
* **Subscription.** `scripts/subscription_scheduler.py` is started by cron again
  and again, so a run starts when none is under way and goes on until it ends or
  dies. (A run that starts beside another is no part of the run this is checked in.) `WF_vars(Reload)`: after a commit the next access loads the row.
  `SF_vars(Progress)`: strong, because commits of rows outside the instance
  (`OthersCommitted`) may take the snapshot away between any two steps of ours; a
  list is finite, so they cannot do so for ever. Nothing is assumed of clients or
  of Razorpay: a request may stop between its read and its commit for ever. `Tick`
  is not fair either.
* **OfflineQueue.** Every promise of AsyncStorage and NetInfo settles, an axios
  request has a timeout of 30 s, NetInfo delivers its events, and the event loop
  runs whatever has been resolved: weak fairness of `PerformWrite`, `Load`,
  `NetInfoEvent` and of each task's own steps. No user action, and no change of
  the connection, is fair.
* **Notifications.** A worker that has a job goes on (`WF` of `Work`): providers time
  out, and a worker that hangs for ever is `Lost`. Workers take tasks from the broker
  (`WF` of each `SendStart`), beat queues `process_grouped_notifications` every 15
  minutes (`WF` of `GroupStart`). Time is not fair: `Arrives` speaks of notifications that
  are an hour old. Creation, retries, users and mishaps are not fair either: a
  notification that failed needs not be retried.

## 14. Proofs

Eight modules, 11,911 obligations. Every theorem is about `Spec`, for all values of the
constants that satisfy the named assumptions.

`AuthSessionProofs.tla` (792 obligations) assumes of the constants only that
`None` is not a request; `Request` may be any set, finite or not.

| Theorem | States |
| --- | --- |
| `TypeCorrect` | `Spec => []TypeOK` |
| `InvHolds` | `Spec => []Inv`, the inductive invariant |
| `MassLogoutIsComplete` | `Spec => []MassLogoutComplete` |
| `RotatedTokensStayDead` | `Spec => []RotatedTokenStaysDead` |
| `OneResetTokenOpen` | `Spec => []OneOpenResetToken` |
| `ResetTokensSpentForAReason` | `Spec => []ResetTokenSpentForAReason` |
| `KeysRefinement` | `Spec => KeysImplementTokenLife` |

`MassLogoutComplete` is about handlers that have ended, so it says nothing of one
that is half way and is not inductive. `Inv` adds four things.

* `Coherent`: a step name implies the endpoint (`m_commit` belongs to the three
  mass logouts), and the token a refresh presents had been delivered. Otherwise a
  step could be taken by the wrong kind of request.
* `KeysStored`: a key belongs to a login or refresh that is past the step that
  stores it. This is what makes a delivered token never be written again: the only
  writer has ended.
* `MassInv`: while a SCAN loop runs, what is left of the tokens delivered before
  it is part of what the SCAN still owes (`before \cap sessions \subseteq scan`);
  when the loop has ended, nothing is left. With `KeysStored` no step adds to the
  left side, and the guarantee of SCAN empties it.
* `RotationInv`: from DEL on, the presented token is not in Redis, because it was
  delivered and so is nobody's to write.

Reset tokens need less: only `Forgot`, `MassCommit` and `ExpireReset` write them
(`ResetTokenWriters`), and what a request asked for never changes once it has
arrived (`PastStays`, from `Coherent`), so the reset or the other forgot_password that
justifies a spent one stays on record.

The refinements show for every step that it maps to `Issue`, `Revoke` or `Void` of
one token, to a `Revoke` of a set, or to a stutter.

`WebSessionProofs.tla` (798 obligations) assumes that the kinds of calls differ
(`SlotsDiffer`), that there is a page (`PagesAreOpen`), and that logins are counted
and no token is one of the two special values (`LoginsAreCounted`).

| Theorem | States |
| --- | --- |
| `TypeCorrect` | `Spec => []TypeOK` |
| `QueueWaitsForARefresh` | `Spec => []WaitersHaveARefresh` |
| `NoTokenWithoutAPage` | `Spec => []NoLiveTokenWithoutAPage` |

`WaitersHaveARefresh` is inductive once it is taken page by page with one more fact:
the interceptor's call is never itself the one that awaits a refresh.
`NoLiveTokenWithoutAPage` is inductive with `PastTokens`, every refresh token that is
stored or carried is of a login that was made: whatever signs a page out clears the
tokens, the only action that stores an access token the server gave signs its page in,
a late answer to the hook brings back a refresh token that it has used up, and a login
whose answer was lost issues a token that nobody has.

`RealtimeHubProofs.tla` (856 obligations) assumes that every socket has an owner
(`OwnerIsUser`), that sockets, handlers and nobody differ (`TasksDiffer`), and that
users and sockets are finitely many (`JobsAreCounted`).

| Theorem | States |
| --- | --- |
| `TypeCorrect` | `Spec => []TypeOK` |
| `PresenceIsTrue` | `Spec => []PresenceFollowsSockets` |
| `ServedStayRegistered` | `Spec => []ServedIsRegistered` |

Presence needs that sockets are registered under their owner (`OwnedPresence`).
`ServedIsRegistered` is about the sockets, but what may remove one is the clean-up of
another coroutine, so `HubInv` adds what that coroutine holds: a socket on its list
of failed sends has no client any more (`FailedAreGone`), an endpoint sends only while
its job is awaited (`JobsAreAwaited`), and a socket that is registered has an
endpoint that ran (`RegisteredRan`).

`MerchandiseProofs.tla` (986 obligations) assumes that the stock and the bounds are
natural numbers (`StockIsANumber`, `BoundsAreCounts`) and that `NoOrder` is none
(`NoOrderDiffers`).

| Theorem | States |
| --- | --- |
| `TypeCorrect` | `Spec => []TypeOK` |
| `StockNeverShort` | `Spec => []StockAddsUp` |
| `NothingMadeUncaptured` | `Spec => []MadeIsCaptured` |
| `CommissionsAreOfCaptured` | `Spec => []CommissionIffCaptured` |
| `MadeOrdersAreKnown` | `Spec => []MadeIsKnown` |
| `BackOnlyLate` | `Spec => GoesBackOnlyLate`, an action property |

`StockInv` adds what a creation has read: never less than what was not sold, since the
stock never is. `PaidInv` adds that a submission under way is for a captured order,
which stays true while Printful is awaited because nothing takes a capture back.
`Known` says of one order what `MadeIsKnown` says of all. For `GoesBackOnlyLate`, `Work`
says of an order that nobody pays before it exists and, unless its status was set by hand,
that it is in production only when it was captured, and shipped or canceled only when
Printful made it; `Again` says that a submission which loaded such an order and was taken
means a second order at Printful. With them each step that lowers the rank of a status
that nobody has touched is one of the late ones.

`ElectionProofs.tla` (657 obligations) assumes that requests and candidates are finitely
many (`FinitelyMany`), that ballots are lists of candidates (`BallotsAreLists`), and that
changes are counted (`ChangesAreCounted`).

| Theorem | States |
| --- | --- |
| `TypeCorrect` | `Spec => []TypeOK` |
| `OneBallot` | `Spec => []OneBallotUnlessAtOnce` |
| `ResultsMissOnlyLate` | `Spec => []MissedOnlyLate` |
| `FavouritesAreAhead` | `Spec => []FavouriteIsAhead` |

`BallotInv` says the second for ballots that are still on their way too: a ballot is
begun only by somebody who has none cast, so the others it can meet are on their way.
`CountInv` says the third of every count under way as well as of the results, and adds
that while voting is closed everything on its way is late.

`FavouriteIsAhead` is about arithmetic, not about interleavings. A ballot is a list of its
own, also when its voter has another one. Whoever comes before `d`
on every ballot that has `d` is placed above `d` there:
`d` is nowhere first, second at most as often as the other is first, and third at most as
often as the other is first or second (`FirstIsPlaced`). With 3, 2 and 1 points the other
has more of them, or as many and, being among the first three
somewhere, is somewhere first
(`FavouriteWins`). That the results keep this while ballots come in is `FavouriteInv`: what a
count has read is cast, and cast ballots do not change.

`NotificationsProofs.tla` (2,085 obligations) assumes that the bounds but `MaxTasks` are
natural numbers (`BoundsAreCounts`) and that being idle is no job (`IdleIsNoJob`);
`Worker` may be any set.

| Theorem | States |
| --- | --- |
| `TypeCorrect` | `Spec => []TypeOK` |
| `NothingForgotten` | `Spec => []NoneForgotten` |
| `NeverTakenTwice` | `Spec => []DeliveredOnce` |

An *effect* lemma for each action says what it does to rows and tasks and to what the
workers have in hand, hold and have listed; the rest of the proof uses only these.
`NInv` adds to `NoneForgotten` that whatever `process_grouped_notifications` has queued
is queued still, was taken too early or is deleted (`HeldQueued`): at the commit it
becomes PENDING and the worker lets go of it at once.

`DInv` says of every notification that nothing excuses (`Fine`) that it is *single*: one
worker at most has it (`Alone`), its status and what the run had read of it fit the job
(`Fits`), there is one task at most, and none besides a worker unless the run that
queued it has not committed (`OneTask`), and once the provider has taken it, it is being
sent, or nobody has it and it has no task (`Done`). Without `Fits` a retry could make a
row PENDING that it had not read as failed; without `OneTask` a task could be taken
while a worker sends. Each action *settles* each notification: those it does not touch
are `Kept`, and the others are single again or excused.

`SubscriptionProofs.tla` (1,920 obligations) assumes that durations and bounds are numbers
(`Durations`, `BoundsAreCounts`) and that `None` is neither a subscription nor a snapshot
(`NoneIsNothing`); `Sub`, `Request` and
`Aside` may be any sets.

| Theorem | States |
| --- | --- |
| `TypeCorrect` | `Spec => []TypeOK` |
| `InvHolds` | `Spec => []Inv`, the inductive invariant |
| `NoBillInTrial` | `Spec => []TrialNotBilled` |
| `DuplicatesNeedMishaps` | `Spec => []RunsBillOnceButForMishaps` |

`TrialNotBilled` alone is not inductive, because the scheduler decides from a snapshot and
works through a list that other commits overtake. `Inv` adds that whatever the snapshot
shows out of its trial is out of it (`ViewLeft`), and that everything on the list of
renewals is (`TodoLeft`), and the same of every run whose turn it is not (`ParkedOK`). These survive every commit because no handler sets a status back
to that of a trial: each writes only columns it changed, and `Assigns` says to what.

`RunsBillOnceButForMishaps` was first stated with crashes alone, and held on an instance
whose cycle was too long for a second renewal. The attempt to prove it found the other
way: a renewal by the API that commits in the middle of a run has the run bill the period
just renewed, and then set the billing date back to it. `DupInv` is an account of this
for as long as no two runs overlapped (`OneRunStep`: then no run is parked, and only
`StartBeside` could make it two): per subscription, the crashes and the crossing renewals (`Mishaps`) bound the invoices of
every period that may be billed *once more*: one that has not begun, the one the row or
the run's snapshot names, every one after the run began while the row waits on the list,
and the one the run is about to write (`StillCounted`). Where a renewal lies between the
list and the row, one mishap must be left over (`OneToSpare`), and the invoice that the
run then writes uses it up. Most steps are `Quiet`: they bill nothing and move a billing
date only to a day to come.

`OfflineQueueProofs.tla` (3,817 obligations) assumes that there are finitely many calls at
a time (`SomeTasks`), that the bounds are numbers (`SomeRetries`) and that `None` is neither
a call nor a snapshot (`NoneIsNothing`).

| Theorem | States |
| --- | --- |
| `TypeCorrect` | `Spec => []TypeOK` |
| `StoredIsTheQueue` | `Spec => []StoredFollowsQueue` |
| `NothingAcceptedIsLost` | `Spec => []AcceptedNotLost` |
| `SentFirstComeFirst` | `Spec => []ServedInOrder` |
| `StoredImplementsOutbox` | `Spec => StoredIsAnOutbox` |
| `NotSentTwice` | `Spec => []AnsweredNotResent` |
| `WakeupsKept` | `Spec => []NoLostWakeup` |
| `InvHolds` | `Spec => []IInv`, the inductive invariant |

The argument follows a *chain*: `Saved(0)` is what AsyncStorage holds, `Saved(k)` what
it will hold after the k-th pending `setItem`. A restart makes the queue of `Saved(0)`,
whatever the app held, so what is said of the queue has to be said of the whole chain. Its
end is the queue (`SaveInv`); what is dropped along it, or was accepted and is not stored,
has left for a reason and is not at the end (`KeepInv`); no element is older than a
processed request (`OrderInv`). The last needs that no drain sends while a shift is
still to be stored: one drain at a time (`OverlapInv`), which sends the head (`HeadInv`)
and waits for its save (`GapInv`). Every step leaves queue and saves alone, saves, or is one
of AsyncStorage's or a restart (`StepKinds`), so most invariants have one case for
each kind. `SpentInv` bounds a retry count together with the calls that may still raise
it. `FlagInv` and `WakeInv` say that somebody drains while `isProcessing`, and that somebody
will look again at a queue that nothing excuses: the end of an `addToQueue` that sees
`isProcessing` set may leave its request to that somebody.

That AsyncStorage holds an outbox needs more than invariants of the chain's members:
`LinkInv` says of each pending save that it adds one request, newer than all that was
saved before, if it is the save of a push, and none otherwise. So the save that is
performed is `Put` or `Leave`, and `KeepInv` gives the reason of what leaves.
`SentInOrder` at the head of the chain makes every outcome of a request an `Attempt`
of the oldest. What `Load` or `retryFailedRequests` counts anew is stored or queued, and
no queue or snapshot has a request that is given up (`Basic`).

`Array.filter` is a recursive function (`Without`), and what it keeps is proved from the
well-foundedness of `<` on the natural numbers.

The runs check the same formulas on the small instances first. Proved are all invariants
that the runs check, the refinements of AuthSession and OfflineQueue, and Merchandise's
`GoesBackOnlyLate`, each for every value of the constants. What is only model-checked are
the liveness properties (`RefreshEnds`, `LogoutReachesEveryPage`, `ClosedSocketsLeave`,
`DueIsProcessed`, `FlagIsReleased`, `Arrives`): their fairness conditions involve ENABLED,
which is out of the prover's reach.

## 15. Where the code and its documents disagree

One is found by a run of its own, in the behaviour TLC prints.

| Run | Document | What happens |
| --- | --- | --- |
| `password_change_old_sessions` | `docs/ARCHITECTURE.md:213` "All sessions invalidated on password change" | the mass logout precedes the commit of the new hash; a login that checks the old password in between keeps its session |

Others were met while modelling and have no run of their own. The first four were
found by TLC as well, in the models as they are:

* a repeated `payment.captured` settles a second invoice of the subscription
  (`api/v1/webhooks.py:107`, against `docs/SUBSCRIPTION_BILLING.md:421` "Idempotent
  processing prevents duplicate actions");
* two concurrent refreshes of one token both see it and both return new tokens
  (`auth_service.py:131`, against `docs/ARCHITECTURE.md:200` "Refresh token rotation
  prevents reuse attacks"); a subscription renewed after the scheduler selected it as
  past its grace period expires all the same (`subscription_service.py:465`); after a
  restart the network event may come before the stored queue is loaded, and the load
  starts nothing (`offlineQueue.ts:75`, against
  `mobile/__tests__/OFFLINE_VALIDATION_TESTS.md:318-319`);
* a refresh that is answered after a sign-out stores the text "undefined" and the old
  refresh token again (`useTokenRefresh.ts:23`, against
  `frontend/tests/manual/demo-user-test-script.md:1024` "Session tokens cleared from
  localStorage"; TLC finds this one too); a refresh that fails late signs out whoever
  has signed in since; a wrong password while a refresh token is stored starts a
  refresh and reloads the login page; no session survives its first refresh;
* leaving with one of two sockets announces "offline" to everybody
  (`websocket.py:113`) though the user stays online; an endpoint that breaks off stays
  registered (`websocket.py:116`, against `tests/integration/test_websocket.py:802`);
  nothing in either client calls `connect()`;
* merchandise can be oversold, a canceled order never gives its stock back, every
  verification records another commission, a payment for something else verifies an
  order (`merchandise.py:320-339`), any user sets any status (`merchandise.py:228`,
  against its own `merchandise.py:235` "Update order (Admin only)"), and an order is submitted by an admin only,
  not "automatically" (`docs/MERCHANDISE.md:351`);
* two concurrent resets with one reset token both succeed (`auth_service.py:214`,
  against `docs/ARCHITECTURE.md:212`); a refresh in flight survives logout-all
  (`auth_service.py:169`); a logout with the token in the body, as
  `docs/AUTH_SYSTEM.md:71` shows it, leaves the refresh token live;
* a cancelled subscription comes back to `past_due` by a failed payment
  (`docs/SUBSCRIPTION_BILLING.md:318`); nothing acts on `end_date` after a
  cancellation at period end (`:319`); an expired one cannot be renewed (`:324`);
  two creations race to two serving subscriptions (`subscription_service.py:155`);
  an ordinary renewal by the API bills the period that begins a cycle later, and on
  that day the scheduler bills it again (`subscription_service.py:429`, `:437`, `:526`,
  `subscription_tasks.py:111`); a renewal during a scheduler run has the period just renewed
  billed by that run, and then once more, since the run sets the billing date back to it
  (`subscription_tasks.py:118`); two overlapping runs both bill whatever is due
  (`RunsBillOnceButForMishaps` counts the scheduler's invoices only, and only without
  overlaps);
  a super admin's `trial` is not the scheduler's `trialing`; a paid invoice can be
  marked overdue (`subscription_tasks.py:159`);
* two overlapping drains of the mobile queue send one request twice and drop the next
  unsent (`offlineQueue.ts:106`, against
  `mobile/__tests__/OFFLINE_VALIDATION_TESTS.md:311-312` "Requests synced to server",
  "Queue cleared on success");
* two ballots of one voter sent at once are both counted (`elections.py:431`); a ranked
  list may name a candidate several times; a ballot may be reported as cast and miss
  the count;
* a fresh notification is grouped with itself and waits an hour
  (`notification_service.py:321`); an older one is grouped with a newer one, of whatever
  channel, by each run, and is never sent while one similar notification comes every hour
  (`:343-355`; TLC finds this one too); a task of `process_grouped_notifications` that is
  taken before the run commits does nothing, and the notification then stays PENDING
  for ever (`notification_tasks.py:505`); the notifications of an announcement are
  created PENDING and never queued; beat schedules the hourly digest without the
  `institution_id` it requires, so that it ends in a TypeError each time;
* the mobile interceptor queues a copy of a request that is itself in the queue;
  `initializeOfflineSupport` is called by tests only, and `useOfflineInit` calls a
  function that does not exist.

## 16. What is not modelled

Within the eight components: the authentication service without Redis; the
permissions a session carries; wrong passwords;
amounts, plans, proration and usage; the scheduler's handling of a database error
other than as a crash; the web variant of the offline queue; a token refresh
inside a queued request (it is one of the ways to succeed or fail); who is typing,
the other endpoints that use the hub (quiz, olympics) and several workers, which
share no sockets; several items per order, and the administration of items;
nominations, campaign activities, percentages and deletion of an election; the digest
mode of notifications (off by default), their delivery records, several types
and groups at once. `Fail` covers every exception of an authentication handler at once.

Bookings of parent-teacher conferences are not modelled because there are none:
`create_booking` passes `parent_topics` to a model that has no such column, and fails
each time (`conference_service.py`).

Event tickets are not modelled because none is ever paid: nothing calls
`complete_payment` or `fail_payment` of `event_ticket_service.py`. The mobile
client's token refresh is not either: the app's login stores the tokens under
`accessToken` and `refreshToken` (`mobile/src/utils/secureStorage.ts:4-10`), and the HTTP client
reads `@edu_access_token` and `@edu_refresh_token` (`mobile/src/constants/index.ts:50-51`).

Outside them: everything in the second table of section 1, with the reason in
`PROJECT.json`.

## 17. Plan

Done: authentication, the web client's session, the real-time hub, merchandise, school
elections, notifications, subscription billing and the offline queue (model, checks, proofs).

Next:

1. Proration and grading as pure operators against reference definitions.

When a new component needs a run, runs that show a disagreement give way first.
