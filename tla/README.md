# ERG Platform Backend: TLA+ specifications

This directory holds TLA+ models of the parts of the ERG backend whose
correctness depends on how requests, goroutines, database calls and failures
interleave; the TLC configurations that check them on small instances; and
proofs, checked by TLAPS, of the properties that matter most for instances of
any size. `PROJECT.json` is the index: components, runs, the source lines each
definition stands for, a faulty variant per property, findings, hazards and
theorems.

## 1. The system

The backend is one Go process (Gin, Uber FX), usually run as several replicas,
over MongoDB (content and LMS), Postgres (users, sessions, PINs), Redis (caches,
counters, pub/sub, locks) and Asynq (background jobs on Redis). A module under
`internal/modules` has a controller, a service and a repository. Services keep
almost no state of their own: **state is in the databases, and a handler is a
short program of single database calls**. There is hardly any transaction and
no lock, so two requests interleave between any two calls, on one replica or on
two.

### Inventory

| Component | State | Operations | What is hard |
|---|---|---|---|
| LMS attempts (`modules/lms`) | attempts collection: status, answers, score | start, save an answer, save a draft, sync, submit | check-then-act on the status, retried submits, offline sync, a score written from an earlier read |
| Auth sessions (`modules/auth`, `sessions`, `users`) | session rows, spent tokens and cached contexts in Redis, one goroutine per login | login, refresh, logout, revoke, password change and reset, current session | token rotation and reuse, replacement of old sessions in the background, stale cache, times in whole seconds |
| Auth accounts (`modules/auth`) | user row, PIN rows, mails sent, rehash goroutines | register, verify, resend, forgot, reset, change, login, Google login | one-time PINs in two statements, unique email, late rehash |
| Login guard (`modules/auth/.../security.go`, `operations`) | failure counters in Redis, table of login attempts, blocked addresses | precheck, record failure, block, reset | counts read and incremented apart, two sources of a count that disagree, counters that must expire, calls that fail half way |
| Crawler (`modules/crawler`) | active pipelines, SSE channels, crawled items | enqueue, twelve-step pipeline, progress stream, drain | channel closed while a pipeline sends, streams that replace each other, shutdown |
| Load script (`load/k6/lms_exam_flow.js`) | virtual users, two metrics | exam flow, login, teacher overview | calls lost or given up, iterations cut off, whether passed checks prove anything |
| Bot (`modules/bot`) | link codes, linked accounts, workflow executions | link, unlink, start, step, pause, cancel | one-time code, pause against a running step |
| Notifications (`modules/notifications`, `pkg/event`) | notifications, digests, subscriptions | send, digest flush, subscribe and stop | at-least-once sending, stop during start |
| Rate limiter (`internal/middleware/ratelimit.go`) | sliding windows in Redis or memory | allow | clocks of several replicas, Redis failure policy |
| AI content, trending | jobs, provider keys, topics | generate, refresh | retried jobs, overlapping refreshes |
| Compose (`pkg/compose`) | none | order of services | a pure graph algorithm |
| Posts, pages, menus, courses, community, reviews, recruitment, hoclieu, ... | one collection or table each | create, read, update, delete | little: single-document writes |

Interactions. Requests pass the middleware (rate limit, JWT, session check of
`ValidateActiveSession`) to a controller. `auth` writes the session rows that
`users` and `sessions` read and revoke, and clears the `session_ctx` keys that
`sessions` fills. LMS submits publish an audit event. Crawler, trending and bot
publish on the event bus; the consumer in `notifications` subscribes. Crawl and
generation jobs run from Asynq, which retries them.

What makes each component correct, in words: an exam attempt is unique while it
is open, loses no answer, closes for good and has one grade; a refresh token
works once, a revoked session stays revoked and a user ends up with one session;
a PIN is spent when it is accepted, an email is registered once and a password
is stored only by somebody entitled to set it; a counter at its limit keeps
logins out and does not do so for ever; a follower of a crawl job hears all of
it and never brings it down; an iteration of the load test that passes has
delivered its exam; a link code links one account; a paused workflow stays
paused; a digest covers each notification once.

## 2. Modules

| Module | Models |
|---|---|
| `LmsAttempt` | the LMS attempt runtime |
| `ExamAttempt` | what the runtime promises a student: the abstract specification `LmsAttempt` implements |
| `AuthSession` | the sessions of one user |
| `AuthAccount` | the account, PINs and passwords behind one email |
| `ExamFlow` | the virtual users of the load script, composed with `LmsAttempt` |
| `LoginGuard` | the failure counters, the table of attempts and the blocked addresses in front of the logins |
| `CrawlStream` | crawl pipelines, the SSE hub and the streams that follow a job |
| `MCLmsAttempt`, `MCAuthSession`, `MCAuthAccount`, `MCExamFlow`, `MCLoginGuard`, `MCCrawlStream` | instances for TLC (symmetry, the recipients of an assignment, the credentials file) |
| `LmsAttemptProofs`, `LmsSubmitProofs`, `AuthSessionProofs`, `AuthTokenProofs`, `AuthAccountProofs`, `ExamFlowProofs`, `LoginGuardProofs`, `CrawlStreamProofs` | theorems |

The modules of request handlers are built alike. An element of `Reqs` is one HTTP
request that is served once (a client's retry is another element); `req[r]` is
what it carries, `pc[r]` the database call its handler makes next, `resp[r]` the
response. `Arrive(r)` is any request a client can send in this state; **every
other action is one round trip to a database together with all the code up to
the next one**, with the early returns as disjuncts. A failed call or a dead
process is an action of its own (`Abort`, `...Fails`), enabled when `DBFaults`
(`RedisFaults`) is TRUE and doing what the code does with that error, which
sometimes is to ignore it. `Quiescent` is the stuttering of an instance whose
requests are all served, so that deadlock stays checked.

The definitions marked "Faulty variant" are used by no specification. Each is a
plausible mistake in the code that the property named with it in `PROJECT.json`
detects.

### LmsAttempt

Code: `runtime_service.go`, `attempt_runtime_contract.go`, `repository.go` of
`modules/lms/application/service`.

- `attempts` is the collection. Of a document the model keeps the slot
  (student, assignment, quiz), package hash, status, answer map and score. An
  answer payload is a model value. `max_score`, `percent` and `passed` are
  functions of the score.
- `StartAttempt` → `FindActiveAttempt` → `CreateAttempt` → `FindActiveAgain`:
  the search, the insert that the unique partial index may refuse, and the
  search after a refusal. `FindActiveFails` is the dropped error of the search.
- `SaveAnswerForActor`, `SaveAttemptDraft`, `SubmitAttemptForActor` and
  `SyncAttemptForActor` arrive at `AccessAttempt` (owner check), then
  `ReadAttempt` (status and hash check), then their conditional write
  (`SaveAttemptAnswer`, `SubmitAttempt`) or, for the sync, the unconditional
  `SyncUpdate`, then the read that decides on the answer (`RereadAttempt`,
  `RereadSubmitted`). A submit whose write matched grades: `UpdateAttemptScore`,
  then `FinishSubmit` with the audit event.
- A draft writes its answers in one update here, as in the code.
- `SyncStatuses` is what clients put in `attempt.status` of a sync. The code
  takes any string; the repository's own load test sends `in_progress`.
- `MaxScore` stands for the literal 100 of the scoring code and caps the grade.

All LMS runs use one package hash, so the refusal of a sync or draft with
another hash, though modelled (`HashMismatch`), is not taken at these bounds.

### AuthSession

Code: `auth_service.go`, `repository.go` of `modules/auth`, `pkg/auth/jwt.go`,
and the services of `sessions` and `users`.

- `sessions` is the table of one user; a row keeps the token whose hash it
  holds, the revocation reason and its place in the order of creation.
- A refresh token is its session and the second it was issued: the claims hold
  nothing else that differs between two tokens of a session (`jwt.go:341`).
- `used` is the Redis set of presented tokens, `cache` the sessions whose
  context is cached under `session_ctx`.
- `replacer[s]` is the goroutine that the login of `s` starts: it finds the
  other active sessions, clears their cache and revokes them.
- A refresh is `IsRefreshTokenUsed`, `MarkRefreshTokenUsed`, `FindSessionByID`,
  `RotateSessionRefreshToken`, `InvalidateSessionCache`; a detected reuse goes
  to `RevokeAllUserSessions`.
- `Tick` is a second; `SameSecond` allows a client to present a token in the
  second it was issued; `OtherDevice` allows another device id than the one the
  session was created with.

### AuthAccount

Code: the same service and repository, `pin.go`, `user.go`, the password
package.

- `user` is the row of one email, `pins` the PIN rows, `mail` the purpose each
  PIN was mailed for, `upgrade` the rehash goroutines still to write.
- Transactions run at read committed. `CreatePin` is two steps (delete the
  unused rows, insert and commit); `doomed` are rows deleted and not committed.
  `ValidateAndConsumePin` is `SelectPin` and `ConsumePin`.
- A user's hash is `legacy` when its form is not the configured one: a login
  with the right password then starts `Rehash`.
- BANNED is merged with BLOCKED (the code treats both alike here). Two PINs
  never have the same six digits. The email is not one of the configured
  administrators'. The login guard, which only refuses requests, is a module of
  its own.

### ExamFlow

Code: `load/k6/lms_exam_flow.js`, the client side of the exam path, with
`LmsAttempt` (by EXTENDS) as the server.

- `at[v]` is the call a virtual user makes next, `flow[v]` the local variables
  of its iteration, `out[v]` the connection it waits on, `errors` and `failed`
  the two metrics. `clean`, `late` and `complete` are history.
- The calls on attempts are the requests of `LmsAttempt` (`PostStart`,
  `PostAnswer`, `PostSync`, `PostSubmit`); a connection serves one call after
  another (`Release`). `Receive`, `Refused` and `GiveUp` are the three ends of a
  call; all pass through `Handle`, the checks of the script. `Interrupt` is the
  end of `gracefulRampDown` or of a run: a later iteration with the same student
  is then also the next run.
- The login and the reads touch no attempt and are one step each. The tokens of
  the LMS routes are stateless JWTs, so no session is involved. The header
  `X-Idempotency-Key` is sent but read nowhere in the server, and not modelled.
- Stages, thresholds, tags, timings and sleeps are left out: they decide how
  many users run, which here is any number at any time.

### LoginGuard

Code: `security.go` of `modules/auth`, and the places where `auth_service.go`
calls it.

- `count` is the Redis counter of an email or an address, `ttl` the keys with an
  expiry, `stored` the rows "failed" of `auth_login_attempts` that
  `CountFailedLoginAttempts` counts (within the window, after the last row
  "success"), `blocked` the firewall table, `successes` the goroutines of
  successful logins, which first delete the counters and then store their row.
- One action per call: `CheckFirewall`, `PrecheckEmail`, `PrecheckIP`, `Block`,
  `Verify` (the login itself, as far as the guard sees it), then
  `FailedEmail`, `FailedIP`, `IncrementEmail`, `ExpireEmail`, `IncrementIP`,
  `ExpireIP`, `RecordFailure`; of a goroutine `ResetFailedLoginCounters` and
  `RecordSuccess`.
- `Counts(k)` is `failedLoginCount`: the counter, or, when Redis does not answer,
  what the table holds; only when the query fails too does the login end
  (`CountFails`). The two sources disagree. The failure that reaches the limit is
  stored as "blocked", which the query does not count; a failure whose INCR failed
  is in the table only; so is a Google login with an incomplete identity.
- Any call may fail (`RedisFaults`, `DBFaults`): its server does not answer or the
  context of the request has ended. A failed call does what the code does with
  the error, which mostly is to ignore or log it.
- TTL and EXPIRE are one step: between them only another request's EXPIRE of the
  same key matters, with the same effect. The `ip_blocked` cache key is written
  but not read by the guard and left out. Whether the geo rule and the allow
  rules refuse a request is a choice of `CheckFirewall`: the continent comes with
  the request.
- `lost`, `hopeless` and `unguarded` are history: the keys whose last EXPIRE was
  not executed; the counters of a request that were at the limit when it began and
  have not been deleted since; the counters incremented, since they were deleted
  last, by a login whose precheck did not see them because it fell back to the
  table.

### CrawlStream

Code: `application/service/service.go` and `api/controller/controller.go` of
`modules/crawler`.

- `clients` and `drained` are the hub, `buf` and `closed` the channels, `pipes`
  the table of active pipelines, `run[j]` the goroutine of a job and `stream[s]`
  the handler of a `GET .../stream`; a stream also names the channel it makes.
- A broadcast is two steps, as in the code: the lookup under the lock
  (`Broadcast`, `FinishPipeline`) and the send after it (`Send`, `SendError`).
  `Panic` and `PanicAgain` are the send on a channel closed in between; after
  it, `EnqueueURL` recovers, and the goroutines of the controller do not and end
  the process (`up`).
- A pipeline returns early (`StopEarly`) from its second broadcast on; what its
  twelve steps fetch, score and store is left out.
- `CrawlJobHandler`, which nothing registers, is not modelled.

## 3. Properties and runs

| Run | Instance | Shows |
|---|---|---|
| `lms_any_client` | 3 requests, 2 students of whom one is a recipient, 2 attempt ids, 2 questions, 3 sync statuses, faults | `TypeOK`, `OneActivePerSlot`, `ScoreWithinAnswers`, `StartedIsOwn`, `AnswersNeverDropped`, `SubmittedAnswersFrozen` hold whatever clients send and whatever fails |
| `lms_no_status` | 4 requests on one attempt, 2 answers, no status in a sync, faults | `SubmitRetrySafe`, `SavedAnswersStored`, `AuditedOnce`, `UngradedOnlyByFailure`, and `ImplementsExam` (refinement of `ExamAttempt`) |
| `lms_sync_reopens` | 4 requests, status `in_progress` in a sync, no faults | finding: `SubmitResultsAgree` is violated |
| `auth_faults` | 4 requests on one session, 2 seconds, other devices, Postgres and Redis faults | `TypeOK`, `TokenSpentOnce`, `RevokedIsFinal` |
| `auth_sessions` | 3 requests, 2 sessions, 2 seconds, no faults, fair | `NewerReplaces`, `StoredTokenHeld`, `StoredTokenUsable`, `SessionsConverge` |
| `account` | 3 requests, 2 PINs, 2 passwords, an administrator who blocks, faults | `TypeOK`, `AcceptedPinSpent`, `ActivatedByProof`, `RegisteredOnce`, `PasswordAuthorized` |
| `account_resend` | 3 requests, 2 PINs | finding: `MailedPinWorks` is violated |
| `exam_flow` | 2 virtual users in any mix of scenarios, 2 students, 2 iterations, 2 questions, 2 connections, no faults, fair | `NoCheckFails`, `ExclusiveAttempts`, `EventuallyGraded`: without faults of the server the script reports none, and every attempt it submits gets its grade stored |
| `flow_faults` | 1 virtual user, 2 iterations, calls that fail, are given up or cut off, database faults | `FlowTypeOK`, `PassedMeansDelivered`: an iteration whose checks passed delivered its answers, whatever went before |
| `login_guard` | 3 logins, 2 at a time, 1 email, 1 address or none, geo rules, limit 2, Redis and Postgres faults | `TypeOK`, `LockedOutUnverified` |
| `guard_window` | the same with limit 1 and without geo rules, fair | `CounterBound`, `GuardReopens` |
| `crawl_stream` | 2 jobs of which one recovers, 2 streams, channels of 2 places, 2 broadcasts, fair | `TypeOK`, `HubChannelsOpen`, `RunningMeansSomeone`, `PanicOnlyWhenBroken`, `HeardInFull`, `PipelinesForgotten`, `StreamsEnd` |

Why these bounds. Every race in these handlers is between two requests that
work on one document or row; the third request sets the scene (the start, the
login, the registration) or disturbs (a sync, a logout, a new PIN), and the
fourth, where there is one, is the retry that observes. Two attempt ids, session
ids or PINs are the least with which an insert can lose against another. Two
questions are needed to see one answer overwrite another (`lms_any_client`), two
answers to see a value replaced (`lms_no_status`). `MaxScore` is 1 so that two
answers reach the cap. `TTL` = 2 and `MaxClock` = 2 let a token age, rotate and
expire. Each property is violated by a faulty variant under the same bounds, so
that the bounds reach the case the property is about. `account` was also checked
once with four requests (4.3 million states).

For the load script, two virtual users with a student each are the least that
can meet in an attempt, and the second iteration is the one that finds what the
first left open; with one user and two connections an abandoned call is still
served while the next one runs. For the guard, a limit of 2 and
two requests at a time let two failures read a count below the limit and reach
it together, and the third login finds it there; with a limit of 1 two failures
take a counter one past the limit, the most `CounterBound` allows, and a third
login could take it further. In both, each read has two sources. For the crawler, a channel that holds exactly
the events of a pipeline (`Cap` = `Steps`) is the tightest case the code's 100
and 10 leave room for; two streams may follow one job, each replace and close
the other, or one job each.

Symmetry over requests, ids, PINs, passwords and questions is sound: the
modules only compare them (in `flow_faults`, over connections and attempt ids).
The runs that check liveness use no symmetry.

Fairness. `FairSpec` is weak fairness of each handler's `Step` and of each
login goroutine, and nothing else: a goroutine that was started and whose
database calls return goes on. No fairness is assumed of clients, of time or of
failures. `auth_sessions` and `exam_flow` have no faults: with a failed score
write the stored score stays 0 for ever, with a dead process the old sessions
stay active, and the code retries neither. (That the failure is the only reason
for a missing grade is `UngradedOnlyByFailure`, which is checked with faults.) In
`exam_flow` the handlers go on and a virtual user goes on once its call is
answered; `EventuallyGraded` is about the requests the script sends, whose syncs
carry `in_progress` but end before the submit begins. It is false of arbitrary
clients: a sync with the status `submitted` closes an attempt that nobody grades.
In `guard_window` calls fail as they like, and time passes: a counter with an
expiry, the block of an address and a row within the window end (`WindowOver`,
`BlockOver`, `RowOld`), which Redis, the `expires_at` column and the `created_at`
condition guarantee; logins and what a password check says are free. In `crawl_stream` pipelines and handlers go on; nobody has to
connect, leave or shut down, and a pipeline that is at work goes on to its end
by broadcasts if it does not return early.

Instances end: requests are finite, so `SessionsConverge` reads "once logins
stop, at most one session stays active".

### Findings

Two disagreements between the code and its own documents have a run whose
counterexample is the shortest sequence of database calls that shows them.

1. **A sync reopens a submitted attempt** (`runtime_service.go:299`,
   `lms_sync_reopens`). `SyncAttempt` writes the client's status without a
   condition, after checking a status read before. In the run a submit is
   answered with score 0, the sync writes `in_progress` over it, and a second
   submit is answered with score 1: two results for one attempt, against
   `docs/ERG-51-capacity-report.md:26`.
2. **A resent registration PIN does not activate** (`auth_service.go:1184`,
   `account_resend`): it is stored for another purpose than the mail names.

### Other observations

Met while modelling; no run is kept for them. The first three are stated as
properties that the code does not keep, for use once it does.

- `ReplacedByNewer` (`auth_service.go:740`): logins A and then B insert their
  sessions, A's goroutine runs last and revokes every other session, B's
  included.
- `LogoutClearsContext` (`sessions_service.go:106`): `GetCurrentSession` reads the
  row, a logout revokes it and clears the cache, and the context is then cached
  from the row read before, against the comment at `repository.go:338`.
- `UpgradeKeepsPassword` (`auth_service.go:1532`): a login with a legacy hash
  starts the rehash, the password is changed, and the rehash writes the old
  password back.
- Two requests that enter one PIN at a time may both be let through: the UPDATE of
  `ValidateAndConsumePin` does not look at the number of rows it changed
  (`repository.go:713`), although the comment at `:693` says that the PIN is
  marked "atomically". `AcceptedPinSpent` states what is left: afterwards it is
  spent.
- When a search for the active attempt fails, `StartAttempt` answers with a blank
  attempt (`runtime_service.go:176`), which `StartedIsOwn` excepts.
- A login whose read of a counter falls back to the table of attempts gets past a
  counter at the limit, because the failure that reached it was stored as
  "blocked" (`security.go:219`); `LockedOutUnverified` and `CounterBound` say
  that this takes the fallback of that very read.
- A token refreshed in the second it was issued is rotated to itself
  (`jwt.go:341`), and the client's next refresh counts as reuse; this is why
  `StoredTokenUsable` and `SpentOnce` assume `SameSecond` = FALSE.
- Virtual users that share a student (one `AUTH_TOKEN` for all, or one
  credentials file used by several generators, as in
  `docs/load-testing-100k.md:29` and `:37`) work on one attempt and make each
  other's checks fail: the error rate of `:100` is then not the server's.
- A request that a virtual user gave up on and that is still served may save into
  or submit the attempt of the next iteration; hence `~ late` in
  `PassedMeansDelivered`.
- A counter that reaches the limit and whose EXPIRE is lost (the context ended
  after the INCR) has no expiry, and the precheck refuses every login that could
  repair it: the email or the address stays locked out until the key is deleted.
  `GuardReopens` says that this is the only way.
- A second stream of a job replaces the first in the hub; when the first ends,
  its deferred `Unregister` closes the channel of the second.
- A stream that leaves between lookup and send makes the pipeline panic; without
  a recover (`controller.go`) the process ends. A panic inside
  `emitTerminalEvent` skips the timer of `finishPipeline`, and the entry stays in
  the table of pipelines.
- `Drain` says that it "prevents new registrations", but `Register` does not look
  at `drained`: a stream that passed the check before still registers. No channel
  is closed twice by this (`HubChannelsOpen`).
- The done event is sent before the history of the job is updated: a client that
  asks at once may read the older state.

## 4. Proofs

The theorems hold for any sets of requests, students, ids, questions, answers,
PINs and passwords and any time bound, under the assumptions the modules name
(`ConstantsAssumption`, `NoneAssumption`, `SessionAssumption`, `NoneIsNoRecord`,
`AccountAssumption`, `NoneIsNoRow`, `NoneIsNoPurpose`, `GuardAssumption`,
`StreamAssumption`, `FlowAssumption`: flags are Boolean, bounds are naturals,
`None` is not a record or an id, the questions, session ids and concurrent logins
are finite, emails are no addresses, the events of a pipeline fit into a channel,
there are as many fallback questions as are asked). `CredentialsAssumption` (the
lines `SelectSeq` keeps of the credentials file are students) and
`AnswersAssumption` (the answers the script can build are answers) are facts of
the configuration that the prover cannot compute: the first needs an induction
over the file. TLC evaluates all of them in every run.

| Theorem | States | Further assumption |
|---|---|---|
| `LmsAttemptProofs!TypeCorrect` | `[]TypeOK` | |
| `LmsAttemptProofs!ActiveUnique` | `[]OneActivePerSlot` | |
| `LmsAttemptProofs!ScoreBounded` | `[]ScoreWithinAnswers` | |
| `LmsAttemptProofs!AnswersSurvive` | `AnswersNeverDropped` | |
| `LmsAttemptProofs!SubmissionFrozen` | `SubmittedAnswersFrozen` | |
| `LmsAttemptProofs!StartedOwn` | `[]StartedIsOwn` | |
| `LmsSubmitProofs!RetrySafe` | `[]SubmitRetrySafe` | no status in a sync |
| `LmsSubmitProofs!AuditUnique` | `[]AuditedOnce` | no status in a sync |
| `LmsSubmitProofs!UngradedFailed` | `[]UngradedOnlyByFailure` | no status in a sync |
| `LmsSubmitProofs!SavedStored` | `[]SavedAnswersStored` | no status in a sync |
| `LmsSubmitProofs!Implements` | `ImplementsExam` | no status in a sync |
| `AuthSessionProofs!SessionTypes` | `[]TypeOK` | |
| `AuthSessionProofs!RevokedFinal` | `RevokedIsFinal` | |
| `AuthTokenProofs!NewestOwes` | `[]NewerReplaces` | no Postgres faults |
| `AuthTokenProofs!SpentOnce` | `[]TokenSpentOnce` | no refresh in the second of issue |
| `AuthTokenProofs!TokenHeld` | `[]StoredTokenHeld` | no Postgres faults |
| `AuthTokenProofs!TokenUsable` | `[]StoredTokenUsable` | no Postgres faults, no refresh in the second of issue or from another device |
| `AuthAccountProofs!AccountTypes` | `[]TypeOK` | |
| `AuthAccountProofs!AcceptedSpent` | `[]AcceptedPinSpent` | |
| `AuthAccountProofs!RegisteredAtMostOnce` | `[]RegisteredOnce` | |
| `AuthAccountProofs!ActivationProved` | `[]ActivatedByProof` | |
| `AuthAccountProofs!PasswordsAuthorized` | `[]PasswordAuthorized` | |
| `ExamFlowProofs!FlowTypes` | `[]FlowTypeOK` | |
| `ExamFlowProofs!Exclusive` | `[]ExclusiveAttempts` | `OwnCredentials` |
| `ExamFlowProofs!Delivers` | `[]PassedMeansDelivered` | `OwnCredentials` |
| `ExamFlowProofs!ChecksPass` | `[]NoCheckFails` | `OwnCredentials`, `Faultless` |
| `LoginGuardProofs!GuardTypes` | `[]TypeOK` | |
| `LoginGuardProofs!CountersBounded` | `[]CounterBound` | |
| `LoginGuardProofs!LockedOut` | `[]LockedOutUnverified` | |
| `CrawlStreamProofs!StreamTypesKept` | `[]TypeOK` | |
| `CrawlStreamProofs!ChannelsOpen` | `[]HubChannelsOpen` | |
| `CrawlStreamProofs!RunningIsServed` | `[]RunningMeansSomeone` | |
| `CrawlStreamProofs!PanicsNeedABreak` | `[]PanicOnlyWhenBroken` | |
| `CrawlStreamProofs!StreamsHearInFull` | `[]HeardInFull` | |

`OwnCredentials` is the setup in which every virtual user logs in as a student of
its own: one generator, no token shared by all users, at least as many
credentials as users and no credential twice. `Faultless` adds that no call, response or database access
fails, that an assignment and a quiz are given, and that the students of the
credentials are recipients of the assignment. The configuration of `exam_flow`
satisfies both, that of `flow_faults` the first.

The arguments.

- **Types.** `TypeOK` is not inductive: an action indexes a table with an id the
  request carries. `HandlerOK(r)` says what a handler has at each `pc`: a
  request of its kind and, once it has located a document, that the document
  exists. Documents are never deleted (LMS, sessions), or the handler keeps what
  it needs (PINs).
- **One open attempt** follows from the index condition of the two writes that
  can make a status `in_progress`; the action properties about answers from one
  lemma, `StepWrites`, that lists what a step can do to the collection.
- **Bounded score.** `CountsStored`: a count read earlier is at most the number
  of answers now stored, because answers are only added.
- **Retry safety** needs `GradesOK`: a stored score is absent or final; a handler
  past its submit write works on a submitted attempt; the count of a grader is
  that of the frozen answers; a result sent is their grade. It holds because
  without a status in a sync nothing leaves `submitted`, and a submitted
  attempt's answers match no conditional write. **Audit** adds `OneGrader`: one
  request per attempt had its submit write matched.
- **Missing grades.** `Excuse`: a submitted attempt whose stored score is not the
  grade of its answers has a submit between its write and the score write, or one
  that ended in an error. The write that closes the attempt creates the excuse;
  the only step that ends it without an error writes the grade, and the answers
  it counts are frozen.
- **Starts.** `UnansweredOK`: a request has no response before its handler ends,
  so that what a response says is settled in the step that sends it; the attempt
  it names stays the caller's because no step moves an attempt.
- **Saved answers.** `SavesOK`: from its write to its response a save has in the
  attempt, for each of its questions, its own value or that of another request
  for the same question. A save whose write found no match reads the attempt
  submitted afterwards and is answered `attempt_done`, not `saved`: this is where
  "no status in a sync" is needed.
- **Refinement.** `Exams` and `Tells` map the collection and the responses to the
  state of `ExamAttempt`. The write of a save or a submit is the abstract
  operation; the responses that follow are the abstract answers, allowed by
  `SavesOK` and `GradesOK`; every read, every grade stored and every failure
  leaves the abstract state alone. One lemma per kind of step, and `Implements`
  combines them.
- **Tokens.** `SpentInv`: a request that has rotated a token leaves a row whose
  token was issued later (`SpentTokensOld`), so that no second rotation matches
  the same token (`SpentApart`). This is where the second of issue matters.
- **Stored tokens.** `HeldOK`: the token a row stores was sent, or the refresh
  that stored it is about to send it; without Postgres faults nothing comes
  between the rotation and the response. `TokensBehind`: a token that was sent or
  presented is not newer than the one its session stores, and a rotation stores a
  newer one; and every refresh of the session's own device that presents the
  stored token rotates it, so that the stored one is presented at most by a
  refresh under way. No assumption on Redis is needed.
- **Newest session.** `OwesInv`: the newest row is the last inserted
  (`CreatedBound`), its goroutine starts with the insert and finishes only by
  revoking whatever else is active; a session that appears later is newer and
  owes in its turn.
- **PINs.** A PIN that is generated and not yet inserted is nobody else's
  (`NewPin`); a PIN accepted is updated or has been deleted, and neither is
  undone. **Registration** adds `OneAccount`: a registration that was answered
  with success, or is about to issue its PIN, created the row that is there.
- **Proofs of address.** `ShownInv`: a stored PIN was mailed for the purpose it is
  stored with (`MailOK`); a request past the `SELECT` has matched a PIN mailed
  for the purpose it asked for (`ProofsOK`); an active registered account has a
  request that showed such a PIN, or Google, and ended with success (`ActiveOK`);
  the stored password has a request that may set it and was not refused
  (`PasswordOK`). The witnesses persist because a response is final and a mailed
  PIN keeps its purpose.
- **Virtual users.** `FlowInv` relates the two sides of a call. A handler serves
  calls of its kind (`OpOK`) and, past the access check, an attempt of its actor
  (`OwnerOK`); the local variables fit the place in the script (`PlaceOK`: the
  turn of the loop, the answers given so far); a user waits for the call it is
  at, with what it put into it (`WaitOK`), no two for the same one (`OutApart`);
  its student is that of its credential and its attempt is its student's
  (`OwnOK`). Every step of a user posts a call or goes on (`VUMoves`), so that
  the proof has one case for each and one for the server. `Exclusive` follows:
  users of the same attempt have the same student, hence the same credential.
- **Delivery.** `DeliveryInv`, for an iteration that is clean and not late: no
  request of its student is under way but its own (`Alone`), so that the attempt
  the start found is open (`StartedOpen`), stays open up to the write of the
  submit (`StillOpen`), is then closed with the answers of the iteration and
  graded from what is stored (`GradingOK`), and is left alone by everyone else
  until the next iteration (`DoneOK`, `WorkStays`). Nothing is assumed of
  earlier iterations: what they left open is what the start finds, and what they
  abandoned is excluded by `late`, the one way in which a passed iteration may
  fail to deliver.
- **No failed check.** `CleanInv`: without timeouts every request is awaited
  (`Awaited`), so no iteration is late and `DeliveryInv` holds of all; every
  attempt has the hash of the published package (`Published`); an insert that
  found no open attempt meets none (`SucceedOK`), because another user has
  another student; and every handler ends in a success.
- **Counters.** `Pending(k)` are the requests that have read counter `k` in Redis
  below the limit and may still increment it. `Bound(k)`, for a counter that is
  not `unguarded`: the counter plus their number is at most the limit less one
  plus the number of requests. A request joins `Pending` only when it reads the
  counter below the limit, and then the bound holds because no more than all
  requests can be pending; an increment moves one from `Pending` to the counter,
  or comes from a request that fell back and makes the counter unguarded;
  deletion and expiry lower it and start anew. The lemma `StepShape` says once
  what a step does to its request and to the counters (`Local`, `Effect`).
- **Locked out.** `Doomed(q)`: a request one of whose counters was at the limit when
  it began finds it there at the read still to come, has read it and is refused,
  or fell back at that read (`fell`); counters are lowered only by deletion, which
  ends the claim.
- **The hub.** `Listening` (a channel in the hub belongs to an open handler of
  that job and is not closed), `ClosedUsed`, `Fresh`, `Sending` (a pipeline sends
  to a handler of its own job) and `Reported`, together inductive: a stream
  unregisters a job, never a channel, so what it closes is open and leaves the
  map in the same step.
- **Undisturbed jobs.** `Calm(j)`: as long as no stream of `j` is closed early,
  the open stream is the one in the hub, a channel that was looked up is still
  there (`Sole`), and what a stream has written and what its channel holds are
  together the events up to the last one sent, numbered without a gap, a
  terminal one last (`Heard`). The numbers bound the length of the buffer
  (`BufLen`), so that the send that does not block always finds room; a terminal
  event is only sent by a pipeline that sends nothing more (`SaidAll`), so that
  the stream that ends on it closes a channel nobody uses.

Inductive invariants were checked with TLC before they were proved, those of the
login guard and the event streams excepted.

Only model-checked: the liveness properties and the use of fairness, which are
outside the prover. Every invariant and every action property of a passing run
is proved.

## 5. Plan

Next, in this order:

1. `AuthLogin`, a composition of `AuthSession` and `AuthAccount`: a login that
   verified the old password inserts its session after a reset revoked all.
2. `RateLimiter`: the Redis window and the in-memory one against one abstract
   window; replicas with clocks apart.
3. `BotLink` and `BotWorkflow`: one-time codes, pause and cancel against a
   running step.
4. `Digest` and `EventBus`: at-least-once digests, subscriptions against stop.
5. `TopSort`: the dependency order of `pkg/compose` as a recursive function
   checked against its definition over all small graphs.
6. `PostJob`: a retried generation job.
7. Assignments as state of `LmsAttempt`, with partial batches and their retry.

Where the code is corrected, the run of a finding becomes a passing one.

## 6. Not modelled

Modules whose operations are one read or one write (posts, pages, menus,
courses, community, reviews, recruitment, profiles, documents, public
disclosure, centers, elearning): nothing interleaves inside an operation.
Formatting, parsing and scoring of text (SEO, sitemap, hoclieu import, RSS,
scraping, simhash): data outside the reach of a model checker. Clients of
external services (AI providers, mail, object storage, chat platforms), start-up,
configuration, telemetry and generated code: I/O without a protocol of their
own. Cryptography (signatures, hashes, CSRF) is assumed to do its job; a token
or a password is told from another by its identity. Tenants are independent:
every model is of one.

`PROJECT.json` lists the hazards of the components that are modelled. Those of
the others, and of the parts left out, for the modules of the plan:

- crawler: the timer of `finishPipeline` deletes a job's entry by id ten seconds
  later, also that of a retry with the same id.
- bot: a link code is read and deleted in two calls, so that two platform
  accounts that send it together are both linked (`link.go:81`); a pause or a
  cancel that comes while a step runs is overwritten (`workflow.go:194`).
- rate limiter: the member of the window is a millisecond and a counter that
  every process starts at 1, so that two replicas may write the same member
  (`ratelimit.go:220`).
- event consumer: `Stop` may run while `Start` is still subscribing, and a second
  `Start` forgets the subscriptions of the first (`event_consumer.go:97`).
- users: revoking a session or changing the password revokes rows and leaves the
  cached session contexts (`users/.../service.go:260`).
- auth: `GoogleLogin` writes ACTIVE when the row it read earlier was pending
  (`auth_service.go:600`), also over a block in between.
- bot links: linking stores `unlinked_at` as null, while every query asks for
  documents without that field.
- digests: a digest is sent before its notifications are marked, and a crash in
  between sends them again (`digest.go:249`); `MarkDigested` leaves the status pending, so that digested
  notifications fill the 500 the flush looks at.
- assignments: "all" means the first 100 students of a class; a batch that fails
  half way keeps what it inserted, and a retry inserts it again.
- generation jobs: a retry generates again what only failed at its thumbnail.
- trending: a refresh may start while the last one still runs.
- auth: the error of revoking all sessions after a detected reuse is dropped;
  `VerifyPIN` for a password reset consumes the PIN that the reset wants again.
