# Ankyra: a TLA+ verification project

Ankyra is a personal-assistant service: a NestJS API, a BullMQ worker and a React console over
Postgres (through Prisma) and Redis.  Users connect mail accounts, schedules synchronise them in
the background, a sync writes task and briefing snapshots and sends notifications, and users talk
to assistant instances in conversations.  This directory models the parts of it whose correctness
depends on the order in which several actors act, checks the models with TLC and proves the most
important results with TLAPS.

All paths below are relative to the repository.  `PROJECT.json` lists the components, the runs,
the source lines behind every definition, the hazards and the theorems.

## 1. Inventory

| component | state it keeps | operations | hard behaviour | what makes it correct |
|---|---|---|---|---|
| processing gate (`job-queue.service.ts`) | Redis: settings, the set `active_jobs`, a counter per minute | wait for a permit, release it, update settings | check and increment are separate Redis commands; workers die with a permit; BullMQ redelivers | limits exceeded by a known margin only; no permit taken from a running job; every job gets through |
| job pipeline (`job-schedule.service.ts`, `jobs.scheduler.ts`, `jobs-queue.worker.ts`) | `Job` and `Schedule` rows, BullMQ job state, dead-letter queue | tick, run, retry, requeue, bulk requeue, process, pause, resume | save, then enqueue; failing writes inside and outside the `try`; overlapping runs of one job | a queued row reaches the queue and an outcome; outcomes stand; retry counts follow the lineage |
| connector synchronisation (`connector.service.ts`, snapshot services) | accounts, token refs, sync states, snapshots | authorise, sync, revoke | a sync races a first sync, a revocation races a callback; read, then create; partial failure of `Promise.all` | an answered sync has done everything; snapshots belong to their user; a revoked account has no live token |
| notifications (`notification-dispatch.service.ts`, `notification-preference.service.ts`) | messages, preferences | dispatch after a sync, update preferences | redelivery sends twice | an answered sync has sent both messages |
| conversations (`ai-runtime.service.ts`, `conversation.service.ts`) | conversations, numbered events | create, send a message | two turns read the same next number; keys made of the time | the ledger is gapless, in time order, replies behind their messages |
| identity and sessions (`auth.service.ts`) | users, identities, memberships, sessions | login, callback, context, switch organisation, logout | two first logins, logout against switch; the switch does not ask who is a member | two users of one address only from logins that overlap; a signed-out session stays out; one user for a session |
| assistant instances, governance (`assistant-instance.service.ts`, `approval.service.ts`, `admin.service.ts`) | instances, approval records, audit log | create, upgrade, suspend; approve, reject; list, summarise | read-modify-write over a whole row; identifiers made of the time | what undoes a decision or an upgrade had read the row before it; who was told of a row finds it |
| console session (`App.tsx`, `api.ts`) | React state, `localStorage`, a cookie | bootstrap, sign in, switch, sign out | handlers overlap; an answer of one arrives after another's | page, stored token, cookie and row agree |
| console views (`App.tsx`, `api.ts`, `demo-data.ts`) | nine views, a filter, selections, the demo state | 11 loaders, 20 buttons, 5 effects, a timer | answers out of order, handlers with an old context, two calls for one view, silent switch of single calls to the demo data | a view at rest shows what the API holds for the page; its parts agree; the demo data agree with themselves |
| health, dashboards, stubs | none | read | none | |

Interactions: the API and the worker share Postgres and Redis and never call each other.  The
scheduler inside each API process and API requests write job rows and add BullMQ jobs; workers take
them, pass the gate and run `processQueuedJob`, which calls the connector service, which calls the
snapshot and notification services.  Conversations share only the database with the rest.  The
console calls the API over HTTP.

## 2. Modules

| module | models | proofs |
|---|---|---|
| `PermitPool` | what the gate promises: a pool of permits with a capacity and a rate | |
| `ProcessingPermits` | the gate, one Redis command per step, with BullMQ's delivery around it | `ProcessingPermitsProofs` |
| `JobLedger` | what the table of jobs promises: rows written once, outcomes only of jobs with a connector, copies of saved jobs | |
| `JobPipeline` | scheduler, API requests, workers, rows, queue, schedules | `JobPipelineProofs` |
| `ConversationLog` | what the ledger promises: an append-only log of questions and answers | |
| `ConversationTurns` | turns and creations, each database call issued and executed in two steps | `ConversationTurnsProofs` |
| `ConnectorSync` | authorisations, syncs and revocations, one database call per step | `ConnectorSyncProofs` |
| `SessionLifecycle` | what the table of sessions promises: active, moved while active, revoked for good | |
| `AuthService` | the identity module of the API: calls one database call at a time, over users, identities and sessions | `AuthServiceProofs` |
| `ConsoleSession` | the session handlers of one page of the console, its stored token and cookie, over `AuthService` | `ConsoleSessionProofs` |
| `Governance` | approvals, assistant instances and preferences: requests of any clients, one database call per step, and the queries over them | `GovernanceProofs` |
| `DemoStore` | the state of `demo-data.ts` and the operations of `demoData`, as functions | in `ConsoleViewsProofs` |
| `ConsoleViews` | the views of one page: loaders, buttons, effects, timer, between `Governance` and `DemoStore` | `ConsoleViewsProofs` |
| `MC...` | the symmetry sets TLC uses; values of the constants are in the `.cfg` files | |

`PermitPool` is implemented by `ProcessingPermits`, `JobLedger` by `JobPipeline`, `ConversationLog` by
`ConversationTurns`, `SessionLifecycle` by `AuthService`; the refinements are checked by TLC and proved.
`ConsoleSession` extends `AuthService` and composes with it: its steps send calls and take answers,
and the steps of the service run in between.  `ConsoleViews` extends `Governance` in the same way and
has an instance of `DemoStore`; of the tables of the other modules it keeps the number of their
changes, and of the session the user and the organisation `setAuth` was given.  The modules are otherwise composed by abstraction, at
the points where the code calls from one part into another.  `JobPipeline` has the wait for a
permit as a delay before the step `SaveRunning` and the whole of `syncConnector` as the step
`Sync`, which succeeds or throws; `ProcessingPermits` has all of `processQueuedJob` as the time a
worker spends in `"process"`; `ConnectorSync` has a sync begun by a request or by a job alike.
BullMQ appears in both job modules with the same rules: one worker at a time holds the lock of a
job; a job whose lock is lost is put back at most `MaxStalledCount` times; a processor that threw
is retried until `MaxAttempts`.

### State and actions against the code

`PROJECT.json` gives the lines behind each definition; in outline:

* **ProcessingPermits.**  `settings`, `activeJobs`, `rateCount` are the three Redis values;
  `delivery`, `owner`, `stalledCount`, `attemptsMade` are BullMQ's state of a job; `pc`, `jobOf`,
  `seen` are one worker process.  `ReadSettings`, `ReadActiveCount`, `ReadRateCount` and the
  membership test (`AlreadyActive`, `Refused`, `Admitted`) are the reads of
  `tryAcquireProcessingPermit`, `Grant` its `MULTI`, `Release` the `finally` of the processor,
  `Ack` what BullMQ does when the processor ends.  The reads go out together in a `Promise.all`
  over one connection, so Redis executes them in their order, with other clients' commands
  between them.  Of each count only the comparison it is used for is kept.  `BeginUpdate` and
  `StoreUpdate` are the two commands of `updateQueueSettings`.
* **JobPipeline.**  `status` and `row` are the `Job` table, `nextRun` the `Schedule` table.  An
  issuer is a scheduler process or an API request: `Tick`, `PickSchedule`, `RunRequest`,
  `CloneRequest`, `ReadSource` choose the row to write; `SaveQueued` and `Enqueue` are the write
  and `queue.add`; `FailRequest` and `ApiCrash` cut in between.  A worker goes through `Take`,
  `SaveRunning` (outside the `try`), `Sync`, `SaveCompleted`, `AdvanceSchedule`, or `SaveFailed`
  (the `catch`), and `Outcome`.  `outbox` holds the dead-letter entries that the event handlers
  send without awaiting.  Time is counted in periods of 30 minutes, all that `next_run_at` is
  compared with.  `RunRequest` takes `schedule_id`, `connector_account_id` and `trigger_type` from
  the client, who relates them in no way: a job run by hand may say it is scheduled and have no
  schedule.  `RunTriggers` is what clients send.  `source`, `everFailed`, `orphans`, `undone` (jobs whose completing run
  failed in a later write) and `lostLetters` (jobs whose dead-letter entry died with the worker that
  had yet to send it) are history variables.
* **ConversationTurns.**  A turn is a `POST .../messages`; `Issue` takes the time and sends an
  insert, `Insert` or one of the refusals (`Overtaken`, `Clash`, `Unknown`) is the database's
  answer, by the unique index on the sequence number, the primary key and the foreign key.  A
  conversation is named by the instant in its key, as `createConversation` names it.
* **ConnectorSync.**  `owner` and `status` are the account row, `token` its token ref,
  `syncState` the row of the target `mail`, `tasks` and `briefing` the user's snapshots of the
  day, `messages` what a sync has sent.  The values are the syncs they came from, for that is all
  the properties tell apart.  `open` holds the calls a sync has sent and not awaited: the three
  of its `Promise.all`, of which the third starts two more.  An account is named by its
  authorisation (a random identifier) or by an instant (a demo account), two of which may be the
  same.  `settled` is a history variable: the syncs that were over when this one began.
* **AuthService.**  `mail`, `identity` and `session` are the tables `User`, `OAuthIdentity` and
  `UserSession`; a call is one HTTP request, its record what it was asked, has read and answers.
  A login goes through `ReadIdentity`, `UserFound` or `UserMissing` and `CreateUser`,
  `LinkIdentity`, `CreateSession`; `FindSession` is the context, `MoveSession` and `CheckSession`
  the two calls of a switch, `RevokeSession` the logout.  What a provider says at a login is a member
  of `Profiles`, an account and an address: the address may change from login to login, belong to several
  accounts (the demo exchange gives one to every code) or be missing.  An existing identity keeps its user, and the
  user its first address, whatever the profile says now.  The key of an identity names the provider and
  the user, so `LinkIdentity` is impossible for a user's second account at a provider (`KeyTaken`); that
  call is left to `FailCall`.  A token's expiry is one flag
  (`ExpireToken`), for the code compares seven days with the present and nothing else.  Tokens and new users
  have random identifiers, so both are named by the call that makes them.  `revokedAt` and
  `usersAt` are history variables.  `ServiceSpec` is the service with callers of any kind.
* **ConsoleSession.**  `page` is the state `auth` of `App.tsx`, `stored` the token in
  `localStorage`, `cookie` what the API set.  `Load` is `bootstrap`, `SignIn` and `SignInAway` the
  two outcomes of `beginOAuthLogin`, `ReturnWithToken` the redirect of the API, `SwitchTo` and
  `SignOut` the other handlers, and the actions `...Ends` and `SignedOutContext` what they do with
  their answers.  `Fallback` is `withDemoFallback`: a call that failed or has no answer is answered
  by the demo data.  `overlapped` is a history variable: the handlers that ran beside another.

* **Governance.**  `approval`, `instance` and `preference` are the tables; a call is one HTTP
  request.  `FindApproval`, `FindInstance` and `NameInstance` are what a service does before its
  write, `SaveDecision`, `SaveInstance` and `SavePreference` the upserts, `RefuseDefinition` the
  foreign key.  Who made a request and what it names come from the controllers; a decision on a
  record nobody has is answered without a write.  `place` and `seen`, the number of writes at the
  write and at the read of a call, are histories.  `listApprovals` and `getSummary` answer made-up
  entries where there is nothing, as the code does.
* **DemoStore.**  One operator for each operation of `demoData` that a view shows; items are
  known by their index.  `SeededSummary` and `createInitialState` are the initial state.
* **ConsoleViews.**  A load is one run of a loader: its key (user, organisation, filter or
  selection), the answers that have arrived, and four histories; `AnswerPart` is a call of `api.ts`
  answered by the API or by `withDemoFallback`, `ApplyLoad` the setters behind the `await`,
  `FailLoad` an exception.  A handler is one press of a button; `HandlerOf` gives each of the
  twenty its call and its loaders, `Press` sends it with what the page has, `Serve`, `Refuse` or
  the steps of `Governance` are the API, `CallAnswered`, `DemoAnswers` and `Throw` the rest of the
  handler.  `SetAuth`, `Choose`, `SetLocale` and `TimerFires` are the effects; two of them fire on
  `setAuth`, so that the jobs are loaded twice.  The views do not read one another, except for the
  buttons a list shows: a behaviour follows one view, and a button is pressed only if it writes or
  loads that view.

## 3. Runs

| run | instance | question |
|---|---|---|
| `PermitsRace` | 2 workers, 2 jobs, 1 administrator, concurrency 1, rate 2, a crash, a lost lock, fairness | Do permits back the runs that use them, are they left behind only by lost workers, how far are the limits exceeded, does the protocol implement the pool, and does every job settle unless leaked entries block the gate? |
| `PermitsOvershoot` | 2 workers, 2 jobs, no faults; violation | Is the configured concurrency a limit? |
| `PermitsBlocked` | 1 worker, 2 jobs, a crash, fairness; violation | Does every job settle? |
| `PipelineFaults` | 1 job, 1 schedule, a scheduler, a client, 2 workers, pauses, 2 failing writes, an API and a worker crash, a lost lock | What happens to one job through every interleaving of those who touch it? |
| `PipelineRetries` | 2 jobs, a client, a worker, 2 attempts, a failing write, a crash, fairness | With a client whose runs say they are scheduled: do retries and requeues keep their counts, does the protocol keep the promises of the table (copies of saved jobs, requeues only of what failed), and do queued jobs reach an outcome? |
| `PipelineDuplicates` | 2 jobs, a schedule, a scheduler, no faults; violation | Does a schedule of every 30 minutes run once in 30 minutes? |
| `TurnsRace` | 2 turns, 2 creations, 2 users, 2 instants, a fault, fairness | Is the ledger gapless, ordered, whole, an append-only log, when may the last message stay without a reply, and does somebody get an answer? |
| `TurnsUnrecorded` | 2 turns, 1 creation, no faults; violation | Is every message recorded? |
| `SyncsRace` | 2 authorisations, 2 syncs, a revocation, 2 users, an instant, a fault | What has an answered sync done, and what may races of syncs, authorisations and revocations leave behind? |
| `ConsoleRace` | 4 handlers, 5 calls, 2 accounts of one provider with 4 profiles, 2 logins, 3 organisations, a call that fails or an answer that is lost | Are revoked sessions refused, do page, stored token, cookie and row agree, what explains a page that shows a revoked session, and does the table follow the lifecycle? |
| `ConsoleSignOut` | the same without faults; violation | Is the button to sign in back after signing out? |
| `ViewsRace` | each of 9 views, a handler, 2 loads, 2 calls, 2 users and organisations, 1 record, 2 definitions, 2 preferences, 2 changes, a call that fails | What may a view at rest show, do the parts of a view and the demo data agree, and what may take back a decision, an upgrade or what a user was told? |

### Bounds

The bounds are constants of the modules, all named: faults (`MaxCrashes`, `MaxLockLosses`,
`MaxDbFailures`, `MaxApiCrashes`, `MaxFaults`), time (`MaxTime`), and BullMQ's limits, smaller than
the configured ones where only reaching the limit matters.

* Two workers are the least that can check the gate together and share a job after a lost lock;
  two jobs let one wait while the other's entry is leaked.
* In `PipelineFaults` one job is enough, for the properties speak of one job; what two jobs share
  is the gate, which is in the other module, and schedules.  Two attempts and two failing writes let
  a job use up its attempts; a crash and a lost lock together exceed the one redelivery allowed, so that
  the stalled path to the dead-letter queue is taken, and only the death of the very worker with the
  entry excuses a missing one.
* `RunTriggers` has one value in each run, `manual` in `PipelineFaults` and `scheduled` in
  `PipelineRetries`: the worker and the queue treat them alike, and only the ledger tells them apart.
* Two jobs make one retry or requeue; chains of any length are in the proof of `RetriesCount`.
* Two instants let two requests meet in one millisecond and follow in the next.
* A sync has at most one rival for a state row at a time that matters: the row is created once.
  The third identifier in `SyncsRace` is where the two authorisations can meet.
* Four handlers in `ConsoleRace` are a load, a sign-in and two that overlap behind them, or a first
  sign-in beside another; a fifth call is the context a sign-out asks for.  One of the accounts has
  the e-mail address of the seeded user, who alone among those who sign in has memberships, or, at another login, the
  address of the other account: an address changes, two users get one address, and a second account
  of a user is refused.  The other account may also come without an address.  Two of these logins
  (`MaxSignIns`) meet, change or share an address; three at once are in the theorems.  The third organisation is one the
  seeded user is not a member of.

* `ViewsRace` has one handler beside the loads of effects, so that a load of the one meets a load of
  the other; for more of both there is the proof.  Its calls are two, a decision or an upgrade and a rival; two milliseconds let two instances have one name
  or two.  The buttons `pause`, `resume`, `settings` and `retry` are left out of the run: for the
  view of the jobs they differ from `schedule` and `requeue` in nothing the loads depend on.
  `DemoSummaryAgrees` is reached after two changes and a handler, for a summary can only be wrong
  by the last operation; for longer sequences there is the proof.

The theorems of section 5 hold without the bounds on the number of workers, jobs, turns, syncs and
faults, so for the properties proved the runs serve only to find out that they are worth proving.

`CHECK_DEADLOCK FALSE` is set everywhere: requests end, jobs run out and faults are bounded, after
which nothing need happen.

### Fairness

Weak fairness only, of steps a running process owes: a worker's event loop goes on (`WorkerStep`), a
request or tick that has begun goes on (`IssuerStep`, `pc # "new" /\ TurnStep`), BullMQ's stalled
check is a timer in every worker (`StalledByCrash`), minutes pass (`MinuteTick`).  Clients, ticks,
administrators, pauses and faults owe nothing.  A worker is a process with one job at a time, so its
fairness is one formula for all of its steps: it does not promise a particular job a turn at the
gate.  `QueuedJobsSettle` relies on the failing writes and crashes being fewer than the
attempts of a job and the redeliveries allowed, which the bounds of its run state.

## 4. What the violations show

Each is a disagreement of a document with what the code does; `findings` in `PROJECT.json` quotes
both.

* `ConcurrencyRespected`: two workers read `SCARD` before either adds, and both are admitted.
  `ActiveBound` is what does hold: the excess is at most the number of workers less one.  Proved as
  well: of a single worker the documented limit holds (`LoneWorkerRespectsConcurrency`), and while
  the settings stay the excess is that of the racing workers over the settings in force
  (`OvershootIsOfRacers`).
* `EveryJobSettles`: a worker dies after its `MULTI`; its entry stays in `active_jobs`, which has no
  expiry.  Restarted, it takes another job first, and polls a full gate for ever, so that nobody is
  left to take the redelivered job.  A job that BullMQ fails after too many losses leaves its entry for good
  too.  `JobsSettleUnlessBlocked` shows there is no other way for jobs to be starved,
  and `BlockingTakesCrashes` that blocking takes as many deaths of workers as the concurrency allows jobs.
* `EveryThirtyMinutes`: `next_run_at` moves when a job of the schedule completes, so every poll
  until then enqueues another.
* `EveryMessageRecorded`: of two messages sent together one loses its number, and with it
  itself or its reply.  `OvertakenByMessage` says to whom, `SomeTurnAnswered` that not both lose,
  and the theorem `MessagesRecordedAlone` that the claim holds whenever no two turns write to one
  conversation or have events of one instant.
* `LogoutRestoresSignIn`: the answer of a switch that arrives after a sign-out puts the signed-out
  session back into the page, the store and the cookie.  `StaleExplained` says that, without faults, only a
  sign-out that ran beside another handler leaves such a page, `RevokedRefused` that the API refuses
  its token, and the theorems `SignInIsBack` and `SignOutsAreFinal` that without overlapping handlers
  and faults the claim holds, and that a sign-out that ran alone is final whatever overlaps later.

What the runs that pass say of behaviour a reader may not expect:

* `ViewAgrees` needs all four of its exceptions.  A load begun earlier and answered later stays on
  the page (`behind`); a handler loads for the user, organisation and filter of the moment its
  button was pressed (`old`); of what was changed by others, or by a call whose handler threw,
  nothing tells the page (`outdated`); and each call of a view falls back to the demo data by
  itself, so that one page may show both.  There is no fifth: at rest, after none of these, the page
  shows what the API holds, for every view and every order of buttons.
* `SummaryAgrees` needs two: a decision between the two calls of `loadGovernance`, and a list that is
  made up because there is no record while the summary is not, because there are connectors.
* `MarksExplained` and `UpgradesExplained` say that an overwritten decision or upgrade is lost only
  to a request that read the row before it: the services do not compare what they read.
* `AnsweredListed`: instances are named by the millisecond and the console saves one preference
  identifier for everybody, so the second user's upsert changes a row that stays the first's.
* `SessionsOfAddress`: an address once given for an account opens its session ever after.  The
  identity keeps its user when the provider's address changes, and the user keeps the first one, so
  that a session may be of a user whose address the account no longer has, though never of one whose
  address no provider gave for this account.
* A second account with an address already in use, at the same provider, can never sign in: it finds
  the user by the address and then takes the key `oauth_<provider>_<user>` of the first account's row.
* Of a sync, the notification may be sent before, or without, the snapshots it announces: the two
  are in one `Promise.all`.

## 5. Proofs

Each proof module shows an inductive invariant of `Spec` with one lemma for each action or
group of actions, and derives the theorems from it.  Assumptions are those of the `ASSUME` of
each module: sentinels outside the sets they extend, bounds that are natural numbers, a finite
non-empty set of workers where workers are counted, authorisations apart from instants.

* **ProcessingPermitsProofs.**  `IInv` is types, `JobInHand`, `QueueSound` (a deliverable job is
  below its limits, or the counters would leave their types) and `LockHeld` (a busy worker whose job
  was never found stalled has its lock and, past the gate, its permit), from which `PermitBacked`
  follows: another worker with the same job would hold the same lock.  `BoundInv` counts, besides
  the entries, the workers that have passed the check and not yet added (`Undecided`, `Unpaid`):
  the bounds on entries alone are not inductive, for a check is good for an addition at any later
  time.  A worker that joins them saw room, so the sum was at most the limit less one plus the
  others.  `ImplementsPool` follows from `ActiveBound` and `RateBound`, which give
  `Acquire` its guards.  These bounds are against the largest settings; against the settings in force
  (`ConfiguredBound`, proved of behaviours that leave `settings` alone) it takes `LimitsSeen` besides,
  that what workers have read is what is stored.  `OrphansAreCrashes` counts the entries that no
  working worker will release, and is inductive with `IInv`: each step that is not a crash leaves
  them as they are or takes one away.
* **JobPipelineProofs.**  `TInv` as above.  `QueuedRowsReachQueue` is inductive with it.  For the
  retry counts `LInv` says that a payload is a copy of its row, so that the worker's rewrite
  changes nothing, and that an order about to be saved descends correctly.  For `OutcomeStands`,
  `OInv` says that until a job is found stalled only the owner of its lock works on it, and that
  after an outcome that worker has only steps left that keep it, or, behind a completion, has failed in a write of
  its own and is in `undone`: a failing write of anybody else changes nothing.  For `StuckRowsAreDeadLettered`,
  `DInv` says of each job that it is accounted for, by an entry, one in some worker's `outbox`
  or one in `lostLetters`, or is in order (`Orderly`): BullMQ has not given it up, the one worker that has it
  holds the lock, and its row is settled before the processor returns; deaths of other workers disturb neither.
  `PipelineImplementsLedger` takes one lemma for each kind of
  step; that a rewritten row is the same row is `LInv`, that a requeue is of a failed job is
  `OrderDescends`, which holds from the check to the write because failures are never forgotten.
  `CInv` says of each job what its counters were raised for, up to the processor that has thrown and
  is not yet counted, whence that only failing writes, deaths and lost locks, never failing syncs,
  use up a job's attempts and redeliveries (`CountersCountFaults`, `GivenUpForFaults`) and give it
  dead-letter entries (`LettersHaveCauses`).
* **ConversationTurnsProofs.**  `IInv` says that rows are numbered from 1, that a turn's number was never
  ahead of the rows, what a turn at each step has stored (`Stored`) and conversely which turn stored
  each row (`Owned`), and that a row about to be inserted is not older than the rows before its
  place (`InTime`); the adjacency of replies needs `Owned` and the time order needs `InTime`.
  `TablesImplementLog` maps `Insert` to an append and the upsert that creates a conversation to
  opening its log.  A turn that has ended keeps its state and gets no row (`EndedStays`), rows stay as
  they were inserted (`RowsStay`): with these, what was so when a turn was refused is so ever after, from
  which `LastMessageAnswered` (of the ways to end, only a clash or a fault leaves a last message
  without a reply) and `RefusalsHaveRivals` follow.
* **ConnectorSyncProofs.**  `AccountInv` says which revocation rewrote an account, and that only an
  authorisation that has saved its account saves a token, whose identifier nobody shares.
  `SyncInv` reads off a sync's open calls what it has written (`ResultsWritten`), and says that a
  snapshot of a sync that was over before is never found again once a call has returned
  (`SettledOver`: what is over stays over, with no call out), that accounts keep their user
  (`OwnersRead`), and that state rows were created by syncs that went on (`StateRows`).
  `OneSyncSucceeds` combines two of the properties: who lost a creation lost it to one that went on, and
  who went on without a fault has written everything.  `SnapshotsNotSetBack`, an action property,
  follows from `SettledOver`: only a sync that is not over writes.
* **AuthServiceProofs.**  `ServiceInv` says what a call has at each step (`CallsSound`), that the
  rows a call is to write are not there yet (`RowsFresh`), that the histories hold only what is
  still so (`PastHolds`), whence no answer comes of a session revoked before, and that a login about
  to create a user found the address with nobody there was when it began (`NobodyFound`), whence
  `DuplicatesOverlapped`.  `AddressInv` says that the user a login has in hand, a session is of or an
  identity is linked to has an address that a provider gave, then or before, for that account.  It is
  inductive because addresses of users, users of sessions and what was said of an account never
  change (`GivenStays`), and implies `SessionsOfAddress`.  Everything is shown for `ServiceSpec`, so for callers with any token.
* **ConsoleSessionProofs.**  `ConsoleInv` adds that answers with a token name the session's user
  (`AnswersSound`), that switches in progress are of the seeded user and to organisations of his
  (`SwitchesSound`, which no longer holds for arbitrary callers), and what an awaited call can
  be (`AwaitedSound`, `AwayIsLogin`).  `ConsoleCallsService` shows that `Spec` implies
  `ServiceSpec`, which carries the service's theorems over.  `PageAgrees` and `StaleExplained` speak
  only of states without faults, so their invariant `QuietInv` does too: a handler in flight outside
  the history of overlaps is the only one and holds every running call (`HandlersInv`); while none
  overlapped, that handler and its call's answer are in accord with the token stored and the cookie
  (`Phase`), and without one they agree with the page (`RestSound`); and a session revoked is being
  signed out by the only handler there is, or its token is neither shown nor on its way to the page
  (`Forgotten`), or its sign-out overlapped.  For `SignOutIsFinal`, `FinalInv` says that
  from the answer of a sign-out that ran alone its token is nowhere the page could get it from: not stored,
  not in the cookie, not in a call that a handler awaits (`Absent`); a login begun later gets a token
  of its own.
* **GovernanceProofs.**  What the properties say of the rows in the tables is not inductive: a call
  about to write puts back a row it read before.  So `ServiceInv` says the same of every row a call
  has read and not yet written back, for the writes up to its `seen` (`ReadsSound`), besides that the
  places of writes are distinct (`PlacesSound`) and that whoever owns a row wrote it (`Owners`).  All
  is shown for `ServiceSpec`, so for whatever clients ask.
* **ConsoleViewsProofs.**  `ViewsInv` says that the demo state is one of `Kept`, which every
  operation of `demoData` keeps (sequences of any length, any identifiers), and that handlers have
  the buttons they were pressed for; `DemoSummaryAgrees` is a part of it.  For the views, `PageInv`
  says what every load owes: unless it is old, behind or outdated, a load begun later has not been
  overtaken (`Later`), or it is for the page's key and what it has fetched is what the API would
  answer now, unless a handler that has changed something is going to load the view again
  (`Moving`).  At rest there is neither, which is `ViewAgrees`.  `Counted` says what the two parts of
  the governance view know of each other, whence `SummaryAgrees`.  Needed of the buttons is only that
  each loads again what it writes (`HandlersReload`).  `RecordsSeeded` is assumed: with no records
  at all the list at home is made up and the summary is not.

Without a run of their own, theorems state (the definitions are in the components' modules, beside
the properties of the runs):

* of the gate: `ConfiguredBound`, `OrphansAreCrashes`, `BlockedByCrashes`;
* of the pipeline: `RequeuedHadFailed`, `CountersCountFaults`, `GivenUpForFaults`,
  `LettersHaveCauses`, `CompletedJobsAreSettled`;
* of conversations: `RepliesFollow`, `RefusalsHaveRivals`;
* of connectors: `OneSyncSucceeds`, `SnapshotsNotSetBack`;
* of sessions: `SessionsOfAddress`, `SignOutIsFinal`, `TokenIsOfUser`.

Three of the claims that the violation runs refute are theorems under a condition:
`ConcurrencyRespected` of one worker and unchanged settings, `EveryMessageRecorded` without rivals,
`LogoutRestoresSignIn` without overlapping handlers and faults.

Only model-checked: the liveness properties (`JobsSettleUnlessBlocked`, `QueuedJobsSettle`,
`SomeTurnAnswered`), since fairness and `ENABLED` are beyond the prover; every invariant, every
action property and every refinement of the passing runs is proved.  Results that need induction over data, and
`RECURSIVE` operators, are beyond it as well; the modules use neither.

## 6. Not modelled

* Redis failing or losing data: commands of the gate and of BullMQ succeed, or their process dies.
* The content of mail, tasks, briefings and replies, signing and verification of OAuth states,
  provider calls: they keep no state.
* Snapshots of more than one day, and other sync targets than `mail`: rows of different keys do
  not meet.
* `last_activity_at` has its write in the model and no property, the code promising none.
* Several API hosts with different clocks in `ConversationTurns`.
* Identifiers: the random ones (`randomUUID().slice(0, 8)` of jobs, users, accounts) are taken as fresh,
  though a save is an upsert and eight digits may meet; those made of the time are modelled, with their
  clashes.
* The test of `job_type` in `runJob`: `connector_sync` is the only one the command's type allows, and
  every other would leave a row that is never queued.
* Sessions: the protocol of the providers, the seeded administrator (a member of the home
  organisation, everybody's default) and the two seeded identities, whose accounts no exchange
  returns, the writes of
  `last_seen_at`; more than one page (tabs share the store and the cookie, not the page); the
  organisations of the demo store, which are its own.  Every user has the same default
  organisation, and `buildAuthContext` is reduced to what it shows of an organisation.
* A call that fails for another reason than `isDemoApiError` names (statuses 500, 502, 503, 504 or
  "Failed to fetch"): its handler's `catch` shows a message, and besides clears what is stored in
  `bootstrap`, while in `handleLogout` it leaves the page signed in.  `Fallback` has every call without an answer answered by the demo data.
* Requests for an assistant instance that does not exist, for which the services would write a row with a made-up
  user and definition that the foreign keys refuse; the one entry `listNotifications` makes up when
  there are no preferences, for which the model has an empty list.
* Of the console: rendering, the export of jobs, the detail panel of a job and its relations,
  which only read; the texts of error messages; a view in a session that `ConsoleSession` signs out
  (`loadX` with a token the API refuses is a load that fails or is answered by the demo data).
* The audit log: nothing under `src/` writes it but the seeds and the demo data.
* The versions and names of instances, the channel of a preference.
* The components marked `not_modelled` in `PROJECT.json`: health, the queue dashboard and the stubs
  change no state.

## 7. Plan

In order of importance; all but the last step are done.

1. Gate: `PermitPool`, `ProcessingPermits`; theorems on types, backing, bounds, refinement.
2. Pipeline: `JobPipeline`; theorems on types, queued rows, lineage, outcomes.
3. Conversations: `ConversationLog`, `ConversationTurns`; theorems on the ledger and its refinement.
4. Connectors: `ConnectorSync`; theorems on answered syncs, clashes, owners, tokens.
5. Sessions: `SessionLifecycle`, `AuthService`, `ConsoleSession`; theorems on types, revoked
   sessions, duplicate users, the lifecycle, tokens and memberships.
6. Governance: `Governance`; theorems on decisions, upgrades and what users were told.
7. Console views: `DemoStore`, `ConsoleViews`; theorems on the demo data, on views at rest and on
   the summary.
8. The invariants that were only model-checked: theorems on dead letters, on pages at rest and on
   the sign-outs behind stale pages.
9. What the same proofs give besides: `JobLedger` and its refinement, the causes of dead letters and of a
   blocked gate, final sign-outs, and the conditions under which the refuted claims hold.
10. Left: the delivery rules of BullMQ, which the gate and the pipeline share, as one abstract
    specification both implement; then a composition in which the pipeline's worker steps are the
    gate's, so that the theorems on permits speak of `processQueuedJob` itself; and the condition
    under which a schedule runs once in its period (`EveryThirtyMinutes`).
