# Honey Screen: TLA+ models, checks and proofs

Honey Screen is a client-intake application. An invited client registers with a
one-time code, answers small missions of questions, and sees its participation
grow as a honey profile; staff read the answers; administrators maintain
versioned questions; a worker process delivers notifications and reminders. The
code is a TypeScript monorepo: `apps/web` (Next.js route handlers over Prisma and
PostgreSQL), `apps/worker` (a polling process), `packages/domain` (pure
algorithms), `packages/db` (schema, migrations, seed).

The models are translated from the code. Paths are relative to the repository;
`services.ts` is `apps/web/src/lib/services.ts`, `notifications.ts` is
`apps/worker/src/notifications.ts`.

All shared state is in PostgreSQL. Every handler and every worker step is an
interactive transaction at READ COMMITTED, or a single statement; only
`getOrCreateMission` takes an advisory lock. Most of what can go wrong therefore
lies between two statements, and that is what the models are cut along: one
action per transaction where nothing can come in between, one action per
statement where another transaction can change what was read.

## 1. Inventory

| Component | State | Operations | Hard behaviour | Modelled |
|---|---|---|---|---|
| Notification worker (`notifications.ts`) | outbox events, intents, attempts, receipts, inbox rows, subscriptions, occurrences; per process: tick, tasks, simulated-provider memory | project, claim, mark, revalidate, suppress, recover, send, persist receipt, finalize | several processes, leases that expire under a running task, crashes between two transactions, retries, at-most-once sends | yes |
| Mission engine (`services.ts`) | missions, slots, daily ledger, answer revisions, current answers, participation events, honey profile, rewards, staff outbox | `getOrCreateMission`, `saveMissionAnswer`, completion, `completeOnboarding` | tabs and devices racing, dates and zones, duplicate posts, profile projected from stale reads | yes |
| Question versions (`services.ts`) | versions of a definition and their status | draft, approve, retire; missions freeze approved versions | read-then-write under concurrent administrators | yes |
| Question selection and rules (`packages/domain`) | none | `selectMissionQuestions`, rule evaluation | three passes that compete for the last places, malformed rules | yes |
| Reminder scheduler (`reminder-scheduler.ts`) | reminder occurrences, outbox events | one occurrence per client, purpose and local date | two schedulers, stale preferences, zones, failing batches | yes |
| Preferences and push subscriptions (`notification-preferences.ts`, `push-subscriptions.ts`) | preferences, consents, subscriptions | enable, disable, register, revoke an endpoint | tabs racing, an endpoint that changes its client | yes |
| Invitations, one-time codes, registration (`services.ts`) | invitations, challenges, clients, consents, events | invite, request, verify, register | attempt limits read before they are written, repeated posts | yes |
| Sessions (`session.ts`) | session rows, cookies | open, read, sign out | lost answers, expiry | clients; not staff sign-in |
| Staff case work | status and notes | single writes with an audit row | none | no |
| Schema, migrations, seed | columns, keys, CHECKs | | the constraints are guards of the models | in the modules |
| Service worker, pages, i18n, config, observability | none on the server | | none | no |

How they interact: the mission engine writes a staff outbox event when a mission
is complete, the scheduler writes reminder events, and the worker turns each event
into one intent and delivers it. The scheduler and the worker read missions,
preferences and subscriptions. Administrators change which versions
`getOrCreateMission` may freeze. No component calls another: rows are the
interface, and reading a row and acting on it are never one step unless one
transaction and a lock make them so.

What makes each correct:

* **worker** – an event yields one intent and one outcome; a settled intent never
  changes; history, inbox and status agree; no success is invented; a provider that
  cannot deduplicate is not called again after an unknown outcome; everything
  settles in the end.
* **mission engine** – no local date is charged more questions than the cap; one
  mission in progress; the current answer is the newest; a repeated post is stored
  once; answered missions complete, once and with all consequences; points follow
  the events and never fall.
* **versions** – missions show published versions only; a published version never
  changes back; one approved version; approval never takes a definition off offer.
* **reminders** – one reminder a local date, wherever the client is; none against the
  client's wish; preference, consent and devices agree; every due reminder is decided.
* **registration** – a code admits once and only within its attempts; one client with
  one set of consents and events per phone; a session belongs to a client.
* **selection** – a mission has distinct open questions, is as long as size, allowance
  and content allow, has clarifications first and then every category before any twice,
  and is paced where it fills up.

`PROJECT.json` lists the hazards at their lines, each with the properties that
watch it.

## 2. Modules

| Module | Contents |
|---|---|
| `NotificationWorker` | the worker, any number of processes |
| `DeliveryLifecycle` | what the worker promises of one notification, without leases, tasks or time |
| `NotificationWorkerProofs` | type correctness, leases, history, finality |
| `NotificationOutcomeProofs` | inbox, sends, resends, subscriptions, occurrences, exhausted attempts, the refinement of `DeliveryLifecycle` |
| `MissionEngine` | missions, answers, completion, profile and onboarding of one client |
| `ClientJournal` | what the mission engine promises about the rows of a client, without requests or locks |
| `MissionEngineProofs` | type correctness, cap, active missions, revisions |
| `MissionCompletionProofs` | completion, points, what holds without overlap, the refinement of `ClientJournal` (extends `MissionEngineProofs`) |
| `QuestionVersions` | the versions of one definition |
| `VersionWorkflow` | the life of those versions as one administrator after the other sees it |
| `QuestionVersionsProofs` | type correctness, published and frozen versions, offer, one approved version, retired versions, the refinement of `VersionWorkflow` |
| `LocalTime` | local dates, quiet hours and reminder windows, with zones that change their offset |
| `ReminderPreferences` | the settings of a client as overlapping requests write them (extends `LocalTime`) |
| `Reminders` | schedulers, occurrences and the worker's reads before a push, composed with the settings (extends `ReminderPreferences`) |
| `RemindersProofs` | type correctness, settings, events, reached devices, one reminder a date, local times and windows |
| `Registration` | invitations, codes, registration and sessions of clients |
| `RegistrationProofs` | type correctness, whole registrations, attempts, spent codes, sessions, grounds of admission |
| `Rules` | the rule language: well-formedness and evaluation, as recursive functions |
| `Selection` | the passes of `selectMissionQuestions` (extends `Rules`) |
| `SelectionProofs` | full, ordered and paced selections, and why `MissionEngine` may take any subset |
| `MCNotificationWorker`, `MCMissionEngine`, `MCQuestionVersions`, `MCReminders`, `MCRegistration`, `MCSelection` | model values, constant functions, scenarios and symmetry for TLC |

An operator commented `faulty` is a plausible bug of the code (a dropped guard, a
missing lock, a stale read). It is used nowhere in the specifications; `PROJECT.json`
pairs it with the definition it would replace, and with the property that then
fails.

### 2.1 NotificationWorker

A worker's loop is `tick`: `FetchPending` (the list of pending events, read outside
any transaction), `ProjectEvent` (one transaction each), `ClaimIntents` (the
`UPDATE ... FOR UPDATE SKIP LOCKED` with the attempt rows), `EndTick`
(`Promise.all`). A claimed attempt runs as a task; its control point is `pc[i][n]`:

| Action | Code in `notifications.ts` |
|---|---|
| `MarkDispatchStarted`, `MarkProviderCallStarted` | the two marks before a send |
| `RevalidateReminder`, `SuppressOccurrence` | dispatch-time check and the separate suppression transaction |
| `CheckRecoveredAmbiguous` | an earlier attempt that got to the provider call and left no outcome |
| `LookupReceipt`, `SendToProvider`, `PersistReceipt` | receipt, provider, receipt |
| `FinalizeIntentResult` | the compare-and-set on (id, PROCESSING, leaseToken) and all its writes |
| `RevokeSubscription`, `RegisterSubscription` | the client revokes an endpoint, or registers it again, which makes it ACTIVE |
| `TaskCatches`, `TaskThrows`, `TickFails`, `Crash` | a throw inside the try block, one outside it, a failed tick, a dead process |
| `DeadlinePasses` | `availableAt`, `retryAt` or `leaseExpiresAt` passes on the database clock |

Abstractions:

* A lease token is fresh for each claim and each claim increments `attemptCount`, so
  the attempt number stands for the token. Time is one bit per row (`elapsed`): the
  deadline the row waits for has passed.
* `SKIP LOCKED` and `ORDER BY` are a free choice of as many due rows as the batch
  takes. The concurrency limit within a tick is dropped: tasks of a tick interleave
  freely, which includes every limited schedule.
* Preferences, quiet hours and missions are other components' state: a reminder's
  revalidation may pass or suppress at any time.
* `Outcome` is what the provider answers for an intent (the simulated provider's
  answer is configured by test hooks); thrown errors are `TaskCatches`. Provider
  memory is per process and lost in a crash.
* `Punctual` intents are those whose tasks end before their lease. The configuration
  (`packages/config/src/index.ts:202`) requires the provider timeout to be shorter
  than the lease, but nothing enforces a timeout while the worker runs: both
  possibilities are checked.
* `renewLease` is called by nothing. Telemetry and audit rows are left out.

`DeliveryLifecycle` is the promise: a delivery is a log of attempts, only the newest
gets an outcome, once, and nothing follows a final outcome; the inbox row comes with
the success. `Lifecycle` in `NotificationWorker` is the refinement mapping: the log
of an intent is its attempt rows, those without an outcome read as `open`.

### 2.2 MissionEngine

One client. A request is an HTTP handler; `job[h]` is its control point and what its
transaction has read and written but not committed. A slot is a (local date,
question) pair, which the ledger's unique key makes sound, and a mission is the set
of its slots.

| Actions | Code in `services.ts` |
|---|---|
| `StartMission`, `FindActiveMission`, `SelectQuestions`, `CreateMission` | `getOrCreateMission`: date from the stored zone, advisory lock on (client, date), lookup of active missions of any date, selection, commit |
| `SubmitAnswer`, `ReadSlot`, `InsertRevision`, `CountAnswered`, `CommitAnswer` | `saveMissionAnswer`: key lookup, duplicate check and count in the transaction, insert under the unique key, count of answered slots, commit |
| `CompleteMission`, `CommitCompletion` | completion, participation event, profile, rewards, staff outbox |
| `StartOnboarding`, `CommitOnboarding` | `completeOnboarding`: zone, event, profile |
| `Abort`, `Midnight` | rollback of any handler; the date of a zone |

`ClientJournal` is the promise: a journal of assigned questions, answers and completions
that changes in four ways, `Assign`, `Answer`, `Finish` and `Join`, each looking at the
journal as it is at that moment. `Journal` in `MissionEngine` maps the rows to it: the
revisions of a slot are its answers, an onboarded client has joined. A start that commits is
`Assign`, a commit that does not complete is `Answer`, one that does is `Finish` with the
answer that came with it, an onboarding is `Join`, and reads, locks and rollbacks are
stutters. The total that `Credit` writes is any one between 1 and what the journal is worth,
because the code projects it from events that it read earlier.

Abstractions: `SelectQuestions` takes any subset of the open questions within size
and allowance; that the algorithm answers with such a subset is the theorem
`AdmissibleSafety` about `Selection`. Clarification requests are never created by
the code and are left out, with review flags, audit rows and telemetry. The
`idempotencyKey` branch of `getOrCreateMission` is left out because no route passes
one. The answer route derives the key of an answer from slot and value, so that pair
is the key. Statements are one action where no other transaction can change what the
later ones read. The dates of two zones are at most two apart (`Midnight`), as UTC-12 and
UTC+14 are. `alone` is a history variable: no two requests have overlapped so far.

### 2.3 QuestionVersions

One definition, seeded with an approved version 1. Each operation reads (`StartDraft`,
`ReadDraft`, `ReadVersion`, `SelectVersion`) and later commits what it made of that.
`approveDraftQuestionVersion` reads twice: the `UPDATE` that retires the approved
versions has a snapshot of its own (`ScanApproved`), waits for locked rows and then
changes those that still qualify. Invalid rules of a draft are `Abort`. `published`
and `alone` are history variables: what was ever approved, and whether requests have
overlapped. Version content, options and rules are left out.

`VersionWorkflow` has the four operations as one step each, without reads that grow old.
`FollowsWorkflow` says that every transaction is such a step while no two requests have
overlapped; with overlap the code does not follow the workflow, since an approval may undo
a retirement (section 3). `FrozenWasPublished` says that a frozen version was approved at
some time: a retirement between the read and the commit of a mission goes unnoticed.

### 2.4 ReminderPreferences and Reminders

A request that changes the settings is one READ COMMITTED transaction. Enabling locks
the endpoint's row and then the preference's; disabling locks the preference's and
then those of the devices it revokes. `tab[t]` holds what a request has locked, its
writes appear when it commits, and `RollBack` is an error or the victim of a deadlock.

| Actions | Code |
|---|---|
| `StartEnable`, `CommitEnable` | `enableMissionReminderPreference`, `upsertPushSubscriptionInTransaction`: the endpoint becomes the client's, whoever had it |
| `StartDisable`, `RevokeDevices`, `CommitDisable` | `disableMissionReminderPreference` |
| `InvalidateDevice` | the worker's finalization of an invalid subscription |
| `FetchPreferences`, `SkipPreference`, `DecideOccurrence`, `WriteOccurrence`, `FailBatch` | `processReminderSchedulerBatch`, `planOccurrenceForPreference`: batch, reads, and one transaction for occurrence and event |
| `ProjectEvent`, `ReadPreference`, `ReadDevices`, `ReadDay`, `Send`, `Retry` | projection, and `revalidateReminderIntentBeforeDispatch` one read after the other |
| `SuppressOccurrence`, `FinalizeSuppressed` | the two transactions of `suppressReminderIntent`: the occurrence, then the intent |
| `ChangeZone`, `FinishDay`, `Tick` | `completeOnboarding`, the missions of the day, the clock |

`CommitEnable` stores as `enabledAt` the clock of any moment since the request began,
because `new Date()` is evaluated before the upsert waits for the row. The attempts of a
delivery come one after the other, each with reads of its own: `Retry` may follow any read
and either transaction of a suppression, so an open intent may have a suppressed occurrence
and be sent all the same, as `worker_suppression` shows of the worker. Attempts that overlap
are the subject of `NotificationWorker`. To project an event twice changes nothing here,
since the first projection writes the intent's id into the occurrence. The scheduler's
lookups for one preference are one step, because all that comes of them is the plan, which
its transaction stores or drops as a whole.

Instants are integers and a day has `DayLength` ticks, so dates, windows, quiet hours
and the two offsets of a zone are computed as the code does. `queue` is the order by
`updatedAt` in which a batch takes preferences. What keeps a client from being asked
anything more today (daily cap, completed mission, no eligible question) is one fact
of client and date, `NothingToAsk`. A deleted or restricted client is left out: no code
sets `deletedAt` or `restrictedAt`. Keys, encryption and device installations are data.

### 2.5 Registration

A phone is a client. A request of a browser checks its invitation (`PostCode`), then reads
the newest challenge (`CheckCode`), and then counts a wrong code or registers; the route is
open in both modes, but without one-time codes no challenge exists. The registration's transaction
begins with the upsert of the client's row, which it keeps locked (`LockClient`), so
what it reads afterwards (`missing` consents, `untold` staff) is current.
`CommitRegistration` has all its writes. Session rows, cookies and a lost answer
(`Abort` of an answered request) are part of the module because a session shows which
code opened it. Older invitations, challenges and sessions expire first, at any moment.
The SMS of a challenge may fail after the row is stored, which is the case in which
nobody types its code. Locale and time zone, which a second registration resets to the
invitation's, and audit rows are left out; so is the sign-in of staff.

### 2.6 Rules and Selection

A rule is a record with an operator; the functions `WellFormed` and `Holds` recurse
over a finite set `Rule` that holds every part of its rules. The callers pass no profile
or matter facts, so a fact reads as null. A question is a definition: its place in
`stableQuestionSort`, a category its place among the sorted names, and each push of the
three loops is an action: clarifications, one question for each category, and the fill
pass with its two kinds of pacing.

A definition with two approved versions (`twice`, section 2.3) is counted twice in
`remainingCounted` and chosen once, so a mission may end below its cap with all questions in
it. The two versions are taken to be alike in category, weight, effort and rules.

No code of the repository writes a clarification request; the rows are read and the
function is tested with them, so the model has them. With them, a clarification of a
question that was counted today takes the place of a new one (the cap counts new
questions only), and `getOrCreateMission` would break the ledger's unique key when it
writes it. `assertRuleIsOperationallyValid` of `services.ts` already withholds a version
with any invalid rule before it reaches the selection.

## 3. Runs

All runs use `tlc` with the configuration of the run's name.

| Run | Instance | Question and answer |
|---|---|---|
| `worker_leases` | 2 workers, a staff notification and a punctual push on a provider of mode NONE, 2 attempts, 1 fault | leases, history, inbox, finality and "no resend after an unknown outcome" hold |
| `worker_faults` | 2 workers, 1 reminder, 2 attempts, 2 faults, late tasks, fairness | the rows implement `DeliveryLifecycle`, no success is invented, only an authoritative outcome disables a device, an intent is suppressed only with a closed occurrence, and every event settles unless a last attempt expires |
| `worker_wedge` | 1 staff notification, 2 faults, fairness | violated: `EveryEventSettles` |
| `worker_resend` | 1 push that may be late | violated: `NoResendAfterUnknown` |
| `worker_suppression` | 1 reminder without a subscription, 1 fault | violated: `SuppressionAgrees` |
| `missions` | 2 requests, 4 questions; 2 values on one date, or 1 value over 2 zones and 2 dates | with overlap: every commit is a step of `ClientJournal`; revisions, completion, notification, progress and the cap; without: one active mission, full missions complete, the profile is current |
| `mission_cap` | 1 request, 12 questions, a cap of 12 | violated: `NoEleventhQuestion` |
| `mission_stuck` | 2 requests, 2 questions | violated: `AnsweredMissionsComplete` |
| `versions` | 2 requests, 4 versions | frozen and published versions, offer; without overlap one approved version, and every transaction is a step of `VersionWorkflow` |
| `reminders` | 2 clients, 2 endpoints, 2 tabs, 2 schedulers, 2 zones of which one changes its offset, 2 reminder times, a day of 9 ticks; racing schedulers, or shared endpoints with a failing batch; fairness | settings agree, an event waits exactly for a planned occurrence and no intent is closed before its occurrence, one reminder a date, devices are reached only while reminders are on, due reminders are decided |
| `registration` | 2 phones, 2 invitations, 2 browsers, 1 staff member, 2 attempts, 2 challenges, 2 sessions, with codes and without | registrations are whole and happen once, wrong codes are bounded, codes are spent |
| `selection` | 4 questions, 2 categories; every weight and effort, every state of answers, ledger and clarifications, one definition with two versions, every rule of up to two operators | missions are full, ordered and paced |

**Bounds and why they are enough.** Two workers or requests are what every race here
needs: each is one actor acting on what another has changed since. Two attempts give a
retry, a reclaim and an exhausted attempt. Two faults let a process die twice, which is
what it takes to lose two attempts. Two intents in `worker_leases` make one claim
lease rows of different providers together. Four questions and a cap of two
fill two days. Two dates and two zones give a midnight and a
zone that is a day ahead. Two values allow an edit and an edit back. Four versions
allow two drafts, an approval of each and one more number. A day of nine ticks has
quiet hours, two reminder times, a lookahead and a catch-up of a tick, and a noon at which
one zone is already on the next date; the offset changes in the middle of the run. Two
schedulers race for one row, two tabs for one client, two clients for one endpoint, and
two browsers for one phone; two challenges let an older one be accepted again, and the
limit of two attempts can be passed by one. Four questions in two categories leave two
for the fill pass, one to be taken and one to be preferred.

`MaxFaults`, `LastDate`, `MaxVersion`, `MaxNow`, `MaxRequests`, `MaxChallenges`,
`MaxSessions` and `MaxAllowance` are the bounds that are not in the code; they are guards
of `Fault`, `Midnight`, `StartDraft`, `FailBatch`, `Tick`, `Counted`, `RequestCode` and
`CommitRegistration`, and the range of the allowance. `versions`, `registration` and
`selection` switch the deadlock check off: all four versions may be retired at the bound;
the invitations and challenges of a phone may all have expired; a selection ends.

`MCReminders` and `MCSelection` start from scenarios, sets of initial states, so that
the cases that matter meet in a space TLC can finish; the schedulers race from time 2 on, a
tick before the first reminder can be planned. For the same reason `missions` has
a state constraint, `EditsOrDays`: a client answers with two values on one date, or with
one value over dates and zones.

**Symmetry.** Workers, requests and questions are interchangeable in the runs that
declare it; no run with liveness uses symmetry.

**Fairness** is assumed in `worker_faults`, `worker_wedge` and `reminders` only. In the
first two: weak fairness of each worker's tick and of each task, because the event loop
of a running process keeps scheduling its timer and its promises and a crashed process
is restarted; and weak fairness of `DeadlinePasses`, because the database clock
advances. In `reminders`: weak fairness of each scheduler, whose runtime sets the next
timer after every poll, also after one that failed; the worker, the clients and the clock
need not do anything. Faults, events, requests and revocations need not happen.

**What `EveryDateIsDecided` needs.** The clients with reminders on fit in a batch.
`SCHEDULER_BATCH_SIZE` is 25 by default, the batch takes the oldest `updatedAt`, and
handling a preference does not touch it: with more clients than a batch takes, those who
changed their settings last never have a reminder planned. A preference that throws in
every poll has the same effect on those behind it. No document speaks of either.
"Decided" is also what a suppression in the lookahead is: quiet hours or a missing
device at that moment use up the date.

**What `OneReminderADay` needs.** A decision is written within a tick (`Prompt`), and the
reminder times of all zones, with the lookahead and the catch-up, lie within less than a day
as one clock shows them (`ZonesNear`; `MCReminders` assumes it of its instance). The settings
page offers 09:00, 12:00, 17:00 and 18:00, so with the defaults (15 minutes ahead, 60 minutes
late) it holds for zones less than 13 hours 45 minutes apart; a client with one reminder time
has 22 hours 45 minutes. Beyond that see section 4. A client who travels may also get no
reminder, because one planned in another zone holds the key of the date.

**What overlapping requests lose.** `OneActive`, `ProfileIsCurrent` and
`AnsweredMissionsComplete` fail with two concurrent requests of a client, and
`OneApproved` and the steps of `VersionWorkflow` (so also `RetiredStaysRetired`) with two
concurrent administrators. They are
checked for requests that do not overlap (`alone`, and `AnsweredAloneComplete`); points
can then be lost until the next event, and fall. So is it that a code opens one session only
(`CodesAreSpent`). What remains without that restriction
(`ImplementsJournal`, and with it one mission in progress for each date; `DailyCapHolds`,
`ProgressIsEarned`, `ApprovalKeepsOnOffer`, `PublishedIsImmutable`) is checked with two.

## 4. Disagreements with the documents

1. *A last attempt whose lease expires blocks the queue* (`worker_wedge`). The reclaim
   of an expired lease has no `attemptCount < maxAttempts` guard, the CHECK constraint
   rejects the increment, and the whole claim is rolled back, in every tick.
   `docs/WORKER_NOTIFICATION_DELIVERY.md:47` says such attempts become
   `FAILED_PERMANENT`.
2. *A stale task may still send* (`worker_resend`). The mark before the provider call
   matches the attempt row and not the lease. `docs/adr/ADR-0009-notification-delivery-worker.md:43` says unknown
   outcomes on `NONE` providers are never resent.
3. *Suppression is two transactions* (`worker_suppression`). A task abandoned between
   them leaves an occurrence suppressed whose intent is settled otherwise;
   `docs/WORKER_NOTIFICATION_DELIVERY.md:78` says both are updated.
4. *A fully answered mission may stay active for ever* (`mission_stuck`). Two
   transactions that save the last two answers each count one too few.
   `docs/ACCEPTANCE_TESTS.md:16` says the mission completes.
5. *The day has twelve questions, not ten* (`mission_cap`). `getOrCreateMission` takes the
   ledger of the date from a literal 12 (`services.ts:1120`), a full mission has up to 12
   (`packages/domain/src/index.ts:357`), and two migrations widened the CHECK constraints to
   it. `docs/ACCEPTANCE_TESTS.md:25` says a second tab cannot open an 11th question; so do
   `docs/ARCHITECTURE.md:157`, `docs/QUESTION_ENGINE.md:42`,
   `docs/adr/ADR-0008-daily-cap-and-question-engine.md:9` and an integration test, while the
   worker and the scheduler stop reminding at 10. `DailyCapHolds` is about the cap the code
   has (`DailyCap`, 12 in this run and 2 where requests race), whatever its number.

Another needs zones and times further apart than the instance has. `docs/TASK03_ACCEPTANCE_MATRIX.md:26`
says that the scheduler creates at most one reminder occurrence per local date under races.
Two schedulers that fetch the preferences of one client before and after the client changes
zone and reminder time, so that the two readings are due at the same moment on different
dates, each create one: 17:00 in Los Angeles is 09:00 of the next day in Tokyo, both are
sent, and on the client's new calendar both fall on one date. The unique key is on the
date that each has computed. TLC finds it when `ReminderTimes` is {1, 4} and `DayLength` 8;
`RacedSafety` says that nothing else gives a date two reminders.

Four more disagreements have no run, as one reading of the code shows them.
`docs/QUESTION_ENGINE.md:17-19` orders a mission by clarifications, unanswered and
high-priority foundational questions, category gaps and follow-ups. `selectMissionQuestions`
goes from the clarifications straight to one question for each category, in the order of
the category names; it knows no foundational questions, and priority counts in the sort within
a pass only, so a short mission may leave a high-priority question out for the sake of a category
(`OrderIsKept` is the order of the code).
`docs/CONTENT_VERSIONING_WORKFLOW.md:6` lets administrators create drafts, with no limit.
Drafts are numbered after the approved version and not after the newest (`services.ts:1851`),
so once a draft was retired instead of approved, every further one collides with its number
until another version is approved (`NumberFree`).
`docs/RFC-001-honey-mvp.md:260` says pacing prevents consecutive high-sensitivity
questions whenever there is another choice; the passes for clarifications and categories
do not pace, and the fill pass takes the first question when none avoids both kinds of
strain (`PacedWherePossible` is what the code keeps). `docs/LOCAL_DATE_AND_TIME_ZONE.md:29`
says that a skipped local time is the first instant after the gap; the code moves it on by
the length of the gap (`Resolve`), 02:30 to 03:30 rather than to 03:00.

## 5. Proofs

TLAPS checks every theorem for all values of the constants that satisfy the named
assumptions (`ConstantsAssumption`, `EngineAssumption`, `VersionsAssumption`,
`LocalTimeAssumption`, `PreferencesAssumption`, `RemindersAssumption`,
`RegistrationAssumption`, `RuleAssumption`, `SelectionAssumption`), which
TLC evaluates on its instances.

| Module | Theorem | States |
|---|---|---|
| `NotificationWorkerProofs` | `TypeCorrect` | `Spec => []TypeOK` |
| | `LeaseSafety` | `Spec => []LeaseIsNewestAttempt` |
| | `HistorySafety` | `Spec => []HistoryAgreesWithIntent` |
| | `TerminalSafety` | `Spec => TerminalIsFinal` |
| `NotificationOutcomeProofs` | `InboxSafety`, `SuccessSafety` | `Spec => []InboxMatchesOutcome`, `Spec => []SuccessWasSent` |
| | `InvalidationSafety`, `ClosedSafety` | `Spec => []InvalidationIsAuthoritative`, `Spec => []SuppressedIsClosed` |
| | `OccurrenceSafety` | `Spec => SuppressedStaysClosed`: projecting again reopens nothing |
| | `WedgeIsFinal` | `Spec => WedgeStopsTheQueue`, for finitely many intents: an expired last attempt stays, and nothing is claimed while the due rows fit in a batch |
| | `ClaimSafety` | `Spec => []OnlyExhaustedBlock`: nothing else makes the database refuse a claim |
| | `ResendSafety` | `Spec => []NoResendAfterUnknown`, assuming `Punctual = Intent` |
| | `Refinement` | `Spec => ImplementsLifecycle` |
| `MissionEngineProofs` | `TypeCorrect` | `Spec => []TypeOK` |
| | `CapSafety`, `ActiveSafety` | `Spec => []DailyCapHolds`, `Spec => []OneActivePerDate` |
| | `CurrentSafety`, `DistinctSafety` | `Spec => []CurrentIsNewest`, `Spec => []AnswersAreDistinct` |
| `MissionCompletionProofs` | `CompletionSafety`, `ProgressSafety` | `Spec => []CompletionIsWhole`, `Spec => []ProgressIsEarned` |
| | `JournalRefinement` | `Spec => ImplementsJournal` |
| | `DecaySafety` | `Spec => NothingDecays`: rewards and completions stay; points do not fall without overlap |
| | `OneActiveSafety`, `FullSafety`, `ProfileSafety` | `OneActive`, `AnsweredAloneComplete`, `ProfileIsCurrent` (each says `alone =>`) |
| `QuestionVersionsProofs` | `TypeCorrect`, `FrozenSafety`, `PublishedSafety`, `OfferSafety` | `TypeOK`, `FrozenWasPublished`, `PublishedIsImmutable`, `ApprovalKeepsOnOffer` |
| | `OneApprovedSafety`, `RetiredSafety` | `OneApproved`, `RetiredStaysRetired` (each says `alone`) |
| | `WorkflowRefinement` | `Spec => FollowsWorkflow` |
| `RemindersProofs` | `TypeCorrect`, `SettingsSafety`, `EventSafety`, `ReachedSafety` | `TypeOK`, `SettingsAgree`, `EventIffPlanned`, `ReachedIsWanted` |
| | `OneReminderSafety` | `Spec => OneReminderADay`, assuming `ZonesNear` |
| | `OneSchedulerSafety`, `RacedSafety` | the same for one scheduler and any zones; `Spec => OneReminderUnlessRaced` for all |
| | `ResolveIsFirst`, `SkippedMovesOn` | what `Resolve` gives for a local time that exists, and for one that a zone skips |
| | `WindowOnItsDate`, `DateSafety` | a window lies on its local date; `Spec => SentOnItsDate`; both assuming `MidnightsAreWhole` |
| `RegistrationProofs` | `TypeCorrect`, `RegistrationSafety`, `AttemptsSafety`, `SpentSafety` | `TypeOK`, `RegistrationIsWhole`, `AttemptsBounded`, `CodesAreSpent` |
| | `PrivateSafety`, `UsedUpSafety`, `AdmissionSafety` | `SessionsArePrivate`, `NothingComesBack`, `AdmittedOnGrounds` |
| `SelectionProofs` | `TypeCorrect`, `FullSafety`, `OrderSafety`, `PacingSafety` | `TypeOK`, `SelectionIsFull`, `OrderIsKept`, `PacedWherePossible` |
| | `AdmissibleSafety` | `Spec => []SelectionIsAdmissible`: what `MissionEngine` assumes of it |

**Worker.** The three invariants are not inductive alone. `IInv` adds that attempt
numbers above `attemptCount` were never claimed, that a running task belongs to a claim
that happened and has an owner, that a task which may still write has an attempt row
without an outcome, and that a task about to persist or finalize holds a result. With
these, a finalization that wins the compare-and-set can only be the newest attempt's,
and the marks, which do not look at the lease, can only touch rows without an outcome.
`TerminalIsFinal` follows because the three statements that write the status each
require a status that is not terminal.

**Worker: outcomes.** The inbox follows from the compare-and-set: one finalization wins
and writes both. `SuccessWasSent` needs all the places where a success can be read from
(`ClaimsSuccess`: status, receipt, result of a task, memory of a process): no step writes
one there that was not in another or has just been sent. For resends, a punctual intent
has one running task, the one that holds the lease (`RunningHoldsLease`); what was sent
was marked before (`SentAfterStart`); so when an attempt passes the check for unknown
outcomes, no earlier row can still become one (`NothingLeftOpen`). The first of these is
what a late task breaks, and `worker_resend` shows it. The refinement maps a claim to
`Begin` of the claimed intents, a winning finalization to `Settle`, a first projection to
`Create`, and everything else to a stutter: a stale task may write its row, but only
from one open state to another. `ClosedSafety` follows suppressions the way `SuccessSafety`
follows successes: wherever one can be read from (`ClaimsSuppression`), the occurrence is
closed. For the wedge, a row that is exhausted stays exhausted because its task has ended and
a claim that takes it is rolled back as a whole; and a batch that is larger than the number of
due rows always takes it (`ClaimsAllDue`).

**Missions: the cap.** `LedgerInv` adds to the cap the three facts the lock is there
for: no two transactions hold the lock of one date (`OneHolder`); while it is held, the
date has no mission in progress (`HolderAlone`), because the lookup is done under the
lock and only the holder can create one; and what was selected still fits when it is
written (`Allowance`). Every other step takes no lock and creates no mission
(`LedgerSteps`), and such steps preserve all of it (`LedgerKept`), so the proof is about
three actions. The ledger grows by at most the chosen questions (`LedgerGrows`).

**Missions: revisions.** `RevisionInv` says what a revision number means at each control
point: read but not inserted, it is at most one more than the committed revisions, and
if it is exactly that, the value is new (`NumberRead`); inserted but not committed, it
is the next number and the value is new (`NumberTaken`), and nobody else writes that
slot (`OneWriter`). A commit then appends exactly the next revision
(`RevisionCommits`).

**Missions: completion and points.** Missions are disjoint sets of slots (`Disjoint`)
and what a request is about to create is charged by nobody else (`Fresh`); otherwise an
answer could belong to two missions. `DoneInv` says that a request which is about to
complete a mission has seen or brings all its answers, and that the points it has
computed are at most those of the events once it commits. Without overlap,
`AloneInv` says that the only request at work has read what is still true
(`Undisturbed`), from which one mission in progress, its completion by the last answer
and the equality of points and events follow.

**Missions: the journal.** `CountsInv` says that what a request is about to store counts its
own event, so that `Credit` has a total to store; with the two invariants above it is all the
refinement needs. The cap, the free date and the fresh questions of `Assign` are facts of
`LedgerInv` at the moment of the commit; that `Answer` and `Finish` add a value the slot does
not have is `RevisionInv`.

**Versions.** `IInv` adds that every approved version was published, and that a request
about to freeze a version holds a published one. A draft becomes published in the step
that approves it, retirement only moves between published states or out of `DRAFT`, and
a new draft needs a number no row has. `ApprovalKeepsOnOffer` needs only the types: an
approval writes its own version whatever its snapshot was, so the one step that can
leave nothing approved is a retirement. The types need that the newest of a set of
versions exists (`NewestExists`), because drafts are numbered after it. Without overlap
the snapshot of an approval is the table itself (`Undisturbed`), so it retires whatever
else was approved and never approves what was retired. For the workflow, `SerialInv` adds what
a request has read is still so when it writes (`Current`): the number of a draft follows the
newest version that may be cloned, the version to retire is a draft or approved, the version
to freeze is on offer.

**Reminders.** `SettingsAgree` is inductive with `RevokesAll`: what a disabling request is
about to revoke covers every device its client still has, because the row of the preference, which
it holds, keeps any enabling request of the client from committing. `EventIffPlanned`
is inductive with the types: the row that was there keeps its status and its event, whatever
the scheduler that lost the race had decided, and a step of the worker moves stage and status
of one delivery, of which only the first transaction of a suppression leads to the
second. `ReachedIsWanted` follows from `SettingsAgree`
at the moment of the read, not from the earlier read of the preference.

**Reminders: one a date.** A plan that waits to be written has seen no other reminder on its
local date, or one that another scheduler has written since (`PlanHolds`, `Raced`); a tick
waits for all plans, so the other one was due at this moment too, in its own zone. When the
step writes the event, either the date is free or both are due now (`Exclusive`). The second
case is arithmetic: two reminder times of different dates that are due at one instant are at
least a day apart on the wall clock (`ZonesNear` excludes it). `OfferedInv` says that all times
in rows, requests and batches are offered ones.

**Reminders: local time.** `Resolve` tries both offsets of a zone, so its theorems are a case
distinction on the transition. A window is cut at the next midnight, and a clock that does not
jump across midnight (`MidnightsAreWhole`: a change may begin or end at midnight) cannot carry
it to another date. A clock that goes back from 00:01 to 23:01, as Newfoundland's did until
2011, violates the hypothesis: a window that opens at midnight then has instants of the date
before. `OriginInv` says that every row and every
plan keeps the window of its date and zone, which the worker compares with the clock at the
end, wherever the client is by then.

**Registration.** `Reserved` says what the row lock is for: one transaction registers a
phone at a time, and the consents and events it found missing are still missing when it
commits. For the attempts, each request that passed the limit is charged to its challenge
before it increments it (`Charged`), so the limit is exceeded by those in flight only.
For the codes, `Apart` says that without overlap the challenge a request has read is
still unconsumed when it registers. `SessionsArePrivate` holds because each registration
appends its session row and only its own request learns the number of it (`Held`). Admission
needs that a request which may register carries its grounds (`Grounded`), that there is no
challenge where no codes are asked for (`NoCodes`), and that no step takes the grounds away
(`GroundsKept`).

**Selection.** `IInv` says what each pass has achieved: the places are distinct and never
more than the cap (`Placed`), clarifications stand in front and are complete before a new
question comes (`InFront`), and a category that the coverage pass has left behind is
represented or has nothing open (`Covered`), so whatever the fill pass takes comes after
every category. That a mission reaches the cap, unless a definition has two approved versions,
is a count: when nothing remains, the countable questions are among the chosen (`Ended`). `CountedOnce` says when a slot counts against the day;
without clarifications it gives `SelectionIsAdmissible`.

Only model-checked: liveness under fairness (`SettlesUnlessExhausted`, `EveryDateIsDecided`),
which is out of the prover's reach, as are ENABLED and what a recursive definition computes for
every input. Every invariant and every other property of the passing runs is proved. Where a
theorem has a hypothesis, the table names it; `Punctual = Intent` is what the configuration
intends and nothing enforces (section 2.1), `ZonesNear` and `MidnightsAreWhole` are facts of
zones and settings. `NothingDecays`, `SessionsArePrivate`, `NothingComesBack`,
`AdmittedOnGrounds`, `SentOnItsDate`, `SelectionIsAdmissible`, `WedgeStopsTheQueue` and
`OnlyExhaustedBlock` are stated next to their proofs and are properties of no run.

## 6. Not modelled, and what is left

* **Staff case work** (`setClientCaseStatus`, `addCaseNote`): single writes of a row with an
  audit row that no other operation relates to. `signInStaff` compares a password and
  creates a session row. Review flags (`deriveReviewFlags`) are inserted by an answer's
  transaction and read by staff pages only.
* **Pages, localization, configuration parsing, observability, the service worker's cache
  policy**: rendering, wording and pure classifications of requests, without server state.
* **The seed and the migrations** are data, apart from the keys and CHECK constraints
  that are guards of the modules and the first version of a definition.
* **The composition of `Reminders` with `NotificationWorker`** is by the shared names of
  rows: `Reminders` has the content of the revalidation and no leases, attempts or
  receipts; `NotificationWorker` has these and lets the revalidation answer anything.
* **What could come next**: that `NotificationWorker` with the revalidation of `Reminders` in
  place of its free choice keeps both refinements, as one composed module; and the second
  refinement that the code keeps under overlapping administrators, a workflow in which an
  approval may come late.
