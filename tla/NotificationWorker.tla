------------------------- MODULE NotificationWorker -------------------------
(***************************************************************************)
(* The notification worker of apps/worker: outbox events are projected to  *)
(* notification intents, workers claim batches of due intents under a      *)
(* lease, and every claimed intent is delivered by an asynchronous task    *)
(* that records its attempt, calls the provider, stores a receipt and      *)
(* finalizes the intent by a compare-and-set on its lease token.           *)
(*                                                                         *)
(* Every database transaction or single statement of the code is one       *)
(* action.  A lease token is md5 of the intent and a random value, fresh   *)
(* for each claim, and each claim increments attemptCount; the token of a  *)
(* claim is therefore represented by the attempt number it creates.        *)
(* The database clock is represented by what the code compares with it:    *)
(* elapsed[i] says that the deadline the row waits for (availableAt or     *)
(* retryAt of a waiting intent, leaseExpiresAt of a claimed one) passed.   *)
(***************************************************************************)
EXTENDS Naturals, FiniteSets

CONSTANTS
    Intent,             \* one per outbox event (outboxEventId is unique)
    Worker,             \* worker processes
    Subscription,       \* push subscriptions
    NoSubscription,     \* pushSubscriptionId = null
    NoWorker,           \* owner of an attempt that was never claimed
    Push,               \* intents on channel WEB_PUSH; the others are IN_APP
    Reminder,           \* push intents with a ReminderOccurrence
    SubscriptionOf,     \* pushSubscriptionId of an intent
    Mode,               \* provider idempotency mode of an intent's provider
    Outcome,            \* what the provider answers for an intent
    MaxAttempts,        \* WORKER_NOTIFICATION_MAX_ATTEMPTS
    BatchSize,          \* WORKER_CLAIM_BATCH_SIZE
    MaxFaults,          \* bound: process crashes and failed database calls
    Punctual            \* intents whose tasks always end before their lease

Attempt == 1 .. MaxAttempts

ProviderMode == {"GUARANTEED", "BEST_EFFORT", "NONE"}

ProviderStatus == {"DELIVERED", "SIMULATED", "SUPPRESSED", "RETRYABLE_FAILURE",
                   "PERMANENT_FAILURE", "INVALID_SUBSCRIPTION", "AMBIGUOUS"}

Success == {"SIMULATED", "DELIVERED"}

Terminal == {"DELIVERED", "SIMULATED", "SUPPRESSED", "FAILED_PERMANENT",
             "INVALID_SUBSCRIPTION", "AMBIGUOUS"}

ASSUME ConstantsAssumption ==
    /\ MaxAttempts \in Nat \ {0}
    /\ BatchSize \in Nat \ {0}
    /\ MaxFaults \in Nat
    /\ Punctual \subseteq Intent
    /\ Push \subseteq Intent
    /\ Reminder \subseteq Push
    /\ NoSubscription \notin Subscription
    /\ NoWorker \notin Worker
    /\ SubscriptionOf \in [Intent -> Subscription \cup {NoSubscription}]
    /\ \A i \in Intent \ Push : SubscriptionOf[i] = NoSubscription
    /\ Mode \in [Intent -> ProviderMode]
    /\ Outcome \in [Intent -> ProviderStatus \ {"SUPPRESSED"}]

VARIABLES
    event,          \* outbox row: "absent", "PENDING" or "PROCESSED"
    status,         \* NotificationIntent.status, "absent" before projection
    attemptCount,   \* NotificationIntent.attemptCount
    lease,          \* attempt number standing for leaseToken, 0 for NULL
    elapsed,        \* the deadline of the row has passed on the database clock
    attempt,        \* NotificationDeliveryAttempt.status per attempt number
    receipt,        \* NotificationProviderReceipt.status per deliveryKey
    inbox,          \* events that have an InAppNotification row
    subscription,   \* PushSubscription.status
    occurrence,     \* ReminderOccurrence.status
    tick,           \* what a worker's polling loop is doing
    fetched,        \* pending events a worker read and has not projected yet
    batch,          \* tasks of the worker's current tick
    pc,             \* control point of the task of an attempt
    owner,          \* worker process that runs the task of an attempt
    result,         \* ProviderDeliveryResult held by a task
    ledger,         \* simulatedProviderLedger, in the memory of each process
    sent,           \* attempts whose send reached the provider (history)
    faults          \* faults injected so far

rows == <<event, status, attemptCount, lease, elapsed, attempt, receipt,
          inbox, subscription, occurrence>>
tasks == <<pc, owner, result>>
loops == <<tick, fetched, batch>>
vars == <<rows, tasks, loops, ledger, sent, faults>>

PCs == {"none", "claimed", "dispatched", "started", "suppressing", "checking",
        "lookup", "sending", "persisting", "finalizing", "closing",
        "done", "dead"}
Finished == {"none", "done", "dead"}

OccurrenceStatus == {"PLANNED", "INTENT_CREATED", "SUPPRESSED", "EXPIRED"}

\* One set per column and per program counter; only the shapes of the rows.
TypeOK ==
    /\ event \in [Intent -> {"absent", "PENDING", "PROCESSED"}]
    /\ status \in [Intent -> Terminal \cup
                     {"absent", "QUEUED", "PROCESSING", "FAILED_RETRYABLE"}]
    /\ attemptCount \in [Intent -> 0 .. MaxAttempts]
    /\ lease \in [Intent -> 0 .. MaxAttempts]
    /\ elapsed \in [Intent -> BOOLEAN]
    /\ attempt \in [Intent -> [Attempt -> ProviderStatus \cup
           {"none", "CLAIMED", "DISPATCH_STARTED", "PROVIDER_CALL_STARTED"}]]
    /\ receipt \in [Intent -> ProviderStatus \cup {"none"}]
    /\ inbox \subseteq Intent
    /\ subscription \in [Subscription -> {"ACTIVE", "REVOKED", "INVALID"}]
    /\ occurrence \in [Reminder -> OccurrenceStatus]
    /\ tick \in [Worker -> {"idle", "projecting", "delivering"}]
    /\ fetched \in [Worker -> SUBSET Intent]
    /\ batch \in [Worker -> SUBSET (Intent \X Attempt)]
    /\ pc \in [Intent -> [Attempt -> PCs]]
    /\ owner \in [Intent -> [Attempt -> Worker \cup {NoWorker}]]
    /\ result \in [Intent -> [Attempt -> ProviderStatus \cup {"none"}]]
    /\ ledger \in [Worker -> [Intent -> ProviderStatus \cup {"none"}]]
    /\ sent \in [Intent -> SUBSET Attempt]
    /\ faults \in 0 .. MaxFaults

Init ==
    /\ event = [i \in Intent |-> "absent"]
    /\ status = [i \in Intent |-> "absent"]
    /\ attemptCount = [i \in Intent |-> 0]
    /\ lease = [i \in Intent |-> 0]
    /\ elapsed = [i \in Intent |-> TRUE]
    /\ attempt = [i \in Intent |-> [n \in Attempt |-> "none"]]
    /\ receipt = [i \in Intent |-> "none"]
    /\ inbox = {}
    /\ subscription = [s \in Subscription |-> "ACTIVE"]
    /\ occurrence = [i \in Reminder |-> "PLANNED"]
    /\ tick = [w \in Worker |-> "idle"]
    /\ fetched = [w \in Worker |-> {}]
    /\ batch = [w \in Worker |-> {}]
    /\ pc = [i \in Intent |-> [n \in Attempt |-> "none"]]
    /\ owner = [i \in Intent |-> [n \in Attempt |-> NoWorker]]
    /\ result = [i \in Intent |-> [n \in Attempt |-> "none"]]
    /\ ledger = [w \in Worker |-> [i \in Intent |-> "none"]]
    /\ sent = [i \in Intent |-> {}]
    /\ faults = 0

-----------------------------------------------------------------------------
(* The polling loop: processPendingOutbox projects, then claims, then waits *)
(* for the tasks of the batch.                                              *)

\* The web application or the scheduler commits an outbox row.
EmitEvent(i) ==
    /\ event[i] = "absent"
    /\ event' = [event EXCEPT ![i] = "PENDING"]
    /\ UNCHANGED <<status, attemptCount, lease, elapsed, attempt, receipt,
                   inbox, subscription, occurrence>>
    /\ UNCHANGED <<tasks, loops, ledger, sent, faults>>

\* findMany outside any transaction: the list may be stale when it is used.
FetchPending(w) ==
    /\ tick[w] = "idle"
    /\ tick' = [tick EXCEPT ![w] = "projecting"]
    /\ LET pending == {i \in Intent : event[i] = "PENDING"}
       IN  \E batchOfEvents \in SUBSET pending :
             /\ Cardinality(batchOfEvents) =
                  IF Cardinality(pending) < BatchSize
                  THEN Cardinality(pending) ELSE BatchSize
             /\ fetched' = [fetched EXCEPT ![w] = batchOfEvents]
    /\ UNCHANGED <<rows, tasks, batch, ledger, sent, faults>>

LinksAgain(i) == i \in Reminder    \* faulty: without notificationIntentId: null

\* updateMany where notificationIntentId is null; only PLANNED rows emit events.
LinksOccurrence(i) == i \in Reminder /\ occurrence[i] = "PLANNED"

\* The upsert leaves an existing intent alone; the occurrence is linked once;
\* the event row is set PROCESSED whatever its status is by now.
ProjectEvent(w, i) ==
    /\ tick[w] = "projecting"
    /\ i \in fetched[w]
    /\ status' = IF status[i] = "absent"
                 THEN [status EXCEPT ![i] = "QUEUED"] ELSE status
    /\ occurrence' = IF LinksOccurrence(i)
                     THEN [occurrence EXCEPT ![i] = "INTENT_CREATED"]
                     ELSE occurrence
    /\ event' = [event EXCEPT ![i] = "PROCESSED"]
    /\ fetched' = [fetched EXCEPT ![w] = @ \ {i}]
    /\ UNCHANGED <<attemptCount, lease, elapsed, attempt, receipt, inbox,
                   subscription>>
    /\ UNCHANGED <<tasks, tick, batch, ledger, sent, faults>>

Waiting(i) ==
    /\ status[i] \in {"QUEUED", "FAILED_RETRYABLE"}
    /\ elapsed[i]
    /\ attemptCount[i] < MaxAttempts

ClaimsWaitingOnly(i) == Waiting(i)    \* faulty: expired leases are not reclaimed

Claimable(i) ==
    \/ Waiting(i)
    \/ status[i] = "PROCESSING" /\ elapsed[i]

\* LIMIT: any choice of that many due rows (ORDER BY decides which).
ClaimCandidates ==
    LET due == {i \in Intent : Claimable(i)}
    IN  {c \in SUBSET due : Cardinality(c) = IF Cardinality(due) < BatchSize
                                             THEN Cardinality(due)
                                             ELSE BatchSize}

\* CHECK ("attemptCount" <= "maxAttempts") on the incremented rows.
AttemptsWithinMax(c) == \A i \in c : attemptCount[i] + 1 <= MaxAttempts

\* The claim transaction commits: rows leased, attempt rows inserted.
Claimed(w, c) ==
    /\ status' = [i \in Intent |-> IF i \in c THEN "PROCESSING" ELSE status[i]]
    /\ attemptCount' = [i \in Intent |-> IF i \in c THEN attemptCount[i] + 1
                                                    ELSE attemptCount[i]]
    /\ lease' = [i \in Intent |-> IF i \in c THEN attemptCount[i] + 1
                                             ELSE lease[i]]
    /\ elapsed' = [i \in Intent |-> IF i \in c THEN FALSE ELSE elapsed[i]]
    /\ attempt' = [i \in Intent |-> [n \in Attempt |->
          IF i \in c /\ n = attemptCount[i] + 1 THEN "CLAIMED"
                                                ELSE attempt[i][n]]]
    /\ pc' = [i \in Intent |-> [n \in Attempt |->
          IF i \in c /\ n = attemptCount[i] + 1 THEN "claimed" ELSE pc[i][n]]]
    /\ owner' = [i \in Intent |-> [n \in Attempt |->
          IF i \in c /\ n = attemptCount[i] + 1 THEN w ELSE owner[i][n]]]
    /\ batch' = [batch EXCEPT ![w] = {<<i, attemptCount[i] + 1>> : i \in c}]
    /\ tick' = [tick EXCEPT ![w] = "delivering"]

\* A row that violates the CHECK constraint aborts the claim of every row.
ClaimIntents(w) ==
    /\ tick[w] = "projecting"
    /\ fetched[w] = {}
    /\ \E c \in ClaimCandidates :
         \/ /\ AttemptsWithinMax(c)
            /\ Claimed(w, c)
         \/ /\ ~AttemptsWithinMax(c)
            /\ tick' = [tick EXCEPT ![w] = "idle"]
            /\ UNCHANGED <<status, attemptCount, lease, elapsed, attempt, pc,
                           owner, batch>>
    /\ UNCHANGED <<event, receipt, inbox, subscription, occurrence, fetched,
                   result, ledger, sent, faults>>

\* Promise.all: all tasks of the tick settled, or one of them was rejected.
EndTick(w) ==
    /\ tick[w] = "delivering"
    /\ \/ \A t \in batch[w] : pc[t[1]][t[2]] \in Finished
       \/ \E t \in batch[w] : pc[t[1]][t[2]] = "dead"
    /\ tick' = [tick EXCEPT ![w] = "idle"]
    /\ batch' = [batch EXCEPT ![w] = {}]
    /\ UNCHANGED <<rows, tasks, fetched, ledger, sent, faults>>

-----------------------------------------------------------------------------
(* The task of attempt n of intent i: processClaimedIntent.                 *)

HoldsAnyLease(i, n) == status[i] = "PROCESSING"    \* faulty: token not compared
HoldsUnchecked(i, n) == TRUE                       \* faulty: no compare-and-set

HoldsLease(i, n) == status[i] = "PROCESSING" /\ lease[i] = n

GoTo(i, n, next) == pc' = [pc EXCEPT ![i][n] = next]

\* Both statements of the transaction run; either count of 0 ends the task.
MarkDispatchStarted(i, n) ==
    /\ pc[i][n] = "claimed"
    /\ attempt' = [attempt EXCEPT ![i][n] = "DISPATCH_STARTED"]
    /\ GoTo(i, n, IF HoldsLease(i, n) THEN "dispatched" ELSE "done")
    /\ UNCHANGED <<event, status, attemptCount, lease, elapsed, receipt,
                   inbox, subscription, occurrence>>
    /\ UNCHANGED <<owner, result, loops, ledger, sent, faults>>

\* Matches the attempt row only, so it succeeds after the lease is lost too.
MarkProviderCallStarted(i, n) ==
    /\ pc[i][n] = "dispatched"
    /\ attempt' = [attempt EXCEPT ![i][n] = "PROVIDER_CALL_STARTED"]
    /\ GoTo(i, n, "started")
    /\ UNCHANGED <<event, status, attemptCount, lease, elapsed, receipt,
                   inbox, subscription, occurrence>>
    /\ UNCHANGED <<owner, result, loops, ledger, sent, faults>>

\* The preference, subscription, quiet hours, cap and mission reads are other
\* components' state: a reminder may pass or be suppressed at any time.
RevalidateReminder(i, n) ==
    /\ pc[i][n] = "started"
    /\ \/ GoTo(i, n, "checking")
       \/ i \in Reminder /\ GoTo(i, n, "suppressing")
    /\ UNCHANGED <<rows, owner, result, loops, ledger, sent, faults>>

\* A transaction of its own, before and without the lease check.
SuppressOccurrence(i, n) ==
    /\ pc[i][n] = "suppressing"
    /\ \E s \in {"SUPPRESSED", "EXPIRED"} :
         occurrence' = [occurrence EXCEPT ![i] = s]
    /\ result' = [result EXCEPT ![i][n] = "SUPPRESSED"]
    /\ GoTo(i, n, "closing")
    /\ UNCHANGED <<event, status, attemptCount, lease, elapsed, attempt,
                   receipt, inbox, subscription>>
    /\ UNCHANGED <<owner, loops, ledger, sent, faults>>

\* faulty: an attempt past the provider call is not looked for
RecoveredDispatched(i, n) ==
    /\ Mode[i] # "GUARANTEED"
    /\ \E m \in Attempt : m < n /\ attempt[i][m] = "DISPATCH_STARTED"

\* An earlier attempt that got as far as the provider call and left no outcome.
RecoveredAmbiguous(i, n) ==
    /\ Mode[i] # "GUARANTEED"
    /\ \E m \in Attempt : m < n /\ attempt[i][m] = "PROVIDER_CALL_STARTED"

CheckRecoveredAmbiguous(i, n) ==
    /\ pc[i][n] = "checking"
    /\ IF RecoveredAmbiguous(i, n)
       THEN /\ result' = [result EXCEPT ![i][n] = "AMBIGUOUS"]
            /\ GoTo(i, n, "finalizing")
       ELSE /\ result' = result
            /\ GoTo(i, n, "lookup")
    /\ UNCHANGED <<rows, owner, loops, ledger, sent, faults>>

\* The receipt, then the memory of this process, may already know the answer.
LookupReceipt(i, n) ==
    LET known == ledger[owner[i][n]][i] IN
    /\ pc[i][n] = "lookup"
    /\ \/ /\ receipt[i] # "none"
          /\ result' = [result EXCEPT ![i][n] = receipt[i]]
          /\ GoTo(i, n, "persisting")
       \/ /\ receipt[i] = "none"
          /\ Mode[i] = "GUARANTEED"
          /\ known # "none"
          /\ result' = [result EXCEPT ![i][n] = known]
          /\ GoTo(i, n, "persisting")
       \/ /\ receipt[i] = "none"
          /\ Mode[i] # "GUARANTEED" \/ known = "none"
          /\ result' = result
          /\ GoTo(i, n, "sending")
    /\ UNCHANGED <<rows, owner, loops, ledger, sent, faults>>

HasActiveSubscription(i) ==
    /\ SubscriptionOf[i] # NoSubscription
    /\ subscription[SubscriptionOf[i]] = "ACTIVE"

\* The provider call; a push without an active subscription never reaches it.
SendToProvider(i, n) ==
    /\ pc[i][n] = "sending"
    /\ \/ /\ i \in Push /\ ~HasActiveSubscription(i)
          /\ result' = [result EXCEPT ![i][n] = "INVALID_SUBSCRIPTION"]
          /\ UNCHANGED <<ledger, sent>>
       \/ /\ i \in Push => HasActiveSubscription(i)
          /\ result' = [result EXCEPT ![i][n] = Outcome[i]]
          /\ sent' = [sent EXCEPT ![i] = @ \cup {n}]
          /\ ledger' = IF Mode[i] = "GUARANTEED"
                       THEN [ledger EXCEPT ![owner[i][n]][i] = Outcome[i]]
                       ELSE ledger
    /\ GoTo(i, n, "persisting")
    /\ UNCHANGED <<rows, owner, loops, faults>>

ShouldPersistReceipt(i, r) ==
    Mode[i] # "NONE" /\ r \notin {"RETRYABLE_FAILURE", "AMBIGUOUS"}

\* An upsert with an empty update: the first receipt of a deliveryKey stays.
PersistReceipt(i, n) ==
    /\ pc[i][n] = "persisting"
    /\ receipt' = IF ShouldPersistReceipt(i, result[i][n]) /\ receipt[i] = "none"
                  THEN [receipt EXCEPT ![i] = result[i][n]] ELSE receipt
    /\ GoTo(i, n, "finalizing")
    /\ UNCHANGED <<event, status, attemptCount, lease, elapsed, attempt,
                   inbox, subscription, occurrence>>
    /\ UNCHANGED <<owner, result, loops, ledger, sent, faults>>

ShouldRetry(n, r) == r = "RETRYABLE_FAILURE" /\ n < MaxAttempts

\* faulty: exhausted retries keep the provider's word for the intent
NextStatusUnmapped(n, r) == IF ShouldRetry(n, r) THEN "FAILED_RETRYABLE" ELSE r

\* The status the intent gets from the result of attempt n.
NextStatus(n, r) ==
    IF ShouldRetry(n, r) THEN "FAILED_RETRYABLE"
    ELSE IF r \in {"RETRYABLE_FAILURE", "PERMANENT_FAILURE"}
         THEN "FAILED_PERMANENT"
         ELSE r

\* faulty: the lease columns are not cleared
FinalizeKeepingLease(i, n, r) ==
    /\ status' = [status EXCEPT ![i] = NextStatus(n, r)]
    /\ attempt' = [attempt EXCEPT ![i][n] = r]
    /\ UNCHANGED <<lease, elapsed, inbox, subscription>>

\* Every write of the finalization transaction, in one commit.
FinalizeWrites(i, n, r) ==
    /\ status' = [status EXCEPT ![i] = NextStatus(n, r)]
    /\ lease' = [lease EXCEPT ![i] = 0]
    /\ elapsed' = [elapsed EXCEPT ![i] = FALSE]
    /\ attempt' = [attempt EXCEPT ![i][n] = r]
    /\ inbox' = IF r \in Success /\ i \notin Push THEN inbox \cup {i} ELSE inbox
    /\ subscription' =
         [s \in Subscription |->
            IF /\ r = "INVALID_SUBSCRIPTION"
               /\ s = SubscriptionOf[i]
               /\ subscription[s] = "ACTIVE"
            THEN "INVALID" ELSE subscription[s]]

\* Compare-and-set on (id, PROCESSING, leaseToken); a lost lease writes nothing.
FinalizeIntentResult(i, n) ==
    /\ pc[i][n] \in {"finalizing", "closing"}
    /\ \/ HoldsLease(i, n) /\ FinalizeWrites(i, n, result[i][n])
       \/ /\ ~HoldsLease(i, n)
          /\ UNCHANGED <<status, lease, elapsed, attempt, inbox, subscription>>
    /\ GoTo(i, n, "done")
    /\ result' = [result EXCEPT ![i][n] = "none"]
    /\ UNCHANGED <<event, attemptCount, receipt, occurrence>>
    /\ UNCHANGED <<owner, loops, ledger, sent, faults>>

TaskStep(i, n) ==
    \/ MarkDispatchStarted(i, n)
    \/ MarkProviderCallStarted(i, n)
    \/ RevalidateReminder(i, n)
    \/ SuppressOccurrence(i, n)
    \/ CheckRecoveredAmbiguous(i, n)
    \/ LookupReceipt(i, n)
    \/ SendToProvider(i, n)
    \/ PersistReceipt(i, n)
    \/ FinalizeIntentResult(i, n)

-----------------------------------------------------------------------------
(* Time, the client, and faults.                                            *)

\* retryAt or leaseExpiresAt passes on the database clock.  Nothing renews a
\* lease, and nothing in the worker bounds a task by it; Punctual intents model
\* providers that answer within WORKER_PROVIDER_TIMEOUT_MS.
DeadlinePasses(i) ==
    /\ ~elapsed[i]
    /\ status[i] \in {"FAILED_RETRYABLE", "PROCESSING"}
    /\ (i \in Punctual /\ status[i] = "PROCESSING")
          => pc[i][lease[i]] \in Finished
    /\ elapsed' = [elapsed EXCEPT ![i] = TRUE]
    /\ UNCHANGED <<event, status, attemptCount, lease, attempt, receipt,
                   inbox, subscription, occurrence>>
    /\ UNCHANGED <<tasks, loops, ledger, sent, faults>>

\* The client disables reminders: its active subscriptions are revoked.
RevokeSubscription(s) ==
    /\ subscription[s] = "ACTIVE"
    /\ subscription' = [subscription EXCEPT ![s] = "REVOKED"]
    /\ UNCHANGED <<event, status, attemptCount, lease, elapsed, attempt,
                   receipt, inbox, occurrence>>
    /\ UNCHANGED <<tasks, loops, ledger, sent, faults>>

\* The client enables reminders on the same endpoint again: the upsert sets its
\* subscription ACTIVE, also one that a provider's answer had made INVALID.
RegisterSubscription(s) ==
    /\ subscription[s] # "ACTIVE"
    /\ subscription' = [subscription EXCEPT ![s] = "ACTIVE"]
    /\ UNCHANGED <<event, status, attemptCount, lease, elapsed, attempt,
                   receipt, inbox, occurrence>>
    /\ UNCHANGED <<tasks, loops, ledger, sent, faults>>

Fault == faults < MaxFaults /\ faults' = faults + 1

\* The process dies (or exits over its shutdown grace) and is started again.
Crash(w) ==
    /\ Fault
    /\ pc' = [i \in Intent |-> [n \in Attempt |->
          IF owner[i][n] = w /\ pc[i][n] \notin Finished THEN "dead"
                                                         ELSE pc[i][n]]]
    /\ tick' = [tick EXCEPT ![w] = "idle"]
    /\ fetched' = [fetched EXCEPT ![w] = {}]
    /\ batch' = [batch EXCEPT ![w] = {}]
    /\ ledger' = [ledger EXCEPT ![w] = [i \in Intent |-> "none"]]
    /\ UNCHANGED <<rows, owner, result, sent>>

\* A projection transaction or the list query fails: the tick ends.
TickFails(w) ==
    /\ Fault
    /\ tick[w] = "projecting"
    /\ tick' = [tick EXCEPT ![w] = "idle"]
    /\ fetched' = [fetched EXCEPT ![w] = {}]
    /\ UNCHANGED <<rows, tasks, batch, ledger, sent>>

\* A database call outside the try block is rejected: the task is abandoned.
TaskThrows(i, n) ==
    /\ Fault
    /\ pc[i][n] \in {"claimed", "dispatched", "started", "suppressing",
                     "closing"}
    /\ GoTo(i, n, "dead")
    /\ UNCHANGED <<rows, owner, result, loops, ledger, sent>>

\* faulty: an idempotent provider is trusted to have accepted
MapThrownAsSent(i, invalidSubscription) ==
    IF Mode[i] = "GUARANTEED" THEN "SIMULATED" ELSE "AMBIGUOUS"

\* mapThrownProviderErrorToResult
MapThrown(i, invalidSubscription) ==
    IF invalidSubscription THEN "INVALID_SUBSCRIPTION"
    ELSE IF Mode[i] = "GUARANTEED" THEN "RETRYABLE_FAILURE" ELSE "AMBIGUOUS"

\* Anything thrown inside the try block becomes a result to finalize; only a
\* push provider reports an invalid subscription by throwing.
TaskCatches(i, n) ==
    /\ Fault
    /\ pc[i][n] \in {"checking", "lookup", "sending", "persisting",
                     "finalizing"}
    /\ \E invalid \in {FALSE} \cup
                      {x \in {TRUE} : i \in Push /\ pc[i][n] = "sending"} :
         result' = [result EXCEPT ![i][n] = MapThrown(i, invalid)]
    /\ GoTo(i, n, "closing")
    /\ UNCHANGED <<rows, owner, loops, ledger, sent>>

Next ==
    \/ \E i \in Intent : EmitEvent(i) \/ DeadlinePasses(i)
    \/ \E s \in Subscription : RevokeSubscription(s) \/ RegisterSubscription(s)
    \/ \E w \in Worker : \/ FetchPending(w)
                         \/ \E i \in Intent : ProjectEvent(w, i)
                         \/ ClaimIntents(w)
                         \/ EndTick(w)
                         \/ Crash(w)
                         \/ TickFails(w)
    \/ \E i \in Intent, n \in Attempt : \/ TaskStep(i, n)
                                        \/ TaskThrows(i, n)
                                        \/ TaskCatches(i, n)

\* The event loop of a running process keeps scheduling its ticks and its
\* promises, and the database clock advances.
TickStep(w) == \/ FetchPending(w)
               \/ \E i \in Intent : ProjectEvent(w, i)
               \/ ClaimIntents(w)
               \/ EndTick(w)

Fairness ==
    /\ \A w \in Worker : WF_vars(TickStep(w))
    /\ \A i \in Intent, n \in Attempt : WF_vars(TaskStep(i, n))
    /\ \A i \in Intent : WF_vars(DeadlinePasses(i))

Spec == Init /\ [][Next]_vars

FairSpec == Spec /\ Fairness

-----------------------------------------------------------------------------
(* Safety.                                                                  *)

\* A row is leased exactly while it is PROCESSING, and always to its newest
\* claim: no finalization, retry or reclaim leaves an older token behind.
\* (claim and compare-and-set of notifications.ts, lease CHECK constraints)
LeaseIsNewestAttempt ==
    \A i \in Intent :
        /\ status[i] = "PROCESSING" <=> lease[i] # 0
        /\ lease[i] # 0 => lease[i] = attemptCount[i]

\* The attempt history and the intent tell the same story, however many stale
\* tasks still run: the newest attempt carries the intent's outcome, and an
\* earlier attempt carries at most a retryable failure.
Unsettled == {"CLAIMED", "DISPATCH_STARTED", "PROVIDER_CALL_STARTED"}

HistoryAgreesWithIntent ==
    \A i \in Intent : \A n \in Attempt :
        /\ n > attemptCount[i] => attempt[i][n] = "none"
        /\ n < attemptCount[i] =>
              attempt[i][n] \in Unsettled \cup {"RETRYABLE_FAILURE"}
        /\ n = attemptCount[i] =>
              IF status[i] = "PROCESSING"
              THEN attempt[i][n] \in Unsettled
              ELSE /\ attempt[i][n] \in ProviderStatus
                   /\ status[i] = NextStatus(n, attempt[i][n])

\* A staff member's inbox shows a notification exactly when its intent ended
\* in success: no row without the outcome, no outcome without the row.
InboxMatchesOutcome ==
    \A i \in Intent \ Push : i \in inbox <=> status[i] \in Success

\* A successful outcome is never made up: some attempt of that very intent
\* reached the provider, whatever receipts, memory and crashes did since.
SuccessWasSent ==
    \A i \in Intent : status[i] \in Success => sent[i] # {}

\* Only an authoritative outcome disables a push subscription.
InvalidationIsAuthoritative ==
    \A s \in Subscription : subscription[s] = "INVALID" =>
        \E i \in Push : /\ SubscriptionOf[i] = s
                        /\ status[i] = "INVALID_SUBSCRIPTION"

\* With a provider that cannot deduplicate, a second attempt reaches it only
\* after the first was refused with a retryable failure.
NoResendAfterUnknown ==
    \A i \in Intent : \A m, n \in sent[i] :
        (Mode[i] # "GUARANTEED" /\ m < n) => attempt[i][m] = "RETRYABLE_FAILURE"

\* "Suppression updates both the intent and the related occurrence"
\* (docs/WORKER_NOTIFICATION_DELIVERY.md:78): once the intent is settled, the
\* occurrence is suppressed if and only if the intent is.
SuppressionAgrees ==
    \A i \in Reminder : status[i] \in Terminal =>
        (occurrence[i] \in {"SUPPRESSED", "EXPIRED"} <=> status[i] = "SUPPRESSED")

\* An intent is reported as suppressed only with a closed occurrence: nobody
\* reads of a suppression that the reminder's own row does not know.
\* (suppressReminderIntent, then the finalization)
SuppressedIsClosed ==
    \A i \in Intent : status[i] = "SUPPRESSED" =>
        i \in Reminder /\ occurrence[i] \in {"SUPPRESSED", "EXPIRED"}

\* A settled intent never changes again: no reclaim, stale finalization or
\* repeated projection touches it.
TerminalIsFinal ==
    [][\A i \in Intent : status[i] \in Terminal => status'[i] = status[i]]_vars

\* A suppressed or expired occurrence is never reopened by a worker that
\* projects the same event again.
SuppressedStaysClosed ==
    [][\A i \in Reminder : occurrence[i] \in {"SUPPRESSED", "EXPIRED"}
                             => occurrence'[i] # "INTENT_CREATED"]_vars

-----------------------------------------------------------------------------
(* Liveness.                                                                *)

\* A lease expired on the last allowed attempt.
Exhausted(i) ==
    status[i] = "PROCESSING" /\ elapsed[i] /\ attemptCount[i] = MaxAttempts

\* Every event ends in a settled intent, through crashes, failed calls and
\* expired leases, unless a last attempt outlives its lease.
SettlesUnlessExhausted ==
    \A i \in Intent : (event[i] # "absent") ~>
        (status[i] \in Terminal \/ \E j \in Intent : Exhausted(j))

\* "attempts beyond `maxAttempts` become `FAILED_PERMANENT`"
\* (docs/WORKER_NOTIFICATION_DELIVERY.md:47): every event is settled.
EveryEventSettles ==
    \A i \in Intent : (event[i] # "absent") ~> status[i] \in Terminal

-----------------------------------------------------------------------------
(* Refinement: the rows implement the lifecycle log of each intent.         *)

LogEntry(i, n) ==
    IF attempt[i][n] \in ProviderStatus THEN attempt[i][n] ELSE "open"

Lifecycle == INSTANCE DeliveryLifecycle WITH
    InApp <- Intent \ Push,
    created <- {i \in Intent : status[i] # "absent"},
    log <- [i \in Intent |-> [n \in 1 .. attemptCount[i] |-> LogEntry(i, n)]]

\* Every behaviour of the worker is a behaviour of the delivery lifecycle.
ImplementsLifecycle == Lifecycle!Spec
=============================================================================
