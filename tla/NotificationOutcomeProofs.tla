----------------------- MODULE NotificationOutcomeProofs -----------------------
(***************************************************************************)
(* What an outcome of the notification worker means to the other tables:   *)
(* the inbox, the provider, the push subscription and the occurrence, and  *)
(* that the worker implements DeliveryLifecycle.  Everything rests on the  *)
(* invariant IInv of NotificationWorkerProofs, which says that only the    *)
(* newest claim of an intent ever writes an outcome.                       *)
(***************************************************************************)
EXTENDS NotificationWorkerProofs, FiniteSetTheorems, SequenceTheorems

\* Only a finalization writes the inbox.
LEMMA InboxWriters ==
  ASSUME [Next]_vars
  PROVE  \/ inbox' = inbox
         \/ \E i \in Intent, n \in Attempt : FinalizeIntentResult(i, n)
  <1>1. CASE \/ \E i \in Intent : EmitEvent(i) \/ DeadlinePasses(i)
             \/ \E s \in Subscription : RevokeSubscription(s) \/ RegisterSubscription(s)
             \/ \E w \in Worker : \/ FetchPending(w) \/ EndTick(w)
                                  \/ TickFails(w) \/ Crash(w)
                                  \/ ClaimIntents(w)
                                  \/ \E i \in Intent : ProjectEvent(w, i)
             \/ UNCHANGED vars
      BY <1>1 DEF EmitEvent, DeadlinePasses, RevokeSubscription, RegisterSubscription, FetchPending,
                  EndTick, TickFails, Crash, ClaimIntents, ProjectEvent,
                  vars, rows
  <1>2. CASE \E i \in Intent, n \in Attempt :
               TaskThrows(i, n) \/ TaskCatches(i, n)
      BY <1>2 DEF TaskThrows, TaskCatches, rows
  <1>3. ASSUME NEW i \in Intent, NEW n \in Attempt, TaskStep(i, n)
        PROVE  inbox' = inbox \/ FinalizeIntentResult(i, n)
      BY <1>3 DEF TaskStep, MarkDispatchStarted, MarkProviderCallStarted,
                  RevalidateReminder, SuppressOccurrence,
                  CheckRecoveredAmbiguous, LookupReceipt, SendToProvider,
                  PersistReceipt, rows
  <1> QED
      BY <1>1, <1>2, <1>3 DEF Next

\* Only the client and a finalization write a push subscription.
LEMMA SubscriptionWriters ==
  ASSUME [Next]_vars
  PROVE  \/ subscription' = subscription
         \/ \E s \in Subscription : RevokeSubscription(s) \/ RegisterSubscription(s)
         \/ \E i \in Intent, n \in Attempt : FinalizeIntentResult(i, n)
  <1>1. CASE \/ \E i \in Intent : EmitEvent(i) \/ DeadlinePasses(i)
             \/ \E w \in Worker : \/ FetchPending(w) \/ EndTick(w)
                                  \/ TickFails(w) \/ Crash(w)
                                  \/ ClaimIntents(w)
                                  \/ \E i \in Intent : ProjectEvent(w, i)
             \/ UNCHANGED vars
      BY <1>1 DEF EmitEvent, DeadlinePasses, FetchPending,
                  EndTick, TickFails, Crash, ClaimIntents, ProjectEvent,
                  vars, rows
  <1>2. CASE \E i \in Intent, n \in Attempt :
               TaskThrows(i, n) \/ TaskCatches(i, n)
      BY <1>2 DEF TaskThrows, TaskCatches, rows
  <1>3. ASSUME NEW i \in Intent, NEW n \in Attempt, TaskStep(i, n)
        PROVE  subscription' = subscription \/ FinalizeIntentResult(i, n)
      BY <1>3 DEF TaskStep, MarkDispatchStarted, MarkProviderCallStarted,
                  RevalidateReminder, SuppressOccurrence,
                  CheckRecoveredAmbiguous, LookupReceipt, SendToProvider,
                  PersistReceipt, rows
  <1> QED
      BY <1>1, <1>2, <1>3 DEF Next

\* What a finalization does to the status: nothing without the lease, the
\* outcome of its result with it.
LEMMA FinalizeStatus ==
  ASSUME IInv, NEW i \in Intent, NEW n \in Attempt,
         FinalizeIntentResult(i, n)
  PROVE  /\ result[i][n] \in ProviderStatus
         /\ \/ UNCHANGED <<status, lease, elapsed, attempt, inbox, subscription>>
            \/ /\ HoldsLease(i, n)
               /\ FinalizeWrites(i, n, result[i][n])
               /\ status[i] = "PROCESSING"
               /\ n = attemptCount[i]
               /\ status'[i] = NextStatus(n, result[i][n])
               /\ \A j \in Intent \ {i} : status'[j] = status[j]
  <1>1. result[i][n] \in ProviderStatus
      BY DEF FinalizeIntentResult, IInv, ResultsKnown
  <1>2. CASE HoldsLease(i, n) /\ FinalizeWrites(i, n, result[i][n])
      BY <1>1, <1>2 DEF HoldsLease, FinalizeWrites, IInv, TypeOK,
                        LeaseIsNewestAttempt, Attempt
  <1> QED
      BY <1>1, <1>2 DEF FinalizeIntentResult

-----------------------------------------------------------------------------
(* The inbox.                                                               *)

\* The row appears in the transaction that writes the successful outcome.
LEMMA InboxStep == IInv /\ InboxMatchesOutcome /\ [Next]_vars
                      => InboxMatchesOutcome'
  <1> SUFFICES ASSUME IInv, InboxMatchesOutcome, [Next]_vars,
                      NEW i \in Intent \ Push
               PROVE  (i \in inbox <=> status[i] \in Success)'
      BY DEF InboxMatchesOutcome
  <1>1. i \in inbox <=> status[i] \in Success
      BY DEF InboxMatchesOutcome
  <1>2. CASE \E j \in Intent, n \in Attempt : FinalizeIntentResult(j, n)
      <2>1. PICK j \in Intent, n \in Attempt : FinalizeIntentResult(j, n)
          BY <1>2
      <2>2. CASE UNCHANGED <<status, inbox>>
          BY <1>1, <2>2
      <2>3. CASE /\ FinalizeWrites(j, n, result[j][n])
                 /\ status[j] = "PROCESSING"
                 /\ status'[j] = NextStatus(n, result[j][n])
                 /\ \A k \in Intent \ {j} : status'[k] = status[k]
          <3>1. status'[j] \in Success <=> result[j][n] \in Success
              BY <2>1, <2>3, FinalizeStatus, NextStatusType
          <3> QED
              BY <1>1, <2>3, <3>1 DEF FinalizeWrites, Success
      <2> QED
          BY <2>1, <2>2, <2>3, FinalizeStatus
  <1>3. CASE inbox' = inbox /\ status' = status
      BY <1>1, <1>3
  <1>4. CASE inbox' = inbox /\ \E w \in Worker, j \in Intent : ProjectEvent(w, j)
      BY <1>1, <1>4 DEF ProjectEvent, IInv, TypeOK, Success
  <1>5. CASE inbox' = inbox /\ \E w \in Worker : ClaimIntents(w)
      <2>1. \A c \in ClaimCandidates : i \in c => status[i] \notin Success
          BY DEF ClaimCandidates, Claimable, Waiting, Success
      <2>2. CASE status' = status
          BY <1>1, <1>5, <2>2
      <2>3. CASE \E c \in ClaimCandidates :
                   status'[i] = IF i \in c THEN "PROCESSING" ELSE status[i]
          BY <1>1, <1>5, <2>1, <2>3 DEF Success
      <2> QED
          BY <1>5, <2>2, <2>3 DEF ClaimIntents, Claimed
  <1> QED
      BY <1>2, <1>3, <1>4, <1>5, StatusWriters, InboxWriters

\* A staff member's inbox shows a notification exactly when its intent ended
\* in success (FinalizeWrites is one transaction, and only one of them wins).
THEOREM InboxSafety == Spec => []InboxMatchesOutcome
  <1>1. Init => InboxMatchesOutcome
      BY DEF Init, InboxMatchesOutcome, Success
  <1> QED
      BY <1>1, InboxStep, InvariantIInv, PTL DEF Spec

-----------------------------------------------------------------------------
(* Push subscriptions and occurrences.                                      *)

\* The outcome is terminal, so the reason of an invalidation never disappears.
LEMMA InvalidationStep == IInv /\ InvalidationIsAuthoritative /\ [Next]_vars
                             => InvalidationIsAuthoritative'
  <1> SUFFICES ASSUME IInv, InvalidationIsAuthoritative, [Next]_vars,
                      NEW s \in Subscription, subscription'[s] = "INVALID"
               PROVE  \E i \in Push : /\ SubscriptionOf[i] = s
                                      /\ status'[i] = "INVALID_SUBSCRIPTION"
      BY DEF InvalidationIsAuthoritative
  <1> USE ConstantsAssumption DEF ConstantsAssumption
  <1>1. CASE subscription[s] = "INVALID"
      <2>1. PICK i \in Push : /\ SubscriptionOf[i] = s
                              /\ status[i] = "INVALID_SUBSCRIPTION"
          BY <1>1 DEF InvalidationIsAuthoritative
      <2>2. status'[i] = status[i]
          BY <2>1, TerminalStep DEF Terminal
      <2> QED
          BY <2>1, <2>2
  <1>2. CASE subscription[s] # "INVALID"
      <2>1. ~ \E t \in Subscription : RevokeSubscription(t) \/ RegisterSubscription(t)
          BY <1>2 DEF RevokeSubscription, RegisterSubscription, IInv, TypeOK
      <2>2. PICK i \in Intent, n \in Attempt : FinalizeIntentResult(i, n)
          BY <1>2, <2>1, SubscriptionWriters
      <2>3. /\ result[i][n] = "INVALID_SUBSCRIPTION"
            /\ s = SubscriptionOf[i]
            /\ status'[i] = NextStatus(n, result[i][n])
          BY <1>2, <2>2, FinalizeStatus DEF FinalizeWrites
      <2>4. i \in Push
          BY <2>3
      <2> QED
          BY <2>3, <2>4 DEF NextStatus, ShouldRetry
  <1> QED
      BY <1>1, <1>2

\* Only an authoritative outcome disables a push subscription, however many
\* intents share it.
THEOREM InvalidationSafety == Spec => []InvalidationIsAuthoritative
  <1>1. Init => InvalidationIsAuthoritative
      BY DEF Init, InvalidationIsAuthoritative
  <1> QED
      BY <1>1, InvalidationStep, InvariantIInv, PTL DEF Spec

\* Only projection and suppression write an occurrence.
LEMMA OccurrenceWriters ==
  ASSUME [Next]_vars
  PROVE  \/ occurrence' = occurrence
         \/ \E w \in Worker, i \in Intent : ProjectEvent(w, i)
         \/ \E i \in Intent, n \in Attempt : SuppressOccurrence(i, n)
  <1>1. CASE \/ \E i \in Intent : EmitEvent(i) \/ DeadlinePasses(i)
             \/ \E s \in Subscription : RevokeSubscription(s) \/ RegisterSubscription(s)
             \/ \E w \in Worker : \/ FetchPending(w) \/ EndTick(w)
                                  \/ TickFails(w) \/ Crash(w)
                                  \/ ClaimIntents(w)
             \/ UNCHANGED vars
      BY <1>1 DEF EmitEvent, DeadlinePasses, RevokeSubscription, RegisterSubscription, FetchPending,
                  EndTick, TickFails, Crash, ClaimIntents, vars, rows
  <1>2. CASE \E i \in Intent, n \in Attempt :
               TaskThrows(i, n) \/ TaskCatches(i, n)
      BY <1>2 DEF TaskThrows, TaskCatches, rows
  <1>3. ASSUME NEW i \in Intent, NEW n \in Attempt, TaskStep(i, n)
        PROVE  occurrence' = occurrence \/ SuppressOccurrence(i, n)
      BY <1>3 DEF TaskStep, MarkDispatchStarted, MarkProviderCallStarted,
                  RevalidateReminder, FinalizeIntentResult,
                  CheckRecoveredAmbiguous, LookupReceipt, SendToProvider,
                  PersistReceipt, rows
  <1> QED
      BY <1>1, <1>2, <1>3 DEF Next

\* A suppressed or expired occurrence is never reopened by a worker that
\* projects the same event from a stale list.
THEOREM OccurrenceSafety == Spec => SuppressedStaysClosed
  <1>1. IInv /\ [Next]_vars =>
          [\A i \in Reminder : occurrence[i] \in {"SUPPRESSED", "EXPIRED"}
                                 => occurrence'[i] # "INTENT_CREATED"]_vars
      <2> SUFFICES ASSUME IInv, [Next]_vars, NEW i \in Reminder,
                          occurrence[i] \in {"SUPPRESSED", "EXPIRED"}
                   PROVE  occurrence'[i] # "INTENT_CREATED"
          OBVIOUS
      <2>1. CASE occurrence' = occurrence
          BY <2>1
      <2>2. CASE \E w \in Worker, j \in Intent : ProjectEvent(w, j)
          BY <2>2 DEF ProjectEvent, LinksOccurrence, IInv, TypeOK
      <2>3. CASE \E j \in Intent, n \in Attempt : SuppressOccurrence(j, n)
          BY <2>3 DEF SuppressOccurrence, IInv, TypeOK
      <2> QED
          BY <2>1, <2>2, <2>3, OccurrenceWriters
  <1> QED
      BY <1>1, InvariantIInv, PTL DEF Spec, SuppressedStaysClosed

-----------------------------------------------------------------------------
(* Success and the provider.  The outcome of an attempt may come from the   *)
(* receipt or from the memory of the process, written by an earlier one.    *)

\* Somewhere it is written that intent i succeeded.
ClaimsSuccess(i) ==
    \/ status[i] \in Success
    \/ receipt[i] \in Success
    \/ \E n \in Attempt : result[i][n] \in Success
    \/ \E w \in Worker : ledger[w][i] \in Success

OutcomesWereSent == \A i \in Intent : ClaimsSuccess(i) => sent[i] # {}

\* What reached the provider did so for good.
LEMMA SentGrows ==
  ASSUME IInv, [Next]_vars, NEW i \in Intent
  PROVE  sent[i] \subseteq sent'[i]
  <1>1. CASE \E j \in Intent, n \in Attempt : SendToProvider(j, n)
      <2>1. PICK j \in Intent, n \in Attempt : SendToProvider(j, n)
          BY <1>1
      <2>2. CASE sent' = [sent EXCEPT ![j] = @ \cup {n}]
          BY <2>2 DEF IInv, TypeOK
      <2>3. CASE UNCHANGED sent
          BY <2>3
      <2> QED
          BY <2>1, <2>2, <2>3 DEF SendToProvider
  <1>2. CASE \/ \E j \in Intent : EmitEvent(j) \/ DeadlinePasses(j)
             \/ \E s \in Subscription : RevokeSubscription(s) \/ RegisterSubscription(s)
             \/ \E w \in Worker : \/ FetchPending(w) \/ EndTick(w)
                                  \/ TickFails(w) \/ Crash(w)
                                  \/ ClaimIntents(w)
                                  \/ \E j \in Intent : ProjectEvent(w, j)
             \/ UNCHANGED vars
      <2>1. sent' = sent
          BY <1>2 DEF EmitEvent, DeadlinePasses, RevokeSubscription, RegisterSubscription,
                      FetchPending, EndTick, TickFails, Crash, ClaimIntents,
                      ProjectEvent, vars
      <2> QED
          BY <2>1
  <1>3. ASSUME NEW j \in Intent, NEW n \in Attempt,
               TaskThrows(j, n) \/ TaskCatches(j, n)
        PROVE  sent' = sent
      BY <1>3 DEF TaskThrows, TaskCatches
  <1>4. ASSUME NEW j \in Intent, NEW n \in Attempt, TaskStep(j, n)
        PROVE  sent' = sent \/ SendToProvider(j, n)
      BY <1>4 DEF TaskStep, MarkDispatchStarted, MarkProviderCallStarted,
                  RevalidateReminder, SuppressOccurrence,
                  CheckRecoveredAmbiguous, LookupReceipt, PersistReceipt,
                  FinalizeIntentResult
  <1> QED
      BY <1>1, <1>2, <1>3, <1>4 DEF Next

\* A task that notes a result which is no success claims nothing new.
LEMMA NoteFailure ==
  ASSUME IInv, NEW i \in Intent, NEW j \in Intent, NEW n \in Attempt,
         NEW v \in (ProviderStatus \cup {"none"}) \ Success,
         result' = [result EXCEPT ![j][n] = v],
         UNCHANGED <<status, receipt, ledger>>, ClaimsSuccess(i)'
  PROVE  ClaimsSuccess(i)
  <1>1. \A m \in Attempt :
          result'[i][m] = IF i = j /\ m = n THEN v ELSE result[i][m]
      BY ResultNoted DEF IInv
  <1> QED
      BY <1>1 DEF ClaimsSuccess

\* No step makes a success up: it copies one, or sends.
LEMMA SuccessIsCopiedOrSent ==
  ASSUME IInv, [Next]_vars, NEW i \in Intent, ClaimsSuccess(i)'
  PROVE  ClaimsSuccess(i) \/ sent'[i] # {}
  <1>1. CASE UNCHANGED <<status, receipt, result, ledger>>
      BY <1>1 DEF ClaimsSuccess
  <1>2. CASE \/ \E j \in Intent : EmitEvent(j) \/ DeadlinePasses(j)
             \/ \E s \in Subscription : RevokeSubscription(s) \/ RegisterSubscription(s)
             \/ \E w \in Worker : FetchPending(w) \/ EndTick(w) \/ TickFails(w)
             \/ \E j \in Intent, n \in Attempt :
                   \/ MarkDispatchStarted(j, n) \/ MarkProviderCallStarted(j, n)
                   \/ RevalidateReminder(j, n) \/ TaskThrows(j, n)
             \/ UNCHANGED vars
      <2>1. UNCHANGED <<status, receipt, result, ledger>>
          BY <1>2 DEF EmitEvent, DeadlinePasses, RevokeSubscription, RegisterSubscription,
                      FetchPending, EndTick, TickFails, MarkDispatchStarted,
                      MarkProviderCallStarted, RevalidateReminder, TaskThrows,
                      vars, rows, tasks
      <2> QED
          BY <1>1, <2>1
  <1>3. ASSUME NEW w \in Worker, NEW j \in Intent, ProjectEvent(w, j)
        PROVE  ClaimsSuccess(i)
      <2>1. UNCHANGED <<receipt, result, ledger>>
          BY <1>3 DEF ProjectEvent, tasks
      <2>2. status'[i] \in Success => status[i] \in Success
          BY <1>3 DEF ProjectEvent, IInv, TypeOK, Success
      <2> QED
          BY <2>1, <2>2 DEF ClaimsSuccess
  <1>4. ASSUME NEW w \in Worker, ClaimIntents(w)
        PROVE  ClaimsSuccess(i)
      <2>1. UNCHANGED <<receipt, result, ledger>>
          BY <1>4 DEF ClaimIntents
      <2>2. status'[i] \in {status[i], "PROCESSING"}
          BY <1>4 DEF ClaimIntents, Claimed
      <2> QED
          BY <2>1, <2>2 DEF ClaimsSuccess, Success
  <1>5. ASSUME NEW w \in Worker, Crash(w)
        PROVE  ClaimsSuccess(i)
      <2>1. UNCHANGED <<status, receipt, result>>
          BY <1>5 DEF Crash, rows
      <2>2. \A v \in Worker : ledger'[v][i] \in Success
                                => ledger[v][i] \in Success
          BY <1>5 DEF Crash, IInv, TypeOK, Success
      <2> QED
          BY <2>1, <2>2 DEF ClaimsSuccess
  <1>6. ASSUME NEW j \in Intent, NEW n \in Attempt,
               SuppressOccurrence(j, n) \/ CheckRecoveredAmbiguous(j, n)
                 \/ TaskCatches(j, n)
        PROVE  ClaimsSuccess(i)
      <2>1. UNCHANGED <<status, receipt, ledger>>
          BY <1>6 DEF SuppressOccurrence, CheckRecoveredAmbiguous,
                      TaskCatches, rows
      <2>2. CASE result' = result
          BY <2>1, <2>2 DEF ClaimsSuccess
      <2>3. CASE \E v \in (ProviderStatus \cup {"none"}) \ Success :
                   result' = [result EXCEPT ![j][n] = v]
          BY <2>1, <2>3, NoteFailure
      <2> QED
          BY <1>6, <2>2, <2>3
             DEF SuppressOccurrence, CheckRecoveredAmbiguous, TaskCatches,
                 MapThrown, ProviderStatus, Success
  <1>7. ASSUME NEW j \in Intent, NEW n \in Attempt, LookupReceipt(j, n)
        PROVE  ClaimsSuccess(i)
      <2>1. UNCHANGED <<status, receipt, ledger>>
          BY <1>7 DEF LookupReceipt, rows
      <2>2. CASE result' = result
          BY <2>1, <2>2 DEF ClaimsSuccess
      <2>3. CASE result' = [result EXCEPT ![j][n] = receipt[j]]
          <3>1. \A m \in Attempt :
                  result'[i][m] = IF i = j /\ m = n THEN receipt[j]
                                                    ELSE result[i][m]
              BY <2>3, ResultNoted DEF IInv, TypeOK
          <3> QED
              BY <2>1, <3>1 DEF ClaimsSuccess
      <2>4. CASE result' = [result EXCEPT ![j][n] = ledger[owner[j][n]][j]]
          <3>1. /\ owner[j][n] \in Worker
                /\ ledger[owner[j][n]][j] \in ProviderStatus \cup {"none"}
              BY <1>7 DEF LookupReceipt, IInv, TasksHaveOwner, TypeOK
          <3>2. \A m \in Attempt :
                  result'[i][m] = IF i = j /\ m = n
                                  THEN ledger[owner[j][n]][j]
                                  ELSE result[i][m]
              BY <2>4, <3>1, ResultNoted DEF IInv
          <3> QED
              BY <2>1, <3>1, <3>2 DEF ClaimsSuccess
      <2> QED
          BY <1>7, <2>2, <2>3, <2>4 DEF LookupReceipt
  <1>8. ASSUME NEW j \in Intent, NEW n \in Attempt, SendToProvider(j, n)
        PROVE  ClaimsSuccess(i) \/ sent'[i] # {}
      <2>1. UNCHANGED <<status, receipt>>
          BY <1>8 DEF SendToProvider, rows
      <2>2. CASE /\ result' = [result EXCEPT ![j][n] = "INVALID_SUBSCRIPTION"]
                 /\ UNCHANGED ledger
          BY <2>1, <2>2, NoteFailure DEF ProviderStatus, Success
      <2>3. CASE /\ i = j
                 /\ sent' = [sent EXCEPT ![j] = @ \cup {n}]
          BY <2>3 DEF IInv, TypeOK
      <2>4. CASE /\ i # j
                 /\ result' = [result EXCEPT ![j][n] = Outcome[j]]
                 /\ \/ ledger' = [ledger EXCEPT ![owner[j][n]][j] = Outcome[j]]
                    \/ ledger' = ledger
          <3>1. result'[i] = result[i]
              BY <2>4 DEF IInv, TypeOK
          <3>2. \A w \in Worker : ledger'[w][i] = ledger[w][i]
              <4>1. ledger \in [Worker -> [Intent -> ProviderStatus \cup {"none"}]]
                  BY DEF IInv, TypeOK
              <4>2. owner[j][n] \in Worker
                  BY <1>8 DEF SendToProvider, IInv, TasksHaveOwner
              <4> QED
                  BY <2>4, <4>1, <4>2
          <3> QED
              BY <2>1, <3>1, <3>2 DEF ClaimsSuccess
      <2> QED
          BY <1>8, <2>2, <2>3, <2>4 DEF SendToProvider
  <1>9. ASSUME NEW j \in Intent, NEW n \in Attempt, PersistReceipt(j, n)
        PROVE  ClaimsSuccess(i)
      <2>1. UNCHANGED <<status, result, ledger>>
          BY <1>9 DEF PersistReceipt
      <2>2. receipt'[i] \in {receipt[i], result[i][n]}
          BY <1>9 DEF PersistReceipt, IInv, TypeOK
      <2> QED
          BY <2>1, <2>2 DEF ClaimsSuccess
  <1>10. ASSUME NEW j \in Intent, NEW n \in Attempt, FinalizeIntentResult(j, n)
         PROVE  ClaimsSuccess(i)
      <2>1. UNCHANGED <<receipt, ledger>>
          BY <1>10 DEF FinalizeIntentResult
      <2>2. \A m \in Attempt : result'[i][m] \in Success
                                 => result[i][m] \in Success
          BY <1>10 DEF FinalizeIntentResult, IInv, TypeOK, Success
      <2>3. status'[i] \in Success
              => status[i] \in Success \/ (i = j /\ result[j][n] \in Success)
          <3>1. CASE status' = status
              BY <3>1
          <3>2. CASE /\ status'[j] = NextStatus(n, result[j][n])
                     /\ \A k \in Intent \ {j} : status'[k] = status[k]
              BY <1>10, <3>2, FinalizeStatus, NextStatusType
          <3> QED
              BY <1>10, <3>1, <3>2, FinalizeStatus
      <2> QED
          BY <2>1, <2>2, <2>3 DEF ClaimsSuccess
  <1> QED
      BY <1>2, <1>3, <1>4, <1>5, <1>6, <1>7, <1>8, <1>9, <1>10
         DEF Next, TaskStep

\* Whatever claims success, claims what was sent.
LEMMA SentStep == IInv /\ OutcomesWereSent /\ [Next]_vars => OutcomesWereSent'
  <1> SUFFICES ASSUME IInv, OutcomesWereSent, [Next]_vars,
                      NEW i \in Intent, ClaimsSuccess(i)'
               PROVE  sent'[i] # {}
      BY DEF OutcomesWereSent
  <1>1. CASE ClaimsSuccess(i)
      BY <1>1, SentGrows DEF OutcomesWereSent
  <1> QED
      BY <1>1, SuccessIsCopiedOrSent

\* A successful outcome is never made up: some attempt of that intent reached
\* the provider, whatever receipts, memory and crashes did since.
THEOREM SuccessSafety == Spec => []SuccessWasSent
  <1>1. Init => OutcomesWereSent
      BY DEF Init, OutcomesWereSent, ClaimsSuccess, Success
  <1>2. OutcomesWereSent => SuccessWasSent
      BY DEF OutcomesWereSent, ClaimsSuccess, SuccessWasSent
  <1> QED
      BY <1>1, <1>2, SentStep, InvariantIInv, PTL DEF Spec

-----------------------------------------------------------------------------
(* Resending.  Without idempotency the worker relies on two things: a row   *)
(* says PROVIDER_CALL_STARTED before anything is sent, and nobody else runs *)
(* when a later attempt looks at the rows.  The second is what an intent    *)
(* loses whose task outlives its lease (run worker_resend).                 *)

\* The task that runs is the one that holds the lease.
RunningHoldsLease ==
    \A i \in Punctual : \A n \in Attempt :
        pc[i][n] \notin Finished => HoldsLease(i, n) /\ ~elapsed[i]

SentAfterStart ==
    \A i \in Punctual : \A n \in Attempt :
        /\ n \in sent[i] => attempt[i][n] \in ProviderStatus
                                                \cup {"PROVIDER_CALL_STARTED"}
        /\ pc[i][n] \in {"none", "claimed", "dispatched"} => n \notin sent[i]
        /\ pc[i][n] \in {"started", "checking", "lookup", "sending"}
              => attempt[i][n] = "PROVIDER_CALL_STARTED"

\* An attempt that is about to send found no earlier one without an outcome.
NothingLeftOpen ==
    \A i \in Punctual : \A m, n \in Attempt :
        (Mode[i] # "GUARANTEED" /\ pc[i][n] \in {"lookup", "sending"} /\ m < n)
            => attempt[i][m] # "PROVIDER_CALL_STARTED"

NeverResent ==
    \A i \in Punctual : \A m, n \in sent[i] :
        (Mode[i] # "GUARANTEED" /\ m < n) => attempt[i][m] = "RETRYABLE_FAILURE"

PunctualInv ==
    /\ RunningHoldsLease
    /\ SentAfterStart
    /\ NothingLeftOpen
    /\ NeverResent

\* A step that touches none of these tables keeps what is said of them.
LEMMA PunctualUntouched ==
  ASSUME PunctualInv,
         UNCHANGED <<status, lease, elapsed, attempt, pc, sent>>
  PROVE  PunctualInv'
  BY DEF PunctualInv, RunningHoldsLease, SentAfterStart, NothingLeftOpen,
         NeverResent, HoldsLease

\* What a running task may do to its row, to the provider and to its place in
\* the program, and why nothing is sent twice by it.
LEMMA PunctualTaskMoves ==
  ASSUME IInv, PunctualInv, NEW i \in Intent, NEW n \in Attempt,
         NEW next \in PCs \ {"none"},
         pc[i][n] \notin Finished, GoTo(i, n, next),
         UNCHANGED <<status, lease, elapsed>>,
         NEW a \in {"DISPATCH_STARTED", "PROVIDER_CALL_STARTED"},
         \/ attempt' = attempt
         \/ /\ attempt' = [attempt EXCEPT ![i][n] = a]
            /\ pc[i][n] \in {"claimed", "dispatched"},
         \/ sent' = sent
         \/ /\ sent' = [sent EXCEPT ![i] = @ \cup {n}]
            /\ pc[i][n] = "sending"
            /\ attempt' = attempt
            /\ next = "persisting",
         next = "dispatched" => pc[i][n] = "claimed" /\ HoldsLease(i, n),
         next = "claimed" => FALSE,
         next = "started" => attempt' = [attempt EXCEPT ![i][n]
                                                = "PROVIDER_CALL_STARTED"],
         next \in {"checking", "lookup", "sending"}
            => /\ pc[i][n] \in {"started", "checking", "lookup"}
               /\ attempt' = attempt,
         next \in {"lookup", "sending"}
            => pc[i][n] = "lookup" \/ ~RecoveredAmbiguous(i, n)
  PROVE  PunctualInv'
  <1> USE DEF IInv, PunctualInv
  <1>1. \A j \in Intent, m \in Attempt :
          pc'[j][m] = IF j = i /\ m = n THEN next ELSE pc[j][m]
      BY GoToMoves
  <1>2. \A j \in Intent, m \in Attempt :
          (j # i \/ m # n) => attempt'[j][m] = attempt[j][m]
      BY DEF TypeOK
  <1>3. \/ attempt'[i][n] = attempt[i][n]
        \/ /\ attempt'[i][n] = a
           /\ pc[i][n] \in {"claimed", "dispatched"}
      BY DEF TypeOK
  <1>4. \A j \in Intent, m \in Attempt :
          \/ m \in sent'[j] <=> m \in sent[j]
          \/ j = i /\ m = n /\ pc[i][n] = "sending" /\ next = "persisting"
                /\ attempt' = attempt
      BY DEF TypeOK
  <1>5. RunningHoldsLease'
      BY <1>1, ConstantsAssumption
         DEF RunningHoldsLease, HoldsLease, ConstantsAssumption
  <1>6. ASSUME NEW j \in Punctual, NEW m \in Attempt
        PROVE  /\ m \in sent'[j] => attempt'[j][m] \in ProviderStatus
                                             \cup {"PROVIDER_CALL_STARTED"}
               /\ pc'[j][m] \in {"none", "claimed", "dispatched"}
                    => m \notin sent'[j]
               /\ pc'[j][m] \in {"started", "checking", "lookup", "sending"}
                    => attempt'[j][m] = "PROVIDER_CALL_STARTED"
      <2>0. j \in Intent
          BY ConstantsAssumption DEF ConstantsAssumption
      <2>1. CASE j # i \/ m # n
          BY <2>0, <2>1, <1>1, <1>2, <1>4 DEF SentAfterStart
      <2>2. CASE j = i /\ m = n
          <3>1. m \in sent'[j] => attempt'[j][m] \in ProviderStatus
                                             \cup {"PROVIDER_CALL_STARTED"}
              BY <2>0, <2>2, <1>3, <1>4 DEF SentAfterStart
          <3>2. pc'[j][m] \in {"none", "claimed", "dispatched"}
                    => m \notin sent'[j]
              BY <2>0, <2>2, <1>1, <1>4 DEF SentAfterStart
          <3>3. pc'[j][m] \in {"started", "checking", "lookup", "sending"}
                    => attempt'[j][m] = "PROVIDER_CALL_STARTED"
              BY <2>0, <2>2, <1>1 DEF SentAfterStart, TypeOK
          <3> QED
              BY <3>1, <3>2, <3>3
      <2> QED
          BY <2>1, <2>2
  <1>7. SentAfterStart'
      BY <1>6 DEF SentAfterStart
  <1>8. NothingLeftOpen'
      <2> SUFFICES ASSUME NEW j \in Punctual, NEW l \in Attempt,
                          NEW m \in Attempt,
                          Mode[j] # "GUARANTEED", l < m,
                          pc'[j][m] \in {"lookup", "sending"}
                   PROVE  attempt'[j][l] # "PROVIDER_CALL_STARTED"
          BY DEF NothingLeftOpen
      <2>0. j \in Intent
          BY ConstantsAssumption DEF ConstantsAssumption
      <2>1. CASE j # i
          BY <2>0, <2>1, <1>1, <1>2 DEF NothingLeftOpen
      <2>2. CASE j = i /\ m # n
          <3>1. HoldsLease(i, n) /\ HoldsLease(i, m)
              BY <2>0, <2>2, <1>1 DEF RunningHoldsLease, Finished
          <3> QED
              BY <2>2, <3>1 DEF HoldsLease
      <2>3. CASE j = i /\ m = n
          <3>1. l # n
              BY <2>3 DEF Attempt
          <3>2. attempt'[j][l] = attempt[j][l]
              BY <2>3, <3>1, <1>2
          <3>3. next \in {"lookup", "sending"}
              BY <2>3, <1>1
          <3> QED
              BY <2>3, <3>2, <3>3 DEF NothingLeftOpen, RecoveredAmbiguous
      <2> QED
          BY <2>1, <2>2, <2>3
  <1>9. NeverResent'
      <2> SUFFICES ASSUME NEW j \in Punctual,
                          NEW l \in sent'[j], NEW m \in sent'[j],
                          Mode[j] # "GUARANTEED", l < m
                   PROVE  attempt'[j][l] = "RETRYABLE_FAILURE"
          BY DEF NeverResent
      <2>0. /\ j \in Intent /\ l \in Attempt /\ m \in Attempt
            /\ attemptCount \in [Intent -> Nat]
            /\ Attempt \subseteq Nat
          <3>1. j \in Intent
              BY ConstantsAssumption DEF ConstantsAssumption
          <3>2. sent'[j] \subseteq Attempt
              <4>1. sent \in [Intent -> SUBSET Attempt]
                  BY DEF TypeOK
              <4>2. sent'[j] \subseteq sent[j] \cup {n}
                  BY <3>1, <4>1
              <4> QED
                  BY <3>1, <4>1, <4>2
          <3> QED
              BY <3>1, <3>2, Counting
      <2>1. CASE l \in sent[j] /\ m \in sent[j]
          <3>1. attempt[j][l] = "RETRYABLE_FAILURE"
              BY <2>1 DEF NeverResent
          <3>2. CASE j = i /\ l = n
              BY <3>1, <3>2 DEF TaskRowsUnsettled, Finished, Unsettled
          <3> QED
              BY <2>0, <3>1, <3>2, <1>2
      <2>2. CASE l \notin sent[j] \/ m \notin sent[j]
          <3>1. /\ j = i
                /\ pc[i][n] = "sending"
                /\ attempt' = attempt
                /\ l = n \/ m = n
                /\ l # n => l \in sent[i]
                /\ m # n => m \in sent[i]
              BY <2>0, <2>2, <1>4
          <3>2. n = attemptCount[i]
              BY <3>1 DEF RunningHoldsLease, Finished, HoldsLease,
                          LeaseIsNewestAttempt, Attempt
          <3>3. \A k \in Attempt : k \in sent[i] => k <= attemptCount[i]
              <4> SUFFICES ASSUME NEW k \in Attempt, k \in sent[i],
                                  k > attemptCount[i]
                           PROVE  FALSE
                  BY <2>0
              <4>1. attempt[i][k] = "none"
                  BY DEF HistoryAgreesWithIntent
              <4> QED
                  BY <3>1, <4>1 DEF SentAfterStart, ProviderStatus
          <3>4. m = n
              BY <2>0, <3>1, <3>2, <3>3
          <3>5. /\ l \in sent[i]
                /\ l < attemptCount[i]
              BY <2>0, <3>1, <3>2, <3>4
          <3>6. attempt[i][l] \in Unsettled \cup {"RETRYABLE_FAILURE"}
              BY <2>0, <3>5 DEF HistoryAgreesWithIntent
          <3>7. attempt[i][l] # "PROVIDER_CALL_STARTED"
              BY <2>0, <3>1, <3>4 DEF NothingLeftOpen
          <3>8. attempt[i][l] \in ProviderStatus \cup {"PROVIDER_CALL_STARTED"}
              BY <2>0, <3>1, <3>5 DEF SentAfterStart
          <3> QED
              BY <3>1, <3>6, <3>7, <3>8 DEF Unsettled, ProviderStatus
      <2> QED
          BY <2>1, <2>2
  <1> QED
      BY <1>5, <1>7, <1>8, <1>9

\* The steps of a task, the last one and the faults included.
LEMMA PunctualTaskStep ==
  ASSUME IInv, PunctualInv, NEW i \in Intent, NEW n \in Attempt,
         \/ TaskStep(i, n) /\ ~FinalizeIntentResult(i, n)
         \/ TaskThrows(i, n)
         \/ TaskCatches(i, n)
  PROVE  PunctualInv'
  <1>1. CASE MarkDispatchStarted(i, n)
      <2>1. PICK next \in {"dispatched", "done"} :
               /\ GoTo(i, n, next)
               /\ next = "dispatched" => HoldsLease(i, n)
          BY <1>1 DEF MarkDispatchStarted
      <2>2. /\ attempt' = [attempt EXCEPT ![i][n] = "DISPATCH_STARTED"]
            /\ sent' = sent
            /\ pc[i][n] = "claimed"
            /\ UNCHANGED <<status, lease, elapsed>>
          BY <1>1 DEF MarkDispatchStarted
      <2> QED
          BY <2>1, <2>2, PunctualTaskMoves DEF PCs, Finished
  <1>2. CASE MarkProviderCallStarted(i, n)
      <2>1. PICK next \in {"started"} : GoTo(i, n, next)
          BY <1>2 DEF MarkProviderCallStarted
      <2>2. /\ attempt' = [attempt EXCEPT ![i][n] = "PROVIDER_CALL_STARTED"]
            /\ sent' = sent
            /\ pc[i][n] = "dispatched"
            /\ UNCHANGED <<status, lease, elapsed>>
          BY <1>2 DEF MarkProviderCallStarted
      <2> QED
          BY <2>1, <2>2, PunctualTaskMoves DEF PCs, Finished
  <1>3. CASE RevalidateReminder(i, n)
      <2>1. PICK next \in {"checking", "suppressing"} : GoTo(i, n, next)
          BY <1>3 DEF RevalidateReminder
      <2>2. UNCHANGED <<status, lease, elapsed, attempt, sent>>
          BY <1>3 DEF RevalidateReminder, rows
      <2> QED
          BY <1>3, <2>1, <2>2, PunctualTaskMoves
             DEF RevalidateReminder, PCs, Finished
  <1>4. CASE \/ SuppressOccurrence(i, n) \/ PersistReceipt(i, n)
             \/ TaskThrows(i, n) \/ TaskCatches(i, n)
      <2>1. PICK next \in {"closing", "finalizing", "dead"} : GoTo(i, n, next)
          BY <1>4 DEF SuppressOccurrence, PersistReceipt, TaskThrows,
                      TaskCatches
      <2>2. /\ UNCHANGED <<status, lease, elapsed, attempt, sent>>
            /\ pc[i][n] \notin Finished
          BY <1>4 DEF SuppressOccurrence, PersistReceipt, TaskThrows,
                      TaskCatches, rows, Finished
      <2> QED
          BY <2>1, <2>2, PunctualTaskMoves DEF PCs
  <1>5. CASE CheckRecoveredAmbiguous(i, n)
      <2>1. PICK next \in {"finalizing", "lookup"} :
               /\ GoTo(i, n, next)
               /\ next = "lookup" => ~RecoveredAmbiguous(i, n)
          BY <1>5 DEF CheckRecoveredAmbiguous
      <2>2. /\ UNCHANGED <<status, lease, elapsed, attempt, sent>>
            /\ pc[i][n] = "checking"
          BY <1>5 DEF CheckRecoveredAmbiguous, rows
      <2> QED
          BY <2>1, <2>2, PunctualTaskMoves DEF PCs, Finished
  <1>6. CASE LookupReceipt(i, n)
      <2>1. PICK next \in {"persisting", "sending"} : GoTo(i, n, next)
          BY <1>6 DEF LookupReceipt
      <2>2. /\ UNCHANGED <<status, lease, elapsed, attempt, sent>>
            /\ pc[i][n] = "lookup"
          BY <1>6 DEF LookupReceipt, rows
      <2> QED
          BY <2>1, <2>2, PunctualTaskMoves DEF PCs, Finished
  <1>7. CASE SendToProvider(i, n)
      <2>1. PICK next \in {"persisting"} : GoTo(i, n, next)
          BY <1>7 DEF SendToProvider
      <2>2. /\ UNCHANGED <<status, lease, elapsed, attempt>>
            /\ sent' = sent \/ sent' = [sent EXCEPT ![i] = @ \cup {n}]
            /\ pc[i][n] = "sending"
          BY <1>7 DEF SendToProvider, rows
      <2> QED
          BY <2>1, <2>2, PunctualTaskMoves DEF PCs, Finished
  <1> QED
      BY <1>1, <1>2, <1>3, <1>4, <1>5, <1>6, <1>7 DEF TaskStep

\* Only a row that nobody works on is claimed: the earlier tasks of a punctual
\* intent have ended, and the new one starts from a row that was never used.
LEMMA PunctualClaim ==
  ASSUME IInv, PunctualInv, NEW w \in Worker, ClaimIntents(w)
  PROVE  PunctualInv'
  <1> USE DEF IInv, PunctualInv
  <1>1. PICK c \in ClaimCandidates :
            \/ Claimed(w, c)
            \/ UNCHANGED <<status, lease, elapsed, attempt, pc>>
      BY DEF ClaimIntents
  <1>2. sent' = sent
      BY DEF ClaimIntents
  <1>3. CASE UNCHANGED <<status, lease, elapsed, attempt, pc>>
      BY <1>2, <1>3, PunctualUntouched
  <1>4. CASE Claimed(w, c)
      <2>0. /\ attemptCount \in [Intent -> Nat]
            /\ Attempt \subseteq Nat
            /\ Punctual \subseteq Intent
          BY Counting, ConstantsAssumption DEF ConstantsAssumption
      <2>1. \A i \in c : i \in Intent /\ Claimable(i)
          BY DEF ClaimCandidates
      <2>2. \A i \in Punctual : \A n \in Attempt :
              i \in c => pc[i][n] \in Finished
          BY <2>0, <2>1 DEF RunningHoldsLease, HoldsLease, Claimable, Waiting
      <2>3. \A i \in Intent :
              /\ status'[i] = IF i \in c THEN "PROCESSING" ELSE status[i]
              /\ lease'[i] = IF i \in c THEN attemptCount[i] + 1 ELSE lease[i]
              /\ elapsed'[i] = IF i \in c THEN FALSE ELSE elapsed[i]
          BY <1>4 DEF Claimed
      <2>4. \A i \in Intent, n \in Attempt :
              LET new == i \in c /\ n = attemptCount[i] + 1 IN
              /\ attempt'[i][n] = IF new THEN "CLAIMED" ELSE attempt[i][n]
              /\ pc'[i][n] = IF new THEN "claimed" ELSE pc[i][n]
          BY <1>4 DEF Claimed
      <2>5. \A i \in Intent, n \in Attempt :
              n = attemptCount[i] + 1 => /\ pc[i][n] = "none"
                                         /\ attempt[i][n] = "none"
          BY <2>0 DEF TasksWereClaimed, HistoryAgreesWithIntent
      <2>6. RunningHoldsLease'
          <3> SUFFICES ASSUME NEW i \in Punctual, NEW n \in Attempt,
                              pc'[i][n] \notin Finished
                       PROVE  /\ status'[i] = "PROCESSING"
                              /\ lease'[i] = n
                              /\ elapsed'[i] = FALSE
              BY DEF RunningHoldsLease, HoldsLease
          <3>1. CASE i \in c
              BY <2>0, <2>2, <2>3, <2>4, <3>1
          <3>2. CASE i \notin c
              <4>1. pc[i][n] \notin Finished
                  BY <2>0, <2>4, <3>2
              <4>2. HoldsLease(i, n) /\ ~elapsed[i]
                  BY <4>1 DEF RunningHoldsLease
              <4>3. elapsed[i] = FALSE
                  BY <2>0, <4>2 DEF TypeOK
              <4> QED
                  BY <2>0, <2>3, <3>2, <4>2, <4>3 DEF HoldsLease
          <3> QED
              BY <3>1, <3>2
      <2>7. SentAfterStart'
          <3> SUFFICES ASSUME NEW i \in Punctual, NEW n \in Attempt
                       PROVE  /\ n \in sent[i] =>
                                   attempt'[i][n] \in ProviderStatus
                                     \cup {"PROVIDER_CALL_STARTED"}
                              /\ pc'[i][n] \in {"none", "claimed", "dispatched"}
                                   => n \notin sent[i]
                              /\ pc'[i][n] \in {"started", "checking",
                                                "lookup", "sending"}
                                   => attempt'[i][n] = "PROVIDER_CALL_STARTED"
              BY <1>2 DEF SentAfterStart
          <3>1. CASE i \in c /\ n = attemptCount[i] + 1
              BY <2>0, <2>4, <2>5, <3>1 DEF SentAfterStart
          <3>2. CASE ~(i \in c /\ n = attemptCount[i] + 1)
              BY <2>0, <2>4, <3>2 DEF SentAfterStart
          <3> QED
              BY <3>1, <3>2
      <2>8. NothingLeftOpen'
          BY <2>0, <2>4 DEF NothingLeftOpen
      <2>9. NeverResent'
          <3> SUFFICES ASSUME NEW i \in Punctual,
                              NEW m \in sent[i], NEW n \in sent[i],
                              Mode[i] # "GUARANTEED", m < n
                       PROVE  attempt'[i][m] = "RETRYABLE_FAILURE"
              BY <1>2 DEF NeverResent
          <3>1. attempt[i][m] = "RETRYABLE_FAILURE"
              BY DEF NeverResent
          <3>2. i \in Intent /\ m \in Attempt
              BY <2>0 DEF TypeOK
          <3> QED
              BY <2>4, <2>5, <3>1, <3>2
      <2> QED
          BY <2>6, <2>7, <2>8, <2>9
  <1> QED
      BY <1>1, <1>3, <1>4

\* The outcome goes into the row of the newest attempt, which no later one
\* that was sent looks back at.
LEMMA PunctualFinalize ==
  ASSUME IInv, PunctualInv, NEW i \in Intent, NEW n \in Attempt,
         FinalizeIntentResult(i, n)
  PROVE  PunctualInv'
  <1> USE DEF IInv, PunctualInv
  <1>0. /\ attemptCount \in [Intent -> Nat]
        /\ Attempt \subseteq Nat
        /\ Punctual \subseteq Intent
      BY Counting, ConstantsAssumption DEF ConstantsAssumption
  <1>1. \A j \in Intent, m \in Attempt :
          pc'[j][m] = IF j = i /\ m = n THEN "done" ELSE pc[j][m]
      BY GoToMoves DEF FinalizeIntentResult, PCs
  <1>2. /\ sent' = sent
        /\ pc[i][n] \in {"finalizing", "closing"}
      BY DEF FinalizeIntentResult
  <1>3. \A j \in Intent, m \in Attempt :
          (j # i \/ m # n) => attempt'[j][m] = attempt[j][m]
      BY DEF FinalizeIntentResult, FinalizeWrites, TypeOK
  <1>4. \/ attempt'[i][n] = attempt[i][n]
        \/ attempt'[i][n] \in ProviderStatus /\ n = attemptCount[i]
      BY FinalizeStatus DEF FinalizeWrites, TypeOK
  <1>5. RunningHoldsLease'
      <2> SUFFICES ASSUME NEW j \in Punctual, NEW m \in Attempt,
                          pc'[j][m] \notin Finished
                   PROVE  /\ status'[j] = "PROCESSING"
                          /\ lease'[j] = m
                          /\ elapsed'[j] = FALSE
          BY DEF RunningHoldsLease, HoldsLease
      <2>1. /\ j # i \/ m # n
            /\ pc[j][m] \notin Finished
          BY <1>0, <1>1 DEF Finished
      <2>2. HoldsLease(j, m) /\ ~elapsed[j]
          BY <2>1 DEF RunningHoldsLease
      <2>3. elapsed[j] = FALSE
          BY <1>0, <2>2 DEF TypeOK
      <2>4. CASE j # i
          BY <1>0, <2>2, <2>3, <2>4
             DEF FinalizeIntentResult, FinalizeWrites, HoldsLease, TypeOK
      <2>5. CASE j = i
          <3>1. ~HoldsLease(i, n)
              BY <2>1, <2>2, <2>5 DEF HoldsLease
          <3> QED
              BY <2>2, <2>3, <3>1 DEF FinalizeIntentResult, HoldsLease
      <2> QED
          BY <2>4, <2>5
  <1>6. SentAfterStart'
      <2> SUFFICES ASSUME NEW j \in Punctual, NEW m \in Attempt
                   PROVE  /\ m \in sent[j] =>
                               attempt'[j][m] \in ProviderStatus
                                 \cup {"PROVIDER_CALL_STARTED"}
                          /\ pc'[j][m] \in {"none", "claimed", "dispatched"}
                               => m \notin sent[j]
                          /\ pc'[j][m] \in {"started", "checking",
                                            "lookup", "sending"}
                               => attempt'[j][m] = "PROVIDER_CALL_STARTED"
          BY <1>2 DEF SentAfterStart
      <2>1. CASE j = i /\ m = n
          BY <1>1, <1>4, <2>1 DEF SentAfterStart
      <2>2. CASE j # i \/ m # n
          BY <1>0, <1>1, <1>3, <2>2 DEF SentAfterStart
      <2> QED
          BY <2>1, <2>2
  <1>7. NothingLeftOpen'
      <2> SUFFICES ASSUME NEW j \in Punctual, NEW l \in Attempt,
                          NEW m \in Attempt,
                          Mode[j] # "GUARANTEED", l < m,
                          pc'[j][m] \in {"lookup", "sending"}
                   PROVE  attempt'[j][l] # "PROVIDER_CALL_STARTED"
          BY DEF NothingLeftOpen
      <2>1. attempt[j][l] # "PROVIDER_CALL_STARTED"
          BY <1>0, <1>1 DEF NothingLeftOpen
      <2> QED
          BY <1>0, <1>3, <1>4, <2>1 DEF ProviderStatus
  <1>8. NeverResent'
      <2> SUFFICES ASSUME NEW j \in Punctual,
                          NEW l \in sent[j], NEW m \in sent[j],
                          Mode[j] # "GUARANTEED", l < m
                   PROVE  attempt'[j][l] = "RETRYABLE_FAILURE"
          BY <1>2 DEF NeverResent
      <2>1. attempt[j][l] = "RETRYABLE_FAILURE"
          BY DEF NeverResent
      <2>2. j \in Intent /\ l \in Attempt /\ m \in Attempt
          BY <1>0 DEF TypeOK
      <2>3. CASE j = i /\ l = n
          <3>1. attempt[i][n] \in Unsettled
              BY <1>2 DEF TaskRowsUnsettled
          <3> QED
              BY <2>1, <2>3, <3>1 DEF Unsettled
      <2> QED
          BY <1>3, <2>1, <2>2, <2>3
  <1> QED
      BY <1>5, <1>6, <1>7, <1>8

\* Time and crashes: a lease ends only after its task, and a crash ends tasks.
LEMMA PunctualTime ==
  ASSUME IInv, PunctualInv,
         (\E i \in Intent : DeadlinePasses(i)) \/ (\E w \in Worker : Crash(w))
  PROVE  PunctualInv'
  <1> USE DEF IInv, PunctualInv
  <1>0. Punctual \subseteq Intent
      BY ConstantsAssumption DEF ConstantsAssumption
  <1>1. CASE \E i \in Intent : DeadlinePasses(i)
      <2>1. PICK i \in Intent : DeadlinePasses(i)
          BY <1>1
      <2>2. /\ UNCHANGED <<status, lease, attempt, pc, sent>>
            /\ \A j \in Intent : j # i => elapsed'[j] = elapsed[j]
          BY <2>1 DEF DeadlinePasses, tasks, TypeOK
      <2>3. \A n \in Attempt : i \in Punctual => pc[i][n] \in Finished
          BY <2>1 DEF DeadlinePasses, RunningHoldsLease, HoldsLease
      <2>4. RunningHoldsLease'
          BY <1>0, <2>2, <2>3 DEF RunningHoldsLease, HoldsLease
      <2> QED
          BY <2>2, <2>4 DEF SentAfterStart, NothingLeftOpen, NeverResent
  <1>2. CASE \E w \in Worker : Crash(w)
      <2>1. /\ UNCHANGED <<status, lease, elapsed, attempt, sent>>
            /\ \A i \in Intent, n \in Attempt :
                  \/ pc'[i][n] = pc[i][n]
                  \/ pc'[i][n] = "dead"
          BY <1>2 DEF Crash, rows
      <2>2. RunningHoldsLease'
          BY <1>0, <2>1 DEF RunningHoldsLease, HoldsLease, Finished
      <2>3. SentAfterStart'
          BY <1>0, <2>1 DEF SentAfterStart
      <2>4. NothingLeftOpen'
          BY <1>0, <2>1 DEF NothingLeftOpen
      <2>5. NeverResent'
          BY <2>1 DEF NeverResent
      <2> QED
          BY <2>2, <2>3, <2>4, <2>5
  <1> QED
      BY <1>1, <1>2

\* Every step keeps the punctual intents from being resent.
LEMMA PunctualStep == IInv /\ PunctualInv /\ [Next]_vars => PunctualInv'
  <1> SUFFICES ASSUME IInv, PunctualInv, [Next]_vars
               PROVE  PunctualInv'
      OBVIOUS
  <1>1. CASE \/ \E i \in Intent : EmitEvent(i)
             \/ \E s \in Subscription : RevokeSubscription(s) \/ RegisterSubscription(s)
             \/ \E w \in Worker : FetchPending(w) \/ EndTick(w) \/ TickFails(w)
             \/ UNCHANGED vars
      <2>1. UNCHANGED <<status, lease, elapsed, attempt, pc, sent>>
          BY <1>1 DEF EmitEvent, RevokeSubscription, RegisterSubscription, FetchPending, EndTick,
                      TickFails, vars, rows, tasks
      <2> QED
          BY <2>1, PunctualUntouched
  <1>2. CASE \E w \in Worker, i \in Intent : ProjectEvent(w, i)
      <2>1. PICK w \in Worker, i \in Intent : ProjectEvent(w, i)
          BY <1>2
      <2>2. /\ UNCHANGED <<lease, elapsed, attempt, pc, sent>>
            /\ \A j \in Intent :
                  status[j] = "PROCESSING" => status'[j] = "PROCESSING"
          BY <2>1 DEF ProjectEvent, tasks, IInv, TypeOK
      <2> QED
          BY <2>2, ConstantsAssumption
             DEF PunctualInv, RunningHoldsLease, HoldsLease, SentAfterStart,
                 NothingLeftOpen, NeverResent, ConstantsAssumption
  <1> QED
      BY <1>1, <1>2, PunctualTime, PunctualClaim, PunctualFinalize,
         PunctualTaskStep DEF Next

\* With a provider that cannot deduplicate, a second attempt reaches it only
\* after the first was refused with a retryable failure, for any number of
\* workers and crashes, as long as no task outlives its lease.
THEOREM ResendSafety ==
  ASSUME Punctual = Intent
  PROVE  Spec => []NoResendAfterUnknown
  <1>1. Init => PunctualInv
      BY ConstantsAssumption
         DEF Init, PunctualInv, RunningHoldsLease, SentAfterStart,
             NothingLeftOpen, NeverResent, Finished, ConstantsAssumption
  <1>2. PunctualInv => NoResendAfterUnknown
      BY DEF PunctualInv, NeverResent, NoResendAfterUnknown
  <1> QED
      BY <1>1, <1>2, PunctualStep, InvariantIInv, PTL DEF Spec

-----------------------------------------------------------------------------
(* Suppression.  The occurrence is closed in a transaction of its own, so   *)
(* it may be closed while its intent ends otherwise (run                    *)
(* worker_suppression); the converse cannot happen.                         *)

\* Somewhere it is written that intent i was suppressed.
ClaimsSuppression(i) ==
    \/ status[i] = "SUPPRESSED"
    \/ receipt[i] = "SUPPRESSED"
    \/ \E n \in Attempt : result[i][n] = "SUPPRESSED"
    \/ \E w \in Worker : ledger[w][i] = "SUPPRESSED"

Closed(i) == i \in Reminder /\ occurrence[i] \in {"SUPPRESSED", "EXPIRED"}

SuppressionsAreClosed == \A i \in Intent : ClaimsSuppression(i) => Closed(i)

RemindersOnly ==
    \A i \in Intent, n \in Attempt : pc[i][n] = "suppressing" => i \in Reminder

\* A closed occurrence stays closed.
LEMMA ClosedStays ==
  ASSUME IInv, [Next]_vars, NEW i \in Intent, Closed(i)
  PROVE  Closed(i)'
  <1>1. CASE occurrence' = occurrence
      BY <1>1 DEF Closed
  <1>2. CASE \E w \in Worker, j \in Intent : ProjectEvent(w, j)
      BY <1>2 DEF ProjectEvent, LinksOccurrence, IInv, TypeOK, Closed
  <1>3. CASE \E j \in Intent, n \in Attempt : SuppressOccurrence(j, n)
      BY <1>3 DEF SuppressOccurrence, IInv, TypeOK, Closed
  <1> QED
      BY <1>1, <1>2, <1>3, OccurrenceWriters

\* Only the revalidation of a reminder leads to a suppression.
LEMMA RemindersOnlyStep == IInv /\ RemindersOnly /\ [Next]_vars => RemindersOnly'
  <1> SUFFICES ASSUME IInv, RemindersOnly, [Next]_vars,
                      NEW i \in Intent, NEW n \in Attempt,
                      pc'[i][n] = "suppressing"
               PROVE  i \in Reminder
      BY DEF RemindersOnly
  <1>1. CASE pc'[i][n] = pc[i][n]
      BY <1>1 DEF RemindersOnly
  <1>2. CASE \/ \E j \in Intent : EmitEvent(j) \/ DeadlinePasses(j)
             \/ \E s \in Subscription : RevokeSubscription(s) \/ RegisterSubscription(s)
             \/ \E w \in Worker : \/ FetchPending(w) \/ EndTick(w) \/ TickFails(w)
                                 \/ \E j \in Intent : ProjectEvent(w, j)
             \/ UNCHANGED vars
      BY <1>1, <1>2 DEF EmitEvent, DeadlinePasses, RevokeSubscription, RegisterSubscription,
                        FetchPending, EndTick, TickFails, ProjectEvent, vars, tasks
  <1>3. ASSUME NEW w \in Worker, ClaimIntents(w) \/ Crash(w)
        PROVE  i \in Reminder
      <2>1. pc'[i][n] \in {pc[i][n], "claimed", "dead"}
          <3>1. CASE Crash(w)
              BY <3>1 DEF Crash
          <3>2. CASE \E c \in ClaimCandidates : Claimed(w, c)
              BY <3>2 DEF Claimed
          <3>3. CASE pc' = pc
              BY <3>3
          <3> QED
              BY <1>3, <3>1, <3>2, <3>3 DEF ClaimIntents
      <2> QED
          BY <1>1, <2>1
  <1>4. ASSUME NEW j \in Intent, NEW m \in Attempt,
               TaskStep(j, m) \/ TaskThrows(j, m) \/ TaskCatches(j, m)
        PROVE  i \in Reminder
      <2>1. \/ j \in Reminder /\ GoTo(j, m, "suppressing")
            \/ \E next \in PCs \ {"suppressing"} : GoTo(j, m, next)
          BY <1>4 DEF TaskStep, MarkDispatchStarted, MarkProviderCallStarted,
                      RevalidateReminder, SuppressOccurrence,
                      CheckRecoveredAmbiguous, LookupReceipt, SendToProvider,
                      PersistReceipt, FinalizeIntentResult, TaskThrows,
                      TaskCatches, PCs
      <2>2. CASE j \in Reminder /\ GoTo(j, m, "suppressing")
          <3>1. pc'[i][n] = IF i = j /\ n = m THEN "suppressing" ELSE pc[i][n]
              BY <2>2, GoToMoves DEF IInv, PCs
          <3> QED
              BY <1>1, <2>2, <3>1
      <2>3. ASSUME NEW next \in PCs \ {"suppressing"}, GoTo(j, m, next)
            PROVE  i \in Reminder
          <3>1. pc'[i][n] = IF i = j /\ n = m THEN next ELSE pc[i][n]
              BY <2>3, GoToMoves DEF IInv
          <3> QED
              BY <1>1, <3>1
      <2> QED
          BY <2>1, <2>2, <2>3
  <1> QED
      BY <1>1, <1>2, <1>3, <1>4 DEF Next

\* A task that notes a result other than a suppression claims none.
LEMMA NoteOther ==
  ASSUME IInv, NEW i \in Intent, NEW j \in Intent, NEW n \in Attempt,
         NEW v \in (ProviderStatus \cup {"none"}) \ {"SUPPRESSED"},
         result' = [result EXCEPT ![j][n] = v],
         UNCHANGED <<status, receipt, ledger>>, ClaimsSuppression(i)'
  PROVE  ClaimsSuppression(i)
  <1>1. \A m \in Attempt :
          result'[i][m] = IF i = j /\ m = n THEN v ELSE result[i][m]
      BY ResultNoted DEF IInv
  <1> QED
      BY <1>1 DEF ClaimsSuppression

\* What a task does to these claims, unless it suppresses the occurrence.
LEMMA TaskCopiesSuppression ==
  ASSUME IInv, NEW i \in Intent, NEW j \in Intent, NEW n \in Attempt,
         TaskStep(j, n) \/ TaskThrows(j, n) \/ TaskCatches(j, n),
         ClaimsSuppression(i)'
  PROVE  ClaimsSuppression(i) \/ SuppressOccurrence(j, n)
  <1>1. CASE UNCHANGED <<status, receipt, result, ledger>>
      BY <1>1 DEF ClaimsSuppression
  <1>2. CASE MarkDispatchStarted(j, n) \/ MarkProviderCallStarted(j, n)
               \/ RevalidateReminder(j, n) \/ TaskThrows(j, n)
      BY <1>1, <1>2 DEF MarkDispatchStarted, MarkProviderCallStarted,
                        RevalidateReminder, TaskThrows, rows
  <1>3. CASE CheckRecoveredAmbiguous(j, n) \/ TaskCatches(j, n)
      <2>1. UNCHANGED <<status, receipt, ledger>>
          BY <1>3 DEF CheckRecoveredAmbiguous, TaskCatches, rows
      <2>2. \/ result' = result
            \/ \E v \in (ProviderStatus \cup {"none"}) \ {"SUPPRESSED"} :
                 result' = [result EXCEPT ![j][n] = v]
          BY <1>3 DEF CheckRecoveredAmbiguous, TaskCatches, MapThrown,
                      ProviderStatus
      <2> QED
          BY <1>1, <2>1, <2>2, NoteOther
  <1>4. CASE LookupReceipt(j, n)
      <2>1. UNCHANGED <<status, receipt, ledger>>
          BY <1>4 DEF LookupReceipt, rows
      <2>2. /\ owner[j][n] \in Worker
            /\ ledger[owner[j][n]][j] \in ProviderStatus \cup {"none"}
            /\ receipt[j] \in ProviderStatus \cup {"none"}
          BY <1>4 DEF LookupReceipt, IInv, TasksHaveOwner, TypeOK
      <2>3. \/ result' = result
            \/ result' = [result EXCEPT ![j][n] = receipt[j]]
            \/ result' = [result EXCEPT ![j][n] = ledger[owner[j][n]][j]]
          BY <1>4 DEF LookupReceipt
      <2>4. ASSUME NEW v \in ProviderStatus \cup {"none"},
                   result' = [result EXCEPT ![j][n] = v],
                   v = "SUPPRESSED" => ClaimsSuppression(j)
            PROVE  ClaimsSuppression(i)
          <3>1. \A m \in Attempt :
                  result'[i][m] = IF i = j /\ m = n THEN v ELSE result[i][m]
              BY <2>4, ResultNoted DEF IInv
          <3> QED
              BY <2>1, <2>4, <3>1 DEF ClaimsSuppression
      <2>5. /\ receipt[j] = "SUPPRESSED" => ClaimsSuppression(j)
            /\ ledger[owner[j][n]][j] = "SUPPRESSED" => ClaimsSuppression(j)
          BY <2>2 DEF ClaimsSuppression
      <2> QED
          BY <1>1, <2>1, <2>2, <2>3, <2>4, <2>5
  <1>5. CASE SendToProvider(j, n)
      <2>1. UNCHANGED <<status, receipt>>
          BY <1>5 DEF SendToProvider, rows
      <2>2. Outcome[j] \in (ProviderStatus \cup {"none"}) \ {"SUPPRESSED"}
          BY ConstantsAssumption DEF ConstantsAssumption
      <2>3. PICK v \in (ProviderStatus \cup {"none"}) \ {"SUPPRESSED"} :
              result' = [result EXCEPT ![j][n] = v]
          BY <1>5, <2>2 DEF SendToProvider, ProviderStatus
      <2>4. \A m \in Attempt :
              result'[i][m] = IF i = j /\ m = n THEN v ELSE result[i][m]
          BY <2>3, ResultNoted DEF IInv
      <2>5. \A w \in Worker : ledger'[w][i] = "SUPPRESSED"
                                => ledger[w][i] = "SUPPRESSED"
          <3>1. ledger \in [Worker -> [Intent -> ProviderStatus \cup {"none"}]]
              BY DEF IInv, TypeOK
          <3>2. \/ ledger' = ledger
                \/ ledger' = [ledger EXCEPT ![owner[j][n]][j] = Outcome[j]]
              BY <1>5 DEF SendToProvider
          <3> QED
              BY <2>2, <3>1, <3>2
      <2> QED
          BY <2>1, <2>4, <2>5 DEF ClaimsSuppression
  <1>6. CASE PersistReceipt(j, n)
      <2>1. UNCHANGED <<status, result, ledger>>
          BY <1>6 DEF PersistReceipt
      <2>2. receipt'[i] \in {receipt[i], result[i][n]}
          BY <1>6 DEF PersistReceipt, IInv, TypeOK
      <2> QED
          BY <2>1, <2>2 DEF ClaimsSuppression
  <1>7. CASE FinalizeIntentResult(j, n)
      <2>1. UNCHANGED <<receipt, ledger>>
          BY <1>7 DEF FinalizeIntentResult
      <2>2. \A m \in Attempt : result'[i][m] = "SUPPRESSED"
                                 => result[i][m] = "SUPPRESSED"
          BY <1>7 DEF FinalizeIntentResult, IInv, TypeOK
      <2>3. status'[i] = "SUPPRESSED"
              => \/ status[i] = "SUPPRESSED"
                 \/ i = j /\ result[j][n] = "SUPPRESSED"
          BY <1>7, FinalizeStatus DEF NextStatus
      <2> QED
          BY <2>1, <2>2, <2>3 DEF ClaimsSuppression
  <1> QED
      BY <1>2, <1>3, <1>4, <1>5, <1>6, <1>7 DEF TaskStep

\* Whoever claims a suppression, the occurrence is closed already.
LEMMA SuppressionStep ==
  IInv /\ RemindersOnly /\ SuppressionsAreClosed /\ [Next]_vars
    => SuppressionsAreClosed'
  <1> SUFFICES ASSUME IInv, RemindersOnly, SuppressionsAreClosed, [Next]_vars,
                      NEW i \in Intent, ClaimsSuppression(i)'
               PROVE  Closed(i)'
      BY DEF SuppressionsAreClosed
  <1>1. CASE ClaimsSuppression(i)
      BY <1>1, ClosedStays DEF SuppressionsAreClosed
  <1>2. CASE UNCHANGED <<status, receipt, result, ledger>>
      BY <1>1, <1>2 DEF ClaimsSuppression
  <1>3. CASE \/ \E j \in Intent : EmitEvent(j) \/ DeadlinePasses(j)
             \/ \E s \in Subscription : RevokeSubscription(s) \/ RegisterSubscription(s)
             \/ \E w \in Worker : FetchPending(w) \/ EndTick(w) \/ TickFails(w)
             \/ UNCHANGED vars
      BY <1>2, <1>3 DEF EmitEvent, DeadlinePasses, RevokeSubscription, RegisterSubscription,
                        FetchPending, EndTick, TickFails, vars, rows, tasks
  <1>4. ASSUME NEW w \in Worker, ClaimIntents(w) \/ \E j \in Intent : ProjectEvent(w, j)
        PROVE  ClaimsSuppression(i)
      <2>1. UNCHANGED <<receipt, result, ledger>>
          BY <1>4 DEF ClaimIntents, ProjectEvent, tasks
      <2>2. status'[i] \in {status[i], "PROCESSING", "QUEUED"}
          <3>1. CASE status' = status
              BY <3>1
          <3>2. CASE \E c \in ClaimCandidates : Claimed(w, c)
              BY <3>2 DEF Claimed
          <3>3. CASE \E j \in Intent : status' = [status EXCEPT ![j] = "QUEUED"]
              BY <3>3 DEF IInv, TypeOK
          <3> QED
              BY <1>4, <3>1, <3>2, <3>3 DEF ClaimIntents, ProjectEvent
      <2> QED
          BY <2>1, <2>2 DEF ClaimsSuppression
  <1>5. ASSUME NEW w \in Worker, Crash(w)
        PROVE  ClaimsSuppression(i)
      <2>1. UNCHANGED <<status, receipt, result>>
          BY <1>5 DEF Crash, rows
      <2>2. \A v \in Worker : ledger'[v][i] = "SUPPRESSED"
                                => ledger[v][i] = "SUPPRESSED"
          BY <1>5 DEF Crash, IInv, TypeOK
      <2> QED
          BY <2>1, <2>2 DEF ClaimsSuppression
  <1>6. ASSUME NEW j \in Intent, NEW n \in Attempt,
               TaskStep(j, n) \/ TaskThrows(j, n) \/ TaskCatches(j, n)
        PROVE  Closed(i)'
      <2>1. CASE SuppressOccurrence(j, n) /\ i = j
          <3>1. i \in Reminder
              BY <2>1 DEF SuppressOccurrence, RemindersOnly
          <3> QED
              BY <2>1, <3>1 DEF SuppressOccurrence, Closed, IInv, TypeOK
      <2>2. CASE SuppressOccurrence(j, n) /\ i # j
          <3>1. /\ UNCHANGED <<status, receipt, ledger>>
                /\ result'[i] = result[i]
              BY <2>2 DEF SuppressOccurrence, IInv, TypeOK
          <3> QED
              BY <1>1, <3>1 DEF ClaimsSuppression
      <2> QED
          BY <1>1, <1>6, <2>1, <2>2, TaskCopiesSuppression
  <1> QED
      BY <1>1, <1>3, <1>4, <1>5, <1>6 DEF Next

\* Whoever reads an intent is never told of a suppression that the reminder's
\* own row does not know.
THEOREM ClosedSafety == Spec => []SuppressedIsClosed
  <1>1. Init => RemindersOnly /\ SuppressionsAreClosed
      BY DEF Init, RemindersOnly, SuppressionsAreClosed, ClaimsSuppression
  <1>2. SuppressionsAreClosed => SuppressedIsClosed
      BY DEF SuppressionsAreClosed, ClaimsSuppression, SuppressedIsClosed, Closed
  <1> QED
      BY <1>1, <1>2, SuppressionStep, RemindersOnlyStep, InvariantIInv, PTL DEF Spec

-----------------------------------------------------------------------------
(* Exhausted attempts.  What stops the queue (run worker_wedge), stops it   *)
(* for good; and nothing else stops a claim.                                *)

\* The last attempt has outlived its lease, and its task will not finish it.
Wedged(i) == Exhausted(i) /\ pc[i][MaxAttempts] \in Finished

Due == {i \in Intent : Claimable(i)}

\* A claim takes every due row when they fit in a batch.
LEMMA ClaimsAllDue ==
  ASSUME IsFiniteSet(Intent), Cardinality(Due) <= BatchSize,
         NEW c \in ClaimCandidates
  PROVE  c = Due
  <1>1. IsFiniteSet(Due)
      BY FS_Subset DEF Due
  <1>2. Cardinality(Due) \in Nat
      BY <1>1, FS_CardinalityType
  <1>3. c \subseteq Due /\ Cardinality(c) = Cardinality(Due)
      BY <1>2, ConstantsAssumption DEF ClaimCandidates, Due, ConstantsAssumption
  <1> QED
      BY <1>1, <1>3, FS_Subset

\* A claim that includes an exhausted row commits nothing.
LEMMA ExhaustedAborts ==
  ASSUME IInv, NEW c \in ClaimCandidates, NEW i \in c, Exhausted(i)
  PROVE  ~AttemptsWithinMax(c)
  <1>1. MaxAttempts \in Nat
      BY ConstantsAssumption DEF ConstantsAssumption
  <1> QED
      BY <1>1 DEF AttemptsWithinMax, Exhausted

\* Only a claim creates attempts.
LEMMA AttemptWriters ==
  ASSUME [Next]_vars
  PROVE  attemptCount' = attemptCount \/ \E w \in Worker : ClaimIntents(w)
  <1>1. ASSUME NEW i \in Intent, NEW n \in Attempt,
               TaskStep(i, n) \/ TaskThrows(i, n) \/ TaskCatches(i, n)
        PROVE  attemptCount' = attemptCount
      BY <1>1 DEF TaskStep, MarkDispatchStarted, MarkProviderCallStarted,
                  RevalidateReminder, SuppressOccurrence,
                  CheckRecoveredAmbiguous, LookupReceipt, SendToProvider,
                  PersistReceipt, FinalizeIntentResult, TaskThrows,
                  TaskCatches, rows
  <1> QED
      BY <1>1 DEF Next, EmitEvent, DeadlinePasses, RevokeSubscription, RegisterSubscription,
                  FetchPending, EndTick, TickFails, Crash, ProjectEvent, vars, rows

\* A wedged row stays, and no claim that has to take it commits.
LEMMA WedgedStep ==
  ASSUME IInv, [Next]_vars, NEW i \in Intent, Wedged(i)
  PROVE  Wedged(i)'
  <1>1. /\ status[i] = "PROCESSING" /\ elapsed[i]
        /\ attemptCount[i] = MaxAttempts /\ lease[i] = MaxAttempts
        /\ MaxAttempts \in Attempt /\ pc[i][MaxAttempts] \in Finished
      BY ConstantsAssumption
         DEF Wedged, Exhausted, IInv, LeaseIsNewestAttempt, Attempt,
             ConstantsAssumption
  <1>2. CASE UNCHANGED <<status, elapsed, attemptCount, pc>>
      BY <1>2 DEF Wedged, Exhausted
  <1>3. CASE \/ \E j \in Intent : EmitEvent(j)
             \/ \E s \in Subscription : RevokeSubscription(s) \/ RegisterSubscription(s)
             \/ \E w \in Worker : FetchPending(w) \/ EndTick(w) \/ TickFails(w)
             \/ UNCHANGED vars
      BY <1>2, <1>3 DEF EmitEvent, RevokeSubscription, RegisterSubscription, FetchPending, EndTick,
                        TickFails, vars, rows, tasks
  <1>4. CASE \E j \in Intent : DeadlinePasses(j)
      BY <1>1, <1>4 DEF DeadlinePasses, tasks, Wedged, Exhausted, IInv, TypeOK
  <1>5. CASE \E w \in Worker, j \in Intent : ProjectEvent(w, j)
      BY <1>1, <1>5 DEF ProjectEvent, tasks, Wedged, Exhausted, IInv, TypeOK
  <1>6. ASSUME NEW w \in Worker, ClaimIntents(w)
        PROVE  Wedged(i)'
      <2>1. PICK c \in ClaimCandidates :
              \/ AttemptsWithinMax(c) /\ Claimed(w, c)
              \/ UNCHANGED <<status, attemptCount, elapsed, pc>>
          BY <1>6 DEF ClaimIntents
      <2>2. CASE AttemptsWithinMax(c) /\ Claimed(w, c)
          <3>1. i \notin c
              BY <2>2, ExhaustedAborts DEF Wedged
          <3> QED
              BY <1>1, <2>2, <3>1 DEF Claimed, Wedged, Exhausted
      <2> QED
          BY <1>2, <2>1, <2>2
  <1>7. ASSUME NEW w \in Worker, Crash(w)
        PROVE  Wedged(i)'
      BY <1>1, <1>7 DEF Crash, rows, Wedged, Exhausted
  <1>8. ASSUME NEW j \in Intent, NEW n \in Attempt,
               TaskStep(j, n) \/ TaskThrows(j, n) \/ TaskCatches(j, n)
        PROVE  Wedged(i)'
      <2>1. pc[j][n] \notin Finished
          BY <1>8 DEF TaskStep, MarkDispatchStarted, MarkProviderCallStarted,
                      RevalidateReminder, SuppressOccurrence,
                      CheckRecoveredAmbiguous, LookupReceipt, SendToProvider,
                      PersistReceipt, FinalizeIntentResult, TaskThrows,
                      TaskCatches, Finished
      <2>2. PICK next \in PCs : GoTo(j, n, next)
          BY <1>8 DEF TaskStep, MarkDispatchStarted, MarkProviderCallStarted,
                      RevalidateReminder, SuppressOccurrence,
                      CheckRecoveredAmbiguous, LookupReceipt, SendToProvider,
                      PersistReceipt, FinalizeIntentResult, TaskThrows,
                      TaskCatches, GoTo, PCs
      <2>3. pc'[i][MaxAttempts] = pc[i][MaxAttempts]
          BY <1>1, <2>1, <2>2, GoToMoves DEF IInv
      <2>4. attemptCount' = attemptCount
          BY <1>8 DEF TaskStep, MarkDispatchStarted, MarkProviderCallStarted,
                      RevalidateReminder, SuppressOccurrence,
                      CheckRecoveredAmbiguous, LookupReceipt, SendToProvider,
                      PersistReceipt, FinalizeIntentResult, TaskThrows,
                      TaskCatches, rows
      <2>5. status'[i] = status[i] /\ elapsed'[i] = elapsed[i]
          <3>1. CASE UNCHANGED <<status, elapsed>>
              BY <3>1
          <3>2. CASE FinalizeIntentResult(j, n) /\ HoldsLease(j, n)
                       /\ FinalizeWrites(j, n, result[j][n])
              <4>1. j # i
                  BY <1>1, <2>1, <3>2 DEF HoldsLease
              <4> QED
                  BY <3>2, <4>1 DEF FinalizeWrites, IInv, TypeOK
          <3> QED
              BY <1>8, <3>1, <3>2
                 DEF TaskStep, MarkDispatchStarted, MarkProviderCallStarted,
                     RevalidateReminder, SuppressOccurrence,
                     CheckRecoveredAmbiguous, LookupReceipt, SendToProvider,
                     PersistReceipt, FinalizeIntentResult, TaskThrows,
                     TaskCatches, rows
      <2> QED
          BY <1>1, <2>3, <2>4, <2>5 DEF Wedged, Exhausted
  <1> QED
      BY <1>3, <1>4, <1>5, <1>6, <1>7, <1>8 DEF Next

\* A row whose last attempt died with its lease is never settled or retried by
\* anyone, and while the due rows fit in a batch nobody gets anything claimed:
\* the whole queue waits behind it (claimIntents, without a guard on attempts).
WedgeStopsTheQueue ==
    [][\A i \in Intent : Wedged(i) =>
         /\ Wedged(i)'
         /\ Cardinality(Due) <= BatchSize => attemptCount' = attemptCount]_vars

\* An exhausted lease is never given up, and the due intents behind it are not
\* claimed while they fit in one batch with it (claimNotificationIntents).
THEOREM WedgeIsFinal ==
  ASSUME IsFiniteSet(Intent)
  PROVE  Spec => WedgeStopsTheQueue
  <1>1. ASSUME IInv, [Next]_vars, NEW i \in Intent, Wedged(i),
               Cardinality(Due) <= BatchSize
        PROVE  attemptCount' = attemptCount
      <2>1. ASSUME NEW w \in Worker, ClaimIntents(w)
            PROVE  attemptCount' = attemptCount
          <3>1. \A c \in ClaimCandidates : c = Due
              BY <1>1, ClaimsAllDue
          <3>2. i \in Due
              BY <1>1 DEF Wedged, Exhausted, Due, Claimable
          <3>3. \A c \in ClaimCandidates : ~AttemptsWithinMax(c)
              BY <1>1, <3>1, <3>2, ExhaustedAborts DEF Wedged
          <3> QED
              BY <2>1, <3>3 DEF ClaimIntents
      <2> QED
          BY <1>1, <2>1, AttemptWriters
  <1>2. IInv /\ [Next]_vars =>
          [\A i \in Intent : Wedged(i) =>
             /\ Wedged(i)'
             /\ Cardinality(Due) <= BatchSize => attemptCount' = attemptCount]_vars
      BY <1>1, WedgedStep
  <1> QED
      BY <1>2, InvariantIInv, PTL DEF Spec, WedgeStopsTheQueue

\* Nothing but an exhausted row makes the database refuse a claim.
OnlyExhaustedBlock ==
    \A c \in ClaimCandidates : AttemptsWithinMax(c) \/ \E i \in c : Exhausted(i)

\* The CHECK constraint on attempts refuses no claim without such a row
\* (claimNotificationIntents).
THEOREM ClaimSafety == Spec => []OnlyExhaustedBlock
  <1>1. IInv => OnlyExhaustedBlock
      <2> SUFFICES ASSUME IInv, NEW c \in ClaimCandidates, NEW i \in c,
                          ~Exhausted(i)
                   PROVE  attemptCount[i] + 1 <= MaxAttempts
          BY DEF OnlyExhaustedBlock, AttemptsWithinMax
      <2>1. i \in Intent /\ Claimable(i)
          BY DEF ClaimCandidates
      <2>2. attemptCount[i] \in 0 .. MaxAttempts /\ MaxAttempts \in Nat
          BY <2>1, ConstantsAssumption DEF IInv, TypeOK, ConstantsAssumption
      <2> QED
          BY <2>1, <2>2 DEF Claimable, Waiting, Exhausted
  <1> QED
      BY <1>1, InvariantIInv, PTL

-----------------------------------------------------------------------------
(* The refinement.  Created and Log are what the rows show of the lifecycle *)
(* (the substitution of the instance Lifecycle).                            *)

Created == {i \in Intent : status[i] # "absent"}

Log == [i \in Intent |-> [n \in 1 .. attemptCount[i] |-> LogEntry(i, n)]]

\* The log of an intent is a sequence with one entry per attempt.
LEMMA LogShape ==
  ASSUME TypeOK, NEW i \in Intent
  PROVE  /\ Log[i] \in Seq(ProviderStatus \cup {"open"})
         /\ Len(Log[i]) = attemptCount[i]
         /\ attemptCount[i] \in Nat
         /\ 1 .. attemptCount[i] \subseteq Attempt
         /\ \A n \in 1 .. attemptCount[i] : Log[i][n] = LogEntry(i, n)
  <1>1. attemptCount[i] \in Nat /\ attemptCount[i] <= MaxAttempts
      BY ConstantsAssumption DEF TypeOK, ConstantsAssumption
  <1>2. 1 .. attemptCount[i] \subseteq Attempt
      BY <1>1, ConstantsAssumption DEF Attempt, ConstantsAssumption
  <1>3. Log[i] = [n \in 1 .. attemptCount[i] |-> LogEntry(i, n)]
      BY DEF Log
  <1>4. \A n \in 1 .. attemptCount[i] :
          LogEntry(i, n) \in ProviderStatus \cup {"open"}
      BY DEF LogEntry
  <1>5. Log[i] \in [1 .. attemptCount[i] -> ProviderStatus \cup {"open"}]
      BY <1>3, <1>4
  <1>6. Log[i] \in Seq(ProviderStatus \cup {"open"}) /\ Len(Log[i]) = attemptCount[i]
      BY <1>1, <1>5
  <1> QED
      BY <1>1, <1>2, <1>3, <1>6

\* The lifecycle reads the status of a started, unsettled intent off its log.
LEMMA LogStatus ==
  ASSUME IInv, NEW i \in Intent
  PROVE  /\ status[i] = "QUEUED" => Lifecycle!StatusOf(Log[i]) = "QUEUED"
         /\ status[i] = "PROCESSING"
              => /\ Lifecycle!StatusOf(Log[i]) = "PROCESSING"
                 /\ attemptCount[i] \in Attempt
         /\ status[i] = "FAILED_RETRYABLE"
              => Lifecycle!StatusOf(Log[i]) \in {"QUEUED", "FAILED_RETRYABLE"}
  <1> USE DEF IInv
  <1>1. /\ Log[i] \in Seq(ProviderStatus \cup {"open"})
        /\ Len(Log[i]) = attemptCount[i]
        /\ attemptCount[i] \in Nat
        /\ 1 .. attemptCount[i] \subseteq Attempt
        /\ \A n \in 1 .. attemptCount[i] : Log[i][n] = LogEntry(i, n)
      BY LogShape
  <1>2. attemptCount[i] = 0 => Lifecycle!StatusOf(Log[i]) = "QUEUED"
      BY <1>1, EmptySeq DEF Lifecycle!StatusOf
  <1>3. attemptCount[i] # 0
          => /\ Log[i] # <<>>
             /\ attemptCount[i] \in Attempt
             /\ Lifecycle!Newest(Log[i]) = LogEntry(i, attemptCount[i])
      BY <1>1, EmptySeq DEF Lifecycle!Newest
  <1>4. CASE status[i] = "QUEUED"
      BY <1>2, <1>4 DEF UnclaimedHasNoAttempts
  <1>5. CASE status[i] = "PROCESSING"
      <2>1. attemptCount[i] # 0
          BY <1>5 DEF LeaseIsNewestAttempt
      <2>2. LogEntry(i, attemptCount[i]) = "open"
          BY <1>3, <1>5, <2>1
             DEF HistoryAgreesWithIntent, LogEntry, Unsettled, ProviderStatus
      <2> QED
          BY <1>3, <1>5, <2>1, <2>2 DEF Lifecycle!StatusOf
  <1>6. CASE status[i] = "FAILED_RETRYABLE" /\ attemptCount[i] # 0
      <2>1. /\ attempt[i][attemptCount[i]] \in ProviderStatus
            /\ status[i] = NextStatus(attemptCount[i],
                                      attempt[i][attemptCount[i]])
          BY <1>3, <1>6 DEF HistoryAgreesWithIntent
      <2>2. /\ attempt[i][attemptCount[i]] = "RETRYABLE_FAILURE"
            /\ attemptCount[i] < MaxAttempts
          BY <1>3, <1>6, <2>1, NextStatusType
      <2>3. LogEntry(i, attemptCount[i]) = "RETRYABLE_FAILURE"
          BY <2>1, <2>2 DEF LogEntry
      <2> QED
          BY <1>1, <1>3, <1>6, <2>2, <2>3 DEF Lifecycle!StatusOf
  <1> QED
      BY <1>2, <1>4, <1>5, <1>6

\* Steps that neither create an intent, nor count an attempt, nor give one an
\* outcome, nor write the inbox are invisible to the lifecycle.
LEMMA Stutter ==
  ASSUME \A i \in Intent : status'[i] = "absent" <=> status[i] = "absent",
         UNCHANGED <<attemptCount, inbox>>,
         \A i \in Intent : \A n \in 1 .. attemptCount[i] :
            LogEntry(i, n)' = LogEntry(i, n)
  PROVE  UNCHANGED <<Created, Log, inbox>>
  BY DEF Created, Log

\* Projection creates the intent, or changes nothing the lifecycle sees.
LEMMA ProjectRefines ==
  ASSUME IInv, NEW w \in Worker, NEW i \in Intent, ProjectEvent(w, i)
  PROVE  Lifecycle!Create(i) \/ UNCHANGED <<Created, Log, inbox>>
  <1>1. UNCHANGED <<attemptCount, attempt, inbox>>
      BY DEF ProjectEvent
  <1>2. Log' = Log
      BY <1>1 DEF Log, LogEntry
  <1>3. CASE status' = status
      BY <1>1, <1>2, <1>3 DEF Created
  <1>4. CASE status[i] = "absent" /\ status' = [status EXCEPT ![i] = "QUEUED"]
      <2>1. Created' = Created \cup {i} /\ i \notin Created
          BY <1>4 DEF Created, IInv, TypeOK
      <2> QED
          BY <1>1, <1>2, <2>1 DEF Created, Log, Lifecycle!Create
  <1> QED
      BY <1>3, <1>4 DEF ProjectEvent

\* A claim begins an attempt of every claimed intent.
LEMMA ClaimRefines ==
  ASSUME IInv, NEW w \in Worker, ClaimIntents(w)
  PROVE  (\E c \in SUBSET Intent : Lifecycle!Begin(c))
           \/ UNCHANGED <<Created, Log, inbox>>
  <1> USE DEF IInv
  <1>1. PICK c \in ClaimCandidates :
            \/ AttemptsWithinMax(c) /\ Claimed(w, c)
            \/ UNCHANGED <<status, attemptCount, attempt>>
      BY DEF ClaimIntents
  <1>2. inbox' = inbox
      BY DEF ClaimIntents
  <1>3. CASE UNCHANGED <<status, attemptCount, attempt>>
      BY <1>2, <1>3 DEF Created, Log, LogEntry
  <1>4. CASE AttemptsWithinMax(c) /\ Claimed(w, c)
      <2>1. /\ c \subseteq Intent
            /\ \A i \in c : status[i] \in {"QUEUED", "FAILED_RETRYABLE",
                                           "PROCESSING"}
          BY DEF ClaimCandidates, Claimable, Waiting
      <2>2. \A i \in Intent :
              /\ status'[i] = IF i \in c THEN "PROCESSING" ELSE status[i]
              /\ attemptCount'[i] = IF i \in c THEN attemptCount[i] + 1
                                                ELSE attemptCount[i]
          BY <1>4 DEF Claimed
      <2>3. \A i \in Intent, n \in Attempt :
              attempt'[i][n] = IF i \in c /\ n = attemptCount[i] + 1
                               THEN "CLAIMED" ELSE attempt[i][n]
          BY <1>4 DEF Claimed
      <2>4. Created' = Created
          BY <2>1, <2>2 DEF Created
      <2>5. \A i \in c : /\ i \in Created
                         /\ Len(Log[i]) < MaxAttempts
                         /\ Lifecycle!StatusOf(Log[i]) \in
                              {"QUEUED", "FAILED_RETRYABLE", "PROCESSING"}
          <3> SUFFICES ASSUME NEW i \in c
                       PROVE  /\ i \in Created
                              /\ Len(Log[i]) < MaxAttempts
                              /\ Lifecycle!StatusOf(Log[i]) \in
                                   {"QUEUED", "FAILED_RETRYABLE", "PROCESSING"}
              OBVIOUS
          <3>1. i \in Created
              BY <2>1 DEF Created
          <3>2. Len(Log[i]) < MaxAttempts
              BY <1>4, <2>1, LogShape, ConstantsAssumption
                 DEF AttemptsWithinMax, ConstantsAssumption
          <3>3. Lifecycle!StatusOf(Log[i]) \in
                  {"QUEUED", "FAILED_RETRYABLE", "PROCESSING"}
              BY <2>1, LogStatus
          <3> QED
              BY <3>1, <3>2, <3>3
      <2>6. \A i \in Intent \ c : Log'[i] = Log[i]
          <3> SUFFICES ASSUME NEW i \in Intent \ c PROVE Log'[i] = Log[i]
              OBVIOUS
          <3>1. attemptCount'[i] = attemptCount[i]
              BY <2>2
          <3>2. \A n \in 1 .. attemptCount[i] : LogEntry(i, n)' = LogEntry(i, n)
              BY <2>3, LogShape DEF LogEntry
          <3> QED
              BY <3>1, <3>2 DEF Log
      <2>7. \A i \in c : Log'[i] = Append(Log[i], "open")
          <3> SUFFICES ASSUME NEW i \in c
                       PROVE  Log'[i] = Append(Log[i], "open")
              OBVIOUS
          <3> DEFINE Entry == ProviderStatus \cup {"open"}
          <3>1. /\ i \in Intent
                /\ Log[i] \in Seq(Entry)
                /\ Len(Log[i]) = attemptCount[i]
                /\ attemptCount[i] \in Nat
                /\ 1 .. attemptCount[i] \subseteq Attempt
                /\ \A n \in 1 .. attemptCount[i] : Log[i][n] = LogEntry(i, n)
              BY <2>1, LogShape
          <3>2. attemptCount'[i] = attemptCount[i] + 1
              BY <2>2, <3>1
          <3>3. attemptCount[i] + 1 \in Attempt
              BY <1>4, <3>1, ConstantsAssumption
                 DEF AttemptsWithinMax, Attempt, ConstantsAssumption
          <3>4. /\ \A n \in 1 .. attemptCount[i] :
                      LogEntry(i, n)' = LogEntry(i, n)
                /\ \A k \in Attempt : k = attemptCount[i] + 1
                                        => LogEntry(i, k)' = "open"
              <4>1. \A n \in 1 .. attemptCount[i] : attempt'[i][n] = attempt[i][n]
                  BY <2>3, <3>1
              <4>2. \A k \in Attempt : k = attemptCount[i] + 1
                                         => attempt'[i][k] = "CLAIMED"
                  BY <2>3, <3>1
              <4>3. \A n \in 1 .. attemptCount[i] :
                      LogEntry(i, n)' = LogEntry(i, n)
                  BY <4>1 DEF LogEntry
              <4>4. \A k \in Attempt : k = attemptCount[i] + 1
                                         => LogEntry(i, k)' = "open"
                  BY <4>2 DEF LogEntry, ProviderStatus
              <4> QED
                  BY <4>3, <4>4
          <3>5. Log'[i] = [n \in 1 .. attemptCount[i] + 1 |-> LogEntry(i, n)']
              BY <3>1, <3>2 DEF Log
          <3>6. /\ Log'[i] \in Seq(Entry)
                /\ Len(Log'[i]) = attemptCount[i] + 1
                /\ \A n \in 1 .. attemptCount[i] : Log'[i][n] = Log[i][n]
                /\ Log'[i][attemptCount[i] + 1] = "open"
              <4>1. \A n \in 1 .. attemptCount[i] + 1 : LogEntry(i, n)' \in Entry
                  BY DEF LogEntry
              <4>2. Log'[i] \in [1 .. attemptCount[i] + 1 -> Entry]
                  BY <3>5, <4>1
              <4>3. Log'[i] \in Seq(Entry) /\ Len(Log'[i]) = attemptCount[i] + 1
                  BY <3>1, <4>2
              <4>4. \A n \in 1 .. attemptCount[i] + 1 :
                      Log'[i][n] = LogEntry(i, n)'
                  BY <3>5
              <4>5. /\ 1 .. attemptCount[i] \subseteq 1 .. attemptCount[i] + 1
                    /\ attemptCount[i] + 1 \in 1 .. attemptCount[i] + 1
                  BY <3>1
              <4>6. \A n \in 1 .. attemptCount[i] : Log'[i][n] = Log[i][n]
                  BY <3>1, <3>4, <4>4, <4>5
              <4>7. Log'[i][attemptCount[i] + 1] = "open"
                  BY <3>3, <3>4, <4>4, <4>5
              <4> QED
                  BY <4>3, <4>6, <4>7
          <3>7. /\ Append(Log[i], "open") \in Seq(Entry)
                /\ Len(Append(Log[i], "open")) = attemptCount[i] + 1
                /\ \A n \in 1 .. attemptCount[i] :
                      Append(Log[i], "open")[n] = Log[i][n]
                /\ Append(Log[i], "open")[attemptCount[i] + 1] = "open"
              BY <3>1, AppendProperties
          <3>8. \A n \in 1 .. Len(Log'[i]) :
                   Log'[i][n] = Append(Log[i], "open")[n]
              <4> SUFFICES ASSUME NEW n \in 1 .. attemptCount[i] + 1
                           PROVE  Log'[i][n] = Append(Log[i], "open")[n]
                  BY <3>6
              <4>1. n \in 1 .. attemptCount[i] \/ n = attemptCount[i] + 1
                  BY <3>1
              <4> QED
                  BY <3>6, <3>7, <4>1
          <3> QED
              BY <3>6, <3>7, <3>8, SeqEqual
      <2>8. Log' = [i \in Intent |-> IF i \in c THEN Append(Log[i], "open")
                                                ELSE Log[i]]
          BY <2>1, <2>6, <2>7 DEF Log
      <2> QED
          BY <1>2, <2>1, <2>4, <2>5, <2>8
             DEF Created, Log, Lifecycle!Begin, Lifecycle!MayBegin
  <1> QED
      BY <1>1, <1>3, <1>4

\* A finalization settles the newest attempt, or is a stale one.
LEMMA FinalizeRefines ==
  ASSUME IInv, NEW i \in Intent, NEW n \in Attempt, FinalizeIntentResult(i, n)
  PROVE  (\E r \in Lifecycle!Outcomes : Lifecycle!Settle(i, r))
           \/ UNCHANGED <<Created, Log, inbox>>
  <1> USE DEF IInv
  <1>1. attemptCount' = attemptCount
      BY DEF FinalizeIntentResult
  <1>2. CASE UNCHANGED <<status, attempt, inbox>>
      BY <1>1, <1>2 DEF Created, Log, LogEntry
  <1>3. CASE /\ FinalizeWrites(i, n, result[i][n])
             /\ status[i] = "PROCESSING"
             /\ n = attemptCount[i]
             /\ status'[i] = NextStatus(n, result[i][n])
             /\ \A j \in Intent \ {i} : status'[j] = status[j]
      <2>1. PICK r \in ProviderStatus : r = result[i][n]
          BY FinalizeStatus
      <2>2. r \in Lifecycle!Outcomes
          BY <2>1 DEF ProviderStatus, Lifecycle!Outcomes, Lifecycle!Final
      <2>3. /\ Lifecycle!StatusOf(Log[i]) = "PROCESSING"
            /\ Len(Log[i]) = n
            /\ n \in 1 .. attemptCount[i]
          BY <1>3, LogStatus, LogShape DEF Attempt
      <2>4. Created' = Created
          <3>1. status'[i] # "absent"
              BY <1>3, <2>1, NextStatusType DEF Terminal
          <3> QED
              BY <1>3, <3>1 DEF Created
      <2>5. \A j \in Intent, m \in Attempt :
              attempt'[j][m] = IF j = i /\ m = n THEN r ELSE attempt[j][m]
          BY <1>3, <2>1 DEF FinalizeWrites, TypeOK
      <2>6. Log' = [Log EXCEPT ![i][n] = r]
          <3>1. \A j \in Intent \ {i} : Log'[j] = Log[j]
              <4> SUFFICES ASSUME NEW j \in Intent \ {i}
                           PROVE  Log'[j] = Log[j]
                  OBVIOUS
              <4>1. \A m \in 1 .. attemptCount[j] :
                      LogEntry(j, m)' = LogEntry(j, m)
                  BY <2>5, LogShape DEF LogEntry
              <4>2. attemptCount'[j] = attemptCount[j]
                  BY <1>1
              <4> QED
                  BY <4>1, <4>2 DEF Log
          <3>2. \A m \in 1 .. attemptCount[i] :
                  LogEntry(i, m)' = IF m = n THEN r ELSE LogEntry(i, m)
              BY <2>1, <2>5, LogShape DEF LogEntry
          <3>3. Log'[i] = [Log[i] EXCEPT ![n] = r]
              BY <1>1, <2>3, <3>2 DEF Log
          <3> QED
              BY <3>1, <3>3 DEF Log
      <2>7. inbox' = IF r \in {"SIMULATED", "DELIVERED"} /\ i \in Intent \ Push
                     THEN inbox \cup {i} ELSE inbox
          BY <1>3, <2>1 DEF FinalizeWrites, Success
      <2>8. Lifecycle!Settle(i, r)
          BY <2>3, <2>4, <2>6, <2>7 DEF Created, Log, Lifecycle!Settle
      <2> QED
          BY <2>2, <2>8
  <1> QED
      BY <1>2, <1>3, FinalizeStatus

\* The other steps of a task write at most a row that stays open.
LEMMA TaskRefines ==
  ASSUME IInv, NEW i \in Intent, NEW n \in Attempt,
         \/ TaskStep(i, n) /\ ~FinalizeIntentResult(i, n)
         \/ TaskThrows(i, n)
         \/ TaskCatches(i, n)
  PROVE  UNCHANGED <<Created, Log, inbox>>
  <1>1. CASE MarkDispatchStarted(i, n) \/ MarkProviderCallStarted(i, n)
      <2>1. UNCHANGED <<status, attemptCount, inbox>>
          BY <1>1 DEF MarkDispatchStarted, MarkProviderCallStarted
      <2>2. attempt[i][n] \in Unsettled
          BY <1>1 DEF MarkDispatchStarted, MarkProviderCallStarted, IInv,
                      TaskRowsUnsettled
      <2>3. \A j \in Intent, m \in Attempt :
              \/ attempt'[j][m] = attempt[j][m]
              \/ attempt[j][m] \in Unsettled /\ attempt'[j][m] \in Unsettled
          <3>1. PICK a \in Unsettled : attempt' = [attempt EXCEPT ![i][n] = a]
              BY <1>1 DEF MarkDispatchStarted, MarkProviderCallStarted,
                          Unsettled
          <3>2. \A j \in Intent, m \in Attempt :
                  attempt'[j][m] = IF j = i /\ m = n THEN a ELSE attempt[j][m]
              BY <3>1 DEF IInv, TypeOK
          <3> QED
              BY <2>2, <3>1, <3>2
      <2>4. \A j \in Intent, m \in Attempt : LogEntry(j, m)' = LogEntry(j, m)
          BY <2>3 DEF LogEntry, Unsettled, ProviderStatus
      <2>5. \A j \in Intent : 1 .. attemptCount[j] \subseteq Attempt
          BY LogShape DEF IInv
      <2> QED
          BY <2>1, <2>4, <2>5, Stutter
  <1>2. CASE ~(MarkDispatchStarted(i, n) \/ MarkProviderCallStarted(i, n))
      <2>1. UNCHANGED <<status, attemptCount, attempt, inbox>>
          BY <1>2 DEF TaskStep, TaskThrows, TaskCatches, RevalidateReminder,
                      SuppressOccurrence, CheckRecoveredAmbiguous,
                      LookupReceipt, SendToProvider, PersistReceipt, rows
      <2> QED
          BY <2>1 DEF Created, Log, LogEntry
  <1> QED
      BY <1>1, <1>2

\* Every step of the worker is a step of the lifecycle, or invisible to it.
LEMMA RefinementStep ==
  ASSUME IInv, [Next]_vars
  PROVE  Lifecycle!Next \/ UNCHANGED <<Created, Log, inbox>>
  <1>1. CASE \/ \E i \in Intent : EmitEvent(i) \/ DeadlinePasses(i)
             \/ \E s \in Subscription : RevokeSubscription(s) \/ RegisterSubscription(s)
             \/ \E w \in Worker : \/ FetchPending(w) \/ EndTick(w)
                                  \/ TickFails(w) \/ Crash(w)
             \/ UNCHANGED vars
      <2>1. UNCHANGED <<status, attemptCount, attempt, inbox>>
          BY <1>1 DEF EmitEvent, DeadlinePasses, RevokeSubscription, RegisterSubscription,
                      FetchPending, EndTick, TickFails, Crash, vars, rows
      <2> QED
          BY <2>1 DEF Created, Log, LogEntry
  <1>2. CASE \E w \in Worker, i \in Intent : ProjectEvent(w, i)
      BY <1>2, ProjectRefines DEF Lifecycle!Next
  <1>3. CASE \E w \in Worker : ClaimIntents(w)
      BY <1>3, ClaimRefines DEF Lifecycle!Next
  <1>4. CASE \E i \in Intent, n \in Attempt : FinalizeIntentResult(i, n)
      BY <1>4, FinalizeRefines DEF Lifecycle!Next
  <1>5. CASE \E i \in Intent, n \in Attempt :
               \/ TaskStep(i, n) /\ ~FinalizeIntentResult(i, n)
               \/ TaskThrows(i, n)
               \/ TaskCatches(i, n)
      BY <1>5, TaskRefines
  <1> QED
      BY <1>1, <1>2, <1>3, <1>4, <1>5 DEF Next

\* Every behaviour of the worker is a behaviour of the delivery lifecycle:
\* whatever leases, crashes and stale tasks do, an intent's attempts form one
\* log whose newest entry alone is settled, once.
THEOREM Refinement == Spec => ImplementsLifecycle
  <1>1. Init => Lifecycle!Init
      <2> SUFFICES ASSUME Init PROVE Lifecycle!Init
          OBVIOUS
      <2>1. Created = {} /\ inbox = {}
          BY DEF Init, Created
      <2>2. Log = [i \in Intent |-> <<>>]
          <3>1. \A i \in Intent : Log[i] = <<>>
              <4> SUFFICES ASSUME NEW i \in Intent PROVE Log[i] = <<>>
                  OBVIOUS
              <4>1. attemptCount[i] = 0
                  BY DEF Init
              <4> QED
                  BY <4>1, InitTypeOK, LogShape, EmptySeq
          <3> QED
              BY <3>1 DEF Log
      <2> QED
          BY <2>1, <2>2 DEF Created, Log, Lifecycle!Init
  <1>2. IInv /\ [Next]_vars => [Lifecycle!Next]_(Lifecycle!lifecycleVars)
      BY RefinementStep DEF Lifecycle!lifecycleVars, Created, Log
  <1> QED
      BY <1>1, <1>2, InvariantIInv, PTL
         DEF Spec, ImplementsLifecycle, Lifecycle!Spec
=============================================================================
