---------------------- MODULE NotificationWorkerProofs ----------------------
(***************************************************************************)
(* Safety of the notification worker for any number of intents, workers,   *)
(* subscriptions, attempts and faults.                                     *)
(*                                                                         *)
(* LeaseIsNewestAttempt and HistoryAgreesWithIntent are not inductive by   *)
(* themselves: a stale task may write the attempt row of its own number,   *)
(* so the invariant must say what a task that still runs knows of that row *)
(* (TaskRowsUnsettled), that no task exists for an attempt not yet claimed *)
(* (TasksWereClaimed), and that a task about to finalize holds a provider  *)
(* result (ResultsKnown).                                                  *)
(***************************************************************************)
EXTENDS NotificationWorker, TLAPS

\* An intent that was never claimed has no attempts.
UnclaimedHasNoAttempts ==
    \A i \in Intent : status[i] \in {"absent", "QUEUED"} => attemptCount[i] = 0

TasksWereClaimed ==
    \A i \in Intent : \A n \in Attempt :
        n > attemptCount[i] => pc[i][n] = "none"

TasksHaveOwner ==
    \A i \in Intent : \A n \in Attempt :
        pc[i][n] # "none" => owner[i][n] \in Worker

TaskRowsUnsettled ==
    \A i \in Intent : \A n \in Attempt :
        pc[i][n] \notin {"none", "done"} => attempt[i][n] \in Unsettled

ResultsKnown ==
    \A i \in Intent : \A n \in Attempt :
        pc[i][n] \in {"persisting", "finalizing", "closing"}
            => result[i][n] \in ProviderStatus

IInv ==
    /\ TypeOK
    /\ LeaseIsNewestAttempt
    /\ HistoryAgreesWithIntent
    /\ UnclaimedHasNoAttempts
    /\ TasksWereClaimed
    /\ TasksHaveOwner
    /\ TaskRowsUnsettled
    /\ ResultsKnown

-----------------------------------------------------------------------------
(* Typing, action by action.                                                *)

\* The empty database and the idle workers are in their types.
LEMMA InitTypeOK == Init => TypeOK
  BY ConstantsAssumption
  DEF ConstantsAssumption, Init, TypeOK, Attempt, PCs, OccurrenceStatus,
      ProviderStatus, Terminal

\* Writing one cell of a table indexed by intent and attempt number.
LEMMA CellUpdate ==
  ASSUME NEW S, NEW f \in [Intent -> [Attempt -> S]],
         NEW i \in Intent, NEW n \in Attempt, NEW v \in S
  PROVE  [f EXCEPT ![i][n] = v] \in [Intent -> [Attempt -> S]]
  OBVIOUS

\* A task that moves to a control point leaves the other tasks where they are.
LEMMA GoToMoves ==
  ASSUME TypeOK, NEW i \in Intent, NEW n \in Attempt, NEW next \in PCs,
         GoTo(i, n, next)
  PROVE  /\ pc' \in [Intent -> [Attempt -> PCs]]
         /\ \A j \in Intent, m \in Attempt :
               pc'[j][m] = IF j = i /\ m = n THEN next ELSE pc[j][m]
  <1>1. pc \in [Intent -> [Attempt -> PCs]]
      BY DEF TypeOK
  <1>2. pc' = [pc EXCEPT ![i][n] = next]
      BY DEF GoTo
  <1> QED
      BY <1>1, <1>2, CellUpdate

\* A task that notes a provider result changes no other task's result.
LEMMA ResultNoted ==
  ASSUME TypeOK, NEW i \in Intent, NEW n \in Attempt,
         NEW v \in ProviderStatus \cup {"none"},
         result' = [result EXCEPT ![i][n] = v]
  PROVE  /\ result' \in [Intent -> [Attempt -> ProviderStatus \cup {"none"}]]
         /\ \A j \in Intent, m \in Attempt :
               result'[j][m] = IF j = i /\ m = n THEN v ELSE result[j][m]
  <1>1. result \in [Intent -> [Attempt -> ProviderStatus \cup {"none"}]]
      BY DEF TypeOK
  <1> QED
      BY <1>1, CellUpdate

\* Finalization is the only action that writes an outcome into the intent.
LEMMA NextStatusType ==
  ASSUME NEW n \in Attempt, NEW r \in ProviderStatus
  PROVE  /\ NextStatus(n, r) \in Terminal \cup {"FAILED_RETRYABLE"}
         /\ NextStatus(n, r) \in Success <=> r \in Success
         /\ NextStatus(n, r) = "FAILED_RETRYABLE"
               => r = "RETRYABLE_FAILURE" /\ n < MaxAttempts
  BY DEF NextStatus, ShouldRetry, ProviderStatus, Terminal, Success

\* No statement of the worker writes a value outside its column.
LEMMA TypeStep == IInv /\ [Next]_vars => TypeOK'
  <1> SUFFICES ASSUME IInv, [Next]_vars PROVE TypeOK'
      OBVIOUS
  <1> USE ConstantsAssumption DEF IInv
  <1>1. ASSUME NEW i \in Intent, EmitEvent(i) PROVE TypeOK'
      BY <1>1 DEF EmitEvent, TypeOK, tasks, loops
  <1>2. ASSUME NEW i \in Intent, DeadlinePasses(i) PROVE TypeOK'
      BY <1>2 DEF DeadlinePasses, TypeOK, tasks, loops
  <1>3. ASSUME NEW s \in Subscription,
               RevokeSubscription(s) \/ RegisterSubscription(s)
        PROVE  TypeOK'
      BY <1>3 DEF RevokeSubscription, RegisterSubscription, TypeOK, tasks, loops
  <1>4. ASSUME NEW w \in Worker, FetchPending(w) PROVE TypeOK'
      BY <1>4 DEF FetchPending, TypeOK, tasks, rows
  <1>5. ASSUME NEW w \in Worker, NEW i \in Intent, ProjectEvent(w, i)
        PROVE TypeOK'
      BY <1>5 DEF ProjectEvent, LinksOccurrence, TypeOK, tasks,
                  OccurrenceStatus
  <1>6. ASSUME NEW w \in Worker, ClaimIntents(w) PROVE TypeOK'
      <2>1. PICK c \in ClaimCandidates :
                \/ AttemptsWithinMax(c) /\ Claimed(w, c)
                \/ /\ tick' = [tick EXCEPT ![w] = "idle"]
                   /\ UNCHANGED <<status, attemptCount, lease, elapsed,
                                  attempt, pc, owner, batch>>
          BY <1>6 DEF ClaimIntents
      <2>2. c \subseteq Intent
          BY <2>1 DEF ClaimCandidates
      <2>3. CASE AttemptsWithinMax(c) /\ Claimed(w, c)
          <3>1. \A i \in c : attemptCount[i] + 1 \in Attempt
              BY <2>2, <2>3 DEF AttemptsWithinMax, Attempt, TypeOK,
                                ConstantsAssumption
          <3>2. /\ status' \in [Intent -> Terminal \cup {"absent", "QUEUED",
                                        "PROCESSING", "FAILED_RETRYABLE"}]
                /\ elapsed' \in [Intent -> BOOLEAN]
              BY <2>3 DEF Claimed, TypeOK
          <3>2a. /\ attemptCount' \in [Intent -> 0 .. MaxAttempts]
                /\ lease' \in [Intent -> 0 .. MaxAttempts]
              <4>1. \A i \in c : attemptCount[i] + 1 \in 0 .. MaxAttempts
                  BY <3>1 DEF Attempt, ConstantsAssumption
              <4>2. /\ attemptCount \in [Intent -> 0 .. MaxAttempts]
                    /\ lease \in [Intent -> 0 .. MaxAttempts]
                  BY DEF TypeOK
              <4> QED
                  BY <2>3, <4>1, <4>2 DEF Claimed
          <3>3. attempt' \in [Intent -> [Attempt -> ProviderStatus \cup
                    {"none", "CLAIMED", "DISPATCH_STARTED",
                     "PROVIDER_CALL_STARTED"}]]
              BY <2>3 DEF Claimed, TypeOK
          <3>4. /\ pc' \in [Intent -> [Attempt -> PCs]]
                /\ owner' \in [Intent -> [Attempt -> Worker \cup {NoWorker}]]
              BY <2>3 DEF Claimed, TypeOK, PCs
          <3>5. /\ batch' \in [Worker -> SUBSET (Intent \X Attempt)]
                /\ tick' \in [Worker -> {"idle", "projecting", "delivering"}]
              BY <2>2, <2>3, <3>1 DEF Claimed, TypeOK
          <3> QED
              BY <1>6, <3>2, <3>2a, <3>3, <3>4, <3>5 DEF ClaimIntents, TypeOK
      <2>4. CASE /\ tick' = [tick EXCEPT ![w] = "idle"]
                 /\ UNCHANGED <<status, attemptCount, lease, elapsed,
                                attempt, pc, owner, batch>>
          BY <1>6, <2>4 DEF ClaimIntents, TypeOK
      <2> QED
          BY <2>1, <2>3, <2>4
  <1>7. ASSUME NEW w \in Worker, EndTick(w) PROVE TypeOK'
      BY <1>7 DEF EndTick, TypeOK, tasks, rows
  <1>8. ASSUME NEW w \in Worker, Crash(w) PROVE TypeOK'
      BY <1>8 DEF Crash, Fault, TypeOK, rows, PCs, ConstantsAssumption
  <1>9. ASSUME NEW w \in Worker, TickFails(w) PROVE TypeOK'
      BY <1>9 DEF TickFails, Fault, TypeOK, tasks, rows, ConstantsAssumption
  <1>10. ASSUME NEW i \in Intent, NEW n \in Attempt, MarkDispatchStarted(i, n)
         PROVE TypeOK'
      BY <1>10 DEF MarkDispatchStarted, GoTo, TypeOK, loops, PCs
  <1>11. ASSUME NEW i \in Intent, NEW n \in Attempt,
                MarkProviderCallStarted(i, n)
         PROVE TypeOK'
      BY <1>11 DEF MarkProviderCallStarted, GoTo, TypeOK, loops, PCs
  <1>12. ASSUME NEW i \in Intent, NEW n \in Attempt, RevalidateReminder(i, n)
         PROVE TypeOK'
      <2>1. pc' \in [Intent -> [Attempt -> PCs]]
          BY <1>12, GoToMoves DEF RevalidateReminder, PCs
      <2> QED
          BY <1>12, <2>1 DEF RevalidateReminder, TypeOK, loops, rows
  <1>13. ASSUME NEW i \in Intent, NEW n \in Attempt, SuppressOccurrence(i, n)
         PROVE TypeOK'
      <2>1. pc' \in [Intent -> [Attempt -> PCs]]
          BY <1>13, GoToMoves DEF SuppressOccurrence, PCs
      <2>2. result' \in [Intent -> [Attempt -> ProviderStatus \cup {"none"}]]
          BY <1>13, ResultNoted DEF SuppressOccurrence, ProviderStatus
      <2>3. occurrence' \in [Reminder -> OccurrenceStatus]
          BY <1>13 DEF SuppressOccurrence, TypeOK, OccurrenceStatus
      <2> QED
          BY <1>13, <2>1, <2>2, <2>3 DEF SuppressOccurrence, TypeOK, loops
  <1>14. ASSUME NEW i \in Intent, NEW n \in Attempt,
                CheckRecoveredAmbiguous(i, n)
         PROVE TypeOK'
      <2>1. pc' \in [Intent -> [Attempt -> PCs]]
          BY <1>14, GoToMoves DEF CheckRecoveredAmbiguous, PCs
      <2>2. result' \in [Intent -> [Attempt -> ProviderStatus \cup {"none"}]]
          <3>1. CASE result' = [result EXCEPT ![i][n] = "AMBIGUOUS"]
              BY <3>1, ResultNoted DEF ProviderStatus
          <3>2. CASE result' = result
              BY <3>2 DEF TypeOK
          <3> QED
              BY <1>14, <3>1, <3>2 DEF CheckRecoveredAmbiguous
      <2> QED
          BY <1>14, <2>1, <2>2
             DEF CheckRecoveredAmbiguous, TypeOK, loops, rows
  <1>15. ASSUME NEW i \in Intent, NEW n \in Attempt, LookupReceipt(i, n)
         PROVE TypeOK'
      <2>1. owner[i][n] \in Worker
          BY <1>15 DEF LookupReceipt, TasksHaveOwner
      <2>2. ledger[owner[i][n]][i] \in ProviderStatus \cup {"none"}
          BY <2>1 DEF TypeOK
      <2>3. result' \in [Intent -> [Attempt -> ProviderStatus \cup {"none"}]]
          <3>1. \/ \E v \in ProviderStatus \cup {"none"} :
                     result' = [result EXCEPT ![i][n] = v]
                \/ result' = result
              BY <1>15, <2>2 DEF LookupReceipt, TypeOK
          <3> QED
              BY <3>1, ResultNoted DEF TypeOK
      <2>4. pc' \in [Intent -> [Attempt -> PCs]]
          BY <1>15, GoToMoves DEF LookupReceipt, PCs
      <2> QED
          BY <1>15, <2>3, <2>4 DEF LookupReceipt, TypeOK, loops, rows
  <1>16. ASSUME NEW i \in Intent, NEW n \in Attempt, SendToProvider(i, n)
         PROVE TypeOK'
      <2>1. /\ owner[i][n] \in Worker
            /\ Outcome[i] \in ProviderStatus
          BY <1>16 DEF SendToProvider, TasksHaveOwner, ConstantsAssumption
      <2>2. result' \in [Intent -> [Attempt -> ProviderStatus \cup {"none"}]]
          <3>1. PICK v \in ProviderStatus : result' = [result EXCEPT ![i][n] = v]
              BY <1>16, <2>1 DEF SendToProvider, ProviderStatus
          <3> QED
              BY <3>1, ResultNoted
      <2>3. pc' \in [Intent -> [Attempt -> PCs]]
          BY <1>16, GoToMoves DEF SendToProvider, PCs
      <2>4. /\ ledger' \in [Worker -> [Intent -> ProviderStatus \cup {"none"}]]
            /\ sent' \in [Intent -> SUBSET Attempt]
          <3>1. CASE UNCHANGED <<ledger, sent>>
              BY <3>1 DEF TypeOK
          <3>2. CASE /\ sent' = [sent EXCEPT ![i] = @ \cup {n}]
                     /\ ledger' = [ledger EXCEPT ![owner[i][n]][i] = Outcome[i]]
              BY <2>1, <3>2 DEF TypeOK
          <3>3. CASE /\ sent' = [sent EXCEPT ![i] = @ \cup {n}]
                     /\ ledger' = ledger
              BY <3>3 DEF TypeOK
          <3> QED
              BY <1>16, <3>1, <3>2, <3>3 DEF SendToProvider
      <2> QED
          BY <1>16, <2>2, <2>3, <2>4 DEF SendToProvider, TypeOK, loops, rows
  <1>17. ASSUME NEW i \in Intent, NEW n \in Attempt, PersistReceipt(i, n)
         PROVE TypeOK'
      BY <1>17 DEF PersistReceipt, GoTo, TypeOK, loops, PCs
  <1>18. ASSUME NEW i \in Intent, NEW n \in Attempt,
                FinalizeIntentResult(i, n)
         PROVE TypeOK'
      <2>1. result[i][n] \in ProviderStatus
          BY <1>18 DEF FinalizeIntentResult, ResultsKnown
      <2>2. CASE HoldsLease(i, n) /\ FinalizeWrites(i, n, result[i][n])
          BY <1>18, <2>1, <2>2, NextStatusType
             DEF FinalizeIntentResult, FinalizeWrites, GoTo, TypeOK, loops, PCs
      <2>3. CASE UNCHANGED <<status, lease, elapsed, attempt, inbox,
                             subscription>>
          BY <1>18, <2>3 DEF FinalizeIntentResult, GoTo, TypeOK, loops, PCs
      <2> QED
          BY <1>18, <2>2, <2>3 DEF FinalizeIntentResult
  <1>19. ASSUME NEW i \in Intent, NEW n \in Attempt, TaskThrows(i, n)
         PROVE TypeOK'
      BY <1>19 DEF TaskThrows, Fault, GoTo, TypeOK, loops, rows, PCs,
                   ConstantsAssumption
  <1>20. ASSUME NEW i \in Intent, NEW n \in Attempt, TaskCatches(i, n)
         PROVE TypeOK'
      BY <1>20 DEF TaskCatches, MapThrown, Fault, GoTo, TypeOK, loops, rows,
                   PCs, ProviderStatus, ConstantsAssumption
  <1>21. CASE UNCHANGED vars
      BY <1>21 DEF vars, rows, tasks, loops, TypeOK
  <1> QED
      BY <1>1, <1>2, <1>3, <1>4, <1>5, <1>6, <1>7, <1>8, <1>9, <1>10, <1>11,
         <1>12, <1>13, <1>14, <1>15, <1>16, <1>17, <1>18, <1>19, <1>20, <1>21
         DEF Next, TaskStep

-----------------------------------------------------------------------------
(* The rest of the invariant.  RowsAndTasks is what it says beside TypeOK.  *)

RowsAndTasks ==
    /\ LeaseIsNewestAttempt
    /\ HistoryAgreesWithIntent
    /\ UnclaimedHasNoAttempts
    /\ TasksWereClaimed
    /\ TasksHaveOwner
    /\ TaskRowsUnsettled
    /\ ResultsKnown

\* Attempt counts and attempt numbers are naturals.
LEMMA Counting == TypeOK => attemptCount \in [Intent -> Nat] /\ Attempt \subseteq Nat
  BY ConstantsAssumption DEF TypeOK, Attempt, ConstantsAssumption

\* A step that touches none of these tables keeps what is said of them.
LEMMA UntouchedTables ==
  ASSUME IInv, UNCHANGED <<status, attemptCount, lease, attempt, tasks>>
  PROVE  RowsAndTasks'
  BY DEF IInv, RowsAndTasks, LeaseIsNewestAttempt, HistoryAgreesWithIntent,
         UnclaimedHasNoAttempts, TasksWereClaimed, TasksHaveOwner,
         TaskRowsUnsettled, ResultsKnown, tasks

\* A running task writes at most its own, unsettled row: even a stale one
\* cannot contradict the intent.
LEMMA RunningTaskMoves ==
  ASSUME IInv, NEW i \in Intent, NEW n \in Attempt,
         NEW next \in PCs \ {"none"},
         pc[i][n] \notin Finished, GoTo(i, n, next),
         UNCHANGED <<status, attemptCount, lease, owner>>,
         NEW a \in Unsettled,
         attempt' = attempt \/ attempt' = [attempt EXCEPT ![i][n] = a],
         NEW r \in ProviderStatus \cup {"none"},
         result' = result \/ result' = [result EXCEPT ![i][n] = r],
         next \in {"persisting", "finalizing", "closing"}
            => result'[i][n] \in ProviderStatus
  PROVE  RowsAndTasks'
  <1> USE DEF IInv
  <1>1. \A j \in Intent, m \in Attempt :
          pc'[j][m] = IF j = i /\ m = n THEN next ELSE pc[j][m]
      BY GoToMoves
  <1>2. attempt[i][n] \in Unsettled
      BY DEF TaskRowsUnsettled, Finished
  <1>3. /\ attempt'[i][n] \in Unsettled
        /\ \A j \in Intent, m \in Attempt :
              (j # i \/ m # n) => attempt'[j][m] = attempt[j][m]
      BY <1>2 DEF TypeOK
  <1>4. \A j \in Intent, m \in Attempt :
          (j # i \/ m # n) => result'[j][m] = result[j][m]
      BY DEF TypeOK
  <1>5. LeaseIsNewestAttempt' /\ UnclaimedHasNoAttempts'
      BY DEF LeaseIsNewestAttempt, UnclaimedHasNoAttempts
  <1>6. n <= attemptCount[i]
      BY Counting DEF TasksWereClaimed, Finished
  <1>7. HistoryAgreesWithIntent'
      <2> SUFFICES ASSUME NEW j \in Intent, NEW m \in Attempt
                   PROVE  /\ m > attemptCount[j] => attempt'[j][m] = "none"
                          /\ m < attemptCount[j] =>
                                attempt'[j][m] \in Unsettled
                                  \cup {"RETRYABLE_FAILURE"}
                          /\ m = attemptCount[j] =>
                                IF status[j] = "PROCESSING"
                                THEN attempt'[j][m] \in Unsettled
                                ELSE /\ attempt'[j][m] \in ProviderStatus
                                     /\ status[j] = NextStatus(m, attempt'[j][m])
          BY DEF HistoryAgreesWithIntent, NextStatus, ShouldRetry
      <2>1. CASE j = i /\ m = n
          BY <1>2, <1>3, <1>6, <2>1, Counting
             DEF HistoryAgreesWithIntent, Unsettled, ProviderStatus
      <2>2. CASE j # i \/ m # n
          BY <1>3, <2>2 DEF HistoryAgreesWithIntent
      <2> QED
          BY <2>1, <2>2
  <1>8. TasksWereClaimed'
      BY <1>1, <1>6, Counting DEF TasksWereClaimed
  <1>9. TasksHaveOwner'
      BY <1>1 DEF TasksHaveOwner, Finished
  <1>10. TaskRowsUnsettled'
      BY <1>1, <1>3 DEF TaskRowsUnsettled
  <1>11. ResultsKnown'
      BY <1>1, <1>4 DEF ResultsKnown
  <1> QED
      BY <1>5, <1>7, <1>8, <1>9, <1>10, <1>11 DEF RowsAndTasks

\* The claim opens the row and the task of the next attempt number.
LEMMA ClaimKeeps ==
  ASSUME IInv, NEW w \in Worker, ClaimIntents(w)
  PROVE  RowsAndTasks'
  <1> USE ConstantsAssumption DEF IInv
  <1>1. PICK c \in ClaimCandidates :
            \/ AttemptsWithinMax(c) /\ Claimed(w, c)
            \/ UNCHANGED <<status, attemptCount, lease, attempt, pc, owner>>
      BY DEF ClaimIntents
  <1>2. CASE UNCHANGED <<status, attemptCount, lease, attempt, pc, owner>>
      BY <1>2, UntouchedTables DEF ClaimIntents, tasks
  <1>3. CASE AttemptsWithinMax(c) /\ Claimed(w, c)
      <2>1. \A i \in c : /\ i \in Intent
                         /\ status[i] \in {"QUEUED", "FAILED_RETRYABLE",
                                           "PROCESSING"}
          BY <1>1 DEF ClaimCandidates, Claimable, Waiting
      <2>2. \A i \in c : attemptCount[i] + 1 \in Attempt
          BY <1>3, <2>1 DEF AttemptsWithinMax, Attempt, TypeOK,
                            ConstantsAssumption
      <2>3. /\ attemptCount \in [Intent -> Nat]
            /\ Attempt \subseteq Nat
          BY DEF TypeOK, Attempt, ConstantsAssumption
      <2>4. \A i \in Intent :
              /\ status'[i] = IF i \in c THEN "PROCESSING" ELSE status[i]
              /\ attemptCount'[i] = IF i \in c THEN attemptCount[i] + 1
                                                ELSE attemptCount[i]
              /\ lease'[i] = IF i \in c THEN attemptCount[i] + 1 ELSE lease[i]
          BY <1>3 DEF Claimed
      <2>5. \A i \in Intent, n \in Attempt :
              LET new == i \in c /\ n = attemptCount[i] + 1 IN
              /\ attempt'[i][n] = IF new THEN "CLAIMED" ELSE attempt[i][n]
              /\ pc'[i][n] = IF new THEN "claimed" ELSE pc[i][n]
              /\ owner'[i][n] = IF new THEN w ELSE owner[i][n]
          BY <1>3 DEF Claimed
      <2>6. result' = result
          BY DEF ClaimIntents
      <2>7. LeaseIsNewestAttempt'
          BY <2>2, <2>3, <2>4 DEF LeaseIsNewestAttempt
      <2>8. \A i \in c, n \in Attempt :
              n <= attemptCount[i] =>
                attempt[i][n] \in Unsettled \cup {"RETRYABLE_FAILURE"}
          <3> SUFFICES ASSUME NEW i \in c, NEW n \in Attempt,
                              n <= attemptCount[i]
                       PROVE  attempt[i][n] \in
                                Unsettled \cup {"RETRYABLE_FAILURE"}
              OBVIOUS
          <3>1. CASE n < attemptCount[i]
              BY <2>1, <3>1 DEF HistoryAgreesWithIntent
          <3>2. CASE n = attemptCount[i] /\ status[i] = "PROCESSING"
              BY <2>1, <3>2 DEF HistoryAgreesWithIntent
          <3>3. CASE n = attemptCount[i] /\ status[i] = "FAILED_RETRYABLE"
              BY <2>1, <3>3, NextStatusType DEF HistoryAgreesWithIntent
          <3>4. CASE status[i] = "QUEUED"
              BY <2>1, <3>4 DEF UnclaimedHasNoAttempts, Attempt
          <3> QED
              BY <2>1, <2>3, <3>1, <3>2, <3>3, <3>4
      <2>9. HistoryAgreesWithIntent'
          <3> SUFFICES ASSUME NEW i \in Intent, NEW n \in Attempt
                       PROVE  /\ n > attemptCount'[i] => attempt'[i][n] = "none"
                              /\ n < attemptCount'[i] =>
                                    attempt'[i][n] \in Unsettled
                                      \cup {"RETRYABLE_FAILURE"}
                              /\ n = attemptCount'[i] =>
                                    IF status'[i] = "PROCESSING"
                                    THEN attempt'[i][n] \in Unsettled
                                    ELSE /\ attempt'[i][n] \in ProviderStatus
                                         /\ status'[i] =
                                              NextStatus(n, attempt'[i][n])
              BY DEF HistoryAgreesWithIntent, NextStatus, ShouldRetry
          <3>1. CASE i \in c
              BY <2>3, <2>4, <2>5, <2>8, <3>1
                 DEF HistoryAgreesWithIntent, Unsettled
          <3>2. CASE i \notin c
              BY <2>4, <2>5, <3>2 DEF HistoryAgreesWithIntent
          <3> QED
              BY <3>1, <3>2
      <2>10. UnclaimedHasNoAttempts'
          BY <2>4 DEF UnclaimedHasNoAttempts
      <2>11. TasksWereClaimed'
          BY <2>3, <2>4, <2>5 DEF TasksWereClaimed
      <2>12. TasksHaveOwner'
          BY <2>5 DEF TasksHaveOwner
      <2>13. TaskRowsUnsettled'
          BY <2>5 DEF TaskRowsUnsettled, Unsettled
      <2>14. ResultsKnown'
          BY <2>5, <2>6 DEF ResultsKnown
      <2> QED
          BY <2>7, <2>9, <2>10, <2>11, <2>12, <2>13, <2>14 DEF RowsAndTasks
  <1> QED
      BY <1>1, <1>2, <1>3

\* Only the task that holds the lease writes an outcome, and its attempt
\* number is the intent's attemptCount.
LEMMA FinalizeKeeps ==
  ASSUME IInv, NEW i \in Intent, NEW n \in Attempt,
         FinalizeIntentResult(i, n)
  PROVE  RowsAndTasks'
  <1> USE DEF IInv
  <1>1. /\ pc[i][n] \in {"finalizing", "closing"}
        /\ result[i][n] \in ProviderStatus
      BY DEF FinalizeIntentResult, ResultsKnown
  <1>2. \A j \in Intent, m \in Attempt :
          pc'[j][m] = IF j = i /\ m = n THEN "done" ELSE pc[j][m]
      BY GoToMoves DEF FinalizeIntentResult, PCs
  <1>3. \A j \in Intent, m \in Attempt :
          (j # i \/ m # n) => result'[j][m] = result[j][m]
      BY DEF FinalizeIntentResult, TypeOK
  <1>4. n <= attemptCount[i]
      BY <1>1, Counting DEF TasksWereClaimed
  <1>5. UNCHANGED <<attemptCount, owner>>
      BY DEF FinalizeIntentResult
  <1>6. TasksWereClaimed' /\ TasksHaveOwner' /\ ResultsKnown'
      <2>1. TasksWereClaimed'
          BY <1>2, <1>4, <1>5, Counting DEF TasksWereClaimed
      <2>2. TasksHaveOwner'
          BY <1>1, <1>2, <1>5 DEF TasksHaveOwner
      <2>3. ResultsKnown'
          BY <1>2, <1>3 DEF ResultsKnown
      <2> QED
          BY <2>1, <2>2, <2>3
  <1>7. CASE HoldsLease(i, n) /\ FinalizeWrites(i, n, result[i][n])
      <2> DEFINE r == result[i][n]
      <2>1. /\ status[i] = "PROCESSING"
            /\ lease[i] = n
            /\ attemptCount[i] = n
          BY <1>7 DEF HoldsLease, LeaseIsNewestAttempt, Attempt
      <2>2. /\ status'[i] = NextStatus(n, r)
            /\ lease'[i] = 0
            /\ attempt'[i][n] = r
          BY <1>7 DEF FinalizeWrites, TypeOK
      <2>3. \A j \in Intent :
              j # i => /\ status'[j] = status[j]
                       /\ lease'[j] = lease[j]
                       /\ attempt'[j] = attempt[j]
          BY <1>7 DEF FinalizeWrites, TypeOK
      <2>4. \A m \in Attempt : m # n => attempt'[i][m] = attempt[i][m]
          BY <1>7 DEF FinalizeWrites, TypeOK
      <2>5. status'[i] \in Terminal \cup {"FAILED_RETRYABLE"}
          BY <1>1, <2>2, NextStatusType
      <2>6. LeaseIsNewestAttempt'
          BY <1>5, <2>2, <2>3, <2>5 DEF LeaseIsNewestAttempt, Terminal
      <2>7. UnclaimedHasNoAttempts'
          BY <1>5, <2>3, <2>5 DEF UnclaimedHasNoAttempts, Terminal
      <2>8. TaskRowsUnsettled'
          BY <1>2, <2>3, <2>4 DEF TaskRowsUnsettled
      <2>9. HistoryAgreesWithIntent'
          <3>1. \A m \in Attempt :
                  /\ m > attemptCount'[i] => attempt'[i][m] = "none"
                  /\ m < attemptCount'[i] =>
                       attempt'[i][m] \in Unsettled \cup {"RETRYABLE_FAILURE"}
                  /\ m = attemptCount'[i] =>
                       /\ status'[i] # "PROCESSING"
                       /\ attempt'[i][m] \in ProviderStatus
                       /\ status'[i] = NextStatus(m, attempt'[i][m])
              BY <1>1, <1>5, <2>1, <2>2, <2>4, <2>5
                 DEF HistoryAgreesWithIntent, Terminal, Attempt
          <3>2. \A j \in Intent : j # i =>
                  attemptCount'[j] = attemptCount[j]
              BY <1>5
          <3> QED
              BY <2>3, <3>1, <3>2
                 DEF HistoryAgreesWithIntent, NextStatus, ShouldRetry
      <2> QED
          BY <1>6, <2>6, <2>7, <2>8, <2>9 DEF RowsAndTasks
  <1>8. CASE UNCHANGED <<status, lease, elapsed, attempt, inbox, subscription>>
      <2>1. /\ LeaseIsNewestAttempt'
            /\ UnclaimedHasNoAttempts'
            /\ HistoryAgreesWithIntent'
          BY <1>5, <1>8
             DEF LeaseIsNewestAttempt, UnclaimedHasNoAttempts,
                 HistoryAgreesWithIntent
      <2>2. TaskRowsUnsettled'
          BY <1>2, <1>8 DEF TaskRowsUnsettled
      <2> QED
          BY <1>6, <2>1, <2>2 DEF RowsAndTasks
  <1> QED
      BY <1>7, <1>8 DEF FinalizeIntentResult

\* A crash only ends tasks.
LEMMA CrashKeeps ==
  ASSUME IInv, NEW w \in Worker, Crash(w)
  PROVE  RowsAndTasks'
  <1> USE DEF IInv
  <1>1. \A i \in Intent, n \in Attempt :
          \/ pc'[i][n] = pc[i][n]
          \/ pc'[i][n] = "dead" /\ pc[i][n] \notin Finished
      BY DEF Crash
  <1>2. UNCHANGED <<status, attemptCount, lease, attempt, owner, result>>
      BY DEF Crash, rows
  <1>3. /\ LeaseIsNewestAttempt'
        /\ HistoryAgreesWithIntent'
        /\ UnclaimedHasNoAttempts'
      BY <1>2 DEF LeaseIsNewestAttempt, HistoryAgreesWithIntent,
                  UnclaimedHasNoAttempts
  <1>4. /\ TasksWereClaimed'
        /\ TasksHaveOwner'
        /\ TaskRowsUnsettled'
        /\ ResultsKnown'
      BY <1>1, <1>2 DEF TasksWereClaimed, TasksHaveOwner, TaskRowsUnsettled,
                        ResultsKnown, Finished
  <1> QED
      BY <1>3, <1>4 DEF RowsAndTasks

\* Projection creates the intent, or leaves it alone.
LEMMA ProjectKeeps ==
  ASSUME IInv, NEW w \in Worker, NEW i \in Intent, ProjectEvent(w, i)
  PROVE  RowsAndTasks'
  <1> USE DEF IInv
  <1>1. UNCHANGED <<attemptCount, lease, attempt, tasks>>
      BY DEF ProjectEvent
  <1>2. CASE status' = status
      BY <1>1, <1>2, UntouchedTables
  <1>3. CASE status[i] = "absent" /\ status' = [status EXCEPT ![i] = "QUEUED"]
      <2>1. attemptCount[i] = 0 /\ lease[i] = 0
          BY <1>3 DEF UnclaimedHasNoAttempts, LeaseIsNewestAttempt
      <2>2. /\ status'[i] = "QUEUED"
            /\ \A j \in Intent : j # i => status'[j] = status[j]
          BY <1>3 DEF TypeOK
      <2>3. LeaseIsNewestAttempt' /\ UnclaimedHasNoAttempts'
          BY <1>1, <2>1, <2>2 DEF LeaseIsNewestAttempt, UnclaimedHasNoAttempts
      <2>4. HistoryAgreesWithIntent'
          BY <1>1, <2>1, <2>2 DEF HistoryAgreesWithIntent, Attempt
      <2>5. /\ TasksWereClaimed'
            /\ TasksHaveOwner'
            /\ TaskRowsUnsettled'
            /\ ResultsKnown'
          BY <1>1 DEF TasksWereClaimed, TasksHaveOwner, TaskRowsUnsettled,
                      ResultsKnown, tasks
      <2> QED
          BY <2>3, <2>4, <2>5 DEF RowsAndTasks
  <1> QED
      BY <1>2, <1>3 DEF ProjectEvent

\* Every step of a running task but the last.
LEMMA TaskKeeps ==
  ASSUME IInv, NEW i \in Intent, NEW n \in Attempt,
         \/ TaskStep(i, n) /\ ~FinalizeIntentResult(i, n)
         \/ TaskThrows(i, n)
         \/ TaskCatches(i, n)
  PROVE  RowsAndTasks'
  <1> USE DEF IInv
  <1>u. {"CLAIMED", "DISPATCH_STARTED", "PROVIDER_CALL_STARTED"} \subseteq Unsettled
      BY DEF Unsettled
  <1>1. CASE MarkDispatchStarted(i, n)
      <2>1. PICK next \in {"dispatched", "done"} : GoTo(i, n, next)
          BY <1>1 DEF MarkDispatchStarted
      <2>2. /\ attempt' = [attempt EXCEPT ![i][n] = "DISPATCH_STARTED"]
            /\ result' = result
            /\ pc[i][n] = "claimed"
            /\ UNCHANGED <<status, attemptCount, lease, owner>>
          BY <1>1 DEF MarkDispatchStarted
      <2> QED
          BY <1>u, <2>1, <2>2, RunningTaskMoves DEF PCs, Finished
  <1>2. CASE MarkProviderCallStarted(i, n)
      <2>1. PICK next \in {"started"} : GoTo(i, n, next)
          BY <1>2 DEF MarkProviderCallStarted
      <2>2. /\ attempt' = [attempt EXCEPT ![i][n] = "PROVIDER_CALL_STARTED"]
            /\ result' = result
            /\ pc[i][n] = "dispatched"
            /\ UNCHANGED <<status, attemptCount, lease, owner>>
          BY <1>2 DEF MarkProviderCallStarted
      <2> QED
          BY <1>u, <2>1, <2>2, RunningTaskMoves DEF PCs, Finished
  <1>3. CASE RevalidateReminder(i, n)
      BY <1>3, <1>u, RunningTaskMoves
         DEF RevalidateReminder, PCs, Finished, rows
  <1>4. CASE SuppressOccurrence(i, n)
      <2>1. result'[i][n] = "SUPPRESSED"
          BY <1>4 DEF SuppressOccurrence, TypeOK
      <2> QED
          BY <1>4, <1>u, <2>1, RunningTaskMoves
             DEF SuppressOccurrence, PCs, Finished, ProviderStatus
  <1>5. CASE CheckRecoveredAmbiguous(i, n)
      <2>1. RecoveredAmbiguous(i, n) => result'[i][n] = "AMBIGUOUS"
          BY <1>5 DEF CheckRecoveredAmbiguous, TypeOK
      <2> QED
          BY <1>5, <1>u, <2>1, RunningTaskMoves
             DEF CheckRecoveredAmbiguous, PCs, Finished, ProviderStatus, rows
  <1>6. CASE LookupReceipt(i, n)
      <2>1. /\ owner[i][n] \in Worker
            /\ ledger[owner[i][n]][i] \in ProviderStatus \cup {"none"}
            /\ receipt[i] \in ProviderStatus \cup {"none"}
          BY <1>6 DEF LookupReceipt, TasksHaveOwner, TypeOK
      <2>2. CASE /\ GoTo(i, n, "sending")
                 /\ result' = result
          BY <1>6, <1>u, <2>2, RunningTaskMoves
             DEF LookupReceipt, PCs, Finished, rows
      <2>3. CASE \E v \in ProviderStatus :
                   /\ result' = [result EXCEPT ![i][n] = v]
                   /\ GoTo(i, n, "persisting")
          <3>1. PICK v \in ProviderStatus :
                   /\ result' = [result EXCEPT ![i][n] = v]
                   /\ GoTo(i, n, "persisting")
              BY <2>3
          <3>2. result'[i][n] \in ProviderStatus
              BY <3>1 DEF TypeOK
          <3> QED
              BY <1>6, <1>u, <3>1, <3>2, RunningTaskMoves
                 DEF LookupReceipt, PCs, Finished, rows
      <2> QED
          BY <1>6, <2>1, <2>2, <2>3 DEF LookupReceipt
  <1>7. CASE SendToProvider(i, n)
      <2>1. PICK v \in ProviderStatus : result' = [result EXCEPT ![i][n] = v]
          BY <1>7, ConstantsAssumption
             DEF SendToProvider, ProviderStatus, ConstantsAssumption
      <2>2. result'[i][n] \in ProviderStatus
          BY <2>1 DEF TypeOK
      <2> QED
          BY <1>7, <1>u, <2>1, <2>2, RunningTaskMoves
             DEF SendToProvider, PCs, Finished, rows
  <1>8. CASE PersistReceipt(i, n)
      <2>1. result[i][n] \in ProviderStatus
          BY <1>8 DEF PersistReceipt, ResultsKnown
      <2> QED
          BY <1>8, <1>u, <2>1, RunningTaskMoves
             DEF PersistReceipt, PCs, Finished
  <1>9. CASE TaskThrows(i, n)
      BY <1>9, <1>u, RunningTaskMoves
         DEF TaskThrows, PCs, Finished, rows
  <1>10. CASE TaskCatches(i, n)
      <2>1. PICK v \in ProviderStatus : result' = [result EXCEPT ![i][n] = v]
          BY <1>10 DEF TaskCatches, MapThrown, ProviderStatus
      <2>2. result'[i][n] \in ProviderStatus
          BY <2>1 DEF TypeOK
      <2> QED
          BY <1>10, <1>u, <2>1, <2>2, RunningTaskMoves
             DEF TaskCatches, PCs, Finished, rows
  <1> QED
      BY <1>1, <1>2, <1>3, <1>4, <1>5, <1>6, <1>7, <1>8, <1>9, <1>10
         DEF TaskStep

\* Before anything is claimed the invariant holds trivially.
LEMMA InitIInv == Init => IInv
  BY InitTypeOK, ConstantsAssumption
     DEF Init, IInv, LeaseIsNewestAttempt, HistoryAgreesWithIntent,
         UnclaimedHasNoAttempts, TasksWereClaimed, TasksHaveOwner,
         TaskRowsUnsettled, ResultsKnown, Attempt, ConstantsAssumption

\* Every step of the worker, the clock and the faults keeps the invariant.
LEMMA NextIInv == IInv /\ [Next]_vars => IInv'
  <1> SUFFICES ASSUME IInv, [Next]_vars PROVE RowsAndTasks'
      BY TypeStep DEF IInv, RowsAndTasks
  <1>1. CASE UNCHANGED <<status, attemptCount, lease, attempt, tasks>>
      BY <1>1, UntouchedTables
  <1>2. CASE \/ \E i \in Intent : EmitEvent(i) \/ DeadlinePasses(i)
             \/ \E s \in Subscription : RevokeSubscription(s) \/ RegisterSubscription(s)
             \/ \E w \in Worker : FetchPending(w) \/ EndTick(w) \/ TickFails(w)
             \/ UNCHANGED vars
      <2>1. UNCHANGED <<status, attemptCount, lease, attempt, tasks>>
          BY <1>2 DEF EmitEvent, DeadlinePasses, RevokeSubscription, RegisterSubscription,
                      FetchPending, EndTick, TickFails, vars, rows
      <2> QED
          BY <2>1, UntouchedTables
  <1>3. CASE \E w \in Worker : Crash(w)
      BY <1>3, CrashKeeps
  <1>4. CASE \E w \in Worker, i \in Intent : ProjectEvent(w, i)
      BY <1>4, ProjectKeeps
  <1>5. CASE \E w \in Worker : ClaimIntents(w)
      BY <1>5, ClaimKeeps
  <1>6. CASE \E i \in Intent, n \in Attempt : FinalizeIntentResult(i, n)
      BY <1>6, FinalizeKeeps
  <1>7. CASE \E i \in Intent, n \in Attempt :
               \/ TaskStep(i, n) /\ ~FinalizeIntentResult(i, n)
               \/ TaskThrows(i, n)
               \/ TaskCatches(i, n)
      BY <1>7, TaskKeeps
  <1> QED
      BY <1>2, <1>3, <1>4, <1>5, <1>6, <1>7 DEF Next

\* The inductive invariant holds in every reachable state.
LEMMA InvariantIInv == Spec => []IInv
  BY InitIInv, NextIInv, PTL DEF Spec

-----------------------------------------------------------------------------
(* The theorems.                                                            *)

\* The rows, tasks and program counters stay in their types.
THEOREM TypeCorrect == Spec => []TypeOK
  <1>1. IInv => TypeOK
      BY DEF IInv
  <1> QED
      BY <1>1, InvariantIInv, PTL

\* A lease always belongs to the newest claim, for every number of workers.
THEOREM LeaseSafety == Spec => []LeaseIsNewestAttempt
  <1>1. IInv => LeaseIsNewestAttempt
      BY DEF IInv
  <1> QED
      BY <1>1, InvariantIInv, PTL

\* The newest attempt carries the intent's outcome, whatever stale tasks do.
THEOREM HistorySafety == Spec => []HistoryAgreesWithIntent
  <1>1. IInv => HistoryAgreesWithIntent
      BY DEF IInv
  <1> QED
      BY <1>1, InvariantIInv, PTL

\* Only projection, claims and finalizations write the status column, and none
\* of them starts from a terminal status.
LEMMA StatusWriters ==
  ASSUME [Next]_vars
  PROVE  \/ status' = status
         \/ \E w \in Worker, j \in Intent : ProjectEvent(w, j)
         \/ \E w \in Worker : ClaimIntents(w)
         \/ \E j \in Intent, n \in Attempt : FinalizeIntentResult(j, n)
  <1>1. CASE \/ \E i \in Intent : EmitEvent(i) \/ DeadlinePasses(i)
             \/ \E s \in Subscription : RevokeSubscription(s) \/ RegisterSubscription(s)
             \/ \E w \in Worker : \/ FetchPending(w) \/ EndTick(w)
                                 \/ TickFails(w) \/ Crash(w)
             \/ UNCHANGED vars
      BY <1>1 DEF EmitEvent, DeadlinePasses, RevokeSubscription, RegisterSubscription, FetchPending,
                  EndTick, TickFails, Crash, vars, rows
  <1>2. CASE \E i \in Intent, n \in Attempt :
               TaskThrows(i, n) \/ TaskCatches(i, n)
      BY <1>2 DEF TaskThrows, TaskCatches, rows
  <1>3. ASSUME NEW i \in Intent, NEW n \in Attempt, TaskStep(i, n)
        PROVE  status' = status \/ FinalizeIntentResult(i, n)
      BY <1>3 DEF TaskStep, MarkDispatchStarted, MarkProviderCallStarted,
                  RevalidateReminder, SuppressOccurrence,
                  CheckRecoveredAmbiguous, LookupReceipt, SendToProvider,
                  PersistReceipt, rows
  <1> QED
      BY <1>1, <1>2, <1>3 DEF Next

\* No step starts from a terminal status.
LEMMA TerminalStep ==
  ASSUME IInv, [Next]_vars, NEW i \in Intent, status[i] \in Terminal
  PROVE  status'[i] = status[i]
  <1>1. status[i] \notin {"absent", "QUEUED", "FAILED_RETRYABLE", "PROCESSING"}
      BY DEF Terminal
  <1>2. CASE status' = status
      BY <1>2
  <1>3. CASE \E w \in Worker, j \in Intent : ProjectEvent(w, j)
      BY <1>1, <1>3 DEF ProjectEvent, IInv, TypeOK
  <1>4. CASE \E w \in Worker : ClaimIntents(w)
      <2>1. ~Claimable(i)
          BY <1>1 DEF Claimable, Waiting
      <2>2. \A c \in ClaimCandidates : i \notin c
          BY <2>1 DEF ClaimCandidates
      <2> QED
          BY <1>4, <2>2 DEF ClaimIntents, Claimed
  <1>5. CASE \E j \in Intent, n \in Attempt : FinalizeIntentResult(j, n)
      BY <1>1, <1>5 DEF FinalizeIntentResult, HoldsLease, FinalizeWrites,
                        IInv, TypeOK
  <1> QED
      BY <1>2, <1>3, <1>4, <1>5, StatusWriters

\* A settled intent never changes again.
THEOREM TerminalSafety == Spec => TerminalIsFinal
  <1>1. IInv /\ [Next]_vars =>
          [\A i \in Intent : status[i] \in Terminal => status'[i] = status[i]]_vars
      BY TerminalStep
  <1> QED
      BY <1>1, InvariantIInv, PTL DEF Spec, TerminalIsFinal
=============================================================================
