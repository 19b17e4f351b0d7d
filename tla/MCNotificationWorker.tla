------------------------ MODULE MCNotificationWorker ------------------------
(* Small instances of NotificationWorker.                                   *)
EXTENDS NotificationWorker, TLC

CONSTANTS staff, push, reminder, w1, w2, phone

\* A staff notification on the guaranteed in-app provider, a push to a
\* subscription through a provider without idempotency, and a reminder.
MCPush == {push, reminder} \cap Intent
MCReminder == {reminder} \cap Intent
MCSubscriptionOf == [i \in Intent |-> IF i \in MCPush THEN phone
                                                      ELSE NoSubscription]
MCMode == [i \in Intent |-> IF i = push THEN "NONE" ELSE "GUARANTEED"]

\* The scheduler writes pushSubscriptionId: null into every reminder event.
MCNoSubscription == [i \in Intent |-> NoSubscription]
MCOutcome == [i \in Intent |-> "SIMULATED"]

MCWorkers == Permutations({w1, w2})
=============================================================================
