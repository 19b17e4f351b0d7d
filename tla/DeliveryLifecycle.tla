-------------------------- MODULE DeliveryLifecycle --------------------------
(***************************************************************************)
(* What the worker promises about one notification, without leases, tasks, *)
(* processes or time: a delivery is a log of at most MaxAttempts attempts. *)
(* Only the newest attempt is ever given an outcome, only once, and no     *)
(* attempt follows a final outcome.  The inbox row of an in-app            *)
(* notification appears together with the successful outcome.              *)
(* The intent's status column is a function of the log (StatusOf).         *)
(***************************************************************************)
EXTENDS Naturals, Sequences

CONSTANTS Intent, InApp, MaxAttempts

VARIABLES created, log, inbox

lifecycleVars == <<created, log, inbox>>

Final == {"DELIVERED", "SIMULATED", "SUPPRESSED", "PERMANENT_FAILURE",
          "INVALID_SUBSCRIPTION", "AMBIGUOUS"}

Outcomes == Final \cup {"RETRYABLE_FAILURE"}

Newest(entries) == entries[Len(entries)]

\* The status a log stands for.
StatusOf(entries) ==
    IF entries = <<>> THEN "QUEUED"
    ELSE CASE Newest(entries) = "open" -> "PROCESSING"
           [] Newest(entries) = "PERMANENT_FAILURE" -> "FAILED_PERMANENT"
           [] Newest(entries) = "RETRYABLE_FAILURE" ->
                IF Len(entries) < MaxAttempts THEN "FAILED_RETRYABLE"
                                              ELSE "FAILED_PERMANENT"
           [] OTHER -> Newest(entries)

Init ==
    /\ created = {}
    /\ log = [i \in Intent |-> <<>>]
    /\ inbox = {}

\* The intent of an outbox event comes into being, once.
Create(i) ==
    /\ i \notin created
    /\ created' = created \cup {i}
    /\ UNCHANGED <<log, inbox>>

\* A new attempt may begin on a waiting intent or on an attempt left open.
MayBegin(i) ==
    /\ i \in created
    /\ Len(log[i]) < MaxAttempts
    /\ StatusOf(log[i]) \in {"QUEUED", "FAILED_RETRYABLE", "PROCESSING"}

Begin(c) ==
    /\ \A i \in c : MayBegin(i)
    /\ log' = [i \in Intent |-> IF i \in c THEN Append(log[i], "open")
                                           ELSE log[i]]
    /\ UNCHANGED <<created, inbox>>

Settle(i, r) ==
    /\ StatusOf(log[i]) = "PROCESSING"
    /\ log' = [log EXCEPT ![i][Len(log[i])] = r]
    /\ inbox' = IF r \in {"SIMULATED", "DELIVERED"} /\ i \in InApp
                THEN inbox \cup {i} ELSE inbox
    /\ UNCHANGED created

Next ==
    \/ \E i \in Intent : Create(i)
    \/ \E c \in SUBSET Intent : Begin(c)
    \/ \E i \in Intent, r \in Outcomes : Settle(i, r)

Spec == Init /\ [][Next]_lifecycleVars
=============================================================================
