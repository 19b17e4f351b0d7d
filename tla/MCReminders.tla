----------------------------- MODULE MCReminders -----------------------------
(* A small instance of Reminders for TLC. *)
EXTENDS Reminders, TLC

CONSTANTS c1, c2, e1, e2, t1, t2, s1, s2, west, east

\* A day of nine ticks; one zone is ahead of the other, and its clock goes
\* forward in the middle of the run.
MCBefore == west :> 0 @@ east :> 4
MCAfter == west :> 0 @@ east :> 5
MCTransition == west :> 0 @@ east :> 3

ASSUME MCZones == ZonesNear

Enabled(c, e) ==
    /\ pref = [x \in Client |->
                 [enabled |-> x = c, time |-> IF x = c THEN 4 ELSE QuietEnd,
                  enabledAt |-> 0]]
    /\ queue = <<c>>
    /\ sub = [x \in Endpoint |-> IF x = e THEN c ELSE NoClient]
    /\ consent = [x \in Client |-> IF x = c THEN "granted" ELSE "none"]

Blank ==
    /\ tab = [t \in Tab |-> Idle]
    /\ finished = {}
    /\ occ = [c \in Client |-> [d \in Date |-> NoOccurrence]]
    /\ delivery = [c \in Client |->
                     [d \in Date |-> [stage |-> "none", zone |-> zone[c]]]]

\* Two schedulers and a client who turned reminders on at time 0; one more
\* request, no failing batch, from just before the reminder on.
Racing ==
    /\ zone = [c \in Client |-> west]
    /\ now = 2 /\ requests = MaxRequests - 1 /\ faults = MaxFaults
    /\ sched = [s \in Scheduler |-> Polling]

\* One scheduler; clients who share endpoints, in the last ticks of the run.
Sharing ==
    /\ zone = [c \in Client |-> east]
    /\ now = MaxNow - 1 /\ requests = 0 /\ faults = 0
    /\ sched = [s \in Scheduler |-> IF s = s1 THEN Polling ELSE Off]

MCInit == (Racing \/ Sharing) /\ Enabled(c1, e1) /\ Blank

MCSpec ==
    /\ MCInit /\ [][Next]_vars
    /\ \A s \in Scheduler : WF_vars(SchedulerStep(s))
=============================================================================
