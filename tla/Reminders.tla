------------------------------ MODULE Reminders ------------------------------
(***************************************************************************)
(* Mission reminders from the preference to the push: the schedulers of    *)
(* reminder-scheduler.ts, the settings they read (ReminderPreferences),    *)
(* and the worker's revalidation of a reminder before it is sent.          *)
(*                                                                         *)
(* A scheduler reads a batch of preferences, and for each of them decides  *)
(* (reads) and writes (one transaction) the occurrence of the client's     *)
(* local date.  Leases, overlapping attempts and receipts of a delivery    *)
(* are NotificationWorker's; here a delivery is the sequence of the reads  *)
(* and transactions of one attempt after the other.                        *)
(***************************************************************************)
EXTENDS ReminderPreferences

CONSTANTS
    Scheduler,          \* scheduler processes
    BatchSize,          \* SCHEDULER_BATCH_SIZE
    Lookahead,          \* SCHEDULER_LOOKAHEAD_MINUTES
    LastDate,           \* the last local date an instant may have
    MaxFaults           \* bound on failing batches

ASSUME RemindersAssumption ==
    /\ BatchSize \in Nat \ {0}
    /\ Lookahead \in Nat
    /\ MaxFaults \in Nat
    /\ LastDate \in Nat
    /\ \A t \in 0..MaxNow, z \in Zone : LocalDate(t, z) \in 0..LastDate

VARIABLES
    zone,               \* time zone of a client
    finished,           \* (client, date): nothing is left to remind of
    occ,                \* reminder occurrence of a client and a date
    delivery,           \* outbox event and dispatch of an occurrence
    sched,              \* control state of a scheduler
    faults

\* What neither a scheduler nor the worker changes.
world == <<now, settings, tab, requests, zone, finished>>

vars == <<world, occ, delivery, sched, faults>>

Date == 0..LastDate

NoOccurrence == [status |-> "none"]

\* What a scheduler decides, and what the row may become.
Decision == [zone : Zone, at : Int, until : Int,
             status : {"PLANNED", "SUPPRESSED", "EXPIRED"}]

Occurrence == [zone : Zone, at : Int, until : Int,
               status : {"PLANNED", "INTENT_CREATED", "SUPPRESSED", "EXPIRED"}]

Row == [client : Client, time : LocalTimes, enabledAt : 0..MaxNow, zone : Zone]

Rows == Seq(Row) \ {<<>>}

\* "none": no outbox event; "event": PENDING; then the open intent and what the
\* revalidation of its current attempt has read so far: a reason to suppress it
\* ("refused"), or its expiry ("lapsed"); "closing": that attempt has closed the
\* occurrence, but not yet the intent; "sent" and "closed" are final.
Stage == {"none", "event", "intent", "asked", "reached", "cleared", "refused",
          "lapsed", "closing", "sent", "closed"}

SchedulerState ==
    [pc : {"off", "idle"}]
        \cup [pc : {"batch"}, rows : Rows]
        \cup [pc : {"decided"}, rows : Rows, date : Date, plan : Decision]

TypeOK ==
    /\ SettingsTypeOK
    /\ zone \in [Client -> Zone]
    /\ finished \in SUBSET (Client \X Date)
    /\ occ \in [Client -> [Date -> Occurrence \cup {NoOccurrence}]]
    /\ delivery \in [Client -> [Date -> [stage : Stage, zone : Zone]]]
    /\ sched \in [Scheduler -> SchedulerState]
    /\ faults \in 0..MaxFaults

Polling == [pc |-> "idle"]

\* SCHEDULER_ENABLED is false for this process.
Off == [pc |-> "off"]

Init ==
    /\ SettingsInit
    /\ zone \in [Client -> Zone]
    /\ finished = {}
    /\ occ = [c \in Client |-> [d \in Date |-> NoOccurrence]]
    /\ delivery = [c \in Client |->
                     [d \in Date |-> [stage |-> "none", zone |-> zone[c]]]]
    /\ sched \in [Scheduler -> {Polling, Off}]
    /\ faults = 0

----------------------------------------------------------------------------
(* The scheduler.                                                          *)

RowOf(c) == [client |-> c, time |-> pref[c].time, enabledAt |-> pref[c].enabledAt,
             zone |-> zone[c]]

\* faulty: the batch stops one row short
BatchShort ==
    [i \in 1..(IF Len(queue) < BatchSize THEN Len(queue) ELSE BatchSize - 1) |->
       RowOf(queue[i])]

\* The preferences of a batch, oldest first, with their clients' rows.
BatchRows ==
    [i \in 1..(IF Len(queue) < BatchSize THEN Len(queue) ELSE BatchSize) |->
       RowOf(queue[i])]

\* faulty: the end of the batch is not noticed
Endless(rows) == [pc |-> "batch", rows |-> rows]

\* A batch without rows is over; the next poll begins another.
Begin(rows) == IF rows = <<>> THEN Polling ELSE [pc |-> "batch", rows |-> rows]

FetchPreferences(s) ==
    /\ sched[s] = Polling
    /\ sched' = [sched EXCEPT ![s] = Begin(BatchRows)]
    /\ UNCHANGED <<world, occ, delivery, faults>>

Today(r) == LocalDate(now, r.zone)

ReminderWindow(r) == Window(Today(r), r.time, r.zone)

\* Reminders were on before the time of today's reminder, which is near or past.
IsDue(r) ==
    /\ r.enabledAt <= ReminderWindow(r).at
    /\ ReminderWindow(r).at - Lookahead <= now

\* faulty: only the key of the date is looked up
HasOccurrence(r) == occ[r.client][Today(r)] # NoOccurrence

\* An occurrence that falls on today's date in the zone of the row, whatever
\* zone it was planned in.
HasEquivalent(r) ==
    \E d \in Date : /\ occ[r.client][d] # NoOccurrence
                    /\ LocalDate(occ[r.client][d].at, r.zone) = Today(r)

\* hasEligibleMissionContent finds nothing, the cap of the date is reached, or
\* a mission of the date is completed.
NothingToAsk(c, d) == <<c, d>> \in finished

DecidedStatus(r) ==
    CASE now > ReminderWindow(r).until -> "EXPIRED"
      [] /\ now <= ReminderWindow(r).until
         /\ \/ InQuietHours(LocalTimeAt(now, r.zone))
            \/ Devices(r.client) = {}
            \/ NothingToAsk(r.client, Today(r)) -> "SUPPRESSED"
      [] OTHER -> "PLANNED"

Planned(r) == [zone |-> r.zone, at |-> ReminderWindow(r).at,
               until |-> ReminderWindow(r).until, status |-> DecidedStatus(r)]

SkipPreference(s) ==
    /\ sched[s].pc = "batch"
    /\ ~IsDue(Head(sched[s].rows)) \/ HasEquivalent(Head(sched[s].rows))
    /\ sched' = [sched EXCEPT ![s] = Begin(Tail(sched[s].rows))]
    /\ UNCHANGED <<world, occ, delivery, faults>>

\* The lookup of the occurrence, of the devices and of what is left of the day
\* is one step: all that comes of it is the plan.
DecideOccurrence(s) ==
    LET r == Head(sched[s].rows)
    IN  /\ sched[s].pc = "batch"
        /\ IsDue(r)
        /\ ~HasEquivalent(r)
        /\ sched' = [sched EXCEPT ![s] =
             [pc |-> "decided", rows |-> sched[s].rows, date |-> Today(r),
              plan |-> Planned(r)]]
        /\ UNCHANGED <<world, occ, delivery, faults>>

\* faulty: the row that is there is overwritten
Overwritten(c, d, o) == o

\* createMany skipDuplicates keeps the row that is there; the status that
\* counts is the one read back.
Stored(c, d, o) == IF occ[c][d] = NoOccurrence THEN o ELSE occ[c][d]

\* The upsert of the outbox event leaves an existing one alone.
WithEvent(c, d, o) ==
    IF o.status = "PLANNED" /\ delivery[c][d].stage = "none"
    THEN [delivery EXCEPT ![c][d].stage = "event"]
    ELSE delivery

WriteOccurrence(s) ==
    LET c == Head(sched[s].rows).client
        d == sched[s].date
        o == Stored(c, d, sched[s].plan)
    IN  /\ sched[s].pc = "decided"
        /\ occ' = [occ EXCEPT ![c][d] = o]
        /\ delivery' = WithEvent(c, d, o)
        /\ sched' = [sched EXCEPT ![s] = Begin(Tail(sched[s].rows))]
        /\ UNCHANGED <<world, faults>>

\* A statement throws, or the process dies: the rest of the batch is dropped,
\* and the next poll begins a new one.
FailBatch(s) ==
    /\ sched[s].pc \in {"batch", "decided"}
    /\ faults < MaxFaults
    /\ faults' = faults + 1
    /\ sched' = [sched EXCEPT ![s] = Polling]
    /\ UNCHANGED <<world, occ, delivery>>

SchedulerStep(s) ==
    FetchPreferences(s) \/ SkipPreference(s) \/ DecideOccurrence(s)
        \/ WriteOccurrence(s)

----------------------------------------------------------------------------
(* The worker: one read of the revalidation after the other.               *)

At(c, d, stage) == delivery[c][d].stage = stage

\* projectOutboxEventToIntent, once the event is available: the intent, and its
\* id in the occurrence, in one transaction.  To project the event again changes
\* nothing, for the occurrence has an intent by then.
ProjectEvent(c, d) ==
    /\ At(c, d, "event")
    /\ occ[c][d].at <= now
    /\ delivery' = [delivery EXCEPT ![c][d].stage = "intent"]
    /\ occ' = [occ EXCEPT ![c][d].status = "INTENT_CREATED"]
    /\ UNCHANGED <<world, sched, faults>>

Advance(c, d, stage) ==
    /\ delivery' = [delivery EXCEPT ![c][d].stage = stage]
    /\ UNCHANGED <<world, occ, sched, faults>>

\* The client with its zone, the preference, and the clock.
ReadPreference(c, d) ==
    /\ At(c, d, "intent")
    /\ \/ /\ ~pref[c].enabled
          /\ Advance(c, d, "refused")
       \/ /\ pref[c].enabled
          /\ now > occ[c][d].until
          /\ Advance(c, d, "lapsed")
       \/ /\ pref[c].enabled
          /\ now <= occ[c][d].until
          /\ InQuietHours(LocalTimeAt(now, occ[c][d].zone))
          /\ Advance(c, d, "refused")
       \/ /\ pref[c].enabled
          /\ now <= occ[c][d].until
          /\ ~InQuietHours(LocalTimeAt(now, occ[c][d].zone))
          /\ delivery' = [delivery EXCEPT ![c][d] = [stage |-> "asked",
                                                    zone |-> zone[c]]]
          /\ UNCHANGED <<world, occ, sched, faults>>

ReadDevices(c, d) ==
    /\ At(c, d, "asked")
    /\ \/ Devices(c) = {} /\ Advance(c, d, "refused")
       \/ Devices(c) # {} /\ Advance(c, d, "reached")

\* Ledger, missions and questions of the date in the zone that was read first.
ReadDay(c, d) ==
    LET today == LocalDate(now, delivery[c][d].zone)
    IN  /\ At(c, d, "reached")
        /\ \/ NothingToAsk(c, today) /\ Advance(c, d, "refused")
           \/ ~NothingToAsk(c, today) /\ Advance(c, d, "cleared")

\* The first transaction of suppressReminderIntent: the occurrence alone.
SuppressOccurrence(c, d) ==
    /\ delivery[c][d].stage \in {"refused", "lapsed"}
    /\ delivery' = [delivery EXCEPT ![c][d].stage = "closing"]
    /\ occ' = [occ EXCEPT ![c][d].status =
                  IF At(c, d, "lapsed") THEN "EXPIRED" ELSE "SUPPRESSED"]
    /\ UNCHANGED <<world, sched, faults>>

\* The second, in finalizeIntentResult: the intent.
FinalizeSuppressed(c, d) == At(c, d, "closing") /\ Advance(c, d, "closed")

Send(c, d) == At(c, d, "cleared") /\ Advance(c, d, "sent")

\* A crash, a lost lease or a retryable failure: the next attempt revalidates
\* afresh, and does not look at the status of the occurrence.
Retry(c, d) ==
    /\ delivery[c][d].stage \in {"asked", "reached", "cleared", "refused",
                                 "lapsed", "closing"}
    /\ Advance(c, d, "intent")

WorkerStep(c, d) ==
    \/ ProjectEvent(c, d)
    \/ ReadPreference(c, d)
    \/ ReadDevices(c, d)
    \/ ReadDay(c, d)
    \/ SuppressOccurrence(c, d)
    \/ FinalizeSuppressed(c, d)
    \/ Send(c, d)
    \/ Retry(c, d)

----------------------------------------------------------------------------
(* The client's other doings.                                              *)

\* completeOnboarding stores another zone.
ChangeZone(c, z) ==
    /\ zone[c] # z
    /\ Counted
    /\ zone' = [zone EXCEPT ![c] = z]
    /\ UNCHANGED <<now, settings, tab, finished, occ, delivery, sched, faults>>

\* The client completes a mission of the day, or spends its questions.
FinishDay(c) ==
    /\ ~NothingToAsk(c, LocalDate(now, zone[c]))
    /\ Counted
    /\ finished' = finished \cup {<<c, LocalDate(now, zone[c])>>}
    /\ UNCHANGED <<now, settings, tab, zone, occ, delivery, sched, faults>>

\* A decision is written within a tick of the clock.
Prompt == \A s \in Scheduler : sched[s].pc # "decided"

Next ==
    \/ /\ SettingsStep \/ (Tick /\ Prompt)
       /\ UNCHANGED <<zone, finished, occ, delivery, sched, faults>>
    \/ \E s \in Scheduler : SchedulerStep(s) \/ FailBatch(s)
    \/ \E c \in Client, d \in Date : WorkerStep(c, d)
    \/ \E c \in Client : FinishDay(c) \/ \E z \in Zone : ChangeZone(c, z)

Spec == Init /\ [][Next]_vars

\* A running scheduler polls, and a batch gets on with its preferences.
FairSpec == Spec /\ \A s \in Scheduler : WF_vars(SchedulerStep(s))

----------------------------------------------------------------------------
(* Properties.                                                             *)

\* An occurrence waits for its outbox event exactly while it is PLANNED, also
\* when the scheduler that lost the race had decided something else; one that
\* was stored otherwise never gets an event, and an intent is closed only after
\* its occurrence.  The converse fails: an attempt may stop between the two
\* transactions of a suppression, and the next one may send the reminder.
\* (the transaction of planOccurrenceForPreference, suppressReminderIntent)
EventIffPlanned ==
    \A c \in Client, d \in Date :
        LET stage == delivery[c][d].stage
            status == occ[c][d].status
        IN  /\ stage = "event" <=> status = "PLANNED"
            /\ stage = "none" => status \in {"none", "SUPPRESSED", "EXPIRED"}
            /\ status = "none" => stage = "none"
            /\ stage \in {"closing", "closed"}
                 => status \in {"SUPPRESSED", "EXPIRED"}

\* A new reminder never falls on the local date of another one in the zone it
\* is planned for, although the client may travel and schedulers race.
OneReminderADay ==
    [][\A c \in Client, d \in Date :
         delivery[c][d].stage = "none" /\ delivery'[c][d].stage = "event"
         => \A e \in Date \ {d} :
              delivery[c][e].stage # "none"
              => LocalDate(occ[c][e].at, occ'[c][d].zone) # d]_vars

\* The reminder times of two zones, as one clock shows them, lie within less
\* than a day, with the time a reminder is planned ahead or sent late.
ZonesNear ==
    \A y, z \in Zone, p, q \in ReminderTimes :
        \A a \in {OffsetBefore[y], OffsetAfter[y]},
           b \in {OffsetBefore[z], OffsetAfter[z]} :
            (p - q) + (b - a) + Lookahead + CatchUp < DayLength

\* When the worker finds a device, the client wants reminders at that moment,
\* although the preference was read earlier.
ReachedIsWanted ==
    [][\A c \in Client, d \in Date :
         At(c, d, "asked") /\ delivery'[c][d].stage = "reached"
         => pref[c].enabled]_vars

Due(c) == pref[c].enabled /\ IsDue(RowOf(c))

\* Today's reminder of a client is settled: it falls on today, or a reminder
\* planned in another zone has taken the key of the date.
Decided(c) ==
    LET r == RowOf(c)
    IN  HasEquivalent(r) \/ occ[c][Today(r)] # NoOccurrence

\* A client whose reminder stays due has it settled in the end, although
\* batches fail, schedulers race and other clients' preferences come first.
EveryDateIsDecided == \A c \in Client : <>[]Due(c) => <>[]Decided(c)
=============================================================================
