--------------------------- MODULE MissionEngine ---------------------------
(***************************************************************************)
(* The mission engine of apps/web for one client: missions are created     *)
(* under an advisory lock per local date, answers are saved as numbered    *)
(* revisions, and the transaction that sees every slot answered completes  *)
(* the mission, records a participation event, rebuilds the Honey profile  *)
(* and notifies the staff.  Onboarding changes the time zone and rebuilds  *)
(* the same profile.                                                       *)
(*                                                                         *)
(* A request is an HTTP handler running one service function.  Inside a    *)
(* transaction the database is READ COMMITTED: every statement sees what   *)
(* is committed by then and the writes of its own transaction, which the   *)
(* job of the request holds until the commit publishes them.  Statements   *)
(* are separate actions where another transaction can come between them    *)
(* and change what they read.                                              *)
(*                                                                         *)
(* The ledger is unique on (local date, question), and every slot has one  *)
(* ledger row: a slot is that pair, and a mission, which never changes     *)
(* after it is created, is the set of its slots.                           *)
(***************************************************************************)
EXTENDS Naturals, Sequences, FiniteSets, Functions

CONSTANTS
    Request,        \* concurrent handlers: tabs, devices, repeated posts
    Question,       \* question definitions that may be asked
    Value,          \* answers a slot may get
    Zone,           \* IANA time zones the client may choose
    HomeZone,       \* the time zone stored at registration
    LastDate,       \* bound: local dates 1 .. LastDate
    Size,           \* requestedSize of the mission kinds
    DailyCap,       \* questions per local date; a literal 12 in the code
    RewardSize,     \* rewardDependsOnlyOnParticipation: smallest size
    Reward,         \* reward definitions
    UnlockAt        \* points at which a reward is unlocked

ASSUME EngineAssumption ==
    /\ HomeZone \in Zone
    /\ IsFiniteSet(Question)
    /\ LastDate \in Nat \ {0}
    /\ Size \subseteq Nat \ {0}
    /\ DailyCap \in Nat
    /\ RewardSize \in Nat
    /\ UnlockAt \in [Reward -> Nat]

Date == 1 .. LastDate

Slot == Date \X Question

VARIABLES
    today,          \* the local date of each time zone
    zone,           \* Client.timeZone
    missions,       \* Mission rows with their MissionSlot and ledger rows
    completed,      \* missions in state COMPLETED; the others are ACTIVE
    revisions,      \* AnswerRevision values of a slot, by revisionNumber
    current,        \* revision AnswerCurrent points to, 0 for no row
    onboarded,      \* the ONBOARDING_COMPLETED participation event exists
    earned,         \* missions with a MISSION_COMPLETED participation event
    points,         \* HoneyProfile.totalPoints
    rewards,        \* RewardGrant rows
    notified,       \* missions whose staff outbox events exist
    job,            \* what each request is doing
    alone           \* no two requests have overlapped so far (history)

calendar == <<today, zone>>
answers == <<revisions, current>>
honey == <<onboarded, earned, points, rewards>>
vars == <<calendar, missions, completed, answers, honey, notified, job, alone>>

-----------------------------------------------------------------------------

Idle == [at |-> "idle"]

\* Frozen snapshots: one local date, at least one question.
Snapshot == {m \in SUBSET Slot : m # {} /\ \A s, t \in m : s[1] = t[1]}

Creating == [at : {"locking", "selecting"}, date : Date, size : Nat]
Chosen == [at : {"creating"}, date : Date, chosen : (SUBSET Question) \ {{}}]
Saving == [at : {"reading", "inserting", "counting", "committing",
                 "completing"},
           slot : Slot, value : Value, number : Nat]
Projecting == [at : {"projecting"}, slot : Slot, value : Value, number : Nat,
               seen : Nat]
Onboarding == [at : {"onboarding"}, zone : Zone, seen : Nat]

Job == {Idle} \cup Creating \cup Chosen \cup Saving \cup Projecting
              \cup Onboarding

Active == missions \ completed

Answered == {s \in Slot : revisions[s] # << >>}

\* definition ids of any answer revision of the client
AnsweredQuestions == {s[2] : s \in Answered}

\* daily ledger of a local date
Ledger(d) == {s \in UNION missions : s[1] = d}

MissionOf(s) == CHOOSE m \in missions : s \in m

\* Rows per column, and jobs; only the shapes.
TypeOK ==
    /\ today \in [Zone -> Date]
    /\ zone \in Zone
    /\ missions \subseteq Snapshot
    /\ completed \subseteq missions
    /\ revisions \in [Slot -> Seq(Value)]
    /\ current \in [Slot -> Nat]
    /\ onboarded \in BOOLEAN
    /\ earned \subseteq missions
    /\ points \in Nat
    /\ rewards \subseteq Reward
    /\ notified \subseteq missions
    /\ job \in [Request -> Job]

Init ==
    /\ today = [z \in Zone |-> 1]
    /\ zone = HomeZone
    /\ missions = {}
    /\ completed = {}
    /\ revisions = [s \in Slot |-> << >>]
    /\ current = [s \in Slot |-> 0]
    /\ onboarded = FALSE
    /\ earned = {}
    /\ points = 0
    /\ rewards = {}
    /\ notified = {}
    /\ job = [h \in Request |-> Idle]
    /\ alone = TRUE

\* A request takes a step, beside others that are in flight or alone.
Become(h, j) ==
    /\ job' = [job EXCEPT ![h] = j]
    /\ alone' = (alone /\ \A g \in Request \ {h} : job[g] = Idle)

-----------------------------------------------------------------------------
(* getOrCreateMission.                                                      *)

\* The local date is taken from the stored zone before the lock is requested.
StartMission(h, n) ==
    /\ job[h] = Idle
    /\ Become(h, [at |-> "locking", date |-> today[zone], size |-> n])
    /\ UNCHANGED <<calendar, missions, completed, answers, honey, notified>>

LockIgnored(h, d) == TRUE    \* faulty: no pg_advisory_xact_lock

\* pg_advisory_xact_lock(client, local date) is held until the commit.
LockFree(h, d) ==
    \A g \in Request \ {h} :
        ~(job[g].at \in {"selecting", "creating"} /\ job[g].date = d)

FoundToday(h) ==    \* faulty: the lookup is narrowed to the local date
    {m \in Active : \A s \in m : s[1] = job[h].date}

\* ACTIVE missions of the client, of any local date.
FoundActive(h) == Active

FindActiveMission(h) ==
    /\ job[h].at = "locking"
    /\ LockFree(h, job[h].date)
    /\ Become(h, IF FoundActive(h) # {} THEN Idle
                 ELSE [job[h] EXCEPT !.at = "selecting"])
    /\ UNCHANGED <<calendar, missions, completed, answers, honey, notified>>

Allocated(d, chosen) ==    \* faulty: an empty selection is no error
    [at |-> "creating", date |-> d, chosen |-> chosen]

\* An empty selection is DAILY_CAP_REACHED.
Selected(d, chosen) ==
    IF chosen = {} THEN Idle
    ELSE [at |-> "creating", date |-> d, chosen |-> chosen]

\* Approval, branch rules and pacing decide which open questions are eligible:
\* any selection within the size and the allowance is possible.
SelectQuestions(h) ==
    /\ job[h].at = "selecting"
    /\ LET d == job[h].date
           open == {q \in Question \ AnsweredQuestions : <<d, q>> \notin Ledger(d)}
       IN  \E chosen \in SUBSET open :
             /\ Cardinality(chosen) <= job[h].size
             /\ Cardinality(Ledger(d)) + Cardinality(chosen) <= DailyCap
             /\ Become(h, Selected(d, chosen))
    /\ UNCHANGED <<calendar, missions, completed, answers, honey, notified>>

\* Mission, slots, ledger rows and audit event, in one commit.
CreateMission(h) ==
    /\ job[h].at = "creating"
    /\ missions' = missions \cup {{job[h].date} \X job[h].chosen}
    /\ Become(h, Idle)
    /\ UNCHANGED <<calendar, completed, answers, honey, notified>>

-----------------------------------------------------------------------------
(* saveMissionAnswer, as the answer route calls it: the idempotency key of  *)
(* an answer is its slot and its value.                                     *)

SavedAfresh(s, v) == FALSE    \* faulty: every post makes a key of its own

AlreadySaved(s, v) == v \in Range(revisions[s])

\* A key that is already saved returns at once and changes nothing.
SubmitAnswer(h, s, v) ==
    /\ job[h] = Idle
    /\ s \in UNION Active
    /\ ~AlreadySaved(s, v)
    /\ Become(h, [at |-> "reading", slot |-> s, value |-> v, number |-> 0])
    /\ UNCHANGED <<calendar, missions, completed, answers, honey, notified>>

\* In the transaction: the duplicate check, then the count of revisions.
ReadSlot(h) ==
    LET j == job[h] IN
    /\ j.at = "reading"
    /\ Become(h, IF AlreadySaved(j.slot, j.value)
                 THEN [j EXCEPT !.at = "counting"]
                 ELSE [j EXCEPT !.at = "inserting",
                                !.number = Len(revisions[j.slot]) + 1])
    /\ UNCHANGED <<calendar, missions, completed, answers, honey, notified>>

\* Requests whose transaction has inserted a revision and not committed yet.
Writing(g) == /\ job[g].at \in {"counting", "committing", "completing",
                                "projecting"}
              /\ job[g].number > 0

NumberUnchecked(h) == TRUE    \* faulty: no unique (missionSlotId, revisionNumber)

\* The unique index waits for an uncommitted row of the same slot.
NumberFree(h) == Len(revisions[job[h].slot]) < job[h].number

\* Revision, AnswerCurrent and slot state; a taken number aborts the request.
InsertRevision(h) ==
    /\ job[h].at = "inserting"
    /\ \A g \in Request \ {h} : Writing(g) => job[g].slot # job[h].slot
    /\ Become(h, IF NumberFree(h) THEN [job[h] EXCEPT !.at = "counting"]
                                  ELSE Idle)
    /\ UNCHANGED <<calendar, missions, completed, answers, honey, notified>>

SeenCommitted(h) == Answered    \* faulty: counted outside the transaction

Seen(h) == IF job[h].number > 0 THEN Answered \cup {job[h].slot} ELSE Answered

\* faulty: one answered slot too few is enough
AlmostAnswered(h) ==
    Cardinality(MissionOf(job[h].slot)) <=
        Cardinality(MissionOf(job[h].slot) \cap Seen(h)) + 1

\* answeredCount >= requestedSize
AllAnswered(h) == MissionOf(job[h].slot) \subseteq Seen(h)

CountAnswered(h) ==
    /\ job[h].at = "counting"
    /\ Become(h, [job[h] EXCEPT !.at = IF AllAnswered(h) THEN "completing"
                                                          ELSE "committing"])
    /\ UNCHANGED <<calendar, missions, completed, answers, honey, notified>>

\* The commit publishes the revision, if this transaction wrote one.
PublishAnswer(j) ==
    IF j.number > 0
    THEN /\ revisions' = [revisions EXCEPT ![j.slot] = Append(@, j.value)]
         /\ current' = [current EXCEPT ![j.slot] = j.number]
    ELSE UNCHANGED answers

CommitAnswer(h) ==
    /\ job[h].at = "committing"
    /\ PublishAnswer(job[h])
    /\ Become(h, Idle)
    /\ UNCHANGED <<calendar, missions, completed, honey, notified>>

-----------------------------------------------------------------------------
(* Completion and the Honey profile: recordParticipationEvent reads the     *)
(* events, and only then writes the profile.                                *)

\* Every recorded event is worth one point and is recorded once.
TotalPoints(on, missionsDone) ==
    Cardinality(missionsDone) + (IF on THEN 1 ELSE 0)

Unlocked(n) == {r \in Reward : UnlockAt[r] <= n}

Earns(m) == Cardinality(m) >= RewardSize

ProjectedTwice(m) ==    \* faulty: the upsert's own event is counted again
    TotalPoints(onboarded, earned \cup {m}) + 1

ProjectedBefore(m) == TotalPoints(onboarded, earned)    \* faulty: read too early

\* The sum over the committed events and the event of this transaction.
Projected(m) == TotalPoints(onboarded, earned \cup {m})

\* mission.update locks the mission row until the commit.
CompleteMission(h) ==
    LET j == job[h]
        m == MissionOf(j.slot)
    IN
    /\ j.at = "completing"
    /\ \A g \in Request \ {h} :
          job[g].at = "projecting" => MissionOf(job[g].slot) # m
    /\ Become(h, [at |-> "projecting", slot |-> j.slot, value |-> j.value,
                  number |-> j.number,
                  seen |-> IF Earns(m) THEN Projected(m) ELSE 0])
    /\ UNCHANGED <<calendar, missions, completed, answers, honey, notified>>

\* faulty: the grants are recomputed with the profile
StoreRecomputed(n) ==
    /\ points' = n
    /\ rewards' = Unlocked(n)

\* The profile upsert overwrites the row with what was projected before.
StoreProfile(n) ==
    /\ points' = n
    /\ rewards' = rewards \cup Unlocked(n)

CommitCompletion(h) ==
    LET m == MissionOf(job[h].slot) IN
    /\ job[h].at = "projecting"
    /\ PublishAnswer(job[h])
    /\ completed' = completed \cup {m}
    /\ IF Earns(m)
       THEN /\ earned' = earned \cup {m}
            /\ StoreProfile(job[h].seen)
       ELSE UNCHANGED <<earned, points, rewards>>
    /\ notified' = notified \cup {m}
    /\ Become(h, Idle)
    /\ UNCHANGED <<calendar, missions, onboarded>>

\* completeOnboarding: the client row is locked until the commit.
StartOnboarding(h, z) ==
    /\ job[h] = Idle
    /\ \A g \in Request : job[g].at # "onboarding"
    /\ Become(h, [at |-> "onboarding", zone |-> z,
                  seen |-> TotalPoints(TRUE, earned)])
    /\ UNCHANGED <<calendar, missions, completed, answers, honey, notified>>

CommitOnboarding(h) ==
    /\ job[h].at = "onboarding"
    /\ zone' = job[h].zone
    /\ onboarded' = TRUE
    /\ StoreProfile(job[h].seen)
    /\ Become(h, Idle)
    /\ UNCHANGED <<today, missions, completed, answers, earned, notified>>

-----------------------------------------------------------------------------

\* A handler fails, times out or dies: its transaction is rolled back.
Abort(h) ==
    /\ job[h] # Idle
    /\ Become(h, Idle)
    /\ UNCHANGED <<calendar, missions, completed, answers, honey, notified>>

\* Midnight in a zone; from UTC-12 to UTC+14 the dates differ by two at most.
Midnight(z) ==
    /\ today[z] < LastDate
    /\ \A y \in Zone : today[z] <= today[y] + 1
    /\ today' = [today EXCEPT ![z] = @ + 1]
    /\ UNCHANGED <<zone, missions, completed, answers, honey, notified, job, alone>>

Next ==
    \/ \E h \in Request : \/ \E n \in Size : StartMission(h, n)
                          \/ FindActiveMission(h)
                          \/ SelectQuestions(h)
                          \/ CreateMission(h)
                          \/ \E s \in Slot, v \in Value : SubmitAnswer(h, s, v)
                          \/ ReadSlot(h)
                          \/ InsertRevision(h)
                          \/ CountAnswered(h)
                          \/ CommitAnswer(h)
                          \/ CompleteMission(h)
                          \/ CommitCompletion(h)
                          \/ \E z \in Zone : StartOnboarding(h, z)
                          \/ CommitOnboarding(h)
                          \/ Abort(h)
    \/ \E z \in Zone : Midnight(z)

Spec == Init /\ [][Next]_vars

-----------------------------------------------------------------------------
(* Safety under any number of concurrent requests.                          *)

\* However many tabs start missions, and whatever the zone and the clock do,
\* no local date is charged more than DailyCap questions, the number that
\* getOrCreateMission reads the ledger against.  The documents and the reminders
\* have a smaller one, see NoEleventhQuestion.
\* (advisory lock and ledger of getOrCreateMission)
DailyCapHolds == \A d \in Date : Cardinality(Ledger(d)) <= DailyCap

\* "A second tab cannot open an 11th distinct question."
\* (docs/ACCEPTANCE_TESTS.md:25): no local date is charged more than ten
\* questions, the number after which scheduler and worker drop a reminder.
\* With the code's allowance of 12 it fails for the first full mission.
NoEleventhQuestion == \A d \in Date : Cardinality(Ledger(d)) <= 10

\* A local date has at most one mission in progress.
OneActivePerDate ==
    \A l, m \in Active : (\E s \in l, t \in m : s[1] = t[1]) => l = m

\* AnswerCurrent always points to the newest revision, whichever of several
\* edits of the same answer commits last.
CurrentIsNewest == \A s \in Slot : current[s] = Len(revisions[s])

\* An answer posted twice is stored once.
\* "Duplicate idempotency key does not create duplicate revisions"
\* (docs/ACCEPTANCE_TESTS.md:41)
AnswersAreDistinct == \A s \in Slot : IsInjective(revisions[s])

\* A completed mission is answered in full, has notified the staff and, when it
\* is long enough, has earned its point; no other mission has done either.
CompletionIsWhole ==
    /\ \A m \in completed : m \subseteq Answered
    /\ notified = completed
    /\ earned = {m \in completed : Earns(m)}

\* The profile and the rewards never show more than was earned.
\* ("derived from engagement events only", docs/PRODUCT_SPEC.md:97)
ProgressIsEarned ==
    /\ points <= TotalPoints(onboarded, earned)
    /\ rewards \subseteq Unlocked(TotalPoints(onboarded, earned))

-----------------------------------------------------------------------------
(* What holds while requests of the client do not overlap.                  *)

Quiet == \A h \in Request : job[h] = Idle

\* "Mission completes after five distinct questions"
\* (docs/ACCEPTANCE_TESTS.md:16): when nothing is being saved, no mission is
\* fully answered and still ACTIVE.
AnsweredMissionsComplete ==
    Quiet => \A m \in Active : ~(m \subseteq Answered)

\* A client with one tab completes every mission it answers, whatever requests
\* fail on the way. (answeredCount of saveMissionAnswer)
AnsweredAloneComplete == alone => AnsweredMissionsComplete

\* The client has at most one mission in progress.
\* "Resolve any active mission first" (docs/adr/ADR-0008...md:33)
OneActive == alone => \A l, m \in Active : l = m

\* The profile is the projection of the events, so points never fall.
\* "progression idempotency and no decay"
\* (codex-tasks/03-honey-pwa-notifications.md:47)
ProfileIsCurrent == alone => points = TotalPoints(onboarded, earned)

-----------------------------------------------------------------------------
(* Refinement: what overlapping requests commit is a journal that one step  *)
(* after the other could have written.                                      *)

Journal == INSTANCE ClientJournal WITH
    answers <- revisions,
    joined <- onboarded

\* However requests overlap, fail or repeat themselves, every commit is a step
\* of the journal as it is at that moment: questions are assigned to a date
\* that has no mission in progress, an answer is added once, a mission is
\* finished with its last answer, and nothing is taken back.
\* (getOrCreateMission, saveMissionAnswer, completeOnboarding)
ImplementsJournal == Journal!Spec
=============================================================================
