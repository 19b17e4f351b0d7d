-------------------------- MODULE MissionEngineProofs --------------------------
(***************************************************************************)
(* Safety of the mission engine for any number of concurrent requests,     *)
(* questions, answers, time zones and dates.                               *)
(***************************************************************************)
EXTENDS MissionEngine, FiniteSetTheorems, TLAPS

-----------------------------------------------------------------------------
(* Jobs.                                                                    *)

\* Control points of saveMissionAnswer.
SavingAt == {"reading", "inserting", "counting", "committing", "completing"}

\* A request that saves an answer saves it to a slot of a mission.
SlotsExist ==
    \A h \in Request : job[h].at \in SavingAt \cup {"projecting"}
                          => job[h].slot \in UNION missions

\* The control point of a job tells which record it is.
LEMMA JobKinds ==
  ASSUME TypeOK, NEW h \in Request
  PROVE  /\ job[h].at \in SavingAt => job[h] \in Saving
         /\ job[h].at = "projecting" => job[h] \in Projecting
         /\ job[h].at \in {"locking", "selecting"} => job[h] \in Creating
         /\ job[h].at = "creating" => job[h] \in Chosen
         /\ job[h].at = "onboarding" => job[h] \in Onboarding
  <1>1. job[h] \in Job
      BY DEF TypeOK
  <1> QED
      BY <1>1 DEF Job, SavingAt, Idle, Creating, Chosen, Saving, Projecting,
                  Onboarding

\* A saving job that moves on keeps its slot, its value and its number.
LEMMA SavingMoves ==
  ASSUME NEW j \in Saving, NEW p \in SavingAt
  PROVE  LET k == [j EXCEPT !.at = p] IN
         /\ k \in Saving
         /\ k \in Job
         /\ k.at = p /\ k.slot = j.slot /\ k.value = j.value
         /\ k.number = j.number
  BY DEF Saving, SavingAt, Job

\* A request that moves on leaves the jobs of the others alone.
LEMMA BecomeMoves ==
  ASSUME TypeOK, NEW h \in Request, NEW j \in Job, Become(h, j)
  PROVE  /\ job' \in [Request -> Job]
         /\ job'[h] = j
         /\ \A g \in Request : g # h => job'[g] = job[g]
  BY DEF TypeOK, Become

\* An idle request is a job.
LEMMA IdleIsJob == Idle \in Job /\ Idle.at = "idle"
  BY DEF Job, Idle

-----------------------------------------------------------------------------
(* Finite sets and points.                                                  *)

\* There are finitely many missions, so every count of them is a number.
LEMMA MissionsAreFinite == IsFiniteSet(Slot) /\ IsFiniteSet(Snapshot)
  <1>1. IsFiniteSet(Date)
      BY EngineAssumption, FS_Interval DEF Date, EngineAssumption
  <1>2. IsFiniteSet(Slot)
      BY <1>1, EngineAssumption, FS_Product DEF Slot, EngineAssumption
  <1>3. Snapshot \subseteq SUBSET Slot
      BY DEF Snapshot, Slot
  <1> QED
      BY <1>2, <1>3, FS_SUBSET, FS_Subset

\* Points are natural numbers.
LEMMA PointsType ==
  ASSUME NEW done \in SUBSET Snapshot, NEW on \in BOOLEAN
  PROVE  TotalPoints(on, done) \in Nat
  <1>1. IsFiniteSet(done)
      BY MissionsAreFinite, FS_Subset
  <1> QED
      BY <1>1, FS_CardinalityType DEF TotalPoints

\* The frozen questions of a date are a mission.
LEMMA SnapshotOf ==
  ASSUME NEW d \in Date, NEW chosen \in (SUBSET Question) \ {{}}
  PROVE  {d} \X chosen \in Snapshot
  <1> DEFINE m == {d} \X chosen
  <1>1. PICK q \in Question : q \in chosen
      OBVIOUS
  <1>2. <<d, q>> \in m
      BY <1>1
  <1>3. m \in SUBSET Slot
      BY DEF Slot
  <1>4. \A s \in m : s[1] = d
      OBVIOUS
  <1> HIDE DEF m
  <1>5. m # {} /\ \A s, t \in m : s[1] = t[1]
      BY <1>2, <1>4
  <1>6. m \in Snapshot
      BY <1>3, <1>5 DEF Snapshot
  <1> QED
      BY <1>6 DEF m

\* The mission of an existing slot is a mission.
LEMMA MissionOfType ==
  ASSUME NEW s \in UNION missions
  PROVE  MissionOf(s) \in missions
  BY DEF MissionOf

-----------------------------------------------------------------------------
(* Typing, action by action.                                                *)

\* An empty database is well typed.
LEMMA InitTypeOK == Init => TypeOK /\ SlotsExist
  <1>1. 1 \in Date /\ HomeZone \in Zone /\ << >> \in Seq(Value)
      BY EngineAssumption DEF Date, EngineAssumption
  <1>2. Init => TypeOK
      <2> SUFFICES ASSUME Init PROVE TypeOK
          OBVIOUS
      <2>1. /\ today \in [Zone -> Date] /\ zone \in Zone
            /\ revisions \in [Slot -> Seq(Value)] /\ current \in [Slot -> Nat]
          BY <1>1 DEF Init
      <2>2. /\ missions \subseteq Snapshot /\ completed \subseteq missions
            /\ earned \subseteq missions /\ notified \subseteq missions
            /\ rewards \subseteq Reward
          BY DEF Init
      <2>3. onboarded \in BOOLEAN /\ points \in Nat
          BY DEF Init
      <2>4. job \in [Request -> Job]
          BY IdleIsJob DEF Init
      <2> QED
          BY <2>1, <2>2, <2>3, <2>4 DEF TypeOK
  <1>3. Init => SlotsExist
      BY DEF Init, SlotsExist, SavingAt, Idle
  <1> QED
      BY <1>2, <1>3

\* What an answer publishes is a sequence of values with a current number.
LEMMA PublishType ==
  ASSUME TypeOK, NEW h \in Request, job[h] \in Saving \cup Projecting,
         PublishAnswer(job[h])
  PROVE  revisions' \in [Slot -> Seq(Value)] /\ current' \in [Slot -> Nat]
  <1>1. job[h].slot \in Slot /\ job[h].value \in Value /\ job[h].number \in Nat
      BY DEF Saving, Projecting
  <1>2. Append(revisions[job[h].slot], job[h].value) \in Seq(Value)
      BY <1>1 DEF TypeOK
  <1> QED
      BY <1>1, <1>2 DEF PublishAnswer, TypeOK, answers

\* No statement of a request writes a value outside its column.
LEMMA TypeStep == TypeOK /\ SlotsExist /\ [Next]_vars => TypeOK' /\ SlotsExist'
  <1> SUFFICES ASSUME TypeOK, SlotsExist, [Next]_vars
               PROVE  TypeOK' /\ SlotsExist'
      OBVIOUS
  <1> USE IdleIsJob
  <1>1. ASSUME NEW h \in Request, NEW n \in Size, StartMission(h, n)
        PROVE  TypeOK' /\ SlotsExist'
      <2>1. [at |-> "locking", date |-> today[zone], size |-> n] \in Creating
          BY EngineAssumption DEF TypeOK, Creating, EngineAssumption
      <2> QED
          BY <1>1, <2>1, BecomeMoves
             DEF StartMission, TypeOK, SlotsExist, SavingAt, Job, Creating,
                 calendar, answers, honey
  <1>2. ASSUME NEW h \in Request, FindActiveMission(h)
        PROVE  TypeOK' /\ SlotsExist'
      <2>1. [job[h] EXCEPT !.at = "selecting"] \in Creating
          BY <1>2, JobKinds DEF FindActiveMission, Creating
      <2>2. [job[h] EXCEPT !.at = "selecting"] \in Job
            /\ [job[h] EXCEPT !.at = "selecting"].at \notin SavingAt \cup {"projecting"}
          BY <2>1, <1>2, JobKinds
             DEF Creating, Job, SavingAt, FindActiveMission
      <2> QED
          BY <1>2, <2>2, BecomeMoves
             DEF FindActiveMission, TypeOK, SlotsExist, SavingAt,
                 calendar, answers, honey
  <1>3. ASSUME NEW h \in Request, SelectQuestions(h)
        PROVE  TypeOK' /\ SlotsExist'
      <2>1. PICK chosen \in SUBSET Question : Become(h, Selected(job[h].date, chosen))
          BY <1>3 DEF SelectQuestions
      <2>2. job[h].date \in Date
          BY <1>3, JobKinds DEF SelectQuestions, Creating
      <2>3. Selected(job[h].date, chosen) \in Job
            /\ Selected(job[h].date, chosen).at \notin SavingAt \cup {"projecting"}
          BY <2>2 DEF Selected, Chosen, Job, SavingAt
      <2> QED
          BY <1>3, <2>1, <2>3, BecomeMoves
             DEF SelectQuestions, TypeOK, SlotsExist, calendar, answers, honey
  <1>4. ASSUME NEW h \in Request, CreateMission(h)
        PROVE  TypeOK' /\ SlotsExist'
      <2>1. job[h] \in Chosen
          BY <1>4, JobKinds DEF CreateMission
      <2>2. {job[h].date} \X job[h].chosen \in Snapshot
          <3>1. /\ job[h].date \in Date
                /\ job[h].chosen \in (SUBSET Question) \ {{}}
              BY <2>1 DEF Chosen
          <3> QED
              BY <3>1, SnapshotOf
      <2>3. UNION missions \subseteq UNION missions'
          BY <1>4 DEF CreateMission
      <2> QED
          BY <1>4, <2>2, <2>3, BecomeMoves
             DEF CreateMission, TypeOK, SlotsExist, SavingAt, calendar,
                 answers, honey
  <1>5. ASSUME NEW h \in Request, NEW s \in Slot, NEW v \in Value,
               SubmitAnswer(h, s, v)
        PROVE  TypeOK' /\ SlotsExist'
      <2> DEFINE j == [at |-> "reading", slot |-> s, value |-> v, number |-> 0]
      <2>1. j \in Saving /\ j \in Job /\ j.slot = s
          BY DEF Saving, Job
      <2>2. s \in UNION missions
          BY <1>5 DEF SubmitAnswer, Active
      <2>3. Become(h, j)
          BY <1>5 DEF SubmitAnswer
      <2> HIDE DEF j
      <2> QED
          BY <1>5, <2>1, <2>2, <2>3, BecomeMoves
             DEF SubmitAnswer, TypeOK, SlotsExist, calendar, answers, honey
  <1>6. ASSUME NEW h \in Request, ReadSlot(h) PROVE TypeOK' /\ SlotsExist'
      <2>1. job[h] \in Saving /\ job[h].slot \in UNION missions
          BY <1>6, JobKinds DEF ReadSlot, SavingAt, SlotsExist
      <2>2. PICK j \in Saving : Become(h, j) /\ j.slot = job[h].slot
          <3>1. Len(revisions[job[h].slot]) + 1 \in Nat
              BY <2>1 DEF Saving, TypeOK
          <3>2. CASE AlreadySaved(job[h].slot, job[h].value)
              BY <1>6, <2>1, <3>2, SavingMoves DEF ReadSlot, SavingAt
          <3>3. CASE ~AlreadySaved(job[h].slot, job[h].value)
              <4> DEFINE j == [job[h] EXCEPT !.at = "inserting",
                                 !.number = Len(revisions[job[h].slot]) + 1]
              <4>1. j \in Saving /\ j.slot = job[h].slot
                  BY <2>1, <3>1 DEF Saving
              <4>2. Become(h, j)
                  BY <1>6, <3>3 DEF ReadSlot
              <4> QED
                  BY <4>1, <4>2
          <3> QED
              BY <3>2, <3>3
      <2> QED
          BY <1>6, <2>1, <2>2, BecomeMoves
             DEF ReadSlot, TypeOK, SlotsExist, Job, calendar, answers, honey
  <1>7. ASSUME NEW h \in Request, InsertRevision(h)
        PROVE  TypeOK' /\ SlotsExist'
      <2>1. job[h] \in Saving /\ job[h].slot \in UNION missions
          BY <1>7, JobKinds DEF InsertRevision, SavingAt, SlotsExist
      <2>2. \/ Become(h, Idle)
            \/ Become(h, [job[h] EXCEPT !.at = "counting"])
          BY <1>7 DEF InsertRevision
      <2>3. PICK j \in Job : /\ Become(h, j)
                             /\ j.at # "idle" => j.slot = job[h].slot
          BY <2>1, <2>2, SavingMoves DEF SavingAt
      <2> QED
          BY <1>7, <2>1, <2>3, BecomeMoves
             DEF InsertRevision, TypeOK, SlotsExist, SavingAt, calendar,
                 answers, honey
  <1>8. ASSUME NEW h \in Request, CountAnswered(h)
        PROVE  TypeOK' /\ SlotsExist'
      <2>1. job[h] \in Saving /\ job[h].slot \in UNION missions
          BY <1>8, JobKinds DEF CountAnswered, SavingAt, SlotsExist
      <2>2. PICK p \in SavingAt : Become(h, [job[h] EXCEPT !.at = p])
          BY <1>8 DEF CountAnswered, SavingAt
      <2>3. PICK j \in Job : Become(h, j) /\ j.slot = job[h].slot
          BY <2>1, <2>2, SavingMoves
      <2> QED
          BY <1>8, <2>1, <2>3, BecomeMoves
             DEF CountAnswered, TypeOK, SlotsExist, calendar, answers, honey
  <1>9. ASSUME NEW h \in Request, CommitAnswer(h) PROVE TypeOK' /\ SlotsExist'
      <2>1. job[h] \in Saving
          BY <1>9, JobKinds DEF CommitAnswer, SavingAt
      <2>2. revisions' \in [Slot -> Seq(Value)] /\ current' \in [Slot -> Nat]
          BY <1>9, <2>1, PublishType DEF CommitAnswer
      <2> QED
          BY <1>9, <2>2, BecomeMoves
             DEF CommitAnswer, TypeOK, SlotsExist, SavingAt, calendar, honey
  <1>10. ASSUME NEW h \in Request, CompleteMission(h)
         PROVE  TypeOK' /\ SlotsExist'
      <2> DEFINE m == MissionOf(job[h].slot)
                 j == [at |-> "projecting", slot |-> job[h].slot,
                       value |-> job[h].value, number |-> job[h].number,
                       seen |-> IF Earns(m) THEN Projected(m) ELSE 0]
      <2>1. job[h] \in Saving /\ job[h].slot \in UNION missions
          BY <1>10, JobKinds DEF CompleteMission, SavingAt, SlotsExist
      <2>2. earned \cup {m} \in SUBSET Snapshot
          BY <2>1, MissionOfType DEF TypeOK
      <2>3. Projected(m) \in Nat
          BY <2>2, PointsType DEF Projected, TypeOK
      <2>4. j \in Projecting /\ j.slot = job[h].slot
          BY <2>1, <2>3 DEF Saving, Projecting
      <2>5. Become(h, j)
          BY <1>10 DEF CompleteMission
      <2> HIDE DEF j
      <2> QED
          BY <1>10, <2>1, <2>4, <2>5, BecomeMoves
             DEF CompleteMission, TypeOK, SlotsExist, Job, calendar, answers,
                 honey
  <1>11. ASSUME NEW h \in Request, CommitCompletion(h)
         PROVE  TypeOK' /\ SlotsExist'
      <2> DEFINE m == MissionOf(job[h].slot)
      <2>1. job[h] \in Projecting /\ job[h].slot \in UNION missions
          BY <1>11, JobKinds DEF CommitCompletion, SlotsExist
      <2>2. m \in missions
          BY <2>1, MissionOfType
      <2>3. revisions' \in [Slot -> Seq(Value)] /\ current' \in [Slot -> Nat]
          BY <1>11, <2>1, PublishType DEF CommitCompletion
      <2>4. earned' \subseteq missions /\ points' \in Nat
            /\ rewards' \subseteq Reward
          <3>1. CASE Earns(m)
              BY <1>11, <2>1, <2>2, <3>1
                 DEF CommitCompletion, StoreProfile, Unlocked, TypeOK, Projecting
          <3>2. CASE ~Earns(m)
              BY <1>11, <3>2 DEF CommitCompletion, TypeOK
          <3> QED
              BY <3>1, <3>2
      <2>5. completed' \subseteq missions /\ notified' \subseteq missions
          BY <1>11, <2>2 DEF CommitCompletion, TypeOK
      <2>6. UNCHANGED <<calendar, missions, onboarded>> /\ Become(h, Idle)
          BY <1>11 DEF CommitCompletion
      <2> HIDE DEF m
      <2> QED
          BY <2>3, <2>4, <2>5, <2>6, BecomeMoves
             DEF TypeOK, SlotsExist, SavingAt, calendar
  <1>12. ASSUME NEW h \in Request, NEW z \in Zone, StartOnboarding(h, z)
         PROVE  TypeOK' /\ SlotsExist'
      <2> DEFINE j == [at |-> "onboarding", zone |-> z,
                       seen |-> TotalPoints(TRUE, earned)]
      <2>1. TotalPoints(TRUE, earned) \in Nat
          BY PointsType DEF TypeOK
      <2>2. j \in Onboarding /\ j.at = "onboarding"
          BY <2>1 DEF Onboarding
      <2>3. Become(h, j)
          BY <1>12 DEF StartOnboarding
      <2> HIDE DEF j
      <2> QED
          BY <1>12, <2>2, <2>3, BecomeMoves
             DEF StartOnboarding, TypeOK, SlotsExist, SavingAt, Job, calendar,
                 answers, honey
  <1>13. ASSUME NEW h \in Request, CommitOnboarding(h)
         PROVE  TypeOK' /\ SlotsExist'
      <2>1. job[h] \in Onboarding
          BY <1>13, JobKinds DEF CommitOnboarding
      <2> QED
          BY <1>13, <2>1, BecomeMoves
             DEF CommitOnboarding, StoreProfile, Unlocked, Onboarding, TypeOK,
                 SlotsExist, SavingAt, answers
  <1>14. ASSUME NEW h \in Request, Abort(h) PROVE TypeOK' /\ SlotsExist'
      BY <1>14, BecomeMoves
         DEF Abort, TypeOK, SlotsExist, SavingAt, calendar, answers, honey
  <1>15. ASSUME NEW z \in Zone, Midnight(z) PROVE TypeOK' /\ SlotsExist'
      <2>1. today[z] + 1 \in Date
          BY <1>15, EngineAssumption DEF Midnight, TypeOK, Date, EngineAssumption
      <2> QED
          BY <1>15, <2>1
             DEF Midnight, TypeOK, SlotsExist, SavingAt, answers, honey
  <1>16. CASE UNCHANGED vars
      BY <1>16 DEF vars, TypeOK, SlotsExist, SavingAt, calendar, answers, honey
  <1> QED
      BY <1>1, <1>2, <1>3, <1>4, <1>5, <1>6, <1>7, <1>8, <1>9, <1>10, <1>11,
         <1>12, <1>13, <1>14, <1>15, <1>16 DEF Next

\* The rows and the jobs of the mission engine stay in their types.
THEOREM TypeCorrect == Spec => []TypeOK
  BY InitTypeOK, TypeStep, PTL DEF Spec

-----------------------------------------------------------------------------
(* The daily cap: the advisory lock makes the holder of a local date the    *)
(* only transaction that may charge it.                                     *)

\* Control points at which a transaction holds the lock of its local date.
Holding == {"selecting", "creating"}

\* No two transactions hold the lock of one local date.
OneHolder ==
    \A g, h \in Request :
        /\ job[g].at \in Holding
        /\ job[h].at \in Holding
        /\ job[g].date = job[h].date
        => g = h

\* While the lock is held, its local date has no mission in progress.
HolderAlone ==
    \A h \in Request : job[h].at \in Holding
        => \A m \in Active : \A s \in m : s[1] # job[h].date

\* What was selected still fits when it is written.
Allowance ==
    \A h \in Request : job[h].at = "creating"
        => Cardinality(Ledger(job[h].date)) + Cardinality(job[h].chosen)
               <= DailyCap

LedgerInv ==
    /\ TypeOK
    /\ SlotsExist
    /\ OneHolder
    /\ HolderAlone
    /\ Allowance
    /\ DailyCapHolds
    /\ OneActivePerDate

\* Nothing is charged or locked before the first request.
LEMMA InitLedger == Init => LedgerInv
  <1> SUFFICES ASSUME Init PROVE LedgerInv
      OBVIOUS
  <1>1. OneHolder /\ HolderAlone /\ Allowance
      BY DEF Init, OneHolder, HolderAlone, Allowance, Holding, Idle
  <1>2. ASSUME NEW d \in Date PROVE Cardinality(Ledger(d)) <= DailyCap
      <2>1. Ledger(d) = {}
          BY DEF Init, Ledger
      <2> QED
          BY <2>1, FS_EmptySet, EngineAssumption DEF EngineAssumption
  <1>3. OneActivePerDate
      BY DEF Init, OneActivePerDate, Active
  <1> QED
      BY <1>1, <1>2, <1>3, InitTypeOK DEF LedgerInv, DailyCapHolds

\* Every other step of the engine takes no lock and creates no mission.
LedgerFrame ==
    /\ missions' = missions
    /\ completed \subseteq completed'
    /\ \A g \in Request : job'[g] = job[g] \/ job'[g].at \notin Holding

\* No step but the three of a start takes a lock or creates a mission.
LEMMA LedgerSteps ==
  ASSUME TypeOK, SlotsExist, [Next]_vars
  PROVE  \/ \E h \in Request : \/ FindActiveMission(h)
                               \/ SelectQuestions(h)
                               \/ CreateMission(h)
         \/ LedgerFrame
  <1> USE DEF LedgerFrame, Holding
  <1>1. ASSUME NEW h \in Request, NEW n \in Size, StartMission(h, n)
        PROVE  LedgerFrame
      BY <1>1 DEF StartMission, Become, TypeOK
  <1>2. ASSUME NEW h \in Request, NEW s \in Slot, NEW v \in Value,
               SubmitAnswer(h, s, v)
        PROVE  LedgerFrame
      BY <1>2 DEF SubmitAnswer, Become, TypeOK
  <1>3. ASSUME NEW h \in Request,
               \/ ReadSlot(h) \/ InsertRevision(h) \/ CountAnswered(h)
        PROVE  LedgerFrame
      <2>1. job[h] \in Saving
          BY <1>3, JobKinds
             DEF ReadSlot, InsertRevision, CountAnswered, SavingAt
      <2>2. job'[h].at \notin Holding
          <3>1. CASE ReadSlot(h)
              BY <2>1, <3>1 DEF ReadSlot, Become, TypeOK, Saving
          <3>2. CASE InsertRevision(h)
              BY <2>1, <3>2 DEF InsertRevision, Become, TypeOK, Saving, Idle
          <3>3. CASE CountAnswered(h)
              BY <2>1, <3>3 DEF CountAnswered, Become, TypeOK, Saving
          <3> QED
              BY <1>3, <3>1, <3>2, <3>3
      <2>3. /\ missions' = missions /\ completed' = completed
            /\ \A g \in Request \ {h} : job'[g] = job[g]
          BY <1>3 DEF ReadSlot, InsertRevision, CountAnswered, Become, TypeOK
      <2> QED
          BY <2>2, <2>3
  <1>4. ASSUME NEW h \in Request, CompleteMission(h) PROVE LedgerFrame
      BY <1>4 DEF CompleteMission, Become, TypeOK
  <1>5. ASSUME NEW h \in Request, NEW z \in Zone, StartOnboarding(h, z)
        PROVE  LedgerFrame
      BY <1>5 DEF StartOnboarding, Become, TypeOK
  <1>6. ASSUME NEW h \in Request,
               \/ CommitAnswer(h) \/ CommitCompletion(h)
               \/ CommitOnboarding(h) \/ Abort(h)
        PROVE  LedgerFrame
      <2>1. /\ missions' = missions /\ completed \subseteq completed'
            /\ Become(h, Idle)
          BY <1>6 DEF CommitAnswer, CommitCompletion, CommitOnboarding, Abort
      <2> QED
          BY <2>1 DEF Become, TypeOK, Idle
  <1>7. ASSUME NEW z \in Zone, Midnight(z) PROVE LedgerFrame
      BY <1>7 DEF Midnight
  <1>8. CASE UNCHANGED vars
      BY <1>8 DEF vars
  <1> QED
      BY <1>1, <1>2, <1>3, <1>4, <1>5, <1>6, <1>7, <1>8 DEF Next

\* A step that creates no mission can only shrink what is in progress.
LEMMA LedgerKept ==
  ASSUME LedgerInv, LedgerFrame
  PROVE  /\ OneHolder' /\ HolderAlone' /\ Allowance'
         /\ DailyCapHolds' /\ OneActivePerDate'
  <1>1. Active' \subseteq Active /\ \A d : Ledger(d)' = Ledger(d)
      BY DEF LedgerFrame, Active, Ledger
  <1> USE DEF LedgerInv, LedgerFrame
  <1>2. OneHolder'
      BY DEF OneHolder
  <1>3. HolderAlone'
      BY <1>1 DEF HolderAlone
  <1>4. Allowance'
      BY <1>1 DEF Allowance, Holding
  <1>5. DailyCapHolds' /\ OneActivePerDate'
      BY <1>1 DEF DailyCapHolds, OneActivePerDate
  <1> QED
      BY <1>2, <1>3, <1>4, <1>5

\* What a mission adds to the ledger of a local date.
LEMMA LedgerGrows ==
  ASSUME TypeOK, NEW e \in Date, NEW chosen \in SUBSET Question,
         missions' = missions \cup {{e} \X chosen}
  PROVE  /\ \A d \in Date \ {e} : Ledger(d)' = Ledger(d)
         /\ Cardinality(Ledger(e)') <=
                Cardinality(Ledger(e)) + Cardinality(chosen)
         /\ Cardinality(Ledger(e)') \in Nat
  <1>1. \A d : Ledger(d)' =
               Ledger(d) \cup {s \in {e} \X chosen : s[1] = d}
      BY DEF Ledger
  <1>2. \A s \in {e} \X chosen : s[1] = e
      OBVIOUS
  <1>3. \A d \in Date \ {e} : Ledger(d)' = Ledger(d)
      BY <1>1, <1>2
  <1>4. Ledger(e)' = Ledger(e) \cup ({e} \X chosen)
      BY <1>1, <1>2
  <1>5. IsFiniteSet(Ledger(e))
      <2>1. Ledger(e) \subseteq Slot
          BY DEF Ledger, TypeOK, Snapshot
      <2> QED
          BY <2>1, MissionsAreFinite, FS_Subset
  <1>6. IsFiniteSet(chosen) /\ Cardinality(chosen) \in Nat
      BY EngineAssumption, FS_Subset, FS_CardinalityType DEF EngineAssumption
  <1>7. /\ IsFiniteSet({e} \X chosen)
        /\ Cardinality({e} \X chosen) = Cardinality(chosen)
      <2>1. IsFiniteSet({e}) /\ Cardinality({e}) = 1
          BY FS_Singleton
      <2>2. /\ IsFiniteSet({e} \X chosen)
            /\ Cardinality({e} \X chosen) = Cardinality({e}) * Cardinality(chosen)
          BY <1>6, <2>1, FS_Product
      <2> QED
          BY <1>6, <2>1, <2>2
  <1> DEFINE both == Ledger(e) \cap ({e} \X chosen)
  <1>8. /\ Cardinality(Ledger(e) \cup ({e} \X chosen)) =
               Cardinality(Ledger(e)) + Cardinality({e} \X chosen)
                   - Cardinality(both)
        /\ Cardinality(both) \in Nat
        /\ Cardinality(Ledger(e)) \in Nat
        /\ Cardinality(Ledger(e) \cup ({e} \X chosen)) \in Nat
      BY <1>5, <1>7, FS_Union, FS_Intersection, FS_CardinalityType
  <1>9. Cardinality(Ledger(e) \cup ({e} \X chosen)) <=
            Cardinality(Ledger(e)) + Cardinality(chosen)
      <2> HIDE DEF both
      <2> QED
          BY <1>6, <1>7, <1>8
  <1> QED
      BY <1>3, <1>4, <1>8, <1>9

\* The lock, the lookup and the allowance keep the ledger within the cap.
LEMMA LedgerStep == LedgerInv /\ [Next]_vars => LedgerInv'
  <1> SUFFICES ASSUME LedgerInv, [Next]_vars PROVE LedgerInv'
      OBVIOUS
  <1> USE DEF LedgerInv
  <1>1. TypeOK' /\ SlotsExist'
      BY TypeStep
  <1>2. ASSUME NEW h \in Request, FindActiveMission(h)
        PROVE  LedgerInv'
      <2>1. /\ \A g \in Request \ {h} : job'[g] = job[g]
            /\ \/ job'[h] = Idle
               \/ /\ Active = {}
                  /\ job'[h] = [job[h] EXCEPT !.at = "selecting"]
          BY <1>2 DEF FindActiveMission, FoundActive, Become, TypeOK
      <2>2. CASE job'[h] = Idle
          <3>1. LedgerFrame
              BY <1>2, <2>1, <2>2
                 DEF FindActiveMission, LedgerFrame, Holding, Idle
          <3> QED
              BY <1>1, <3>1, LedgerKept
      <2>3. CASE /\ Active = {}
                 /\ job'[h] = [job[h] EXCEPT !.at = "selecting"]
          <3>1. job'[h].at = "selecting" /\ job'[h].date = job[h].date
              BY <1>2, <2>3, JobKinds DEF FindActiveMission, Creating
          <3>2. /\ missions' = missions /\ completed' = completed
                /\ LockFree(h, job[h].date)
              BY <1>2 DEF FindActiveMission
          <3>3. Active' = {} /\ \A d : Ledger(d)' = Ledger(d)
              BY <2>3, <3>2 DEF Active, Ledger
          <3>4. OneHolder'
              BY <2>1, <3>1, <3>2 DEF OneHolder, LockFree, Holding
          <3>5. HolderAlone' /\ OneActivePerDate'
              BY <3>3 DEF HolderAlone, OneActivePerDate
          <3>6. Allowance' /\ DailyCapHolds'
              BY <2>1, <3>1, <3>3 DEF Allowance, DailyCapHolds
          <3> QED
              BY <1>1, <3>4, <3>5, <3>6
      <2> QED
          BY <2>1, <2>2, <2>3
  <1>3. ASSUME NEW h \in Request, SelectQuestions(h)
        PROVE  LedgerInv'
      <2>1. PICK chosen \in SUBSET Question :
                /\ Cardinality(Ledger(job[h].date)) + Cardinality(chosen)
                       <= DailyCap
                /\ Become(h, Selected(job[h].date, chosen))
          BY <1>3 DEF SelectQuestions
      <2>2. /\ missions' = missions /\ completed' = completed
            /\ job[h].at = "selecting"
            /\ \A g \in Request \ {h} : job'[g] = job[g]
            /\ job'[h] = Selected(job[h].date, chosen)
          BY <1>3, <2>1 DEF SelectQuestions, Become, TypeOK
      <2>3. CASE chosen = {}
          <3>1. LedgerFrame
              BY <2>2, <2>3 DEF Selected, LedgerFrame, Holding, Idle
          <3> QED
              BY <1>1, <3>1, LedgerKept
      <2>4. CASE chosen # {}
          <3>1. /\ job'[h].at = "creating" /\ job'[h].date = job[h].date
                /\ job'[h].chosen = chosen
              BY <2>2, <2>4 DEF Selected
          <3>2. Active' = Active /\ \A d : Ledger(d)' = Ledger(d)
              BY <2>2 DEF Active, Ledger
          <3>3. OneHolder'
              BY <2>2, <3>1 DEF OneHolder, Holding
          <3>4. HolderAlone'
              BY <2>2, <3>1, <3>2 DEF HolderAlone, Holding
          <3>5. Allowance'
              BY <2>1, <2>2, <3>1, <3>2 DEF Allowance
          <3>6. DailyCapHolds' /\ OneActivePerDate'
              BY <3>2 DEF DailyCapHolds, OneActivePerDate
          <3> QED
              BY <1>1, <3>3, <3>4, <3>5, <3>6
      <2> QED
          BY <2>3, <2>4
  <1>4. ASSUME NEW h \in Request, CreateMission(h)
        PROVE  LedgerInv'
      <2>1. PICK e \in Date, chosen \in SUBSET Question :
                /\ job[h].at = "creating"
                /\ e = job[h].date
                /\ chosen = job[h].chosen
          BY <1>4, JobKinds DEF CreateMission, Chosen
      <2>2. /\ missions' = missions \cup {{e} \X chosen}
            /\ completed' = completed
            /\ \A g \in Request \ {h} : job'[g] = job[g]
            /\ job'[h] = Idle
          BY <1>4, <2>1 DEF CreateMission, Become, TypeOK
      <2>3. /\ Cardinality(Ledger(e)) + Cardinality(chosen) <= DailyCap
            /\ \A m \in Active : \A s \in m : s[1] # e
          BY <2>1 DEF Allowance, HolderAlone, Holding
      <2>4. \A g \in Request \ {h} :
                job'[g].at \in Holding => job'[g].date # e
          BY <2>1, <2>2 DEF OneHolder, Holding
      <2>5. job'[h].at \notin Holding
          BY <2>2 DEF Idle, Holding
      <2>6. \A s \in {e} \X chosen : s[1] = e
          OBVIOUS
      <2>7. Active' \subseteq Active \cup {{e} \X chosen}
          BY <2>2 DEF Active
      <2>8. OneHolder'
          BY <2>2, <2>5 DEF OneHolder
      <2>9. HolderAlone'
          BY <2>2, <2>4, <2>5, <2>6, <2>7 DEF HolderAlone
      <2>10. OneActivePerDate'
          <3> SUFFICES ASSUME NEW l \in Active', NEW m \in Active',
                              NEW s \in l, NEW t \in m, s[1] = t[1]
                       PROVE  l = m
              BY DEF OneActivePerDate
          <3>1. l \in Active \/ l = {e} \X chosen
              BY <2>7
          <3>2. m \in Active \/ m = {e} \X chosen
              BY <2>7
          <3>3. CASE l \in Active /\ m \in Active
              BY <3>3 DEF OneActivePerDate
          <3>4. ~(l \in Active /\ m = {e} \X chosen)
              BY <2>3, <2>6
          <3>5. ~(m \in Active /\ l = {e} \X chosen)
              BY <2>3, <2>6
          <3> QED
              BY <3>1, <3>2, <3>3, <3>4, <3>5
      <2>11. /\ \A d \in Date \ {e} : Ledger(d)' = Ledger(d)
             /\ Cardinality(Ledger(e)') <= Cardinality(Ledger(e)) + Cardinality(chosen)
             /\ Cardinality(Ledger(e)') \in Nat
          BY <2>1, <2>2, LedgerGrows
      <2>12. DailyCapHolds'
          <3>1. /\ Cardinality(Ledger(e)) \in Nat
                /\ Cardinality(chosen) \in Nat
                /\ DailyCap \in Nat
              <4>1. Ledger(e) \subseteq Slot
                  BY DEF Ledger, TypeOK, Snapshot
              <4> QED
                  BY <2>1, <4>1, MissionsAreFinite, EngineAssumption, FS_Subset,
                     FS_CardinalityType DEF EngineAssumption
          <3>2. Cardinality(Ledger(e)') <= DailyCap
              BY <2>3, <2>11, <3>1
          <3> QED
              BY <2>11, <3>2 DEF DailyCapHolds
      <2>13. Allowance'
          <3>1. ASSUME NEW g \in Request, job'[g].at = "creating"
                PROVE  g # h /\ job[g] \in Chosen /\ job'[g].date \in Date \ {e}
              BY <2>2, <2>4, <2>5, <3>1, JobKinds DEF Holding, Chosen
          <3> QED
              BY <2>2, <2>11, <3>1 DEF Allowance
      <2> QED
          BY <1>1, <2>8, <2>9, <2>10, <2>12, <2>13
  <1>5. CASE LedgerFrame
      BY <1>1, <1>5, LedgerKept
  <1> QED
      BY <1>2, <1>3, <1>4, <1>5, LedgerSteps

\* The advisory lock, the ledger and the lookup of active missions work
\* together for any number of requests, dates and zones.
THEOREM LedgerSafety == Spec => []LedgerInv
  BY InitLedger, LedgerStep, PTL DEF Spec

\* However many tabs start missions, no local date is charged more questions
\* than the cap.
THEOREM CapSafety == Spec => []DailyCapHolds
  <1>1. LedgerInv => DailyCapHolds
      BY DEF LedgerInv
  <1> QED
      BY <1>1, LedgerSafety, PTL

\* A local date never has two missions in progress.
THEOREM ActiveSafety == Spec => []OneActivePerDate
  <1>1. LedgerInv => OneActivePerDate
      BY DEF LedgerInv
  <1> QED
      BY <1>1, LedgerSafety, PTL

-----------------------------------------------------------------------------
(* Answer revisions: the unique revision number lets one of several edits   *)
(* of a slot through and makes the others start again.                      *)

\* Before the transaction reads the slot it has no revision number.
Unnumbered == \A h \in Request : job[h].at = "reading" => job[h].number = 0

\* The number read from the slot may be taken by now; if it is not, the value
\* is not among the revisions either.
NumberRead ==
    \A h \in Request : job[h].at = "inserting" =>
        LET old == revisions[job[h].slot] IN
        /\ job[h].number > 0
        /\ job[h].number <= Len(old) + 1
        /\ job[h].number = Len(old) + 1 => job[h].value \notin Range(old)

\* A revision that is inserted and not committed is the next of its slot.
NumberTaken ==
    \A h \in Request : Writing(h) =>
        LET old == revisions[job[h].slot] IN
        /\ job[h].number = Len(old) + 1
        /\ job[h].value \notin Range(old)

\* One transaction at a time writes a slot.
OneWriter ==
    \A g, h \in Request :
        Writing(g) /\ Writing(h) /\ job[g].slot = job[h].slot => g = h

RevisionInv ==
    /\ TypeOK
    /\ SlotsExist
    /\ Unnumbered
    /\ NumberRead
    /\ NumberTaken
    /\ OneWriter
    /\ CurrentIsNewest
    /\ AnswersAreDistinct

\* There is no revision before the first answer.
LEMMA InitRevisions == Init => RevisionInv
  <1> SUFFICES ASSUME Init PROVE RevisionInv
      OBVIOUS
  <1>1. Unnumbered /\ NumberRead /\ NumberTaken /\ OneWriter
      BY DEF Init, Unnumbered, NumberRead, NumberTaken, OneWriter, Writing, Idle
  <1>2. CurrentIsNewest /\ AnswersAreDistinct
      BY DEF Init, CurrentIsNewest, AnswersAreDistinct, IsInjective
  <1> QED
      BY <1>1, <1>2, InitTypeOK DEF RevisionInv

\* The control points of an inserted revision.
WritingAt == {"counting", "committing", "completing", "projecting"}

\* What a step that commits no answer may do to a request: leave it, give up,
\* or move on with the revision it has inserted.
SameRevision(g) ==
    \/ job'[g] = job[g]
    \/ job'[g].at \notin {"reading", "inserting"} \cup WritingAt
    \/ job'[g].at = "reading" /\ job'[g].number = 0
    \/ /\ job[g].at \in WritingAt
       /\ job'[g].at \in WritingAt
       /\ job'[g].slot = job[g].slot
       /\ job'[g].value = job[g].value
       /\ job'[g].number = job[g].number

RevisionFrame ==
    UNCHANGED answers /\ \A g \in Request : SameRevision(g)

CommitRevision(h) ==
    /\ job[h].at \in WritingAt
    /\ PublishAnswer(job[h])
    /\ \A g \in Request \ {h} : job'[g] = job[g]
    /\ job'[h] = Idle

\* Every step reads, inserts or commits a revision, or leaves revisions alone.
LEMMA RevisionSteps ==
  ASSUME TypeOK, SlotsExist, [Next]_vars
  PROVE  \/ \E h \in Request : ReadSlot(h) \/ InsertRevision(h)
         \/ \E h \in Request : CommitRevision(h)
         \/ RevisionFrame
  <1> USE DEF RevisionFrame, SameRevision, WritingAt
  <1>1. ASSUME NEW h \in Request, NEW n \in Size, StartMission(h, n)
        PROVE  RevisionFrame
      BY <1>1 DEF StartMission, Become, TypeOK, Idle
  <1>2. ASSUME NEW h \in Request, FindActiveMission(h)
        PROVE  RevisionFrame
      <2>1. job[h] \in Creating
          BY <1>2, JobKinds DEF FindActiveMission
      <2>2. job'[h].at \in {"idle", "selecting"}
          BY <1>2, <2>1 DEF FindActiveMission, Become, TypeOK, Creating, Idle
      <2> QED
          BY <1>2, <2>2 DEF FindActiveMission, Become, TypeOK
  <1>3. ASSUME NEW h \in Request, SelectQuestions(h)
        PROVE  RevisionFrame
      <2>1. job'[h].at \in {"idle", "creating"}
          BY <1>3 DEF SelectQuestions, Selected, Become, TypeOK, Idle
      <2> QED
          BY <1>3, <2>1 DEF SelectQuestions, Become, TypeOK
  <1>4. ASSUME NEW h \in Request, NEW s \in Slot, NEW v \in Value,
               SubmitAnswer(h, s, v)
        PROVE  RevisionFrame
      BY <1>4 DEF SubmitAnswer, Become, TypeOK
  <1>5. ASSUME NEW h \in Request, CountAnswered(h)
        PROVE  RevisionFrame
      <2>1. job[h] \in Saving
          BY <1>5, JobKinds DEF CountAnswered, SavingAt
      <2>2. /\ job'[h].at \in {"completing", "committing"}
            /\ job'[h].slot = job[h].slot /\ job'[h].value = job[h].value
            /\ job'[h].number = job[h].number
          BY <1>5, <2>1 DEF CountAnswered, Become, TypeOK, Saving
      <2> QED
          BY <1>5, <2>2 DEF CountAnswered, Become, TypeOK
  <1>6. ASSUME NEW h \in Request, CompleteMission(h) PROVE RevisionFrame
      BY <1>6 DEF CompleteMission, Become, TypeOK
  <1>7. ASSUME NEW h \in Request, NEW z \in Zone, StartOnboarding(h, z)
        PROVE  RevisionFrame
      BY <1>7 DEF StartOnboarding, Become, TypeOK
  <1>8. ASSUME NEW h \in Request, CommitAnswer(h) \/ CommitCompletion(h)
        PROVE  CommitRevision(h)
      BY <1>8 DEF CommitAnswer, CommitCompletion, CommitRevision, Become, TypeOK
  <1>9. ASSUME NEW h \in Request,
               CreateMission(h) \/ CommitOnboarding(h) \/ Abort(h)
        PROVE  RevisionFrame
      BY <1>9 DEF CreateMission, CommitOnboarding, Abort, Become, TypeOK, Idle
  <1>10. ASSUME NEW z \in Zone, Midnight(z) PROVE RevisionFrame
      BY <1>10 DEF Midnight
  <1>11. CASE UNCHANGED vars
      BY <1>11 DEF vars
  <1> QED
      BY <1>1, <1>2, <1>3, <1>4, <1>5, <1>6, <1>7, <1>8, <1>9, <1>10, <1>11
         DEF Next

\* A sequence of distinct values stays one when a new value is appended.
LEMMA AppendDistinct ==
  ASSUME NEW S, NEW seq \in Seq(S), NEW v \in S,
         IsInjective(seq), v \notin Range(seq)
  PROVE  IsInjective(Append(seq, v))
  <1>1. /\ DOMAIN Append(seq, v) = 1 .. Len(seq) + 1
        /\ DOMAIN seq = 1 .. Len(seq)
        /\ Len(seq) \in Nat
        /\ \A i \in 1 .. Len(seq) : Append(seq, v)[i] = seq[i]
        /\ Append(seq, v)[Len(seq) + 1] = v
      OBVIOUS
  <1>2. \A i \in 1 .. Len(seq) : seq[i] # v
      BY <1>1 DEF Range
  <1>3. ASSUME NEW i \in 1 .. Len(seq) + 1, NEW k \in 1 .. Len(seq) + 1,
               Append(seq, v)[i] = Append(seq, v)[k]
        PROVE  i = k
      <2>1. i \in 1 .. Len(seq) \/ i = Len(seq) + 1
          BY <1>1
      <2>2. k \in 1 .. Len(seq) \/ k = Len(seq) + 1
          BY <1>1
      <2> QED
          BY <1>1, <1>2, <1>3, <2>1, <2>2 DEF IsInjective
  <1> QED
      BY <1>1, <1>3 DEF IsInjective

\* A step that commits no answer keeps every number as it was.
LEMMA RevisionKept ==
  ASSUME RevisionInv, RevisionFrame
  PROVE  /\ Unnumbered' /\ NumberRead' /\ NumberTaken' /\ OneWriter'
         /\ CurrentIsNewest' /\ AnswersAreDistinct'
  <1> USE DEF RevisionInv, RevisionFrame, SameRevision, WritingAt, answers
  <1>1. Unnumbered'
      BY DEF Unnumbered
  <1>2. NumberRead'
      BY DEF NumberRead
  <1>3. ASSUME NEW g \in Request, Writing(g)'
        PROVE  /\ Writing(g)
               /\ job'[g].slot = job[g].slot /\ job'[g].value = job[g].value
               /\ job'[g].number = job[g].number
      BY <1>3 DEF Writing
  <1>4. NumberTaken'
      BY <1>3 DEF NumberTaken
  <1>5. OneWriter'
      BY <1>3 DEF OneWriter
  <1>6. CurrentIsNewest' /\ AnswersAreDistinct'
      BY DEF CurrentIsNewest, AnswersAreDistinct
  <1> QED
      BY <1>1, <1>2, <1>4, <1>5, <1>6
\* A commit appends the next revision to its slot and to no other.
LEMMA RevisionCommits ==
  ASSUME RevisionInv, NEW h \in Request, CommitRevision(h)
  PROVE  /\ Unnumbered' /\ NumberRead' /\ NumberTaken' /\ OneWriter'
         /\ CurrentIsNewest' /\ AnswersAreDistinct'
  <1> USE DEF RevisionInv
  <1>1. PICK s \in Slot, v \in Value, n \in Nat :
            s = job[h].slot /\ v = job[h].value /\ n = job[h].number
      BY JobKinds
         DEF CommitRevision, WritingAt, SavingAt, Saving, Projecting
  <1>2. /\ \A g \in Request \ {h} : job'[g] = job[g]
        /\ job'[h] = Idle
      BY DEF CommitRevision
  <1>3. CASE n = 0
      <2>1. UNCHANGED answers
          BY <1>1, <1>3 DEF CommitRevision, PublishAnswer
      <2>2. RevisionFrame
          BY <1>2, <2>1 DEF RevisionFrame, SameRevision, WritingAt, Idle
      <2> QED
          BY <2>2, RevisionKept
  <1>4. CASE n # 0
      <2>1. Writing(h) /\ n > 0
          BY <1>1, <1>4 DEF CommitRevision, Writing, WritingAt
      <2>2. n = Len(revisions[s]) + 1 /\ v \notin Range(revisions[s])
          BY <1>1, <2>1 DEF NumberTaken
      <2>3. revisions[s] \in Seq(Value)
          BY DEF TypeOK
      <2>4. /\ revisions' = [revisions EXCEPT ![s] = Append(@, v)]
            /\ current' = [current EXCEPT ![s] = n]
          BY <1>1, <2>1 DEF CommitRevision, PublishAnswer
      <2>5. /\ revisions'[s] = Append(revisions[s], v)
            /\ Len(revisions'[s]) = Len(revisions[s]) + 1
            /\ Len(revisions[s]) \in Nat
            /\ current'[s] = n
            /\ \A t \in Slot \ {s} : /\ revisions'[t] = revisions[t]
                                     /\ current'[t] = current[t]
          BY <2>3, <2>4 DEF TypeOK
      <2>6. CurrentIsNewest'
          BY <2>2, <2>5 DEF CurrentIsNewest
      <2>7. AnswersAreDistinct'
          <3>1. IsInjective(Append(revisions[s], v))
              BY <2>2, <2>3, AppendDistinct DEF AnswersAreDistinct
          <3> QED
              BY <2>5, <3>1 DEF AnswersAreDistinct
      <2>8. Unnumbered'
          BY <1>2 DEF Unnumbered, Idle
      <2>9. ASSUME NEW g \in Request, Writing(g)'
            PROVE  g # h /\ Writing(g) /\ job'[g] = job[g]
          BY <1>2, <2>9 DEF Writing, Idle
      <2>10. OneWriter'
          BY <2>9 DEF OneWriter
      <2>11. ASSUME NEW g \in Request, Writing(g)'
             PROVE  job[g].slot \in Slot \ {s}
          <3>1. g # h /\ Writing(g) /\ job'[g] = job[g]
              BY <2>9, <2>11
          <3>2. job[g].slot # s
              BY <1>1, <2>1, <3>1 DEF OneWriter
          <3>3. job[g].slot \in Slot
              BY <3>1, JobKinds DEF Writing, SavingAt, Saving, Projecting
          <3> QED
              BY <3>2, <3>3
      <2>12. NumberTaken'
          BY <2>5, <2>9, <2>11 DEF NumberTaken
      <2>13. NumberRead'
          <3> SUFFICES ASSUME NEW g \in Request, job'[g].at = "inserting"
                       PROVE  LET old == revisions'[job'[g].slot] IN
                              /\ job'[g].number > 0
                              /\ job'[g].number <= Len(old) + 1
                              /\ job'[g].number = Len(old) + 1
                                    => job'[g].value \notin Range(old)
              BY DEF NumberRead
          <3>1. g # h /\ job'[g] = job[g]
              BY <1>2 DEF Idle
          <3>2. job[g].slot \in Slot /\ job[g].number \in Nat
              BY <3>1, JobKinds DEF SavingAt, Saving
          <3>3. /\ job[g].number > 0
                /\ job[g].number <= Len(revisions[job[g].slot]) + 1
                /\ job[g].number = Len(revisions[job[g].slot]) + 1
                      => job[g].value \notin Range(revisions[job[g].slot])
              BY <3>1 DEF NumberRead
          <3>4. CASE job[g].slot = s
              BY <2>5, <3>1, <3>2, <3>3, <3>4
          <3>5. CASE job[g].slot # s
              BY <2>5, <3>1, <3>2, <3>3, <3>5
          <3> QED
              BY <3>4, <3>5
      <2> QED
          BY <2>6, <2>7, <2>8, <2>10, <2>12, <2>13
  <1> QED
      BY <1>3, <1>4

\* The duplicate check, the unique number and the commit work together.
LEMMA RevisionStep == RevisionInv /\ [Next]_vars => RevisionInv'
  <1> SUFFICES ASSUME RevisionInv, [Next]_vars PROVE RevisionInv'
      OBVIOUS
  <1> USE DEF RevisionInv
  <1>1. TypeOK' /\ SlotsExist'
      BY TypeStep
  <1>2. ASSUME NEW h \in Request, ReadSlot(h) PROVE RevisionInv'
      <2>1. PICK s \in Slot, v \in Value : s = job[h].slot /\ v = job[h].value
          BY <1>2, JobKinds DEF ReadSlot, SavingAt, Saving
      <2>2. job[h] \in Saving /\ job[h].at = "reading" /\ job[h].number = 0
          BY <1>2, JobKinds DEF ReadSlot, SavingAt, Unnumbered
      <2>3. /\ \A g \in Request \ {h} : job'[g] = job[g]
            /\ UNCHANGED answers
          BY <1>2 DEF ReadSlot, Become, TypeOK
      <2>4. /\ job'[h].slot = s /\ job'[h].value = v
            /\ \/ job'[h].at = "counting" /\ job'[h].number = 0
               \/ /\ job'[h].at = "inserting"
                  /\ job'[h].number = Len(revisions[s]) + 1
                  /\ v \notin Range(revisions[s])
          <3>1. CASE AlreadySaved(s, v)
              BY <1>2, <2>1, <2>2, <3>1 DEF ReadSlot, Become, TypeOK, Saving
          <3>2. CASE ~AlreadySaved(s, v)
              BY <1>2, <2>1, <2>2, <3>2
                 DEF ReadSlot, Become, TypeOK, Saving, AlreadySaved
          <3> QED
              BY <3>1, <3>2
      <2>5. Len(revisions[s]) \in Nat
          BY DEF TypeOK
      <2>6. ASSUME NEW g \in Request, Writing(g)'
            PROVE  Writing(g) /\ job'[g] = job[g]
          BY <2>3, <2>4, <2>6 DEF Writing
      <2>7. Unnumbered'
          BY <2>3, <2>4 DEF Unnumbered
      <2>8. NumberRead'
          BY <2>3, <2>4, <2>5 DEF NumberRead, answers
      <2>9. NumberTaken' /\ OneWriter'
          BY <2>3, <2>6 DEF NumberTaken, OneWriter, answers
      <2>10. CurrentIsNewest' /\ AnswersAreDistinct'
          BY <2>3 DEF CurrentIsNewest, AnswersAreDistinct, answers
      <2> QED
          BY <1>1, <2>7, <2>8, <2>9, <2>10
  <1>3. ASSUME NEW h \in Request, InsertRevision(h) PROVE RevisionInv'
      <2>1. job[h] \in Saving /\ job[h].at = "inserting"
          BY <1>3, JobKinds DEF InsertRevision, SavingAt
      <2>2. /\ \A g \in Request \ {h} : job'[g] = job[g]
            /\ UNCHANGED answers
            /\ \A g \in Request \ {h} : Writing(g) => job[g].slot # job[h].slot
          BY <1>3 DEF InsertRevision, Become, TypeOK
      <2>3. CASE ~NumberFree(h)
          <3>1. job'[h] = Idle
              BY <1>3, <2>3 DEF InsertRevision, Become, TypeOK
          <3>2. RevisionFrame
              BY <2>2, <3>1 DEF RevisionFrame, SameRevision, WritingAt, Idle
          <3> QED
              BY <1>1, <3>2, RevisionKept
      <2>4. CASE NumberFree(h)
          <3>1. /\ job'[h].at = "counting" /\ job'[h].slot = job[h].slot
                /\ job'[h].value = job[h].value
                /\ job'[h].number = job[h].number
              BY <1>3, <2>1, <2>4 DEF InsertRevision, Become, TypeOK, Saving
          <3>2. job[h].slot \in Slot /\ job[h].number \in Nat
              BY <2>1 DEF Saving
          <3>3. Len(revisions[job[h].slot]) \in Nat
              BY <3>2 DEF TypeOK
          <3>4. /\ job[h].number = Len(revisions[job[h].slot]) + 1
                /\ job[h].value \notin Range(revisions[job[h].slot])
              BY <2>1, <2>4, <3>2, <3>3 DEF NumberRead, NumberFree
          <3>5. \A g \in Request \ {h} :
                    job'[g] = job[g] /\ (Writing(g)' <=> Writing(g))
              BY <2>2 DEF Writing
          <3>6. Unnumbered' /\ NumberRead'
              BY <2>2, <3>1 DEF Unnumbered, NumberRead, answers
          <3>7. NumberTaken'
              BY <2>2, <3>1, <3>4, <3>5 DEF NumberTaken, answers
          <3>8. OneWriter'
              BY <2>2, <3>1, <3>5 DEF OneWriter
          <3>9. CurrentIsNewest' /\ AnswersAreDistinct'
              BY <2>2 DEF CurrentIsNewest, AnswersAreDistinct, answers
          <3> QED
              BY <1>1, <3>6, <3>7, <3>8, <3>9
      <2> QED
          BY <2>3, <2>4
  <1>4. ASSUME NEW h \in Request, CommitRevision(h) PROVE RevisionInv'
      BY <1>1, <1>4, RevisionCommits
  <1>5. CASE RevisionFrame
      BY <1>1, <1>5, RevisionKept
  <1> QED
      BY <1>2, <1>3, <1>4, <1>5, RevisionSteps

\* Revisions are numbered without gaps, however many edits of a slot race.
THEOREM RevisionSafety == Spec => []RevisionInv
  BY InitRevisions, RevisionStep, PTL DEF Spec

\* The current answer is the newest revision, whichever edit commits last.
THEOREM CurrentSafety == Spec => []CurrentIsNewest
  <1>1. RevisionInv => CurrentIsNewest
      BY DEF RevisionInv
  <1> QED
      BY <1>1, RevisionSafety, PTL

\* An answer posted twice is stored once, even when the posts overlap.
THEOREM DistinctSafety == Spec => []AnswersAreDistinct
  <1>1. RevisionInv => AnswersAreDistinct
      BY DEF RevisionInv
  <1> QED
      BY <1>1, RevisionSafety, PTL
=============================================================================
