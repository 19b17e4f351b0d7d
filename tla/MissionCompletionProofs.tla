------------------------ MODULE MissionCompletionProofs ------------------------
(***************************************************************************)
(* Completion, participation events and points, for any number of          *)
(* concurrent requests, and what a client without overlapping requests can *)
(* rely on.                                                                *)
(***************************************************************************)
EXTENDS MissionEngineProofs

-----------------------------------------------------------------------------
(* A slot belongs to one mission.                                           *)

Disjoint == \A l, m \in missions : \A s \in l : s \in m => l = m

\* No other transaction charges what a request is about to charge.
Fresh ==
    \A h \in Request : job[h].at = "creating" =>
        \A q \in job[h].chosen : <<job[h].date, q>> \notin UNION missions

SlotInv == LedgerInv /\ Disjoint /\ Fresh

\* The mission of a slot is the one that holds it.
LEMMA OwnMission ==
  ASSUME Disjoint, NEW m \in missions, NEW s \in m
  PROVE  MissionOf(s) = m
  BY DEF Disjoint, MissionOf

\* It stays its mission when others are created.
LEMMA MissionStays ==
  ASSUME Disjoint, Disjoint', missions \subseteq missions',
         NEW s \in UNION missions
  PROVE  MissionOf(s)' = MissionOf(s)
  <1>1. PICK m \in missions : s \in m
      OBVIOUS
  <1>2. MissionOf(s) = m
      BY <1>1, OwnMission
  <1>3. \A l \in missions' : s \in l => l = m
      BY <1>1 DEF Disjoint
  <1>4. MissionOf(s)' = m
      BY <1>1, <1>3 DEF MissionOf
  <1> QED
      BY <1>2, <1>4

\* There is no mission at first.
LEMMA InitSlots == Init => SlotInv
  BY InitLedger DEF Init, SlotInv, Disjoint, Fresh, Idle

\* The lock and the ledger keep the questions of two missions apart.
LEMMA SlotStep == SlotInv /\ [Next]_vars => SlotInv'
  <1> SUFFICES ASSUME SlotInv, [Next]_vars PROVE SlotInv'
      OBVIOUS
  <1>1. LedgerInv /\ LedgerInv' /\ TypeOK /\ SlotsExist /\ Disjoint /\ Fresh
      BY LedgerStep DEF SlotInv, LedgerInv
  <1>2. CASE LedgerFrame
      BY <1>1, <1>2 DEF LedgerFrame, SlotInv, Disjoint, Fresh, Holding
  <1>3. ASSUME NEW h \in Request, FindActiveMission(h) PROVE SlotInv'
      <2>1. /\ missions' = missions
            /\ \A g \in Request \ {h} : job'[g] = job[g]
            /\ \/ job'[h] = Idle
               \/ job'[h] = [job[h] EXCEPT !.at = "selecting"]
          BY <1>1, <1>3 DEF FindActiveMission, Become, TypeOK
      <2>2. job'[h].at # "creating"
          BY <1>1, <1>3, <2>1, JobKinds DEF FindActiveMission, Creating, Idle
      <2> QED
          BY <1>1, <2>1, <2>2 DEF SlotInv, Disjoint, Fresh
  <1>4. ASSUME NEW h \in Request, SelectQuestions(h) PROVE SlotInv'
      <2>1. PICK chosen \in SUBSET Question :
                /\ Become(h, Selected(job[h].date, chosen))
                /\ \A q \in chosen : <<job[h].date, q>> \notin Ledger(job[h].date)
          BY <1>4 DEF SelectQuestions
      <2>2. /\ missions' = missions
            /\ \A g \in Request \ {h} : job'[g] = job[g]
            /\ job'[h] = Selected(job[h].date, chosen)
          BY <1>1, <1>4, <2>1 DEF SelectQuestions, Become, TypeOK
      <2>3. \A q \in chosen : <<job[h].date, q>> \notin UNION missions
          BY <2>1 DEF Ledger
      <2>4. job'[h].at = "creating" =>
                job'[h].chosen = chosen /\ job'[h].date = job[h].date
          BY <2>2 DEF Selected, Idle
      <2> QED
          BY <1>1, <2>2, <2>3, <2>4 DEF SlotInv, Disjoint, Fresh
  <1>5. ASSUME NEW h \in Request, CreateMission(h) PROVE SlotInv'
      <2>1. PICK e \in Date, chosen \in SUBSET Question :
                /\ job[h].at = "creating"
                /\ e = job[h].date
                /\ chosen = job[h].chosen
          BY <1>1, <1>5, JobKinds DEF CreateMission, Chosen
      <2>2. /\ missions' = missions \cup {{e} \X chosen}
            /\ \A g \in Request \ {h} : job'[g] = job[g]
            /\ job'[h] = Idle
          BY <1>1, <1>5, <2>1 DEF CreateMission, Become, TypeOK
      <2>3. \A s \in {e} \X chosen : s \notin UNION missions /\ s[1] = e
          BY <1>1, <2>1 DEF Fresh
      <2>4. Disjoint'
          <3> DEFINE new == {e} \X chosen
          <3> SUFFICES ASSUME NEW l \in missions', NEW m \in missions',
                              NEW s \in l, s \in m
                       PROVE  l = m
              BY DEF Disjoint
          <3>1. (l \in missions \/ l = new) /\ (m \in missions \/ m = new)
              BY <2>2
          <3>2. s \in new => s \notin UNION missions
              BY <2>3
          <3> HIDE DEF new
          <3> QED
              BY <1>1, <3>1, <3>2 DEF Disjoint
      <2>5. Fresh'
          <3> SUFFICES ASSUME NEW g \in Request, job'[g].at = "creating",
                              NEW q \in job'[g].chosen
                       PROVE  <<job'[g].date, q>> \notin UNION missions'
              BY DEF Fresh
          <3>1. g # h /\ job'[g] = job[g]
              BY <2>2 DEF Idle
          <3>2. job[g].date # e
              BY <1>1, <2>1, <3>1 DEF LedgerInv, OneHolder, Holding
          <3>3. <<job[g].date, q>> \notin {e} \X chosen
              BY <2>3, <3>2
          <3> QED
              BY <1>1, <2>2, <3>1, <3>3 DEF Fresh
      <2> QED
          BY <1>1, <2>4, <2>5 DEF SlotInv
  <1> QED
      BY <1>1, <1>2, <1>3, <1>4, <1>5, LedgerSteps

-----------------------------------------------------------------------------
(* Completion is whole, and nothing is shown that was not earned.           *)

\* Only slots of missions are answered.
AnswersBelong == Answered \subseteq UNION missions

\* A request that completes a mission has seen, or brings, all its answers, and
\* what it is about to store in the profile is earned when it commits.
Finishes(h) ==
    /\ job[h].at \in {"completing", "projecting"} => AllAnswered(h)
    /\ job[h].at = "projecting" /\ Earns(MissionOf(job[h].slot))
          => job[h].seen <= Projected(MissionOf(job[h].slot))
    /\ job[h].at = "onboarding"
          => job[h].seen <= TotalPoints(TRUE, earned)

DoneInv ==
    /\ SlotInv
    /\ AnswersBelong
    /\ \A h \in Request : Finishes(h)
    /\ CompletionIsWhole
    /\ ProgressIsEarned

\* More events are worth at least as many points.
LEMMA PointsGrow ==
  ASSUME NEW more \in SUBSET Snapshot, NEW done \in SUBSET more,
         NEW on \in BOOLEAN, NEW later \in BOOLEAN, on => later
  PROVE  TotalPoints(on, done) <= TotalPoints(later, more)
  <1>1. IsFiniteSet(more) /\ IsFiniteSet(done)
      BY MissionsAreFinite, FS_Subset
  <1>2. Cardinality(done) <= Cardinality(more)
      BY <1>1, FS_Subset
  <1>3. Cardinality(done) \in Nat /\ Cardinality(more) \in Nat
      BY <1>1, FS_CardinalityType
  <1> QED
      BY <1>2, <1>3 DEF TotalPoints

\* With more points nothing is locked again.
LEMMA UnlockedGrows ==
  ASSUME NEW m \in Nat, NEW n \in Nat, m <= n
  PROVE  Unlocked(m) \subseteq Unlocked(n)
  BY EngineAssumption DEF Unlocked, EngineAssumption

\* A commit answers what its transaction had seen answered.
LEMMA CommitAnswers ==
  ASSUME TypeOK, SlotsExist, NEW h \in Request,
         job[h] \in Saving \cup Projecting, job[h].slot \in UNION missions,
         PublishAnswer(job[h])
  PROVE  Answered' = Seen(h) /\ Answered' \subseteq Answered \cup {job[h].slot}
  <1>1. /\ job[h].slot \in Slot /\ job[h].number \in Nat
        /\ revisions[job[h].slot] \in Seq(Value) /\ job[h].value \in Value
      BY DEF Saving, Projecting, TypeOK
  <1>2. CASE job[h].number > 0
      <2>1. Append(revisions[job[h].slot], job[h].value) # << >>
          BY <1>1
      <2> QED
          BY <1>1, <1>2, <2>1 DEF PublishAnswer, Answered, Seen, TypeOK
  <1>3. CASE ~(job[h].number > 0)
      BY <1>3 DEF PublishAnswer, Answered, Seen, answers
  <1> QED
      BY <1>2, <1>3

\* Before the first request nothing is answered, completed or earned.
LEMMA InitDone == Init => DoneInv
  <1> SUFFICES ASSUME Init PROVE DoneInv
      OBVIOUS
  <1>1. /\ AnswersBelong /\ CompletionIsWhole
        /\ \A h \in Request : Finishes(h)
      BY DEF Init, AnswersBelong, Answered, Finishes, CompletionIsWhole, Idle
  <1>2. ProgressIsEarned
      <2>1. TotalPoints(onboarded, earned) = 0
          BY FS_EmptySet DEF Init, TotalPoints
      <2> QED
          BY <2>1 DEF Init, ProgressIsEarned
  <1> QED
      BY <1>1, <1>2, InitSlots DEF DoneInv

\* Control points with something to complete or to store.
Finishing == {"completing", "projecting", "onboarding"}

\* A step that commits no answer and no event, and after which nobody is
\* further with a completion.
DoneFrame ==
    /\ missions \subseteq missions'
    /\ UNCHANGED <<completed, answers, honey, notified>>
    /\ \A g \in Request : job'[g] = job[g] \/ job'[g].at \notin Finishing

\* Every step is one of those that count, complete or onboard, or touches none
\* of what completion and points depend on.
LEMMA DoneSteps ==
  ASSUME TypeOK, SlotsExist, [Next]_vars
  PROVE  \/ \E h \in Request : \/ CountAnswered(h)
                               \/ CommitAnswer(h)
                               \/ CompleteMission(h)
                               \/ CommitCompletion(h)
                               \/ \E z \in Zone : StartOnboarding(h, z)
                               \/ CommitOnboarding(h)
         \/ DoneFrame
  <1> USE DEF DoneFrame, Finishing
  <1>1. ASSUME NEW h \in Request, NEW n \in Size, StartMission(h, n)
        PROVE  DoneFrame
      BY <1>1 DEF StartMission, Become, TypeOK
  <1>2. ASSUME NEW h \in Request, NEW s \in Slot, NEW v \in Value,
               SubmitAnswer(h, s, v)
        PROVE  DoneFrame
      BY <1>2 DEF SubmitAnswer, Become, TypeOK
  <1>3. ASSUME NEW h \in Request,
               FindActiveMission(h) \/ SelectQuestions(h) \/ CreateMission(h)
        PROVE  DoneFrame
      <2>1. PICK j : /\ Become(h, j) /\ j.at \notin Finishing
          <3>1. CASE FindActiveMission(h)
              BY <3>1, JobKinds DEF FindActiveMission, Creating, Idle
          <3>2. CASE SelectQuestions(h)
              BY <3>2 DEF SelectQuestions, Selected, Idle
          <3>3. CASE CreateMission(h)
              BY <3>3 DEF CreateMission, Idle
          <3> QED
              BY <1>3, <3>1, <3>2, <3>3
      <2> QED
          BY <1>3, <2>1
             DEF FindActiveMission, SelectQuestions, CreateMission, Become,
                 TypeOK
  <1>4. ASSUME NEW h \in Request, ReadSlot(h) \/ InsertRevision(h)
        PROVE  DoneFrame
      <2>1. job[h] \in Saving
          BY <1>4, JobKinds DEF ReadSlot, InsertRevision, SavingAt
      <2>2. job'[h].at \notin Finishing
          <3>1. CASE ReadSlot(h)
              BY <2>1, <3>1 DEF ReadSlot, Become, TypeOK, Saving
          <3>2. CASE InsertRevision(h)
              BY <2>1, <3>2 DEF InsertRevision, Become, TypeOK, Saving, Idle
          <3> QED
              BY <1>4, <3>1, <3>2
      <2> QED
          BY <1>4, <2>2 DEF ReadSlot, InsertRevision, Become, TypeOK
  <1>5. ASSUME NEW h \in Request, Abort(h) PROVE DoneFrame
      BY <1>5 DEF Abort, Become, TypeOK, Idle
  <1>6. ASSUME NEW z \in Zone, Midnight(z) PROVE DoneFrame
      BY <1>6 DEF Midnight
  <1>7. CASE UNCHANGED vars
      BY <1>7 DEF vars
  <1> QED
      BY <1>1, <1>2, <1>3, <1>4, <1>5, <1>6, <1>7 DEF Next

\* What others commit leaves a request as far as it is.
LEMMA FinishesStill ==
  ASSUME SlotInv, SlotInv', missions \subseteq missions',
         Answered \subseteq Answered', earned \subseteq earned',
         onboarded => onboarded',
         NEW g \in Request, job'[g] = job[g], Finishes(g)
  PROVE  Finishes(g)'
  <1>1. /\ TypeOK /\ TypeOK' /\ SlotsExist /\ Disjoint /\ Disjoint'
      BY DEF SlotInv, LedgerInv
  <1>2. ASSUME job[g].at \in {"completing", "projecting"}
        PROVE  /\ job[g].slot \in UNION missions
               /\ MissionOf(job[g].slot) \in missions
               /\ MissionOf(job[g].slot)' = MissionOf(job[g].slot)
      <2>1. PICK s \in UNION missions : s = job[g].slot
          BY <1>1, <1>2 DEF SlotsExist, SavingAt
      <2>2. MissionOf(s) \in missions /\ MissionOf(s)' = MissionOf(s)
          BY <1>1, MissionStays, MissionOfType
      <2>3. job'[g].slot = s
          BY <2>1
      <2> QED
          BY <2>1, <2>2, <2>3
  <1>3. job[g].at \in {"completing", "projecting"} => AllAnswered(g)'
      <2> SUFFICES ASSUME job[g].at \in {"completing", "projecting"}
                   PROVE  AllAnswered(g)'
          OBVIOUS
      <2>1. AllAnswered(g)
          BY DEF Finishes
      <2>2. Seen(g) \subseteq Seen(g)'
          BY DEF Seen
      <2> QED
          BY <1>2, <2>1, <2>2 DEF AllAnswered
  <1>4. ASSUME job[g].at = "projecting", Earns(MissionOf(job[g].slot))
        PROVE  job[g].seen <= Projected(MissionOf(job[g].slot))'
      <2> DEFINE m == MissionOf(job[g].slot)
      <2>1. /\ m \in missions
            /\ MissionOf(job[g].slot)' = m
            /\ job[g].seen \in Nat
          BY <1>1, <1>2, <1>4, JobKinds DEF Projecting
      <2>2. /\ earned' \cup {m} \in SUBSET Snapshot
            /\ earned \cup {m} \in SUBSET (earned' \cup {m})
            /\ earned \cup {m} \in SUBSET Snapshot
            /\ onboarded \in BOOLEAN /\ onboarded' \in BOOLEAN
          BY <1>1, <2>1 DEF TypeOK
      <2>3. /\ TotalPoints(onboarded, earned \cup {m})
                  <= TotalPoints(onboarded', earned' \cup {m})
            /\ TotalPoints(onboarded, earned \cup {m}) \in Nat
            /\ TotalPoints(onboarded', earned' \cup {m}) \in Nat
          BY <2>2, PointsGrow, PointsType
      <2>4. job[g].seen <= TotalPoints(onboarded, earned \cup {m})
          BY <1>4 DEF Finishes, Projected
      <2>5. job[g].seen <= TotalPoints(onboarded', earned' \cup {m})
          <3> HIDE DEF m
          <3> QED
              BY <2>1, <2>3, <2>4
      <2>6. TotalPoints(onboarded', earned' \cup {m})
               = Projected(MissionOf(job[g].slot))'
          BY <2>1 DEF Projected, TotalPoints
      <2> QED
          BY <2>5, <2>6
  <1>5. ASSUME job[g].at = "onboarding"
        PROVE  job[g].seen <= TotalPoints(TRUE, earned)'
      <2>1. /\ job[g].seen \in Nat
            /\ job[g].seen <= TotalPoints(TRUE, earned)
          BY <1>1, <1>5, JobKinds DEF Onboarding, Finishes
      <2>2. earned' \in SUBSET Snapshot /\ earned \in SUBSET earned'
            /\ earned \in SUBSET Snapshot
          BY <1>1 DEF TypeOK
      <2>3. /\ TotalPoints(TRUE, earned) <= TotalPoints(TRUE, earned')
            /\ TotalPoints(TRUE, earned) \in Nat
            /\ TotalPoints(TRUE, earned') \in Nat
          BY <2>2, PointsGrow, PointsType
      <2> DEFINE before == TotalPoints(TRUE, earned)
                 after == TotalPoints(TRUE, earned')
      <2>4. /\ job[g].seen \in Nat /\ job[g].seen <= before
            /\ before <= after /\ before \in Nat /\ after \in Nat
          BY <2>1, <2>3
      <2>5. job[g].seen <= after
          <3> HIDE DEF before, after
          <3> QED
              BY <2>4
      <2> QED
          BY <2>5 DEF TotalPoints
  <1>6. Earns(MissionOf(job[g].slot)') = Earns(MissionOf(job[g].slot))
        \/ job[g].at \notin {"completing", "projecting"}
      BY <1>2
  <1> QED
      BY <1>2, <1>3, <1>4, <1>5, <1>6 DEF Finishes, Earns

\* A profile that shows no more than was earned still does later.
LEMMA ProgressStill ==
  ASSUME TypeOK, TypeOK', ProgressIsEarned, earned \subseteq earned',
         onboarded => onboarded', UNCHANGED <<points, rewards>>
  PROVE  ProgressIsEarned'
  <1> DEFINE before == TotalPoints(onboarded, earned)
             after == TotalPoints(onboarded', earned')
  <1>1. /\ earned \in SUBSET Snapshot /\ earned' \in SUBSET Snapshot
        /\ earned \in SUBSET earned'
        /\ onboarded \in BOOLEAN /\ onboarded' \in BOOLEAN /\ points \in Nat
      BY DEF TypeOK
  <1>2. before <= after /\ before \in Nat /\ after \in Nat
      BY <1>1, PointsGrow, PointsType
  <1>3. points <= before /\ rewards \subseteq Unlocked(before)
      BY DEF ProgressIsEarned
  <1>4. points <= after /\ rewards \subseteq Unlocked(after)
      <2> HIDE DEF before, after
      <2> QED
          BY <1>1, <1>2, <1>3, UnlockedGrows
  <1> QED
      BY <1>4 DEF ProgressIsEarned, TotalPoints, Unlocked

\* A profile that is overwritten shows no more than was earned.
LEMMA ProgressStored ==
  ASSUME TypeOK, TypeOK', ProgressIsEarned, earned \subseteq earned',
         onboarded => onboarded', NEW n \in Nat, StoreProfile(n),
         n <= TotalPoints(onboarded', earned')
  PROVE  ProgressIsEarned'
  <1> DEFINE before == TotalPoints(onboarded, earned)
             after == TotalPoints(onboarded', earned')
  <1>1. /\ earned \in SUBSET Snapshot /\ earned' \in SUBSET Snapshot
        /\ earned \in SUBSET earned'
        /\ onboarded \in BOOLEAN /\ onboarded' \in BOOLEAN
      BY DEF TypeOK
  <1>2. before <= after /\ before \in Nat /\ after \in Nat
      BY <1>1, PointsGrow, PointsType
  <1>3. rewards \subseteq Unlocked(before) /\ n <= after
      BY DEF ProgressIsEarned
  <1>4. points' <= after /\ rewards' \subseteq Unlocked(after)
      <2>1. points' = n /\ rewards' = rewards \cup Unlocked(n)
          BY DEF StoreProfile
      <2> HIDE DEF before, after
      <2>2. Unlocked(before) \subseteq Unlocked(after)
            /\ Unlocked(n) \subseteq Unlocked(after)
          BY <1>2, <1>3, UnlockedGrows
      <2> QED
          BY <1>3, <2>1, <2>2
  <1> QED
      BY <1>4 DEF ProgressIsEarned, TotalPoints, Unlocked

\* Counting, completing and storing keep completion whole and points earned.
LEMMA DoneStep == DoneInv /\ [Next]_vars => DoneInv'
  <1> SUFFICES ASSUME DoneInv, [Next]_vars PROVE DoneInv'
      OBVIOUS
  <1>1. /\ SlotInv /\ SlotInv' /\ TypeOK /\ TypeOK' /\ SlotsExist /\ SlotsExist'
        /\ Disjoint /\ Disjoint'
      BY SlotStep DEF DoneInv, SlotInv, LedgerInv
  <1>2. /\ AnswersBelong /\ CompletionIsWhole /\ ProgressIsEarned
        /\ \A g \in Request : Finishes(g)
      BY DEF DoneInv
  <1>3. CASE DoneFrame
      <2>1. Answered' = Answered /\ missions \subseteq missions'
            /\ UNCHANGED <<completed, earned, onboarded, points, rewards, notified>>
          BY <1>3 DEF DoneFrame, Answered, answers, honey
      <2>2. AnswersBelong' /\ CompletionIsWhole'
          BY <1>2, <2>1 DEF AnswersBelong, CompletionIsWhole, Earns
      <2>3. \A g \in Request : Finishes(g)'
          <3> SUFFICES ASSUME NEW g \in Request PROVE Finishes(g)'
              OBVIOUS
          <3>1. CASE job'[g] = job[g]
              BY <1>1, <1>2, <2>1, <3>1, FinishesStill
          <3>2. CASE job'[g].at \notin Finishing
              BY <3>2 DEF Finishes, Finishing
          <3> QED
              BY <1>3, <3>1, <3>2 DEF DoneFrame
      <2>4. ProgressIsEarned'
          BY <1>1, <1>2, <2>1, ProgressStill
      <2> QED
          BY <1>1, <2>2, <2>3, <2>4 DEF DoneInv
  <1>4. ASSUME NEW h \in Request, CountAnswered(h) PROVE DoneInv'
      <2>1. /\ Answered' = Answered /\ missions' = missions
            /\ UNCHANGED <<completed, earned, onboarded, points, rewards, notified>>
            /\ \A g \in Request \ {h} : job'[g] = job[g]
          BY <1>1, <1>4 DEF CountAnswered, Answered, answers, honey, Become, TypeOK
      <2>2. job[h] \in Saving
          BY <1>1, <1>4, JobKinds DEF CountAnswered, SavingAt
      <2>3. /\ job'[h].slot = job[h].slot /\ job'[h].number = job[h].number
            /\ job'[h].at = IF AllAnswered(h) THEN "completing" ELSE "committing"
          BY <1>1, <1>4, <2>2 DEF CountAnswered, Become, TypeOK, Saving
      <2>4. AllAnswered(h)' <=> AllAnswered(h)
          BY <2>1, <2>3 DEF AllAnswered, Seen, MissionOf
      <2>5. Finishes(h)'
          BY <2>3, <2>4 DEF Finishes
      <2>6. \A g \in Request : Finishes(g)'
          BY <1>1, <1>2, <2>1, <2>5, FinishesStill
      <2>7. AnswersBelong' /\ CompletionIsWhole'
          BY <1>2, <2>1 DEF AnswersBelong, CompletionIsWhole, Earns
      <2>8. ProgressIsEarned'
          BY <1>1, <1>2, <2>1, ProgressStill
      <2> QED
          BY <1>1, <2>6, <2>7, <2>8 DEF DoneInv
  <1>5. ASSUME NEW h \in Request, CommitAnswer(h) PROVE DoneInv'
      <2>1. /\ missions' = missions
            /\ UNCHANGED <<completed, earned, onboarded, points, rewards, notified>>
            /\ \A g \in Request \ {h} : job'[g] = job[g]
            /\ job'[h] = Idle
          BY <1>1, <1>5 DEF CommitAnswer, honey, Become, TypeOK
      <2>2. job[h] \in Saving /\ job[h].slot \in UNION missions
          BY <1>1, <1>5, JobKinds DEF CommitAnswer, SavingAt, SlotsExist
      <2>3. Answered' = Seen(h) /\ Answered' \subseteq Answered \cup {job[h].slot}
          BY <1>1, <1>5, <2>2, CommitAnswers DEF CommitAnswer
      <2>4. Answered \subseteq Answered'
          BY <2>3 DEF Seen
      <2>5. AnswersBelong' /\ CompletionIsWhole'
          BY <1>2, <2>1, <2>2, <2>3, <2>4 DEF AnswersBelong, CompletionIsWhole, Earns
      <2>6. Finishes(h)'
          BY <2>1 DEF Finishes, Idle
      <2>7. \A g \in Request : Finishes(g)'
          BY <1>1, <1>2, <2>1, <2>4, <2>6, FinishesStill
      <2>8. ProgressIsEarned'
          BY <1>1, <1>2, <2>1, ProgressStill
      <2> QED
          BY <1>1, <2>5, <2>7, <2>8 DEF DoneInv
  <1>6. ASSUME NEW h \in Request, CompleteMission(h) PROVE DoneInv'
      <2> DEFINE m == MissionOf(job[h].slot)
      <2>1. /\ Answered' = Answered /\ missions' = missions
            /\ UNCHANGED <<completed, earned, onboarded, points, rewards, notified>>
            /\ \A g \in Request \ {h} : job'[g] = job[g]
          BY <1>1, <1>6 DEF CompleteMission, Answered, answers, honey, Become, TypeOK
      <2>2. /\ job'[h].at = "projecting" /\ job'[h].slot = job[h].slot
            /\ job'[h].number = job[h].number
            /\ job'[h].seen = IF Earns(m) THEN Projected(m) ELSE 0
          BY <1>1, <1>6 DEF CompleteMission, Become, TypeOK
      <2>3. AllAnswered(h)
          BY <1>2, <1>6 DEF CompleteMission, Finishes
      <2>4. AllAnswered(h)'
          BY <2>1, <2>2, <2>3 DEF AllAnswered, Seen, MissionOf
      <2>5. Projected(m) \in Nat
          <3>1. m \in missions
              BY <1>1, <1>6, MissionOfType DEF CompleteMission, SlotsExist, SavingAt
          <3>2. earned \cup {m} \in SUBSET Snapshot
              BY <1>1, <3>1 DEF TypeOK
          <3> QED
              BY <1>1, <3>2, PointsType DEF Projected, TypeOK
      <2>6. Finishes(h)'
          <3>1. Earns(m) => job'[h].seen <= Projected(m)
              <4> HIDE DEF m
              <4> QED
                  BY <2>2, <2>5
          <3> QED
              BY <2>1, <2>2, <2>4, <3>1
                 DEF Finishes, Earns, Projected, TotalPoints, MissionOf
      <2>7. \A g \in Request : Finishes(g)'
          BY <1>1, <1>2, <2>1, <2>6, FinishesStill
      <2>8. AnswersBelong' /\ CompletionIsWhole'
          BY <1>2, <2>1 DEF AnswersBelong, CompletionIsWhole, Earns
      <2>9. ProgressIsEarned'
          BY <1>1, <1>2, <2>1, ProgressStill
      <2> QED
          BY <1>1, <2>7, <2>8, <2>9 DEF DoneInv
  <1>7. ASSUME NEW h \in Request, CommitCompletion(h) PROVE DoneInv'
      <2> DEFINE m == MissionOf(job[h].slot)
      <2>1. /\ missions' = missions /\ onboarded' = onboarded
            /\ completed' = completed \cup {m} /\ notified' = notified \cup {m}
            /\ \A g \in Request \ {h} : job'[g] = job[g]
            /\ job'[h] = Idle
          BY <1>1, <1>7 DEF CommitCompletion, Become, TypeOK
      <2>2. job[h] \in Projecting /\ job[h].slot \in UNION missions
          BY <1>1, <1>7, JobKinds DEF CommitCompletion, SlotsExist
      <2>3. Answered' = Seen(h) /\ Answered' \subseteq Answered \cup {job[h].slot}
          BY <1>1, <1>7, <2>2, CommitAnswers DEF CommitCompletion
      <2>4. Answered \subseteq Answered' /\ m \subseteq Answered'
          BY <1>2, <1>7, <2>3 DEF Seen, CommitCompletion, Finishes, AllAnswered
      <2>5. AnswersBelong'
          BY <1>2, <2>1, <2>2, <2>3 DEF AnswersBelong
      <2>6. earned' = IF Earns(m) THEN earned \cup {m} ELSE earned
          BY <1>7 DEF CommitCompletion
      <2>7. CompletionIsWhole'
          <3> HIDE DEF m
          <3> QED
              BY <1>2, <2>1, <2>4, <2>6 DEF CompletionIsWhole, Earns
      <2>8. Finishes(h)'
          BY <2>1 DEF Finishes, Idle
      <2>9. \A g \in Request : Finishes(g)'
          BY <1>1, <1>2, <2>1, <2>4, <2>6, <2>8, FinishesStill
      <2>10. ProgressIsEarned'
          <3>1. CASE Earns(m)
              <4>1. StoreProfile(job[h].seen) /\ earned' = earned \cup {m}
                  BY <1>7, <3>1 DEF CommitCompletion
              <4>2. job[h].seen \in Nat
                  BY <2>2 DEF Projecting
              <4>3. job[h].seen <= TotalPoints(onboarded', earned')
                  BY <1>2, <1>7, <2>1, <3>1, <4>1
                     DEF CommitCompletion, Finishes, Projected
              <4>4. PICK n \in Nat : n = job[h].seen
                  BY <4>2
              <4> QED
                  BY <1>1, <1>2, <2>1, <4>1, <4>3, <4>4, ProgressStored
          <3>2. CASE ~Earns(m)
              <4>1. UNCHANGED <<earned, points, rewards>>
                  BY <1>7, <3>2 DEF CommitCompletion
              <4> QED
                  BY <1>1, <1>2, <2>1, <4>1, ProgressStill
          <3> QED
              BY <3>1, <3>2
      <2> QED
          BY <1>1, <2>5, <2>7, <2>9, <2>10 DEF DoneInv
  <1>8. ASSUME NEW h \in Request, NEW z \in Zone, StartOnboarding(h, z)
        PROVE  DoneInv'
      <2>1. /\ Answered' = Answered /\ missions' = missions
            /\ UNCHANGED <<completed, earned, onboarded, points, rewards, notified>>
            /\ \A g \in Request \ {h} : job'[g] = job[g]
          BY <1>1, <1>8 DEF StartOnboarding, Answered, answers, honey, Become, TypeOK
      <2>2. job'[h].at = "onboarding" /\ job'[h].seen = TotalPoints(TRUE, earned)
          BY <1>1, <1>8 DEF StartOnboarding, Become, TypeOK
      <2>3. Finishes(h)'
          <3>1. TotalPoints(TRUE, earned) \in Nat
              BY <1>1, PointsType DEF TypeOK
          <3>2. PICK n \in Nat : n = TotalPoints(TRUE, earned)
              BY <3>1
          <3>3. n <= n
              OBVIOUS
          <3> QED
              BY <2>1, <2>2, <3>2, <3>3 DEF Finishes, TotalPoints
      <2>4. \A g \in Request : Finishes(g)'
          BY <1>1, <1>2, <2>1, <2>3, FinishesStill
      <2>5. AnswersBelong' /\ CompletionIsWhole'
          BY <1>2, <2>1 DEF AnswersBelong, CompletionIsWhole, Earns
      <2>6. ProgressIsEarned'
          BY <1>1, <1>2, <2>1, ProgressStill
      <2> QED
          BY <1>1, <2>4, <2>5, <2>6 DEF DoneInv
  <1>9. ASSUME NEW h \in Request, CommitOnboarding(h) PROVE DoneInv'
      <2>1. /\ Answered' = Answered /\ missions' = missions
            /\ UNCHANGED <<completed, earned, notified>>
            /\ onboarded' = TRUE
            /\ StoreProfile(job[h].seen)
            /\ \A g \in Request \ {h} : job'[g] = job[g]
            /\ job'[h] = Idle
          BY <1>1, <1>9 DEF CommitOnboarding, Answered, answers, Become, TypeOK
      <2>2. job[h].seen \in Nat
          BY <1>1, <1>9, JobKinds DEF CommitOnboarding, Onboarding
      <2>3. job[h].seen <= TotalPoints(onboarded', earned')
          BY <1>2, <1>9, <2>1 DEF CommitOnboarding, Finishes
      <2>4. PICK n \in Nat : n = job[h].seen
          BY <2>2
      <2>5. ProgressIsEarned'
          BY <1>1, <1>2, <2>1, <2>3, <2>4, ProgressStored
      <2>6. Finishes(h)'
          BY <2>1 DEF Finishes, Idle
      <2>7. \A g \in Request : Finishes(g)'
          BY <1>1, <1>2, <2>1, <2>6, FinishesStill
      <2>8. AnswersBelong' /\ CompletionIsWhole'
          BY <1>2, <2>1 DEF AnswersBelong, CompletionIsWhole, Earns
      <2> QED
          BY <1>1, <2>5, <2>7, <2>8 DEF DoneInv
  <1> QED
      BY <1>1, <1>3, <1>4, <1>5, <1>6, <1>7, <1>8, <1>9, DoneSteps

\* Completion and points are consistent in every reachable state.
LEMMA DoneSafety == Spec => []DoneInv
  BY InitDone, DoneStep, PTL DEF Spec

\* A completed mission is answered in full, has notified the staff and earned
\* its point once, however the transactions that saw its last answer overlap.
THEOREM CompletionSafety == Spec => []CompletionIsWhole
  <1>1. DoneInv => CompletionIsWhole
      BY DEF DoneInv
  <1> QED
      BY <1>1, DoneSafety, PTL

\* The profile and the rewards never show more than the events are worth, also
\* when a transaction overwrites them with what it projected before.
THEOREM ProgressSafety == Spec => []ProgressIsEarned
  <1>1. DoneInv => ProgressIsEarned
      BY DEF DoneInv
  <1> QED
      BY <1>1, DoneSafety, PTL

-----------------------------------------------------------------------------
(* A client whose requests do not overlap.                                  *)

\* At most one request is in flight.
Sole == \A g, h \in Request : job[g] # Idle /\ job[h] # Idle => g = h

\* What a request has read is still so.
Undisturbed(h) ==
    /\ job[h].at \in Holding => Active = {}
    /\ job[h].at = "committing" => ~AllAnswered(h)
    /\ job[h].at = "projecting" /\ Earns(MissionOf(job[h].slot))
          => job[h].seen = Projected(MissionOf(job[h].slot))
    /\ job[h].at = "onboarding" => job[h].seen = TotalPoints(TRUE, earned)

OneMission == \A l, m \in Active : l = m

NoneIsFull == \A m \in Active : ~(m \subseteq Answered)

PointsCurrent == points = TotalPoints(onboarded, earned)

Lone ==
    /\ Sole
    /\ \A h \in Request : Undisturbed(h)
    /\ OneMission
    /\ NoneIsFull
    /\ PointsCurrent

AloneInv == DoneInv /\ alone \in BOOLEAN /\ (alone => Lone)

\* There is no request at first.
LEMMA InitAlone == Init => AloneInv
  <1> SUFFICES ASSUME Init PROVE AloneInv
      OBVIOUS
  <1>1. Sole /\ \A h \in Request : Undisturbed(h)
      BY DEF Init, Sole, Undisturbed, Holding, Idle
  <1>2. OneMission /\ NoneIsFull
      BY DEF Init, OneMission, NoneIsFull, Active
  <1>3. PointsCurrent
      BY FS_EmptySet DEF Init, PointsCurrent, TotalPoints
  <1> QED
      BY <1>1, <1>2, <1>3, InitDone DEF AloneInv, Lone, Init

\* A request that takes a step without overlap is the only one.
LEMMA AloneBecomes ==
  ASSUME TypeOK, alone \in BOOLEAN, alone => Lone,
         NEW h \in Request, NEW j, Become(h, j)
  PROVE  /\ alone' \in BOOLEAN
         /\ alone' => /\ Lone
                      /\ Sole'
                      /\ job'[h] = j
                      /\ \A g \in Request \ {h} : Undisturbed(g)'
  <1>1. alone' = (alone /\ \A g \in Request \ {h} : job[g] = Idle)
      BY DEF Become
  <1>2. alone' \in BOOLEAN
      BY <1>1
  <1>3. job'[h] = j /\ \A g \in Request \ {h} : job'[g] = job[g]
      BY DEF Become, TypeOK
  <1>4. ASSUME alone'
        PROVE  Lone /\ Sole' /\ \A g \in Request \ {h} : Undisturbed(g)'
      <2>1. alone /\ \A g \in Request \ {h} : job[g] = Idle
          BY <1>1, <1>4
      <2>2. \A g \in Request \ {h} : job'[g] = Idle
          BY <1>3, <2>1
      <2>3. Sole'
          BY <2>2 DEF Sole
      <2>4. \A g \in Request \ {h} : Undisturbed(g)'
          <3>1. \A g \in Request \ {h} : job'[g].at = "idle"
              BY <2>2, IdleIsJob
          <3> QED
              BY <3>1 DEF Undisturbed, Holding
      <2> QED
          BY <2>1, <2>3, <2>4
  <1> QED
      BY <1>2, <1>3, <1>4

\* A step that writes no row keeps what is said of the rows.
LEMMA RowsKept ==
  ASSUME Lone, UNCHANGED <<missions, completed, answers, honey>>
  PROVE  OneMission' /\ NoneIsFull' /\ PointsCurrent'
  <1> USE DEF Lone, answers, honey
  <1>1. Active' = Active /\ Answered' = Answered
      BY DEF Active, Answered
  <1> QED
      BY <1>1 DEF OneMission, NoneIsFull, PointsCurrent, TotalPoints

\* An answer that leaves its mission open fills no mission.
LEMMA NoneGetsFull ==
  ASSUME Disjoint, NoneIsFull, NEW s \in UNION missions,
         missions' = missions, completed \subseteq completed',
         Answered' \subseteq Answered \cup {s},
         MissionOf(s) \in completed' \/ ~(MissionOf(s) \subseteq Answered')
  PROVE  NoneIsFull'
  <1> SUFFICES ASSUME NEW m \in Active', m \subseteq Answered' PROVE FALSE
      BY DEF NoneIsFull
  <1>1. m \in Active /\ m \in missions /\ m \notin completed'
      BY DEF Active
  <1>2. s \notin m
      BY <1>1, OwnMission
  <1>3. m \subseteq Answered
      BY <1>2
  <1> QED
      BY <1>1, <1>3 DEF NoneIsFull

\* Without overlap nothing comes between what a request reads and writes.
LEMMA AloneStep == AloneInv /\ [Next]_vars => AloneInv'
  <1> SUFFICES ASSUME AloneInv, [Next]_vars PROVE AloneInv'
      OBVIOUS
  <1>1. /\ DoneInv /\ DoneInv' /\ SlotInv /\ TypeOK /\ TypeOK' /\ SlotsExist
        /\ Disjoint /\ Fresh /\ AnswersBelong
        /\ alone \in BOOLEAN /\ (alone => Lone)
        /\ \A g \in Request : Finishes(g)
      BY DoneStep DEF AloneInv, DoneInv, SlotInv, LedgerInv
  <1>2. ASSUME NEW h \in Request, NEW j, Become(h, j),
               UNCHANGED <<missions, completed, answers, honey>>,
               Lone /\ job'[h] = j => Undisturbed(h)'
        PROVE  AloneInv'
      BY <1>1, <1>2, AloneBecomes, RowsKept DEF AloneInv, Lone
  <1>3. ASSUME NEW h \in Request, NEW j, Become(h, j),
               Lone /\ job'[h] = j
                  => Undisturbed(h)' /\ OneMission' /\ NoneIsFull' /\ PointsCurrent'
        PROVE  AloneInv'
      BY <1>1, <1>3, AloneBecomes DEF AloneInv, Lone
  <1>4. ASSUME NEW h \in Request, job'[h].at \notin
                   Holding \cup {"committing", "projecting", "onboarding"}
        PROVE  Undisturbed(h)'
      BY <1>4 DEF Undisturbed
  <1>5. ASSUME NEW h \in Request, NEW n \in Size, StartMission(h, n)
        PROVE  AloneInv'
      BY <1>2, <1>4, <1>5 DEF StartMission, Holding
  <1>6. ASSUME NEW h \in Request, FindActiveMission(h) PROVE AloneInv'
      <2>1. PICK j : Become(h, j) /\ (j = Idle \/ (Active = {} /\ j.at = "selecting"))
          <3>1. job[h] \in Creating
              BY <1>1, <1>6, JobKinds DEF FindActiveMission
          <3> QED
              BY <1>6, <3>1 DEF FindActiveMission, FoundActive, Creating
      <2>2. /\ UNCHANGED <<missions, completed, answers, honey>>
            /\ Active' = Active
          BY <1>6 DEF FindActiveMission, Active
      <2>3. job'[h] = j => Undisturbed(h)'
          BY <2>1, <2>2, IdleIsJob DEF Undisturbed, Holding
      <2> QED
          BY <1>2, <2>1, <2>2, <2>3
  <1>7. ASSUME NEW h \in Request, SelectQuestions(h) PROVE AloneInv'
      <2>1. PICK j : Become(h, j) /\ j.at \in {"idle", "creating"}
          BY <1>7 DEF SelectQuestions, Selected, Idle
      <2>2. /\ UNCHANGED <<missions, completed, answers, honey>>
            /\ Active' = Active
          BY <1>7 DEF SelectQuestions, Active
      <2>3. Lone => Active = {}
          BY <1>7 DEF SelectQuestions, Lone, Undisturbed, Holding
      <2>4. Lone /\ job'[h] = j => Undisturbed(h)'
          BY <2>1, <2>2, <2>3 DEF Undisturbed, Holding
      <2> QED
          BY <1>2, <2>1, <2>2, <2>4
  <1>8. ASSUME NEW h \in Request, CreateMission(h) PROVE AloneInv'
      <2> DEFINE m == {job[h].date} \X job[h].chosen
      <2>1. Become(h, Idle)
          BY <1>8 DEF CreateMission
      <2>2. ASSUME Lone, job'[h] = Idle
            PROVE  Undisturbed(h)' /\ OneMission' /\ NoneIsFull' /\ PointsCurrent'
          <3>1. Active = {}
              BY <1>8, <2>2 DEF CreateMission, Lone, Undisturbed, Holding
          <3>2. Active' \subseteq {m} /\ Answered' = Answered
              BY <1>8, <3>1 DEF CreateMission, Active, Answered, answers
          <3>3. ~(m \subseteq Answered)
              <4>1. job[h].chosen # {}
                  BY <1>1, <1>8, JobKinds DEF CreateMission, Chosen
              <4>2. PICK q \in job[h].chosen : TRUE
                  BY <4>1
              <4>3. <<job[h].date, q>> \notin Answered
                  BY <1>1, <1>8 DEF CreateMission, Fresh, AnswersBelong
              <4> QED
                  BY <4>2, <4>3
          <3>4. PointsCurrent'
              BY <1>8, <2>2
                 DEF CreateMission, Lone, PointsCurrent, TotalPoints, honey
          <3>5. OneMission' /\ NoneIsFull'
              <4> HIDE DEF m
              <4> QED
                  BY <3>2, <3>3 DEF OneMission, NoneIsFull
          <3>6. Undisturbed(h)'
              BY <1>4, <2>2, IdleIsJob DEF Holding
          <3> QED
              BY <3>4, <3>5, <3>6
      <2> QED
          BY <1>3, <2>1, <2>2
  <1>9. ASSUME NEW h \in Request, NEW s \in Slot, NEW v \in Value,
               SubmitAnswer(h, s, v)
        PROVE  AloneInv'
      BY <1>2, <1>4, <1>9 DEF SubmitAnswer, Holding
  <1>10. ASSUME NEW h \in Request, ReadSlot(h) \/ InsertRevision(h)
         PROVE  AloneInv'
      <2>1. job[h] \in Saving
          BY <1>1, <1>10, JobKinds DEF ReadSlot, InsertRevision, SavingAt
      <2>2. PICK j : Become(h, j) /\ j.at \in {"idle", "inserting", "counting"}
          <3>1. CASE ReadSlot(h)
              <4> DEFINE again == [job[h] EXCEPT !.at = "counting"]
                         next == [job[h] EXCEPT !.at = "inserting",
                                    !.number = Len(revisions[job[h].slot]) + 1]
              <4>1. Become(h, again) \/ Become(h, next)
                  BY <3>1 DEF ReadSlot
              <4>2. again.at = "counting" /\ next.at = "inserting"
                  BY <2>1 DEF Saving
              <4> HIDE DEF again, next
              <4> QED
                  BY <4>1, <4>2
          <3>2. CASE InsertRevision(h)
              <4>1. \/ Become(h, [job[h] EXCEPT !.at = "counting"])
                    \/ Become(h, Idle)
                  BY <3>2 DEF InsertRevision
              <4> QED
                  BY <2>1, <4>1, IdleIsJob DEF Saving
          <3> QED
              BY <1>10, <3>1, <3>2
      <2>3. UNCHANGED <<missions, completed, answers, honey>>
          BY <1>10 DEF ReadSlot, InsertRevision
      <2> QED
          BY <1>2, <1>4, <2>2, <2>3 DEF Holding
  <1>11. ASSUME NEW h \in Request, CountAnswered(h) PROVE AloneInv'
      <2>1. job[h] \in Saving
          BY <1>1, <1>11, JobKinds DEF CountAnswered, SavingAt
      <2>2. PICK j : /\ Become(h, j)
                     /\ j.at = IF AllAnswered(h) THEN "completing" ELSE "committing"
                     /\ j.slot = job[h].slot /\ j.number = job[h].number
          BY <1>11, <2>1 DEF CountAnswered, Saving
      <2>3. UNCHANGED <<missions, completed, answers, honey>> /\ Answered' = Answered
          BY <1>11 DEF CountAnswered, Answered, answers
      <2>4. ASSUME job'[h] = j PROVE Undisturbed(h)'
          <3>1. AllAnswered(h)' <=> AllAnswered(h)
              BY <2>2, <2>3, <2>4 DEF AllAnswered, Seen, MissionOf
          <3> QED
              BY <2>2, <2>4, <3>1 DEF Undisturbed, Holding
      <2> QED
          BY <1>2, <2>2, <2>3, <2>4
  <1>12. ASSUME NEW h \in Request, CommitAnswer(h) PROVE AloneInv'
      <2>1. Become(h, Idle)
          BY <1>12 DEF CommitAnswer
      <2>2. ASSUME Lone, job'[h] = Idle
            PROVE  Undisturbed(h)' /\ OneMission' /\ NoneIsFull' /\ PointsCurrent'
          <3>1. job[h] \in Saving /\ job[h].slot \in UNION missions
              BY <1>1, <1>12, JobKinds DEF CommitAnswer, SavingAt, SlotsExist
          <3>2. /\ UNCHANGED <<missions, completed, honey>>
                /\ Answered' = Seen(h)
                /\ Answered' \subseteq Answered \cup {job[h].slot}
              BY <1>1, <1>12, <3>1, CommitAnswers DEF CommitAnswer
          <3>3. ~(MissionOf(job[h].slot) \subseteq Answered')
              BY <1>12, <2>2, <3>2
                 DEF CommitAnswer, Lone, Undisturbed, AllAnswered
          <3>4. PICK s \in UNION missions : s = job[h].slot
              BY <3>1
          <3>5. NoneIsFull'
              BY <1>1, <2>2, <3>2, <3>3, <3>4, NoneGetsFull DEF Lone
          <3>6. OneMission' /\ PointsCurrent'
              BY <2>2, <3>2
                 DEF Lone, OneMission, Active, PointsCurrent, TotalPoints, honey
          <3>7. Undisturbed(h)'
              BY <1>4, <2>2, IdleIsJob DEF Holding
          <3> QED
              BY <3>5, <3>6, <3>7
      <2> QED
          BY <1>3, <2>1, <2>2
  <1>13. ASSUME NEW h \in Request, CompleteMission(h) PROVE AloneInv'
      <2> DEFINE m == MissionOf(job[h].slot)
      <2>1. PICK j : /\ Become(h, j) /\ j.at = "projecting"
                     /\ j.slot = job[h].slot
                     /\ j.seen = IF Earns(m) THEN Projected(m) ELSE 0
          BY <1>13 DEF CompleteMission
      <2>2. UNCHANGED <<missions, completed, answers, honey>>
          BY <1>13 DEF CompleteMission
      <2>3. ASSUME job'[h] = j PROVE Undisturbed(h)'
          BY <2>1, <2>2, <2>3
             DEF Undisturbed, Holding, MissionOf, Earns, Projected, TotalPoints,
                 honey
      <2> QED
          BY <1>2, <2>1, <2>2, <2>3
  <1>14. ASSUME NEW h \in Request, CommitCompletion(h) PROVE AloneInv'
      <2> DEFINE m == MissionOf(job[h].slot)
      <2>1. Become(h, Idle)
          BY <1>14 DEF CommitCompletion
      <2>2. ASSUME Lone, job'[h] = Idle
            PROVE  Undisturbed(h)' /\ OneMission' /\ NoneIsFull' /\ PointsCurrent'
          <3>1. job[h] \in Projecting /\ job[h].slot \in UNION missions
              BY <1>1, <1>14, JobKinds DEF CommitCompletion, SlotsExist
          <3>2. /\ UNCHANGED <<missions, onboarded>>
                /\ completed' = completed \cup {m}
                /\ Answered' \subseteq Answered \cup {job[h].slot}
              BY <1>1, <1>14, <3>1, CommitAnswers DEF CommitCompletion
          <3>3. PICK s \in UNION missions : s = job[h].slot
              BY <3>1
          <3>4. NoneIsFull'
              BY <1>1, <2>2, <3>2, <3>3, NoneGetsFull DEF Lone
          <3>5. OneMission'
              BY <2>2, <3>2 DEF Lone, OneMission, Active
          <3>6. PointsCurrent'
              <4>1. CASE Earns(m)
                  <5>1. /\ points' = job[h].seen /\ earned' = earned \cup {m}
                        /\ job[h].seen = Projected(m)
                      BY <1>14, <2>2, <4>1
                         DEF CommitCompletion, StoreProfile, Lone, Undisturbed
                  <5> QED
                      BY <3>2, <5>1 DEF PointsCurrent, Projected, TotalPoints
              <4>2. CASE ~Earns(m)
                  <5>1. UNCHANGED <<earned, points, onboarded>>
                      BY <1>14, <4>2 DEF CommitCompletion
                  <5> QED
                      BY <2>2, <5>1 DEF Lone, PointsCurrent, TotalPoints
              <4> QED
                  BY <4>1, <4>2
          <3>7. Undisturbed(h)'
              BY <1>4, <2>2, IdleIsJob DEF Holding
          <3> QED
              BY <3>4, <3>5, <3>6, <3>7
      <2> QED
          BY <1>3, <2>1, <2>2
  <1>15. ASSUME NEW h \in Request, NEW z \in Zone, StartOnboarding(h, z)
         PROVE  AloneInv'
      <2> DEFINE j == [at |-> "onboarding", zone |-> z,
                       seen |-> TotalPoints(TRUE, earned)]
      <2>1. /\ Become(h, j) /\ j.at = "onboarding"
            /\ j.seen = TotalPoints(TRUE, earned)
          BY <1>15 DEF StartOnboarding
      <2>2. UNCHANGED <<missions, completed, answers, honey>>
          BY <1>15 DEF StartOnboarding
      <2>3. ASSUME job'[h] = j PROVE Undisturbed(h)'
          BY <2>1, <2>2, <2>3 DEF Undisturbed, Holding, TotalPoints, honey
      <2> QED
          BY <1>2, <2>1, <2>2, <2>3
  <1>16. ASSUME NEW h \in Request, CommitOnboarding(h) PROVE AloneInv'
      <2>1. Become(h, Idle)
          BY <1>16 DEF CommitOnboarding
      <2>2. ASSUME Lone, job'[h] = Idle
            PROVE  Undisturbed(h)' /\ OneMission' /\ NoneIsFull' /\ PointsCurrent'
          <3>1. /\ UNCHANGED <<missions, completed, answers, earned>>
                /\ onboarded' = TRUE /\ points' = job[h].seen
                /\ job[h].seen = TotalPoints(TRUE, earned)
              BY <1>16, <2>2 DEF CommitOnboarding, StoreProfile, Lone, Undisturbed
          <3>2. PointsCurrent'
              BY <3>1 DEF PointsCurrent, TotalPoints
          <3>3. Active' = Active /\ Answered' = Answered
              BY <3>1 DEF Active, Answered, answers
          <3>4. OneMission' /\ NoneIsFull'
              BY <2>2, <3>3 DEF Lone, OneMission, NoneIsFull
          <3>5. Undisturbed(h)'
              BY <1>4, <2>2, IdleIsJob DEF Holding
          <3> QED
              BY <3>2, <3>4, <3>5
      <2> QED
          BY <1>3, <2>1, <2>2
  <1>17. ASSUME NEW h \in Request, Abort(h) PROVE AloneInv'
      BY <1>2, <1>4, <1>17, IdleIsJob DEF Abort, Holding
  <1>18. CASE UNCHANGED vars \/ \E z \in Zone : Midnight(z)
      <2>1. UNCHANGED <<missions, completed, answers, honey, job, alone>>
          BY <1>18 DEF Midnight, vars
      <2>2. Sole' <=> Sole
          BY <2>1 DEF Sole
      <2>3. ASSUME NEW h \in Request, Undisturbed(h) PROVE Undisturbed(h)'
          <3>1. Active' = Active /\ (AllAnswered(h)' <=> AllAnswered(h))
              BY <2>1 DEF Active, AllAnswered, Seen, Answered, MissionOf, answers
          <3> QED
              BY <2>1, <2>3, <3>1
                 DEF Undisturbed, MissionOf, Earns, Projected, TotalPoints, honey
      <2>4. alone' \in BOOLEAN /\ (alone' => alone)
          BY <1>1, <2>1
      <2> QED
          BY <1>1, <2>1, <2>2, <2>3, <2>4, RowsKept DEF AloneInv, Lone
  <1> QED
      BY <1>5, <1>6, <1>7, <1>8, <1>9, <1>10, <1>11, <1>12, <1>13, <1>14, <1>15,
         <1>16, <1>17, <1>18 DEF Next

\* What a client without overlap can rely on holds in every reachable state.
LEMMA AloneSafety == Spec => []AloneInv
  BY InitAlone, AloneStep, PTL DEF Spec

\* A client with one tab has at most one mission in progress, on whatever date
\* and in whatever zone it was started.
THEOREM OneActiveSafety == Spec => []OneActive
  <1>1. AloneInv => OneActive
      BY DEF AloneInv, Lone, OneMission, OneActive
  <1> QED
      BY <1>1, AloneSafety, PTL

\* A client with one tab completes every mission it answers, whatever requests
\* fail on the way.
THEOREM FullSafety == Spec => []AnsweredAloneComplete
  <1>1. AloneInv => AnsweredAloneComplete
      BY DEF AloneInv, Lone, NoneIsFull, AnsweredAloneComplete,
             AnsweredMissionsComplete
  <1> QED
      BY <1>1, AloneSafety, PTL

\* The points of a client with one tab are those of its events.
THEOREM ProfileSafety == Spec => []ProfileIsCurrent
  <1>1. AloneInv => ProfileIsCurrent
      BY DEF AloneInv, Lone, PointsCurrent, ProfileIsCurrent
  <1> QED
      BY <1>1, AloneSafety, PTL

-----------------------------------------------------------------------------
(* The refinement of ClientJournal.                                         *)

\* What a request is about to store in the profile counts its own event.
Counts(h) ==
    /\ job[h].at = "projecting" /\ Earns(MissionOf(job[h].slot))
          => job[h].seen > 0
    /\ job[h].at = "onboarding" => job[h].seen > 0

CountsInv == \A h \in Request : Counts(h)

\* A total with an event in it is positive.
LEMMA PointsPositive ==
  ASSUME NEW done \in SUBSET Snapshot, NEW on \in BOOLEAN, on \/ done # {}
  PROVE  TotalPoints(on, done) \in Nat /\ TotalPoints(on, done) > 0
  <1>1. IsFiniteSet(done)
      BY MissionsAreFinite, FS_Subset
  <1>2. Cardinality(done) \in Nat /\ (done # {} => Cardinality(done) # 0)
      BY <1>1, FS_CardinalityType, FS_EmptySet
  <1> QED
      BY <1>2 DEF TotalPoints

\* What is computed when the transaction reads the events counts its own.
LEMMA CountsStep ==
  ASSUME DoneInv, CountsInv, [Next]_vars
  PROVE  CountsInv'
  <1>1. /\ SlotInv /\ SlotInv' /\ TypeOK /\ SlotsExist /\ Disjoint /\ Disjoint'
      BY SlotStep DEF DoneInv, SlotInv, LedgerInv
  <1>2. ASSUME NEW g \in Request, job'[g] = job[g], missions \subseteq missions'
        PROVE  Counts(g)'
      <2>1. CASE job[g].at = "projecting"
          <3>1. PICK s \in UNION missions : s = job[g].slot
              BY <1>1, <2>1 DEF SlotsExist
          <3>2. MissionOf(s)' = MissionOf(s)
              BY <1>1, <1>2, MissionStays
          <3>3. MissionOf(job[g].slot)' = MissionOf(job[g].slot)
              BY <1>2, <3>1, <3>2
          <3> QED
              BY <1>2, <2>1, <3>3 DEF CountsInv, Counts, Earns
      <2>2. CASE job[g].at # "projecting"
          BY <1>2, <2>2 DEF CountsInv, Counts
      <2> QED
          BY <2>1, <2>2
  <1>3. CASE DoneFrame
      <2> SUFFICES ASSUME NEW g \in Request PROVE Counts(g)'
          BY DEF CountsInv
      <2> QED
          BY <1>2, <1>3 DEF DoneFrame, Finishing, Counts
  <1>4. ASSUME NEW h \in Request,
               \/ CountAnswered(h) \/ CommitAnswer(h)
               \/ CommitCompletion(h) \/ CommitOnboarding(h)
        PROVE  CountsInv'
      <2>1. /\ missions' = missions
            /\ \A g \in Request \ {h} : job'[g] = job[g]
          BY <1>1, <1>4 DEF CountAnswered, CommitAnswer, CommitCompletion,
                            CommitOnboarding, Become, TypeOK
      <2>2. job'[h].at \notin {"projecting", "onboarding"}
          <3>1. CASE CountAnswered(h)
              <4>1. job[h] \in Saving
                  BY <1>1, <3>1, JobKinds DEF CountAnswered, SavingAt
              <4> QED
                  BY <1>1, <3>1, <4>1 DEF CountAnswered, Become, TypeOK, Saving
          <3>2. CASE ~CountAnswered(h)
              BY <1>1, <1>4, <3>2 DEF CommitAnswer, CommitCompletion,
                                      CommitOnboarding, Become, TypeOK, Idle
          <3> QED
              BY <3>1, <3>2
      <2>3. Counts(h)'
          BY <2>2 DEF Counts
      <2> QED
          BY <1>2, <2>1, <2>3 DEF CountsInv
  <1>5. ASSUME NEW h \in Request, CompleteMission(h) PROVE CountsInv'
      <2> DEFINE m == MissionOf(job[h].slot)
      <2>1. /\ missions' = missions
            /\ \A g \in Request \ {h} : job'[g] = job[g]
            /\ job'[h].at = "projecting" /\ job'[h].slot = job[h].slot
            /\ job'[h].seen = IF Earns(m) THEN Projected(m) ELSE 0
          BY <1>1, <1>5 DEF CompleteMission, Become, TypeOK
      <2>2. m \in missions
          BY <1>1, <1>5, MissionOfType DEF CompleteMission, SlotsExist, SavingAt
      <2>3. Projected(m) > 0
          <3>1. earned \cup {m} \in SUBSET Snapshot /\ earned \cup {m} # {}
              BY <1>1, <2>2 DEF TypeOK
          <3> QED
              BY <1>1, <3>1, PointsPositive DEF Projected, TypeOK
      <2>4. MissionOf(job[h].slot)' = m
          BY <2>1 DEF MissionOf
      <2>5. Counts(h)'
          <3> HIDE DEF m
          <3> QED
              BY <2>1, <2>3, <2>4 DEF Counts, Earns
      <2> QED
          BY <1>2, <2>1, <2>5 DEF CountsInv
  <1>6. ASSUME NEW h \in Request, NEW z \in Zone, StartOnboarding(h, z)
        PROVE  CountsInv'
      <2>1. /\ missions' = missions
            /\ \A g \in Request \ {h} : job'[g] = job[g]
            /\ job'[h].at = "onboarding"
            /\ job'[h].seen = TotalPoints(TRUE, earned)
          BY <1>1, <1>6 DEF StartOnboarding, Become, TypeOK
      <2>2. earned \in SUBSET Snapshot
          BY <1>1 DEF TypeOK
      <2>3. Counts(h)'
          BY <2>1, <2>2, PointsPositive DEF Counts
      <2> QED
          BY <1>2, <2>1, <2>3 DEF CountsInv
  <1> QED
      BY <1>1, <1>3, <1>4, <1>5, <1>6, DoneSteps

JournalInv == DoneInv /\ RevisionInv /\ CountsInv

\* The journal counts and collects as the engine does.
LEMMA SameCardinality == \A S : Journal!Cardinality(S) = Cardinality(S)
  BY DEF Journal!Cardinality, Cardinality

\* The range of a function is the same operator in both modules.
LEMMA SameRange == \A f : Journal!Range(f) = Range(f)
  BY DEF Journal!Range, Range

\* What the refinement needs of the requests in flight holds in every state.
LEMMA JournalSafety == Spec => []JournalInv
  <1>1. Init => CountsInv
      BY DEF Init, CountsInv, Counts, Idle
  <1>2. DoneInv /\ CountsInv /\ [Next]_vars => CountsInv'
      BY CountsStep
  <1>3. Spec => []CountsInv
      BY <1>1, <1>2, DoneSafety, PTL DEF Spec
  <1> QED
      BY <1>3, DoneSafety, RevisionSafety, PTL DEF JournalInv

\* What was selected under the lock can still be assigned when it is written.
LEMMA CreateRefines ==
  ASSUME JournalInv, NEW h \in Request, CreateMission(h)
  PROVE  \E d \in Date, chosen \in SUBSET Question : Journal!Assign(d, chosen)
  <1>1. /\ TypeOK /\ HolderAlone /\ Allowance /\ Fresh
      BY DEF JournalInv, DoneInv, SlotInv, LedgerInv
  <1>2. PICK d \in Date, chosen \in (SUBSET Question) \ {{}} :
            /\ job[h].at = "creating"
            /\ d = job[h].date
            /\ chosen = job[h].chosen
      BY <1>1, JobKinds DEF CreateMission, Chosen
  <1>3. \A m \in missions \ completed : \A s \in m : s[1] # d
      BY <1>1, <1>2 DEF HolderAlone, Active, Holding
  <1>4. Journal!Charged(d) = Ledger(d)
      BY DEF Journal!Charged, Ledger
  <1>5. \A q \in chosen : <<d, q>> \notin Ledger(d)
      BY <1>1, <1>2 DEF Fresh, Ledger
  <1>6. Cardinality(Ledger(d)) + Cardinality(chosen) <= DailyCap
      BY <1>1, <1>2 DEF Allowance
  <1>7. /\ missions' = missions \cup {{d} \X chosen}
        /\ UNCHANGED <<completed, revisions, onboarded, points, rewards>>
      BY <1>2 DEF CreateMission, answers, honey
  <1>8. Journal!Assign(d, chosen)
      BY <1>2, <1>3, <1>4, <1>5, <1>6, <1>7, SameCardinality DEF Journal!Assign
  <1> QED
      BY <1>8

\* A commit adds the answer it carries, if it carries one.
LEMMA PublishExtends ==
  ASSUME JournalInv, NEW h \in Request, job[h].at \in WritingAt,
         PublishAnswer(job[h])
  PROVE  \/ UNCHANGED revisions
         \/ /\ job[h].slot \in Slot /\ job[h].value \in Value
            /\ Journal!Extends(job[h].slot, job[h].value)
  <1>1. TypeOK /\ NumberTaken
      BY DEF JournalInv, RevisionInv
  <1>2. CASE job[h].number > 0
      <2>1. job[h] \in Saving \cup Projecting
          BY <1>1, JobKinds DEF WritingAt, SavingAt
      <2>2. job[h].slot \in Slot /\ job[h].value \in Value
          BY <2>1 DEF Saving, Projecting
      <2>3. job[h].value \notin Range(revisions[job[h].slot])
          BY <1>1, <1>2 DEF NumberTaken, Writing, WritingAt
      <2>4. revisions' =
              [revisions EXCEPT ![job[h].slot] = Append(@, job[h].value)]
          BY <1>2 DEF PublishAnswer
      <2> QED
          BY <2>2, <2>3, <2>4, SameRange DEF Journal!Extends
  <1>3. CASE ~(job[h].number > 0)
      BY <1>3 DEF PublishAnswer, answers
  <1> QED
      BY <1>2, <1>3

\* The commit of an answer is a step Answer of the journal.
LEMMA AnswerRefines ==
  ASSUME JournalInv, NEW h \in Request, CommitAnswer(h)
  PROVE  Journal!Next \/ UNCHANGED Journal!journal
  <1>1. /\ job[h].slot \in UNION missions
        /\ job[h].at \in WritingAt
        /\ PublishAnswer(job[h])
        /\ UNCHANGED <<missions, completed, onboarded, points, rewards>>
      BY DEF CommitAnswer, JournalInv, RevisionInv, SlotsExist, SavingAt,
             WritingAt, honey
  <1>2. CASE UNCHANGED revisions
      BY <1>1, <1>2 DEF Journal!journal
  <1>3. CASE /\ job[h].slot \in Slot /\ job[h].value \in Value
             /\ Journal!Extends(job[h].slot, job[h].value)
      <2>1. Journal!Answer(job[h].slot, job[h].value)
          BY <1>1, <1>3 DEF Journal!Answer
      <2>2. Journal!Slot = Slot
          BY DEF Journal!Slot, Slot
      <2> QED
          BY <1>3, <2>1, <2>2 DEF Journal!Next
  <1> QED
      BY <1>1, <1>2, <1>3, PublishExtends

\* A total that was read before is still owed when it is stored.
LEMMA StoreRefines ==
  ASSUME DoneInv', NEW n \in Nat, n > 0,
         n <= TotalPoints(onboarded, earned)', StoreProfile(n)
  PROVE  Journal!Credit
  <1>1. Journal!Worth(onboarded, completed)' = TotalPoints(onboarded, earned)'
      <2>1. CompletionIsWhole'
          BY DEF DoneInv
      <2> QED
          BY <2>1, SameCardinality
             DEF CompletionIsWhole, Earns, Journal!Worth, TotalPoints
  <1>2. TotalPoints(onboarded, earned)' \in Nat
      <2>1. TypeOK'
          BY DEF DoneInv, SlotInv, LedgerInv
      <2>2. earned' \in SUBSET Snapshot /\ onboarded' \in BOOLEAN
          BY <2>1 DEF TypeOK
      <2>3. TotalPoints(onboarded', earned') \in Nat
          BY <2>2, PointsType
      <2> QED
          BY <2>3 DEF TotalPoints
  <1>3. n \in 1 .. Journal!Worth(onboarded, completed)'
      BY <1>1, <1>2
  <1>4. /\ points' = n
        /\ rewards' = rewards \cup {r \in Reward : UnlockAt[r] <= n}
      BY DEF StoreProfile, Unlocked
  <1> QED
      BY <1>3, <1>4 DEF Journal!Credit, Journal!Worth

\* The transaction that saw all answers finishes its mission.
LEMMA FinishRefines ==
  ASSUME JournalInv, DoneInv', NEW h \in Request, CommitCompletion(h)
  PROVE  \E m \in missions : Journal!Finish(m)
  <1> DEFINE m == MissionOf(job[h].slot)
  <1>1. /\ TypeOK /\ SlotsExist /\ Disjoint /\ Finishes(h) /\ Counts(h)
      BY DEF JournalInv, DoneInv, SlotInv, LedgerInv, CountsInv
  <1>2. /\ job[h].at = "projecting" /\ job[h] \in Projecting
        /\ job[h].slot \in UNION missions
      BY <1>1, JobKinds DEF CommitCompletion, SlotsExist
  <1>3. m \in missions /\ job[h].slot \in m
      BY <1>2 DEF MissionOf
  <1>4. /\ UNCHANGED <<missions, onboarded>>
        /\ completed' = completed \cup {m}
        /\ PublishAnswer(job[h])
      BY DEF CommitCompletion
  <1>5. \/ \E s \in m, v \in Value : Journal!Extends(s, v)
        \/ UNCHANGED revisions
      <2>1. job[h].at \in WritingAt
          BY <1>2 DEF WritingAt
      <2> QED
          BY <1>3, <1>4, <2>1, PublishExtends
  <1>6. \A s \in m : revisions'[s] # << >>
      <2>1. Answered' = Seen(h)
          BY <1>1, <1>2, <1>4, CommitAnswers
      <2>2. m \subseteq Seen(h)
          BY <1>1, <1>2 DEF Finishes, AllAnswered
      <2> HIDE DEF m
      <2> QED
          BY <2>1, <2>2 DEF Answered
  <1>7. CASE Earns(m)
      <2>1. StoreProfile(job[h].seen) /\ earned' = earned \cup {m}
          BY <1>7 DEF CommitCompletion
      <2>2. job[h].seen \in Nat /\ job[h].seen > 0
          BY <1>1, <1>2, <1>7 DEF Counts, Projecting
      <2>3. job[h].seen <= TotalPoints(onboarded, earned)'
          BY <1>1, <1>2, <1>4, <1>7, <2>1 DEF Finishes, Projected, TotalPoints
      <2>4. PICK n \in Nat : n = job[h].seen
          BY <2>2
      <2>5. Journal!Credit
          BY <2>1, <2>2, <2>3, <2>4, StoreRefines
      <2>6. Journal!Finish(m)
          <3> HIDE DEF m
          <3> QED
              BY <1>4, <1>5, <1>6, <1>7, <2>5, SameCardinality
                 DEF Journal!Finish, Earns
      <2> QED
          BY <1>3, <2>6
  <1>8. CASE ~Earns(m)
      <2>1. UNCHANGED <<points, rewards>>
          BY <1>8 DEF CommitCompletion
      <2>2. Journal!Finish(m)
          <3> HIDE DEF m
          <3> QED
              BY <1>4, <1>5, <1>6, <1>8, <2>1, SameCardinality
                 DEF Journal!Finish, Earns
      <2> QED
          BY <1>3, <2>2
  <1> QED
      BY <1>7, <1>8

\* The commit of an onboarding is a step Join of the journal.
LEMMA JoinRefines ==
  ASSUME JournalInv, DoneInv', NEW h \in Request, CommitOnboarding(h)
  PROVE  Journal!Join
  <1>1. TypeOK /\ Finishes(h) /\ Counts(h)
      BY DEF JournalInv, DoneInv, SlotInv, LedgerInv, CountsInv
  <1>2. /\ onboarded' = TRUE
        /\ StoreProfile(job[h].seen)
        /\ UNCHANGED <<missions, completed, revisions, earned>>
      BY DEF CommitOnboarding, answers
  <1>3. job[h].seen \in Nat /\ job[h].seen > 0
      BY <1>1, JobKinds DEF CommitOnboarding, Onboarding, Counts
  <1>4. job[h].seen <= TotalPoints(onboarded, earned)'
      BY <1>1, <1>2 DEF CommitOnboarding, Finishes, TotalPoints
  <1>5. PICK n \in Nat : n = job[h].seen
      BY <1>3
  <1>6. Journal!Credit
      BY <1>2, <1>3, <1>4, <1>5, StoreRefines
  <1> QED
      BY <1>2, <1>6 DEF Journal!Join

\* Every other step holds its writes back.
LEMMA JournalSteps ==
  ASSUME TypeOK, SlotsExist, [Next]_vars
  PROVE  \/ \E h \in Request : \/ CreateMission(h)
                               \/ CommitAnswer(h)
                               \/ CommitCompletion(h)
                               \/ CommitOnboarding(h)
         \/ UNCHANGED Journal!journal
  <1> USE DEF Journal!journal, answers, honey
  <1>1. CASE \E h \in Request : \/ \E n \in Size : StartMission(h, n)
                                \/ FindActiveMission(h) \/ SelectQuestions(h)
                                \/ \E s \in Slot, v \in Value : SubmitAnswer(h, s, v)
                                \/ ReadSlot(h) \/ InsertRevision(h)
                                \/ CountAnswered(h) \/ CompleteMission(h)
                                \/ \E z \in Zone : StartOnboarding(h, z)
                                \/ Abort(h)
      BY <1>1 DEF StartMission, FindActiveMission, SelectQuestions,
                  SubmitAnswer, ReadSlot, InsertRevision, CountAnswered,
                  CompleteMission, StartOnboarding, Abort
  <1>2. CASE \E z \in Zone : Midnight(z)
      BY <1>2 DEF Midnight
  <1>3. CASE UNCHANGED vars
      BY <1>3 DEF vars
  <1> QED
      BY <1>1, <1>2, <1>3 DEF Next

\* What overlapping requests of a client commit is a journal that a client
\* with one tab could have written, up to totals that come late: every commit
\* assigns questions, adds an answer, finishes a mission or joins the programme
\* by the rules of the journal as it is at that moment.
THEOREM JournalRefinement == Spec => ImplementsJournal
  <1>1. Init => Journal!Init
      BY DEF Init, Journal!Init, Journal!Slot, Slot
  <1>2. JournalInv /\ [Next]_vars => [Journal!Next]_(Journal!journal)
      <2> SUFFICES ASSUME JournalInv, [Next]_vars
                   PROVE  Journal!Next \/ UNCHANGED Journal!journal
          OBVIOUS
      <2>1. DoneInv' /\ TypeOK /\ SlotsExist
          BY DoneStep DEF JournalInv, RevisionInv
      <2>2. ASSUME NEW h \in Request, CreateMission(h) PROVE Journal!Next
          BY <2>2, CreateRefines DEF Journal!Next
      <2>3. ASSUME NEW h \in Request, CommitCompletion(h) PROVE Journal!Next
          BY <2>1, <2>3, FinishRefines DEF Journal!Next
      <2>4. ASSUME NEW h \in Request, CommitOnboarding(h) PROVE Journal!Next
          BY <2>1, <2>4, JoinRefines DEF Journal!Next
      <2> QED
          BY <2>1, <2>2, <2>3, <2>4, AnswerRefines, JournalSteps
  <1> QED
      BY <1>1, <1>2, JournalSafety, PTL DEF Spec, ImplementsJournal, Journal!Spec

-----------------------------------------------------------------------------
(* Nothing that a client has reached is taken away.                         *)

\* "No decay states" (docs/RFC-001-honey-mvp.md:447): rewards and completed
\* missions stay, whatever overlaps; points never fall while requests do not
\* overlap, although every event overwrites the profile.
NothingDecays ==
    [][/\ rewards \subseteq rewards'
       /\ completed \subseteq completed'
       /\ alone' => points <= points']_vars

\* Nothing that a client has reached is taken away, by the profile's upsert or
\* by any other write (rebuildHoneyProfile, saveMissionAnswer).
THEOREM DecaySafety == Spec => NothingDecays
  <1>1. AloneInv /\ AloneInv' /\ [Next]_vars
          => /\ rewards \subseteq rewards'
             /\ completed \subseteq completed'
             /\ alone' => points <= points'
      <2> SUFFICES ASSUME AloneInv, AloneInv', [Next]_vars
                   PROVE  /\ rewards \subseteq rewards'
                          /\ completed \subseteq completed'
                          /\ alone' => points <= points'
          OBVIOUS
      <2>1. /\ TypeOK /\ TypeOK' /\ SlotsExist /\ alone \in BOOLEAN
          BY DEF AloneInv, DoneInv, SlotInv, LedgerInv
      <2>2. /\ rewards \subseteq rewards' /\ completed \subseteq completed'
            /\ earned \subseteq earned' /\ (onboarded => onboarded')
            /\ alone' => alone
          <3>1. CASE UNCHANGED <<completed, onboarded, earned, rewards, alone>>
              BY <3>1
          <3>2. CASE UNCHANGED vars
              BY <3>1, <3>2 DEF vars, honey
          <3>3. CASE \E z \in Zone : Midnight(z)
              BY <3>1, <3>3 DEF Midnight, honey
          <3>4. ASSUME NEW h \in Request, NEW j, Become(h, j)
                PROVE  alone' => alone
              BY <3>4 DEF Become
          <3>5. CASE \E h \in Request :
                       \/ \E n \in Size : StartMission(h, n)
                       \/ FindActiveMission(h) \/ SelectQuestions(h)
                       \/ CreateMission(h) \/ CommitAnswer(h)
                       \/ \E s \in Slot, v \in Value : SubmitAnswer(h, s, v)
                       \/ ReadSlot(h) \/ InsertRevision(h)
                       \/ CountAnswered(h) \/ CompleteMission(h)
                       \/ \E z \in Zone : StartOnboarding(h, z)
                       \/ Abort(h)
              <4>1. UNCHANGED <<completed, onboarded, earned, rewards>>
                  BY <3>5
                     DEF StartMission, FindActiveMission, SelectQuestions,
                         CreateMission, CommitAnswer, SubmitAnswer, ReadSlot,
                         InsertRevision, CountAnswered, CompleteMission,
                         StartOnboarding, Abort, honey
              <4>2. alone' => alone
                  BY <3>5
                     DEF StartMission, FindActiveMission, SelectQuestions,
                         CreateMission, CommitAnswer, SubmitAnswer, ReadSlot,
                         InsertRevision, CountAnswered, CompleteMission,
                         StartOnboarding, Abort, Become
              <4> QED
                  BY <4>1, <4>2
          <3>6. ASSUME NEW h \in Request, CommitCompletion(h)
                PROVE  /\ rewards \subseteq rewards' /\ completed \subseteq completed'
                       /\ earned \subseteq earned' /\ (onboarded => onboarded')
                       /\ alone' => alone
              BY <3>4, <3>6 DEF CommitCompletion, StoreProfile
          <3>7. ASSUME NEW h \in Request, CommitOnboarding(h)
                PROVE  /\ rewards \subseteq rewards' /\ completed \subseteq completed'
                       /\ earned \subseteq earned' /\ (onboarded => onboarded')
                       /\ alone' => alone
              BY <3>4, <3>7 DEF CommitOnboarding, StoreProfile
          <3> QED
              BY <3>2, <3>3, <3>5, <3>6, <3>7 DEF Next
      <2>3. ASSUME alone' PROVE points <= points'
          <3>1. /\ points = TotalPoints(onboarded, earned)
                /\ points' = TotalPoints(onboarded', earned')
              BY <2>1, <2>2, <2>3 DEF AloneInv, Lone, PointsCurrent, TotalPoints
          <3>2. /\ earned' \in SUBSET Snapshot /\ earned \in SUBSET earned'
                /\ onboarded \in BOOLEAN /\ onboarded' \in BOOLEAN
              BY <2>1, <2>2 DEF TypeOK
          <3> QED
              BY <2>2, <3>1, <3>2, PointsGrow
      <2> QED
          BY <2>2, <2>3
  <1> QED
      BY <1>1, AloneSafety, PTL DEF Spec, NothingDecays
=============================================================================
