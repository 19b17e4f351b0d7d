------------------------ MODULE QuestionVersionsProofs ------------------------
(***************************************************************************)
(* Proofs about QuestionVersions, for every number of requests and of      *)
(* versions.                                                               *)
(***************************************************************************)
EXTENDS QuestionVersions, FiniteSetTheorems, WellFoundedInduction, TLAPS

\* What the published versions and the requests in flight have in common: a
\* version that is approved, or about to be frozen, was published.
IInv ==
    /\ DOMAIN status = Version
    /\ DOMAIN job = Request
    /\ published \subseteq Version
    /\ Approved \subseteq published
    /\ \A h \in Request : job[h].at = "freezing" => job[h].version \in published
    /\ \A h \in Request : job[h].at = "approving" => job[h].version \in Version
    /\ \A h \in Request : job[h].at = "checked" => job[h].version \in Version
    /\ PublishedIsImmutable
    /\ FrozenWasPublished

\* Version 1, which the seed approves, is the only one.
LEMMA InitIInv == Init => IInv
  BY VersionsAssumption
     DEF Init, IInv, Idle, Version, Approved, PublishedIsImmutable,
         FrozenWasPublished, VersionsAssumption

\* Beginning a request changes no version.
LEMMA BeginKeeps ==
  ASSUME IInv, NEW h \in Request, NEW j, Begin(h, j),
         j.at = "freezing" => j.version \in published,
         j.at = "approving" => j.version \in Version,
         j.at = "checked" => j.version \in Version
  PROVE  IInv'
  BY DEF IInv, Begin, Approved, PublishedIsImmutable, FrozenWasPublished

\* A request that commits is idle, and what the others hold stays true.
LEMMA CommitKeeps ==
  ASSUME IInv, NEW h \in Request, Commit(h),
         DOMAIN status' = Version, published' \subseteq Version,
         published \subseteq published', Approved' \subseteq published',
         PublishedIsImmutable', FrozenWasPublished'
  PROVE  IInv'
  BY DEF IInv, Commit, Idle

\* Every step of an administrator or of a client keeps the invariant.
LEMMA NextIInv == IInv /\ [Next]_vars => IInv'
  <1> SUFFICES ASSUME IInv, [Next]_vars PROVE IInv'
      OBVIOUS
  <1>1. CASE UNCHANGED vars
      BY <1>1 DEF vars, IInv, Approved, PublishedIsImmutable, FrozenWasPublished
  <1>2. ASSUME NEW h \in Request, StartDraft(h) PROVE IInv'
      BY <1>2, BeginKeeps DEF StartDraft
  <1>3. ASSUME NEW h \in Request, CommitDraft(h) PROVE IInv'
      <2>1. Commit(h) /\ UNCHANGED <<published, frozen>>
          BY <1>3 DEF CommitDraft
      <2>2. \A v \in Version : status'[v] = status[v]
                 \/ (status[v] = "none" /\ status'[v] = "DRAFT")
          BY <1>3 DEF CommitDraft, NumberFree, IInv
      <2>3. DOMAIN status' = Version
          BY <1>3 DEF CommitDraft, IInv
      <2>4. Approved' \subseteq published'
          BY <2>1, <2>2 DEF IInv, Approved
      <2>5. PublishedIsImmutable' /\ FrozenWasPublished'
          BY <2>1, <2>2 DEF IInv, PublishedIsImmutable, FrozenWasPublished
      <2> QED
          BY <2>1, <2>3, <2>4, <2>5, CommitKeeps DEF IInv
  <1>4. ASSUME NEW h \in Request, NEW v \in Version, ReadDraft(h, v)
        PROVE  IInv'
      BY <1>4, BeginKeeps DEF ReadDraft
  <1>5. ASSUME NEW h \in Request, NEW v \in Version, ReadVersion(h, v)
        PROVE  IInv'
      BY <1>5, BeginKeeps DEF ReadVersion
  <1>6. ASSUME NEW h \in Request, ScanApproved(h) PROVE IInv'
      BY <1>6 DEF ScanApproved, IInv, Approved, PublishedIsImmutable,
                  FrozenWasPublished
  <1>7. ASSUME NEW h \in Request, CommitApproval(h) PROVE IInv'
      <2>1. Commit(h) /\ UNCHANGED frozen
            /\ published' = published \cup {job[h].version}
            /\ status' = [v \in Version |-> AfterApproval(h, v)]
          BY <1>7 DEF CommitApproval
      <2>2. job[h].version \in Version
          BY <1>7 DEF CommitApproval, IInv
      <2>3. \A v \in Version :
               IF v = job[h].version THEN status'[v] = "APPROVED"
                                     ELSE status'[v] \in {"RETIRED", status[v]}
          BY <2>1 DEF AfterApproval
      <2>4. Approved' \subseteq published' /\ PublishedIsImmutable'
          <3>1. Approved' \subseteq Approved \cup {job[h].version}
              BY <2>3 DEF Approved
          <3>2. \A v \in published' : status'[v] \in {"APPROVED", "RETIRED"}
              BY <2>1, <2>2, <2>3 DEF IInv, PublishedIsImmutable
          <3> QED
              BY <2>1, <3>1, <3>2 DEF IInv, PublishedIsImmutable
      <2>5. FrozenWasPublished'
          BY <2>1 DEF IInv, FrozenWasPublished
      <2> QED
          BY <2>1, <2>2, <2>4, <2>5, CommitKeeps DEF IInv
  <1>8. ASSUME NEW h \in Request, CommitRetirement(h) PROVE IInv'
      <2>1. Commit(h) /\ UNCHANGED <<published, frozen>>
          BY <1>8 DEF CommitRetirement
      <2>2. \A v \in Version : status'[v] = status[v] \/ status'[v] = "RETIRED"
          BY <1>8 DEF CommitRetirement, IInv
      <2>3. DOMAIN status' = Version
          BY <1>8 DEF CommitRetirement, IInv
      <2>4. Approved' \subseteq published'
          BY <2>1, <2>2 DEF IInv, Approved
      <2>5. PublishedIsImmutable' /\ FrozenWasPublished'
          BY <2>1, <2>2 DEF IInv, PublishedIsImmutable, FrozenWasPublished
      <2> QED
          BY <2>1, <2>3, <2>4, <2>5, CommitKeeps DEF IInv
  <1>9. ASSUME NEW h \in Request, SelectVersion(h) PROVE IInv'
      <2>1. PICK v \in Approved : Begin(h, [at |-> "freezing", version |-> v])
          BY <1>9 DEF SelectVersion, Offered
      <2>2. v \in published
          BY <2>1 DEF IInv
      <2> QED
          BY <2>1, <2>2, BeginKeeps
  <1>10. ASSUME NEW h \in Request, CommitMission(h) PROVE IInv'
      <2>1. Commit(h) /\ UNCHANGED <<status, published>>
            /\ frozen' = frozen \cup {job[h].version}
            /\ job[h].version \in published
          BY <1>10 DEF CommitMission, IInv
      <2>2. FrozenWasPublished'
          BY <2>1 DEF IInv, FrozenWasPublished
      <2>3. Approved' \subseteq published' /\ PublishedIsImmutable'
          BY <2>1 DEF IInv, Approved, PublishedIsImmutable
      <2> QED
          BY <2>1, <2>2, <2>3, CommitKeeps DEF IInv
  <1>11. ASSUME NEW h \in Request, Abort(h) PROVE IInv'
      BY <1>11, CommitKeeps
         DEF Abort, IInv, Approved, PublishedIsImmutable, FrozenWasPublished
  <1> QED
      BY <1>1, <1>2, <1>3, <1>4, <1>5, <1>6, <1>7, <1>8, <1>9, <1>10, <1>11
         DEF Next

\* The invariant holds in every reachable state.
LEMMA InvariantIInv == Spec => []IInv
  BY InitIInv, NextIInv, PTL DEF Spec

\* A mission never holds a version that was not approved at some time.
\* (getOrCreateMission selects from the approved versions only)
THEOREM FrozenSafety == Spec => []FrozenWasPublished
  <1>1. IInv => FrozenWasPublished
      BY DEF IInv
  <1> QED
      BY <1>1, InvariantIInv, PTL

\* A published version stays approved or retired: no draft takes its number.
THEOREM PublishedSafety == Spec => []PublishedIsImmutable
  <1>1. IInv => PublishedIsImmutable
      BY DEF IInv
  <1> QED
      BY <1>1, InvariantIInv, PTL

\* Only an explicit retirement takes the definition off offer, however
\* approvals overlap (approveDraftQuestionVersion approves last).
THEOREM OfferSafety == Spec => ApprovalKeepsOnOffer
  <1> DEFINE Off == (Approved # {} /\ Approved' = {}) =>
               \E h \in Request : job[h].at = "retiring" /\ job'[h] = Idle
  <1>1. IInv /\ [Next]_vars => [Off]_vars
      <2> SUFFICES ASSUME IInv, Next, Approved # {}, Approved' = {}
                   PROVE  \E h \in Request : job[h].at = "retiring" /\ job'[h] = Idle
          OBVIOUS
      <2>1. PICK h \in Request :
               \/ StartDraft(h)
               \/ CommitDraft(h)
               \/ \E v \in Version : ReadDraft(h, v) \/ ReadVersion(h, v)
               \/ ScanApproved(h)
               \/ CommitApproval(h)
               \/ CommitRetirement(h)
               \/ SelectVersion(h)
               \/ CommitMission(h)
               \/ Abort(h)
          BY DEF Next
      <2>2. status' # status
          BY DEF Approved
      <2>3. CASE CommitDraft(h)
          <3>1. \A v \in Version : status[v] = "APPROVED" => status'[v] = "APPROVED"
              BY <2>3 DEF CommitDraft, NumberFree, IInv
          <3> QED
              BY <3>1 DEF Approved
      <2>4. CASE CommitApproval(h)
          <3>1. job[h].version \in Version
              BY <2>4 DEF CommitApproval, IInv
          <3>2. status'[job[h].version] = "APPROVED"
              BY <2>4, <3>1 DEF CommitApproval, AfterApproval
          <3> QED
              BY <3>1, <3>2 DEF Approved
      <2>5. CASE CommitRetirement(h)
          BY <2>5 DEF CommitRetirement, Commit, IInv
      <2> QED
          BY <2>1, <2>2, <2>3, <2>4, <2>5
             DEF StartDraft, ReadDraft, ReadVersion, ScanApproved,
                 SelectVersion, CommitMission, Abort, Begin
  <1> QED
      BY <1>1, InvariantIInv, PTL DEF Spec, ApprovalKeepsOnOffer

-----------------------------------------------------------------------------
(* Types.                                                                   *)

\* A set of versions that is not empty has a newest one.
LEMMA NewestExists ==
  ASSUME NEW S \in SUBSET Version, S # {}
  PROVE  /\ Max(S) \in S
         /\ \A v \in S : v <= Max(S)
  <1> DEFINE T == {MaxVersion - v : v \in S}
             R == OpToRel(<, Nat)
  <1>1. MaxVersion \in Nat /\ \A v \in S : v \in Nat /\ v <= MaxVersion
      BY VersionsAssumption DEF Version, VersionsAssumption
  <1>2. T \subseteq Nat /\ T # {}
      BY <1>1
  <1>3. PICK t \in T : \A u \in T : ~(<<u, t>> \in R)
      <2> HIDE DEF T, R
      <2>1. IsWellFoundedOn(R, Nat)
          BY NatLessThanWellFounded DEF R
      <2> QED
          BY <1>2, <2>1, WFMin
  <1>4. \A u \in T : ~(u < t)
      BY <1>2, <1>3 DEF OpToRel
  <1>5. PICK x \in S : t = MaxVersion - x
      BY <1>3
  <1>6. \A y \in S : x >= y
      <2> TAKE y \in S
      <2>1. ~(MaxVersion - y < MaxVersion - x)
          BY <1>4, <1>5
      <2> QED
          BY <1>1, <2>1
  <1>7. \E m \in S : \A y \in S : m >= y
      BY <1>6
  <1>8. Max(S) \in S /\ \A y \in S : Max(S) >= y
      BY <1>7 DEF Max
  <1> QED
      BY <1>1, <1>8

\* Version 1 stays, so there is always a version to draft from.
Typed == TypeOK /\ 1 \in Existing

\* A draft is numbered after a version that exists.
LEMMA SourceType ==
  ASSUME Typed
  PROVE  Source \in Version
  <1>1. /\ Approved \in SUBSET Version /\ Existing \in SUBSET Version
        /\ Existing # {}
      BY DEF Typed, Approved, Existing
  <1> QED
      BY <1>1, NewestExists DEF Source

\* The seed is well typed.
LEMMA InitTyped == Init => Typed
  BY VersionsAssumption
     DEF Init, Typed, TypeOK, Existing, Version, Job, Idle, VersionsAssumption

\* A request that begins or commits is a job.
LEMMA JobsTyped ==
  ASSUME TypeOK, NEW h \in Request, NEW j \in Job,
         job' = [job EXCEPT ![h] = j]
  PROVE  job' \in [Request -> Job]
  BY DEF TypeOK

\* The shape of a job at each control point.
LEMMA JobShapes ==
  ASSUME TypeOK, NEW h \in Request
  PROVE  /\ job[h].at = "drafting" => job[h].number \in Version \ {1}
         /\ job[h].at \in {"checked", "retiring", "freezing", "approving"}
               => job[h].version \in Version
  <1>1. job[h] \in Job
      BY DEF TypeOK
  <1> QED
      BY <1>1 DEF Job, Idle

\* No step writes a value outside its column.
LEMMA TypedStep == Typed /\ [Next]_vars => Typed'
  <1> SUFFICES ASSUME Typed, [Next]_vars PROVE Typed'
      OBVIOUS
  <1>1. TypeOK /\ 1 \in Version /\ status[1] # "none" /\ Idle \in Job
      BY DEF Typed, Existing, Job
  <1>2. ASSUME NEW h \in Request, NEW j \in Job, Begin(h, j) PROVE Typed'
      <2>1. job' \in [Request -> Job]
          BY <1>1, <1>2, JobsTyped DEF Begin
      <2> QED
          BY <1>1, <1>2, <2>1 DEF Begin, Typed, TypeOK, Existing
  <1>3. ASSUME NEW h \in Request, Commit(h),
               status' \in [Version -> {"none", "DRAFT", "APPROVED", "RETIRED"}],
               status'[1] # "none", published' \subseteq Version,
               frozen' \subseteq Version
        PROVE  Typed'
      <2>1. job' \in [Request -> Job]
          BY <1>1, <1>3, JobsTyped DEF Commit
      <2> QED
          BY <1>1, <1>3, <2>1 DEF Commit, Typed, TypeOK, Existing
  <1>4. CASE UNCHANGED vars
      BY <1>4 DEF vars, Typed, TypeOK, Existing
  <1>5. ASSUME NEW h \in Request, StartDraft(h) PROVE Typed'
      <2>1. Source \in Version /\ Source < MaxVersion
          BY <1>5, SourceType DEF StartDraft
      <2>2. Source + 1 \in Version \ {1}
          BY <2>1, VersionsAssumption DEF Version, VersionsAssumption
      <2>3. [at |-> "drafting", number |-> Source + 1] \in Job
          <3> HIDE DEF Source
          <3> QED
              BY <2>2 DEF Job
      <2> QED
          BY <1>2, <1>5, <2>3 DEF StartDraft
  <1>6. ASSUME NEW h \in Request, CommitDraft(h) PROVE Typed'
      <2>1. job[h].number \in Version \ {1}
          BY <1>1, <1>6, JobShapes DEF CommitDraft
      <2> QED
          BY <1>1, <1>3, <1>6, <2>1 DEF CommitDraft, TypeOK
  <1>7. ASSUME NEW h \in Request, NEW v \in Version,
               ReadDraft(h, v) \/ ReadVersion(h, v)
        PROVE  Typed'
      <2>1. /\ [at |-> "checked", version |-> v] \in Job
            /\ [at |-> "retiring", version |-> v] \in Job
          BY DEF Job
      <2> QED
          BY <1>2, <1>7, <2>1 DEF ReadDraft, ReadVersion
  <1>8. ASSUME NEW h \in Request, ScanApproved(h) PROVE Typed'
      <2> DEFINE j == [at |-> "approving", version |-> job[h].version,
                       targets |-> Approved]
      <2>1. j \in Job
          BY <1>1, <1>8, JobShapes DEF ScanApproved, Job, Approved
      <2>2. job' \in [Request -> Job]
          BY <1>1, <1>8, <2>1, JobsTyped DEF ScanApproved, TypeOK
      <2> QED
          BY <1>1, <1>8, <2>2 DEF ScanApproved, Typed, TypeOK, Existing
  <1>9. ASSUME NEW h \in Request, CommitApproval(h) PROVE Typed'
      <2>1. job[h].version \in Version
          BY <1>1, <1>9, JobShapes DEF CommitApproval
      <2>2. status' = [v \in Version |-> AfterApproval(h, v)]
          BY <1>9 DEF CommitApproval
      <2>3. \A v \in Version :
               AfterApproval(h, v) \in {"APPROVED", "RETIRED", status[v]}
          BY DEF AfterApproval
      <2> QED
          BY <1>1, <1>3, <1>9, <2>1, <2>2, <2>3 DEF CommitApproval, TypeOK
  <1>10. ASSUME NEW h \in Request, CommitRetirement(h) PROVE Typed'
      BY <1>1, <1>3, <1>10, JobShapes DEF CommitRetirement, TypeOK
  <1>11. ASSUME NEW h \in Request, SelectVersion(h) PROVE Typed'
      <2>1. \A v \in Version : [at |-> "freezing", version |-> v] \in Job
          BY DEF Job
      <2> QED
          BY <1>2, <1>11, <2>1 DEF SelectVersion, Offered, Approved
  <1>12. ASSUME NEW h \in Request, CommitMission(h) PROVE Typed'
      BY <1>1, <1>3, <1>12, JobShapes DEF CommitMission, TypeOK
  <1>13. ASSUME NEW h \in Request, Abort(h) PROVE Typed'
      BY <1>1, <1>3, <1>13 DEF Abort, TypeOK
  <1> QED
      BY <1>4, <1>5, <1>6, <1>7, <1>8, <1>9, <1>10, <1>11, <1>12, <1>13 DEF Next

\* The versions and the requests stay in their types, and a draft can always
\* be numbered.
THEOREM TypeCorrect == Spec => []TypeOK
  <1>1. Spec => []Typed
      BY InitTyped, TypedStep, PTL DEF Spec
  <1>2. Typed => TypeOK
      BY DEF Typed
  <1> QED
      BY <1>1, <1>2, PTL

-----------------------------------------------------------------------------
(* Administrators whose requests do not overlap.                            *)

\* At most one request is in flight.
Sole == \A g, h \in Request : job[g] # Idle /\ job[h] # Idle => g = h

\* What an approval has read is still so.
Undisturbed(h) ==
    /\ job[h].at \in {"checked", "approving"} => status[job[h].version] = "DRAFT"
    /\ job[h].at = "approving" => job[h].targets = Approved

Lone ==
    /\ Sole
    /\ \A h \in Request : Undisturbed(h)
    /\ \A v, w \in Approved : v = w

AloneInv == IInv /\ alone \in BOOLEAN /\ (alone => Lone)

\* Version 1 alone is approved at first.
LEMMA InitAlone == Init => AloneInv
  BY InitIInv
     DEF Init, AloneInv, Lone, Sole, Undisturbed, Approved, Idle

\* A request that begins without overlap is the only one.
LEMMA BeginAlone ==
  ASSUME AloneInv, NEW h \in Request, NEW j, Begin(h, j), alone',
         j.at = "checked" => status[j.version] = "DRAFT", j.at # "approving"
  PROVE  Lone'
  <1>1. alone' = (alone /\ \A g \in Request : job[g] = Idle)
      BY DEF Begin
  <1>2. Lone /\ \A g \in Request : job[g] = Idle
      BY <1>1 DEF AloneInv
  <1>3. /\ job'[h] = j /\ status' = status
        /\ \A g \in Request \ {h} : job'[g] = Idle
      BY <1>2 DEF Begin, AloneInv, IInv
  <1>4. Approved' = Approved
      BY <1>3 DEF Approved
  <1>5. Sole'
      BY <1>3 DEF Sole
  <1>6. ASSUME NEW g \in Request PROVE Undisturbed(g)'
      <2>1. CASE g = h
          BY <1>3, <2>1 DEF Undisturbed
      <2>2. CASE g # h
          <3>1. job'[g].at = "idle"
              BY <1>3, <2>2 DEF Idle
          <3> QED
              BY <3>1 DEF Undisturbed
      <2> QED
          BY <2>1, <2>2
  <1> QED
      BY <1>2, <1>4, <1>5, <1>6 DEF Lone

\* After the commit of the only request nothing is in flight.
LEMMA CommitAlone ==
  ASSUME AloneInv, NEW h \in Request, job[h] # Idle, Commit(h), alone',
         Lone => \A v, w \in Approved' : v = w
  PROVE  Lone'
  <1>1. Lone
      BY DEF Commit, AloneInv
  <1>2. \A g \in Request : job'[g] = Idle
      BY <1>1 DEF Commit, AloneInv, IInv, Lone, Sole
  <1>3. \A g \in Request : job'[g].at = "idle"
      BY <1>2 DEF Idle
  <1>4. Sole' /\ \A g \in Request : Undisturbed(g)'
      BY <1>2, <1>3 DEF Sole, Undisturbed
  <1> QED
      BY <1>1, <1>4 DEF Lone

\* Without overlap nothing comes between what a request reads and writes.
LEMMA AloneStep == AloneInv /\ [Next]_vars => AloneInv'
  <1> SUFFICES ASSUME AloneInv, [Next]_vars PROVE AloneInv'
      OBVIOUS
  <1>1. /\ IInv /\ IInv' /\ alone \in BOOLEAN /\ (alone => Lone)
        /\ DOMAIN status = Version /\ DOMAIN job = Request
      BY NextIInv DEF AloneInv, IInv
  <1>2. ASSUME NEW h \in Request, NEW j, Begin(h, j),
               j.at = "checked" => status[j.version] = "DRAFT", j.at # "approving"
        PROVE  AloneInv'
      <2>1. alone' \in BOOLEAN
          BY <1>1, <1>2 DEF Begin
      <2> QED
          BY <1>1, <1>2, <2>1, BeginAlone DEF AloneInv
  <1>3. ASSUME NEW h \in Request, job[h] # Idle, Commit(h),
               Lone => \A v, w \in Approved' : v = w
        PROVE  AloneInv'
      <2>1. alone' \in BOOLEAN
          BY <1>1, <1>3 DEF Commit
      <2> QED
          BY <1>1, <1>3, <2>1, CommitAlone DEF AloneInv
  <1>4. CASE UNCHANGED vars
      <2>1. Approved' = Approved
          BY <1>4 DEF vars, Approved
      <2> QED
          BY <1>1, <1>4, <2>1 DEF vars, AloneInv, Lone, Sole, Undisturbed
  <1>5. ASSUME NEW h \in Request, StartDraft(h) PROVE AloneInv'
      BY <1>2, <1>5 DEF StartDraft
  <1>6. ASSUME NEW h \in Request, NEW v \in Version,
               ReadDraft(h, v) \/ ReadVersion(h, v)
        PROVE  AloneInv'
      BY <1>2, <1>6 DEF ReadDraft, ReadVersion, Approvable
  <1>7. ASSUME NEW h \in Request, SelectVersion(h) PROVE AloneInv'
      BY <1>2, <1>7 DEF SelectVersion
  <1>8. ASSUME NEW h \in Request, ScanApproved(h) PROVE AloneInv'
      <2>1. /\ job[h].at = "checked" /\ UNCHANGED <<status, alone>>
            /\ job'[h].at = "approving" /\ job'[h].version = job[h].version
            /\ job'[h].targets = Approved /\ job'[h] # Idle
            /\ \A g \in Request \ {h} : job'[g] = job[g]
          BY <1>1, <1>8 DEF ScanApproved, Idle
      <2>2. Approved' = Approved /\ job[h] # Idle
          BY <2>1 DEF Approved, Idle
      <2>3. ASSUME Lone PROVE Lone'
          <3>1. Sole'
              BY <2>1, <2>2, <2>3 DEF Lone, Sole
          <3>2. ASSUME NEW g \in Request PROVE Undisturbed(g)'
              BY <2>1, <2>2, <2>3 DEF Lone, Undisturbed
          <3> QED
              BY <2>2, <2>3, <3>1, <3>2 DEF Lone
      <2> QED
          BY <1>1, <2>1, <2>3 DEF AloneInv
  <1>9. ASSUME NEW h \in Request, CommitDraft(h) PROVE AloneInv'
      <2>1. Approved' \subseteq Approved
          BY <1>1, <1>9 DEF CommitDraft, NumberFree, Approved
      <2> QED
          BY <1>3, <1>9, <2>1 DEF CommitDraft, Idle, Lone
  <1>10. ASSUME NEW h \in Request, CommitApproval(h) PROVE AloneInv'
      <2>1. ASSUME Lone PROVE Approved' \subseteq {job[h].version}
          <3>1. job[h].targets = Approved
              BY <1>10, <2>1 DEF CommitApproval, Lone, Undisturbed
          <3>2. \A v \in Version : status'[v] = AfterApproval(h, v)
              BY <1>10 DEF CommitApproval
          <3> QED
              BY <3>1, <3>2 DEF AfterApproval, Approved
      <2>2. job[h] # Idle /\ Commit(h)
          BY <1>10 DEF CommitApproval, Idle
      <2> QED
          BY <1>3, <2>1, <2>2
  <1>11. ASSUME NEW h \in Request, CommitRetirement(h) PROVE AloneInv'
      <2>1. Approved' \subseteq Approved
          BY <1>1, <1>11 DEF CommitRetirement, Approved
      <2> QED
          BY <1>3, <1>11, <2>1 DEF CommitRetirement, Idle, Lone
  <1>12. ASSUME NEW h \in Request, CommitMission(h) \/ Abort(h) PROVE AloneInv'
      <2>1. Approved' = Approved
          BY <1>12 DEF CommitMission, Abort, Approved
      <2> QED
          BY <1>3, <1>12, <2>1 DEF CommitMission, Abort, Idle, Lone
  <1> QED
      BY <1>4, <1>5, <1>6, <1>7, <1>8, <1>9, <1>10, <1>11, <1>12 DEF Next

\* Without overlap what an approval read holds until it commits.
LEMMA AloneSafety == Spec => []AloneInv
  BY InitAlone, AloneStep, PTL DEF Spec

\* Administrators who take turns never have two approved versions of one
\* definition. (approveDraftQuestionVersion retires the others first)
THEOREM OneApprovedSafety == Spec => []OneApproved
  <1>1. AloneInv => OneApproved
      <2> SUFFICES ASSUME AloneInv, alone PROVE Cardinality(Approved) <= 1
          BY DEF OneApproved
      <2>1. \A v, w \in Approved : v = w
          BY DEF AloneInv, Lone
      <2>2. CASE Approved = {}
          BY <2>2, FS_EmptySet
      <2>3. CASE Approved # {}
          <3>1. PICK v \in Approved : TRUE
              BY <2>3
          <3>2. Approved = {v}
              BY <2>1, <3>1
          <3> QED
              BY <3>2, FS_Singleton
      <2> QED
          BY <2>2, <2>3
  <1> QED
      BY <1>1, AloneSafety, PTL

\* Administrators who take turns never bring a retired version back.
THEOREM RetiredSafety == Spec => RetiredStaysRetired
  <1> DEFINE Stays == alone' => \A v \in Version :
                         status[v] = "RETIRED" => status'[v] = "RETIRED"
  <1>1. AloneInv /\ [Next]_vars => [Stays]_vars
      <2> SUFFICES ASSUME AloneInv, Next, alone', NEW v \in Version,
                          status[v] = "RETIRED"
                   PROVE  status'[v] = "RETIRED"
          OBVIOUS
      <2>1. DOMAIN status = Version
          BY DEF AloneInv, IInv
      <2>2. ASSUME NEW h \in Request, CommitDraft(h)
            PROVE  status'[v] = "RETIRED"
          BY <2>1, <2>2 DEF CommitDraft, NumberFree
      <2>3. ASSUME NEW h \in Request, CommitApproval(h)
            PROVE  status'[v] = "RETIRED"
          <3>1. Lone
              BY <2>3 DEF CommitApproval, Commit, AloneInv
          <3>2. v # job[h].version
              BY <2>3, <3>1 DEF CommitApproval, Lone, Undisturbed
          <3> QED
              BY <2>3, <3>2 DEF CommitApproval, AfterApproval
      <2>4. ASSUME NEW h \in Request, CommitRetirement(h)
            PROVE  status'[v] = "RETIRED"
          BY <2>1, <2>4 DEF CommitRetirement
      <2> QED
          BY <2>2, <2>3, <2>4
             DEF Next, StartDraft, ReadDraft, ReadVersion, ScanApproved,
                 SelectVersion, CommitMission, Abort, Begin
  <1> QED
      BY <1>1, AloneSafety, PTL DEF Spec, RetiredStaysRetired

-----------------------------------------------------------------------------
(* The workflow.                                                            *)

\* What a request has read is still so.
Current(h) ==
    /\ job[h].at = "drafting" => job[h].number = Source + 1
    /\ job[h].at = "retiring" => status[job[h].version] \in {"DRAFT", "APPROVED"}
    /\ job[h].at = "freezing" => job[h].version \in Approved

SerialInv == AloneInv /\ Typed /\ (alone => \A h \in Request : Current(h))

\* Without overlap, what a request has read stays true until it writes.
LEMMA SerialStep == SerialInv /\ [Next]_vars => SerialInv'
  <1> SUFFICES ASSUME SerialInv, [Next]_vars, alone' PROVE \A h \in Request : Current(h)'
      BY AloneStep, TypedStep DEF SerialInv
  <1>1. /\ AloneInv /\ DOMAIN job = Request
        /\ \A h \in Request : job[h].at = "idle" => job[h] # [at |-> "drafting"]
      BY DEF SerialInv, AloneInv, IInv
  <1>2. ASSUME NEW h \in Request, NEW j, Begin(h, j),
               j.at = "drafting" => j.number = Source + 1,
               j.at = "retiring" => status[j.version] \in {"DRAFT", "APPROVED"},
               j.at = "freezing" => j.version \in Approved
        PROVE  \A g \in Request : Current(g)'
      <2>1. /\ job'[h] = j /\ status' = status
            /\ \A g \in Request \ {h} : job'[g] = Idle
          BY <1>1, <1>2 DEF Begin
      <2>2. Approved' = Approved /\ Source' = Source
          BY <2>1 DEF Approved, Existing, Source
      <2>3. ASSUME NEW g \in Request PROVE Current(g)'
          <3>1. CASE g = h
              BY <1>2, <2>1, <2>2, <3>1 DEF Current
          <3>2. CASE g # h
              <4>1. job'[g].at = "idle"
                  BY <2>1, <3>2 DEF Idle
              <4> QED
                  BY <4>1 DEF Current
          <3> QED
              BY <3>1, <3>2
      <2> QED
          BY <2>3
  <1>3. ASSUME NEW h \in Request, job[h] # Idle, Commit(h)
        PROVE  \A g \in Request : Current(g)'
      <2>1. Lone
          BY <1>3 DEF Commit, SerialInv, AloneInv
      <2>2. \A g \in Request : job'[g].at = "idle"
          BY <1>1, <1>3, <2>1 DEF Commit, Lone, Sole, Idle
      <2> QED
          BY <2>2 DEF Current
  <1>4. CASE UNCHANGED vars
      <2>1. Approved' = Approved /\ Source' = Source /\ UNCHANGED <<alone, job, status>>
          BY <1>4 DEF vars, Approved, Existing, Source
      <2> QED
          BY <2>1 DEF SerialInv, Current
  <1>5. ASSUME NEW h \in Request, StartDraft(h) PROVE \A g \in Request : Current(g)'
      BY <1>2, <1>5 DEF StartDraft
  <1>6. ASSUME NEW h \in Request, NEW v \in Version, ReadDraft(h, v) \/ ReadVersion(h, v)
        PROVE  \A g \in Request : Current(g)'
      BY <1>2, <1>6 DEF ReadDraft, ReadVersion
  <1>7. ASSUME NEW h \in Request, SelectVersion(h) PROVE \A g \in Request : Current(g)'
      BY <1>2, <1>7 DEF SelectVersion, Offered
  <1>8. ASSUME NEW h \in Request, ScanApproved(h) PROVE \A g \in Request : Current(g)'
      <2>1. /\ job'[h].at = "approving" /\ UNCHANGED <<status, alone>>
            /\ \A g \in Request \ {h} : job'[g] = job[g]
          BY <1>1, <1>8 DEF ScanApproved
      <2>2. Approved' = Approved /\ Source' = Source
          BY <2>1 DEF Approved, Existing, Source
      <2>3. ASSUME NEW g \in Request PROVE Current(g)'
          <3>1. CASE g = h
              BY <2>1, <3>1 DEF Current
          <3>2. CASE g # h
              BY <2>1, <2>2, <3>2 DEF SerialInv, Current
          <3> QED
              BY <3>1, <3>2
      <2> QED
          BY <2>3
  <1>9. ASSUME NEW h \in Request,
               \/ CommitDraft(h) \/ CommitApproval(h) \/ CommitRetirement(h)
               \/ CommitMission(h) \/ Abort(h)
        PROVE  \A g \in Request : Current(g)'
      <2>1. job[h] # Idle /\ Commit(h)
          BY <1>9 DEF CommitDraft, CommitApproval, CommitRetirement, CommitMission, Abort, Idle
      <2> QED
          BY <1>3, <2>1
  <1> QED
      BY <1>4, <1>5, <1>6, <1>7, <1>8, <1>9 DEF Next

\* The workflow's view of the versions.
LEMMA WorkflowView ==
  /\ Workflow!Version = Version
  /\ Workflow!With("APPROVED") = Approved
  /\ Workflow!Clonable = IF Approved # {} THEN Approved ELSE Existing
  <1>1. Workflow!Version = Version
      BY DEF Workflow!Version, Version
  <1>2. Workflow!With("APPROVED") = Approved
      BY <1>1 DEF Workflow!With, Approved
  <1>3. Version \ Workflow!With("none") = Existing
      BY <1>1 DEF Workflow!With, Existing
  <1> QED
      BY <1>1, <1>2, <1>3 DEF Workflow!Clonable

\* A transaction that commits is a step of the workflow; the others change
\* nothing it sees.
LEMMA WorkflowStep ==
  ASSUME SerialInv, [Next]_vars, alone'
  PROVE  [Workflow!Next]_(Workflow!workflowVars)
  <1>1. /\ DOMAIN status = Version /\ TypeOK /\ Typed
      BY DEF SerialInv, AloneInv, IInv, Typed
  <1>2. ASSUME UNCHANGED <<status, frozen>>
        PROVE  [Workflow!Next]_(Workflow!workflowVars)
      BY <1>2 DEF Workflow!workflowVars
  <1>3. ASSUME NEW h \in Request, Commit(h), NEW j, j = job[h], j # Idle
        PROVE  alone /\ Lone /\ Current(h) /\ Undisturbed(h)
      BY <1>3 DEF Commit, SerialInv, AloneInv, Lone
  <1>4. ASSUME NEW h \in Request, CommitDraft(h) PROVE Workflow!Next
      <2>1. /\ job[h].at = "drafting" /\ Commit(h) /\ job[h] # Idle
            /\ status[job[h].number] = "none"
            /\ status' = [status EXCEPT ![job[h].number] = "DRAFT"]
            /\ UNCHANGED frozen
          BY <1>4 DEF CommitDraft, NumberFree, Idle
      <2>2. job[h].number = Source + 1 /\ job[h].number \in Version
          BY <1>1, <1>3, <2>1, JobShapes DEF Current
      <2>3. PICK n \in Version : n = job[h].number
          BY <2>2
      <2>4. Source \in Version /\ n - 1 = Source
          BY <1>1, <2>2, <2>3, SourceType DEF Version
      <2>5. Source \in Workflow!Clonable /\ \A w \in Workflow!Clonable : w <= Source
          <3>1. /\ Approved \in SUBSET Version /\ Existing \in SUBSET Version
                /\ Existing # {}
              BY <1>1 DEF Typed, Approved, Existing
          <3> QED
              BY <3>1, NewestExists, WorkflowView DEF Source
      <2>6. Workflow!Draft(n)
          BY <2>1, <2>3, <2>4, <2>5 DEF Workflow!Draft
      <2> QED
          BY <2>6, WorkflowView DEF Workflow!Next
  <1>5. ASSUME NEW h \in Request, CommitApproval(h) PROVE Workflow!Next
      <2>1. /\ job[h].at = "approving" /\ Commit(h) /\ job[h] # Idle
            /\ status' = [v \in Version |-> AfterApproval(h, v)]
            /\ UNCHANGED frozen
          BY <1>5 DEF CommitApproval, Idle
      <2>2. /\ status[job[h].version] = "DRAFT" /\ job[h].targets = Approved
            /\ job[h].version \in Version
          BY <1>1, <1>3, <2>1, JobShapes DEF Undisturbed
      <2>3. PICK n \in Version : n = job[h].version
          BY <2>2
      <2>4. \A v \in Version : AfterApproval(h, v)
                                 = IF v = n THEN "APPROVED"
                                   ELSE IF status[v] = "APPROVED" THEN "RETIRED"
                                   ELSE status[v]
          BY <2>2, <2>3 DEF AfterApproval, Approved
      <2>5. Workflow!Approve(n)
          BY <2>1, <2>2, <2>3, <2>4, WorkflowView DEF Workflow!Approve
      <2> QED
          BY <2>5, WorkflowView DEF Workflow!Next
  <1>6. ASSUME NEW h \in Request, CommitRetirement(h) PROVE Workflow!Next
      <2>1. /\ job[h].at = "retiring" /\ Commit(h) /\ job[h] # Idle
            /\ status' = [status EXCEPT ![job[h].version] = "RETIRED"]
            /\ UNCHANGED frozen
          BY <1>6 DEF CommitRetirement, Idle
      <2>2. /\ status[job[h].version] \in {"DRAFT", "APPROVED"}
            /\ job[h].version \in Version
          BY <1>1, <1>3, <2>1, JobShapes DEF Current
      <2>3. Workflow!Retire(job[h].version)
          BY <2>1, <2>2 DEF Workflow!Retire
      <2> QED
          BY <2>2, <2>3, WorkflowView DEF Workflow!Next
  <1>7. ASSUME NEW h \in Request, CommitMission(h) PROVE Workflow!Next
      <2>1. /\ job[h].at = "freezing" /\ Commit(h) /\ job[h] # Idle
            /\ frozen' = frozen \cup {job[h].version}
            /\ UNCHANGED status
          BY <1>7 DEF CommitMission, Idle
      <2>2. job[h].version \in Approved /\ \A v, w \in Approved : v = w
          BY <1>3, <2>1 DEF Current, Lone
      <2>3. Approved = {job[h].version} /\ job[h].version \in Version
          BY <2>2 DEF Approved
      <2>4. Workflow!Freeze(job[h].version)
          BY <2>1, <2>3, WorkflowView DEF Workflow!Freeze
      <2> QED
          BY <2>3, <2>4, WorkflowView DEF Workflow!Next
  <1>8. ASSUME NEW h \in Request,
               \/ StartDraft(h) \/ ScanApproved(h) \/ SelectVersion(h) \/ Abort(h)
               \/ \E v \in Version : ReadDraft(h, v) \/ ReadVersion(h, v)
        PROVE  UNCHANGED <<status, frozen>>
      BY <1>8 DEF StartDraft, ScanApproved, SelectVersion, Abort, ReadDraft, ReadVersion, Begin
  <1> QED
      BY <1>2, <1>4, <1>5, <1>6, <1>7, <1>8 DEF Next, vars

\* Requests that do not overlap work as the workflow says: drafts follow the
\* newest version, an approval replaces the version on offer, and missions
\* freeze that version.
THEOREM WorkflowRefinement == Spec => FollowsWorkflow
  <1>1. Init => SerialInv
      <2> SUFFICES ASSUME Init PROVE SerialInv
          OBVIOUS
      <2>1. \A h \in Request : job[h].at = "idle"
          BY DEF Init, Idle
      <2> QED
          BY <2>1, InitAlone, InitTyped DEF SerialInv, Current
  <1>2. Init => Workflow!Init
      BY WorkflowView DEF Init, Workflow!Init
  <1>3. SerialInv /\ [Next]_vars => [alone' => [Workflow!Next]_(Workflow!workflowVars)]_vars
      BY WorkflowStep
  <1> QED
      BY <1>1, <1>2, <1>3, SerialStep, PTL DEF Spec, FollowsWorkflow
=============================================================================
