--------------------------- MODULE QuestionVersions ---------------------------
(***************************************************************************)
(* The versions of one question definition (apps/web, services.ts): an     *)
(* administrator drafts, approves and retires versions, and missions       *)
(* freeze an approved version into their slots.                            *)
(*                                                                         *)
(* Every operation is one READ COMMITTED transaction that first reads the  *)
(* versions and then writes: what it read may be out of date by then.      *)
(* approveDraftQuestionVersion reads twice, the version to approve and, as *)
(* the WHERE of its UPDATE, the versions that are approved; that statement *)
(* waits for rows other transactions hold and then updates those of its    *)
(* snapshot that still qualify, but never rows that became approved since. *)
(***************************************************************************)
EXTENDS Naturals, FiniteSets, FiniteSetsExt

CONSTANTS
    Request,        \* concurrent handlers of administrators and clients
    MaxVersion      \* bound: versions of the definition

ASSUME VersionsAssumption == MaxVersion \in Nat \ {0}

Version == 1 .. MaxVersion    \* versionNumber, unique per definition

VARIABLES
    status,         \* legalReviewStatus of each version, "none" for no row
    published,      \* versions that were ever approved (history)
    frozen,         \* versions in mission slots
    alone,          \* no two requests have overlapped so far (history)
    job             \* what each request is doing

vars == <<status, published, frozen, alone, job>>

Idle == [at |-> "idle"]

Job == {Idle}
       \cup [at : {"drafting"}, number : Version \ {1}]
       \cup [at : {"checked", "retiring", "freezing"}, version : Version]
       \cup [at : {"approving"}, version : Version, targets : SUBSET Version]

Existing == {v \in Version : status[v] # "none"}

Approved == {v \in Version : status[v] = "APPROVED"}

\* Rows and jobs; only the shapes.
TypeOK ==
    /\ status \in [Version -> {"none", "DRAFT", "APPROVED", "RETIRED"}]
    /\ published \subseteq Version
    /\ frozen \subseteq Version
    /\ alone \in BOOLEAN
    /\ job \in [Request -> Job]

\* The seed creates version 1, approved.
Init ==
    /\ status = [v \in Version |-> IF v = 1 THEN "APPROVED" ELSE "none"]
    /\ published = {1}
    /\ frozen = {}
    /\ alone = TRUE
    /\ job = [h \in Request |-> Idle]

Begin(h, j) ==
    /\ job[h] = Idle
    /\ job' = [job EXCEPT ![h] = j]
    /\ alone' = (alone /\ \A g \in Request : job[g] = Idle)
    /\ UNCHANGED <<status, published, frozen>>

Commit(h) ==
    /\ job' = [job EXCEPT ![h] = Idle]
    /\ UNCHANGED alone

-----------------------------------------------------------------------------
(* createDraftQuestionVersion                                               *)

\* faulty: no fallback when nothing is approved
ApprovedOnly == IF Approved # {} THEN Max(Approved) ELSE 0

\* The newest approved version, or else the newest version.
Source == IF Approved # {} THEN Max(Approved) ELSE Max(Existing)

StartDraft(h) ==
    /\ Source < MaxVersion
    /\ Begin(h, [at |-> "drafting", number |-> Source + 1])

NumberUnchecked(n) == TRUE    \* faulty: no unique (definitionId, versionNumber)

\* The unique key refuses a number that is taken.
NumberFree(n) == status[n] = "none"

CommitDraft(h) ==
    /\ job[h].at = "drafting"
    /\ NumberFree(job[h].number)
    /\ status' = [status EXCEPT ![job[h].number] = "DRAFT"]
    /\ Commit(h)
    /\ UNCHANGED <<published, frozen>>

-----------------------------------------------------------------------------
(* approveDraftQuestionVersion and retireQuestionVersion                    *)

AnyVersion(v) == v \in Existing    \* faulty: status not looked at

\* Approving an approved version returns it; a retired one is an error.
Approvable(v) == status[v] = "DRAFT"

ReadDraft(h, v) ==
    /\ Approvable(v)
    /\ Begin(h, [at |-> "checked", version |-> v])

\* The UPDATE that retires the approved versions takes its snapshot.
ScanApproved(h) ==
    /\ job[h].at = "checked"
    /\ job' = [job EXCEPT ![h] = [at |-> "approving", version |-> @.version,
                                  targets |-> Approved]]
    /\ UNCHANGED <<status, published, frozen, alone>>

\* faulty: the version is approved first, and retired with the others
ApprovedThenRetired(h, v) ==
    IF v \in job[h].targets \cup {job[h].version} THEN "RETIRED" ELSE status[v]

\* faulty: the version is approved and the others are left alone
OnlyApproved(h, v) == IF v = job[h].version THEN "APPROVED" ELSE status[v]

\* What approval makes of version v.
AfterApproval(h, v) ==
    IF v = job[h].version THEN "APPROVED"
    ELSE IF v \in job[h].targets \cap Approved THEN "RETIRED"
    ELSE status[v]

CommitApproval(h) ==
    /\ job[h].at = "approving"
    /\ status' = [v \in Version |-> AfterApproval(h, v)]
    /\ published' = published \cup {job[h].version}
    /\ Commit(h)
    /\ UNCHANGED frozen

ReadVersion(h, v) ==
    /\ status[v] \in {"DRAFT", "APPROVED"}
    /\ Begin(h, [at |-> "retiring", version |-> v])

CommitRetirement(h) ==
    /\ job[h].at = "retiring"
    /\ status' = [status EXCEPT ![job[h].version] = "RETIRED"]
    /\ Commit(h)
    /\ UNCHANGED <<published, frozen>>

-----------------------------------------------------------------------------
(* getOrCreateMission, as far as it concerns this definition                *)

Unfiltered == Existing    \* faulty: versions of any status are offered

\* Missions are selected from the approved versions.
Offered == Approved

SelectVersion(h) ==
    \E v \in Offered : Begin(h, [at |-> "freezing", version |-> v])

CommitMission(h) ==
    /\ job[h].at = "freezing"
    /\ frozen' = frozen \cup {job[h].version}
    /\ Commit(h)
    /\ UNCHANGED <<status, published>>

\* A rule of the draft is not valid, a number is taken, or the handler dies.
Abort(h) ==
    /\ job[h] # Idle
    /\ Commit(h)
    /\ UNCHANGED <<status, published, frozen>>

Next ==
    \E h \in Request :
        \/ StartDraft(h)
        \/ CommitDraft(h)
        \/ \E v \in Version : ReadDraft(h, v) \/ ReadVersion(h, v)
        \/ ScanApproved(h)
        \/ CommitApproval(h)
        \/ CommitRetirement(h)
        \/ SelectVersion(h)
        \/ CommitMission(h)
        \/ Abort(h)

Spec == Init /\ [][Next]_vars

-----------------------------------------------------------------------------

\* A mission never shows a client a version that was not approved at some time,
\* even when it is retired or rejected while the mission is being created.
\* "New client missions may only use `APPROVED` versions"
\* (docs/CONTENT_VERSIONING_WORKFLOW.md:30)
FrozenWasPublished == frozen \subseteq published

\* A published version never becomes a draft again and no draft takes its place.
PublishedIsImmutable == \A v \in published : status[v] \in {"APPROVED", "RETIRED"}

\* However approvals overlap, the definition stays on offer until somebody
\* retires a version explicitly.
ApprovalKeepsOnOffer ==
    [][(Approved # {} /\ Approved' = {}) =>
         \E h \in Request : job[h].at = "retiring" /\ job'[h] = Idle]_vars

\* "Approval retires any currently approved version for that definition"
\* (docs/CONTENT_VERSIONING_WORKFLOW.md:23), while requests do not overlap.
OneApproved == alone => Cardinality(Approved) <= 1

\* A retired version is not published again, while requests do not overlap.
RetiredStaysRetired ==
    [][alone' => \A v \in Version : status[v] = "RETIRED" =>
                                       status'[v] = "RETIRED"]_vars

Workflow == INSTANCE VersionWorkflow

\* While no two requests have overlapped, every transaction is one step of the
\* workflow: what an administrator or a mission has read still holds when it
\* writes.
FollowsWorkflow ==
    /\ Workflow!Init
    /\ [][alone' => [Workflow!Next]_(Workflow!workflowVars)]_vars
=============================================================================
