------------------------------- MODULE Selection -------------------------------
(***************************************************************************)
(* selectMissionQuestions of packages/domain: the questions of a mission,  *)
(* chosen in three passes from the content of the organization and the     *)
(* answers of the client.  Each push of the loops is a step.               *)
(*                                                                         *)
(* A question is a definition: its place in stableQuestionSort; a category *)
(* is its place in the sorted category names.  A definition may have two   *)
(* approved versions (QuestionVersions); they are taken to be alike in     *)
(* category, weight, effort and rules.  No code of the repository writes a *)
(* clarification request; the rows are read, and the function is tested    *)
(* with them.                                                              *)
(***************************************************************************)
EXTENDS Rules, Integers, Sequences, FiniteSets

CONSTANTS
    Category,
    MaxAllowance    \* bound on the daily allowance that is left

ASSUME SelectionAssumption ==
    /\ Question \subseteq Nat /\ IsFiniteSet(Question)
    /\ Category \subseteq Nat /\ IsFiniteSet(Category)
    /\ MaxAllowance \in Nat

VARIABLES
    category,       \* of a question
    heavy,          \* questions of emotional weight 4 or more
    hard,           \* questions of estimated effort 4 or more
    offered,        \* approved and not administrative
    twice,          \* definitions with two approved versions
    branchRules,    \* rules of a question
    answers,        \* answer of a question, or Null
    counted,        \* questions of today's ledger
    clarify,        \* questions of the open clarification requests
    kind,           \* mission kind
    allowance,      \* remaining daily allowance
    selected,       \* the selection, in the order of the mission
    pass,           \* the loop that is running
    left            \* categories the coverage pass has not visited

input == <<category, heavy, hard, offered, twice, branchRules, answers, counted,
           clarify, kind, allowance>>

vars == <<input, selected, pass, left>>

Kind == {"QUICK", "STANDARD", "FULL"}

Slot == [question : Question, clarification : BOOLEAN, counts : BOOLEAN]

TypeOK ==
    /\ category \in [Question -> Category]
    /\ heavy \subseteq Question
    /\ hard \subseteq Question
    /\ offered \subseteq Question
    /\ twice \subseteq Question
    /\ branchRules \in [Question -> SUBSET Rule]
    /\ answers \in [Question -> Answer \cup {Null}]
    /\ counted \subseteq Question
    /\ clarify \subseteq Question
    /\ kind \in Kind
    /\ allowance \in 0..MaxAllowance
    /\ selected \in Seq(Slot)
    /\ pass \in {"clarify", "cover", "fill", "done"}
    /\ left \subseteq Category

Input ==
    /\ category \in [Question -> Category]
    /\ heavy \in SUBSET Question
    /\ hard \in SUBSET Question
    /\ offered \in SUBSET Question
    /\ twice \in SUBSET Question
    /\ branchRules \in [Question -> SUBSET Rule]
    /\ answers \in [Question -> Answer \cup {Null}]
    /\ counted \in SUBSET Question
    /\ clarify \in SUBSET Question
    /\ kind \in Kind
    /\ allowance \in 0..MaxAllowance

Start ==
    /\ selected = << >>
    /\ pass = "clarify"
    /\ left = Category

Init == Input /\ Start

----------------------------------------------------------------------------
(* What may be chosen.                                                     *)

Least(m, n) == IF m <= n THEN m ELSE n

\* getRequestedMissionSize.
RequestedSize ==
    CASE kind = "QUICK"    -> 3
      [] kind = "STANDARD" -> 5
      [] kind = "FULL"     -> Least(12, allowance)

\* isBranchEligible.
BranchEligible(q) ==
    branchRules[q] = {} \/ \E r \in branchRules[q] : Matched(r, answers)

Answered == {q \in Question : answers[q] # Null}

Eligible == {q \in offered : /\ q \notin Answered \/ q \in clarify
                             /\ BranchEligible(q)}

\* The definitions of remainingCounted, and its length: a definition with two
\* approved versions is in it twice.
Countable == Eligible \ counted

RemainingCounted == Cardinality(Countable) + Cardinality(Countable \cap twice)

Cap == Least(RequestedSize, Least(allowance, RemainingCounted))

Chosen == {selected[n].question : n \in 1..Len(selected)}

\* The first of a set, in the order of stableQuestionSort.
First(q, S) == q \in S /\ \A r \in S : q <= r

Push(q, clarification) ==
    selected' = Append(selected, [question |-> q, clarification |-> clarification,
                                  counts |-> q \notin counted])

----------------------------------------------------------------------------
(* The passes.                                                             *)

\* Clarifications first.
Clarifying == (Eligible \cap clarify) \ Chosen

PushClarification ==
    /\ pass = "clarify"
    /\ Len(selected) < Cap
    /\ \E q \in Clarifying : First(q, Clarifying) /\ Push(q, TRUE)
    /\ UNCHANGED <<input, pass, left>>

EndClarifications ==
    /\ pass = "clarify"
    /\ Len(selected) >= Cap \/ Clarifying = {}
    /\ pass' = "cover"
    /\ UNCHANGED <<input, selected, left>>

Remaining == Countable \ Chosen

\* faulty: a category is visited again as long as it has candidates
Revisited(c) == IF \E q \in Remaining : category[q] = c THEN left ELSE left \ {c}

Visited(c) == left \ {c}

\* Then the first question of every category.
CoverCategory ==
    /\ pass = "cover"
    /\ Len(selected) < Cap
    /\ \E c \in left :
         LET candidates == {q \in Remaining : category[q] = c}
         IN  /\ First(c, left)
             /\ left' = Visited(c)
             /\ IF candidates = {}
                THEN UNCHANGED selected
                ELSE \E q \in candidates : First(q, candidates) /\ Push(q, FALSE)
    /\ UNCHANGED <<input, pass>>

EndCoverage ==
    /\ pass = "cover"
    /\ Len(selected) >= Cap \/ left = {}
    /\ pass' = "fill"
    /\ UNCHANGED <<input, selected, left>>

Previous == selected[Len(selected)].question

\* shouldAvoidConsecutiveHeavyQuestion.
TooHeavy(q) ==
    /\ selected # << >>
    /\ Previous \in heavy /\ q \in heavy
    /\ \E r \in Remaining \ {q} : r \notin heavy

\* shouldPreferLowerEffortAlternative.
TooHard(q) ==
    /\ selected # << >>
    /\ Previous \in hard /\ q \in hard
    /\ \E r \in Remaining : r \notin hard

\* faulty: one kind of pacing is enough
LooselyPaced == {q \in Remaining : ~TooHeavy(q) \/ ~TooHard(q)}

Paced == {q \in Remaining : ~TooHeavy(q) /\ ~TooHard(q)}

\* Then what is left, paced where some question allows it.
FillMission ==
    /\ pass = "fill"
    /\ Len(selected) < Cap
    /\ \E q \in Remaining :
         /\ First(q, IF Paced # {} THEN Paced ELSE Remaining)
         /\ Push(q, FALSE)
    /\ UNCHANGED <<input, pass, left>>

EndSelection ==
    /\ pass = "fill"
    /\ Len(selected) >= Cap \/ Remaining = {}
    /\ pass' = "done"
    /\ UNCHANGED <<input, selected, left>>

Next ==
    \/ PushClarification
    \/ EndClarifications
    \/ CoverCategory
    \/ EndCoverage
    \/ FillMission
    \/ EndSelection

Spec == Init /\ [][Next]_vars

----------------------------------------------------------------------------
(* Properties.                                                             *)

\* A rule that is malformed in any part opens nothing, under a negation too.
\* ("malformed rules fail closed in the selector", docs/ARCHITECTURE.md:198)
Opened(q) ==
    branchRules[q] # {} => \E r \in branchRules[q] : WellFormed[r] /\ Holds(answers)[r]

\* A mission holds distinct questions that are open to the client, no more than
\* were asked for or are left of the day; and no place is lost to a pass that
\* skips: it is as long as asked, or as there are questions not counted today.
\* Where a definition has two approved versions the cap is too high, and the
\* selection may end before it, with all of them.
SelectionIsFull ==
    /\ \A m, n \in 1..Len(selected) :
         selected[m].question = selected[n].question => m = n
    /\ \A q \in Chosen : /\ q \in offered \ (Answered \ clarify)
                         /\ q \in counted => q \in clarify
                         /\ Opened(q)
    /\ Len(selected) <= Least(RequestedSize, allowance)
    /\ pass = "done" =>
         \/ Len(selected) \in {RequestedSize, allowance, RemainingCounted}
         \/ Countable \cap twice # {} /\ Countable \subseteq Chosen

\* The order of the code: clarifications first, and a category gets a second new
\* question only when no category with an open question has none.
\* (docs/QUESTION_ENGINE.md:17-19 has the unanswered and the high-priority
\* foundational questions before the category gaps.  The code does not: it knows
\* no foundation, and priority counts in stableQuestionSort only, within a pass.)
OrderIsKept ==
    /\ \A m, n \in 1..Len(selected) :
         m < n /\ selected[n].clarification => selected[m].clarification
    /\ (\E n \in 1..Len(selected) : ~selected[n].clarification)
         => Eligible \cap clarify \subseteq Chosen
    /\ \A m, n \in 1..Len(selected) :
         /\ m < n
         /\ ~selected[m].clarification /\ ~selected[n].clarification
         /\ category[selected[m].question] = category[selected[n].question]
         => \A q \in Countable : \E k \in 1..(n - 1) :
                category[selected[k].question] = category[q]

\* What was left when place n was filled.
LeftAt(n) == Countable \ {selected[k].question : k \in 1..(n - 1)}

\* A question that the coverage pass did not choose: its category has one.
Filled(n) ==
    /\ ~selected[n].clarification
    /\ \E m \in 1..(n - 1) :
         /\ ~selected[m].clarification
         /\ category[selected[m].question] = category[selected[n].question]

\* Among the questions that fill a mission, two heavy ones or two hard ones
\* follow each other only when no question that is left is light and easy.
\* (The other passes do not look at weight and effort, although
\* docs/RFC-001-honey-mvp.md:260 makes no such exception.)
PacedWherePossible ==
    \A n \in 2..Len(selected) :
        Filled(n) /\ LeftAt(n) \ (heavy \cup hard) # {}
        => \A burden \in {heavy, hard} :
             ~({selected[n - 1].question, selected[n].question} \subseteq burden)
=============================================================================
