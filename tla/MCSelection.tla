------------------------------ MODULE MCSelection ------------------------------
(* A small instance of Selection for TLC: four questions in two categories. *)
EXTENDS Selection

CONSTANTS yes, no, null

\* Rules about the first question.
Simple ==
    [op : {"equals"}, key : {1}, value : {yes, null}]
      \cup [op : {"oneOf"}, key : {1}, values : {{yes, 2}, {}}]
      \cup [op : {"gte"}, key : {1}, value : {2}]
      \cup [op : {"exists"}, key : {1}]
      \cup [op : {"fact"}, value : {null, yes}]
      \cup [op : {"unknown"}]

MCRule ==
    Simple \cup [op : {"not"}, of : Simple]
      \cup [op : {"all", "any"}, of : {S \in SUBSET Simple : Cardinality(S) = 2} \cup {{}}]

Unanswered == [q \in Question |-> null]

NoRules == [q \in Question |-> {}]

Plain ==
    /\ offered = Question /\ twice = {}
    /\ branchRules = NoRules /\ counted = {} /\ clarify = {}

\* Every weight and effort of open questions.
Pacing ==
    /\ Plain /\ answers = Unanswered
    /\ category \in [Question -> Category]
    /\ heavy \in SUBSET Question /\ hard \in SUBSET Question
    /\ kind \in {"QUICK", "FULL"} /\ allowance = 4

\* Answered questions, some of them today, some to be clarified, and a
\* definition with two approved versions.
Asking ==
    /\ offered = Question /\ branchRules = NoRules
    /\ twice \in {{}, {4}}
    /\ category \in [Question -> Category]
    /\ heavy = {1, 2} /\ hard = {2}
    /\ answers \in [Question -> {yes, null}]
    /\ counted \in SUBSET Answered /\ clarify \in SUBSET Answered
    /\ kind \in Kind /\ allowance \in {0, 2, 4}

\* Every rule, and pairs of them, under every answer.
Branching ==
    /\ category = [q \in Question |-> 1]
    /\ heavy = {} /\ hard = {} /\ counted = {} /\ clarify = {} /\ twice = {}
    /\ offered \in {Question, Question \ {2}}
    /\ answers \in {[Unanswered EXCEPT ![1] = a] : a \in Answer \cup {null}}
    /\ \E r \in MCRule, s \in Simple : branchRules = [NoRules EXCEPT ![3] = {r, s}]
    /\ kind = "QUICK" /\ allowance = 4

MCInit == (Pacing \/ Asking \/ Branching) /\ Start

MCSpec == MCInit /\ [][Next]_vars
=============================================================================
