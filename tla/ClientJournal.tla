--------------------------- MODULE ClientJournal ---------------------------
(***************************************************************************)
(* What the mission engine promises about the rows of one client, without  *)
(* requests, transactions, locks or revision numbers: every commit is one  *)
(* of four steps that look at the journal as it is at that moment.         *)
(*                                                                         *)
(* One promise is weak on purpose: the total that a step writes into the   *)
(* profile may be late, but not more than the journal is worth.            *)
(***************************************************************************)
EXTENDS Naturals, Sequences, FiniteSets, Functions

CONSTANTS Date, Question, Value, DailyCap, RewardSize, Reward, UnlockAt

VARIABLES missions, completed, answers, joined, points, rewards

journal == <<missions, completed, answers, joined, points, rewards>>

Slot == Date \X Question

Charged(d) == {s \in UNION missions : s[1] = d}

\* The total of a journal: a point for joining and for each long mission.
Worth(on, done) ==
    Cardinality({m \in done : Cardinality(m) >= RewardSize})
        + (IF on THEN 1 ELSE 0)

Init ==
    /\ missions = {}
    /\ completed = {}
    /\ answers = [s \in Slot |-> << >>]
    /\ joined = FALSE
    /\ points = 0
    /\ rewards = {}

\* New questions for a date without a mission in progress, within its cap.
Assign(d, chosen) ==
    /\ chosen # {}
    /\ \A m \in missions \ completed : \A s \in m : s[1] # d
    /\ \A q \in chosen : <<d, q>> \notin Charged(d)
    /\ Cardinality(Charged(d)) + Cardinality(chosen) <= DailyCap
    /\ missions' = missions \cup {{d} \X chosen}
    /\ UNCHANGED <<completed, answers, joined, points, rewards>>

\* One slot gets one more answer, which it did not have.
Extends(s, v) ==
    /\ v \notin Range(answers[s])
    /\ answers' = [answers EXCEPT ![s] = Append(@, v)]

Answer(s, v) ==
    /\ s \in UNION missions
    /\ Extends(s, v)
    /\ UNCHANGED <<missions, completed, joined, points, rewards>>

\* The profile gets a total that counts something, and nothing that is not
\* there; a reward is never taken back.
Credit ==
    \E n \in 1 .. Worth(joined', completed') :
        /\ points' = n
        /\ rewards' = rewards \cup {r \in Reward : UnlockAt[r] <= n}

\* A mission is finished by the answer that fills it, or after it.
Finish(m) ==
    /\ \/ \E s \in m, v \in Value : Extends(s, v)
       \/ UNCHANGED answers
    /\ \A s \in m : answers'[s] # << >>
    /\ completed' = completed \cup {m}
    /\ IF Cardinality(m) >= RewardSize THEN Credit
                                       ELSE UNCHANGED <<points, rewards>>
    /\ UNCHANGED <<missions, joined>>

Join ==
    /\ joined' = TRUE
    /\ Credit
    /\ UNCHANGED <<missions, completed, answers>>

Next ==
    \/ \E d \in Date, chosen \in SUBSET Question : Assign(d, chosen)
    \/ \E s \in Slot, v \in Value : Answer(s, v)
    \/ \E m \in missions : Finish(m)
    \/ Join

Spec == Init /\ [][Next]_journal
=============================================================================
