----------------------------- MODULE SelectionProofs -----------------------------
(***************************************************************************)
(* Proofs about Selection, for any content, rules, answers and allowance.  *)
(***************************************************************************)
EXTENDS Selection, FiniteSetTheorems, SequenceTheorems, TLAPS

Places == 1..Len(selected)

\* The selection reaches the cap, or has all a definition with two approved
\* versions leaves it.
Ended == \/ Len(selected) = Cap
         \/ Countable \cap twice # {} /\ Countable \subseteq Chosen

\* Every place holds a question of its own that was open.
Placed ==
    /\ \A m, n \in Places : selected[m].question = selected[n].question => m = n
    /\ \A n \in Places :
         /\ selected[n].question \in Eligible
         /\ selected[n].clarification => selected[n].question \in clarify
         /\ ~selected[n].clarification => selected[n].question \in Countable
    /\ IsFiniteSet(Chosen)
    /\ Cardinality(Chosen) = Len(selected)
    /\ Len(selected) <= Cap
    /\ pass = "done" => Ended

\* The clarifications are in front, and complete before a new question comes.
InFront ==
    /\ \A m, n \in Places :
         m < n /\ selected[n].clarification => selected[m].clarification
    /\ pass = "clarify" => \A n \in Places : selected[n].clarification
    /\ (\E n \in Places : ~selected[n].clarification)
         => Eligible \cap clarify \subseteq Chosen
    /\ pass # "clarify" => Len(selected) = Cap \/ Eligible \cap clarify \subseteq Chosen

\* The category of q has a question among the first n places.
Represented(q, n) == \E k \in 1..n : category[selected[k].question] = category[q]

\* What the coverage pass has achieved, and what the fill pass keeps.
Covered ==
    /\ pass = "clarify" => left = Category
    /\ pass = "cover" =>
         /\ \A n \in Places : ~selected[n].clarification
                                => category[selected[n].question] \notin left
         /\ \A q \in Countable : category[q] \notin left => Represented(q, Len(selected))
         /\ \A n \in Places : ~Filled(n)
    /\ pass = "fill" => \/ Len(selected) = Cap
                        \/ \A q \in Countable : Represented(q, Len(selected))
    /\ \A n \in Places : Filled(n) => \A q \in Countable : Represented(q, n - 1)

IInv == TypeOK /\ Placed /\ InFront /\ Covered /\ PacedWherePossible

----------------------------------------------------------------------------
(* What the input determines stays as it is.                               *)

\* No step changes what the selection was asked for.
LEMMA InputKept ==
    ASSUME UNCHANGED input
    PROVE  /\ Eligible' = Eligible
           /\ Countable' = Countable
           /\ Cap' = Cap
           /\ RequestedSize' = RequestedSize
           /\ RemainingCounted' = RemainingCounted
  <1>1. Eligible' = Eligible
    BY DEF input, Eligible, Answered, BranchEligible, Matched
  <1>2. Countable' = Countable
    BY <1>1 DEF input, Countable
  <1>3. RequestedSize' = RequestedSize
    BY DEF input, RequestedSize, Least
  <1>4. RemainingCounted' = RemainingCounted
    BY <1>2 DEF input, RemainingCounted
  <1>5. Cap' = Cap
    BY <1>3, <1>4 DEF input, Cap, Least
  <1> QED
    BY <1>1, <1>2, <1>3, <1>4, <1>5

\* The cap is a natural number, bounded by size, allowance and content, and
\* reaches one of the three.
LEMMA CapTyped ==
    ASSUME TypeOK
    PROVE  /\ IsFiniteSet(Countable)
           /\ Cardinality(Countable) \in Nat
           /\ RequestedSize \in Nat
           /\ Cap \in Nat
           /\ Countable \cap twice = {} => Cap <= Cardinality(Countable)
           /\ Cap <= Least(RequestedSize, allowance)
           /\ Cap \in {RequestedSize, allowance, RemainingCounted}
  <1>1. Countable \in SUBSET Question
    BY DEF TypeOK, Countable, Eligible
  <1>2. IsFiniteSet(Countable) /\ Cardinality(Countable) \in Nat
    BY <1>1, SelectionAssumption, FS_Subset, FS_CardinalityType
  <1>3. allowance \in Nat
    BY SelectionAssumption DEF TypeOK
  <1>4. RequestedSize \in Nat
    BY <1>3 DEF TypeOK, Kind, RequestedSize, Least
  <1>5. /\ RemainingCounted \in Nat
        /\ Countable \cap twice = {} => RemainingCounted = Cardinality(Countable)
    <2>1. Cardinality(Countable \cap twice) \in Nat
      BY <1>2, FS_Subset, FS_CardinalityType
    <2>2. Countable \cap twice = {} => Cardinality(Countable \cap twice) = 0
      BY FS_EmptySet
    <2> QED
      BY <1>2, <2>1, <2>2 DEF RemainingCounted
  <1> QED
    BY <1>2, <1>3, <1>4, <1>5 DEF Cap, Least

\* A place that is filled already is not touched.
LEMMA PushEffect ==
    ASSUME TypeOK, NEW q \in Question, NEW c \in BOOLEAN, Push(q, c)
    PROVE  /\ selected' \in Seq(Slot)
           /\ Len(selected) \in Nat
           /\ Len(selected') = Len(selected) + 1
           /\ \A n \in 1..Len(selected) : selected'[n] = selected[n]
           /\ selected'[Len(selected) + 1].question = q
           /\ selected'[Len(selected) + 1].clarification = c
           /\ \A n \in 1..Len(selected') : n \in 1..Len(selected) \/ n = Len(selected) + 1
           /\ Chosen' = Chosen \cup {q}
  <1> DEFINE s == [question |-> q, clarification |-> c, counts |-> q \notin counted]
  <1>1. s \in Slot
    BY DEF Slot
  <1>2. selected \in Seq(Slot) /\ selected' = Append(selected, s)
    BY DEF TypeOK, Push
  <1>3. s.question = q /\ s.clarification = c
    OBVIOUS
  <1> HIDE DEF s
  <1>4. /\ selected' \in Seq(Slot)
        /\ Len(selected) \in Nat
        /\ Len(selected') = Len(selected) + 1
        /\ \A n \in 1..Len(selected) : selected'[n] = selected[n]
        /\ selected'[Len(selected) + 1] = s
    BY <1>1, <1>2, AppendProperties
  <1>5. \A n \in 1..Len(selected') : n \in 1..Len(selected) \/ n = Len(selected) + 1
    BY <1>4
  <1>6. Chosen' = Chosen \cup {q}
    <2>1. \A x : x \in Chosen' <=> \E n \in 1..Len(selected') : x = selected'[n].question
      BY DEF Chosen
    <2>2. \A x : x \in Chosen <=> \E n \in 1..Len(selected) : x = selected[n].question
      BY DEF Chosen
    <2>3. Len(selected) + 1 \in 1..Len(selected')
      BY <1>4
    <2>4. \A n \in 1..Len(selected) : n \in 1..Len(selected')
      BY <1>4
    <2> QED
      BY <1>3, <1>4, <1>5, <2>1, <2>2, <2>3, <2>4
  <1> QED
    BY <1>3, <1>4, <1>5, <1>6

\* What a step that pushes nothing keeps.
LEMMA KeptPlaces ==
    ASSUME IInv, UNCHANGED <<input, selected>>,
           pass' = "done" => Ended
    PROVE  Placed' /\ PacedWherePossible'
  <1>1. Placed'
    BY InputKept DEF IInv, Placed, Ended, Places, Chosen, input
  <1>2. PacedWherePossible'
    BY InputKept DEF IInv, PacedWherePossible, Filled, LeftAt, input
  <1> QED
    BY <1>1, <1>2

----------------------------------------------------------------------------
(* A push of an open question that has no place yet keeps the places.      *)

\* A push keeps the places distinct and within the cap.
LEMMA PushKeepsPlaces ==
    ASSUME IInv, UNCHANGED <<input, pass>>, pass # "done", Len(selected) < Cap,
           NEW q \in Eligible \ Chosen, NEW c \in BOOLEAN, Push(q, c),
           IF c THEN q \in clarify ELSE q \in Countable
    PROVE  Placed'
  <1>1. /\ \A m, n \in 1..Len(selected) :
             selected[m].question = selected[n].question => m = n
        /\ \A n \in 1..Len(selected) :
             /\ selected[n].question \in Eligible
             /\ selected[n].clarification => selected[n].question \in clarify
             /\ ~selected[n].clarification => selected[n].question \in Countable
        /\ IsFiniteSet(Chosen) /\ Cardinality(Chosen) = Len(selected)
    BY DEF IInv, Placed, Places
  <1>2. TypeOK /\ q \in Question /\ Cap \in Nat
    BY CapTyped DEF IInv, TypeOK, Eligible
  <1>3. /\ Len(selected) \in Nat
        /\ Len(selected') = Len(selected) + 1
        /\ \A n \in 1..Len(selected) : selected'[n] = selected[n]
        /\ selected'[Len(selected) + 1].question = q
        /\ selected'[Len(selected) + 1].clarification = c
        /\ \A n \in 1..Len(selected') : n \in 1..Len(selected) \/ n = Len(selected) + 1
        /\ Chosen' = Chosen \cup {q}
    BY <1>2, PushEffect
  <1>4. \A n \in 1..Len(selected) : selected[n].question # q
    BY DEF Chosen
  <1>5. IsFiniteSet(Chosen') /\ Cardinality(Chosen') = Len(selected) + 1
    BY <1>1, <1>3, FS_AddElement
  <1>6. Eligible' = Eligible /\ Countable' = Countable /\ Cap' = Cap /\ clarify' = clarify
    BY InputKept DEF input
  <1>7. \A m, n \in 1..Len(selected') :
          selected'[m].question = selected'[n].question => m = n
    BY <1>1, <1>3, <1>4
  <1>8. \A n \in 1..Len(selected') :
             /\ selected'[n].question \in Eligible
             /\ selected'[n].clarification => selected'[n].question \in clarify
             /\ ~selected'[n].clarification => selected'[n].question \in Countable
    BY <1>1, <1>3
  <1>9. Len(selected') <= Cap
    BY <1>2, <1>3
  <1> QED
    BY <1>3, <1>5, <1>6, <1>7, <1>8, <1>9 DEF Placed, Places

\* The same for the order of the passes and for the pacing, when what is pushed
\* last is known to be right.
LEMMA PushKeepsPacing ==
    ASSUME IInv, UNCHANGED input, NEW q \in Question, NEW c \in BOOLEAN, Push(q, c),
           ~c /\ (\E m \in Places : /\ ~selected[m].clarification
                                    /\ category[selected[m].question] = category[q])
             /\ selected # << >> /\ Remaining \ (heavy \cup hard) # {}
             => /\ ~(selected[Len(selected)].question \in heavy /\ q \in heavy)
                /\ ~(selected[Len(selected)].question \in hard /\ q \in hard)
    PROVE  PacedWherePossible'
  <1>1. /\ Len(selected) \in Nat
        /\ Len(selected') = Len(selected) + 1
        /\ \A n \in 1..Len(selected) : selected'[n] = selected[n]
        /\ selected'[Len(selected) + 1].question = q
        /\ selected'[Len(selected) + 1].clarification = c
        /\ \A n \in 1..Len(selected') : n \in 1..Len(selected) \/ n = Len(selected) + 1
    BY PushEffect DEF IInv
  <1>2. /\ Countable' = Countable /\ category' = category
        /\ heavy' = heavy /\ hard' = hard
    BY InputKept DEF input
  <1> DEFINE F(n) == /\ ~selected'[n].clarification
                     /\ \E m \in 1..(n - 1) :
                          /\ ~selected'[m].clarification
                          /\ category[selected'[m].question] = category[selected'[n].question]
             T(n) == Countable \ {selected'[k].question : k \in 1..(n - 1)}
  <1> SUFFICES ASSUME NEW n \in 2..Len(selected'), F(n), T(n) \ (heavy \cup hard) # {},
                      NEW burden \in {heavy, hard}
               PROVE  ~({selected'[n - 1].question, selected'[n].question} \subseteq burden)
    BY <1>2 DEF PacedWherePossible, Filled, LeftAt
  <1>3. CASE n \in 1..Len(selected)
    <2>1. /\ n \in 2..Len(selected) /\ n - 1 \in 1..Len(selected)
          /\ \A k \in 1..(n - 1) : selected'[k] = selected[k]
          /\ selected'[n] = selected[n]
      BY <1>1, <1>3
    <2>2. Filled(n)
      BY <2>1 DEF Filled
    <2>3. T(n) = LeftAt(n)
      BY <2>1 DEF LeftAt
    <2> QED
      BY <2>1, <2>2, <2>3 DEF IInv, PacedWherePossible
  <1>4. CASE n = Len(selected) + 1
    <2>1. /\ n - 1 = Len(selected) /\ Len(selected) \in 1..Len(selected)
          /\ \A k \in 1..(n - 1) : selected'[k] = selected[k]
      BY <1>1, <1>4
    <2>2. T(n) = Remaining
      BY <2>1 DEF Remaining, Chosen
    <2>3. selected # << >>
      BY <2>1 DEF IInv, TypeOK
    <2>4. ~c /\ \E m \in Places : /\ ~selected[m].clarification
                                  /\ category[selected[m].question] = category[q]
      BY <1>1, <1>4, <2>1 DEF Places
    <2> QED
      BY <1>1, <1>4, <2>1, <2>2, <2>3, <2>4
  <1> QED
    BY <1>1, <1>3, <1>4

\* What was filled and represented before a push is so after it.
LEMMA PushHistory ==
    ASSUME TypeOK, UNCHANGED input, NEW q \in Question, NEW c \in BOOLEAN, Push(q, c)
    PROVE  /\ \A n \in 1..Len(selected) : Filled(n)' <=> Filled(n)
           /\ \A r, n : n \in 0..Len(selected) => (Represented(r, n)' <=> Represented(r, n))
           /\ \A r : Represented(r, Len(selected)) \/ category[r] = category[q]
                => \E k \in 1..Len(selected') : category[selected'[k].question] = category[r]
  <1>1. /\ Len(selected) \in Nat
        /\ \A n \in 1..Len(selected) : selected'[n] = selected[n]
        /\ selected'[Len(selected) + 1].question = q
        /\ category' = category
    BY PushEffect DEF input
  <1>2. \A n \in 1..Len(selected) : Filled(n)' <=> Filled(n)
    BY <1>1 DEF Filled
  <1>3. \A r, n : n \in 0..Len(selected) => (Represented(r, n)' <=> Represented(r, n))
    BY <1>1 DEF Represented
  <1>4. \A r : Represented(r, Len(selected)) \/ category[r] = category[q]
          => \E k \in 1..Len(selected') : category[selected'[k].question] = category[r]
    <2>1. Len(selected') = Len(selected) + 1
      BY PushEffect
    <2>2. \A k \in 1..Len(selected) : k \in 1..Len(selected')
      BY <1>1, <2>1
    <2>3. Len(selected) + 1 \in 1..Len(selected')
      BY <1>1, <2>1
    <2> QED
      BY <1>1, <2>2, <2>3 DEF Represented
  <1> QED
    BY <1>2, <1>3, <1>4

\* The type of a step.
LEMMA StepTyped == TypeOK /\ [Next]_vars => TypeOK'
  <1> SUFFICES ASSUME TypeOK, [Next]_vars PROVE TypeOK'
    OBVIOUS
  <1>1. /\ Eligible \subseteq Question /\ Clarifying \subseteq Question
        /\ Remaining \subseteq Question
    BY DEF TypeOK, Eligible, Clarifying, Remaining, Countable
  <1>2. CASE PushClarification
    <2>1. PICK q \in Question : Push(q, TRUE)
      BY <1>1, <1>2 DEF PushClarification
    <2> QED
      BY <1>2, <2>1, PushEffect DEF PushClarification, input, TypeOK
  <1>3. CASE EndClarifications
    BY <1>3 DEF EndClarifications, input, TypeOK
  <1>4. CASE CoverCategory
    <2>1. left' \subseteq Category
      BY <1>4 DEF CoverCategory, Visited, TypeOK
    <2>2. selected' \in Seq(Slot)
      <3>1. CASE UNCHANGED selected
        BY <3>1 DEF TypeOK
      <3>2. ASSUME NEW q \in Question, Push(q, FALSE) PROVE selected' \in Seq(Slot)
        BY <3>2, PushEffect
      <3> QED
        BY <1>1, <1>4, <3>1, <3>2 DEF CoverCategory
    <2> QED
      BY <1>4, <2>1, <2>2 DEF CoverCategory, input, TypeOK
  <1>5. CASE EndCoverage
    BY <1>5 DEF EndCoverage, input, TypeOK
  <1>6. CASE FillMission
    <2>1. PICK q \in Question : Push(q, FALSE)
      BY <1>1, <1>6 DEF FillMission
    <2> QED
      BY <1>6, <2>1, PushEffect DEF FillMission, input, TypeOK
  <1>7. CASE EndSelection
    BY <1>7 DEF EndSelection, input, TypeOK
  <1>8. CASE UNCHANGED vars
    BY <1>8 DEF vars, input, TypeOK
  <1> QED
    BY <1>2, <1>3, <1>4, <1>5, <1>6, <1>7, <1>8 DEF Next

----------------------------------------------------------------------------
(* Every step keeps the invariant.                                         *)

\* Taking a clarification keeps the invariant.
LEMMA ClarificationKeeps ==
    ASSUME IInv, PushClarification
    PROVE  IInv'
  <1>1. PICK q : q \in Clarifying /\ Push(q, TRUE)
    BY DEF PushClarification
  <1>2. q \in Eligible \ Chosen /\ q \in clarify /\ q \in Question /\ TypeOK
    BY <1>1 DEF Clarifying, IInv, TypeOK, Eligible
  <1>3. pass = "clarify" /\ pass' = pass /\ left' = left /\ UNCHANGED input /\ Len(selected) < Cap
    BY DEF PushClarification
  <1>4. /\ \A n \in 1..Len(selected) : selected'[n] = selected[n]
        /\ selected'[Len(selected) + 1].clarification = TRUE
        /\ \A n \in 1..Len(selected') : n \in 1..Len(selected) \/ n = Len(selected) + 1
    BY <1>1, <1>2, PushEffect
  <1>5. \A n \in 1..Len(selected') : selected'[n].clarification
    BY <1>3, <1>4 DEF IInv, InFront, Places
  <1>6. TypeOK'
    BY StepTyped DEF IInv, Next
  <1>7. Placed'
    BY <1>1, <1>2, <1>3, PushKeepsPlaces
  <1>8. InFront'
    BY <1>3, <1>5 DEF InFront, Places
  <1>9. Covered'
    BY <1>3, <1>5 DEF IInv, Covered, Places, Filled
  <1>10. PacedWherePossible'
    BY <1>1, <1>2, <1>3, PushKeepsPacing
  <1> QED
    BY <1>6, <1>7, <1>8, <1>9, <1>10 DEF IInv

\* The end of the clarifications keeps the invariant.
LEMMA EndClarificationsKeeps ==
    ASSUME IInv, EndClarifications
    PROVE  IInv'
  <1>1. /\ pass = "clarify" /\ pass' = "cover" /\ UNCHANGED <<input, selected, left>>
        /\ Len(selected) >= Cap \/ Clarifying = {}
    BY DEF EndClarifications
  <1>2. Len(selected) \in Nat /\ Cap \in Nat /\ Len(selected) <= Cap
    BY CapTyped DEF IInv, TypeOK, Placed
  <1>3. \A n \in Places : selected[n].clarification
    BY <1>1 DEF IInv, InFront
  <1>4. TypeOK'
    BY StepTyped DEF IInv, Next
  <1>5. Placed' /\ PacedWherePossible'
    BY <1>1, KeptPlaces
  <1>6. InFront'
    <2>1. Len(selected) = Cap \/ Eligible \cap clarify \subseteq Chosen
      BY <1>1, <1>2 DEF Clarifying
    <2> QED
      BY <1>1, <1>3, <2>1, InputKept DEF InFront, Places, Chosen, input
  <1>7. Covered'
    <2>1. left = Category /\ \A q \in Countable : category[q] \in left
      BY <1>1 DEF IInv, Covered, TypeOK, Countable, Eligible
    <2>2. \A n \in Places : ~Filled(n)
      BY <1>3 DEF Filled
    <2> QED
      BY <1>1, <1>3, <2>1, <2>2, InputKept DEF Covered, Places, Filled, Represented, input
  <1> QED
    BY <1>4, <1>5, <1>6, <1>7 DEF IInv

\* The coverage pass keeps the invariant.
LEMMA CoverKeeps ==
    ASSUME IInv, CoverCategory
    PROVE  IInv'
  <1>1. /\ pass = "cover" /\ pass' = pass /\ UNCHANGED input /\ Len(selected) < Cap
        /\ TypeOK /\ TypeOK'
    BY StepTyped DEF CoverCategory, IInv, Next
  <1>2. PICK c \in left :
          LET candidates == {q \in Remaining : category[q] = c}
          IN  /\ left' = left \ {c}
              /\ IF candidates = {}
                 THEN UNCHANGED selected
                 ELSE \E q \in candidates : First(q, candidates) /\ Push(q, FALSE)
    BY DEF CoverCategory, Visited
  <1>3. /\ \A n \in Places : ~selected[n].clarification
                               => category[selected[n].question] \notin left
        /\ \A q \in Countable : category[q] \notin left => Represented(q, Len(selected))
        /\ \A n \in Places : ~Filled(n)
    BY <1>1 DEF IInv, Covered
  <1>4. Eligible \cap clarify \subseteq Chosen
    BY <1>1 DEF IInv, InFront, CapTyped
  <1>5. CASE {q \in Remaining : category[q] = c} = {}
    <2>1. UNCHANGED <<input, selected>>
      BY <1>1, <1>2, <1>5
    <2>2. Placed' /\ PacedWherePossible'
      BY <1>1, <2>1, KeptPlaces
    <2>3. InFront'
      BY <1>1, <2>1, InputKept DEF IInv, InFront, Places, Chosen, input
    <2>4. ASSUME NEW q \in Countable, category[q] \notin left'
          PROVE  Represented(q, Len(selected))
      <3>1. CASE category[q] = c
        <4>1. q \in Chosen
          BY <1>5, <3>1 DEF Remaining
        <4> QED
          BY <4>1 DEF Chosen, Represented
      <3>2. CASE category[q] # c
        BY <1>2, <1>3, <2>4, <3>2
      <3> QED
        BY <3>1, <3>2
    <2>5. Covered'
      BY <1>1, <1>2, <1>3, <2>1, <2>4, InputKept
      DEF Covered, Places, Filled, Represented, input
    <2> QED
      BY <1>1, <2>2, <2>3, <2>5 DEF IInv
  <1>6. CASE {q \in Remaining : category[q] = c} # {}
    <2>1. PICK q \in Remaining : category[q] = c /\ Push(q, FALSE)
      BY <1>2, <1>6
    <2>2. q \in Countable /\ q \in Eligible \ Chosen /\ q \in Question
      BY <1>1 DEF Remaining, Countable, Eligible, TypeOK
    <2>3. /\ Len(selected) \in Nat
          /\ Len(selected') = Len(selected) + 1
          /\ \A n \in 1..Len(selected) : selected'[n] = selected[n]
          /\ selected'[Len(selected) + 1].question = q
          /\ selected'[Len(selected) + 1].clarification = FALSE
          /\ \A n \in 1..Len(selected') : n \in 1..Len(selected) \/ n = Len(selected) + 1
          /\ Chosen' = Chosen \cup {q}
      BY <1>1, <2>1, <2>2, PushEffect
    <2>4. Placed'
      BY <1>1, <2>1, <2>2, PushKeepsPlaces
    <2>5. PacedWherePossible'
      BY <1>1, <1>2, <1>3, <2>1, <2>2, PushKeepsPacing
    <2>6. InFront'
      <3>1. \A m, n \in 1..Len(selected') :
              m < n /\ selected'[n].clarification => selected'[m].clarification
        BY <2>3 DEF IInv, InFront, Places
      <3>2. (Eligible \cap clarify)' \subseteq Chosen'
        BY <1>1, <1>4, <2>3, InputKept DEF input
      <3> QED
        BY <1>1, <3>1, <3>2 DEF InFront, Places
    <2>7. Covered'
      <3>1. /\ \A n \in 1..Len(selected) : Filled(n)' <=> Filled(n)
            /\ \A r : Represented(r, Len(selected)) \/ category[r] = category[q]
                 => \E k \in 1..Len(selected') :
                        category[selected'[k].question] = category[r]
        BY <1>1, <2>1, <2>2, PushHistory
      <3>2. ASSUME NEW n, n = Len(selected) + 1
            PROVE  ~Filled(n)'
        <4>1. \A m \in 1..(n - 1) : m \in Places /\ selected'[m] = selected[m]
          BY <2>3, <3>2 DEF Places
        <4>2. category' = category /\ selected'[n].question = q
          BY <1>1, <2>3, <3>2 DEF input
        <4> QED
          BY <1>2, <1>3, <2>1, <4>1, <4>2 DEF Filled
      <3>3. \A n \in Places' : ~Filled(n)'
        <4> TAKE n \in Places'
        <4>1. n \in 1..Len(selected) \/ n = Len(selected) + 1
          BY <2>3 DEF Places
        <4> QED
          BY <1>3, <3>1, <3>2, <4>1 DEF Places
      <3>4. \A n \in Places' : ~selected'[n].clarification
                               => category'[selected'[n].question] \notin left'
        BY <1>1, <1>2, <1>3, <2>1, <2>3 DEF Places, input
      <3>5. \A r \in Countable : category[r] \notin left'
              => \E k \in 1..Len(selected') : category[selected'[k].question] = category[r]
        BY <1>2, <1>3, <2>1, <3>1
      <3>6. Countable' = Countable /\ category' = category
        BY <1>1, InputKept DEF input
      <3> QED
        BY <1>1, <3>3, <3>4, <3>5, <3>6 DEF Covered, Represented
    <2> QED
      BY <1>1, <2>4, <2>5, <2>6, <2>7 DEF IInv
  <1> QED
    BY <1>5, <1>6

\* The end of the coverage pass keeps the invariant.
LEMMA EndCoverageKeeps ==
    ASSUME IInv, EndCoverage
    PROVE  IInv'
  <1>1. /\ pass = "cover" /\ pass' = "fill" /\ UNCHANGED <<input, selected, left>>
        /\ Len(selected) >= Cap \/ left = {}
    BY DEF EndCoverage
  <1>2. Len(selected) \in Nat /\ Cap \in Nat /\ Len(selected) <= Cap
    BY CapTyped DEF IInv, TypeOK, Placed
  <1>3. TypeOK'
    BY StepTyped DEF IInv, Next
  <1>4. Placed' /\ PacedWherePossible'
    BY <1>1, KeptPlaces
  <1>5. InFront'
    BY <1>1, InputKept DEF IInv, InFront, Places, Chosen, input
  <1>6. Covered'
    <2>1. Len(selected) = Cap \/ \A q \in Countable : Represented(q, Len(selected))
      BY <1>1, <1>2 DEF IInv, Covered
    <2>2. \A n \in Places : ~Filled(n)
      BY <1>1 DEF IInv, Covered
    <2> QED
      BY <1>1, <2>1, <2>2, InputKept DEF Covered, Places, Filled, Represented, input
  <1> QED
    BY <1>3, <1>4, <1>5, <1>6 DEF IInv

\* The fill pass keeps the invariant.
LEMMA FillKeeps ==
    ASSUME IInv, FillMission
    PROVE  IInv'
  <1>1. /\ pass = "fill" /\ pass' = pass /\ left' = left /\ UNCHANGED input
        /\ Len(selected) < Cap /\ TypeOK /\ TypeOK'
    BY StepTyped DEF FillMission, IInv, Next
  <1>2. PICK q \in Remaining : /\ First(q, IF Paced # {} THEN Paced ELSE Remaining)
                               /\ Push(q, FALSE)
    BY DEF FillMission
  <1>3. q \in Countable /\ q \in Eligible \ Chosen /\ q \in Question
    BY <1>1 DEF Remaining, Countable, Eligible, TypeOK
  <1>4. /\ Len(selected) \in Nat
        /\ Len(selected') = Len(selected) + 1
        /\ \A n \in 1..Len(selected) : selected'[n] = selected[n]
        /\ selected'[Len(selected) + 1].clarification = FALSE
        /\ \A n \in 1..Len(selected') : n \in 1..Len(selected) \/ n = Len(selected) + 1
        /\ Chosen' = Chosen \cup {q}
    BY <1>1, <1>2, <1>3, PushEffect
  <1>5. Placed'
    BY <1>1, <1>2, <1>3, PushKeepsPlaces
  <1>6. InFront'
    <2>1. \A m, n \in 1..Len(selected') :
            m < n /\ selected'[n].clarification => selected'[m].clarification
      BY <1>4 DEF IInv, InFront, Places
    <2>2. (Eligible \cap clarify)' \subseteq Chosen'
      BY <1>1, <1>4, InputKept DEF IInv, InFront, input
    <2> QED
      BY <1>1, <2>1, <2>2 DEF InFront, Places
  <1>7. Covered'
    <2>1. \A r \in Countable : Represented(r, Len(selected))
      BY <1>1, CapTyped DEF IInv, Covered
    <2>2. /\ \A n \in 1..Len(selected) : Filled(n)' <=> Filled(n)
          /\ \A r, n : n \in 0..Len(selected) => (Represented(r, n)' <=> Represented(r, n))
          /\ \A r : Represented(r, Len(selected))
               => \E k \in 1..Len(selected') : category[selected'[k].question] = category[r]
      BY <1>1, <1>2, <1>3, PushHistory
    <2>3. Countable' = Countable /\ category' = category
      BY <1>1, InputKept DEF input
    <2>4. \A r \in Countable' :
            \E k \in 1..Len(selected') : category'[selected'[k].question] = category'[r]
      BY <2>1, <2>2, <2>3
    <2>5. ASSUME NEW n \in Places', Filled(n)', NEW r \in Countable'
          PROVE  Represented(r, n - 1)'
      <3>1. CASE n \in 1..Len(selected)
        <4>1. Represented(r, n - 1)
          BY <2>2, <2>3, <2>5, <3>1 DEF IInv, Covered, Places
        <4>2. n - 1 \in 0..Len(selected)
          BY <1>4, <3>1
        <4> QED
          BY <2>2, <4>1, <4>2
      <3>2. CASE n = Len(selected) + 1
        <4>1. n - 1 = Len(selected) /\ n - 1 \in 0..Len(selected)
          BY <1>4, <3>2
        <4> QED
          BY <2>1, <2>2, <2>3, <2>5, <4>1
      <3> QED
        BY <1>4, <2>5, <3>1, <3>2 DEF Places
    <2>6. \A n \in Places' : Filled(n)' => \A r \in Countable' : Represented(r, n - 1)'
      BY <2>5
    <2> QED
      BY <1>1, <2>4, <2>6 DEF Covered, Represented
  <1>8. PacedWherePossible'
    <2>1. ASSUME Remaining \ (heavy \cup hard) # {}, selected # << >>
          PROVE  /\ ~(selected[Len(selected)].question \in heavy /\ q \in heavy)
                 /\ ~(selected[Len(selected)].question \in hard /\ q \in hard)
      <3>1. PICK r \in Remaining : r \notin heavy /\ r \notin hard
        BY <2>1
      <3>2. r \in Paced
        BY <3>1 DEF Paced, TooHeavy, TooHard
      <3>3. ~TooHeavy(q) /\ ~TooHard(q)
        BY <1>2, <3>2 DEF First, Paced
      <3> QED
        BY <2>1, <3>1, <3>3 DEF TooHeavy, TooHard, Previous
    <2> QED
      BY <1>1, <1>2, <1>3, <2>1, PushKeepsPacing
  <1> QED
    BY <1>1, <1>5, <1>6, <1>7, <1>8 DEF IInv

\* The end of the selection keeps the invariant.
LEMMA EndSelectionKeeps ==
    ASSUME IInv, EndSelection
    PROVE  IInv'
  <1>1. /\ pass = "fill" /\ pass' = "done" /\ UNCHANGED <<input, selected, left>>
        /\ Len(selected) >= Cap \/ Remaining = {}
    BY DEF EndSelection
  <1>2. Len(selected) \in Nat /\ Cap \in Nat /\ Len(selected) <= Cap
    BY CapTyped DEF IInv, TypeOK, Placed
  <1>3. Ended
    <2>1. CASE Remaining = {} /\ Countable \cap twice = {}
      <3>1. Countable \in SUBSET Chosen
        BY <2>1 DEF Remaining
      <3>2. Cardinality(Countable) <= Cardinality(Chosen)
        BY <3>1, FS_Subset DEF IInv, Placed
      <3>3. Cardinality(Chosen) = Len(selected)
        BY DEF IInv, Placed
      <3> QED
        BY <1>2, <2>1, <3>2, <3>3, CapTyped DEF IInv, Ended
    <2>2. CASE Remaining = {} /\ Countable \cap twice # {}
      BY <2>2 DEF Remaining, Ended
    <2> QED
      BY <1>1, <1>2, <2>1, <2>2 DEF Ended
  <1>4. TypeOK'
    BY StepTyped DEF IInv, Next
  <1>5. Placed' /\ PacedWherePossible'
    BY <1>1, <1>3, KeptPlaces
  <1>6. InFront'
    BY <1>1, InputKept DEF IInv, InFront, Places, Chosen, input
  <1>7. Covered'
    BY <1>1, InputKept DEF IInv, Covered, Places, Filled, Represented, input
  <1> QED
    BY <1>4, <1>5, <1>6, <1>7 DEF IInv

\* The invariant holds initially.
LEMMA InitIInv == Init => IInv
  <1> SUFFICES ASSUME Init PROVE IInv
    OBVIOUS
  <1>1. TypeOK
    BY DEF Init, Input, Start, TypeOK
  <1>2. Len(selected) = 0 /\ Chosen = {} /\ Places = {}
    BY DEF Init, Start, Chosen, Places
  <1>3. Placed
    BY <1>1, <1>2, CapTyped, FS_EmptySet DEF Init, Start, Placed
  <1>4. InFront /\ Covered
    BY <1>2 DEF Init, Start, InFront, Covered
  <1>5. PacedWherePossible
    BY <1>2 DEF PacedWherePossible
  <1> QED
    BY <1>1, <1>3, <1>4, <1>5 DEF IInv

\* Every step keeps the invariant.
LEMMA NextIInv == IInv /\ [Next]_vars => IInv'
  <1> SUFFICES ASSUME IInv, [Next]_vars PROVE IInv'
    OBVIOUS
  <1>1. CASE UNCHANGED vars
    <2>1. /\ UNCHANGED <<input, selected>> /\ pass' = pass /\ left' = left
          /\ TypeOK' /\ (pass' = "done" => Ended)
      BY <1>1, StepTyped DEF vars, IInv, Placed
    <2>2. Placed' /\ PacedWherePossible'
      BY <2>1, KeptPlaces
    <2>3. InFront' /\ Covered'
      BY <2>1, InputKept
      DEF IInv, InFront, Covered, Places, Chosen, Filled, Represented, input
    <2> QED
      BY <1>1, <2>2, <2>3, StepTyped DEF IInv
  <1> QED
    BY <1>1, ClarificationKeeps, EndClarificationsKeeps, CoverKeeps, EndCoverageKeeps,
       FillKeeps, EndSelectionKeeps DEF Next

\* The invariant holds in every reachable state.
LEMMA Invariance == Spec => []IInv
  BY InitIInv, NextIInv, PTL DEF Spec

----------------------------------------------------------------------------
(* Theorems.                                                               *)

\* A selection is a sequence of slots over the questions that were given
\* (selectMissionQuestions).
THEOREM TypeCorrect == Spec => []TypeOK
  <1>1. IInv => TypeOK
    BY DEF IInv
  <1> QED
    BY <1>1, Invariance, PTL

\* Whatever content, rules and answers are given, the mission has distinct open
\* questions, as many as size, allowance and content allow.
THEOREM FullSafety == Spec => []SelectionIsFull
  <1>1. IInv => SelectionIsFull
    <2> SUFFICES ASSUME IInv PROVE SelectionIsFull
      OBVIOUS
    <2>1. \A q \in Chosen : /\ q \in offered \ (Answered \ clarify)
                            /\ q \in counted => q \in clarify
                            /\ Opened(q)
      BY DEF IInv, Placed, Places, Chosen, Countable, Eligible, BranchEligible, Matched, Opened
    <2>2. Len(selected) \in Nat /\ allowance \in Nat
      BY SelectionAssumption DEF IInv, TypeOK
    <2> QED
      BY <2>1, <2>2, CapTyped DEF IInv, Placed, Ended, Places, SelectionIsFull, Least
  <1> QED
    BY <1>1, Invariance, PTL

\* Clarifications stand in front, and no category comes twice while another
\* with open questions is missing.
THEOREM OrderSafety == Spec => []OrderIsKept
  <1>1. IInv => OrderIsKept
    BY DEF IInv, InFront, Covered, Places, Filled, Represented, OrderIsKept
  <1> QED
    BY <1>1, Invariance, PTL

\* The fill pass never puts two heavy or two hard questions together while it
\* has one that is light and easy.
THEOREM PacingSafety == Spec => []PacedWherePossible
  <1>1. IInv => PacedWherePossible
    BY DEF IInv
  <1> QED
    BY <1>1, Invariance, PTL

----------------------------------------------------------------------------
(* What the mission engine takes from a selection.                         *)

\* A slot counts against the day unless its question was counted already.
CountedOnce == \A n \in Places : selected[n].counts <=> selected[n].question \notin counted

\* With no clarification request open, a selection is a set of questions the
\* client has neither answered nor been counted today, no more than the size
\* asked for and than the allowance, and every one of them counts: it is one
\* of the sets MissionEngine's SelectQuestions chooses among.
SelectionIsAdmissible ==
    clarify = {} => /\ Chosen \subseteq Question \ (Answered \cup counted)
                    /\ Cardinality(Chosen) <= RequestedSize
                    /\ Cardinality(Chosen) <= allowance
                    /\ \A n \in Places : selected[n].counts

\* A push marks a slot as counting exactly for a question not counted today.
LEMMA CountedOnceStep == TypeOK /\ CountedOnce /\ [Next]_vars => CountedOnce'
  <1> SUFFICES ASSUME TypeOK, CountedOnce, [Next]_vars PROVE CountedOnce'
    OBVIOUS
  <1>1. CASE UNCHANGED <<selected, counted>>
    BY <1>1 DEF CountedOnce, Places
  <1>2. ASSUME NEW q \in Question, NEW c \in BOOLEAN, Push(q, c), UNCHANGED input
        PROVE  CountedOnce'
    <2> DEFINE s == [question |-> q, clarification |-> c, counts |-> q \notin counted]
    <2>1. s \in Slot /\ selected \in Seq(Slot) /\ selected' = Append(selected, s)
      BY <1>2 DEF Slot, TypeOK, Push
    <2>2. s.question = q /\ (s.counts <=> q \notin counted) /\ counted' = counted
      BY <1>2 DEF input
    <2> HIDE DEF s
    <2>3. /\ Len(selected) \in Nat
          /\ Len(selected') = Len(selected) + 1
          /\ \A n \in 1..Len(selected) : selected'[n] = selected[n]
          /\ selected'[Len(selected) + 1] = s
      BY <2>1, AppendProperties
    <2>4. \A n \in 1..Len(selected') : n \in 1..Len(selected) \/ n = Len(selected) + 1
      BY <2>3
    <2> QED
      BY <2>2, <2>3, <2>4 DEF CountedOnce, Places
  <1>3. Eligible \subseteq Question /\ Clarifying \subseteq Question /\ Remaining \subseteq Question
    BY DEF TypeOK, Eligible, Clarifying, Remaining, Countable
  <1>4. CASE PushClarification
    BY <1>2, <1>3, <1>4 DEF PushClarification
  <1>5. CASE CoverCategory
    <2>1. CASE UNCHANGED selected
      BY <1>1, <1>5, <2>1 DEF CoverCategory, input
    <2>2. CASE \E q \in Remaining : Push(q, FALSE)
      BY <1>2, <1>3, <1>5, <2>2 DEF CoverCategory
    <2> QED
      BY <1>5, <2>1, <2>2 DEF CoverCategory
  <1>6. CASE FillMission
    BY <1>2, <1>3, <1>6 DEF FillMission
  <1>7. CASE EndClarifications \/ EndCoverage \/ EndSelection \/ UNCHANGED vars
    BY <1>1, <1>7 DEF EndClarifications, EndCoverage, EndSelection, vars, input
  <1> QED
    BY <1>4, <1>5, <1>6, <1>7 DEF Next

\* The mission engine chooses among all such selections, so what is proved of
\* it holds of the missions this algorithm fills (getOrCreateMission hands it
\* the answers and the ledger of the client).
THEOREM AdmissibleSafety == Spec => []SelectionIsAdmissible
  <1>1. Init => CountedOnce
    BY DEF Init, Start, CountedOnce, Places
  <1>2. IInv /\ CountedOnce /\ [Next]_vars => CountedOnce'
    BY CountedOnceStep DEF IInv
  <1>3. IInv /\ CountedOnce => SelectionIsAdmissible
    <2> SUFFICES ASSUME IInv, CountedOnce, clarify = {} PROVE
                   /\ Chosen \subseteq Question \ (Answered \cup counted)
                   /\ Cardinality(Chosen) <= RequestedSize
                   /\ Cardinality(Chosen) <= allowance
                   /\ \A n \in Places : selected[n].counts
      BY DEF SelectionIsAdmissible
    <2>1. \A n \in Places : /\ selected[n].question \in Countable
                            /\ selected[n].question \notin Answered
      BY DEF IInv, Placed, Eligible, Countable
    <2>2. Chosen \subseteq Question \ (Answered \cup counted)
      BY <2>1 DEF Chosen, Places, Countable, Eligible, IInv, TypeOK
    <2>3. \A n \in Places : selected[n].counts
      BY <2>1 DEF CountedOnce, Countable
    <2>4. Cardinality(Chosen) = Len(selected) /\ Len(selected) <= Cap /\ Len(selected) \in Nat
      BY DEF IInv, Placed, TypeOK
    <2>5. allowance \in Nat
      BY SelectionAssumption DEF IInv, TypeOK
    <2> QED
      BY <2>2, <2>3, <2>4, <2>5, CapTyped DEF IInv, Least
  <1> QED
    BY <1>1, <1>2, <1>3, Invariance, PTL DEF Spec
=============================================================================
