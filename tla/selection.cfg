SPECIFICATION MCSpec
CONSTANTS
    yes = yes  no = no  null = null
    Question = {1, 2, 3, 4}
    Category = {1, 2}
    Answer = {yes, no, 1, 2}
    Number = {1, 2}
    Null = null
    Rule <- MCRule
    MaxAllowance = 12
\* A selection ends.
CHECK_DEADLOCK FALSE
INVARIANTS SelectionIsFull OrderIsKept PacedWherePossible
