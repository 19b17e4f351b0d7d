SPECIFICATION Spec
CONSTANTS
    a = a  b = b  q1 = q1  q2 = q2  q3 = q3  q4 = q4  yes = yes  no = no
    west = west  east = east  lens = lens  clock = clock
    Request = {a, b}
    Question = {q1, q2, q3, q4}
    Value = {yes, no}
    Zone = {west, east}
    HomeZone = west
    LastDate = 2
    Size = {1, 2}
    DailyCap = 2
    RewardSize = 2
    Reward = {lens, clock}
    UnlockAt <- MCUnlockAt
SYMMETRY MCSymmetry
CONSTRAINT EditsOrDays
INVARIANTS
    TypeOK CurrentIsNewest AnswersAreDistinct CompletionIsWhole ProgressIsEarned
    DailyCapHolds OneActive AnsweredAloneComplete ProfileIsCurrent
PROPERTY ImplementsJournal
