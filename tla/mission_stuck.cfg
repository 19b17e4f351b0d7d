SPECIFICATION Spec
CONSTANTS
    a = a  b = b  q1 = q1  q2 = q2  q3 = q3  q4 = q4  yes = yes  no = no
    west = west  east = east  lens = lens  clock = clock
    Request = {a, b}
    Question = {q1, q2}
    Value = {yes}
    Zone = {west}
    HomeZone = west
    LastDate = 1
    Size = {2}
    DailyCap = 2
    RewardSize = 2
    Reward = {lens, clock}
    UnlockAt <- MCUnlockAt
SYMMETRY MCSymmetry
INVARIANT AnsweredMissionsComplete
