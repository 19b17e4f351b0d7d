SPECIFICATION Spec
CONSTANTS
    a = a  b = b  q1 = q1  q2 = q2  q3 = q3  q4 = q4  yes = yes  no = no
    west = west  east = east  lens = lens  clock = clock
    Request = {a}
    Question = {1, 2, 3, 4, 5, 6, 7, 8, 9, 10, 11, 12}
    Value = {yes}
    Zone = {west}
    HomeZone = west
    LastDate = 1
    Size = {3, 5, 12}
    DailyCap = 12
    RewardSize = 5
    Reward = {lens, clock}
    UnlockAt <- MCUnlockAt
INVARIANT NoEleventhQuestion
