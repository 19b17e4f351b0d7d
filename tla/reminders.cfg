SPECIFICATION MCSpec
CONSTANTS
    c1 = c1  c2 = c2  e1 = e1  e2 = e2  t1 = t1  t2 = t2  s1 = s1  s2 = s2
    west = west  east = east  NoClient = NoClient
    Client = {c1, c2}
    Endpoint = {e1, e2}
    Tab = {t1, t2}
    Scheduler = {s1, s2}
    Zone = {west, east}
    OffsetBefore <- MCBefore
    OffsetAfter <- MCAfter
    Transition <- MCTransition
    DayLength = 9
    QuietStart = 8
    QuietEnd = 1
    CatchUp = 1
    Lookahead = 1
    ReminderTimes = {3, 4}
    BatchSize = 2
    LastDate = 1
    MaxNow = 8
    MaxRequests = 2
    MaxFaults = 1
INVARIANTS TypeOK EventIffPlanned SettingsAgree
PROPERTIES OneReminderADay ReachedIsWanted EveryDateIsDecided
