--------------------------- MODULE RemindersProofs ---------------------------
(***************************************************************************)
(* Proofs about Reminders.  The settings are typed and agree by themselves *)
(* (nothing else writes them); the occurrences and their events follow.    *)
(***************************************************************************)
EXTENDS Reminders, SequenceTheorems, TLAPS

\* What a disabling request will revoke covers what its client has.
RevokesAll ==
    \A t \in Tab : tab[t].pc = "revoking" => Devices(tab[t].client) \subseteq tab[t].devices

SInv == SettingsTypeOK /\ SettingsAgree /\ RevokesAll

svars == <<now, settings, tab, requests>>

----------------------------------------------------------------------------
(* Local time.                                                             *)

\* What the wall clock shows is an integer.
LEMMA WallType ==
    ASSUME NEW t \in Int, NEW z \in Zone
    PROVE  Wall(t, z) \in Int
  BY LocalTimeAssumption DEF Wall

\* A resolved time is an integer.
LEMMA ResolveType ==
    ASSUME NEW d \in Int, NEW p \in Int, NEW z \in Zone
    PROVE  Resolve(d, p, z) \in Int
  BY LocalTimeAssumption DEF Resolve

\* A time is resolved with one of the zone's two offsets.
LEMMA ResolveOffset ==
    ASSUME NEW d \in Int, NEW p \in Int, NEW z \in Zone
    PROVE  \E a \in {OffsetBefore[z], OffsetAfter[z]} :
             Resolve(d, p, z) = (d * DayLength + p) - a
  <1>1. PICK wall : wall = d * DayLength + p
    OBVIOUS
  <1>2. Resolve(d, p, z) =
          IF wall - OffsetBefore[z] >= Transition[z] /\ wall - OffsetAfter[z] >= Transition[z]
          THEN wall - OffsetAfter[z] ELSE wall - OffsetBefore[z]
    BY <1>1, Zenon DEF Resolve
  <1>3. \E a \in {OffsetBefore[z], OffsetAfter[z]} : Resolve(d, p, z) = wall - a
    BY <1>2
  <1> QED
    BY <1>1, <1>3, Zenon

\* The bounds of a window are integers.
LEMMA WindowType ==
    ASSUME NEW d \in Int, NEW p \in Int, NEW z \in Zone
    PROVE  /\ Window(d, p, z).at \in Int
           /\ Window(d, p, z).until \in Int
  <1>1. Resolve(d, p, z) \in Int /\ Resolve(d + 1, 0, z) \in Int
    BY ResolveType
  <1> QED
    BY <1>1, LocalTimeAssumption DEF Window

\* Division by a variable, as the solver knows it.
LEMMA DivMod ==
    ASSUME NEW x \in Int, NEW y \in Nat \ {0}
    PROVE  /\ x = y * (x \div y) + (x % y)
           /\ x % y \in 0..(y - 1)
           /\ x \div y \in Int
  OBVIOUS

\* Different multiples are at least one divisor apart.
LEMMA Multiples ==
    ASSUME NEW y \in Nat, NEW d \in Int, NEW e \in Int
    PROVE  /\ d * y \in Int /\ e * y \in Int
           /\ d < e => d * y + y <= e * y
           /\ (d + 1) * y = d * y + y
  <1>1. d * y \in Int /\ e * y \in Int /\ (d + 1) * y = d * y + y
    OBVIOUS
  <1>2. ASSUME d < e PROVE d * y + y <= e * y
    <2>1. 0 <= (e - d - 1) * y
      BY <1>2
    <2>2. (e - d - 1) * y = e * y - d * y - y
      OBVIOUS
    <2> QED
      BY <1>1, <2>1, <2>2
  <1> QED
    BY <1>1, <1>2

\* The date of a reading of the wall clock.
LEMMA DateOfReading ==
    ASSUME NEW x \in Int, NEW d \in Int, d * DayLength <= x, x < d * DayLength + DayLength
    PROVE  x \div DayLength = d
  <1>1. PICK e \in Int : e = x \div DayLength
    BY DivMod, LocalTimeAssumption
  <1>2. DayLength \in Nat /\ e * DayLength <= x /\ x < e * DayLength + DayLength
    BY <1>1, DivMod, LocalTimeAssumption
  <1>3. ~(e < d) /\ ~(d < e)
    BY <1>2, Multiples
  <1> QED
    BY <1>1, <1>3

\* Reading an instant off the wall clock and resolving the date and the time
\* again gives the first instant with that reading: the same instant, unless
\* the clock went back and repeats the reading
\* (resolveScheduledInstantForLocalDate).
THEOREM ResolveIsFirst ==
    ASSUME NEW t \in Int, NEW z \in Zone
    PROVE  LET r == Resolve(LocalDate(t, z), LocalTimeAt(t, z), z)
           IN  /\ r <= t
               /\ Wall(r, z) = Wall(t, z)
               /\ \A u \in Int : Wall(u, z) = Wall(t, z) => r <= u
  <1>1. /\ OffsetBefore[z] \in Nat /\ OffsetAfter[z] \in Nat /\ Transition[z] \in Nat
        /\ DayLength \in Nat \ {0}
    BY LocalTimeAssumption
  <1>2. PICK w \in Int : w = Wall(t, z)
    BY WallType
  <1>3. LocalDate(t, z) * DayLength + LocalTimeAt(t, z) = w
    <2>1. w = DayLength * (w \div DayLength) + (w % DayLength) /\ w \div DayLength \in Int
      BY <1>1, DivMod
    <2>2. DayLength * (w \div DayLength) = (w \div DayLength) * DayLength
      BY <1>1, <2>1
    <2> QED
      BY <1>2, <2>1, <2>2 DEF LocalDate, LocalTimeAt
  <1>4. PICK r : r = Resolve(LocalDate(t, z), LocalTimeAt(t, z), z)
    OBVIOUS
  <1>5. r = IF w - OffsetBefore[z] >= Transition[z] /\ w - OffsetAfter[z] >= Transition[z]
            THEN w - OffsetAfter[z] ELSE w - OffsetBefore[z]
    BY <1>3, <1>4, Zenon DEF Resolve
  <1>6. r \in Int
    BY <1>1, <1>5
  <1>7. r <= t /\ Wall(r, z) = w
    BY <1>1, <1>2, <1>5, <1>6 DEF Wall
  <1>8. ASSUME NEW u \in Int, Wall(u, z) = w PROVE r <= u
    BY <1>1, <1>2, <1>5, <1>6, <1>8 DEF Wall
  <1> QED
    BY <1>2, <1>4, <1>7, <1>8

\* A time that a zone skips is moved on by the length of the gap: the clock
\* shows it that much later (resolveScheduledInstantForLocalDate).
THEOREM SkippedMovesOn ==
    ASSUME NEW d \in Int, NEW p \in Int, NEW z \in Zone,
           \A t \in Int : Wall(t, z) # d * DayLength + p
    PROVE  /\ OffsetBefore[z] < OffsetAfter[z]
           /\ Wall(Resolve(d, p, z), z)
                = d * DayLength + p + (OffsetAfter[z] - OffsetBefore[z])
  <1>1. /\ OffsetBefore[z] \in Nat /\ OffsetAfter[z] \in Nat /\ Transition[z] \in Nat
        /\ DayLength \in Nat
    BY LocalTimeAssumption
  <1>2. PICK w \in Int : w = d * DayLength + p
    BY <1>1
  <1>3. /\ w - OffsetBefore[z] >= Transition[z]
        /\ w - OffsetAfter[z] < Transition[z]
    <2>1. Wall(w - OffsetBefore[z], z) # w /\ Wall(w - OffsetAfter[z], z) # w
      BY <1>1, <1>2
    <2> QED
      BY <1>1, <2>1 DEF Wall
  <1>4. Resolve(d, p, z) = IF /\ w - OffsetBefore[z] >= Transition[z]
                              /\ w - OffsetAfter[z] >= Transition[z]
                           THEN w - OffsetAfter[z] ELSE w - OffsetBefore[z]
    BY <1>2, Zenon DEF Resolve
  <1>5. Resolve(d, p, z) = w - OffsetBefore[z]
    BY <1>1, <1>3, <1>4
  <1>6. Wall(w - OffsetBefore[z], z) = w + (OffsetAfter[z] - OffsetBefore[z])
    BY <1>1, <1>3 DEF Wall
  <1> QED
    BY <1>1, <1>2, <1>3, <1>5, <1>6

\* A clock changes within a date: it may begin or end the change at midnight, and
\* go back to the end of the date before, but it does not jump across midnight.
MidnightsAreWhole ==
    \A z \in Zone : \E e \in Int :
        \A a \in {OffsetBefore[z], OffsetAfter[z]} :
            /\ e * DayLength <= Transition[z] + a
            /\ Transition[z] + a <= e * DayLength + DayLength

\* A reminder is never due on another local date than its own, even on the day
\* the clock changes: not before midnight for a time that was moved on, nor
\* after the next one for a late one (deriveReminderWindow).
THEOREM WindowOnItsDate ==
    ASSUME MidnightsAreWhole, NEW d \in Int, NEW p \in LocalTimes, NEW z \in Zone,
           NEW t \in Int, Window(d, p, z).at <= t, t < Window(d, p, z).until
    PROVE  LocalDate(t, z) = d
  <1>1. /\ OffsetBefore[z] \in Nat /\ OffsetAfter[z] \in Nat /\ Transition[z] \in Nat
        /\ DayLength \in Nat \ {0} /\ CatchUp \in Nat /\ p \in Int
        /\ 0 <= p /\ p < DayLength
    BY LocalTimeAssumption DEF LocalTimes
  <1>2. PICK e \in Int :
          /\ e * DayLength <= Transition[z] + OffsetBefore[z]
          /\ Transition[z] + OffsetBefore[z] <= e * DayLength + DayLength
          /\ e * DayLength <= Transition[z] + OffsetAfter[z]
          /\ Transition[z] + OffsetAfter[z] <= e * DayLength + DayLength
    BY DEF MidnightsAreWhole
  <1>3. PICK m \in Int : m = d * DayLength
    BY <1>1
  <1>4. PICK n \in Int : n = e * DayLength
    BY <1>1
  <1>5. n + DayLength <= m \/ n = m \/ m + DayLength <= n
    <2>1. e < d \/ e = d \/ d < e
      BY <1>2
    <2> QED
      BY <1>1, <1>2, <1>3, <1>4, <2>1, Multiples
  <1>6. Resolve(d, p, z)
          = IF /\ (m + p) - OffsetBefore[z] >= Transition[z]
               /\ (m + p) - OffsetAfter[z] >= Transition[z]
            THEN (m + p) - OffsetAfter[z] ELSE (m + p) - OffsetBefore[z]
    BY <1>3, Zenon DEF Resolve
  <1>7. Resolve(d + 1, 0, z)
          = IF /\ (m + DayLength) - OffsetBefore[z] >= Transition[z]
               /\ (m + DayLength) - OffsetAfter[z] >= Transition[z]
            THEN (m + DayLength) - OffsetAfter[z] ELSE (m + DayLength) - OffsetBefore[z]
    <2>1. (d + 1) * DayLength + 0 = m + DayLength
      BY <1>1, <1>3, Multiples
    <2> QED
      BY <2>1, Zenon DEF Resolve
  <1>8. Resolve(d, p, z) <= t /\ t < Resolve(d + 1, 0, z)
    <2>1. Resolve(d, p, z) \in Int /\ Resolve(d + 1, 0, z) \in Int
      BY <1>1, ResolveType
    <2> QED
      BY <1>1, <2>1 DEF Window
  <1>9. m <= Wall(t, z) /\ Wall(t, z) < m + DayLength
    BY <1>1, <1>2, <1>3, <1>4, <1>5, <1>6, <1>7, <1>8 DEF Wall
  <1> QED
    BY <1>1, <1>3, <1>9, WallType, DateOfReading DEF LocalDate

----------------------------------------------------------------------------
(* The queue of preferences.                                               *)

\* Dropping a client from the queue gives a queue.
LEMMA WithoutType ==
    ASSUME NEW S, queue \in Seq(S), NEW c
    PROVE  Without(c) \in Seq(S)
  <1>1. CASE \E i \in DOMAIN queue : queue[i] = c
    <2> DEFINE place == CHOOSE i \in DOMAIN queue : queue[i] = c
    <2>1. place \in 1..Len(queue)
      BY <1>1
    <2> HIDE DEF place
    <2>2. SubSeq(queue, 1, place - 1) \in Seq(S)
      BY <2>1, SubSeqProperties
    <2>3. SubSeq(queue, place + 1, Len(queue)) \in Seq(S)
      BY <2>1, SubSeqProperties
    <2> QED
      BY <1>1, <2>2, <2>3 DEF Without, place, RemoveAt
  <1>2. CASE ~\E i \in DOMAIN queue : queue[i] = c
    BY <1>2 DEF Without
  <1> QED
    BY <1>1, <1>2

----------------------------------------------------------------------------
(* The settings.                                                           *)

\* The settings agree initially.
LEMMA SettingsStart == ASSUME SettingsInit PROVE SInv
  <1>1. 0 \in LocalTimes /\ QuietEnd \in LocalTimes
    BY LocalTimeAssumption DEF LocalTimes
  <1>2. SettingsTypeOK
    BY <1>1, PreferencesAssumption
    DEF SettingsInit, SettingsTypeOK, Preference, Request, Idle
  <1>3. SettingsAgree /\ RevokesAll
    BY PreferencesAssumption
    DEF SettingsInit, SettingsAgree, RevokesAll, Devices, Idle
  <1> QED
    BY <1>2, <1>3 DEF SInv

\* A step that leaves the settings alone keeps what holds of them.
LEMMA SettingsKept == ASSUME SInv, UNCHANGED svars PROVE SInv'
  BY DEF SInv, svars, settings, SettingsTypeOK, SettingsAgree, RevokesAll, Devices

\* Every step of the settings keeps their types.
LEMMA SettingsTyped ==
    ASSUME SettingsTypeOK, SettingsStep
    PROVE  SettingsTypeOK'
  <1> USE DEF settings, Counted
  <1>1. ASSUME NEW t \in Tab, NEW c \in Client, NEW e \in Endpoint,
               NEW p \in ReminderTimes, StartEnable(t, c, e, p)
        PROVE  SettingsTypeOK'
    BY <1>1, PreferencesAssumption DEF StartEnable, SettingsTypeOK, Request
  <1>2. ASSUME NEW t \in Tab, CommitEnable(t)
        PROVE  SettingsTypeOK'
    <2>1. /\ tab[t].client \in Client /\ tab[t].endpoint \in Endpoint
          /\ tab[t].time \in LocalTimes /\ tab[t].since \in 0..MaxNow
      BY <1>2 DEF CommitEnable, SettingsTypeOK, Request, Idle
    <2>2. queue' \in Seq(Client)
      BY <1>2, <2>1, WithoutType DEF CommitEnable, SettingsTypeOK
    <2>3. pref' \in [Client -> Preference]
      <3>1. PICK moment \in tab[t].since..now :
              pref' = [pref EXCEPT ![tab[t].client] =
                         [enabled |-> TRUE, time |-> tab[t].time, enabledAt |-> moment]]
        BY <1>2 DEF CommitEnable
      <3>2. moment \in 0..MaxNow
        BY <2>1, <3>1, PreferencesAssumption DEF SettingsTypeOK
      <3> QED
        BY <2>1, <3>1, <3>2 DEF SettingsTypeOK, Preference
    <2>4. tab' \in [Tab -> Request]
      BY <1>2 DEF CommitEnable, SettingsTypeOK, Request
    <2> QED
      BY <1>2, <2>1, <2>2, <2>3, <2>4 DEF CommitEnable, SettingsTypeOK
  <1>3. ASSUME NEW t \in Tab, NEW c \in Client, StartDisable(t, c)
        PROVE  SettingsTypeOK'
    BY <1>3, PreferencesAssumption DEF StartDisable, SettingsTypeOK, Request
  <1>4. ASSUME NEW t \in Tab, RevokeDevices(t)
        PROVE  SettingsTypeOK'
    <2>1. tab[t].client \in Client
      BY <1>4 DEF RevokeDevices, SettingsTypeOK, Request, Idle
    <2>2. Revoked(tab[t].client) \in SUBSET Endpoint
      BY DEF Revoked, Devices
    <2> QED
      BY <1>4, <2>1, <2>2 DEF RevokeDevices, SettingsTypeOK, Request
  <1>5. ASSUME NEW t \in Tab, CommitDisable(t)
        PROVE  SettingsTypeOK'
    <2>1. tab[t].client \in Client
      BY <1>5 DEF CommitDisable, SettingsTypeOK, Request, Idle
    <2>2. queue' \in Seq(Client)
      BY <1>5, <2>1, WithoutType DEF CommitDisable, SettingsTypeOK
    <2>3. pref' \in [Client -> Preference]
      BY <1>5, <2>1 DEF CommitDisable, SettingsTypeOK, Preference
    <2>4. tab' \in [Tab -> Request]
      BY <1>5 DEF CommitDisable, SettingsTypeOK, Request
    <2> QED
      BY <1>5, <2>1, <2>2, <2>3, <2>4 DEF CommitDisable, SettingsTypeOK
  <1>6. ASSUME NEW t \in Tab, RollBack(t)
        PROVE  SettingsTypeOK'
    BY <1>6 DEF RollBack, SettingsTypeOK, Request
  <1>7. ASSUME NEW e \in Endpoint, InvalidateDevice(e)
        PROVE  SettingsTypeOK'
    BY <1>7, PreferencesAssumption DEF InvalidateDevice, SettingsTypeOK
  <1> QED
    BY <1>1, <1>2, <1>3, <1>4, <1>5, <1>6, <1>7 DEF SettingsStep

\* Once a device is revoked or moved the client has fewer; only an enabling
\* request gives one, and it waits for those that disable.
LEMMA SettingsAgreeKept ==
    ASSUME SInv, SettingsStep
    PROVE  (SettingsAgree /\ RevokesAll)'
  <1> USE DEF settings, Counted, SInv
  <1>1. ASSUME NEW t \in Tab, NEW c \in Client, NEW e \in Endpoint,
               NEW p \in ReminderTimes, StartEnable(t, c, e, p)
        PROVE  (SettingsAgree /\ RevokesAll)'
    BY <1>1 DEF StartEnable, SettingsTypeOK, SettingsAgree, RevokesAll, Devices
  <1>2. ASSUME NEW t \in Tab, CommitEnable(t)
        PROVE  (SettingsAgree /\ RevokesAll)'
    <2> DEFINE c == tab[t].client
    <2>1. c \in Client /\ tab[t].endpoint \in Endpoint
      BY <1>2 DEF CommitEnable, SettingsTypeOK, Request, Idle
    <2>2. \A x \in Client \ {c} : Devices(x)' \subseteq Devices(x)
      BY <1>2, <2>1, PreferencesAssumption
      DEF CommitEnable, SettingsTypeOK, Devices
    <2>3. SettingsAgree'
      BY <1>2, <2>1, <2>2 DEF CommitEnable, SettingsTypeOK, SettingsAgree, Preference
    <2>4. ASSUME NEW u \in Tab, tab'[u].pc = "revoking"
          PROVE  {e \in Endpoint : sub'[e] = tab'[u].client} \subseteq tab'[u].devices
      <3>1. u # t /\ tab'[u] = tab[u]
        BY <1>2, <2>4 DEF CommitEnable, SettingsTypeOK, Idle
      <3>2. tab[u].client # c
        BY <1>2, <2>4, <3>1 DEF CommitEnable, PreferenceLocked
      <3>3. tab[u].client \in Client
        BY <2>4, <3>1 DEF SettingsTypeOK, Request, Idle
      <3> QED
        BY <2>2, <2>4, <3>1, <3>2, <3>3 DEF RevokesAll, Devices
    <2> QED
      BY <2>3, <2>4 DEF RevokesAll, Devices
  <1>3. ASSUME NEW t \in Tab, NEW c \in Client, StartDisable(t, c)
        PROVE  (SettingsAgree /\ RevokesAll)'
    BY <1>3 DEF StartDisable, SettingsTypeOK, SettingsAgree, RevokesAll, Devices
  <1>4. ASSUME NEW t \in Tab, RevokeDevices(t)
        PROVE  (SettingsAgree /\ RevokesAll)'
    BY <1>4
    DEF RevokeDevices, SettingsTypeOK, SettingsAgree, RevokesAll, Devices, Revoked
  <1>5. ASSUME NEW t \in Tab, CommitDisable(t)
        PROVE  (SettingsAgree /\ RevokesAll)'
    <2> DEFINE c == tab[t].client
    <2>1. c \in Client /\ tab[t].devices \subseteq Endpoint
      BY <1>5 DEF CommitDisable, SettingsTypeOK, Request, Idle
    <2>2. \A x \in Client : Devices(x)' \subseteq Devices(x)
      BY <1>5, PreferencesAssumption DEF CommitDisable, SettingsTypeOK, Devices
    <2>3. Devices(c) \subseteq tab[t].devices
      BY <1>5 DEF CommitDisable, RevokesAll
    <2>4. {e \in Endpoint : sub'[e] = c} = {}
      BY <1>5, <2>1, <2>3, PreferencesAssumption
      DEF CommitDisable, SettingsTypeOK, Devices
    <2>5. ~pref'[c].enabled /\ consent'[c] = "revoked"
      BY <1>5, <2>1 DEF CommitDisable, SettingsTypeOK, Preference
    <2>7. \A x \in Client \ {c} : pref'[x] = pref[x] /\ consent'[x] = consent[x]
      BY <1>5, <2>1 DEF CommitDisable, SettingsTypeOK
    <2>8. SettingsAgree'
      BY <2>1, <2>2, <2>4, <2>5, <2>7 DEF SettingsAgree, Devices
    <2>6. ASSUME NEW u \in Tab, tab'[u].pc = "revoking"
          PROVE  {e \in Endpoint : sub'[e] = tab'[u].client} \subseteq tab'[u].devices
      <3>1. tab'[u] = tab[u]
        BY <1>5, <2>6 DEF CommitDisable, SettingsTypeOK, Idle
      <3>2. tab[u].client \in Client
        BY <2>6, <3>1 DEF SettingsTypeOK, Request, Idle
      <3> QED
        BY <2>2, <2>6, <3>1, <3>2 DEF RevokesAll, Devices
    <2> QED
      BY <2>6, <2>8 DEF RevokesAll, Devices
  <1>6. ASSUME NEW t \in Tab, RollBack(t)
        PROVE  (SettingsAgree /\ RevokesAll)'
    BY <1>6
    DEF RollBack, SettingsTypeOK, SettingsAgree, RevokesAll, Devices, Idle
  <1>7. ASSUME NEW e \in Endpoint, InvalidateDevice(e)
        PROVE  (SettingsAgree /\ RevokesAll)'
    <2>1. \A x \in Client : Devices(x)' \subseteq Devices(x)
      BY <1>7, PreferencesAssumption DEF InvalidateDevice, SettingsTypeOK, Devices
    <2>2. SettingsAgree'
      BY <1>7, <2>1 DEF InvalidateDevice, SettingsAgree
    <2>3. ASSUME NEW u \in Tab, tab[u].pc = "revoking"
          PROVE  {x \in Endpoint : sub'[x] = tab[u].client} \subseteq tab[u].devices
      <3>1. tab[u].client \in Client
        BY <2>3 DEF SettingsTypeOK, Request, Idle
      <3> QED
        BY <2>1, <2>3, <3>1 DEF RevokesAll, Devices
    <2> QED
      BY <1>7, <2>2, <2>3 DEF InvalidateDevice, RevokesAll, Devices
  <1> QED
    BY <1>1, <1>2, <1>3, <1>4, <1>5, <1>6, <1>7 DEF SettingsStep

\* Every step of the settings keeps what holds of them.
LEMMA SettingsNext == ASSUME SInv, SettingsStep PROVE SInv'
  BY SettingsTyped, SettingsAgreeKept DEF SInv

\* The clock keeps what holds of the settings.
LEMMA SettingsTick == ASSUME SInv, Tick PROVE SInv'
  BY PreferencesAssumption
  DEF SInv, Tick, settings, SettingsTypeOK, SettingsAgree, RevokesAll, Devices

----------------------------------------------------------------------------
(* Occurrences, events and schedulers.                                     *)

RInv ==
    /\ zone \in [Client -> Zone]
    /\ finished \in SUBSET (Client \X Date)
    /\ occ \in [Client -> [Date -> Occurrence \cup {NoOccurrence}]]
    /\ delivery \in [Client -> [Date -> [stage : Stage, zone : Zone]]]
    /\ sched \in [Scheduler -> SchedulerState]
    /\ faults \in 0..MaxFaults
    /\ EventIffPlanned

IInv == SInv /\ RInv

\* What EventIffPlanned says of one occurrence and its delivery.
Agrees(stage, status) ==
    /\ stage = "event" <=> status = "PLANNED"
    /\ stage = "none" => status \in {"none", "SUPPRESSED", "EXPIRED"}
    /\ status = "none" => stage = "none"
    /\ stage \in {"closing", "closed"} => status \in {"SUPPRESSED", "EXPIRED"}

\* What the invariant says of one of them.
LEMMA RowAgrees ==
    ASSUME RInv, NEW c \in Client, NEW d \in Date
    PROVE  /\ Agrees(delivery[c][d].stage, occ[c][d].status)
           /\ delivery[c][d] \in [stage : Stage, zone : Zone]
           /\ occ[c][d] \in Occurrence \cup {NoOccurrence}
  BY DEF RInv, EventIffPlanned, Agrees

\* The rows of a batch are clients in some order.
LEMMA RowsTyped ==
    ASSUME SInv, RInv
    PROVE  BatchRows \in Seq(Row)
  <1>1. queue \in Seq(Client)
    BY DEF SInv, SettingsTypeOK
  <1>2. ASSUME NEW c \in Client PROVE RowOf(c) \in Row
    BY <1>2 DEF RowOf, Row, SInv, RInv, SettingsTypeOK, Preference
  <1>3. \A i \in 1..Len(queue) : RowOf(queue[i]) \in Row
    BY <1>1, <1>2
  <1> DEFINE n == IF Len(queue) < BatchSize THEN Len(queue) ELSE BatchSize
  <1>4. n \in Nat /\ n <= Len(queue)
    BY <1>1, RemindersAssumption
  <1> QED
    BY <1>3, <1>4 DEF BatchRows

\* A scheduler that goes on or ends keeps its type.
LEMMA BeginTyped ==
    ASSUME NEW rows \in Seq(Row)
    PROVE  Begin(rows) \in SchedulerState
  BY DEF Begin, Polling, SchedulerState, Rows

\* The preference that is handled and the rest of its batch have their types.
LEMMA HeadTyped ==
    ASSUME RInv, NEW s \in Scheduler, sched[s].pc \in {"batch", "decided"}
    PROVE  /\ sched[s].rows \in Rows
           /\ Head(sched[s].rows) \in Row
           /\ Tail(sched[s].rows) \in Seq(Row)
  <1>1. sched[s].rows \in Rows
    BY DEF RInv, SchedulerState
  <1> QED
    BY <1>1, HeadTailProperties DEF Rows

\* A decision is about a date and has its type.
LEMMA PlannedTyped ==
    ASSUME SInv, NEW r \in Row
    PROVE  Today(r) \in Date /\ Planned(r) \in Decision
  <1>1. now \in 0..MaxNow /\ r.zone \in Zone /\ r.time \in Int
    BY DEF SInv, SettingsTypeOK, Row, LocalTimes
  <1>2. Today(r) \in Date
    BY <1>1, RemindersAssumption DEF Today, Date
  <1>3. ReminderWindow(r).at \in Int /\ ReminderWindow(r).until \in Int
    BY <1>1, <1>2, WindowType DEF ReminderWindow, Date
  <1>4. DecidedStatus(r) \in {"PLANNED", "SUPPRESSED", "EXPIRED"}
    BY <1>1, <1>3 DEF DecidedStatus
  <1> QED
    BY <1>1, <1>2, <1>3, <1>4 DEF Planned, Decision

\* The environment changes neither occurrences nor events.
LEMMA WorldKeeps ==
    ASSUME RInv, UNCHANGED <<occ, delivery, sched, faults>>,
           zone' \in [Client -> Zone], finished' \in SUBSET (Client \X Date)
    PROVE  RInv'
  BY DEF RInv, EventIffPlanned

\* Neither a step of a scheduler between reads, nor a failing batch.
LEMMA SchedKeeps ==
    ASSUME RInv, NEW s \in Scheduler, NEW st \in SchedulerState,
           sched' = [sched EXCEPT ![s] = st], UNCHANGED <<world, occ, delivery>>,
           faults' \in 0..MaxFaults
    PROVE  RInv'
  BY DEF RInv, EventIffPlanned, world

\* A step of the worker changes one occurrence and its delivery, and keeps
\* the two in agreement.
LEMMA WorkerKeeps ==
    ASSUME RInv, NEW c \in Client, NEW d \in Date,
           NEW o \in Occurrence \cup {NoOccurrence},
           NEW v \in [stage : Stage, zone : Zone],
           occ' = [occ EXCEPT ![c][d] = o],
           delivery' = [delivery EXCEPT ![c][d] = v],
           zone' = zone, finished' = finished, faults' = faults,
           sched' \in [Scheduler -> SchedulerState],
           Agrees(v.stage, o.status)
    PROVE  RInv'
  <1>1. /\ occ' \in [Client -> [Date -> Occurrence \cup {NoOccurrence}]]
        /\ delivery' \in [Client -> [Date -> [stage : Stage, zone : Zone]]]
    BY DEF RInv
  <1>2. ASSUME NEW x \in Client, NEW y \in Date
        PROVE  Agrees(delivery'[x][y].stage, occ'[x][y].status)
    <2>1. CASE x = c /\ y = d
      BY <2>1 DEF RInv
    <2>2. CASE ~(x = c /\ y = d)
      <3>1. occ'[x][y] = occ[x][y] /\ delivery'[x][y] = delivery[x][y]
        BY <2>2 DEF RInv
      <3> QED
        BY <3>1, RowAgrees
    <2> QED
      BY <2>1, <2>2
  <1>3. EventIffPlanned'
    BY <1>2 DEF EventIffPlanned, Agrees
  <1> QED
    BY <1>1, <1>3 DEF RInv

\* The invariant holds initially.
LEMMA RemindersStart == Init => IInv
  <1> SUFFICES ASSUME Init PROVE IInv
    OBVIOUS
  <1>1. SInv
    BY SettingsStart DEF Init
  <1>2. RInv
    BY RemindersAssumption
    DEF Init, RInv, NoOccurrence, Stage, SchedulerState, Polling, Off, EventIffPlanned
  <1> QED
    BY <1>1, <1>2 DEF IInv

\* A scheduler's step keeps the invariant.
LEMMA SchedulerKeeps ==
    ASSUME IInv, NEW s \in Scheduler, SchedulerStep(s) \/ FailBatch(s)
    PROVE  RInv'
  <1> USE DEF IInv
  <1>1. CASE FetchPreferences(s)
    <2>1. Begin(BatchRows) \in SchedulerState
      BY RowsTyped, BeginTyped
    <2> QED
      BY <1>1, <2>1, SchedKeeps DEF FetchPreferences, RInv
  <1>2. CASE SkipPreference(s)
    <2>1. Begin(Tail(sched[s].rows)) \in SchedulerState
      BY <1>2, HeadTyped, BeginTyped DEF SkipPreference
    <2> QED
      BY <1>2, <2>1, SchedKeeps DEF SkipPreference, RInv
  <1>3. CASE DecideOccurrence(s)
    <2>1. sched[s].rows \in Rows /\ Head(sched[s].rows) \in Row
      BY <1>3, HeadTyped DEF DecideOccurrence
    <2>2. /\ Today(Head(sched[s].rows)) \in Date
          /\ Planned(Head(sched[s].rows)) \in Decision
      BY <2>1, PlannedTyped
    <2>3. [pc |-> "decided", rows |-> sched[s].rows,
           date |-> Today(Head(sched[s].rows)),
           plan |-> Planned(Head(sched[s].rows))] \in SchedulerState
      BY <2>1, <2>2 DEF SchedulerState
    <2> QED
      BY <1>3, <2>3, SchedKeeps DEF DecideOccurrence, RInv
  <1>4. CASE WriteOccurrence(s)
    <2>1. PICK c \in Client, d \in Date, p \in Decision :
            /\ c = Head(sched[s].rows).client
            /\ d = sched[s].date
            /\ p = sched[s].plan
      BY <1>4, HeadTyped DEF WriteOccurrence, RInv, SchedulerState, Row, Polling
    <2>2. Begin(Tail(sched[s].rows)) \in SchedulerState
      BY <1>4, HeadTyped, BeginTyped DEF WriteOccurrence
    <2>3. PICK o \in Occurrence \cup {NoOccurrence} : o = Stored(c, d, p)
      BY DEF Stored, RInv, Decision, Occurrence
    <2>4. /\ occ' = [occ EXCEPT ![c][d] = o]
          /\ delivery' = WithEvent(c, d, o)
          /\ sched' \in [Scheduler -> SchedulerState]
          /\ zone' = zone /\ finished' = finished /\ faults' = faults
      BY <1>4, <2>1, <2>2, <2>3 DEF WriteOccurrence, RInv, world
    <2>5. Agrees(delivery[c][d].stage, occ[c][d].status)
      BY RowAgrees
    <2>6. delivery[c][d] \in [stage : Stage, zone : Zone]
      BY RowAgrees
    <2>7. CASE o.status = "PLANNED" /\ delivery[c][d].stage = "none"
      <3>1. delivery' = [delivery EXCEPT ![c][d] = [delivery[c][d] EXCEPT !.stage = "event"]]
        BY <2>4, <2>7 DEF WithEvent, RInv
      <3>2. [delivery[c][d] EXCEPT !.stage = "event"] \in [stage : Stage, zone : Zone]
        BY <2>6 DEF Stage
      <3> QED
        BY <2>4, <2>6, <2>7, <3>1, <3>2, WorkerKeeps DEF Agrees
    <2>8. CASE ~(o.status = "PLANNED" /\ delivery[c][d].stage = "none")
      <3>1. delivery' = [delivery EXCEPT ![c][d] = delivery[c][d]]
        BY <2>4, <2>8 DEF WithEvent, RInv
      <3>2. Agrees(delivery[c][d].stage, o.status)
        BY <2>3, <2>5, <2>6, <2>8 DEF Agrees, Stored, NoOccurrence, Stage, Decision
      <3> QED
        BY <2>4, <2>6, <3>1, <3>2, WorkerKeeps
    <2> QED
      BY <2>7, <2>8
  <1>5. CASE FailBatch(s)
    <2>1. Polling \in SchedulerState
      BY DEF Polling, SchedulerState
    <2>2. faults' \in 0..MaxFaults
      BY <1>5, RemindersAssumption DEF FailBatch, RInv
    <2> QED
      BY <1>5, <2>1, <2>2, SchedKeeps DEF FailBatch
  <1> QED
    BY <1>1, <1>2, <1>3, <1>4, <1>5 DEF SchedulerStep

\* The worker's steps keep the invariant.
LEMMA WorkerStepKeeps ==
    ASSUME IInv, NEW c \in Client, NEW d \in Date, WorkerStep(c, d)
    PROVE  RInv'
  <1> USE DEF IInv
  <1>1. /\ delivery[c][d] \in [stage : Stage, zone : Zone]
        /\ occ[c][d] \in Occurrence \cup {NoOccurrence}
        /\ Agrees(delivery[c][d].stage, occ[c][d].status)
        /\ zone[c] \in Zone
    BY RowAgrees DEF RInv
  <1>2. \A g \in Stage : /\ [delivery[c][d] EXCEPT !.stage = g] \in [stage : Stage, zone : Zone]
                         /\ [delivery[c][d] EXCEPT !.stage = g].stage = g
    BY <1>1
  \* An open intent moves on with its occurrence as it is.
  <1>3. ASSUME delivery[c][d].stage \in {"intent", "asked", "reached", "cleared",
                                        "refused", "lapsed", "closing"},
               NEW g \in {"intent", "reached", "cleared", "refused", "lapsed", "sent"},
               Advance(c, d, g)
        PROVE  RInv'
    <2>1. /\ delivery' = [delivery EXCEPT ![c][d] = [delivery[c][d] EXCEPT !.stage = g]]
          /\ occ' = [occ EXCEPT ![c][d] = occ[c][d]]
          /\ zone' = zone /\ finished' = finished /\ faults' = faults /\ sched' = sched
      BY <1>3 DEF Advance, RInv, world
    <2>2. Agrees(g, occ[c][d].status)
      BY <1>1, <1>3 DEF Agrees
    <2>3. g \in Stage
      BY DEF Stage
    <2> QED
      BY <1>1, <1>2, <2>1, <2>2, <2>3, WorkerKeeps DEF RInv
  \* The worker writes the status of an occurrence that has an event.
  <1>4. ASSUME delivery[c][d].stage \in {"event", "refused", "lapsed"},
               NEW g \in {"intent", "closing"},
               NEW st \in {"INTENT_CREATED", "SUPPRESSED", "EXPIRED"},
               g = "closing" => st # "INTENT_CREATED",
               delivery' = [delivery EXCEPT ![c][d].stage = g],
               occ' = [occ EXCEPT ![c][d].status = st],
               UNCHANGED <<world, sched, faults>>
        PROVE  RInv'
    <2>1. /\ delivery' = [delivery EXCEPT ![c][d] = [delivery[c][d] EXCEPT !.stage = g]]
          /\ occ' = [occ EXCEPT ![c][d] = [occ[c][d] EXCEPT !.status = st]]
          /\ zone' = zone /\ finished' = finished /\ faults' = faults /\ sched' = sched
      BY <1>4 DEF RInv, world
    <2>2. occ[c][d] \in Occurrence
      BY <1>1, <1>4 DEF Agrees, NoOccurrence
    <2>3. /\ [occ[c][d] EXCEPT !.status = st] \in Occurrence
          /\ [occ[c][d] EXCEPT !.status = st].status = st
      BY <2>2 DEF Occurrence
    <2>4. Agrees(g, st)
      BY <1>4 DEF Agrees
    <2>5. /\ [delivery[c][d] EXCEPT !.stage = g] \in [stage : Stage, zone : Zone]
          /\ [delivery[c][d] EXCEPT !.stage = g].stage = g
      BY <1>2 DEF Stage
    <2>6. sched' \in [Scheduler -> SchedulerState] /\ RInv
      BY <2>1 DEF RInv
    <2> HIDE DEF IInv
    <2> QED
      BY <2>1, <2>3, <2>4, <2>5, <2>6, WorkerKeeps
  <1>5. CASE ProjectEvent(c, d)
    BY <1>4, <1>5 DEF ProjectEvent, At
  <1>6. CASE ReadPreference(c, d)
    <2>1. CASE Advance(c, d, "refused") \/ Advance(c, d, "lapsed")
      BY <1>3, <1>6, <2>1 DEF ReadPreference, At
    <2>2. CASE ~(Advance(c, d, "refused") \/ Advance(c, d, "lapsed"))
      <3>1. /\ delivery' = [delivery EXCEPT ![c][d] = [stage |-> "asked", zone |-> zone[c]]]
            /\ occ' = [occ EXCEPT ![c][d] = occ[c][d]]
            /\ zone' = zone /\ finished' = finished /\ faults' = faults /\ sched' = sched
            /\ delivery[c][d].stage = "intent"
        BY <1>6, <2>2 DEF ReadPreference, At, RInv, world
      <3>2. [stage |-> "asked", zone |-> zone[c]] \in [stage : Stage, zone : Zone]
        BY <1>1 DEF Stage
      <3>3. Agrees("asked", occ[c][d].status)
        BY <1>1, <3>1 DEF Agrees
      <3> QED
        BY <1>1, <3>1, <3>2, <3>3, WorkerKeeps DEF RInv
    <2> QED
      BY <2>1, <2>2
  <1>7. CASE ReadDevices(c, d)
    BY <1>3, <1>7 DEF ReadDevices, At
  <1>8. CASE ReadDay(c, d)
    BY <1>3, <1>8 DEF ReadDay, At
  <1>9. CASE SuppressOccurrence(c, d)
    BY <1>4, <1>9 DEF SuppressOccurrence, At
  <1>10. CASE FinalizeSuppressed(c, d)
    <2>1. /\ delivery' = [delivery EXCEPT ![c][d] = [delivery[c][d] EXCEPT !.stage = "closed"]]
          /\ occ' = [occ EXCEPT ![c][d] = occ[c][d]]
          /\ zone' = zone /\ finished' = finished /\ faults' = faults /\ sched' = sched
          /\ delivery[c][d].stage = "closing"
      BY <1>10 DEF FinalizeSuppressed, Advance, At, RInv, world
    <2>2. Agrees("closed", occ[c][d].status) /\ "closed" \in Stage
      BY <1>1, <2>1 DEF Agrees, Stage
    <2> QED
      BY <1>1, <1>2, <2>1, <2>2, WorkerKeeps DEF RInv
  <1>11. CASE Send(c, d)
    BY <1>3, <1>11 DEF Send, At
  <1>12. CASE Retry(c, d)
    BY <1>3, <1>12 DEF Retry
  <1> QED
    BY <1>5, <1>6, <1>7, <1>8, <1>9, <1>10, <1>11, <1>12 DEF WorkerStep

\* What the client does beside the settings: travel, and play.
LEMMA ClientKeeps ==
    ASSUME IInv, NEW c \in Client,
           FinishDay(c) \/ \E z \in Zone : ChangeZone(c, z)
    PROVE  IInv'
  <1> USE DEF IInv
  <1>1. now \in 0..MaxNow /\ zone[c] \in Zone
    BY DEF SInv, SettingsTypeOK, RInv
  <1>2. CASE FinishDay(c)
    <2>1. <<c, LocalDate(now, zone[c])>> \in Client \X Date
      BY <1>1, RemindersAssumption DEF Date
    <2>2. RInv'
      BY <1>2, <2>1, WorldKeeps DEF FinishDay, RInv
    <2>3. SInv'
      BY <1>2, PreferencesAssumption
      DEF FinishDay, Counted, settings, SInv, SettingsTypeOK, SettingsAgree,
          RevokesAll, Devices
    <2> QED
      BY <2>2, <2>3
  <1>3. ASSUME NEW z \in Zone, ChangeZone(c, z)
        PROVE  IInv'
    <2>1. RInv'
      BY <1>3, WorldKeeps DEF ChangeZone, RInv
    <2>2. SInv'
      BY <1>3, PreferencesAssumption
      DEF ChangeZone, Counted, settings, SInv, SettingsTypeOK, SettingsAgree,
          RevokesAll, Devices
    <2> QED
      BY <2>1, <2>2
  <1> QED
    BY <1>2, <1>3

\* Every step keeps the invariant.
LEMMA RemindersNext == IInv /\ [Next]_vars => IInv'
  <1> SUFFICES ASSUME IInv, [Next]_vars PROVE IInv'
    OBVIOUS
  <1> USE DEF IInv
  <1>1. CASE SettingsStep /\ UNCHANGED <<zone, finished, occ, delivery, sched, faults>>
    <2>1. SInv'
      BY <1>1, SettingsNext
    <2>2. RInv'
      BY <1>1, WorldKeeps DEF RInv
    <2> QED
      BY <2>1, <2>2
  <1>2. CASE Tick /\ UNCHANGED <<zone, finished, occ, delivery, sched, faults>>
    <2>1. SInv'
      BY <1>2, SettingsTick
    <2>2. RInv'
      BY <1>2, WorldKeeps DEF RInv
    <2> QED
      BY <2>1, <2>2
  <1>3. ASSUME NEW s \in Scheduler, SchedulerStep(s) \/ FailBatch(s)
        PROVE  IInv'
    <2>1. UNCHANGED svars
      BY <1>3
      DEF SchedulerStep, FailBatch, FetchPreferences, SkipPreference,
          DecideOccurrence, WriteOccurrence, world, svars
    <2> QED
      BY <1>3, <2>1, SchedulerKeeps, SettingsKept
  <1>4. ASSUME NEW c \in Client, NEW d \in Date, WorkerStep(c, d)
        PROVE  IInv'
    <2>1. UNCHANGED svars
      BY <1>4
      DEF WorkerStep, ProjectEvent, ReadPreference, ReadDevices, ReadDay, Send,
          Retry, Advance, SuppressOccurrence, FinalizeSuppressed, world, svars
    <2> QED
      BY <1>4, <2>1, WorkerStepKeeps, SettingsKept
  <1>5. ASSUME NEW c \in Client, FinishDay(c) \/ \E z \in Zone : ChangeZone(c, z)
        PROVE  IInv'
    BY <1>5, ClientKeeps
  <1>6. CASE UNCHANGED vars
    <2>1. UNCHANGED svars /\ UNCHANGED <<zone, finished, occ, delivery, sched, faults>>
      BY <1>6 DEF vars, world, svars
    <2> QED
      BY <2>1, SettingsKept, WorldKeeps DEF RInv
  <1> QED
    BY <1>1, <1>2, <1>3, <1>4, <1>5, <1>6 DEF Next

\* The invariant holds in every reachable state.
LEMMA RemindersInvariant == Spec => []IInv
  BY RemindersStart, RemindersNext, PTL DEF Spec

----------------------------------------------------------------------------
\* Settings, occurrences, deliveries and schedulers stay in their types, for
\* every set of clients, endpoints, requests and schedulers and all zones.
THEOREM TypeCorrect == Spec => []TypeOK
  <1>1. IInv => TypeOK
    BY DEF IInv, SInv, RInv, TypeOK
  <1> QED
    BY <1>1, RemindersInvariant, PTL

\* Preference, consent and devices of a client agree, however enabling and
\* disabling requests and the worker's invalidations overlap.
THEOREM SettingsSafety == Spec => []SettingsAgree
  <1>1. IInv => SettingsAgree
    BY DEF IInv, SInv
  <1> QED
    BY <1>1, RemindersInvariant, PTL

\* An occurrence waits for its event exactly while it is PLANNED, whatever the
\* schedulers that raced for it had decided, and no intent is closed before its
\* occurrence, wherever an attempt stops between the two transactions.
THEOREM EventSafety == Spec => []EventIffPlanned
  <1>1. IInv => EventIffPlanned
    BY DEF IInv, RInv
  <1> QED
    BY <1>1, RemindersInvariant, PTL

\* A device that the worker finds belongs to a client who wants reminders,
\* although the preference was read before.
THEOREM ReachedSafety == Spec => ReachedIsWanted
  <1>1. ASSUME IInv, [Next]_vars, NEW c \in Client, NEW d \in Date,
               At(c, d, "asked"), delivery'[c][d].stage = "reached"
        PROVE  pref[c].enabled
    <2>1. Devices(c) # {}
      <3>1. CASE UNCHANGED delivery
        BY <1>1, <3>1 DEF At
      <3>2. ASSUME NEW x \in Client, NEW y \in Date, WorkerStep(x, y)
            PROVE  Devices(c) # {}
        <4>1. delivery \in [Client -> [Date -> [stage : Stage, zone : Zone]]]
          BY <1>1 DEF IInv, RInv
        <4>2. CASE x = c /\ y = d
          BY <1>1, <3>2, <4>1, <4>2
          DEF WorkerStep, ProjectEvent, ReadPreference, ReadDevices, ReadDay, Send,
              Retry, Advance, SuppressOccurrence, FinalizeSuppressed, At
        <4>3. CASE ~(x = c /\ y = d)
          BY <1>1, <3>2, <4>1, <4>3
          DEF WorkerStep, ProjectEvent, ReadPreference, ReadDevices, ReadDay, Send,
              Retry, Advance, SuppressOccurrence, FinalizeSuppressed, At
        <4> QED
          BY <4>2, <4>3
      <3>3. ASSUME NEW s \in Scheduler, WriteOccurrence(s)
            PROVE  FALSE
        <4>1. delivery \in [Client -> [Date -> [stage : Stage, zone : Zone]]]
          BY <1>1 DEF IInv, RInv
        <4> QED
          BY <1>1, <3>3, <4>1 DEF WriteOccurrence, WithEvent, At
      <3> QED
        BY <1>1, <3>1, <3>2, <3>3
        DEF Next, SchedulerStep, FailBatch, FetchPreferences, SkipPreference,
            DecideOccurrence, FinishDay, ChangeZone, vars
    <2> QED
      BY <1>1, <2>1 DEF IInv, SInv, SettingsAgree
  <1>2. IInv /\ [Next]_vars =>
          [\A c \in Client, d \in Date :
             At(c, d, "asked") /\ delivery'[c][d].stage = "reached"
             => pref[c].enabled]_vars
    BY <1>1
  <1> QED
    BY <1>2, RemindersInvariant, PTL DEF Spec, ReachedIsWanted

----------------------------------------------------------------------------
(* One reminder a day.                                                     *)

\* A reminder at time p of zone z may be written at instant t.
Open(t, p, z) ==
    LET w == Window(LocalDate(t, z), p, z)
    IN  w.at - Lookahead <= t /\ t <= w.until

\* The clock of zone z is on date d, and some reminder of the date may be
\* written now.
DueIn(d, z) == d = LocalDate(now, z) /\ \E p \in ReminderTimes : Open(now, p, z)

Offered == {c \in Client : pref[c].time \in ReminderTimes}

OfferedRow == {r \in Row : r.time \in ReminderTimes}

\* Whoever has reminders on has them at a time that is offered.
OfferedInv ==
    /\ queue \in Seq(Offered)
    /\ \A t \in Tab : tab[t].pc = "enabling" => tab[t].time \in ReminderTimes
    /\ \A s \in Scheduler : sched[s].pc \in {"batch", "decided"}
                            => sched[s].rows \in Seq(OfferedRow)

\* Another scheduler can have planned the reminder of date e just now.
Raced(s, c, e) ==
    /\ \E u \in Scheduler : u # s
    /\ DueIn(e, occ[c][e].zone)

\* What a scheduler has decided holds at this moment, and no reminder is on
\* its date but one that another scheduler planned in the meantime.
PlanHolds(s) ==
    LET r == Head(sched[s].rows)
        c == r.client
        d == sched[s].date
        plan == sched[s].plan
    IN  /\ d = LocalDate(now, r.zone)
        /\ plan.zone = r.zone
        /\ plan.status = "PLANNED" => Open(now, r.time, r.zone)
        /\ \A e \in Date \ {d} :
             delivery[c][e].stage # "none"
             => LocalDate(occ[c][e].at, r.zone) # d \/ Raced(s, c, e)

PlanInv == \A s \in Scheduler : sched[s].pc = "decided" => PlanHolds(s)

OInv == IInv /\ OfferedInv /\ PlanInv

\* Initially every reminder time is one that is offered.
LEMMA OfferedStart == ASSUME Init PROVE OfferedInv
  BY DEF Init, SettingsInit, OfferedInv, Idle, Polling, Off

\* The settings take offered times only.
LEMMA OfferedSettings ==
    ASSUME SInv, OfferedInv, SettingsStep, UNCHANGED sched
    PROVE  OfferedInv'
  <1> USE DEF settings, Counted, SInv, SettingsTypeOK
  <1>1. ASSUME NEW t \in Tab, CommitEnable(t)
        PROVE  OfferedInv'
    <2> DEFINE c == tab[t].client
    <2>1. c \in Client /\ tab[t].time \in ReminderTimes /\ tab[t].time \in LocalTimes
      BY <1>1 DEF CommitEnable, OfferedInv, Request, Idle
    <2>2. \A x \in Client : \/ x = c /\ pref'[x].time = tab[t].time
                            \/ pref'[x] = pref[x]
      BY <1>1 DEF CommitEnable
    <2>3. c \in Offered' /\ Offered \subseteq Offered'
      <3>1. pref'[c].time = tab[t].time
        BY <1>1, <2>1 DEF CommitEnable
      <3> QED
        BY <2>1, <2>2, <3>1 DEF Offered
    <2>4. Without(c) \in Seq(Offered)
      BY WithoutType DEF OfferedInv
    <2>5. Without(c) \in Seq(Offered')
      BY <2>3, <2>4
    <2>6. queue' \in Seq(Offered')
      BY <1>1, <2>3, <2>5 DEF CommitEnable
    <2>7. \A u \in Tab : tab'[u].pc = "enabling" => tab'[u] = tab[u]
      BY <1>1 DEF CommitEnable, Idle
    <2> QED
      BY <2>6, <2>7 DEF OfferedInv
  <1>2. ASSUME NEW t \in Tab, CommitDisable(t)
        PROVE  OfferedInv'
    <2> DEFINE c == tab[t].client
    <2>1. \A x \in Client : pref'[x].time = pref[x].time
      BY <1>2 DEF CommitDisable, Preference
    <2>2. Offered' = Offered
      BY <2>1 DEF Offered
    <2>3. queue' \in Seq(Offered')
      BY <1>2, <2>2, WithoutType DEF CommitDisable, OfferedInv
    <2>4. \A u \in Tab : tab'[u].pc = "enabling" => tab'[u] = tab[u]
      BY <1>2 DEF CommitDisable, Idle
    <2> QED
      BY <2>3, <2>4 DEF OfferedInv
  <1>3. ASSUME UNCHANGED <<pref, queue>>,
               \A u \in Tab : tab'[u].pc = "enabling" => tab'[u].time \in ReminderTimes
        PROVE  OfferedInv'
    BY <1>3 DEF OfferedInv, Offered
  <1>4. ASSUME NEW t \in Tab, NEW c \in Client, NEW e \in Endpoint,
               NEW p \in ReminderTimes, StartEnable(t, c, e, p)
        PROVE  OfferedInv'
    BY <1>3, <1>4 DEF StartEnable, OfferedInv
  <1>5. ASSUME NEW t \in Tab, NEW c \in Client, StartDisable(t, c)
        PROVE  OfferedInv'
    BY <1>3, <1>5 DEF StartDisable, OfferedInv
  <1>6. ASSUME NEW t \in Tab, RevokeDevices(t) \/ RollBack(t)
        PROVE  OfferedInv'
    BY <1>3, <1>6 DEF RevokeDevices, RollBack, OfferedInv, Idle
  <1>7. ASSUME NEW e \in Endpoint, InvalidateDevice(e)
        PROVE  OfferedInv'
    BY <1>3, <1>7 DEF InvalidateDevice, OfferedInv
  <1> QED
    BY <1>1, <1>2, <1>4, <1>5, <1>6, <1>7 DEF SettingsStep

\* A batch reads offered times only.
LEMMA OfferedBatch ==
    ASSUME SInv, RInv, OfferedInv
    PROVE  BatchRows \in Seq(OfferedRow)
  <1>1. \A i \in DOMAIN queue : queue[i] \in Offered
    BY DEF OfferedInv
  <1>2. ASSUME NEW c \in Offered PROVE RowOf(c) \in OfferedRow
    BY <1>2 DEF Offered, OfferedRow, RowOf, Row, SInv, RInv, SettingsTypeOK, Preference
  <1> DEFINE n == IF Len(queue) < BatchSize THEN Len(queue) ELSE BatchSize
  <1>3. n \in Nat /\ n <= Len(queue)
    BY RemindersAssumption DEF OfferedInv
  <1>4. \A i \in 1..n : RowOf(queue[i]) \in OfferedRow
    BY <1>1, <1>2, <1>3 DEF OfferedInv
  <1> QED
    BY <1>3, <1>4 DEF BatchRows

\* A scheduler keeps to offered times.
LEMMA OfferedScheduler ==
    ASSUME IInv, OfferedInv, NEW s \in Scheduler, SchedulerStep(s) \/ FailBatch(s)
    PROVE  OfferedInv'
  <1>1. ASSUME NEW rows \in Seq(OfferedRow), sched' = [sched EXCEPT ![s] = Begin(rows)]
        PROVE  \A u \in Scheduler : sched'[u].pc \in {"batch", "decided"}
                                    => sched'[u].rows \in Seq(OfferedRow)
    BY <1>1 DEF OfferedInv, IInv, RInv, Begin, Polling
  <1>2. CASE FetchPreferences(s)
    BY <1>1, <1>2, OfferedBatch
    DEF FetchPreferences, OfferedInv, Offered, world, settings, IInv
  <1>3. CASE SkipPreference(s) \/ WriteOccurrence(s)
    <2>1. sched[s].rows \in Seq(OfferedRow) /\ sched[s].rows # <<>>
      BY <1>3, HeadTyped DEF SkipPreference, WriteOccurrence, OfferedInv, IInv, Rows
    <2>2. Tail(sched[s].rows) \in Seq(OfferedRow)
      BY <2>1, HeadTailProperties
    <2> QED
      BY <1>1, <1>3, <2>2
      DEF SkipPreference, WriteOccurrence, OfferedInv, Offered, world, settings
  <1>4. CASE DecideOccurrence(s)
    BY <1>4 DEF DecideOccurrence, OfferedInv, Offered, world, settings, IInv, RInv
  <1>5. CASE FailBatch(s)
    BY <1>5 DEF FailBatch, OfferedInv, Offered, world, settings, IInv, RInv, Polling
  <1> QED
    BY <1>2, <1>3, <1>4, <1>5 DEF SchedulerStep

\* Every step keeps to offered times.
LEMMA OfferedNext ==
    ASSUME IInv, OfferedInv, [Next]_vars
    PROVE  OfferedInv'
  <1>1. ASSUME UNCHANGED <<pref, queue, tab, sched>>
        PROVE  OfferedInv'
    BY <1>1 DEF OfferedInv, Offered
  <1>2. CASE SettingsStep /\ UNCHANGED <<zone, finished, occ, delivery, sched, faults>>
    BY <1>2, OfferedSettings DEF IInv
  <1>3. CASE Tick /\ UNCHANGED <<zone, finished, occ, delivery, sched, faults>>
    BY <1>1, <1>3 DEF Tick, settings
  <1>4. ASSUME NEW s \in Scheduler, SchedulerStep(s) \/ FailBatch(s)
        PROVE  OfferedInv'
    BY <1>4, OfferedScheduler
  <1>5. ASSUME NEW c \in Client, NEW d \in Date, WorkerStep(c, d)
        PROVE  OfferedInv'
    BY <1>1, <1>5
    DEF WorkerStep, ProjectEvent, ReadPreference, ReadDevices, ReadDay, Send,
        Retry, Advance, SuppressOccurrence, FinalizeSuppressed, world, settings
  <1>6. ASSUME NEW c \in Client, FinishDay(c) \/ \E z \in Zone : ChangeZone(c, z)
        PROVE  OfferedInv'
    BY <1>1, <1>6 DEF FinishDay, ChangeZone, settings
  <1>7. CASE UNCHANGED vars
    BY <1>1, <1>7 DEF vars, world, settings
  <1> QED
    BY <1>2, <1>3, <1>4, <1>5, <1>6, <1>7 DEF Next

\* What a write does to the delivery of a client and a date: nothing, or it
\* creates the event of the reminder that was decided.
LEMMA WriteEffect ==
    ASSUME IInv, NEW s \in Scheduler, WriteOccurrence(s), NEW x \in Client, NEW y \in Date
    PROVE  \/ /\ delivery'[x][y].stage = delivery[x][y].stage
              /\ delivery[x][y].stage # "none" => occ'[x][y] = occ[x][y]
           \/ /\ delivery[x][y].stage = "none"
              /\ x = Head(sched[s].rows).client
              /\ y = sched[s].date
              /\ sched[s].plan.status = "PLANNED"
              /\ occ'[x][y] = sched[s].plan
  <1> USE DEF IInv, RInv
  <1>1. PICK c \in Client, d \in Date, p \in Decision :
          /\ c = Head(sched[s].rows).client
          /\ d = sched[s].date
          /\ p = sched[s].plan
    BY HeadTyped DEF WriteOccurrence, SchedulerState, Row, Polling
  <1>2. /\ occ' = [occ EXCEPT ![c][d] = Stored(c, d, p)]
        /\ delivery' = WithEvent(c, d, Stored(c, d, p))
    BY <1>1 DEF WriteOccurrence
  <1>3. /\ Agrees(delivery[c][d].stage, occ[c][d].status)
        /\ delivery[c][d].stage \in Stage
    BY RowAgrees
  <1>4. delivery[c][d].stage # "none" => Stored(c, d, p) = occ[c][d]
    BY <1>3 DEF Agrees, Stored, NoOccurrence
  <1>5. delivery[c][d].stage = "none" /\ Stored(c, d, p).status = "PLANNED"
          => Stored(c, d, p) = p
    BY <1>3 DEF Agrees, Stored
  <1>6. CASE x = c /\ y = d
    BY <1>1, <1>2, <1>4, <1>5, <1>6 DEF WithEvent
  <1>7. CASE ~(x = c /\ y = d)
    BY <1>2, <1>7 DEF WithEvent
  <1> QED
    BY <1>6, <1>7

\* A step of the worker leaves a reminder its date and its zone, and creates
\* none.
LEMMA WorkerEffect ==
    ASSUME IInv, NEW c \in Client, NEW d \in Date, WorkerStep(c, d),
           NEW x \in Client, NEW y \in Date
    PROVE  /\ delivery'[x][y].stage # "none" => delivery[x][y].stage # "none"
           /\ delivery'[x][y].stage = "event" => delivery[x][y].stage = "event"
           /\ delivery[x][y].stage # "none"
              => occ'[x][y].at = occ[x][y].at /\ occ'[x][y].zone = occ[x][y].zone
  <1> USE DEF IInv, RInv
  <1>1. /\ delivery[c][d].stage \in {"event", "intent", "asked", "reached", "cleared",
                                    "refused", "lapsed", "closing"}
        /\ \A a \in Client, b \in Date : ~(a = c /\ b = d) =>
             delivery'[a][b] = delivery[a][b] /\ occ'[a][b] = occ[a][b]
    BY DEF WorkerStep, ProjectEvent, ReadPreference, ReadDevices, ReadDay, Send,
           Retry, Advance, SuppressOccurrence, FinalizeSuppressed, At
  <1>2. delivery'[c][d].stage \notin {"event"}
    BY DEF WorkerStep, ProjectEvent, ReadPreference, ReadDevices, ReadDay, Send,
           Retry, Advance, SuppressOccurrence, FinalizeSuppressed, At
  <1>3. \/ occ'[c][d] = occ[c][d]
        \/ \E st \in {"INTENT_CREATED", "SUPPRESSED", "EXPIRED"} :
             occ'[c][d] = [occ[c][d] EXCEPT !.status = st]
    <2>1. \/ occ' = occ
          \/ \E st \in {"INTENT_CREATED", "SUPPRESSED", "EXPIRED"} :
               occ' = [occ EXCEPT ![c][d].status = st]
      BY DEF WorkerStep, ProjectEvent, ReadPreference, ReadDevices, ReadDay, Send,
             Retry, Advance, SuppressOccurrence, FinalizeSuppressed
    <2>2. ASSUME NEW st, occ' = [occ EXCEPT ![c][d].status = st]
          PROVE  occ'[c][d] = [occ[c][d] EXCEPT !.status = st]
      BY <2>2
    <2> QED
      BY <2>1, <2>2
  <1>4. occ[c][d] \in Occurrence
    BY <1>1, RowAgrees DEF Agrees, NoOccurrence
  <1>5. occ'[c][d].at = occ[c][d].at /\ occ'[c][d].zone = occ[c][d].zone
    BY <1>3, <1>4 DEF Occurrence
  <1> QED
    BY <1>1, <1>2, <1>5

\* What another actor does while a scheduler holds its decision.
LEMMA PlanKept ==
    ASSUME IInv, NEW s \in Scheduler, sched[s].pc = "decided", PlanHolds(s),
           now' = now, sched'[s] = sched[s],
           \A x \in Client, y \in Date :
               delivery'[x][y].stage # "none" =>
                 \/ /\ delivery[x][y].stage # "none"
                    /\ occ'[x][y].at = occ[x][y].at
                    /\ occ'[x][y].zone = occ[x][y].zone
                 \/ /\ \E u \in Scheduler : u # s
                    /\ DueIn(y, occ'[x][y].zone)
    PROVE  PlanHolds(s)'
  <1> DEFINE r == Head(sched[s].rows)
             c == r.client
             d == sched[s].date
  <1>1. c \in Client
    BY HeadTyped DEF IInv, Row
  <1>2. /\ d = LocalDate(now, r.zone)
        /\ sched[s].plan.zone = r.zone
        /\ sched[s].plan.status = "PLANNED" => Open(now, r.time, r.zone)
        /\ \A e \in Date \ {d} :
             delivery[c][e].stage # "none"
             => LocalDate(occ[c][e].at, r.zone) # d \/ Raced(s, c, e)
    BY DEF PlanHolds
  <1>3. ASSUME NEW e \in Date \ {d}, delivery'[c][e].stage # "none"
        PROVE  \/ LocalDate(occ'[c][e].at, r.zone) # d
               \/ /\ \E u \in Scheduler : u # s
                  /\ DueIn(e, occ'[c][e].zone)
    BY <1>1, <1>2, <1>3 DEF Raced
  <1>4. \A e, z : DueIn(e, z)' <=> DueIn(e, z)
    BY DEF DueIn
  <1> HIDE DEF r, c, d
  <1> QED
    BY <1>2, <1>3, <1>4 DEF PlanHolds, Raced, r, c, d

\* Nothing is planned initially.
LEMMA PlanStart == ASSUME Init PROVE PlanInv
  BY DEF Init, PlanInv, Polling, Off

\* The decision itself.
LEMMA PlanDecided ==
    ASSUME OInv, NEW s \in Scheduler, DecideOccurrence(s)
    PROVE  PlanHolds(s)'
  <1> USE DEF OInv, IInv
  <1> DEFINE r == Head(sched[s].rows)
             c == r.client
             d == Today(r)
  <1>1. r \in Row /\ c \in Client
    BY HeadTyped DEF DecideOccurrence, Row
  <1>2. /\ sched'[s] = [pc |-> "decided", rows |-> sched[s].rows, date |-> d,
                        plan |-> Planned(r)]
        /\ now' = now /\ occ' = occ /\ delivery' = delivery
        /\ IsDue(r) /\ ~HasEquivalent(r)
    BY DEF DecideOccurrence, RInv, world
  <1>3. now \in Int /\ ReminderWindow(r).at \in Int /\ ReminderWindow(r).until \in Int
    <2>1. now \in 0..MaxNow /\ r.zone \in Zone /\ r.time \in Int
      BY <1>1 DEF SInv, SettingsTypeOK, Row, LocalTimes
    <2>2. Today(r) \in Int
      BY <1>1, PlannedTyped DEF Date
    <2> QED
      BY <2>1, <2>2, WindowType DEF ReminderWindow
  <1>4. Planned(r).status = "PLANNED" => Open(now, r.time, r.zone)
    <2>1. Planned(r).status = "PLANNED" => now <= ReminderWindow(r).until
      BY <1>3 DEF Planned, DecidedStatus
    <2> QED
      BY <1>2, <2>1 DEF IsDue, Open, ReminderWindow, Today
  <1>5. ASSUME NEW e \in Date, delivery[c][e].stage # "none"
        PROVE  LocalDate(occ[c][e].at, r.zone) # d
    <2>1. occ[c][e] # NoOccurrence
      BY <1>1, <1>5, RowAgrees DEF Agrees, NoOccurrence
    <2> QED
      BY <1>2, <2>1 DEF HasEquivalent
  <1>6. Planned(r).zone = r.zone
    BY DEF Planned
  <1> QED
    BY <1>2, <1>4, <1>5, <1>6 DEF PlanHolds, Raced, Today

\* Every step keeps what is known of rows and plans.
LEMMA PlanNext ==
    ASSUME OInv, [Next]_vars
    PROVE  PlanInv'
  <1> USE DEF OInv, IInv
  <1>1. ASSUME UNCHANGED <<now, sched>>,
               \A x \in Client, y \in Date :
                 delivery'[x][y].stage # "none" =>
                   /\ delivery[x][y].stage # "none"
                   /\ occ'[x][y].at = occ[x][y].at
                   /\ occ'[x][y].zone = occ[x][y].zone
        PROVE  PlanInv'
    BY <1>1, PlanKept DEF PlanInv
  <1>2. CASE SettingsStep /\ UNCHANGED <<zone, finished, occ, delivery, sched, faults>>
    <2>1. now' = now
      BY <1>2
      DEF SettingsStep, StartEnable, CommitEnable, StartDisable, RevokeDevices,
          CommitDisable, RollBack, InvalidateDevice
    <2> QED
      BY <1>1, <1>2, <2>1
  <1>3. CASE Tick /\ Prompt /\ UNCHANGED <<zone, finished, occ, delivery, sched, faults>>
    BY <1>3 DEF Prompt, PlanInv
  <1>4. ASSUME NEW s \in Scheduler, SchedulerStep(s) \/ FailBatch(s)
        PROVE  PlanInv'
    <2>1. now' = now /\ \A u \in Scheduler \ {s} : sched'[u] = sched[u]
      BY <1>4
      DEF SchedulerStep, FetchPreferences, SkipPreference, DecideOccurrence,
          WriteOccurrence, FailBatch, world, RInv
    <2>2. ASSUME UNCHANGED <<occ, delivery>>, NEW u \in Scheduler \ {s},
                 sched'[u].pc = "decided"
          PROVE  PlanHolds(u)'
      BY <2>1, <2>2, PlanKept DEF PlanInv
    <2>3. CASE FetchPreferences(s) \/ SkipPreference(s) \/ FailBatch(s)
      <3>1. sched'[s].pc # "decided" /\ UNCHANGED <<occ, delivery>>
        BY <2>3
        DEF FetchPreferences, SkipPreference, FailBatch, Begin, Polling, RInv
      <3> QED
        BY <2>2, <3>1 DEF PlanInv
    <2>4. CASE DecideOccurrence(s)
      <3>1. UNCHANGED <<occ, delivery>>
        BY <2>4 DEF DecideOccurrence
      <3> QED
        BY <2>2, <2>4, <3>1, PlanDecided DEF PlanInv
    <2>5. CASE WriteOccurrence(s)
      <3>1. sched'[s].pc # "decided"
        BY <2>5 DEF WriteOccurrence, Begin, Polling, RInv
      <3>2. ASSUME NEW u \in Scheduler \ {s}, sched'[u].pc = "decided"
            PROVE  PlanHolds(u)'
        <4>1. PlanHolds(s)
          BY <2>5 DEF WriteOccurrence, PlanInv
        <4>2. Head(sched[s].rows).time \in ReminderTimes
          <5>1. sched[s].rows \in Seq(OfferedRow) /\ sched[s].rows # <<>>
            BY <2>5, HeadTyped DEF WriteOccurrence, OfferedInv, Rows
          <5> QED
            BY <5>1, HeadTailProperties DEF OfferedRow
        <4>3. ASSUME NEW x \in Client, NEW y \in Date, delivery'[x][y].stage # "none"
              PROVE  \/ /\ delivery[x][y].stage # "none"
                        /\ occ'[x][y].at = occ[x][y].at
                        /\ occ'[x][y].zone = occ[x][y].zone
                     \/ DueIn(y, occ'[x][y].zone)
          BY <2>5, <4>1, <4>2, <4>3, WriteEffect DEF PlanHolds, DueIn
        <4>4. PlanHolds(u) /\ sched[u].pc = "decided" /\ sched'[u] = sched[u]
          BY <2>1, <3>2 DEF PlanInv
        <4> QED
          BY <2>1, <4>3, <4>4, PlanKept
      <3> QED
        BY <3>1, <3>2 DEF PlanInv
    <2> QED
      BY <1>4, <2>3, <2>4, <2>5 DEF SchedulerStep
  <1>5. ASSUME NEW c \in Client, NEW d \in Date, WorkerStep(c, d)
        PROVE  PlanInv'
    <2>1. UNCHANGED <<now, sched>>
      BY <1>5
      DEF WorkerStep, ProjectEvent, ReadPreference, ReadDevices, ReadDay, Send,
          Retry, Advance, SuppressOccurrence, FinalizeSuppressed, world
    <2> QED
      BY <1>1, <1>5, <2>1, WorkerEffect
  <1>6. ASSUME NEW c \in Client, FinishDay(c) \/ \E z \in Zone : ChangeZone(c, z)
        PROVE  PlanInv'
    BY <1>1, <1>6 DEF FinishDay, ChangeZone
  <1>7. CASE UNCHANGED vars
    BY <1>1, <1>7 DEF vars, world
  <1> QED
    BY <1>2, <1>3, <1>4, <1>5, <1>6, <1>7 DEF Next

\* What is known of rows and plans holds in every reachable state.
LEMMA PlanInvariant == Spec => []OInv
  <1>1. Init => OInv
    BY RemindersStart, OfferedStart, PlanStart DEF OInv
  <1>2. OInv /\ [Next]_vars => OInv'
    BY RemindersNext, OfferedNext, PlanNext DEF OInv
  <1> QED
    BY <1>1, <1>2, PTL DEF Spec

\* An event is created by a scheduler that writes what it decided.
LEMMA NewReminder ==
    ASSUME OInv, [Next]_vars, NEW c \in Client, NEW d \in Date,
           delivery[c][d].stage = "none", delivery'[c][d].stage = "event"
    PROVE  \E s \in Scheduler :
             /\ PlanHolds(s)
             /\ sched[s].rows \in Seq(OfferedRow) \ {<<>>}
             /\ c = Head(sched[s].rows).client
             /\ d = sched[s].date
             /\ sched[s].plan.status = "PLANNED"
             /\ occ'[c][d] = sched[s].plan
  <1> USE DEF OInv, IInv
  <1>1. ASSUME NEW x \in Client, NEW y \in Date, WorkerStep(x, y)
        PROVE  FALSE
    BY <1>1, WorkerEffect
  <1>2. PICK s \in Scheduler : WriteOccurrence(s)
    BY <1>1
    DEF Next, SchedulerStep, FailBatch, FetchPreferences, SkipPreference,
        DecideOccurrence, FinishDay, ChangeZone, vars
  <1>3. /\ c = Head(sched[s].rows).client
        /\ d = sched[s].date
        /\ sched[s].plan.status = "PLANNED"
        /\ occ'[c][d] = sched[s].plan
    BY <1>2, WriteEffect
  <1>4. sched[s].pc = "decided"
    BY <1>2 DEF WriteOccurrence
  <1>5. sched[s].rows \in Seq(OfferedRow) \ {<<>>}
    BY <1>4, HeadTyped DEF OfferedInv, Rows
  <1> QED
    BY <1>3, <1>4, <1>5 DEF PlanInv

\* A new reminder is due on its date, and no other reminder is on this date in
\* its zone, but one that another scheduler planned for another date of a zone
\* in which it may be written at this very moment.
Exclusive(c, d) ==
    LET z == occ'[c][d].zone
    IN  /\ z \in Zone
        /\ DueIn(d, z)
        /\ \A e \in Date \ {d} :
             delivery[c][e].stage # "none"
             => \/ LocalDate(occ[c][e].at, z) # d
                \/ /\ occ[c][e].zone \in Zone
                   /\ DueIn(e, occ[c][e].zone)
                   /\ \E s, u \in Scheduler : s # u

\* The step that writes an event finds the local date free, or has raced.
LEMMA NewIsExclusive ==
    ASSUME OInv, [Next]_vars, NEW c \in Client, NEW d \in Date,
           delivery[c][d].stage = "none", delivery'[c][d].stage = "event"
    PROVE  Exclusive(c, d)
  <1>1. PICK s \in Scheduler :
          /\ PlanHolds(s)
          /\ sched[s].rows \in Seq(OfferedRow) \ {<<>>}
          /\ c = Head(sched[s].rows).client
          /\ d = sched[s].date
          /\ sched[s].plan.status = "PLANNED"
          /\ occ'[c][d] = sched[s].plan
    BY NewReminder
  <1> DEFINE r == Head(sched[s].rows)
  <1>2. r \in Row /\ r.time \in ReminderTimes
    BY <1>1, HeadTailProperties DEF OfferedRow
  <1>3. /\ d = LocalDate(now, r.zone)
        /\ occ'[c][d].zone = r.zone
        /\ Open(now, r.time, r.zone)
        /\ \A e \in Date \ {d} :
             delivery[c][e].stage # "none"
             => LocalDate(occ[c][e].at, r.zone) # d \/ Raced(s, c, e)
    BY <1>1 DEF PlanHolds
  <1>4. ASSUME NEW e \in Date, delivery[c][e].stage # "none"
        PROVE  occ[c][e].zone \in Zone
    <2>1. occ[c][e] \in Occurrence
      BY <1>4, RowAgrees DEF OInv, IInv, Agrees, NoOccurrence
    <2> QED
      BY <2>1 DEF Occurrence
  <1>5. r.zone \in Zone
    BY <1>2 DEF Row
  <1> HIDE DEF r
  <1>6. DueIn(d, r.zone)
    BY <1>2, <1>3 DEF DueIn
  <1> QED
    BY <1>3, <1>4, <1>5, <1>6 DEF Exclusive, Raced

\* Of two reminder times in zones that are near, only one may be written at an
\* instant that has different dates in the two zones.
LEMMA NearApart ==
    ASSUME ZonesNear, NEW t \in Int, NEW y \in Zone, NEW z \in Zone,
           NEW p \in ReminderTimes, NEW q \in ReminderTimes,
           LocalDate(t, y) \in Int, LocalDate(t, z) \in Int,
           LocalDate(t, y) < LocalDate(t, z),
           Open(t, p, y), Open(t, q, z)
    PROVE  FALSE
  <1> DEFINE d == LocalDate(t, y)
             e == LocalDate(t, z)
  <1>1. /\ DayLength \in Nat /\ CatchUp \in Nat /\ Lookahead \in Nat
        /\ p \in Int /\ q \in Int
        /\ OffsetBefore[y] \in Int /\ OffsetAfter[y] \in Int
        /\ OffsetBefore[z] \in Int /\ OffsetAfter[z] \in Int
    BY LocalTimeAssumption, PreferencesAssumption, RemindersAssumption DEF LocalTimes
  <1>2. PICK a \in {OffsetBefore[y], OffsetAfter[y]} :
          Resolve(d, p, y) = (d * DayLength + p) - a
    BY <1>1, ResolveOffset
  <1>3. PICK b \in {OffsetBefore[z], OffsetAfter[z]} :
          Resolve(e, q, z) = (e * DayLength + q) - b
    BY <1>1, ResolveOffset
  <1>4. (p - q) + (b - a) + Lookahead + CatchUp < DayLength
    BY DEF ZonesNear
  <1> HIDE DEF d, e
  <1>5. d \in Int /\ e \in Int /\ d + 1 <= e
    BY DEF d, e
  <1>6. d * DayLength + DayLength <= e * DayLength
    <2>1. 0 <= (e - d - 1) * DayLength
      BY <1>1, <1>5
    <2>2. (e - d - 1) * DayLength = e * DayLength - d * DayLength - DayLength
      BY <1>1, <1>5
    <2>3. d * DayLength \in Int /\ e * DayLength \in Int
      BY <1>1, <1>5
    <2> QED
      BY <1>1, <2>1, <2>2, <2>3
  <1>7. d * DayLength \in Int /\ e * DayLength \in Int
    BY <1>1, <1>5
  <1>8. t <= Resolve(d, p, y) + CatchUp
    <2>1. t <= Window(d, p, y).until
      BY DEF Open, d
    <2>2. Resolve(d, p, y) \in Int /\ Resolve(d + 1, 0, y) \in Int
      BY <1>1, <1>5, ResolveType
    <2> QED
      BY <1>1, <2>1, <2>2 DEF Window
  <1>9. Resolve(e, q, z) - Lookahead <= t
    BY DEF Open, Window, e
  <1>10. a \in Int /\ b \in Int
    BY <1>1
  <1> QED
    BY <1>1, <1>2, <1>3, <1>4, <1>6, <1>7, <1>8, <1>9, <1>10

\* Whoever moves, changes the time, or is planned for by how many schedulers: a
\* new reminder is due now, and another reminder is on its date only if another
\* scheduler plans at the same moment for another zone with another date.
OneReminderUnlessRaced ==
    [][\A c \in Client, d \in Date :
         delivery[c][d].stage = "none" /\ delivery'[c][d].stage = "event"
         => Exclusive(c, d)]_vars

\* Only a race with another zone gives a local date a second reminder
\* (processReminderSchedulerBatch).
THEOREM RacedSafety == Spec => OneReminderUnlessRaced
  <1>1. OInv /\ [Next]_vars =>
          [\A c \in Client, d \in Date :
             delivery[c][d].stage = "none" /\ delivery'[c][d].stage = "event"
             => Exclusive(c, d)]_vars
    BY NewIsExclusive
  <1> QED
    BY <1>1, PlanInvariant, PTL DEF Spec, OneReminderUnlessRaced

\* What it takes for a date to have one reminder: no race between schedulers,
\* or no two zones in which they could plan for different dates.
LEMMA ExclusiveIsOne ==
    ASSUME OInv, NEW c \in Client, NEW d \in Date, Exclusive(c, d),
           (\A s, u \in Scheduler : s = u) \/ ZonesNear,
           NEW e \in Date \ {d}, delivery[c][e].stage # "none"
    PROVE  LocalDate(occ[c][e].at, occ'[c][d].zone) # d
  <1> SUFFICES ASSUME LocalDate(occ[c][e].at, occ'[c][d].zone) = d
               PROVE  FALSE
    OBVIOUS
  <1> DEFINE y == occ'[c][d].zone
             z == occ[c][e].zone
  <1>1. /\ y \in Zone /\ z \in Zone /\ DueIn(d, y) /\ DueIn(e, z)
        /\ \E s, u \in Scheduler : s # u
    BY DEF Exclusive
  <1>2. ZonesNear
    BY <1>1
  <1> HIDE DEF y, z
  <1>3. PICK p \in ReminderTimes : Open(now, p, y)
    BY <1>1 DEF DueIn
  <1>4. PICK q \in ReminderTimes : Open(now, q, z)
    BY <1>1 DEF DueIn
  <1>5. /\ LocalDate(now, y) = d /\ LocalDate(now, z) = e
        /\ d \in Int /\ e \in Int /\ d # e /\ now \in Int
    BY <1>1 DEF DueIn, Date, OInv, IInv, SInv, SettingsTypeOK
  <1>6. CASE d < e
    BY <1>1, <1>2, <1>3, <1>4, <1>5, <1>6, NearApart
  <1>7. CASE e < d
    BY <1>1, <1>2, <1>3, <1>4, <1>5, <1>7, NearApart
  <1> QED
    BY <1>5, <1>6, <1>7

\* Near zones, or a single scheduler, leave no room for such a race.
LEMMA OneReminder ==
    ASSUME (\A s, u \in Scheduler : s = u) \/ ZonesNear
    PROVE  Spec => OneReminderADay
  <1>1. OInv /\ [Next]_vars =>
          [\A c \in Client, d \in Date :
             delivery[c][d].stage = "none" /\ delivery'[c][d].stage = "event"
             => \A e \in Date \ {d} :
                  delivery[c][e].stage # "none"
                  => LocalDate(occ[c][e].at, occ'[c][d].zone) # d]_vars
    BY NewIsExclusive, ExclusiveIsOne
  <1> QED
    BY <1>1, PlanInvariant, PTL DEF Spec, OneReminderADay

\* A date has one reminder, however the schedulers race, the clients travel and
\* change their reminder time, as long as their zones are near.
THEOREM OneReminderSafety == ASSUME ZonesNear PROVE Spec => OneReminderADay
  BY OneReminder

\* A single scheduler needs no assumption on zones and times.
THEOREM OneSchedulerSafety ==
    ASSUME \A s, u \in Scheduler : s = u
    PROVE  Spec => OneReminderADay
  BY OneReminder

----------------------------------------------------------------------------
(* A reminder goes out on its date.                                        *)

\* The row or the plan o is the window of some reminder time on date d.
OfDate(o, d) ==
    /\ o.zone \in Zone
    /\ \E p \in LocalTimes : /\ o.at = Window(d, p, o.zone).at
                             /\ o.until = Window(d, p, o.zone).until

\* The stages of an event that has become an intent.
Stages == {"intent", "asked", "reached", "cleared", "refused", "lapsed",
           "closing", "sent"}

\* Every occurrence keeps the window of the date it is stored under, and an
\* intent exists only once its time has come.
OriginInv ==
    /\ \A c \in Client, d \in Date :
         /\ occ[c][d] # NoOccurrence => OfDate(occ[c][d], d)
         /\ delivery[c][d].stage \in Stages => occ[c][d].at <= now
    /\ \A s \in Scheduler :
         sched[s].pc = "decided" => OfDate(sched[s].plan, sched[s].date)

\* The time of a reminder has come, the quiet hours of the zone it was planned
\* for are over, and there it is still its date; only the last instant of the
\* window, the next midnight, may be on the next date.
InItsWindow(c, d) ==
    LET o == occ[c][d]
    IN  /\ o.at <= now /\ now <= o.until
        /\ ~InQuietHours(LocalTimeAt(now, o.zone))
        /\ now < o.until => LocalDate(now, o.zone) = d

\* Whenever the worker lets a reminder pass, it is in its window, however late
\* it was projected, claimed or retried (revalidateReminderIntentBeforeDispatch).
SentOnItsDate ==
    [][\A c \in Client, d \in Date :
         At(c, d, "intent") /\ delivery'[c][d].stage = "asked"
         => InItsWindow(c, d)]_vars

\* The worker changes the status of one occurrence, whose event there is.
LEMMA WorkerRow ==
    ASSUME IInv, NEW c \in Client, NEW d \in Date, WorkerStep(c, d),
           NEW x \in Client, NEW y \in Date
    PROVE  /\ occ'[x][y] # NoOccurrence => occ[x][y] # NoOccurrence
           /\ occ'[x][y] # NoOccurrence => /\ occ'[x][y].zone = occ[x][y].zone
                                           /\ occ'[x][y].at = occ[x][y].at
                                           /\ occ'[x][y].until = occ[x][y].until
           /\ delivery'[x][y].stage \in Stages
                => /\ occ'[x][y].at = occ[x][y].at
                   /\ delivery[x][y].stage \in Stages \/ occ[x][y].at <= now
  <1> USE DEF IInv, RInv
  <1>1. /\ delivery[c][d].stage \in {"event", "intent", "asked", "reached", "cleared",
                                    "refused", "lapsed", "closing"}
        /\ \A a \in Client, b \in Date : ~(a = c /\ b = d) =>
             delivery'[a][b] = delivery[a][b] /\ occ'[a][b] = occ[a][b]
    BY DEF WorkerStep, ProjectEvent, ReadPreference, ReadDevices, ReadDay, Send,
           Retry, Advance, SuppressOccurrence, FinalizeSuppressed, At
  <1>2. delivery[c][d].stage \in Stages \/ occ[c][d].at <= now
    BY <1>1
    DEF Stages, WorkerStep, ProjectEvent, ReadPreference, ReadDevices, ReadDay, Send,
        SuppressOccurrence, FinalizeSuppressed, Retry, At
  <1>3. \/ occ'[c][d] = occ[c][d]
        \/ \E st \in {"INTENT_CREATED", "SUPPRESSED", "EXPIRED"} :
             occ'[c][d] = [occ[c][d] EXCEPT !.status = st]
    <2>1. \/ occ' = occ
          \/ \E st \in {"INTENT_CREATED", "SUPPRESSED", "EXPIRED"} :
               occ' = [occ EXCEPT ![c][d].status = st]
      BY DEF WorkerStep, ProjectEvent, ReadPreference, ReadDevices, ReadDay, Send,
             Retry, Advance, SuppressOccurrence, FinalizeSuppressed
    <2>2. ASSUME NEW st, occ' = [occ EXCEPT ![c][d].status = st]
          PROVE  occ'[c][d] = [occ[c][d] EXCEPT !.status = st]
      BY <2>2
    <2> QED
      BY <2>1, <2>2
  <1>4. occ[c][d] \in Occurrence /\ occ[c][d] # NoOccurrence
    BY <1>1, RowAgrees DEF Agrees, NoOccurrence
  <1>5. /\ occ'[c][d].at = occ[c][d].at
        /\ occ'[c][d].zone = occ[c][d].zone
        /\ occ'[c][d].until = occ[c][d].until
    BY <1>3, <1>4 DEF Occurrence
  <1> QED
    BY <1>1, <1>2, <1>4, <1>5

\* A decision is the window of its date.
LEMMA DecisionOfDate ==
    ASSUME IInv, NEW s \in Scheduler, DecideOccurrence(s)
    PROVE  OfDate(sched'[s].plan, sched'[s].date)
  <1> DEFINE r == Head(sched[s].rows)
  <1>1. r \in Row
    BY HeadTyped DEF DecideOccurrence, IInv
  <1>2. r.zone \in Zone /\ r.time \in LocalTimes
    BY <1>1 DEF Row
  <1>3. sched'[s].plan = Planned(r) /\ sched'[s].date = Today(r)
    BY DEF DecideOccurrence, IInv, RInv
  <1>4. /\ Planned(r).zone = r.zone
        /\ Planned(r).at = Window(Today(r), r.time, r.zone).at
        /\ Planned(r).until = Window(Today(r), r.time, r.zone).until
    BY DEF Planned, ReminderWindow
  <1> HIDE DEF r
  <1> QED
    BY <1>2, <1>3, <1>4 DEF OfDate

\* Who keeps the occurrences, the stages and the decisions keeps their origin.
LEMMA OriginKept ==
    ASSUME IInv, IInv', OriginInv, UNCHANGED <<occ, delivery>>, now <= now',
           \A s \in Scheduler : sched'[s].pc = "decided"
             => \/ sched'[s] = sched[s]
                \/ OfDate(sched'[s].plan, sched'[s].date)
    PROVE  OriginInv'
  <1>1. now \in Int /\ now' \in Int
    BY DEF IInv, SInv, SettingsTypeOK
  <1>2. ASSUME NEW c \in Client, NEW d \in Date,
               delivery[c][d].stage \in Stages
        PROVE  occ[c][d].at <= now'
    <2>1. occ[c][d] \in Occurrence
      BY <1>2, RowAgrees DEF IInv, Agrees, NoOccurrence, Stages
    <2>2. occ[c][d].at \in Int
      BY <2>1 DEF Occurrence
    <2> QED
      BY <1>1, <1>2, <2>2 DEF OriginInv
  <1>3. \A o, d : OfDate(o, d)' <=> OfDate(o, d)
    BY DEF OfDate
  <1> QED
    BY <1>2, <1>3 DEF OriginInv, OfDate

\* Every row and every plan keeps the window it was made from.
LEMMA OriginNext ==
    ASSUME IInv, IInv', OriginInv, [Next]_vars
    PROVE  OriginInv'
  <1> USE DEF IInv, RInv
  <1>1. now \in Int
    BY DEF SInv, SettingsTypeOK
  <1>2. CASE SettingsStep /\ UNCHANGED <<zone, finished, occ, delivery, sched, faults>>
    <2>1. now' = now
      BY <1>2
      DEF SettingsStep, StartEnable, CommitEnable, StartDisable, RevokeDevices,
          CommitDisable, RollBack, InvalidateDevice
    <2> QED
      BY <1>1, <1>2, <2>1, OriginKept
  <1>3. CASE Tick /\ UNCHANGED <<zone, finished, occ, delivery, sched, faults>>
    <2>1. now' = now + 1
      BY <1>3 DEF Tick
    <2> QED
      BY <1>1, <1>3, <2>1, OriginKept
  <1>4. ASSUME NEW s \in Scheduler, SchedulerStep(s) \/ FailBatch(s)
        PROVE  OriginInv'
    <2>1. now' = now /\ \A u \in Scheduler \ {s} : sched'[u] = sched[u]
      BY <1>4
      DEF SchedulerStep, FetchPreferences, SkipPreference, DecideOccurrence,
          WriteOccurrence, FailBatch, world
    <2>2. CASE FetchPreferences(s) \/ SkipPreference(s) \/ FailBatch(s)
      <3>1. sched'[s].pc # "decided" /\ UNCHANGED <<occ, delivery>>
        BY <2>2
        DEF FetchPreferences, SkipPreference, FailBatch, Begin, Polling
      <3> QED
        BY <1>1, <2>1, <3>1, OriginKept
    <2>3. CASE DecideOccurrence(s)
      <3>1. UNCHANGED <<occ, delivery>>
        BY <2>3 DEF DecideOccurrence
      <3>2. OfDate(sched'[s].plan, sched'[s].date)
        BY <2>3, DecisionOfDate
      <3> QED
        BY <1>1, <2>1, <3>1, <3>2, OriginKept
    <2>4. CASE WriteOccurrence(s)
      <3>1. sched'[s].pc # "decided"
        BY <2>4 DEF WriteOccurrence, Begin, Polling
      <3>2. PICK c \in Client, d \in Date, p \in Decision :
              /\ c = Head(sched[s].rows).client
              /\ d = sched[s].date
              /\ p = sched[s].plan
        BY <2>4, HeadTyped DEF WriteOccurrence, SchedulerState, Row, Polling
      <3>3. /\ occ' = [occ EXCEPT ![c][d] = Stored(c, d, p)]
            /\ delivery' = WithEvent(c, d, Stored(c, d, p))
        BY <2>4, <3>2 DEF WriteOccurrence
      <3>4. OfDate(p, d)
        BY <2>4, <3>2 DEF OriginInv, WriteOccurrence
      <3>5. ASSUME NEW x \in Client, NEW y \in Date, occ'[x][y] # NoOccurrence
            PROVE  OfDate(occ'[x][y], y)
        <4>1. CASE x = c /\ y = d
          <5>1. occ'[x][y] = Stored(c, d, p)
            BY <3>3, <4>1
          <5> QED
            BY <3>4, <4>1, <5>1 DEF Stored, OriginInv
        <4>2. CASE ~(x = c /\ y = d)
          <5>1. occ'[x][y] = occ[x][y]
            BY <3>3, <4>2
          <5> QED
            BY <3>5, <5>1 DEF OriginInv
        <4> QED
          BY <4>1, <4>2
      <3>6. ASSUME NEW x \in Client, NEW y \in Date, delivery'[x][y].stage \in Stages
            PROVE  occ'[x][y].at <= now'
        <4>1. delivery[x][y].stage \in Stages
          BY <3>3, <3>6 DEF WithEvent, Stages
        <4>2. occ[x][y] # NoOccurrence
          BY <4>1, RowAgrees DEF Stages, Agrees, NoOccurrence
        <4>3. occ'[x][y] = occ[x][y]
          BY <3>3, <4>2 DEF Stored
        <4> QED
          BY <2>1, <4>1, <4>3 DEF OriginInv, Stages
      <3>7. \A u \in Scheduler : sched'[u].pc = "decided" => sched'[u] = sched[u]
        BY <2>1, <3>1
      <3>8. ASSUME NEW u \in Scheduler, sched'[u].pc = "decided"
            PROVE  OfDate(sched'[u].plan, sched'[u].date)
        BY <3>7, <3>8 DEF OriginInv
      <3>9. \A o, y : OfDate(o, y)' <=> OfDate(o, y)
        BY DEF OfDate
      <3> HIDE DEF IInv, RInv
      <3> QED
        BY <3>5, <3>6, <3>8 DEF OriginInv, Stages, OfDate
    <2> QED
      BY <1>4, <2>2, <2>3, <2>4 DEF SchedulerStep
  <1>5. ASSUME NEW c \in Client, NEW d \in Date, WorkerStep(c, d)
        PROVE  OriginInv'
    <2>1. UNCHANGED <<now, sched>>
      BY <1>5
      DEF WorkerStep, ProjectEvent, ReadPreference, ReadDevices, ReadDay, Send,
          Retry, Advance, SuppressOccurrence, FinalizeSuppressed, world
    <2>2. ASSUME NEW x \in Client, NEW y \in Date, occ'[x][y] # NoOccurrence
          PROVE  OfDate(occ'[x][y], y)
      <3>1. /\ occ[x][y] # NoOccurrence
            /\ occ'[x][y].zone = occ[x][y].zone
            /\ occ'[x][y].at = occ[x][y].at
            /\ occ'[x][y].until = occ[x][y].until
        BY <1>5, <2>2, WorkerRow
      <3>2. OfDate(occ[x][y], y)
        BY <3>1 DEF OriginInv
      <3> QED
        BY <3>1, <3>2 DEF OfDate
    <2>3. ASSUME NEW x \in Client, NEW y \in Date, delivery'[x][y].stage \in Stages
          PROVE  occ'[x][y].at <= now'
      BY <1>5, <2>1, <2>3, WorkerRow DEF OriginInv, Stages
    <2> QED
      BY <2>1, <2>2, <2>3 DEF OriginInv, OfDate, Stages
  <1>6. ASSUME NEW c \in Client, FinishDay(c) \/ \E z \in Zone : ChangeZone(c, z)
        PROVE  OriginInv'
    <2>1. UNCHANGED <<now, occ, delivery, sched>>
      BY <1>6 DEF FinishDay, ChangeZone
    <2> QED
      BY <1>1, <2>1, OriginKept
  <1>7. CASE UNCHANGED vars
    BY <1>1, <1>7, OriginKept DEF vars, world
  <1> QED
    BY <1>2, <1>3, <1>4, <1>5, <1>6, <1>7 DEF Next

\* What the worker checks before it lets a reminder pass is enough for its date.
LEMMA PassesOnItsDate ==
    ASSUME MidnightsAreWhole, IInv, OriginInv, [Next]_vars,
           NEW c \in Client, NEW d \in Date,
           At(c, d, "intent"), delivery'[c][d].stage = "asked"
    PROVE  InItsWindow(c, d)
  <1> USE DEF IInv, RInv
  <1>1. ReadPreference(c, d)
    <2>1. delivery'[c][d] # delivery[c][d]
      BY DEF At
    <2>2. ASSUME NEW x \in Client, NEW y \in Date, WorkerStep(x, y) PROVE x = c /\ y = d
      <3>1. \A a \in Client, b \in Date : ~(a = x /\ b = y) => delivery'[a][b] = delivery[a][b]
        BY <2>2 DEF WorkerStep, ProjectEvent, ReadPreference, ReadDevices, ReadDay, Send,
                    Retry, Advance, SuppressOccurrence, FinalizeSuppressed
      <3> QED
        BY <2>1, <3>1
    <2>3. ASSUME NEW s \in Scheduler, SchedulerStep(s) \/ FailBatch(s)
          PROVE  delivery'[c][d].stage # "asked"
      <3>1. CASE WriteOccurrence(s)
        BY <3>1, WriteEffect DEF At, WriteOccurrence, WithEvent
      <3>2. CASE ~WriteOccurrence(s)
        BY <2>1, <2>3, <3>2 DEF SchedulerStep, FetchPreferences, SkipPreference,
                                DecideOccurrence, FailBatch
      <3> QED
        BY <3>1, <3>2
    <2>4. ASSUME UNCHANGED delivery PROVE FALSE
      BY <2>1, <2>4
    <2>5. \E x \in Client, y \in Date : WorkerStep(x, y)
      BY <2>3, <2>4 DEF Next, vars, FinishDay, ChangeZone
    <2>6. WorkerStep(c, d)
      BY <2>2, <2>5
    <2> QED
      BY <2>6 DEF WorkerStep, ProjectEvent, ReadPreference, ReadDevices, ReadDay, Send,
                  Retry, Advance, SuppressOccurrence, FinalizeSuppressed, At
  <1>2. now <= occ[c][d].until /\ ~InQuietHours(LocalTimeAt(now, occ[c][d].zone))
    BY <1>1 DEF ReadPreference, Advance
  <1>3. occ[c][d].at <= now /\ OfDate(occ[c][d], d)
    <2>1. occ[c][d] # NoOccurrence
      BY RowAgrees DEF At, Agrees, NoOccurrence
    <2> QED
      BY <2>1 DEF At, OriginInv, Stages
  <1>4. PICK p \in LocalTimes : /\ occ[c][d].at = Window(d, p, occ[c][d].zone).at
                                /\ occ[c][d].until = Window(d, p, occ[c][d].zone).until
    BY <1>3 DEF OfDate
  <1>5. occ[c][d].zone \in Zone /\ d \in Int /\ now \in Int
    BY <1>3 DEF OfDate, Date, SInv, SettingsTypeOK
  <1>6. now < occ[c][d].until => LocalDate(now, occ[c][d].zone) = d
    BY <1>3, <1>4, <1>5, WindowOnItsDate
  <1> QED
    BY <1>2, <1>3, <1>6 DEF InItsWindow

\* A reminder goes out in its window and on its date, wherever the client has
\* moved meanwhile and whatever the clocks do, as long as none jumps across
\* midnight.
THEOREM DateSafety == ASSUME MidnightsAreWhole PROVE Spec => SentOnItsDate
  <1>1. Init => OriginInv
    BY DEF Init, OriginInv, Stages, Polling, Off
  <1>2. IInv /\ IInv' /\ OriginInv /\ [Next]_vars => OriginInv'
    BY OriginNext
  <1>3. IInv /\ OriginInv /\ [Next]_vars =>
          [\A c \in Client, d \in Date :
             At(c, d, "intent") /\ delivery'[c][d].stage = "asked"
             => InItsWindow(c, d)]_vars
    BY PassesOnItsDate
  <1> QED
    BY <1>1, <1>2, <1>3, RemindersInvariant, PTL DEF Spec, SentOnItsDate
=============================================================================
