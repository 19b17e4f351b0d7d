------------------------------ MODULE LocalTime ------------------------------
(***************************************************************************)
(* Local dates, quiet hours and reminder windows of packages/domain.       *)
(*                                                                         *)
(* Instants are integers and a local day has DayLength ticks.  A zone has  *)
(* one offset before the instant Transition[z] and one from it on, so it   *)
(* may skip wall-clock times (the clock goes forward) or repeat them.      *)
(***************************************************************************)
EXTENDS Integers

CONSTANTS
    DayLength,          \* ticks of a day
    Zone,               \* time zones
    OffsetBefore,       \* offset of a zone before its transition
    OffsetAfter,        \* offset of a zone after its transition
    Transition,         \* the instant at which a zone changes its offset
    QuietStart,         \* quiet hours, as local times; they may
    QuietEnd,           \* span midnight
    CatchUp             \* how long a reminder may be late

ASSUME LocalTimeAssumption ==
    /\ DayLength \in Nat \ {0}
    /\ OffsetBefore \in [Zone -> Nat]
    /\ OffsetAfter \in [Zone -> Nat]
    /\ Transition \in [Zone -> Nat]
    /\ QuietStart \in 0..(DayLength - 1)
    /\ QuietEnd \in 0..(DayLength - 1)
    /\ QuietStart # QuietEnd
    /\ CatchUp \in Nat

LocalTimes == 0..(DayLength - 1)

\* What the wall clock of zone z shows at instant t, counted in ticks.
Wall(t, z) == t + IF t < Transition[z] THEN OffsetBefore[z] ELSE OffsetAfter[z]

LocalDate(t, z) == Wall(t, z) \div DayLength

LocalTimeAt(t, z) == Wall(t, z) % DayLength

\* The instant at which the wall clock shows time p of date d.  A repeated
\* time is its first instant; a skipped one is read with the offset before the
\* transition, which moves it on by the length of the gap.
Resolve(d, p, z) ==
    LET wall == d * DayLength + p
    IN  IF /\ wall - OffsetBefore[z] >= Transition[z]
           /\ wall - OffsetAfter[z] >= Transition[z]
        THEN wall - OffsetAfter[z]
        ELSE wall - OffsetBefore[z]

InQuietHours(p) ==
    IF QuietStart < QuietEnd THEN QuietStart <= p /\ p < QuietEnd
                             ELSE QuietStart <= p \/ p < QuietEnd

\* A reminder is due at its time and lapses after the catch-up, or at the end
\* of its date.
Window(d, p, z) ==
    LET at == Resolve(d, p, z)
        tomorrow == Resolve(d + 1, 0, z)
    IN  [at |-> at, until |-> IF at + CatchUp < tomorrow THEN at + CatchUp
                                                         ELSE tomorrow]
=============================================================================
