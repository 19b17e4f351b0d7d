--------------------------- MODULE MCMissionEngine ---------------------------
(* Small instances of MissionEngine for TLC. *)
EXTENDS MissionEngine, TLC

CONSTANTS a, b, q1, q2, q3, q4, yes, no, west, east, lens, clock

MCUnlockAt == lens :> 1 @@ clock :> 2

\* Requests and questions are interchangeable.
MCSymmetry == Permutations(Request) \cup Permutations(Question)

\* The client answers with two values while it stays in the first day of its
\* home zone; where the days pass or it travels, every answer is yes.
EditsOrDays ==
    \/ calendar = <<[z \in Zone |-> 1], HomeZone>>
    \/ /\ \A s \in Slot : Range(revisions[s]) \subseteq {yes}
       /\ \A h \in Request : "value" \in DOMAIN job[h] => job[h].value = yes
=============================================================================
