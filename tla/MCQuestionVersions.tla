------------------------- MODULE MCQuestionVersions -------------------------
(* Small instances of QuestionVersions for TLC.                             *)
EXTENDS QuestionVersions, TLC

CONSTANTS a, b

\* Handlers are interchangeable.
MCRequests == Permutations(Request)
=============================================================================
