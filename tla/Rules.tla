--------------------------------- MODULE Rules ---------------------------------
(***************************************************************************)
(* The declarative rules of packages/domain: their schema and evaluation.  *)
(* A rule is a record with an operator; a set of rules holds every rule    *)
(* that its rules are made of.  The callers give a rule no profile and no  *)
(* matter facts, so a fact always reads as null.                           *)
(***************************************************************************)
EXTENDS Integers

CONSTANTS
    Question,       \* the keys a rule may name
    Answer,         \* what a question may be answered with
    Number,         \* the answers that are numbers
    Null,           \* no answer
    Rule

ASSUME RuleAssumption ==
    /\ Null \notin Answer
    /\ Number \subseteq Answer
    /\ \A r \in Rule : /\ r.op \in {"all", "any"} => r.of \subseteq Rule
                       /\ r.op = "not" => r.of \in Rule

\* ruleSchema: what it does not know, anywhere in a rule, makes it invalid.
WellFormed[r \in Rule] ==
    CASE r.op \in {"all", "any"} -> r.of # {} /\ \A child \in r.of : WellFormed[child]
      [] r.op = "not"            -> WellFormed[r.of]
      [] r.op = "oneOf"          -> r.values # {}
      [] r.op \in {"equals", "gte", "exists", "fact"} -> TRUE
      [] OTHER                   -> FALSE

\* evaluateRule, of the answers of a client.
Holds(answers) ==
    LET holds[r \in Rule] ==
          CASE r.op = "all"    -> \A child \in r.of : holds[child]
            [] r.op = "any"    -> \E child \in r.of : holds[child]
            [] r.op = "not"    -> ~holds[r.of]
            [] r.op = "equals" -> answers[r.key] = r.value
            [] r.op = "oneOf"  -> answers[r.key] \in r.values
            [] r.op = "gte"    -> IF answers[r.key] \in Number
                                  THEN answers[r.key] >= r.value ELSE FALSE
            [] r.op = "exists" -> answers[r.key] # Null
            [] r.op = "fact"   -> r.value = Null
            [] OTHER           -> FALSE
    IN  holds

\* faulty: what is wrong in a rule is taken for a condition that is not met
Lenient(r, answers) == Holds(answers)[r]

\* evaluateRuleFailClosed.
Matched(r, answers) == WellFormed[r] /\ Holds(answers)[r]
=============================================================================
