-------------------------- MODULE VersionWorkflow --------------------------
(***************************************************************************)
(* The life of the versions of one question definition as one              *)
(* administrator after the other sees it: no transactions, no requests in  *)
(* flight, every operation one step.  At most one version is on offer, an  *)
(* approval replaces it, and missions take the version that is on offer.   *)
(***************************************************************************)
EXTENDS Naturals

CONSTANT MaxVersion

VARIABLES status, frozen

workflowVars == <<status, frozen>>

Version == 1 .. MaxVersion

With(s) == {v \in Version : status[v] = s}

Init ==
    /\ status = [v \in Version |-> IF v = 1 THEN "APPROVED" ELSE "none"]
    /\ frozen = {}

\* The versions a draft may be cloned from: what is approved, or anything.
Clonable == IF With("APPROVED") # {} THEN With("APPROVED") ELSE Version \ With("none")

\* Version v follows the newest of them.
Draft(v) ==
    /\ status[v] = "none"
    /\ v - 1 \in Clonable
    /\ \A w \in Clonable : w <= v - 1
    /\ status' = [status EXCEPT ![v] = "DRAFT"]
    /\ UNCHANGED frozen

Approve(v) ==
    /\ status[v] = "DRAFT"
    /\ status' = [w \in Version |-> IF w = v THEN "APPROVED"
                                    ELSE IF status[w] = "APPROVED" THEN "RETIRED"
                                    ELSE status[w]]
    /\ UNCHANGED frozen

Retire(v) ==
    /\ status[v] \in {"DRAFT", "APPROVED"}
    /\ status' = [status EXCEPT ![v] = "RETIRED"]
    /\ UNCHANGED frozen

Freeze(v) ==
    /\ With("APPROVED") = {v}
    /\ frozen' = frozen \cup {v}
    /\ UNCHANGED status

Next == \E v \in Version : Draft(v) \/ Approve(v) \/ Retire(v) \/ Freeze(v)

Spec == Init /\ [][Next]_workflowVars
=============================================================================
