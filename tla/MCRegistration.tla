---------------------------- MODULE MCRegistration ----------------------------
(* A small instance of Registration for TLC. *)
EXTENDS Registration, TLC

CONSTANTS p1, p2, i1, i2, s1, b1, b2

\* Phones, invitations and browsers may be exchanged.
Symmetry == Permutations({p1, p2}) \cup Permutations({i1, i2})
                \cup Permutations({b1, b2})
=============================================================================
