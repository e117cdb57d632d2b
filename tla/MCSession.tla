----------------------------- MODULE MCSession -----------------------------
(* Small instances of Session for TLC. *)
EXTENDS Session, TLC

CONSTANTS a, b, r1, r2, g1, g2

Symmetry == Permutations({a, b}) \cup Permutations({r1, r2}) \cup Permutations({g1, g2})
=============================================================================
