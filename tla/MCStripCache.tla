---------------------------- MODULE MCStripCache ----------------------------
(* Small instances of StripCache for TLC. *)
EXTENDS ShareContent, TLC

CONSTANTS p1, p2, v1, v2, all, gps_only

OnePhoto == {p1}
TwoPhotos == {p1, p2}
TwoVisits == {v1, v2}
TwoVariants == {all, gps_only}

Symmetry == Permutations(Photos) \cup Permutations(Visits)

=============================================================================
