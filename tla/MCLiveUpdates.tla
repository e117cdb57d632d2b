---------------------------- MODULE MCLiveUpdates ----------------------------
(* Small instances of LiveUpdates for TLC. *)
EXTENDS LiveUpdates, TLC

CONSTANTS p1, p2, d1, d2

OnePhoto == {p1}
TwoPhotos == {p1, p2}
PhotoSymmetry == Permutations(TwoPhotos)
OneDevice == {d1}
TwoDevices == {d1, d2}

=============================================================================
