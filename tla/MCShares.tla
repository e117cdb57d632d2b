------------------------------ MODULE MCShares ------------------------------
(* Small instances of Shares for TLC. *)
EXTENDS Shares

CONSTANTS s1, s2, t1, v1

OneId == {s1}
TwoIds == {s1, s2}
OneToken == {t1}
OneVisitor == {v1}

=============================================================================
