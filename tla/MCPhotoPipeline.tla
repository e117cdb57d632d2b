--------------------------- MODULE MCPhotoPipeline ---------------------------
(* Small instances of PhotoPipeline for TLC. *)
EXTENDS PhotoPipeline

CONSTANTS p1, p2, r1, r2, small, large

OnePhoto == {p1}
TwoPhotos == {p1, p2}
OneRequest == {r1}
TwoRequests == {r1, r2}
OneSize == {small}
TwoSizes == {small, large}

=============================================================================
