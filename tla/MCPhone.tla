------------------------------ MODULE MCPhone -------------------------------
(* A small instance of Phone for TLC. *)
EXTENDS Phone, TLC

CONSTANTS m1, m2, p1, p2, p3, v1, v2

\* The phone's own position is in the second view; each view holds one of the photos.
Views == (v1 :> {p1}) @@ (v2 :> {p2})

\* Answers of the geocoding service: nothing, a street, a street without a name before a
\* lot, a lot whose second number has no first, a lot of nothing at all.
R(name, fields) == [name |-> name, region |-> TRUE, land |-> TRUE, fields |-> fields]
Answers ==
    { {},
      {R("roadaddr", {"area1", "name", "number1", "building"})},
      {R("roadaddr", {"area1", "number1"}), R("addr", {"area1", "area3", "number2"})},
      {R("addr", {"area3", "number1", "number2"})},
      {R("addr", {"number2"})} }

Names == { <<"jpg", "jpg">>, <<"gif", "webp">>, <<"gif", "gif">> }
=============================================================================
