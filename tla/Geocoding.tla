----------------------------- MODULE Geocoding ------------------------------
(***************************************************************************)
(* GeocodingService: how an address is made of the results of the external *)
(* service.  Names and numbers are abstracted to whether they are present, *)
(* so an address is the set of the fields it is put together from.         *)
(***************************************************************************)

\* A result of the service: what it is, and the non-empty fields it has.
Field == {"area1", "area2", "area3", "name", "number1", "number2", "building"}
Result == [name: {"roadaddr", "addr"}, region: BOOLEAN, land: BOOLEAN, fields: SUBSET Field]

NoAddress == [type |-> "null", parts |-> {}]
Address == [type: {"road", "jibun", "null"}, parts: SUBSET Field]

\* The second number is only written after the first.
CombineLandNumber(r) ==
    IF r.land /\ "number1" \in r.fields THEN {"number1", "number2"} \cap r.fields ELSE {}

\* A street address needs the street; the building follows in brackets.
BuildRoadAddress(r) ==
    IF ~r.region \/ ~r.land \/ "name" \notin r.fields THEN {}
    ELSE ({"area1", "area2", "name", "building"} \cap r.fields) \cup CombineLandNumber(r)

\* A lot address takes what there is.
BuildJibunAddress(r) ==
    IF ~r.region THEN {}
    ELSE ({"area1", "area2", "area3"} \cap r.fields) \cup CombineLandNumber(r)

\* Slip: a street address of the result that has come first, whatever it is.
ParseFirst(results) ==
    LET parts == UNION {BuildRoadAddress(r) : r \in results}
    IN IF results = {} THEN NoAddress ELSE [type |-> "road", parts |-> parts]

\* parseResults: the street if it gives one, else the lot, else null.
ParseResults(results) ==
    LET road == UNION {BuildRoadAddress(r) : r \in {s \in results : s.name = "roadaddr"}}
        jibun == UNION {BuildJibunAddress(r) : r \in {s \in results : s.name = "addr"}}
    IN CASE road # {}                  -> [type |-> "road", parts |-> road]
         [] road = {} /\ jibun # {}    -> [type |-> "jibun", parts |-> jibun]
         [] road = {} /\ jibun = {}    -> NoAddress
=============================================================================
