-------------------------- MODULE MigrationsProofs --------------------------
(***************************************************************************)
(* Proofs about Migrations: each script, up or down, is carried out to its *)
(* end from the schema of the migrations before it and leaves that of the  *)
(* migrations after it, with whatever extensions are there as well;        *)
(* whatever commands are run, killed or undone, and whoever connects, the  *)
(* transaction stands at one of those stages.                              *)
(***************************************************************************)
EXTENDS Migrations, TLAPS

----------------------------------------------------------------------------
(* Single statements.                                                      *)

\* What an object must find when it is added, and must not outlive.
Needs(o) == PartOf(o) \cup Refers(o)

\* The objects that need o, read off the two tables the other way round.
Dependents(o) ==
    IF o = "users" THEN {"email index", "moment user key", "photo user key", "owner key"}
    ELSE IF o = "moments" THEN {"moment user index", "moment user key", "photo moment key"}
    ELSE IF o = "photos" THEN PhotoObjects \ {"photos"}
    ELSE IF o = "shares" THEN {"token index", "owner index", "expiry index", "owner key"}
    ELSE IF o = "taken_at" THEN {"taken_at index"}
    ELSE IF o = "location" THEN {"location index"}
    ELSE IF o = "postgis" THEN {"location", "postgis_topology"}
    ELSE IF o = "uuid-ossp" THEN {"users", "moments", "photos", "shares"}
    ELSE IF o \in {"target type", "policy type"} THEN {"shares"}
    ELSE {}

\* The two tables agree.
LEMMA DependentsAreAll ==
    ASSUME NEW o, NEW p, o \in Needs(p)
    PROVE  p \in Dependents(o)
BY Zenon DEF Needs, PartOf, Refers, Dependents, PhotoColumns, PhotoObjects

\* Statement s is carried out where the schema is `sees`, and `next` is what it leaves.
Step(s, sees, next) == Allowed(s, sees) /\ next = After(s, sees)

\* An object that is not there yet is added to those it needs.
LEMMA AddWorks ==
    ASSUME NEW o, NEW sees, Needs(o) \subseteq sees, o \notin sees
    PROVE  Step(Add(o), sees, sees \cup {o})
BY DEF Step, Allowed, After, Add, Needs

\* A comment goes to an object that is there.
LEMMA CommentWorks ==
    ASSUME NEW o, NEW sees, o \in sees
    PROVE  Step(Comment(o), sees, sees)
BY DEF Step, Allowed, After, Comment

\* An object that nothing needs any more is dropped, and goes alone.
LEMMA DropWorks ==
    ASSUME NEW o, NEW sees, o \in sees, sees \cap Dependents(o) = {}
    PROVE  Step(Drop(o), sees, sees \ {o})
<1>1. \A p \in sees : o \notin PartOf(p) /\ o \notin Refers(p)
  BY DependentsAreAll DEF Needs
<1> QED
  BY <1>1 DEF Step, Allowed, After, Drop

----------------------------------------------------------------------------
(* Scripts.                                                                *)

\* What the first k statements of a script name, and what they leave of what was there.
Named(op, script, k) == {script[j].on : j \in {i \in 1 .. k : script[i].op = op}}
Stage(base, script, k) == (base \ Named("drop", script, k)) \cup Named("add", script, k)

\* The first k statements are carried out, and leave `sees`.
Leads(base, script, k, sees) ==
    /\ sees = Stage(base, script, k)
    /\ \A i \in 1 .. k : Step(script[i], Stage(base, script, i - 1), Stage(base, script, i))

\* So far nothing was added: a script that drops what it added itself has no such stages.
OnlyDrops(script, k) == Named("add", script, k) = {}

\* What one statement more names.
LEMMA NamedStep ==
    ASSUME NEW script, NEW k \in Nat, NEW op
    PROVE  Named(op, script, k + 1) =
               Named(op, script, k) \cup (IF script[k + 1].op = op THEN {script[k + 1].on} ELSE {})
BY DEF Named

\* One statement more is carried out.
LEMMA LeadsStep ==
    ASSUME NEW base, NEW script, NEW k \in Nat, NEW sees, NEW next,
           Leads(base, script, k, sees), Stage(base, script, k + 1) = next, Step(script[k + 1], sees, next)
    PROVE  Leads(base, script, k + 1, next)
BY DEF Leads

\* No statement, no change.
LEMMA LeadsStart ==
    ASSUME NEW base, NEW script
    PROVE  Leads(base, script, 0, base) /\ OnlyDrops(script, 0)
BY DEF Leads, Stage, Named, OnlyDrops

\* Statement k is the one after j.
Follows(j, k) == j \in Nat /\ k = j + 1

\* No script has more than nine statements.
LEMMA Count ==
    /\ Follows(0, 1) /\ Follows(1, 2) /\ Follows(2, 3) /\ Follows(3, 4) /\ Follows(4, 5)
    /\ Follows(5, 6) /\ Follows(6, 7) /\ Follows(7, 8) /\ Follows(8, 9)
BY DEF Follows

\* The statement adds o.
LEMMA LeadsAdd ==
    ASSUME NEW base, NEW script, NEW j, NEW k, Follows(j, k), NEW sees, NEW o, NEW next,
           Leads(base, script, j, sees), script[k] = Add(o),
           Needs(o) \subseteq sees, o \notin sees, next = sees \cup {o}
    PROVE  Leads(base, script, k, next)
<1>1. Stage(base, script, j + 1) = sees \cup {o}
  BY NamedStep DEF Stage, Add, Leads, Follows
<1>2. Step(script[j + 1], sees, sees \cup {o})
  BY AddWorks DEF Follows
<1> QED
  BY <1>1, <1>2, LeadsStep DEF Follows

\* The statement is a comment on o.
LEMMA LeadsComment ==
    ASSUME NEW base, NEW script, NEW j, NEW k, Follows(j, k), NEW sees, NEW o,
           Leads(base, script, j, sees), script[k] = Comment(o), o \in sees
    PROVE  Leads(base, script, k, sees)
<1>1. Stage(base, script, j + 1) = sees
  BY NamedStep DEF Stage, Comment, Leads, Follows
<1>2. Step(script[j + 1], sees, sees)
  BY CommentWorks DEF Follows
<1> QED
  BY <1>1, <1>2, LeadsStep DEF Follows

\* A comment adds nothing.
LEMMA CommentAddsNothing ==
    ASSUME NEW script, NEW j, NEW k, Follows(j, k), NEW o, script[k] = Comment(o), OnlyDrops(script, j)
    PROVE  OnlyDrops(script, k)
<1>1. script[j + 1].op # "add" /\ j \in Nat
  BY DEF Comment, Follows
<1>2. Named("add", script, j + 1) = Named("add", script, j) \cup {}
  BY <1>1, NamedStep, Zenon
<1> QED
  BY <1>2 DEF OnlyDrops, Follows

\* The statement drops o.
LEMMA LeadsDrop ==
    ASSUME NEW base, NEW script, NEW j, NEW k, Follows(j, k), NEW sees, NEW o, NEW next,
           Leads(base, script, j, sees), OnlyDrops(script, j), script[k] = Drop(o),
           o \in sees, sees \cap Dependents(o) = {}, next = sees \ {o}
    PROVE  Leads(base, script, k, next) /\ OnlyDrops(script, k)
<1>1. Stage(base, script, j + 1) = sees \ {o}
  BY NamedStep DEF Stage, Drop, Leads, Follows, OnlyDrops
<1>2. Step(script[j + 1], sees, sees \ {o})
  BY DropWorks DEF Follows
<1>3. Named("add", script, j + 1) = {}
  BY NamedStep DEF Drop, Follows, OnlyDrops
<1> QED
  BY <1>1, <1>2, <1>3, LeadsStep DEF Follows, OnlyDrops

\* The needs of every object ...
LEMMA NeedsTable ==
    /\ Needs("users") = {"uuid-ossp"}
    /\ Needs("email index") = {"users"}
    /\ Needs("postgis") = {}
    /\ Needs("moments") = {"uuid-ossp"}
    /\ Needs("moment user index") = {"moments"}
    /\ Needs("moment user key") = {"moments", "users"}
    /\ Needs("photos") = {"uuid-ossp"}
    /\ Needs("photo moment index") = {"photos"}
    /\ Needs("photo user index") = {"photos"}
    /\ Needs("photo moment key") = {"moments", "photos"}
    /\ Needs("photo user key") = {"photos", "users"}
    /\ Needs("thumbnail_keys") = {"photos"}
    /\ Needs("processing_status") = {"photos"}
    /\ Needs("taken_at") = {"photos"}
    /\ Needs("location") = {"photos", "postgis"}
    /\ Needs("exif_json") = {"photos"}
    /\ Needs("taken_at index") = {"photos", "taken_at"}
    /\ Needs("location index") = {"location", "photos"}
    /\ Needs("target type") = {}
    /\ Needs("policy type") = {}
    /\ Needs("shares") = {"policy type", "target type", "uuid-ossp"}
    /\ Needs("token index") = {"shares"}
    /\ Needs("owner index") = {"shares"}
    /\ Needs("expiry index") = {"shares"}
    /\ Needs("owner key") = {"shares", "users"}
    /\ Needs("stripped_keys") = {"photos"}
BY Zenon DEF Needs, PartOf, Refers, PhotoColumns

\* ... and what needs it.
LEMMA DependentsTable ==
    /\ Dependents("users") = {"email index", "moment user key", "photo user key", "owner key"}
    /\ Dependents("email index") = {}
    /\ Dependents("postgis") = {"location", "postgis_topology"}
    /\ Dependents("moments") = {"moment user index", "moment user key", "photo moment key"}
    /\ Dependents("moment user index") = {}
    /\ Dependents("moment user key") = {}
    /\ Dependents("photos") = PhotoObjects \ {"photos"}
    /\ Dependents("photo moment index") = {}
    /\ Dependents("photo user index") = {}
    /\ Dependents("photo moment key") = {}
    /\ Dependents("photo user key") = {}
    /\ Dependents("thumbnail_keys") = {}
    /\ Dependents("processing_status") = {}
    /\ Dependents("taken_at") = {"taken_at index"}
    /\ Dependents("location") = {"location index"}
    /\ Dependents("exif_json") = {}
    /\ Dependents("taken_at index") = {}
    /\ Dependents("location index") = {}
    /\ Dependents("target type") = {"shares"}
    /\ Dependents("policy type") = {"shares"}
    /\ Dependents("shares") = {"token index", "owner index", "expiry index", "owner key"}
    /\ Dependents("token index") = {}
    /\ Dependents("owner index") = {}
    /\ Dependents("expiry index") = {}
    /\ Dependents("owner key") = {}
    /\ Dependents("stripped_keys") = {}
BY Zenon DEF Dependents, PhotoObjects, PhotoColumns

----------------------------------------------------------------------------
(* The eighteen scripts, statement by statement.                           *)

\* What the migrations after CreateMoments bring to photos.
FirstPhotoObjects ==
    {"photos", "photo moment index", "photo user index", "photo moment key", "photo user key"}
ProcessingColumns == {"thumbnail_keys", "processing_status"}
ExifObjects == {"taken_at", "location", "exif_json", "taken_at index", "location index"}

\* The three tables the comments go to, and the keys made again around them.
CommentedObjects ==
    {"users", "moments", "photos", "moment user key", "photo moment key", "photo user key"}

\* The users and their index.
LEMMA InitUpFits ==
    ASSUME NEW base
    PROVE  "uuid-ossp" \in base /\ base \cap UserObjects = {} =>
               Leads(base, InitUp, Len(InitUp), base \cup UserObjects)
<1>a. SUFFICES ASSUME "uuid-ossp" \in base, base \cap UserObjects = {}
             PROVE  Leads(base, InitUp, Len(InitUp), base \cup UserObjects)
  OBVIOUS
<1> DEFINE script == InitUp
           S1 == base \cup {"users"}
           S2 == S1 \cup {"email index"}
<1> HIDE DEF script, S1, S2
<1>0. Leads(base, script, 0, base)
  BY LeadsStart
<1>1. Leads(base, script, 1, S1)
  <2>1. /\ Follows(0, 1) /\ script[1] = Add("users")
        /\ Needs("users") \subseteq base /\ "users" \notin base
        /\ S1 = base \cup {"users"}
    BY <1>a, NeedsTable, Count DEF script, S1, InitUp, UserObjects
  <2> QED
    BY <1>0, <2>1, LeadsAdd, Zenon
<1>2. Leads(base, script, 2, S2)
  <2>1. /\ Follows(1, 2) /\ script[2] = Add("email index")
        /\ Needs("email index") \subseteq S1 /\ "email index" \notin S1
        /\ S2 = S1 \cup {"email index"}
    BY <1>a, NeedsTable, Count DEF script, S1, S2, InitUp, UserObjects
  <2> QED
    BY <1>1, <2>1, LeadsAdd, Zenon
<1>3. Len(script) = 2 /\ S2 = base \cup UserObjects
  BY <1>a DEF script, S1, S2, InitUp, UserObjects
<1> QED
  BY <1>2, <1>3 DEF script

\* Undone as long as no key leads to users.
LEMMA InitDownFits ==
    ASSUME NEW base
    PROVE  UserObjects \subseteq base /\ base \cap {"moment user key", "photo user key", "owner key"} = {} =>
               Leads(base, InitDown, Len(InitDown), base \ UserObjects)
<1>a. SUFFICES ASSUME UserObjects \subseteq base,
                      base \cap {"moment user key", "photo user key", "owner key"} = {}
             PROVE  Leads(base, InitDown, Len(InitDown), base \ UserObjects)
  OBVIOUS
<1> DEFINE script == InitDown
           S1 == base \ {"email index"}
           S2 == S1 \ {"users"}
<1> HIDE DEF script, S1, S2
<1>0. Leads(base, script, 0, base) /\ OnlyDrops(script, 0)
  BY LeadsStart
<1>1. Leads(base, script, 1, S1) /\ OnlyDrops(script, 1)
  <2>1. /\ Follows(0, 1) /\ script[1] = Drop("email index")
        /\ "email index" \in base /\ base \cap Dependents("email index") = {}
        /\ S1 = base \ {"email index"}
    BY <1>a, DependentsTable, Count DEF script, S1, InitDown, UserObjects
  <2> QED
    BY <1>0, <2>1, LeadsDrop, Zenon
<1>2. Leads(base, script, 2, S2)
  <2>1. /\ Follows(1, 2) /\ script[2] = Drop("users")
        /\ "users" \in S1 /\ S1 \cap Dependents("users") = {}
        /\ S2 = S1 \ {"users"}
    BY <1>a, DependentsTable, Count DEF script, S1, S2, InitDown, UserObjects
  <2> QED
    BY <1>1, <2>1, LeadsDrop, Zenon
<1>3. Len(script) = 2 /\ S2 = base \ UserObjects
  BY <1>a DEF script, S1, S2, InitDown, UserObjects
<1> QED
  BY <1>2, <1>3 DEF script

\* The extension.
LEMMA EnablePostgisUpFits ==
    ASSUME NEW base
    PROVE  "postgis" \notin base =>
               Leads(base, EnablePostgisUp, Len(EnablePostgisUp), base \cup {"postgis"})
<1>a. SUFFICES ASSUME "postgis" \notin base
             PROVE  Leads(base, EnablePostgisUp, Len(EnablePostgisUp), base \cup {"postgis"})
  OBVIOUS
<1> DEFINE script == EnablePostgisUp
           S1 == base \cup {"postgis"}
<1> HIDE DEF script, S1
<1>0. Leads(base, script, 0, base)
  BY LeadsStart
<1>1. Leads(base, script, 1, S1)
  <2>1. /\ Follows(0, 1) /\ script[1] = Add("postgis")
        /\ Needs("postgis") \subseteq base /\ "postgis" \notin base
        /\ S1 = base \cup {"postgis"}
    BY <1>a, NeedsTable, Count DEF script, S1, EnablePostgisUp
  <2> QED
    BY <1>0, <2>1, LeadsAdd, Zenon
<1>2. Len(script) = 1 /\ S1 = base \cup {"postgis"}
  BY <1>a DEF script, S1, EnablePostgisUp
<1> QED
  BY <1>1, <1>2 DEF script

\* Undone as long as no column is of its type and no extension is built on it.
LEMMA EnablePostgisDownFits ==
    ASSUME NEW base
    PROVE  "postgis" \in base /\ base \cap {"location", "postgis_topology"} = {} =>
               Leads(base, EnablePostgisDown, Len(EnablePostgisDown), base \ {"postgis"})
<1>a. SUFFICES ASSUME "postgis" \in base, base \cap {"location", "postgis_topology"} = {}
             PROVE  Leads(base, EnablePostgisDown, Len(EnablePostgisDown), base \ {"postgis"})
  OBVIOUS
<1> DEFINE script == EnablePostgisDown
           S1 == base \ {"postgis"}
<1> HIDE DEF script, S1
<1>0. Leads(base, script, 0, base) /\ OnlyDrops(script, 0)
  BY LeadsStart
<1>1. Leads(base, script, 1, S1)
  <2>1. /\ Follows(0, 1) /\ script[1] = Drop("postgis")
        /\ "postgis" \in base /\ base \cap Dependents("postgis") = {}
        /\ S1 = base \ {"postgis"}
    BY <1>a, DependentsTable, Count DEF script, S1, EnablePostgisDown
  <2> QED
    BY <1>0, <2>1, LeadsDrop, Zenon
<1>2. Len(script) = 1 /\ S1 = base \ {"postgis"}
  BY <1>a DEF script, S1, EnablePostgisDown
<1> QED
  BY <1>1, <1>2 DEF script

\* The moments, with their index and their key.
LEMMA CreateMomentsUpFits ==
    ASSUME NEW base
    PROVE  {"users", "uuid-ossp"} \subseteq base /\ base \cap MomentObjects = {} =>
               Leads(base, CreateMomentsUp, Len(CreateMomentsUp), base \cup MomentObjects)
<1>a. SUFFICES ASSUME {"users", "uuid-ossp"} \subseteq base, base \cap MomentObjects = {}
             PROVE  Leads(base, CreateMomentsUp, Len(CreateMomentsUp), base \cup MomentObjects)
  OBVIOUS
<1> DEFINE script == CreateMomentsUp
           S1 == base \cup {"moments"}
           S2 == S1 \cup {"moment user index"}
           S3 == S2 \cup {"moment user key"}
<1> HIDE DEF script, S1, S2, S3
<1>0. Leads(base, script, 0, base)
  BY LeadsStart
<1>1. Leads(base, script, 1, S1)
  <2>1. /\ Follows(0, 1) /\ script[1] = Add("moments")
        /\ Needs("moments") \subseteq base /\ "moments" \notin base
        /\ S1 = base \cup {"moments"}
    BY <1>a, NeedsTable, Count DEF script, S1, CreateMomentsUp, MomentObjects
  <2> QED
    BY <1>0, <2>1, LeadsAdd, Zenon
<1>2. Leads(base, script, 2, S2)
  <2>1. /\ Follows(1, 2) /\ script[2] = Add("moment user index")
        /\ Needs("moment user index") \subseteq S1 /\ "moment user index" \notin S1
        /\ S2 = S1 \cup {"moment user index"}
    BY <1>a, NeedsTable, Count DEF script, S1, S2, CreateMomentsUp, MomentObjects
  <2> QED
    BY <1>1, <2>1, LeadsAdd, Zenon
<1>3. Leads(base, script, 3, S3)
  <2>1. /\ Follows(2, 3) /\ script[3] = Add("moment user key")
        /\ Needs("moment user key") \subseteq S2 /\ "moment user key" \notin S2
        /\ S3 = S2 \cup {"moment user key"}
    BY <1>a, NeedsTable, Count DEF script, S1, S2, S3, CreateMomentsUp, MomentObjects
  <2> QED
    BY <1>2, <2>1, LeadsAdd, Zenon
<1>4. Len(script) = 3 /\ S3 = base \cup MomentObjects
  BY <1>a DEF script, S1, S2, S3, CreateMomentsUp, MomentObjects
<1> QED
  BY <1>3, <1>4 DEF script

\* Undone as long as no photo has a moment.
LEMMA CreateMomentsDownFits ==
    ASSUME NEW base
    PROVE  MomentObjects \subseteq base /\ base \cap {"photo moment key"} = {} =>
               Leads(base, CreateMomentsDown, Len(CreateMomentsDown), base \ MomentObjects)
<1>a. SUFFICES ASSUME MomentObjects \subseteq base, base \cap {"photo moment key"} = {}
             PROVE  Leads(base, CreateMomentsDown, Len(CreateMomentsDown), base \ MomentObjects)
  OBVIOUS
<1> DEFINE script == CreateMomentsDown
           S1 == base \ {"moment user key"}
           S2 == S1 \ {"moment user index"}
           S3 == S2 \ {"moments"}
<1> HIDE DEF script, S1, S2, S3
<1>0. Leads(base, script, 0, base) /\ OnlyDrops(script, 0)
  BY LeadsStart
<1>1. Leads(base, script, 1, S1) /\ OnlyDrops(script, 1)
  <2>1. /\ Follows(0, 1) /\ script[1] = Drop("moment user key")
        /\ "moment user key" \in base /\ base \cap Dependents("moment user key") = {}
        /\ S1 = base \ {"moment user key"}
    BY <1>a, DependentsTable, Count DEF script, S1, CreateMomentsDown, MomentObjects
  <2> QED
    BY <1>0, <2>1, LeadsDrop, Zenon
<1>2. Leads(base, script, 2, S2) /\ OnlyDrops(script, 2)
  <2>1. /\ Follows(1, 2) /\ script[2] = Drop("moment user index")
        /\ "moment user index" \in S1 /\ S1 \cap Dependents("moment user index") = {}
        /\ S2 = S1 \ {"moment user index"}
    BY <1>a, DependentsTable, Count DEF script, S1, S2, CreateMomentsDown, MomentObjects
  <2> QED
    BY <1>1, <2>1, LeadsDrop, Zenon
<1>3. Leads(base, script, 3, S3)
  <2>1. /\ Follows(2, 3) /\ script[3] = Drop("moments")
        /\ "moments" \in S2 /\ S2 \cap Dependents("moments") = {}
        /\ S3 = S2 \ {"moments"}
    BY <1>a, DependentsTable, Count DEF script, S1, S2, S3, CreateMomentsDown, MomentObjects
  <2> QED
    BY <1>2, <2>1, LeadsDrop, Zenon
<1>4. Len(script) = 3 /\ S3 = base \ MomentObjects
  BY <1>a DEF script, S1, S2, S3, CreateMomentsDown, MomentObjects
<1> QED
  BY <1>3, <1>4 DEF script

\* The photos, with two indexes and two keys.
LEMMA CreatePhotosUpFits ==
    ASSUME NEW base
    PROVE  {"users", "moments", "uuid-ossp"} \subseteq base /\ base \cap FirstPhotoObjects = {} =>
               Leads(base, CreatePhotosUp, Len(CreatePhotosUp), base \cup FirstPhotoObjects)
<1>a. SUFFICES ASSUME {"users", "moments", "uuid-ossp"} \subseteq base, base \cap FirstPhotoObjects = {}
             PROVE  Leads(base, CreatePhotosUp, Len(CreatePhotosUp), base \cup FirstPhotoObjects)
  OBVIOUS
<1> DEFINE script == CreatePhotosUp
           S1 == base \cup {"photos"}
           S2 == S1 \cup {"photo moment index"}
           S3 == S2 \cup {"photo user index"}
           S4 == S3 \cup {"photo moment key"}
           S5 == S4 \cup {"photo user key"}
<1> HIDE DEF script, S1, S2, S3, S4, S5
<1>0. Leads(base, script, 0, base)
  BY LeadsStart
<1>1. Leads(base, script, 1, S1)
  <2>1. /\ Follows(0, 1) /\ script[1] = Add("photos")
        /\ Needs("photos") \subseteq base /\ "photos" \notin base
        /\ S1 = base \cup {"photos"}
    BY <1>a, NeedsTable, Count DEF script, S1, CreatePhotosUp, FirstPhotoObjects
  <2> QED
    BY <1>0, <2>1, LeadsAdd, Zenon
<1>2. Leads(base, script, 2, S2)
  <2>1. /\ Follows(1, 2) /\ script[2] = Add("photo moment index")
        /\ Needs("photo moment index") \subseteq S1 /\ "photo moment index" \notin S1
        /\ S2 = S1 \cup {"photo moment index"}
    BY <1>a, NeedsTable, Count DEF script, S1, S2, CreatePhotosUp, FirstPhotoObjects
  <2> QED
    BY <1>1, <2>1, LeadsAdd, Zenon
<1>3. Leads(base, script, 3, S3)
  <2>1. /\ Follows(2, 3) /\ script[3] = Add("photo user index")
        /\ Needs("photo user index") \subseteq S2 /\ "photo user index" \notin S2
        /\ S3 = S2 \cup {"photo user index"}
    BY <1>a, NeedsTable, Count DEF script, S1, S2, S3, CreatePhotosUp, FirstPhotoObjects
  <2> QED
    BY <1>2, <2>1, LeadsAdd, Zenon
<1>4. Leads(base, script, 4, S4)
  <2>1. /\ Follows(3, 4) /\ script[4] = Add("photo moment key")
        /\ Needs("photo moment key") \subseteq S3 /\ "photo moment key" \notin S3
        /\ S4 = S3 \cup {"photo moment key"}
    BY <1>a, NeedsTable, Count DEF script, S1, S2, S3, S4, CreatePhotosUp, FirstPhotoObjects
  <2> QED
    BY <1>3, <2>1, LeadsAdd, Zenon
<1>5. Leads(base, script, 5, S5)
  <2>1. /\ Follows(4, 5) /\ script[5] = Add("photo user key")
        /\ Needs("photo user key") \subseteq S4 /\ "photo user key" \notin S4
        /\ S5 = S4 \cup {"photo user key"}
    BY <1>a, NeedsTable, Count DEF script, S1, S2, S3, S4, S5, CreatePhotosUp, FirstPhotoObjects
  <2> QED
    BY <1>4, <2>1, LeadsAdd, Zenon
<1>6. Len(script) = 5 /\ S5 = base \cup FirstPhotoObjects
  BY <1>a DEF script, S1, S2, S3, S4, S5, CreatePhotosUp, FirstPhotoObjects
<1> QED
  BY <1>5, <1>6 DEF script

\* Undone as long as the later columns are not there.
LEMMA CreatePhotosDownFits ==
    ASSUME NEW base
    PROVE  FirstPhotoObjects \subseteq base /\ base \cap PhotoObjects \subseteq FirstPhotoObjects =>
               Leads(base, CreatePhotosDown, Len(CreatePhotosDown), base \ FirstPhotoObjects)
<1>a. SUFFICES ASSUME FirstPhotoObjects \subseteq base,
                      base \cap PhotoObjects \subseteq FirstPhotoObjects
             PROVE  Leads(base, CreatePhotosDown, Len(CreatePhotosDown), base \ FirstPhotoObjects)
  OBVIOUS
<1> DEFINE script == CreatePhotosDown
           S1 == base \ {"photo user key"}
           S2 == S1 \ {"photo moment key"}
           S3 == S2 \ {"photo user index"}
           S4 == S3 \ {"photo moment index"}
           S5 == S4 \ {"photos"}
<1> HIDE DEF script, S1, S2, S3, S4, S5
<1>0. Leads(base, script, 0, base) /\ OnlyDrops(script, 0)
  BY LeadsStart
<1>1. Leads(base, script, 1, S1) /\ OnlyDrops(script, 1)
  <2>1. /\ Follows(0, 1) /\ script[1] = Drop("photo user key")
        /\ "photo user key" \in base /\ base \cap Dependents("photo user key") = {}
        /\ S1 = base \ {"photo user key"}
    BY <1>a, DependentsTable, Count DEF script, S1, CreatePhotosDown, FirstPhotoObjects, PhotoObjects
  <2> QED
    BY <1>0, <2>1, LeadsDrop, Zenon
<1>2. Leads(base, script, 2, S2) /\ OnlyDrops(script, 2)
  <2>1. /\ Follows(1, 2) /\ script[2] = Drop("photo moment key")
        /\ "photo moment key" \in S1 /\ S1 \cap Dependents("photo moment key") = {}
        /\ S2 = S1 \ {"photo moment key"}
    BY <1>a, DependentsTable, Count DEF script, S1, S2, CreatePhotosDown, FirstPhotoObjects,
       PhotoObjects
  <2> QED
    BY <1>1, <2>1, LeadsDrop, Zenon
<1>3. Leads(base, script, 3, S3) /\ OnlyDrops(script, 3)
  <2>1. /\ Follows(2, 3) /\ script[3] = Drop("photo user index")
        /\ "photo user index" \in S2 /\ S2 \cap Dependents("photo user index") = {}
        /\ S3 = S2 \ {"photo user index"}
    BY <1>a, DependentsTable, Count DEF script, S1, S2, S3, CreatePhotosDown, FirstPhotoObjects,
       PhotoObjects
  <2> QED
    BY <1>2, <2>1, LeadsDrop, Zenon
<1>4. Leads(base, script, 4, S4) /\ OnlyDrops(script, 4)
  <2>1. /\ Follows(3, 4) /\ script[4] = Drop("photo moment index")
        /\ "photo moment index" \in S3 /\ S3 \cap Dependents("photo moment index") = {}
        /\ S4 = S3 \ {"photo moment index"}
    BY <1>a, DependentsTable, Count DEF script, S1, S2, S3, S4, CreatePhotosDown, FirstPhotoObjects,
       PhotoObjects
  <2> QED
    BY <1>3, <2>1, LeadsDrop, Zenon
<1>5. Leads(base, script, 5, S5)
  <2>1. /\ Follows(4, 5) /\ script[5] = Drop("photos")
        /\ "photos" \in S4 /\ S4 \cap Dependents("photos") = {}
        /\ S5 = S4 \ {"photos"}
    BY <1>a, DependentsTable, Count DEF script, S1, S2, S3, S4, S5, CreatePhotosDown,
       FirstPhotoObjects, PhotoObjects
  <2> QED
    BY <1>4, <2>1, LeadsDrop, Zenon
<1>6. Len(script) = 5 /\ S5 = base \ FirstPhotoObjects
  BY <1>a DEF script, S1, S2, S3, S4, S5, CreatePhotosDown, FirstPhotoObjects, PhotoObjects
<1> QED
  BY <1>5, <1>6 DEF script

\* The keys come back behind the comments.
LEMMA AddEntityCommentsUpFits ==
    ASSUME NEW base
    PROVE  CommentedObjects \subseteq base =>
               Leads(base, AddEntityCommentsUp, Len(AddEntityCommentsUp), base)
<1>a. SUFFICES ASSUME CommentedObjects \subseteq base
             PROVE  Leads(base, AddEntityCommentsUp, Len(AddEntityCommentsUp), base)
  OBVIOUS
<1> DEFINE script == AddEntityCommentsUp
           S4 == base \ {"moment user key"}
           S5 == S4 \ {"photo moment key"}
           S6 == S5 \ {"photo user key"}
           S7 == S6 \cup {"moment user key"}
           S8 == S7 \cup {"photo moment key"}
           S9 == S8 \cup {"photo user key"}
<1> HIDE DEF script, S4, S5, S6, S7, S8, S9
<1>0. Leads(base, script, 0, base) /\ OnlyDrops(script, 0)
  BY LeadsStart
<1>1. Leads(base, script, 1, base) /\ OnlyDrops(script, 1)
  <2>1. /\ Follows(0, 1) /\ script[1] = Comment("users")
        /\ "users" \in base
    BY <1>a, Count DEF script, AddEntityCommentsUp, CommentedObjects
  <2> QED
    BY <1>0, <2>1, LeadsComment, CommentAddsNothing, Zenon
<1>2. Leads(base, script, 2, base) /\ OnlyDrops(script, 2)
  <2>1. /\ Follows(1, 2) /\ script[2] = Comment("moments")
        /\ "moments" \in base
    BY <1>a, Count DEF script, AddEntityCommentsUp, CommentedObjects
  <2> QED
    BY <1>1, <2>1, LeadsComment, CommentAddsNothing, Zenon
<1>3. Leads(base, script, 3, base) /\ OnlyDrops(script, 3)
  <2>1. /\ Follows(2, 3) /\ script[3] = Comment("photos")
        /\ "photos" \in base
    BY <1>a, Count DEF script, AddEntityCommentsUp, CommentedObjects
  <2> QED
    BY <1>2, <2>1, LeadsComment, CommentAddsNothing, Zenon
<1>4. Leads(base, script, 4, S4) /\ OnlyDrops(script, 4)
  <2>1. /\ Follows(3, 4) /\ script[4] = Drop("moment user key")
        /\ "moment user key" \in base /\ base \cap Dependents("moment user key") = {}
        /\ S4 = base \ {"moment user key"}
    BY <1>a, DependentsTable, Count DEF script, S4, AddEntityCommentsUp, CommentedObjects
  <2> QED
    BY <1>3, <2>1, LeadsDrop, Zenon
<1>5. Leads(base, script, 5, S5) /\ OnlyDrops(script, 5)
  <2>1. /\ Follows(4, 5) /\ script[5] = Drop("photo moment key")
        /\ "photo moment key" \in S4 /\ S4 \cap Dependents("photo moment key") = {}
        /\ S5 = S4 \ {"photo moment key"}
    BY <1>a, DependentsTable, Count DEF script, S4, S5, AddEntityCommentsUp, CommentedObjects
  <2> QED
    BY <1>4, <2>1, LeadsDrop, Zenon
<1>6. Leads(base, script, 6, S6)
  <2>1. /\ Follows(5, 6) /\ script[6] = Drop("photo user key")
        /\ "photo user key" \in S5 /\ S5 \cap Dependents("photo user key") = {}
        /\ S6 = S5 \ {"photo user key"}
    BY <1>a, DependentsTable, Count DEF script, S4, S5, S6, AddEntityCommentsUp, CommentedObjects
  <2> QED
    BY <1>5, <2>1, LeadsDrop, Zenon
<1>7. Leads(base, script, 7, S7)
  <2>1. /\ Follows(6, 7) /\ script[7] = Add("moment user key")
        /\ Needs("moment user key") \subseteq S6 /\ "moment user key" \notin S6
        /\ S7 = S6 \cup {"moment user key"}
    BY <1>a, NeedsTable, Count DEF script, S4, S5, S6, S7, AddEntityCommentsUp, CommentedObjects
  <2> QED
    BY <1>6, <2>1, LeadsAdd, Zenon
<1>8. Leads(base, script, 8, S8)
  <2>1. /\ Follows(7, 8) /\ script[8] = Add("photo moment key")
        /\ Needs("photo moment key") \subseteq S7 /\ "photo moment key" \notin S7
        /\ S8 = S7 \cup {"photo moment key"}
    BY <1>a, NeedsTable, Count DEF script, S4, S5, S6, S7, S8, AddEntityCommentsUp, CommentedObjects
  <2> QED
    BY <1>7, <2>1, LeadsAdd, Zenon
<1>9. Leads(base, script, 9, S9)
  <2>1. /\ Follows(8, 9) /\ script[9] = Add("photo user key")
        /\ Needs("photo user key") \subseteq S8 /\ "photo user key" \notin S8
        /\ S9 = S8 \cup {"photo user key"}
    BY <1>a, NeedsTable, Count DEF script, S4, S5, S6, S7, S8, S9, AddEntityCommentsUp, CommentedObjects
  <2> QED
    BY <1>8, <2>1, LeadsAdd, Zenon
<1>10. Len(script) = 9 /\ S9 = base
  BY <1>a DEF script, S4, S5, S6, S7, S8, S9, AddEntityCommentsUp, CommentedObjects
<1> QED
  BY <1>9, <1>10 DEF script

\* And so they do on the way down.
LEMMA AddEntityCommentsDownFits ==
    ASSUME NEW base
    PROVE  CommentedObjects \subseteq base =>
               Leads(base, AddEntityCommentsDown, Len(AddEntityCommentsDown), base)
<1>a. SUFFICES ASSUME CommentedObjects \subseteq base
             PROVE  Leads(base, AddEntityCommentsDown, Len(AddEntityCommentsDown), base)
  OBVIOUS
<1> DEFINE script == AddEntityCommentsDown
           S1 == base \ {"photo user key"}
           S2 == S1 \ {"photo moment key"}
           S3 == S2 \ {"moment user key"}
           S5 == S3 \cup {"photo user key"}
           S6 == S5 \cup {"photo moment key"}
           S8 == S6 \cup {"moment user key"}
<1> HIDE DEF script, S1, S2, S3, S5, S6, S8
<1>0. Leads(base, script, 0, base) /\ OnlyDrops(script, 0)
  BY LeadsStart
<1>1. Leads(base, script, 1, S1) /\ OnlyDrops(script, 1)
  <2>1. /\ Follows(0, 1) /\ script[1] = Drop("photo user key")
        /\ "photo user key" \in base /\ base \cap Dependents("photo user key") = {}
        /\ S1 = base \ {"photo user key"}
    BY <1>a, DependentsTable, Count DEF script, S1, AddEntityCommentsDown, CommentedObjects
  <2> QED
    BY <1>0, <2>1, LeadsDrop, Zenon
<1>2. Leads(base, script, 2, S2) /\ OnlyDrops(script, 2)
  <2>1. /\ Follows(1, 2) /\ script[2] = Drop("photo moment key")
        /\ "photo moment key" \in S1 /\ S1 \cap Dependents("photo moment key") = {}
        /\ S2 = S1 \ {"photo moment key"}
    BY <1>a, DependentsTable, Count DEF script, S1, S2, AddEntityCommentsDown, CommentedObjects
  <2> QED
    BY <1>1, <2>1, LeadsDrop, Zenon
<1>3. Leads(base, script, 3, S3)
  <2>1. /\ Follows(2, 3) /\ script[3] = Drop("moment user key")
        /\ "moment user key" \in S2 /\ S2 \cap Dependents("moment user key") = {}
        /\ S3 = S2 \ {"moment user key"}
    BY <1>a, DependentsTable, Count DEF script, S1, S2, S3, AddEntityCommentsDown, CommentedObjects
  <2> QED
    BY <1>2, <2>1, LeadsDrop, Zenon
<1>4. Leads(base, script, 4, S3)
  <2>1. /\ Follows(3, 4) /\ script[4] = Comment("photos")
        /\ "photos" \in S3
    BY <1>a, Count DEF script, S1, S2, S3, AddEntityCommentsDown, CommentedObjects
  <2> QED
    BY <1>3, <2>1, LeadsComment, Zenon
<1>5. Leads(base, script, 5, S5)
  <2>1. /\ Follows(4, 5) /\ script[5] = Add("photo user key")
        /\ Needs("photo user key") \subseteq S3 /\ "photo user key" \notin S3
        /\ S5 = S3 \cup {"photo user key"}
    BY <1>a, NeedsTable, Count DEF script, S1, S2, S3, S5, AddEntityCommentsDown, CommentedObjects
  <2> QED
    BY <1>4, <2>1, LeadsAdd, Zenon
<1>6. Leads(base, script, 6, S6)
  <2>1. /\ Follows(5, 6) /\ script[6] = Add("photo moment key")
        /\ Needs("photo moment key") \subseteq S5 /\ "photo moment key" \notin S5
        /\ S6 = S5 \cup {"photo moment key"}
    BY <1>a, NeedsTable, Count DEF script, S1, S2, S3, S5, S6, AddEntityCommentsDown, CommentedObjects
  <2> QED
    BY <1>5, <2>1, LeadsAdd, Zenon
<1>7. Leads(base, script, 7, S6)
  <2>1. /\ Follows(6, 7) /\ script[7] = Comment("moments")
        /\ "moments" \in S6
    BY <1>a, Count DEF script, S1, S2, S3, S5, S6, AddEntityCommentsDown, CommentedObjects
  <2> QED
    BY <1>6, <2>1, LeadsComment, Zenon
<1>8. Leads(base, script, 8, S8)
  <2>1. /\ Follows(7, 8) /\ script[8] = Add("moment user key")
        /\ Needs("moment user key") \subseteq S6 /\ "moment user key" \notin S6
        /\ S8 = S6 \cup {"moment user key"}
    BY <1>a, NeedsTable, Count DEF script, S1, S2, S3, S5, S6, S8, AddEntityCommentsDown,
       CommentedObjects
  <2> QED
    BY <1>7, <2>1, LeadsAdd, Zenon
<1>9. Leads(base, script, 9, S8)
  <2>1. /\ Follows(8, 9) /\ script[9] = Comment("users")
        /\ "users" \in S8
    BY <1>a, Count DEF script, S1, S2, S3, S5, S6, S8, AddEntityCommentsDown, CommentedObjects
  <2> QED
    BY <1>8, <2>1, LeadsComment, Zenon
<1>10. Len(script) = 9 /\ S8 = base
  BY <1>a DEF script, S1, S2, S3, S5, S6, S8, AddEntityCommentsDown, CommentedObjects
<1> QED
  BY <1>9, <1>10 DEF script

\* The two columns of the processing.
LEMMA AugmentPhotosUpFits ==
    ASSUME NEW base
    PROVE  "photos" \in base /\ base \cap ProcessingColumns = {} =>
               Leads(base, AugmentPhotosUp, Len(AugmentPhotosUp), base \cup ProcessingColumns)
<1>a. SUFFICES ASSUME "photos" \in base, base \cap ProcessingColumns = {}
             PROVE  Leads(base, AugmentPhotosUp, Len(AugmentPhotosUp), base \cup ProcessingColumns)
  OBVIOUS
<1> DEFINE script == AugmentPhotosUp
           S1 == base \cup {"thumbnail_keys"}
           S3 == S1 \cup {"processing_status"}
<1> HIDE DEF script, S1, S3
<1>0. Leads(base, script, 0, base)
  BY LeadsStart
<1>1. Leads(base, script, 1, S1)
  <2>1. /\ Follows(0, 1) /\ script[1] = Add("thumbnail_keys")
        /\ Needs("thumbnail_keys") \subseteq base /\ "thumbnail_keys" \notin base
        /\ S1 = base \cup {"thumbnail_keys"}
    BY <1>a, NeedsTable, Count DEF script, S1, AugmentPhotosUp, ProcessingColumns
  <2> QED
    BY <1>0, <2>1, LeadsAdd, Zenon
<1>2. Leads(base, script, 2, S1)
  <2>1. /\ Follows(1, 2) /\ script[2] = Comment("thumbnail_keys")
        /\ "thumbnail_keys" \in S1
    BY <1>a, Count DEF script, S1, AugmentPhotosUp, ProcessingColumns
  <2> QED
    BY <1>1, <2>1, LeadsComment, Zenon
<1>3. Leads(base, script, 3, S3)
  <2>1. /\ Follows(2, 3) /\ script[3] = Add("processing_status")
        /\ Needs("processing_status") \subseteq S1 /\ "processing_status" \notin S1
        /\ S3 = S1 \cup {"processing_status"}
    BY <1>a, NeedsTable, Count DEF script, S1, S3, AugmentPhotosUp, ProcessingColumns
  <2> QED
    BY <1>2, <2>1, LeadsAdd, Zenon
<1>4. Leads(base, script, 4, S3)
  <2>1. /\ Follows(3, 4) /\ script[4] = Comment("processing_status")
        /\ "processing_status" \in S3
    BY <1>a, Count DEF script, S1, S3, AugmentPhotosUp, ProcessingColumns
  <2> QED
    BY <1>3, <2>1, LeadsComment, Zenon
<1>5. Len(script) = 4 /\ S3 = base \cup ProcessingColumns
  BY <1>a DEF script, S1, S3, AugmentPhotosUp, ProcessingColumns
<1> QED
  BY <1>4, <1>5 DEF script

\* Both go, after their comments.
LEMMA AugmentPhotosDownFits ==
    ASSUME NEW base
    PROVE  ProcessingColumns \subseteq base =>
               Leads(base, AugmentPhotosDown, Len(AugmentPhotosDown), base \ ProcessingColumns)
<1>a. SUFFICES ASSUME ProcessingColumns \subseteq base
             PROVE  Leads(base, AugmentPhotosDown, Len(AugmentPhotosDown), base \ ProcessingColumns)
  OBVIOUS
<1> DEFINE script == AugmentPhotosDown
           S2 == base \ {"processing_status"}
           S4 == S2 \ {"thumbnail_keys"}
<1> HIDE DEF script, S2, S4
<1>0. Leads(base, script, 0, base) /\ OnlyDrops(script, 0)
  BY LeadsStart
<1>1. Leads(base, script, 1, base) /\ OnlyDrops(script, 1)
  <2>1. /\ Follows(0, 1) /\ script[1] = Comment("processing_status")
        /\ "processing_status" \in base
    BY <1>a, Count DEF script, AugmentPhotosDown, ProcessingColumns
  <2> QED
    BY <1>0, <2>1, LeadsComment, CommentAddsNothing, Zenon
<1>2. Leads(base, script, 2, S2) /\ OnlyDrops(script, 2)
  <2>1. /\ Follows(1, 2) /\ script[2] = Drop("processing_status")
        /\ "processing_status" \in base /\ base \cap Dependents("processing_status") = {}
        /\ S2 = base \ {"processing_status"}
    BY <1>a, DependentsTable, Count DEF script, S2, AugmentPhotosDown, ProcessingColumns
  <2> QED
    BY <1>1, <2>1, LeadsDrop, Zenon
<1>3. Leads(base, script, 3, S2) /\ OnlyDrops(script, 3)
  <2>1. /\ Follows(2, 3) /\ script[3] = Comment("thumbnail_keys")
        /\ "thumbnail_keys" \in S2
    BY <1>a, Count DEF script, S2, AugmentPhotosDown, ProcessingColumns
  <2> QED
    BY <1>2, <2>1, LeadsComment, CommentAddsNothing, Zenon
<1>4. Leads(base, script, 4, S4)
  <2>1. /\ Follows(3, 4) /\ script[4] = Drop("thumbnail_keys")
        /\ "thumbnail_keys" \in S2 /\ S2 \cap Dependents("thumbnail_keys") = {}
        /\ S4 = S2 \ {"thumbnail_keys"}
    BY <1>a, DependentsTable, Count DEF script, S2, S4, AugmentPhotosDown, ProcessingColumns
  <2> QED
    BY <1>3, <2>1, LeadsDrop, Zenon
<1>5. Len(script) = 4 /\ S4 = base \ ProcessingColumns
  BY <1>a DEF script, S2, S4, AugmentPhotosDown, ProcessingColumns
<1> QED
  BY <1>4, <1>5 DEF script

\* The EXIF columns, then the indexes over them.
LEMMA AddPhotoExifUpFits ==
    ASSUME NEW base
    PROVE  {"photos", "postgis"} \subseteq base /\ base \cap ExifObjects = {} =>
               Leads(base, AddPhotoExifUp, Len(AddPhotoExifUp), base \cup ExifObjects)
<1>a. SUFFICES ASSUME {"photos", "postgis"} \subseteq base, base \cap ExifObjects = {}
             PROVE  Leads(base, AddPhotoExifUp, Len(AddPhotoExifUp), base \cup ExifObjects)
  OBVIOUS
<1> DEFINE script == AddPhotoExifUp
           S1 == base \cup {"taken_at"}
           S3 == S1 \cup {"location"}
           S5 == S3 \cup {"exif_json"}
           S7 == S5 \cup {"taken_at index"}
           S8 == S7 \cup {"location index"}
<1> HIDE DEF script, S1, S3, S5, S7, S8
<1>0. Leads(base, script, 0, base)
  BY LeadsStart
<1>1. Leads(base, script, 1, S1)
  <2>1. /\ Follows(0, 1) /\ script[1] = Add("taken_at")
        /\ Needs("taken_at") \subseteq base /\ "taken_at" \notin base
        /\ S1 = base \cup {"taken_at"}
    BY <1>a, NeedsTable, Count DEF script, S1, AddPhotoExifUp, ExifObjects
  <2> QED
    BY <1>0, <2>1, LeadsAdd, Zenon
<1>2. Leads(base, script, 2, S1)
  <2>1. /\ Follows(1, 2) /\ script[2] = Comment("taken_at")
        /\ "taken_at" \in S1
    BY <1>a, Count DEF script, S1, AddPhotoExifUp, ExifObjects
  <2> QED
    BY <1>1, <2>1, LeadsComment, Zenon
<1>3. Leads(base, script, 3, S3)
  <2>1. /\ Follows(2, 3) /\ script[3] = Add("location")
        /\ Needs("location") \subseteq S1 /\ "location" \notin S1
        /\ S3 = S1 \cup {"location"}
    BY <1>a, NeedsTable, Count DEF script, S1, S3, AddPhotoExifUp, ExifObjects
  <2> QED
    BY <1>2, <2>1, LeadsAdd, Zenon
<1>4. Leads(base, script, 4, S3)
  <2>1. /\ Follows(3, 4) /\ script[4] = Comment("location")
        /\ "location" \in S3
    BY <1>a, Count DEF script, S1, S3, AddPhotoExifUp, ExifObjects
  <2> QED
    BY <1>3, <2>1, LeadsComment, Zenon
<1>5. Leads(base, script, 5, S5)
  <2>1. /\ Follows(4, 5) /\ script[5] = Add("exif_json")
        /\ Needs("exif_json") \subseteq S3 /\ "exif_json" \notin S3
        /\ S5 = S3 \cup {"exif_json"}
    BY <1>a, NeedsTable, Count DEF script, S1, S3, S5, AddPhotoExifUp, ExifObjects
  <2> QED
    BY <1>4, <2>1, LeadsAdd, Zenon
<1>6. Leads(base, script, 6, S5)
  <2>1. /\ Follows(5, 6) /\ script[6] = Comment("exif_json")
        /\ "exif_json" \in S5
    BY <1>a, Count DEF script, S1, S3, S5, AddPhotoExifUp, ExifObjects
  <2> QED
    BY <1>5, <2>1, LeadsComment, Zenon
<1>7. Leads(base, script, 7, S7)
  <2>1. /\ Follows(6, 7) /\ script[7] = Add("taken_at index")
        /\ Needs("taken_at index") \subseteq S5 /\ "taken_at index" \notin S5
        /\ S7 = S5 \cup {"taken_at index"}
    BY <1>a, NeedsTable, Count DEF script, S1, S3, S5, S7, AddPhotoExifUp, ExifObjects
  <2> QED
    BY <1>6, <2>1, LeadsAdd, Zenon
<1>8. Leads(base, script, 8, S8)
  <2>1. /\ Follows(7, 8) /\ script[8] = Add("location index")
        /\ Needs("location index") \subseteq S7 /\ "location index" \notin S7
        /\ S8 = S7 \cup {"location index"}
    BY <1>a, NeedsTable, Count DEF script, S1, S3, S5, S7, S8, AddPhotoExifUp, ExifObjects
  <2> QED
    BY <1>7, <2>1, LeadsAdd, Zenon
<1>9. Len(script) = 8 /\ S8 = base \cup ExifObjects
  BY <1>a DEF script, S1, S3, S5, S7, S8, AddPhotoExifUp, ExifObjects
<1> QED
  BY <1>8, <1>9 DEF script

\* The indexes first, then their columns.
LEMMA AddPhotoExifDownFits ==
    ASSUME NEW base
    PROVE  ExifObjects \subseteq base =>
               Leads(base, AddPhotoExifDown, Len(AddPhotoExifDown), base \ ExifObjects)
<1>a. SUFFICES ASSUME ExifObjects \subseteq base
             PROVE  Leads(base, AddPhotoExifDown, Len(AddPhotoExifDown), base \ ExifObjects)
  OBVIOUS
<1> DEFINE script == AddPhotoExifDown
           S1 == base \ {"location index"}
           S2 == S1 \ {"taken_at index"}
           S4 == S2 \ {"exif_json"}
           S6 == S4 \ {"location"}
           S8 == S6 \ {"taken_at"}
<1> HIDE DEF script, S1, S2, S4, S6, S8
<1>0. Leads(base, script, 0, base) /\ OnlyDrops(script, 0)
  BY LeadsStart
<1>1. Leads(base, script, 1, S1) /\ OnlyDrops(script, 1)
  <2>1. /\ Follows(0, 1) /\ script[1] = Drop("location index")
        /\ "location index" \in base /\ base \cap Dependents("location index") = {}
        /\ S1 = base \ {"location index"}
    BY <1>a, DependentsTable, Count DEF script, S1, AddPhotoExifDown, ExifObjects
  <2> QED
    BY <1>0, <2>1, LeadsDrop, Zenon
<1>2. Leads(base, script, 2, S2) /\ OnlyDrops(script, 2)
  <2>1. /\ Follows(1, 2) /\ script[2] = Drop("taken_at index")
        /\ "taken_at index" \in S1 /\ S1 \cap Dependents("taken_at index") = {}
        /\ S2 = S1 \ {"taken_at index"}
    BY <1>a, DependentsTable, Count DEF script, S1, S2, AddPhotoExifDown, ExifObjects
  <2> QED
    BY <1>1, <2>1, LeadsDrop, Zenon
<1>3. Leads(base, script, 3, S2) /\ OnlyDrops(script, 3)
  <2>1. /\ Follows(2, 3) /\ script[3] = Comment("exif_json")
        /\ "exif_json" \in S2
    BY <1>a, Count DEF script, S1, S2, AddPhotoExifDown, ExifObjects
  <2> QED
    BY <1>2, <2>1, LeadsComment, CommentAddsNothing, Zenon
<1>4. Leads(base, script, 4, S4) /\ OnlyDrops(script, 4)
  <2>1. /\ Follows(3, 4) /\ script[4] = Drop("exif_json")
        /\ "exif_json" \in S2 /\ S2 \cap Dependents("exif_json") = {}
        /\ S4 = S2 \ {"exif_json"}
    BY <1>a, DependentsTable, Count DEF script, S1, S2, S4, AddPhotoExifDown, ExifObjects
  <2> QED
    BY <1>3, <2>1, LeadsDrop, Zenon
<1>5. Leads(base, script, 5, S4) /\ OnlyDrops(script, 5)
  <2>1. /\ Follows(4, 5) /\ script[5] = Comment("location")
        /\ "location" \in S4
    BY <1>a, Count DEF script, S1, S2, S4, AddPhotoExifDown, ExifObjects
  <2> QED
    BY <1>4, <2>1, LeadsComment, CommentAddsNothing, Zenon
<1>6. Leads(base, script, 6, S6) /\ OnlyDrops(script, 6)
  <2>1. /\ Follows(5, 6) /\ script[6] = Drop("location")
        /\ "location" \in S4 /\ S4 \cap Dependents("location") = {}
        /\ S6 = S4 \ {"location"}
    BY <1>a, DependentsTable, Count DEF script, S1, S2, S4, S6, AddPhotoExifDown, ExifObjects
  <2> QED
    BY <1>5, <2>1, LeadsDrop, Zenon
<1>7. Leads(base, script, 7, S6) /\ OnlyDrops(script, 7)
  <2>1. /\ Follows(6, 7) /\ script[7] = Comment("taken_at")
        /\ "taken_at" \in S6
    BY <1>a, Count DEF script, S1, S2, S4, S6, AddPhotoExifDown, ExifObjects
  <2> QED
    BY <1>6, <2>1, LeadsComment, CommentAddsNothing, Zenon
<1>8. Leads(base, script, 8, S8)
  <2>1. /\ Follows(7, 8) /\ script[8] = Drop("taken_at")
        /\ "taken_at" \in S6 /\ S6 \cap Dependents("taken_at") = {}
        /\ S8 = S6 \ {"taken_at"}
    BY <1>a, DependentsTable, Count DEF script, S1, S2, S4, S6, S8, AddPhotoExifDown, ExifObjects
  <2> QED
    BY <1>7, <2>1, LeadsDrop, Zenon
<1>9. Len(script) = 8 /\ S8 = base \ ExifObjects
  BY <1>a DEF script, S1, S2, S4, S6, S8, AddPhotoExifDown, ExifObjects
<1> QED
  BY <1>8, <1>9 DEF script

\* The types before the table, the table before the rest.
LEMMA CreateSharesUpFits ==
    ASSUME NEW base
    PROVE  {"users", "uuid-ossp"} \subseteq base /\ base \cap ShareObjects = {} =>
               Leads(base, CreateSharesUp, Len(CreateSharesUp), base \cup ShareObjects)
<1>a. SUFFICES ASSUME {"users", "uuid-ossp"} \subseteq base, base \cap ShareObjects = {}
             PROVE  Leads(base, CreateSharesUp, Len(CreateSharesUp), base \cup ShareObjects)
  OBVIOUS
<1> DEFINE script == CreateSharesUp
           S1 == base \cup {"target type"}
           S2 == S1 \cup {"policy type"}
           S3 == S2 \cup {"shares"}
           S5 == S3 \cup {"token index"}
           S6 == S5 \cup {"owner index"}
           S7 == S6 \cup {"expiry index"}
           S8 == S7 \cup {"owner key"}
<1> HIDE DEF script, S1, S2, S3, S5, S6, S7, S8
<1>0. Leads(base, script, 0, base)
  BY LeadsStart
<1>1. Leads(base, script, 1, S1)
  <2>1. /\ Follows(0, 1) /\ script[1] = Add("target type")
        /\ Needs("target type") \subseteq base /\ "target type" \notin base
        /\ S1 = base \cup {"target type"}
    BY <1>a, NeedsTable, Count DEF script, S1, CreateSharesUp, ShareObjects
  <2> QED
    BY <1>0, <2>1, LeadsAdd, Zenon
<1>2. Leads(base, script, 2, S2)
  <2>1. /\ Follows(1, 2) /\ script[2] = Add("policy type")
        /\ Needs("policy type") \subseteq S1 /\ "policy type" \notin S1
        /\ S2 = S1 \cup {"policy type"}
    BY <1>a, NeedsTable, Count DEF script, S1, S2, CreateSharesUp, ShareObjects
  <2> QED
    BY <1>1, <2>1, LeadsAdd, Zenon
<1>3. Leads(base, script, 3, S3)
  <2>1. /\ Follows(2, 3) /\ script[3] = Add("shares")
        /\ Needs("shares") \subseteq S2 /\ "shares" \notin S2
        /\ S3 = S2 \cup {"shares"}
    BY <1>a, NeedsTable, Count DEF script, S1, S2, S3, CreateSharesUp, ShareObjects
  <2> QED
    BY <1>2, <2>1, LeadsAdd, Zenon
<1>4. Leads(base, script, 4, S3)
  <2>1. /\ Follows(3, 4) /\ script[4] = Comment("shares")
        /\ "shares" \in S3
    BY <1>a, Count DEF script, S1, S2, S3, CreateSharesUp, ShareObjects
  <2> QED
    BY <1>3, <2>1, LeadsComment, Zenon
<1>5. Leads(base, script, 5, S5)
  <2>1. /\ Follows(4, 5) /\ script[5] = Add("token index")
        /\ Needs("token index") \subseteq S3 /\ "token index" \notin S3
        /\ S5 = S3 \cup {"token index"}
    BY <1>a, NeedsTable, Count DEF script, S1, S2, S3, S5, CreateSharesUp, ShareObjects
  <2> QED
    BY <1>4, <2>1, LeadsAdd, Zenon
<1>6. Leads(base, script, 6, S6)
  <2>1. /\ Follows(5, 6) /\ script[6] = Add("owner index")
        /\ Needs("owner index") \subseteq S5 /\ "owner index" \notin S5
        /\ S6 = S5 \cup {"owner index"}
    BY <1>a, NeedsTable, Count DEF script, S1, S2, S3, S5, S6, CreateSharesUp, ShareObjects
  <2> QED
    BY <1>5, <2>1, LeadsAdd, Zenon
<1>7. Leads(base, script, 7, S7)
  <2>1. /\ Follows(6, 7) /\ script[7] = Add("expiry index")
        /\ Needs("expiry index") \subseteq S6 /\ "expiry index" \notin S6
        /\ S7 = S6 \cup {"expiry index"}
    BY <1>a, NeedsTable, Count DEF script, S1, S2, S3, S5, S6, S7, CreateSharesUp, ShareObjects
  <2> QED
    BY <1>6, <2>1, LeadsAdd, Zenon
<1>8. Leads(base, script, 8, S8)
  <2>1. /\ Follows(7, 8) /\ script[8] = Add("owner key")
        /\ Needs("owner key") \subseteq S7 /\ "owner key" \notin S7
        /\ S8 = S7 \cup {"owner key"}
    BY <1>a, NeedsTable, Count DEF script, S1, S2, S3, S5, S6, S7, S8, CreateSharesUp, ShareObjects
  <2> QED
    BY <1>7, <2>1, LeadsAdd, Zenon
<1>9. Len(script) = 8 /\ S8 = base \cup ShareObjects
  BY <1>a DEF script, S1, S2, S3, S5, S6, S7, S8, CreateSharesUp, ShareObjects
<1> QED
  BY <1>8, <1>9 DEF script

\* And the other way round.
LEMMA CreateSharesDownFits ==
    ASSUME NEW base
    PROVE  ShareObjects \subseteq base =>
               Leads(base, CreateSharesDown, Len(CreateSharesDown), base \ ShareObjects)
<1>a. SUFFICES ASSUME ShareObjects \subseteq base
             PROVE  Leads(base, CreateSharesDown, Len(CreateSharesDown), base \ ShareObjects)
  OBVIOUS
<1> DEFINE script == CreateSharesDown
           S1 == base \ {"owner key"}
           S2 == S1 \ {"expiry index"}
           S3 == S2 \ {"owner index"}
           S4 == S3 \ {"token index"}
           S5 == S4 \ {"shares"}
           S6 == S5 \ {"policy type"}
           S7 == S6 \ {"target type"}
<1> HIDE DEF script, S1, S2, S3, S4, S5, S6, S7
<1>0. Leads(base, script, 0, base) /\ OnlyDrops(script, 0)
  BY LeadsStart
<1>1. Leads(base, script, 1, S1) /\ OnlyDrops(script, 1)
  <2>1. /\ Follows(0, 1) /\ script[1] = Drop("owner key")
        /\ "owner key" \in base /\ base \cap Dependents("owner key") = {}
        /\ S1 = base \ {"owner key"}
    BY <1>a, DependentsTable, Count DEF script, S1, CreateSharesDown, ShareObjects
  <2> QED
    BY <1>0, <2>1, LeadsDrop, Zenon
<1>2. Leads(base, script, 2, S2) /\ OnlyDrops(script, 2)
  <2>1. /\ Follows(1, 2) /\ script[2] = Drop("expiry index")
        /\ "expiry index" \in S1 /\ S1 \cap Dependents("expiry index") = {}
        /\ S2 = S1 \ {"expiry index"}
    BY <1>a, DependentsTable, Count DEF script, S1, S2, CreateSharesDown, ShareObjects
  <2> QED
    BY <1>1, <2>1, LeadsDrop, Zenon
<1>3. Leads(base, script, 3, S3) /\ OnlyDrops(script, 3)
  <2>1. /\ Follows(2, 3) /\ script[3] = Drop("owner index")
        /\ "owner index" \in S2 /\ S2 \cap Dependents("owner index") = {}
        /\ S3 = S2 \ {"owner index"}
    BY <1>a, DependentsTable, Count DEF script, S1, S2, S3, CreateSharesDown, ShareObjects
  <2> QED
    BY <1>2, <2>1, LeadsDrop, Zenon
<1>4. Leads(base, script, 4, S4) /\ OnlyDrops(script, 4)
  <2>1. /\ Follows(3, 4) /\ script[4] = Drop("token index")
        /\ "token index" \in S3 /\ S3 \cap Dependents("token index") = {}
        /\ S4 = S3 \ {"token index"}
    BY <1>a, DependentsTable, Count DEF script, S1, S2, S3, S4, CreateSharesDown, ShareObjects
  <2> QED
    BY <1>3, <2>1, LeadsDrop, Zenon
<1>5. Leads(base, script, 5, S5) /\ OnlyDrops(script, 5)
  <2>1. /\ Follows(4, 5) /\ script[5] = Drop("shares")
        /\ "shares" \in S4 /\ S4 \cap Dependents("shares") = {}
        /\ S5 = S4 \ {"shares"}
    BY <1>a, DependentsTable, Count DEF script, S1, S2, S3, S4, S5, CreateSharesDown, ShareObjects
  <2> QED
    BY <1>4, <2>1, LeadsDrop, Zenon
<1>6. Leads(base, script, 6, S6) /\ OnlyDrops(script, 6)
  <2>1. /\ Follows(5, 6) /\ script[6] = Drop("policy type")
        /\ "policy type" \in S5 /\ S5 \cap Dependents("policy type") = {}
        /\ S6 = S5 \ {"policy type"}
    BY <1>a, DependentsTable, Count DEF script, S1, S2, S3, S4, S5, S6, CreateSharesDown, ShareObjects
  <2> QED
    BY <1>5, <2>1, LeadsDrop, Zenon
<1>7. Leads(base, script, 7, S7)
  <2>1. /\ Follows(6, 7) /\ script[7] = Drop("target type")
        /\ "target type" \in S6 /\ S6 \cap Dependents("target type") = {}
        /\ S7 = S6 \ {"target type"}
    BY <1>a, DependentsTable, Count DEF script, S1, S2, S3, S4, S5, S6, S7, CreateSharesDown,
       ShareObjects
  <2> QED
    BY <1>6, <2>1, LeadsDrop, Zenon
<1>8. Len(script) = 7 /\ S7 = base \ ShareObjects
  BY <1>a DEF script, S1, S2, S3, S4, S5, S6, S7, CreateSharesDown, ShareObjects
<1> QED
  BY <1>7, <1>8 DEF script

\* The column of the stripped copies.
LEMMA AddPhotoStrippedKeysUpFits ==
    ASSUME NEW base
    PROVE  "photos" \in base /\ "stripped_keys" \notin base =>
               Leads(base, AddPhotoStrippedKeysUp, Len(AddPhotoStrippedKeysUp), base \cup {"stripped_keys"})
<1>a. SUFFICES ASSUME "photos" \in base, "stripped_keys" \notin base
             PROVE  Leads(base, AddPhotoStrippedKeysUp, Len(AddPhotoStrippedKeysUp),
                          base \cup {"stripped_keys"})
  OBVIOUS
<1> DEFINE script == AddPhotoStrippedKeysUp
           S1 == base \cup {"stripped_keys"}
<1> HIDE DEF script, S1
<1>0. Leads(base, script, 0, base)
  BY LeadsStart
<1>1. Leads(base, script, 1, S1)
  <2>1. /\ Follows(0, 1) /\ script[1] = Add("stripped_keys")
        /\ Needs("stripped_keys") \subseteq base /\ "stripped_keys" \notin base
        /\ S1 = base \cup {"stripped_keys"}
    BY <1>a, NeedsTable, Count DEF script, S1, AddPhotoStrippedKeysUp
  <2> QED
    BY <1>0, <2>1, LeadsAdd, Zenon
<1>2. Leads(base, script, 2, S1)
  <2>1. /\ Follows(1, 2) /\ script[2] = Comment("stripped_keys")
        /\ "stripped_keys" \in S1
    BY <1>a, Count DEF script, S1, AddPhotoStrippedKeysUp
  <2> QED
    BY <1>1, <2>1, LeadsComment, Zenon
<1>3. Len(script) = 2 /\ S1 = base \cup {"stripped_keys"}
  BY <1>a DEF script, S1, AddPhotoStrippedKeysUp
<1> QED
  BY <1>2, <1>3 DEF script

\* It goes.
LEMMA AddPhotoStrippedKeysDownFits ==
    ASSUME NEW base
    PROVE  "stripped_keys" \in base =>
               Leads(base, AddPhotoStrippedKeysDown, Len(AddPhotoStrippedKeysDown), base \ {"stripped_keys"})
<1>a. SUFFICES ASSUME "stripped_keys" \in base
             PROVE  Leads(base, AddPhotoStrippedKeysDown, Len(AddPhotoStrippedKeysDown),
                          base \ {"stripped_keys"})
  OBVIOUS
<1> DEFINE script == AddPhotoStrippedKeysDown
           S1 == base \ {"stripped_keys"}
<1> HIDE DEF script, S1
<1>0. Leads(base, script, 0, base) /\ OnlyDrops(script, 0)
  BY LeadsStart
<1>1. Leads(base, script, 1, S1)
  <2>1. /\ Follows(0, 1) /\ script[1] = Drop("stripped_keys")
        /\ "stripped_keys" \in base /\ base \cap Dependents("stripped_keys") = {}
        /\ S1 = base \ {"stripped_keys"}
    BY <1>a, DependentsTable, Count DEF script, S1, AddPhotoStrippedKeysDown
  <2> QED
    BY <1>0, <2>1, LeadsDrop, Zenon
<1>2. Len(script) = 1 /\ S1 = base \ {"stripped_keys"}
  BY <1>a DEF script, S1, AddPhotoStrippedKeysDown
<1> QED
  BY <1>1, <1>2 DEF script

----------------------------------------------------------------------------
(* The migrations one after the other.                                     *)

\* A statement knows its object.
LEMMA OnOf ==
    ASSUME NEW o
    PROVE  Add(o).on = o /\ Drop(o).on = o /\ Comment(o).on = o
BY DEF Add, Drop, Comment

\* What each script makes.
LEMMA MakesTable ==
    /\ Makes(InitUp) = UserObjects
    /\ Makes(EnablePostgisUp) = {"postgis"}
    /\ Makes(CreateMomentsUp) = MomentObjects
    /\ Makes(CreatePhotosUp) = FirstPhotoObjects
    /\ Makes(AddEntityCommentsUp) = CommentedObjects
    /\ Makes(AugmentPhotosUp) = ProcessingColumns
    /\ Makes(AddPhotoExifUp) = ExifObjects
    /\ Makes(CreateSharesUp) = ShareObjects
    /\ Makes(AddPhotoStrippedKeysUp) = {"stripped_keys"}
<1>1. Makes(InitUp) = UserObjects
  <2>1. /\ InitUp[1] = Add("users") /\ InitUp[2] = Add("email index")
    BY DEF InitUp
  <2>2. /\ InitUp[1].on = "users" /\ InitUp[2].on = "email index"
    BY <2>1, OnOf, Zenon
  <2>3. DOMAIN InitUp = 1 .. 2
    BY DEF InitUp
  <2>4. UserObjects = {InitUp[1].on, InitUp[2].on}
    BY <2>2 DEF UserObjects
  <2> QED
    BY <2>3, <2>4 DEF Makes
<1>2. Makes(EnablePostgisUp) = {"postgis"}
  BY DEF EnablePostgisUp, Makes, Add
<1>3. Makes(CreateMomentsUp) = MomentObjects
  <2>1. /\ CreateMomentsUp[1] = Add("moments") /\ CreateMomentsUp[2] = Add("moment user index")
        /\ CreateMomentsUp[3] = Add("moment user key")
    BY DEF CreateMomentsUp
  <2>2. /\ CreateMomentsUp[1].on = "moments" /\ CreateMomentsUp[2].on = "moment user index"
        /\ CreateMomentsUp[3].on = "moment user key"
    BY <2>1, OnOf, Zenon
  <2>3. DOMAIN CreateMomentsUp = 1 .. 3
    BY DEF CreateMomentsUp
  <2>4. MomentObjects = {CreateMomentsUp[1].on, CreateMomentsUp[2].on, CreateMomentsUp[3].on}
    BY <2>2 DEF MomentObjects
  <2> QED
    BY <2>3, <2>4 DEF Makes
<1>4. Makes(CreatePhotosUp) = FirstPhotoObjects
  <2>1. /\ CreatePhotosUp[1] = Add("photos") /\ CreatePhotosUp[2] = Add("photo moment index")
        /\ CreatePhotosUp[3] = Add("photo user index") /\ CreatePhotosUp[4] = Add("photo moment key")
        /\ CreatePhotosUp[5] = Add("photo user key")
    BY DEF CreatePhotosUp
  <2>2. /\ CreatePhotosUp[1].on = "photos" /\ CreatePhotosUp[2].on = "photo moment index"
        /\ CreatePhotosUp[3].on = "photo user index" /\ CreatePhotosUp[4].on = "photo moment key"
        /\ CreatePhotosUp[5].on = "photo user key"
    BY <2>1, OnOf, Zenon
  <2>3. DOMAIN CreatePhotosUp = 1 .. 5
    BY DEF CreatePhotosUp
  <2>4. FirstPhotoObjects = {CreatePhotosUp[1].on, CreatePhotosUp[2].on, CreatePhotosUp[3].on,
              CreatePhotosUp[4].on, CreatePhotosUp[5].on}
    BY <2>2 DEF FirstPhotoObjects
  <2> QED
    BY <2>3, <2>4 DEF Makes
<1>5. Makes(AddEntityCommentsUp) = CommentedObjects
  <2>1. /\ AddEntityCommentsUp[1] = Comment("users") /\ AddEntityCommentsUp[2] = Comment("moments")
        /\ AddEntityCommentsUp[3] = Comment("photos") /\ AddEntityCommentsUp[4] = Drop("moment user key")
        /\ AddEntityCommentsUp[5] = Drop("photo moment key") /\ AddEntityCommentsUp[6] = Drop("photo user key")
        /\ AddEntityCommentsUp[7] = Add("moment user key") /\ AddEntityCommentsUp[8] = Add("photo moment key")
        /\ AddEntityCommentsUp[9] = Add("photo user key")
    BY DEF AddEntityCommentsUp
  <2>2. /\ AddEntityCommentsUp[1].on = "users" /\ AddEntityCommentsUp[2].on = "moments"
        /\ AddEntityCommentsUp[3].on = "photos" /\ AddEntityCommentsUp[4].on = "moment user key"
        /\ AddEntityCommentsUp[5].on = "photo moment key" /\ AddEntityCommentsUp[6].on = "photo user key"
        /\ AddEntityCommentsUp[7].on = "moment user key" /\ AddEntityCommentsUp[8].on = "photo moment key"
        /\ AddEntityCommentsUp[9].on = "photo user key"
    BY <2>1, OnOf, Zenon
  <2>3. DOMAIN AddEntityCommentsUp = 1 .. 9
    BY DEF AddEntityCommentsUp
  <2>4. CommentedObjects = {AddEntityCommentsUp[1].on, AddEntityCommentsUp[2].on, AddEntityCommentsUp[3].on,
              AddEntityCommentsUp[4].on, AddEntityCommentsUp[5].on, AddEntityCommentsUp[6].on,
              AddEntityCommentsUp[7].on, AddEntityCommentsUp[8].on, AddEntityCommentsUp[9].on}
    BY <2>2 DEF CommentedObjects
  <2> QED
    BY <2>3, <2>4 DEF Makes
<1>6. Makes(AugmentPhotosUp) = ProcessingColumns
  <2>1. /\ AugmentPhotosUp[1] = Add("thumbnail_keys") /\ AugmentPhotosUp[2] = Comment("thumbnail_keys")
        /\ AugmentPhotosUp[3] = Add("processing_status") /\ AugmentPhotosUp[4] = Comment("processing_status")
    BY DEF AugmentPhotosUp
  <2>2. /\ AugmentPhotosUp[1].on = "thumbnail_keys" /\ AugmentPhotosUp[2].on = "thumbnail_keys"
        /\ AugmentPhotosUp[3].on = "processing_status" /\ AugmentPhotosUp[4].on = "processing_status"
    BY <2>1, OnOf, Zenon
  <2>3. DOMAIN AugmentPhotosUp = 1 .. 4
    BY DEF AugmentPhotosUp
  <2>4. ProcessingColumns = {AugmentPhotosUp[1].on, AugmentPhotosUp[2].on, AugmentPhotosUp[3].on,
              AugmentPhotosUp[4].on}
    BY <2>2 DEF ProcessingColumns
  <2> QED
    BY <2>3, <2>4 DEF Makes
<1>7. Makes(AddPhotoExifUp) = ExifObjects
  <2>1. /\ AddPhotoExifUp[1] = Add("taken_at") /\ AddPhotoExifUp[2] = Comment("taken_at")
        /\ AddPhotoExifUp[3] = Add("location") /\ AddPhotoExifUp[4] = Comment("location")
        /\ AddPhotoExifUp[5] = Add("exif_json") /\ AddPhotoExifUp[6] = Comment("exif_json")
        /\ AddPhotoExifUp[7] = Add("taken_at index") /\ AddPhotoExifUp[8] = Add("location index")
    BY DEF AddPhotoExifUp
  <2>2. /\ AddPhotoExifUp[1].on = "taken_at" /\ AddPhotoExifUp[2].on = "taken_at"
        /\ AddPhotoExifUp[3].on = "location" /\ AddPhotoExifUp[4].on = "location"
        /\ AddPhotoExifUp[5].on = "exif_json" /\ AddPhotoExifUp[6].on = "exif_json"
        /\ AddPhotoExifUp[7].on = "taken_at index" /\ AddPhotoExifUp[8].on = "location index"
    BY <2>1, OnOf, Zenon
  <2>3. DOMAIN AddPhotoExifUp = 1 .. 8
    BY DEF AddPhotoExifUp
  <2>4. ExifObjects = {AddPhotoExifUp[1].on, AddPhotoExifUp[2].on, AddPhotoExifUp[3].on,
              AddPhotoExifUp[4].on, AddPhotoExifUp[5].on, AddPhotoExifUp[6].on,
              AddPhotoExifUp[7].on, AddPhotoExifUp[8].on}
    BY <2>2 DEF ExifObjects
  <2> QED
    BY <2>3, <2>4 DEF Makes
<1>8. Makes(CreateSharesUp) = ShareObjects
  <2>1. /\ CreateSharesUp[1] = Add("target type") /\ CreateSharesUp[2] = Add("policy type")
        /\ CreateSharesUp[3] = Add("shares") /\ CreateSharesUp[4] = Comment("shares")
        /\ CreateSharesUp[5] = Add("token index") /\ CreateSharesUp[6] = Add("owner index")
        /\ CreateSharesUp[7] = Add("expiry index") /\ CreateSharesUp[8] = Add("owner key")
    BY DEF CreateSharesUp
  <2>2. /\ CreateSharesUp[1].on = "target type" /\ CreateSharesUp[2].on = "policy type"
        /\ CreateSharesUp[3].on = "shares" /\ CreateSharesUp[4].on = "shares"
        /\ CreateSharesUp[5].on = "token index" /\ CreateSharesUp[6].on = "owner index"
        /\ CreateSharesUp[7].on = "expiry index" /\ CreateSharesUp[8].on = "owner key"
    BY <2>1, OnOf, Zenon
  <2>3. DOMAIN CreateSharesUp = 1 .. 8
    BY DEF CreateSharesUp
  <2>4. ShareObjects = {CreateSharesUp[1].on, CreateSharesUp[2].on, CreateSharesUp[3].on,
              CreateSharesUp[4].on, CreateSharesUp[5].on, CreateSharesUp[6].on,
              CreateSharesUp[7].on, CreateSharesUp[8].on}
    BY <2>2 DEF ShareObjects
  <2> QED
    BY <2>3, <2>4 DEF Makes
<1>9. Makes(AddPhotoStrippedKeysUp) = {"stripped_keys"}
  BY DEF AddPhotoStrippedKeysUp, Makes, Add, Comment
<1> QED
  BY <1>1, <1>2, <1>3, <1>4, <1>5, <1>6, <1>7, <1>8, <1>9

\* The next migration makes its own on top of what there is.
LEMMA MadeStep ==
    ASSUME NEW n \in Nat
    PROVE  Made(n + 1) = Made(n) \cup Makes(Up[n + 1])
BY DEF Made

\* The schema after each migration.
LEMMA MadeTable ==
    /\ Made(0) = {}
    /\ Made(1) = UserObjects
    /\ Made(2) = Made(1) \cup {"postgis"}
    /\ Made(3) = Made(2) \cup MomentObjects
    /\ Made(4) = Made(3) \cup FirstPhotoObjects
    /\ Made(5) = Made(4) \cup CommentedObjects
    /\ Made(6) = Made(5) \cup ProcessingColumns
    /\ Made(7) = Made(6) \cup ExifObjects
    /\ Made(8) = Made(7) \cup ShareObjects
    /\ Made(9) = Made(8) \cup {"stripped_keys"}
<1>0. Made(0) = {}
  BY DEF Made
<1>1. /\ Made(0 + 1) = Made(0) \cup Makes(Up[0 + 1])
      /\ Made(1 + 1) = Made(1) \cup Makes(Up[1 + 1])
      /\ Made(2 + 1) = Made(2) \cup Makes(Up[2 + 1])
      /\ Made(3 + 1) = Made(3) \cup Makes(Up[3 + 1])
      /\ Made(4 + 1) = Made(4) \cup Makes(Up[4 + 1])
      /\ Made(5 + 1) = Made(5) \cup Makes(Up[5 + 1])
      /\ Made(6 + 1) = Made(6) \cup Makes(Up[6 + 1])
      /\ Made(7 + 1) = Made(7) \cup Makes(Up[7 + 1])
      /\ Made(8 + 1) = Made(8) \cup Makes(Up[8 + 1])
  BY MadeStep
<1> QED
  BY <1>0, <1>1, MakesTable DEF Up

\* What the first n migrations make, with the extension that every table needs.
Core(n) == Made(n) \cup {"uuid-ossp"}

\* The script leads from the schema of the first n migrations to that of the first `next`.
Fits(script, n, next) == Leads(Core(n), script, Len(script), Core(next))

\* On the way up every migration finds what it needs in those before it.
LEMMA UpsFit ==
    /\ Fits(InitUp, 0, 1) /\ Fits(EnablePostgisUp, 1, 2) /\ Fits(CreateMomentsUp, 2, 3)
    /\ Fits(CreatePhotosUp, 3, 4) /\ Fits(AddEntityCommentsUp, 4, 5) /\ Fits(AugmentPhotosUp, 5, 6)
    /\ Fits(AddPhotoExifUp, 6, 7) /\ Fits(CreateSharesUp, 7, 8) /\ Fits(AddPhotoStrippedKeysUp, 8, 9)
<1>1. Fits(InitUp, 0, 1)
  <2>1. "uuid-ossp" \in Core(0) /\ Core(0) \cap UserObjects = {} /\ Core(1) = Core(0) \cup UserObjects
    BY MadeTable DEF Core, UserObjects
  <2> QED
    BY <2>1, InitUpFits DEF Fits
<1>2. Fits(EnablePostgisUp, 1, 2)
  <2>1. "postgis" \notin Core(1) /\ Core(2) = Core(1) \cup {"postgis"}
    BY MadeTable DEF Core, UserObjects
  <2> QED
    BY <2>1, EnablePostgisUpFits DEF Fits
<1>3. Fits(CreateMomentsUp, 2, 3)
  <2>1. /\ {"users", "uuid-ossp"} \subseteq Core(2) /\ Core(2) \cap MomentObjects = {}
        /\ Core(3) = Core(2) \cup MomentObjects
    BY MadeTable DEF Core, UserObjects, MomentObjects
  <2> QED
    BY <2>1, CreateMomentsUpFits DEF Fits
<1>4. Fits(CreatePhotosUp, 3, 4)
  <2>1. /\ {"users", "moments", "uuid-ossp"} \subseteq Core(3) /\ Core(3) \cap FirstPhotoObjects = {}
        /\ Core(4) = Core(3) \cup FirstPhotoObjects
    BY MadeTable DEF Core, UserObjects, MomentObjects, FirstPhotoObjects
  <2> QED
    BY <2>1, CreatePhotosUpFits DEF Fits
<1>5. Fits(AddEntityCommentsUp, 4, 5)
  <2>1. CommentedObjects \subseteq Core(4) /\ Core(5) = Core(4)
    BY MadeTable DEF Core, UserObjects, MomentObjects, FirstPhotoObjects, CommentedObjects
  <2> QED
    BY <2>1, AddEntityCommentsUpFits DEF Fits
<1>6. Fits(AugmentPhotosUp, 5, 6)
  <2>1. /\ "photos" \in Core(5) /\ Core(5) \cap ProcessingColumns = {}
        /\ Core(6) = Core(5) \cup ProcessingColumns
    BY MadeTable DEF Core, UserObjects, MomentObjects, FirstPhotoObjects, CommentedObjects, ProcessingColumns
  <2> QED
    BY <2>1, AugmentPhotosUpFits DEF Fits
<1>7. Fits(AddPhotoExifUp, 6, 7)
  <2>1. /\ {"photos", "postgis"} \subseteq Core(6) /\ Core(6) \cap ExifObjects = {}
        /\ Core(7) = Core(6) \cup ExifObjects
    BY MadeTable DEF Core, UserObjects, MomentObjects, FirstPhotoObjects, CommentedObjects,
       ProcessingColumns, ExifObjects
  <2> QED
    BY <2>1, AddPhotoExifUpFits DEF Fits
<1>8. Fits(CreateSharesUp, 7, 8)
  <2>1. /\ {"users", "uuid-ossp"} \subseteq Core(7) /\ Core(7) \cap ShareObjects = {}
        /\ Core(8) = Core(7) \cup ShareObjects
    BY MadeTable DEF Core, UserObjects, MomentObjects, FirstPhotoObjects, CommentedObjects, ProcessingColumns,
                     ExifObjects, ShareObjects
  <2> QED
    BY <2>1, CreateSharesUpFits DEF Fits
<1>9. Fits(AddPhotoStrippedKeysUp, 8, 9)
  <2>1. /\ "photos" \in Core(8) /\ "stripped_keys" \notin Core(8)
        /\ Core(9) = Core(8) \cup {"stripped_keys"}
    BY MadeTable DEF Core, UserObjects, MomentObjects, FirstPhotoObjects, CommentedObjects, ProcessingColumns,
                     ExifObjects, ShareObjects
  <2> QED
    BY <2>1, AddPhotoStrippedKeysUpFits DEF Fits
<1> QED
  BY <1>1, <1>2, <1>3, <1>4, <1>5, <1>6, <1>7, <1>8, <1>9

\* On the way down every migration leaves what those before it made, no more and no less.
LEMMA DownsFit ==
    /\ Fits(InitDown, 1, 0) /\ Fits(EnablePostgisDown, 2, 1) /\ Fits(CreateMomentsDown, 3, 2)
    /\ Fits(CreatePhotosDown, 4, 3) /\ Fits(AddEntityCommentsDown, 5, 4) /\ Fits(AugmentPhotosDown, 6, 5)
    /\ Fits(AddPhotoExifDown, 7, 6) /\ Fits(CreateSharesDown, 8, 7) /\ Fits(AddPhotoStrippedKeysDown, 9, 8)
<1>1. Fits(InitDown, 1, 0)
  <2>1. /\ UserObjects \subseteq Core(1) /\ Core(0) = Core(1) \ UserObjects
        /\ Core(1) \cap {"moment user key", "photo user key", "owner key"} = {}
    BY MadeTable DEF Core, UserObjects
  <2> QED
    BY <2>1, InitDownFits DEF Fits
<1>2. Fits(EnablePostgisDown, 2, 1)
  <2>1. /\ "postgis" \in Core(2) /\ Core(2) \cap {"location", "postgis_topology"} = {}
        /\ Core(1) = Core(2) \ {"postgis"}
    BY MadeTable DEF Core, UserObjects
  <2> QED
    BY <2>1, EnablePostgisDownFits DEF Fits
<1>3. Fits(CreateMomentsDown, 3, 2)
  <2>1. /\ MomentObjects \subseteq Core(3) /\ Core(3) \cap {"photo moment key"} = {}
        /\ Core(2) = Core(3) \ MomentObjects
    BY MadeTable DEF Core, UserObjects, MomentObjects
  <2> QED
    BY <2>1, CreateMomentsDownFits DEF Fits
<1>4. Fits(CreatePhotosDown, 4, 3)
  <2>1. /\ FirstPhotoObjects \subseteq Core(4) /\ Core(4) \cap PhotoObjects \subseteq FirstPhotoObjects
        /\ Core(3) = Core(4) \ FirstPhotoObjects
    BY MadeTable DEF Core, UserObjects, MomentObjects, FirstPhotoObjects, PhotoObjects, PhotoColumns
  <2> QED
    BY <2>1, CreatePhotosDownFits DEF Fits
<1>5. Fits(AddEntityCommentsDown, 5, 4)
  <2>1. CommentedObjects \subseteq Core(5) /\ Core(4) = Core(5)
    BY MadeTable DEF Core, UserObjects, MomentObjects, FirstPhotoObjects, CommentedObjects
  <2> QED
    BY <2>1, AddEntityCommentsDownFits DEF Fits
<1>6. Fits(AugmentPhotosDown, 6, 5)
  <2>1. /\ ProcessingColumns \subseteq Core(6) /\ Core(5) = Core(6) \ ProcessingColumns
    BY MadeTable DEF Core, UserObjects, MomentObjects, FirstPhotoObjects, CommentedObjects, ProcessingColumns
  <2> QED
    BY <2>1, AugmentPhotosDownFits DEF Fits
<1>7. Fits(AddPhotoExifDown, 7, 6)
  <2>1. /\ ExifObjects \subseteq Core(7) /\ Core(6) = Core(7) \ ExifObjects
    BY MadeTable DEF Core, UserObjects, MomentObjects, FirstPhotoObjects, CommentedObjects,
       ProcessingColumns, ExifObjects
  <2> QED
    BY <2>1, AddPhotoExifDownFits DEF Fits
<1>8. Fits(CreateSharesDown, 8, 7)
  <2>1. /\ ShareObjects \subseteq Core(8) /\ Core(7) = Core(8) \ ShareObjects
    BY MadeTable DEF Core, UserObjects, MomentObjects, FirstPhotoObjects, CommentedObjects, ProcessingColumns,
                     ExifObjects, ShareObjects
  <2> QED
    BY <2>1, CreateSharesDownFits DEF Fits
<1>9. Fits(AddPhotoStrippedKeysDown, 9, 8)
  <2>1. /\ "stripped_keys" \in Core(9) /\ Core(8) = Core(9) \ {"stripped_keys"}
    BY MadeTable DEF Core, UserObjects, MomentObjects, FirstPhotoObjects, CommentedObjects, ProcessingColumns,
                     ExifObjects, ShareObjects
  <2> QED
    BY <2>1, AddPhotoStrippedKeysDownFits DEF Fits
<1> QED
  BY <1>1, <1>2, <1>3, <1>4, <1>5, <1>6, <1>7, <1>8, <1>9

\* The migrations applied once the script that takes `done` towards `to` is over.
Onward(to, done) == IF to > done THEN done + 1 ELSE done - 1

\* Whichever way a command goes, its next script fits.
LEMMA ScriptFits ==
    ASSUME NEW to \in 0 .. Latest, NEW done \in 0 .. Latest, to # done
    PROVE  /\ Onward(to, done) \in 0 .. Latest
           /\ Len(Script(to, done)) \in Nat
           /\ Leads(Core(done), Script(to, done), Len(Script(to, done)), Core(Onward(to, done)))
<1>1. Latest = 9
  BY DEF Latest, Up
<1>2. CASE to > done
  <2>1. Script(to, done) = Up[done + 1] /\ Onward(to, done) = done + 1 /\ done \in 0 .. 8
    BY <1>1, <1>2 DEF Script, Onward
  <2>2. \A n \in 0 .. 8 : Fits(Up[n + 1], n, n + 1) /\ Len(Up[n + 1]) \in Nat
    BY UpsFit DEF Up
  <2>3. Leads(Core(done), Up[done + 1], Len(Up[done + 1]), Core(done + 1)) /\ Len(Up[done + 1]) \in Nat
    BY <2>1, <2>2 DEF Fits
  <2> QED
    BY <1>1, <2>1, <2>3
<1>3. CASE ~(to > done)
  <2>1. Script(to, done) = Down[done] /\ Onward(to, done) = done - 1 /\ done \in 1 .. 9
    BY <1>1, <1>3 DEF Script, Onward
  <2>2. \A n \in 1 .. 9 : Fits(Down[n], n, n - 1) /\ Len(Down[n]) \in Nat
    BY DownsFit DEF Down
  <2>3. Leads(Core(done), Down[done], Len(Down[done]), Core(done - 1)) /\ Len(Down[done]) \in Nat
    BY <2>1, <2>2 DEF Fits
  <2> QED
    BY <1>1, <2>1, <2>3
<1> QED
  BY <1>2, <1>3

----------------------------------------------------------------------------
(* The commands.                                                           *)

\* The one statement that may be refused.
Refused(s, sees) == s.op = "drop" /\ s.on = "postgis" /\ "postgis_topology" \in sees

\* A schema is a stage of a script but for extensions, which may be there as well.
Extends(sees, stage) == \E others \in SUBSET Extensions : sees = stage \cup others

\* A statement that is carried out without some extensions is carried out with them, and
\* leaves them or fewer: none is in its way but the one that keeps PostGIS from being
\* dropped.
LEMMA StepAmongOthers ==
    ASSUME NEW s, NEW stage, NEW next, NEW sees, Extends(sees, stage), Step(s, stage, next)
    PROVE  (Allowed(s, sees) \/ Refused(s, sees)) /\ Extends(After(s, sees), next)
<1>0. PICK others \in SUBSET Extensions : sees = stage \cup others
  BY DEF Extends
<1>1. \A o \in others : \A p \in Refers(o) : o = "postgis_topology" /\ p = "postgis"
  BY DEF Refers, Extensions
<1>2. CASE s.op = "add"
  <2>1. Allowed(s, sees)
    BY <1>0, <1>2 DEF Step, Allowed
  <2>2. After(s, sees) = next \cup others
    BY <1>0, <1>2 DEF Step, After
  <2> QED
    BY <2>1, <2>2 DEF Extends
<1>3. CASE s.op = "drop"
  <2>1. Allowed(s, sees) \/ Refused(s, sees)
    BY <1>0, <1>1, <1>3 DEF Step, Allowed, Refused
  <2> DEFINE rest == {o \in others : o # s.on /\ s.on \notin PartOf(o)}
  <2>2. After(s, sees) = next \cup rest
    BY <1>0, <1>3 DEF Step, After
  <2>3. rest \in SUBSET Extensions
    OBVIOUS
  <2> QED
    BY <2>1, <2>2, <2>3 DEF Extends
<1>4. CASE s.op \notin {"add", "drop"}
  <2>1. Allowed(s, sees)
    BY <1>0, <1>4 DEF Step, Allowed
  <2>2. After(s, sees) = next \cup others
    BY <1>0, <1>4 DEF Step, After
  <2> QED
    BY <2>1, <2>2 DEF Extends
<1> QED
  BY <1>2, <1>3, <1>4

\* What the statements carried out so far have left of what the migrations made.
Left(to, done, at) ==
    IF to = done THEN Core(done) ELSE Stage(Core(done), Script(to, done), at - 1)

\* How far a command can be: behind its last statement the migration is to be recorded.
Ways(to, done) == 1 .. (IF to = done THEN 1 ELSE Len(Script(to, done)) + 1)

\* A command on its way sees that, and whatever extensions are there as well.
Underway(to, done, at) ==
    /\ tx = [to |-> to, done |-> done, at |-> at, sees |-> tx.sees]
    /\ Extends(tx.sees, Left(to, done, at))

\* The inductive invariant: between two commands the schema is that of the migrations
\* applied, and the transaction of a command stands at a stage of a script.
Inductive ==
    /\ applied \in 0 .. Latest
    /\ SchemaIsOfApplied
    /\ tx = Idle \/ \E to, done \in 0 .. Latest : \E at \in Ways(to, done) : Underway(to, done, at)

\* A migration begins where the one before it has ended.
LEMMA Beginning ==
    ASSUME NEW to \in 0 .. Latest, NEW done \in 0 .. Latest
    PROVE  1 \in Ways(to, done) /\ Left(to, done, 1) = Core(done)
<1>1. Stage(Core(done), Script(to, done), 0) = Core(done)
  BY LeadsStart DEF Leads
<1>2. to # done => Len(Script(to, done)) \in Nat
  BY ScriptFits
<1> QED
  BY <1>1, <1>2 DEF Left, Ways

\* Nothing is applied and nothing is being run; only extensions are there.
LEMMA InitInductive == Init => Inductive
<1> SUFFICES ASSUME Init PROVE Inductive
  OBVIOUS
<1>1. 0 \in 0 .. Latest
  BY DEF Latest, Up
<1> QED
  BY <1>1, MadeTable DEF Init, Inductive, SchemaIsOfApplied

\* The statement a command has come to can be carried out, and leads to the next stage.
LEMMA DueWorks ==
    ASSUME NEW to \in 0 .. Latest, NEW done \in 0 .. Latest, NEW at \in Ways(to, done),
           Underway(to, done, at), Due
    PROVE  /\ Allowed(Statement, tx.sees) \/ Refused(Statement, tx.sees)
           /\ at + 1 \in Ways(to, done)
           /\ Extends(After(Statement, tx.sees), Left(to, done, at + 1))
<1> DEFINE script == Script(to, done)
<1>1. tx.to = to /\ tx.done = done /\ tx.at = at
  BY DEF Underway
<1>2. to # done /\ at <= Len(script) /\ Statement = script[at]
  BY <1>1 DEF Due, Statement
<1>3. at \in 1 .. Len(script) /\ Len(script) \in Nat
  BY <1>2, ScriptFits DEF Ways
<1>4. Step(script[at], Stage(Core(done), script, at - 1), Stage(Core(done), script, at))
  BY <1>2, <1>3, ScriptFits DEF Leads
<1>5. at + 1 \in Ways(to, done)
  BY <1>2, <1>3 DEF Ways
<1>6. /\ Left(to, done, at) = Stage(Core(done), script, at - 1)
      /\ Left(to, done, at + 1) = Stage(Core(done), script, at)
  BY <1>2, <1>3 DEF Left
<1>7. Step(Statement, Left(to, done, at), Left(to, done, at + 1))
  BY <1>2, <1>4, <1>6
<1>8. Extends(tx.sees, Left(to, done, at))
  BY DEF Underway
<1> QED
  BY <1>5, <1>7, <1>8, StepAmongOthers

\* Behind the last statement the schema is that of the behind migration.
LEMMA OverWorks ==
    ASSUME NEW to \in 0 .. Latest, NEW done \in 0 .. Latest, NEW at \in Ways(to, done),
           Underway(to, done, at), to # done, ~Due
    PROVE  Left(to, done, at) = Core(Onward(to, done))
<1> DEFINE script == Script(to, done)
<1>1. tx.to = to /\ tx.done = done /\ tx.at = at
  BY DEF Underway
<1>2. Len(script) \in Nat /\ at \in 1 .. Len(script) + 1
  BY ScriptFits DEF Ways
<1>3. at = Len(script) + 1
  BY <1>1, <1>2 DEF Due, Busy
<1>4. Core(Onward(to, done)) = Stage(Core(done), script, Len(script))
  BY ScriptFits DEF Leads
<1> QED
  BY <1>2, <1>3, <1>4 DEF Left

\* To connect adds extensions, and no others.
LEMMA InstalledAreExtensions ==
    ASSUME NEW head
    PROVE  Installed(head) \in SUBSET Extensions /\ "uuid-ossp" \in Installed(head)
BY DEF Installed, Extensions

\* Extensions more make no difference to what the committed schema is.
LEMMA ConnectKeeps ==
    ASSUME SchemaIsOfApplied, NEW head, schema' = schema \cup Installed(head), UNCHANGED applied
    PROVE  SchemaIsOfApplied'
BY InstalledAreExtensions DEF SchemaIsOfApplied

\* Every command keeps the invariant, and so does its end, good or bad.
LEMMA StepInductive == Inductive /\ [Next]_vars => Inductive'
<1> SUFFICES ASSUME Inductive, [Next]_vars PROVE Inductive'
  OBVIOUS
<1>t. applied \in 0 .. Latest /\ SchemaIsOfApplied /\ Latest = 9
  BY DEF Inductive, Latest, Up
<1>b. ASSUME Busy
      PROVE  \E to, done \in 0 .. Latest : \E at \in Ways(to, done) : Underway(to, done, at)
  BY <1>b DEF Inductive, Busy, Idle
<1>1. ASSUME NEW to \in 0 .. Latest, NEW head, Begin(to, head) PROVE Inductive'
  <2>1. SchemaIsOfApplied' /\ UNCHANGED applied
    BY <1>1, <1>t, ConnectKeeps DEF Begin
  <2>2. schema' = Core(applied) \cup (schema' \cap Extensions)
    BY <1>1, <1>t, InstalledAreExtensions DEF Begin, Core, SchemaIsOfApplied
  <2>3. 1 \in Ways(to, applied) /\ Left(to, applied, 1) = Core(applied)
    BY <1>t, Beginning
  <2>4. Extends(schema', Left(to, applied, 1))
    BY <2>2, <2>3 DEF Extends
  <2>5. tx' = [to |-> to, done |-> applied, at |-> 1, sees |-> schema']
    BY <1>1 DEF Begin
  <2>6. Underway(to, applied, 1)'
    BY <2>1, <2>4, <2>5 DEF Underway
  <2> QED
    BY <2>1, <2>3, <2>6, <1>t DEF Inductive
<1>2. ASSUME Execute PROVE Inductive'
  <2>1. PICK to \in 0 .. Latest, done \in 0 .. Latest : \E at \in Ways(to, done) : Underway(to, done, at)
    BY <1>2, <1>b DEF Execute, Due
  <2>2. PICK at \in Ways(to, done) : Underway(to, done, at)
    BY <2>1
  <2>3. tx' = [to |-> to, done |-> done, at |-> at + 1, sees |-> After(Statement, tx.sees)]
    <3>1. PICK sees : tx = [to |-> to, done |-> done, at |-> at, sees |-> sees]
      BY <2>2 DEF Underway
    <3>2. tx' = [tx EXCEPT !.at = tx.at + 1, !.sees = After(Statement, tx.sees)]
      BY <1>2 DEF Execute
    <3> QED
      BY <3>1, <3>2
  <2>4. at + 1 \in Ways(to, done) /\ Extends(After(Statement, tx.sees), Left(to, done, at + 1))
    BY <1>2, <2>2, DueWorks DEF Execute
  <2>5. Underway(to, done, at + 1)'
    BY <2>3, <2>4 DEF Underway
  <2>6. UNCHANGED <<applied, schema>>
    BY <1>2 DEF Execute
  <2> QED
    BY <2>4, <2>5, <2>6, <1>t DEF Inductive, SchemaIsOfApplied
<1>3. ASSUME Record PROVE Inductive'
  <2>1. PICK to \in 0 .. Latest, done \in 0 .. Latest : \E at \in Ways(to, done) : Underway(to, done, at)
    BY <1>3, <1>b DEF Record
  <2>2. PICK at \in Ways(to, done) : Underway(to, done, at)
    BY <2>1
  <2>3. tx.to = to /\ tx.done = done /\ to # done /\ Extends(tx.sees, Left(to, done, at))
    BY <1>3, <2>2 DEF Record, Underway
  <2> DEFINE next == Onward(to, done)
  <2>4. next \in 0 .. Latest /\ Left(to, done, at) = Core(next)
    BY <1>3, <2>2, <2>3, ScriptFits, OverWorks DEF Record
  <2>5. 1 \in Ways(to, next) /\ Left(to, next, 1) = Core(next)
    BY <2>4, Beginning
  <2>6. tx' = [to |-> to, done |-> next, at |-> 1, sees |-> tx.sees]
    BY <1>3, <2>2, <2>3 DEF Record, Onward, Underway
  <2> HIDE DEF next
  <2>7. Underway(to, next, 1)'
    BY <2>3, <2>4, <2>5, <2>6 DEF Underway
  <2>8. UNCHANGED <<applied, schema>>
    BY <1>3 DEF Record
  <2> QED
    BY <2>4, <2>5, <2>7, <2>8, <1>t DEF Inductive, SchemaIsOfApplied
<1>4. ASSUME Commit PROVE Inductive'
  <2>1. PICK to \in 0 .. Latest, done \in 0 .. Latest : \E at \in Ways(to, done) : Underway(to, done, at)
    BY <1>4, <1>b DEF Commit
  <2>2. tx.done \in 0 .. Latest /\ Extends(tx.sees, Core(tx.done))
    BY <1>4, <2>1 DEF Commit, Underway, Left
  <2>3. applied' = tx.done /\ Extends(schema', Core(applied')) /\ tx' = Idle
    BY <1>4, <2>2 DEF Commit
  <2>4. SchemaIsOfApplied'
    BY <2>3 DEF SchemaIsOfApplied, Extends, Core, Extensions
  <2> QED
    BY <2>2, <2>3, <2>4 DEF Inductive
<1>5. ASSUME Rollback PROVE Inductive'
  BY <1>5, <1>t DEF Rollback, Inductive, SchemaIsOfApplied
<1>6. ASSUME NEW head \in 1 .. Latest, Run(head) PROVE Inductive'
  BY <1>1, <1>6, <1>t DEF Run
<1>7. ASSUME NEW head \in 1 .. Latest, Revert(head) PROVE Inductive'
  BY <1>1, <1>7, <1>t DEF Revert
<1>8. ASSUME NEW head \in 1 .. Latest, Connect(head) PROVE Inductive'
  <2>1. SchemaIsOfApplied' /\ UNCHANGED applied
    BY <1>8, <1>t, ConnectKeeps DEF Connect
  <2>2. CASE ~Busy
    <3>1. tx' = tx /\ ~ \E to, done \in 0 .. Latest : \E at \in Ways(to, done) : Underway(to, done, at)
      BY <1>8, <2>2 DEF Connect, Underway, Busy, Ways
    <3> QED
      BY <2>1, <3>1 DEF Inductive
  <2>3. CASE Busy
    <3>1. PICK to \in 0 .. Latest, done \in 0 .. Latest : \E at \in Ways(to, done) : Underway(to, done, at)
      BY <2>3, <1>b
    <3>2. PICK at \in Ways(to, done) : Underway(to, done, at)
      BY <3>1
    <3> DEFINE sees == tx.sees \cup (Installed(head) \ schema)
    <3>3. Extends(sees, Left(to, done, at))
      <4>1. PICK others \in SUBSET Extensions : tx.sees = Left(to, done, at) \cup others
        BY <3>2 DEF Underway, Extends
      <4>2. /\ others \cup (Installed(head) \ schema) \in SUBSET Extensions
            /\ sees = Left(to, done, at) \cup (others \cup (Installed(head) \ schema))
        BY <4>1, InstalledAreExtensions
      <4> QED
        BY <4>2 DEF Extends
    <3>4. tx' = [to |-> to, done |-> done, at |-> at, sees |-> sees]
      BY <1>8, <2>3, <3>2 DEF Connect, Underway
    <3> HIDE DEF sees
    <3>5. Underway(to, done, at)'
      BY <3>3, <3>4 DEF Underway
    <3> QED
      BY <2>1, <3>5, <1>t DEF Inductive
  <2> QED
    BY <2>2, <2>3
<1>9. ASSUME UNCHANGED vars PROVE Inductive'
  BY <1>9 DEF vars, Inductive, SchemaIsOfApplied, Underway
<1> QED
  BY <1>2, <1>3, <1>4, <1>5, <1>6, <1>7, <1>8, <1>9 DEF Next

\* Whatever extensions the database came with, and whatever commands are run, killed or
\* undone while the server connects.
THEOREM MigrationsInvariant == Spec => []Inductive
<1> QED
  BY InitInductive, StepInductive, PTL DEF Spec

\* No statement of any migration is refused, up or down, but the one that would drop PostGIS
\* from under what the database has built on it.
THEOREM StatementsAreCarriedOut == Spec => []NoStatementIsRefused
<1>1. Inductive => NoStatementIsRefused
  <2> SUFFICES ASSUME Inductive, Due
               PROVE  Allowed(Statement, tx.sees) \/ Refused(Statement, tx.sees)
    BY DEF NoStatementIsRefused, Refused
  <2>1. PICK to \in 0 .. Latest, done \in 0 .. Latest : \E at \in Ways(to, done) : Underway(to, done, at)
    BY DEF Inductive, Due, Busy, Idle
  <2> QED
    BY <2>1, DueWorks
<1> QED
  BY <1>1, MigrationsInvariant, PTL

\* The schema is what the migrations that count as applied make and nothing but extensions
\* beyond, whatever was undone, done again or cut off on the way.
THEOREM SchemaFollowsApplied == Spec => []SchemaIsOfApplied
<1>1. Inductive => SchemaIsOfApplied
  BY DEF Inductive
<1> QED
  BY <1>1, MigrationsInvariant, PTL

\* With every migration applied it is what the entities declare, and has the extensions
\* that takes.
THEOREM SchemaMatchesEntities == Spec => []SchemaIsOfEntities
<1> DEFINE entities == UserObjects \cup MomentObjects \cup PhotoObjects \cup ShareObjects
<1>1. Latest = 9
  BY DEF Latest, Up
<1>2. Made(9) = entities \cup {"postgis"}
  BY MadeTable DEF UserObjects, MomentObjects, FirstPhotoObjects, CommentedObjects, ProcessingColumns,
                   ExifObjects, ShareObjects, PhotoObjects, PhotoColumns
<1>3. entities \cap Extensions = {}
  BY DEF UserObjects, MomentObjects, PhotoObjects, PhotoColumns, ShareObjects, Extensions
<1>4. SchemaIsOfApplied /\ applied = 9 =>
        schema \ Extensions = entities /\ {"uuid-ossp", "postgis"} \subseteq schema
  <2> HIDE DEF entities
  <2> QED
    BY <1>2, <1>3 DEF SchemaIsOfApplied, Extensions
<1>5. SchemaIsOfApplied => SchemaIsOfEntities
  BY <1>1, <1>4 DEF SchemaIsOfEntities
<1> QED
  BY <1>5, SchemaFollowsApplied, PTL

=============================================================================
