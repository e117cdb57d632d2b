----------------------------- MODULE Migrations -----------------------------
(***************************************************************************)
(* The database schema: nine migrations, each a list of statements up and  *)
(* down, applied by `migration:run` (all that are pending, in one          *)
(* transaction) and undone by `migration:revert` (the last one).  The      *)
(* schema is a set of objects: tables, columns added later, indexes,       *)
(* foreign keys, types and extensions.  A statement needs some of them to  *)
(* exist; one whose needs are not met ends the transaction.                *)
(*                                                                         *)
(* The extensions are not the migrations' alone: a database may come with  *)
(* some (docker/compose.yml has PostGIS and what is built on it), and      *)
(* TypeORM installs those the entities need whenever it connects, for a    *)
(* command or for the server, outside any transaction.                     *)
(*                                                                         *)
(* A definition marked Slip is no part of Next: it is a plausible mistake, *)
(* and the runs show that a property notices it.                           *)
(***************************************************************************)
EXTENDS Integers, Sequences, FiniteSets

VARIABLES
    applied,   \* the rows of the migrations table: the first so many are applied
    schema,    \* the committed schema
    tx         \* the transaction of the command being run: where it is to end, the
               \* migrations applied in it, the next statement, and the schema it sees

vars == <<applied, schema, tx>>

----------------------------------------------------------------------------
(* Objects.                                                                *)

\* The columns of photos that came later.
PhotoColumns == {"thumbnail_keys", "processing_status", "taken_at", "location", "exif_json",
                 "stripped_keys"}

\* What an object is a part of: it goes when its table goes, or the column it indexes.
PartOf(o) ==
    CASE o = "email index" -> {"users"}
      [] o \in {"moment user index", "moment user key"} -> {"moments"}
      [] o \in PhotoColumns \cup {"photo moment index", "photo user index",
                                   "photo moment key", "photo user key"} -> {"photos"}
      [] o = "taken_at index" -> {"photos", "taken_at"}
      [] o = "location index" -> {"photos", "location"}
      [] o \in {"token index", "owner index", "expiry index", "owner key"} -> {"shares"}
      [] OTHER -> {}

\* "uuid-ossp" has the function behind the ids; "postgis_topology" stands for the extensions
\* the database image builds on PostGIS.
Extensions == {"uuid-ossp", "postgis", "postgis_topology"}

\* What else it refers to, and keeps from being dropped: the table of a key, the extension
\* or the types of a column.
Refers(o) ==
    CASE o \in {"moment user key", "photo user key", "owner key"} -> {"users"}
      [] o = "photo moment key" -> {"moments"}
      [] o \in {"location", "postgis_topology"} -> {"postgis"}
      [] o \in {"users", "moments", "photos"} -> {"uuid-ossp"}
      [] o = "shares" -> {"uuid-ossp", "target type", "policy type"}
      [] OTHER -> {}

----------------------------------------------------------------------------
(* The migrations.                                                         *)

Add(o) == [op |-> "add", on |-> o]
Drop(o) == [op |-> "drop", on |-> o]
Comment(o) == [op |-> "comment", on |-> o]

\* Init
InitUp == << Add("users"), Add("email index") >>
InitDown == << Drop("email index"), Drop("users") >>

\* EnablePostgis: IF NOT EXISTS
EnablePostgisUp == << Add("postgis") >>
EnablePostgisDown == << Drop("postgis") >>

CreateMomentsUp == << Add("moments"), Add("moment user index"), Add("moment user key") >>
CreateMomentsDown == << Drop("moment user key"), Drop("moment user index"),
                        Drop("moments") >>

CreatePhotosUp ==
    << Add("photos"), Add("photo moment index"), Add("photo user index"),
       Add("photo moment key"), Add("photo user key") >>
CreatePhotosDown ==
    << Drop("photo user key"), Drop("photo moment key"), Drop("photo user index"),
       Drop("photo moment index"), Drop("photos") >>

\* AddEntityComments: the keys are dropped and made again around the comments.
AddEntityCommentsUp ==
    << Comment("users"), Comment("moments"), Comment("photos"),
       Drop("moment user key"), Drop("photo moment key"), Drop("photo user key"),
       Add("moment user key"), Add("photo moment key"), Add("photo user key") >>
AddEntityCommentsDown ==
    << Drop("photo user key"), Drop("photo moment key"), Drop("moment user key"),
       Comment("photos"), Add("photo user key"), Add("photo moment key"),
       Comment("moments"), Add("moment user key"), Comment("users") >>

AugmentPhotosUp ==
    << Add("thumbnail_keys"), Comment("thumbnail_keys"),
       Add("processing_status"), Comment("processing_status") >>
AugmentPhotosDown ==
    << Comment("processing_status"), Drop("processing_status"),
       Comment("thumbnail_keys"), Drop("thumbnail_keys") >>

\* Slip: an index that the entity declares is left to the next migration.
AddPhotoExifUpUnindexed ==
    << Add("taken_at"), Comment("taken_at"), Add("location"),
       Comment("location"), Add("exif_json"), Comment("exif_json"),
       Add("taken_at index") >>
\* Slip: a column that came with the migration stays when it is undone.
AddPhotoExifDownPartial ==
    << Drop("location index"), Drop("taken_at index"), Comment("exif_json"),
       Comment("location"), Drop("location"),
       Comment("taken_at"), Drop("taken_at") >>

AddPhotoExifUp ==
    << Add("taken_at"), Comment("taken_at"), Add("location"),
       Comment("location"), Add("exif_json"), Comment("exif_json"),
       Add("taken_at index"), Add("location index") >>
AddPhotoExifDown ==
    << Drop("location index"), Drop("taken_at index"), Comment("exif_json"),
       Drop("exif_json"), Comment("location"), Drop("location"),
       Comment("taken_at"), Drop("taken_at") >>

\* Slip: the types go before the table that uses them.
CreateSharesDownTypesFirst ==
    << Drop("owner key"), Drop("expiry index"), Drop("owner index"), Drop("token index"),
       Drop("policy type"), Drop("target type"), Drop("shares") >>

CreateSharesUp ==
    << Add("target type"), Add("policy type"), Add("shares"),
       Comment("shares"), Add("token index"), Add("owner index"), Add("expiry index"),
       Add("owner key") >>
CreateSharesDown ==
    << Drop("owner key"), Drop("expiry index"), Drop("owner index"), Drop("token index"),
       Drop("shares"), Drop("policy type"), Drop("target type") >>

AddPhotoStrippedKeysUp == << Add("stripped_keys"), Comment("stripped_keys") >>
AddPhotoStrippedKeysDown == << Drop("stripped_keys") >>

Up == << InitUp, EnablePostgisUp, CreateMomentsUp, CreatePhotosUp, AddEntityCommentsUp,
         AugmentPhotosUp, AddPhotoExifUp, CreateSharesUp, AddPhotoStrippedKeysUp >>
Down == << InitDown, EnablePostgisDown, CreateMomentsDown, CreatePhotosDown,
           AddEntityCommentsDown, AugmentPhotosDown, AddPhotoExifDown, CreateSharesDown,
           AddPhotoStrippedKeysDown >>

Latest == Len(Up)

\* What the first n migrations make, all in all.
Makes(script) == {script[k].on : k \in DOMAIN script}
Made(n) == UNION {Makes(Up[i]) : i \in 1 .. n}

----------------------------------------------------------------------------
(* The command line.                                                       *)

\* No command is being run.
Idle == [to |-> 0, done |-> 0, at |-> 0, sees |-> {}]
Busy == tx.at > 0

\* No migration has been applied to the database, which may have come with extensions.
Init ==
    /\ applied = 0 /\ tx = Idle
    /\ schema \in {found \in SUBSET Extensions : "postgis_topology" \in found => "postgis" \in found}

\* What TypeORM installs for a checkout that has the first `head` migrations: its entities
\* generate uuids, and one of them has a geometry column once there is a migration for it.
Installed(head) == {"uuid-ossp"} \cup (IF "location" \in Made(head) THEN {"postgis"} ELSE {})

\* A command connects, and opens its transaction.
Begin(to, head) ==
    /\ ~Busy
    /\ schema' = schema \cup Installed(head)
    /\ tx' = [to |-> to, done |-> applied, at |-> 1, sees |-> schema']
    /\ UNCHANGED applied

\* migration:run of a checkout that has the first `head` migrations.
Run(head) == head > applied /\ Begin(head, head)

\* migration:revert: the last one that was applied, which the checkout must have.
Revert(head) == head >= applied /\ applied > 0 /\ Begin(applied - 1, head)

\* The server connects, whatever command is being run.  An extension the transaction has
\* made and not committed keeps it waiting; one it has dropped is still there for others.
Connect(head) ==
    /\ Busy => Installed(head) \cap (tx.sees \ schema) = {}
    /\ schema' = schema \cup Installed(head)
    /\ tx' = IF Busy THEN [tx EXCEPT !.sees = tx.sees \cup (Installed(head) \ schema)] ELSE tx
    /\ UNCHANGED applied

\* The migration whose turn it is, up or down.
Script(to, done) == IF to > done THEN Up[done + 1] ELSE Down[done]

\* The statement can be carried out: what it adds has all it needs, what it drops is there
\* and nothing else refers to it.  Extensions are added and dropped IF (NOT) EXISTS.
Allowed(s, sees) ==
    /\ s.op = "add" => /\ PartOf(s.on) \cup Refers(s.on) \subseteq sees
                       /\ s.on \notin sees \/ s.on \in Extensions
    /\ s.op = "drop" => /\ s.on \in sees \/ s.on \in Extensions
                        /\ \A o \in sees : s.on \in Refers(o) => s.on \in PartOf(o)
    /\ s.op = "comment" => s.on \in sees

\* What is dropped takes its parts along.
After(s, sees) ==
    IF s.op = "add" THEN sees \cup {s.on}
    ELSE IF s.op = "drop" THEN {o \in sees : o # s.on /\ s.on \notin PartOf(o)}
    ELSE sees

\* The statement the command has come to, when it has not come to the script's end.
Due == Busy /\ tx.done # tx.to /\ tx.at <= Len(Script(tx.to, tx.done))
Statement == Script(tx.to, tx.done)[tx.at]

Execute ==
    /\ Due /\ Allowed(Statement, tx.sees)
    /\ tx' = [tx EXCEPT !.at = tx.at + 1, !.sees = After(Statement, tx.sees)]
    /\ UNCHANGED <<applied, schema>>

\* The migration is over: its row is inserted or deleted, and the next one begins.
Record ==
    /\ Busy /\ tx.done # tx.to /\ ~Due
    /\ tx' = [tx EXCEPT !.done = IF tx.to > tx.done THEN tx.done + 1 ELSE tx.done - 1, !.at = 1]
    /\ UNCHANGED <<applied, schema>>

\* The schema and the migrations table change together.
Commit ==
    /\ Busy /\ tx.done = tx.to
    /\ schema' = tx.sees /\ applied' = tx.done /\ tx' = Idle

\* The command is killed, or a statement is refused.
Rollback ==
    /\ Busy
    /\ tx' = Idle
    /\ UNCHANGED <<applied, schema>>

Next ==
    \/ \E head \in 1 .. Latest : Run(head) \/ Revert(head) \/ Connect(head)
    \/ Execute \/ Record \/ Commit \/ Rollback

Spec == Init /\ [][Next]_vars

----------------------------------------------------------------------------
(* The entities: what TypeORM will ask of the database.                    *)

UserObjects == {"users", "email index"}
MomentObjects == {"moments", "moment user index", "moment user key"}
PhotoObjects == {"photos", "photo moment index", "photo moment key", "photo user index",
                 "photo user key", "taken_at index", "location index"} \cup PhotoColumns
ShareObjects == {"shares", "token index", "owner index", "owner key", "expiry index",
                 "target type", "policy type"}

----------------------------------------------------------------------------
(* Properties.                                                             *)

\* No statement of any migration is refused, up or down, from whatever point a run starts
\* and whatever extensions the database came with: what it adds finds its tables, and
\* nothing it drops is still referred to.  There is one exception: PostGIS is not dropped
\* from under the extensions the database has built on it (EnablePostgis 26-28).
NoStatementIsRefused ==
    Due => \/ Allowed(Statement, tx.sees)
           \/ Statement.op = "drop" /\ Statement.on = "postgis" /\ "postgis_topology" \in tx.sees

\* The committed schema is that of the migrations that count as applied, however often they
\* were undone, done again or cut off, and whoever connected meanwhile: every down undoes
\* its up, and the keys that the comments drop come back.  Only extensions may be there
\* beyond it, and the one behind the ids is there with the first table.
SchemaIsOfApplied ==
    /\ Made(applied) \subseteq schema
    /\ schema \ Made(applied) \subseteq Extensions
    /\ applied > 0 => "uuid-ossp" \in schema

\* With every migration applied the database has just what the entities declare, and the
\* extensions that takes.
SchemaIsOfEntities ==
    applied = Latest =>
        /\ schema \ Extensions = UserObjects \cup MomentObjects \cup PhotoObjects \cup ShareObjects
        /\ {"uuid-ossp", "postgis"} \subseteq schema

=============================================================================
