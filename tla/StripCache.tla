----------------------------- MODULE StripCache -----------------------------
(***************************************************************************)
(* The copies of a photo without its EXIF data, made when a visitor of a   *)
(* share first asks for one.  The row's stripped_keys column remembers     *)
(* which copies R2 holds.  A visit reads the rows it shows once and then   *)
(* works on what it read: per photo it gets the original, puts the copy    *)
(* and writes the column back, the copies of a moment all at once.         *)
(*                                                                         *)
(* One action per await point.  The key of a copy is a function of the     *)
(* photo and the variant, so a set of variants stands for the column, and  *)
(* another for the objects in R2.                                          *)
(*                                                                         *)
(* A definition marked "Slip" is no part of Next: it is a plausible bug in *)
(* the definition that follows, and shows which property catches it.       *)
(***************************************************************************)
EXTENDS Naturals

CONSTANTS
    Photos,
    Variants,   \* ExifStripVariant: "all", "gps_only"
    NoStrip,    \* the variant of the policy "none"
    Visits,     \* requests of visitors in flight at the same time
    MaxFaults   \* bound on crashes and lost answers of the database

ASSUME StripAssumption ==
    /\ NoStrip \notin Variants
    /\ MaxFaults \in Nat

VARIABLES
    stripped,  \* photos.stripped_keys: the variants whose key the row holds
    copies,    \* R2: the variants whose copy exists, per photo
    visit,     \* requests in flight and the variant they ask for
    part,      \* per visit and photo: how far its copy is, and the keys it read
    faults

vars == <<stripped, copies, visit, part, faults>>

VisitPc == {"idle", "page", "resolve", "download", "rejected"}
PartPc == {"none", "get", "put", "update", "ready", "failed"}

TypeOK ==
    /\ stripped \in [Photos -> SUBSET Variants]
    /\ copies \in [Photos -> SUBSET Variants]
    /\ visit \in [Visits -> [pc : VisitPc, variant : Variants \cup {NoStrip}]]
    /\ part \in [Visits -> [Photos -> [pc : PartPc, seen : SUBSET Variants]]]
    /\ faults \in 0..MaxFaults

NoVisit == [pc |-> "idle", variant |-> NoStrip]
NoParts == [p \in Photos |-> [pc |-> "none", seen |-> {}]]

Init ==
    /\ stripped = [p \in Photos |-> {}]
    /\ copies = [p \in Photos |-> {}]
    /\ visit = [v \in Visits |-> NoVisit]
    /\ part = [v \in Visits |-> NoParts]
    /\ faults = 0

Fault == faults < MaxFaults /\ faults' = faults + 1

Running(v) == {p \in Photos : part[v][p].pc \in {"get", "put", "update"}}
Failed(v) == {p \in Photos : part[v][p].pc = "failed"}
AllReady(v) == Running(v) = {} /\ Failed(v) = {}

-----------------------------------------------------------------------------
(* Reading the rows.  A key found in the row, or no variant to make, is the *)
(* answer for that photo; else getOrCreateStrippedKey starts on its copy.   *)

Load(shown, variant) ==
    [p \in Photos |->
        IF p \notin shown THEN [pc |-> "none", seen |-> {}]
        ELSE [pc |-> IF variant \in stripped[p] \cup {NoStrip} THEN "ready" ELSE "get",
              seen |-> stripped[p]]]

\* findPhotoForShare (one photo) or findPhotosForMomentShare (those of a moment).
OpenPage(v, variant, shown) ==
    /\ visit[v].pc = "idle"
    /\ shown # {}
    /\ visit' = [visit EXCEPT ![v] = [pc |-> "page", variant |-> variant]]
    /\ part' = [part EXCEPT ![v] = Load(shown, variant)]
    /\ UNCHANGED <<stripped, copies, faults>>

\* getDownloadFile calls findPhotoForShare first ...
OpenDownload(v, variant, p) ==
    /\ visit[v].pc = "idle"
    /\ visit' = [visit EXCEPT ![v] = [pc |-> "resolve", variant |-> variant]]
    /\ part' = [part EXCEPT ![v] = Load({p}, variant)]
    /\ UNCHANGED <<stripped, copies, faults>>

\* ... and then getShareImageBuffer, which reads the row again.
LoadAgain(v) ==
    /\ visit[v].pc = "resolve"
    /\ AllReady(v)
    /\ visit' = [visit EXCEPT ![v].pc = "download"]
    /\ part' = [part EXCEPT ![v] =
                   Load({p \in Photos : part[v][p].pc = "ready"}, visit[v].variant)]
    /\ UNCHANGED <<stripped, copies, faults>>

-----------------------------------------------------------------------------
(* getOrCreateStrippedKey for one photo of a visit.                        *)

GetOriginal(v, p) ==
    /\ part[v][p].pc = "get"
    /\ part' = [part EXCEPT ![v][p].pc = "put"]
    /\ UNCHANGED <<stripped, copies, visit, faults>>

\* Slip: the column is written while the put is still on its way.
PutCopyUnawaited(v, p) ==
    /\ part[v][p].pc = "put"
    /\ part' = [part EXCEPT ![v][p].pc = "update"]
    /\ UNCHANGED <<stripped, copies, visit, faults>>

PutCopy(v, p) ==
    /\ part[v][p].pc = "put"
    /\ copies' = [copies EXCEPT ![p] = @ \cup {visit[v].variant}]
    /\ part' = [part EXCEPT ![v][p].pc = "update"]
    /\ UNCHANGED <<stripped, visit, faults>>

\* Slip: the column is written without the keys of the other variants.
WriteKeyAlone(v, p) ==
    stripped' = [stripped EXCEPT ![p] = {visit[v].variant}]

\* The whole column is written: the keys the visit read, and the new one.
WriteKeys(v, p) ==
    stripped' = [stripped EXCEPT ![p] = part[v][p].seen \cup {visit[v].variant}]

UpdateRow(v, p) ==
    /\ part[v][p].pc = "update"
    /\ WriteKeys(v, p)
    /\ part' = [part EXCEPT ![v][p].pc = "ready"]
    /\ UNCHANGED <<copies, visit, faults>>

\* R2, sharp or the database refuses.
PartFails(v, p) ==
    /\ part[v][p].pc \in {"get", "put", "update"}
    /\ part' = [part EXCEPT ![v][p].pc = "failed"]
    /\ UNCHANGED <<stripped, copies, visit, faults>>

\* The update is committed and its answer is lost.
LoseUpdateAck(v, p) ==
    /\ part[v][p].pc = "update"
    /\ Fault
    /\ WriteKeys(v, p)
    /\ part' = [part EXCEPT ![v][p].pc = "failed"]
    /\ UNCHANGED <<copies, visit>>

-----------------------------------------------------------------------------
(* Answering.                                                              *)

\* The page with the URLs of all its photos, or the bytes of the copy.
Answer(v) ==
    /\ visit[v].pc \in {"page", "download"}
    /\ AllReady(v)
    /\ visit' = [visit EXCEPT ![v] = NoVisit]
    /\ part' = [part EXCEPT ![v] = NoParts]
    /\ UNCHANGED <<stripped, copies, faults>>

\* Promise.all: the first part that fails answers 500; the others go on.
Reject(v) ==
    /\ visit[v].pc \in {"page", "resolve", "download"}
    /\ Failed(v) # {}
    /\ visit' = [visit EXCEPT ![v].pc = "rejected"]
    /\ UNCHANGED <<stripped, copies, part, faults>>

Finish(v) ==
    /\ visit[v].pc = "rejected"
    /\ Running(v) = {}
    /\ visit' = [visit EXCEPT ![v] = NoVisit]
    /\ part' = [part EXCEPT ![v] = NoParts]
    /\ UNCHANGED <<stripped, copies, faults>>

\* The server stops in the middle of everything and starts again.
Crash ==
    /\ Fault
    /\ visit' = [v \in Visits |-> NoVisit]
    /\ part' = [v \in Visits |-> NoParts]
    /\ UNCHANGED <<stripped, copies>>

-----------------------------------------------------------------------------

Open(v) ==
    \E variant \in Variants \cup {NoStrip} :
        \/ \E shown \in SUBSET Photos : OpenPage(v, variant, shown)
        \/ \E p \in Photos : OpenDownload(v, variant, p)

PartStep(v, p) ==
    GetOriginal(v, p) \/ PutCopy(v, p) \/ UpdateRow(v, p) \/ PartFails(v, p) \/ LoseUpdateAck(v, p)

VisitStep(v) == LoadAgain(v) \/ Answer(v) \/ Reject(v) \/ Finish(v)

Next ==
    \/ \E v \in Visits : Open(v) \/ VisitStep(v)
    \/ \E v \in Visits, p \in Photos : PartStep(v, p)
    \/ Crash

Spec == Init /\ [][Next]_vars

-----------------------------------------------------------------------------
(* Properties.                                                             *)

\* A key in the column names a copy that is in R2, whatever visits ran at the
\* same time, failed or died half way: a cached key is never a dead link.
CachedKeyIsStored ==
    \A p \in Photos : stripped[p] \subseteq copies[p]

\* So does every key a visit is about to answer with, of the variant it asked
\* for: found in the row it read, or made by the visit itself.
AnswerIsStored ==
    \A v \in Visits, p \in Photos :
        part[v][p].pc = "ready" => visit[v].variant \in copies[p] \cup {NoStrip}

\* A visit never takes from the column a key that it read there: keys are only
\* lost to a visit that read the row before they were written, so visits that
\* do not overlap keep the keys of each other's variants.
LossNeedsStaleRead ==
    [][\A p \in Photos : \A x \in stripped[p] \ stripped'[p] :
        \E v \in Visits : part[v][p].pc = "update" /\ x \notin part[v][p].seen]_vars

\* photos.service.ts:287: the merge keeps the keys of the other variants.
OtherVariantsKept ==
    [][\A p \in Photos : stripped[p] \subseteq stripped'[p]]_vars

\* What the two invariants need to be inductive: a visit that is past its put
\* has its copy in R2, the keys it read are in R2, and only a visit that asks
\* for a variant makes copies.
PartsInOrder ==
    \A v \in Visits, p \in Photos :
        /\ part[v][p].seen \subseteq copies[p]
        /\ part[v][p].pc = "update" => visit[v].variant \in copies[p]
        /\ part[v][p].pc \in {"get", "put", "update"} => visit[v].variant \in Variants

Inductive == TypeOK /\ PartsInOrder /\ CachedKeyIsStored /\ AnswerIsStored

=============================================================================
