-------------------------- MODULE StripCacheProofs --------------------------
(***************************************************************************)
(* StripCache never caches or answers with a key that leads nowhere, and   *)
(* loses a cached key only to a visit that read the row before it was      *)
(* written: for any photos, variants and visits, and any number of faults. *)
(* ShareContent tells no visitor what the policy of the share takes away,  *)
(* for originals of every kind: only its theorem, the last one, rests on   *)
(* the variants being All and GpsOnly.                                     *)
(***************************************************************************)
EXTENDS ShareContent, TLAPS

\* Nothing is cached, stored or asked for at the start.
LEMMA InitInductive == Init => Inductive
BY StripAssumption
   DEF Init, Inductive, TypeOK, VisitPc, PartPc, NoVisit, NoParts, PartsInOrder, CachedKeyIsStored, AnswerIsStored

\* The parts of a visit that has just read the rows: what it saw is in R2, and
\* what it takes for ready is there, or is not to be made at all.
LEMMA LoadInOrder ==
    ASSUME Inductive, NEW variant \in Variants \cup {NoStrip}, NEW shown \in SUBSET Photos
    PROVE  /\ Load(shown, variant) \in [Photos -> [pc : PartPc, seen : SUBSET Variants]]
           /\ \A p \in Photos :
                /\ Load(shown, variant)[p].seen \subseteq copies[p]
                /\ Load(shown, variant)[p].pc \in {"none", "get", "ready"}
                /\ Load(shown, variant)[p].pc = "ready" => variant \in copies[p] \cup {NoStrip}
                /\ Load(shown, variant)[p].pc = "get" => variant \in Variants
<1> USE DEF Inductive, TypeOK, CachedKeyIsStored
<1>1. Load(shown, variant) \in [Photos -> [pc : PartPc, seen : SUBSET Variants]]
  BY DEF Load, PartPc
<1>2. ASSUME NEW p \in Photos
      PROVE  /\ Load(shown, variant)[p].seen \subseteq copies[p]
             /\ Load(shown, variant)[p].pc \in {"none", "get", "ready"}
             /\ Load(shown, variant)[p].pc = "ready" => variant \in copies[p] \cup {NoStrip}
             /\ Load(shown, variant)[p].pc = "get" => variant \in Variants
  <2>1. stripped[p] \subseteq copies[p]
    OBVIOUS
  <2>2. CASE p \notin shown
    <3>1. Load(shown, variant)[p] = [pc |-> "none", seen |-> {}]
      BY <2>2 DEF Load
    <3> QED
      BY <3>1
  <2>3. CASE p \in shown /\ variant \in stripped[p] \cup {NoStrip}
    <3>1. Load(shown, variant)[p] = [pc |-> "ready", seen |-> stripped[p]]
      BY <2>3 DEF Load
    <3> QED
      BY <2>1, <2>3, <3>1
  <2>4. CASE p \in shown /\ variant \notin stripped[p] \cup {NoStrip}
    <3>1. Load(shown, variant)[p] = [pc |-> "get", seen |-> stripped[p]]
      BY <2>4 DEF Load
    <3> QED
      BY <2>1, <2>4, <3>1
  <2> QED
    BY <2>2, <2>3, <2>4
<1> QED
  BY <1>1, <1>2

\* A visit that reads its rows, for the first time or again, keeps the invariant.
LEMMA LoadKeepsInductive ==
    ASSUME Inductive, NEW v \in Visits, NEW pc \in VisitPc,
           NEW variant \in Variants \cup {NoStrip}, NEW shown \in SUBSET Photos,
           visit' = [visit EXCEPT ![v] = [pc |-> pc, variant |-> variant]],
           part' = [part EXCEPT ![v] = Load(shown, variant)],
           UNCHANGED <<stripped, copies, faults>>
    PROVE  Inductive'
<1> DEFINE fresh == Load(shown, variant)
<1>1. /\ fresh \in [Photos -> [pc : PartPc, seen : SUBSET Variants]]
      /\ \A p \in Photos :
           /\ fresh[p].seen \subseteq copies[p]
           /\ fresh[p].pc \in {"none", "get", "ready"}
           /\ fresh[p].pc = "ready" => variant \in copies[p] \cup {NoStrip}
           /\ fresh[p].pc = "get" => variant \in Variants
  BY LoadInOrder
<1>2. part' = [part EXCEPT ![v] = fresh]
  OBVIOUS
<1> HIDE DEF fresh
<1>3. TypeOK'
  BY <1>1, <1>2 DEF Inductive, TypeOK
<1>4. PartsInOrder'
  BY <1>1, <1>2 DEF Inductive, TypeOK, PartsInOrder
<1>5. CachedKeyIsStored'
  BY DEF Inductive, CachedKeyIsStored
<1>6. AnswerIsStored'
  BY <1>1, <1>2 DEF Inductive, TypeOK, AnswerIsStored
<1> QED
  BY <1>3, <1>4, <1>5, <1>6 DEF Inductive

\* Every step keeps the invariant.
LEMMA StepInductive == Inductive /\ [Next]_vars => Inductive'
<1> SUFFICES ASSUME Inductive, [Next]_vars PROVE Inductive'
  OBVIOUS
<1>t. TypeOK
  BY DEF Inductive
<1>1. ASSUME NEW v \in Visits, NEW variant \in Variants \cup {NoStrip}, NEW shown \in SUBSET Photos,
             OpenPage(v, variant, shown)
      PROVE  Inductive'
  <2>1. variant \in Variants \cup {NoStrip} /\ shown \in SUBSET Photos
    BY <1>t DEF TypeOK
  <2>2. /\ visit' = [visit EXCEPT ![v] = [pc |-> "page", variant |-> variant]]
        /\ part' = [part EXCEPT ![v] = Load(shown, variant)]
        /\ UNCHANGED <<stripped, copies, faults>>
    BY <1>1, <1>t DEF OpenPage, TypeOK
  <2> QED
    BY <2>1, <2>2, LoadKeepsInductive DEF VisitPc
<1>2. ASSUME NEW v \in Visits, NEW variant \in Variants \cup {NoStrip}, NEW q \in Photos,
             OpenDownload(v, variant, q)
      PROVE  Inductive'
  <2>1. variant \in Variants \cup {NoStrip} /\ {q} \in SUBSET Photos
    BY <1>t DEF TypeOK
  <2>2. /\ visit' = [visit EXCEPT ![v] = [pc |-> "resolve", variant |-> variant]]
        /\ part' = [part EXCEPT ![v] = Load({q}, variant)]
        /\ UNCHANGED <<stripped, copies, faults>>
    BY <1>2, <1>t DEF OpenDownload, TypeOK
  <2> QED
    BY <2>1, <2>2, LoadKeepsInductive DEF VisitPc
<1>3. ASSUME NEW v \in Visits, LoadAgain(v)
      PROVE  Inductive'
  <2>1. visit[v].variant \in Variants \cup {NoStrip} /\ {p \in Photos : part[v][p].pc = "ready"} \in SUBSET Photos
    BY <1>t DEF TypeOK
  <2>2. /\ visit' = [visit EXCEPT ![v] = [pc |-> "download", variant |-> visit[v].variant]]
        /\ part' = [part EXCEPT ![v] = Load({p \in Photos : part[v][p].pc = "ready"}, visit[v].variant)]
        /\ UNCHANGED <<stripped, copies, faults>>
    <3>1. [visit[v] EXCEPT !.pc = "download"] = [pc |-> "download", variant |-> visit[v].variant]
      BY <1>t DEF TypeOK
    <3>2. [visit EXCEPT ![v].pc = "download"] = [visit EXCEPT ![v] = [visit[v] EXCEPT !.pc = "download"]]
      BY <1>t DEF TypeOK
    <3> QED
      BY <1>3, <3>1, <3>2 DEF LoadAgain
  <2> QED
    BY <2>1, <2>2, LoadKeepsInductive DEF VisitPc
<1>4. ASSUME NEW v \in Visits, NEW p \in Photos, GetOriginal(v, p) PROVE Inductive'
  <2>0. "put" \in PartPc /\ part' = [part EXCEPT ![v][p].pc = "put"]
    BY <1>4 DEF GetOriginal, PartPc
  <2>1. /\ part' \in [Visits -> [Photos -> [pc : PartPc, seen : SUBSET Variants]]]
        /\ \A w \in Visits, q \in Photos :
             /\ part'[w][q].seen = part[w][q].seen
             /\ part'[w][q].pc = IF w = v /\ q = p THEN "put" ELSE part[w][q].pc
    BY <2>0, <1>t DEF TypeOK
  <2>2. TypeOK'
    BY <1>4, <2>1, StripAssumption DEF GetOriginal, Inductive, TypeOK, PartsInOrder
  <2>3. PartsInOrder'
    BY <1>4, <2>1 DEF GetOriginal, Inductive, TypeOK, PartsInOrder
  <2>4. CachedKeyIsStored'
    BY <1>4 DEF GetOriginal, Inductive, TypeOK, PartsInOrder, CachedKeyIsStored
  <2>5. AnswerIsStored'
    BY <1>4, <2>1 DEF GetOriginal, Inductive, TypeOK, PartsInOrder, AnswerIsStored
  <2> QED
    BY <2>2, <2>3, <2>4, <2>5 DEF Inductive
<1>5. ASSUME NEW v \in Visits, NEW p \in Photos, PutCopy(v, p) PROVE Inductive'
  <2>0. "update" \in PartPc /\ part' = [part EXCEPT ![v][p].pc = "update"]
    BY <1>5 DEF PutCopy, PartPc
  <2>1. /\ part' \in [Visits -> [Photos -> [pc : PartPc, seen : SUBSET Variants]]]
        /\ \A w \in Visits, q \in Photos :
             /\ part'[w][q].seen = part[w][q].seen
             /\ part'[w][q].pc = IF w = v /\ q = p THEN "update" ELSE part[w][q].pc
    BY <2>0, <1>t DEF TypeOK
  <2>2. TypeOK'
    BY <1>5, <2>1, StripAssumption DEF PutCopy, Inductive, TypeOK, PartsInOrder
  <2>3. PartsInOrder'
    BY <1>5, <2>1 DEF PutCopy, Inductive, TypeOK, PartsInOrder
  <2>4. CachedKeyIsStored'
    BY <1>5 DEF PutCopy, Inductive, TypeOK, PartsInOrder, CachedKeyIsStored
  <2>5. AnswerIsStored'
    BY <1>5, <2>1 DEF PutCopy, Inductive, TypeOK, PartsInOrder, AnswerIsStored
  <2> QED
    BY <2>2, <2>3, <2>4, <2>5 DEF Inductive
<1>6. ASSUME NEW v \in Visits, NEW p \in Photos, UpdateRow(v, p) PROVE Inductive'
  <2>0. "ready" \in PartPc /\ part' = [part EXCEPT ![v][p].pc = "ready"]
    BY <1>6 DEF UpdateRow, PartPc
  <2>1. /\ part' \in [Visits -> [Photos -> [pc : PartPc, seen : SUBSET Variants]]]
        /\ \A w \in Visits, q \in Photos :
             /\ part'[w][q].seen = part[w][q].seen
             /\ part'[w][q].pc = IF w = v /\ q = p THEN "ready" ELSE part[w][q].pc
    BY <2>0, <1>t DEF TypeOK
  <2>2. TypeOK'
    <3>1. part[v][p].seen \cup {visit[v].variant} \in SUBSET Variants
      BY <1>6 DEF UpdateRow, Inductive, TypeOK, PartsInOrder
    <3>2. stripped' \in [Photos -> SUBSET Variants]
      BY <1>6, <1>t, <3>1 DEF UpdateRow, WriteKeys, TypeOK
    <3>3. faults' \in 0..MaxFaults
      BY <1>6, <1>t, StripAssumption DEF UpdateRow, TypeOK
    <3> QED
      BY <1>6, <1>t, <2>1, <3>2, <3>3 DEF UpdateRow, TypeOK
  <2>3. PartsInOrder'
    BY <1>6, <2>1 DEF UpdateRow, Inductive, TypeOK, PartsInOrder
  <2>4. CachedKeyIsStored'
    BY <1>6 DEF UpdateRow, WriteKeys, Inductive, TypeOK, PartsInOrder, CachedKeyIsStored
  <2>5. AnswerIsStored'
    BY <1>6, <2>1 DEF UpdateRow, Inductive, TypeOK, PartsInOrder, AnswerIsStored
  <2> QED
    BY <2>2, <2>3, <2>4, <2>5 DEF Inductive
<1>7. ASSUME NEW v \in Visits, NEW p \in Photos, PartFails(v, p) PROVE Inductive'
  <2>0. "failed" \in PartPc /\ part' = [part EXCEPT ![v][p].pc = "failed"]
    BY <1>7 DEF PartFails, PartPc
  <2>1. /\ part' \in [Visits -> [Photos -> [pc : PartPc, seen : SUBSET Variants]]]
        /\ \A w \in Visits, q \in Photos :
             /\ part'[w][q].seen = part[w][q].seen
             /\ part'[w][q].pc = IF w = v /\ q = p THEN "failed" ELSE part[w][q].pc
    BY <2>0, <1>t DEF TypeOK
  <2>2. TypeOK'
    BY <1>7, <2>1, StripAssumption DEF PartFails, Inductive, TypeOK, PartsInOrder
  <2>3. PartsInOrder'
    BY <1>7, <2>1 DEF PartFails, Inductive, TypeOK, PartsInOrder
  <2>4. CachedKeyIsStored'
    BY <1>7 DEF PartFails, Inductive, TypeOK, PartsInOrder, CachedKeyIsStored
  <2>5. AnswerIsStored'
    BY <1>7, <2>1 DEF PartFails, Inductive, TypeOK, PartsInOrder, AnswerIsStored
  <2> QED
    BY <2>2, <2>3, <2>4, <2>5 DEF Inductive
<1>8. ASSUME NEW v \in Visits, NEW p \in Photos, LoseUpdateAck(v, p) PROVE Inductive'
  <2>0. "failed" \in PartPc /\ part' = [part EXCEPT ![v][p].pc = "failed"]
    BY <1>8 DEF LoseUpdateAck, PartPc
  <2>1. /\ part' \in [Visits -> [Photos -> [pc : PartPc, seen : SUBSET Variants]]]
        /\ \A w \in Visits, q \in Photos :
             /\ part'[w][q].seen = part[w][q].seen
             /\ part'[w][q].pc = IF w = v /\ q = p THEN "failed" ELSE part[w][q].pc
    BY <2>0, <1>t DEF TypeOK
  <2>2. TypeOK'
    <3>1. part[v][p].seen \cup {visit[v].variant} \in SUBSET Variants
      BY <1>8 DEF LoseUpdateAck, Inductive, TypeOK, PartsInOrder
    <3>2. stripped' \in [Photos -> SUBSET Variants]
      BY <1>8, <1>t, <3>1 DEF LoseUpdateAck, WriteKeys, TypeOK
    <3>3. faults' \in 0..MaxFaults
      BY <1>8, <1>t, StripAssumption DEF LoseUpdateAck, Fault, TypeOK
    <3> QED
      BY <1>8, <1>t, <2>1, <3>2, <3>3 DEF LoseUpdateAck, TypeOK
  <2>3. PartsInOrder'
    BY <1>8, <2>1 DEF LoseUpdateAck, Inductive, TypeOK, PartsInOrder
  <2>4. CachedKeyIsStored'
    BY <1>8 DEF LoseUpdateAck, WriteKeys, Fault, Inductive, TypeOK, PartsInOrder, CachedKeyIsStored
  <2>5. AnswerIsStored'
    BY <1>8, <2>1 DEF LoseUpdateAck, Inductive, TypeOK, PartsInOrder, AnswerIsStored
  <2> QED
    BY <2>2, <2>3, <2>4, <2>5 DEF Inductive
<1>9. ASSUME NEW v \in Visits, Answer(v) PROVE Inductive'
  BY <1>9, StripAssumption DEF Answer, NoVisit, NoParts, Inductive, TypeOK, VisitPc, PartPc, PartsInOrder, CachedKeyIsStored, AnswerIsStored
<1>10. ASSUME NEW v \in Visits, Reject(v) PROVE Inductive'
  BY <1>10, StripAssumption DEF Reject, Inductive, TypeOK, VisitPc, PartPc, PartsInOrder, CachedKeyIsStored, AnswerIsStored
<1>11. ASSUME NEW v \in Visits, Finish(v) PROVE Inductive'
  BY <1>11, StripAssumption DEF Finish, NoVisit, NoParts, Inductive, TypeOK, VisitPc, PartPc, PartsInOrder, CachedKeyIsStored, AnswerIsStored
<1>12. ASSUME Crash PROVE Inductive'
  BY <1>12, StripAssumption DEF Crash, Fault, NoVisit, NoParts, Inductive, TypeOK, VisitPc, PartPc, PartsInOrder, CachedKeyIsStored, AnswerIsStored
<1>13. ASSUME UNCHANGED vars PROVE Inductive'
  BY <1>13 DEF vars, Inductive, TypeOK, VisitPc, PartPc, PartsInOrder, CachedKeyIsStored, AnswerIsStored
<1> QED
  BY <1>1, <1>2, <1>3, <1>4, <1>5, <1>6, <1>7, <1>8, <1>9, <1>10, <1>11, <1>12, <1>13
     DEF Next, Open, VisitStep, PartStep

\* The cache invariant: types, the order of a visit's steps, and the two
\* promises about keys.
THEOREM StripInvariant == Spec => []Inductive
<1> QED
  BY InitInductive, StepInductive, PTL DEF Spec

\* getOrCreateStrippedKey: a key in stripped_keys names a copy in R2.
THEOREM NoDeadCacheEntry == Spec => []CachedKeyIsStored
<1>1. Inductive => CachedKeyIsStored
  BY DEF Inductive
<1> QED
  BY <1>1, StripInvariant, PTL

\* findPhotoForShare, findPhotosForMomentShare and getShareImageBuffer: the key
\* a visit is about to answer with names a copy of the variant it asked for.
THEOREM NoDeadAnswer == Spec => []AnswerIsStored
<1>1. Inductive => AnswerIsStored
  BY DEF Inductive
<1> QED
  BY <1>1, StripInvariant, PTL

\* Only the two writes of the column take keys from it, and they take none the
\* visit has read.
LEMMA StepKeepsSeen ==
    ASSUME Inductive, [Next]_vars,
           NEW p \in Photos, NEW x \in stripped[p] \ stripped'[p]
    PROVE  \E v \in Visits : part[v][p].pc = "update" /\ x \notin part[v][p].seen
<1> USE DEF Inductive, TypeOK
<1>1. ASSUME NEW v \in Visits, NEW q \in Photos, part[v][q].pc = "update", WriteKeys(v, q)
      PROVE  part[v][p].pc = "update" /\ x \notin part[v][p].seen
  BY <1>1 DEF WriteKeys
<1>2. CASE UNCHANGED stripped
  BY <1>2
<1>3. ASSUME NEW v \in Visits, NEW q \in Photos, UpdateRow(v, q) \/ LoseUpdateAck(v, q)
      PROVE  \E w \in Visits : part[w][p].pc = "update" /\ x \notin part[w][p].seen
  BY <1>1, <1>3 DEF UpdateRow, LoseUpdateAck
<1> QED
  BY <1>2, <1>3
     DEF Next, vars, Open, OpenPage, OpenDownload, VisitStep, LoadAgain, Answer, Reject, Finish,
         PartStep, GetOriginal, PutCopy, PartFails, Crash

\* A cached key is only ever lost to a visit that read the row before the key
\* was written: the merge keeps what the visit has read.
THEOREM LossOnlyToStaleRead == Spec => LossNeedsStaleRead
<1> DEFINE Keeps ==
      \A p \in Photos : \A x \in stripped[p] \ stripped'[p] :
          \E v \in Visits : part[v][p].pc = "update" /\ x \notin part[v][p].seen
<1>1. Inductive /\ [Next]_vars => Keeps
  BY StepKeepsSeen
<1>2. Inductive /\ [Next]_vars => [Keeps]_vars
  BY <1>1
<1> QED
  BY <1>2, StripInvariant, PTL DEF Spec, LossNeedsStaleRead

-----------------------------------------------------------------------------
(* What an answer tells.                                                   *)

\* What a visit asked for is one of the three policies.
LEMMA VariantIsPolicy ==
    ASSUME Inductive, NEW v \in Visits
    PROVE  visit[v].variant \in {NoStrip, All, GpsOnly}
BY ContentAssumption DEF Inductive, TypeOK

\* The rows of a page have no location, and nothing that is not in the original.
LEMMA RowsOfAPage ==
    ASSUME NEW o \in Original, NEW variant \in {All, GpsOnly}
    PROVE  /\ PhotoView(o, variant) \subseteq {"date"}
           /\ PhotoCell(o, variant) = {}
<1>1. variant # NoStrip
  BY ContentAssumption, StripAssumption
<1> QED
  BY <1>1 DEF PhotoView, PhotoCell, ToPublicPhotoDto, ExtractExif

\* The file behind a copy.
LEMMA FileOfACopy ==
    ASSUME NEW o \in Original, NEW variant \in {All, GpsOnly}, NEW download \in BOOLEAN
    PROVE  /\ variant = All => FileOf(o, variant, download) = {}
           /\ "gps" \in FileOf(o, variant, download)
                 => variant = GpsOnly /\ o.ext \in JpegOrHeic /\ ~o.jpeg
           /\ variant = GpsOnly /\ o.ext \in JpegOrHeic /\ o.jpeg
                 => FileOf(o, variant, download) = o.tags \ {"gps"}
<1>1. variant # NoStrip /\ All # GpsOnly
  BY ContentAssumption, StripAssumption
<1> QED
  BY <1>1 DEF FileOf, StripExif, StripGpsWithPiexif

\* What a share takes away it tells nobody, whatever the original, the answer and the other
\* visits (photos.service.ts 309-350, shares.service.ts 393-410, OpenView.tsx).
THEOREM SharesWithhold == Spec => []LocationIsWithheld
<1>1. Inductive => LocationIsWithheld
  <2> SUFFICES ASSUME Inductive, NEW v \in Answers, visit[v].variant # NoStrip, NEW o \in Original
               PROVE  LET told == Told(o, visit[v].variant, visit[v].pc = "download", Alone(v))
                      IN /\ "gps" \in told => visit[v].variant = GpsOnly /\ o.ext \in JpegOrHeic /\ ~o.jpeg
                         /\ visit[v].variant = All => told \subseteq {"date"}
                         /\ visit[v].variant = GpsOnly /\ o.ext \in JpegOrHeic /\ o.jpeg
                               => o.tags \ {"gps"} \subseteq told
    BY DEF LocationIsWithheld, AnyOriginalOf
  <2> DEFINE variant == visit[v].variant
             download == visit[v].pc = "download"
  <2>1. variant \in {All, GpsOnly}
    BY VariantIsPolicy DEF Answers
  <2>2. download \in BOOLEAN
    OBVIOUS
  <2> HIDE DEF variant, download
  <2>3. PhotoView(o, variant) \subseteq {"date"} /\ PhotoCell(o, variant) = {}
    BY <2>1, RowsOfAPage
  <2>4. /\ variant = All => FileOf(o, variant, download) = {}
        /\ "gps" \in FileOf(o, variant, download)
              => variant = GpsOnly /\ o.ext \in JpegOrHeic /\ ~o.jpeg
        /\ variant = GpsOnly /\ o.ext \in JpegOrHeic /\ o.jpeg
              => FileOf(o, variant, download) = o.tags \ {"gps"}
    BY <2>1, <2>2, FileOfACopy
  <2> QED
    BY <2>3, <2>4 DEF Told, variant, download
<1> QED
  BY <1>1, StripInvariant, PTL

=============================================================================
