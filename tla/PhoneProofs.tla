---------------------------- MODULE PhoneProofs -----------------------------
(***************************************************************************)
(* The screens of the phone for any moments, photos, views of the map,     *)
(* shares, days and faults.  Every part has an invariant of its own; a     *)
(* step of the phone moves one part by one of its actions, or two, and     *)
(* leaves the others alone.                                                *)
(***************************************************************************)
EXTENDS Phone, FiniteSetTheorems, TLAPS

----------------------------------------------------------------------------
(* The map.                                                                *)

Fetch == {"idle", "asked", "answered"}

\* What is in a view's entry, or on its way there, lies in the view, and the view the
\* camera rests at was asked for.
MapInv ==
    /\ bbox \in View \cup {"none"} /\ kept \in View \cup {"none"}
    /\ pins \in [View -> P!Entry(Photo)]
    /\ \A v \in View : pins[v].data \subseteq In[v] /\ pins[v].answer \subseteq In[v]
    /\ bbox # "none" => pins[bbox].loaded \/ pins[bbox].error \/ pins[bbox].fetch # "idle"
    /\ locating \in {"fixing", "flying"} => permission = "granted"

\* One entry of the map changes to another that is of its view.
LEMMA EntryKeeps ==
    ASSUME MapInv, NEW v \in View, NEW e \in P!Entry(Photo),
           e.data \subseteq In[v], e.answer \subseteq In[v],
           e.loaded \/ e.error \/ e.fetch # "idle" \/ bbox # v,
           pins' = [pins EXCEPT ![v] = e], UNCHANGED <<bbox, kept, permission, locating>>
    PROVE  MapInv'
BY DEF MapInv

\* A mounted query has data or is on its way.
LEMMA MountIsOfView ==
    ASSUME MapInv, NEW v \in View
    PROVE  /\ P!OnMount(pins[v]) \in P!Entry(Photo)
           /\ P!OnMount(pins[v]).data \subseteq In[v] /\ P!OnMount(pins[v]).answer \subseteq In[v]
           /\ P!OnMount(pins[v]).loaded \/ P!OnMount(pins[v]).fetch # "idle"
<1>1. pins[v] \in P!Entry(Photo) /\ pins[v].data \subseteq In[v] /\ pins[v].answer \subseteq In[v]
  BY DEF MapInv
<1>2. P!Asked(pins[v]) \in P!Entry(Photo) /\ P!Asked(pins[v]).fetch = "asked"
      /\ P!Asked(pins[v]).data = pins[v].data /\ P!Asked(pins[v]).answer = {}
  BY <1>1 DEF P!Asked, P!Entry
<1> QED
  BY <1>1, <1>2 DEF P!OnMount

\* The camera comes to rest.
LEMMA RestKeeps ==
    ASSUME MapInv, NEW v \in View, P!RestAt(v),
           locating' \in {"fixing", "flying"} => permission' = "granted"
    PROVE  MapInv'
BY MountIsOfView DEF MapInv, P!RestAt

\* The steps of the map.
LEMMA MapStepKeeps == ASSUME MapInv, MapStep PROVE MapInv'
<1>1. ASSUME NEW p \in Old, P!Locate(p) PROVE MapInv'
  BY <1>1 DEF P!Locate, MapInv
<1>2. CASE P!RetryPermission
  BY <1>2 DEF P!RetryPermission, MapInv
<1>3. ASSUME NEW v \in View, P!MoveCamera(v) PROVE MapInv'
  BY <1>3, RestKeeps DEF P!MoveCamera, MapInv
<1>4. ASSUME NEW status \in {"undetermined", "granted", "denied"}, P!AnswerPermission(status)
      PROVE MapInv'
  BY <1>4 DEF P!AnswerPermission, MapInv
<1>5. CASE P!Fix \/ P!NoFix
  BY <1>5 DEF P!Fix, P!NoFix, MapInv
<1>6. CASE P!Land
  BY <1>6, RestKeeps, MapAssumption DEF P!Land, MapInv
<1>7. ASSUME NEW v \in View, P!PinsAnswered(v) PROVE MapInv'
  <2> DEFINE e == P!Answered(pins[v], P!FoundByBbox(v))
  <2>1. pins[v] \in P!Entry(Photo) /\ P!FoundByBbox(v) \subseteq In[v] /\ In[v] \subseteq Photo
    BY MapAssumption DEF MapInv, P!FoundByBbox
  <2>2. e \in P!Entry(Photo) /\ e.data = pins[v].data /\ e.answer = P!FoundByBbox(v)
        /\ e.fetch = "answered"
    BY <2>1 DEF P!Answered, P!Entry
  <2> QED
    BY <1>7, <2>1, <2>2, EntryKeeps DEF P!PinsAnswered, MapInv
<1>8. ASSUME NEW v \in View, P!PinsReceived(v) PROVE MapInv'
  <2> DEFINE e == P!Received(pins[v])
  <2>1. pins[v] \in P!Entry(Photo) /\ pins[v].answer \subseteq In[v]
    BY DEF MapInv
  <2>2. e \in P!Entry(Photo) /\ e.data = pins[v].answer /\ e.answer = {} /\ e.loaded
    BY <2>1 DEF P!Received, P!Loaded, P!NoEntry, P!Entry
  <2> QED
    BY <1>8, <2>1, <2>2, EntryKeeps DEF P!PinsReceived
<1>9. ASSUME NEW v \in View, P!PinsFail(v) PROVE MapInv'
  <2> DEFINE e == P!Failed(pins[v])
  <2>1. pins[v] \in P!Entry(Photo) /\ pins[v].data \subseteq In[v]
    BY DEF MapInv
  <2>2. e \in P!Entry(Photo) /\ e.data = pins[v].data /\ e.answer = {} /\ e.error
    BY <2>1 DEF P!Failed, P!Entry
  <2> QED
    BY <1>9, <2>1, <2>2, EntryKeeps DEF P!PinsFail
<1>10. ASSUME NEW v \in View, P!PinsAge(v) PROVE MapInv'
  <2> DEFINE e == P!Aged(pins[v])
  <2>1. /\ pins[v] \in P!Entry(Photo) /\ pins[v].data \subseteq In[v] /\ pins[v].answer \subseteq In[v]
        /\ bbox = v => pins[v].loaded \/ pins[v].error \/ pins[v].fetch # "idle"
    BY MapAssumption DEF MapInv
  <2>2. e \in P!Entry(Photo) /\ e.data = pins[v].data /\ e.answer = pins[v].answer
        /\ e.loaded = pins[v].loaded /\ e.error = pins[v].error /\ e.fetch = pins[v].fetch
    BY <2>1 DEF P!Aged, P!Entry
  <2> QED
    BY <1>10, <2>1, <2>2, EntryKeeps DEF P!PinsAge
<1> QED
  BY <1>1, <1>2, <1>3, <1>4, <1>5, <1>6, <1>7, <1>8, <1>9, <1>10 DEF MapStep

LEMMA InitMap == Init => MapInv
<1>1. P!NoEntry \in P!Entry(Photo) /\ P!NoEntry.data = {} /\ P!NoEntry.answer = {}
  BY DEF P!NoEntry, P!Entry
<1> QED
  BY <1>1 DEF Init, P!Init, MapInv

\* Every step.
LEMMA StepMap == MapInv /\ [Next]_vars => MapInv'
<1> SUFFICES ASSUME MapInv, [Next]_vars PROVE MapInv'
  OBVIOUS
<1>1. CASE MapStep
  BY <1>1, MapStepKeeps
<1>2. CASE UNCHANGED mapVars
  BY <1>2 DEF mapVars, MapInv
<1>3. ~MapStep => UNCHANGED mapVars
  BY DEF Next, vars, OpenCreate, OpenMoment, PressRow, Back, OpenPhoto, AddressStep, SavingStep,
     CreateStep, ListStep, UploadStep, RowsStep, SheetStep, NotesStep, OtherThanMoments,
     OtherThanPhotos, OtherThanSheet, OtherThanNotes
<1> QED
  BY <1>1, <1>2, <1>3

\* Once the map has an answer for the view the camera rests at, or has given it up, its
\* markers lie in that view, and it looks for the phone only with the permission to
\* (map.tsx 127-207, photos-queries.ts 53-64).
THEOREM MarkersAreOfTheView == Spec => []MapShowsItsView
<1>1. MapInv => MapShowsItsView
  BY DEF MapInv, MapShowsItsView, P!MapShowsItsView, P!ClusterMarkers, P!MapPhotosData
<1> QED
  BY <1>1, InitMap, StepMap, PTL DEF Spec

----------------------------------------------------------------------------
(* The lists: the moments of the tab, the photos of a moment.              *)

\* What is owed is in the table, in an answer on its way, and in data that count as fresh.
ListInv ==
    /\ moments \subseteq Moment /\ owed \subseteq moments /\ list \in M!Entry(Moment)
    /\ saving \in [Moment -> [pc: {"none", "sent", "saved"}, own: BOOLEAN]]
    /\ \A m \in Moment : saving[m].pc = "saved" => m \in moments
    /\ list.fetch = "answered" => owed \subseteq list.answer
    /\ list.fresh => owed \subseteq list.data

\* A fetch that begins leaves the data, and asks for all.
LEMMA MomentsAsked ==
    ASSUME NEW e \in M!Entry(Moment)
    PROVE  /\ M!Asked(e) \in M!Entry(Moment) /\ M!Asked(e).fetch = "asked"
           /\ M!Asked(e).fresh = e.fresh /\ M!Asked(e).data = e.data
BY DEF M!Asked, M!Entry

\* What the cache does to the entry of the list keeps it, for what was owed already.
LEMMA CacheKeepsList ==
    ASSUME ListInv, NEW e,
           \/ e = list \/ e = M!OnMount(list) \/ e = M!Refetched(list) \/ e = M!Aged(list)
           \/ e = M!Failed(list) \/ (list.fetch = "answered" /\ e = M!Received(list))
           \/ e = M!Answered(list, moments) \/ e = M!Invalidated(list, TRUE)
    PROVE  /\ e \in M!Entry(Moment)
           /\ e.fetch = "answered" => owed \subseteq e.answer
           /\ e.fresh => owed \subseteq e.data
<1>1. list \in M!Entry(Moment)
  BY DEF ListInv
<1>2. CASE e = list
  BY <1>2 DEF ListInv
<1>3. CASE e = M!OnMount(list) \/ e = M!Refetched(list)
  <2>1. e = list \/ e = M!Asked(list)
    BY <1>3 DEF M!OnMount, M!Refetched
  <2> QED
    BY <2>1, <1>1, <1>2, MomentsAsked DEF ListInv
<1>4. CASE e = M!Aged(list)
  BY <1>1, <1>4 DEF M!Aged, M!Entry, ListInv
<1>5. CASE e = M!Failed(list)
  BY <1>1, <1>5 DEF M!Failed, M!Entry, ListInv
<1>6. CASE list.fetch = "answered" /\ e = M!Received(list)
  BY <1>1, <1>6 DEF M!Received, M!Loaded, M!NoEntry, M!Entry, ListInv
<1>7. CASE e = M!Answered(list, moments)
  BY <1>1, <1>7 DEF M!Answered, M!Entry, ListInv
<1>8. CASE e = M!Invalidated(list, TRUE)
  <2> DEFINE stale == [list EXCEPT !.fresh = FALSE]
  <2>1. stale \in M!Entry(Moment) /\ ~stale.fresh /\ stale.fetch = list.fetch
        /\ stale.answer = list.answer
    BY <1>1 DEF M!Entry
  <2>2. e = stale \/ e = M!Asked(stale)
    BY <1>8 DEF M!Invalidated, M!Refetched
  <2> QED
    BY <2>1, <2>2, MomentsAsked DEF ListInv
<1> QED
  BY <1>2, <1>3, <1>4, <1>5, <1>6, <1>7, <1>8

\* The list's steps.
LEMMA CachedListKeeps ==
    ASSUME ListInv, UNCHANGED <<moments, saving, owed>>,
           \/ list' = M!OnMount(list) \/ list' = M!Refetched(list) \/ list' = M!Aged(list)
           \/ list' = M!Failed(list) \/ (list.fetch = "answered" /\ list' = M!Received(list))
           \/ list' = M!Answered(list, moments)
    PROVE  ListInv'
BY CacheKeepsList DEF ListInv

\* A request's answer makes its moment owed where the invalidation asks for the list anew.
LEMMA AnswerKeepsList ==
    ASSUME ListInv, NEW m \in Moment, NEW closes, M!Answer(m, closes)
    PROVE  ListInv'
<1>1. list' = M!Invalidated(list, TRUE) /\ UNCHANGED moments /\ m \in moments
      /\ saving' = [saving EXCEPT ![m] = M!NoRequest]
      /\ owed' = IF list.loaded \/ list.fetch = "idle" THEN owed \cup {m} ELSE owed
  BY DEF M!Answer, M!InvalidateMoments, ListInv
<1>2. /\ list' \in M!Entry(Moment)
      /\ list'.fetch = "answered" => owed \subseteq list'.answer
      /\ list'.fresh => owed \subseteq list'.data
  BY <1>1, CacheKeepsList
<1>3. saving' \in [Moment -> [pc: {"none", "sent", "saved"}, own: BOOLEAN]]
      /\ \A k \in Moment : saving'[k].pc = "saved" => k \in moments
  BY <1>1 DEF M!NoRequest, ListInv
<1>4. list.loaded \/ list.fetch = "idle" => list'.fetch = "asked" /\ ~list'.fresh
  <2> DEFINE stale == [list EXCEPT !.fresh = FALSE]
  <2>1. stale \in M!Entry(Moment) /\ ~stale.fresh /\ stale.fetch = list.fetch
        /\ stale.loaded = list.loaded
    BY DEF M!Entry, ListInv
  <2>2. list' = IF stale.fetch = "idle" \/ stale.loaded THEN M!Asked(stale) ELSE stale
    BY <1>1 DEF M!Invalidated, M!Refetched
  <2> QED
    BY <2>1, <2>2, MomentsAsked
<1> QED
  BY <1>1, <1>2, <1>3, <1>4 DEF ListInv

\* The create screen's form, its requests and its end.
LEMMA FormKeepsList ==
    ASSUME ListInv, M!CreateStep \/ M!MountForm \/ M!UnmountForm
    PROVE  ListInv'
<1>1. CASE UNCHANGED <<moments, list, saving, owed>>
  BY <1>1 DEF ListInv
<1>2. ASSUME NEW m \in Moment, M!Submit(m) PROVE ListInv'
  BY <1>2 DEF M!Submit, ListInv
<1>3. CASE M!UnmountForm
  BY <1>3 DEF M!UnmountForm, ListInv
<1> QED
  BY <1>1, <1>2, <1>3 DEF M!CreateStep, M!EditTitle, M!OpenPicker, M!ClearDate, M!ConfirmDate,
     M!CancelPicker, M!MountForm

LEMMA SavingKeepsList ==
    ASSUME ListInv, NEW m \in Moment, SavingStep(m)
    PROVE  ListInv'
<1>1. CASE M!Save(m)
  BY <1>1 DEF M!Save, ListInv
<1>2. CASE M!Fails(m)
  BY <1>2 DEF M!Fails, M!NoRequest, ListInv
<1> QED
  BY <1>1, <1>2, AnswerKeepsList DEF SavingStep

LEMMA InitList == Init => ListInv
<1> SUFFICES ASSUME Init PROVE ListInv
  OBVIOUS
<1>1. M!NoEntry \in M!Entry(Moment) /\ M!NoEntry.fetch = "idle" /\ ~M!NoEntry.fresh
  BY DEF M!NoEntry, M!Entry
<1>2. M!Loaded(First) \in M!Entry(Moment) /\ M!Loaded(First).fetch = "idle"
  BY MomentsAssumption DEF M!Loaded, M!NoEntry, M!Entry
<1>3. list \in M!Entry(Moment) /\ list.fetch # "answered"
  BY <1>1, <1>2, MomentsAsked DEF Init, M!Init
<1> QED
  BY <1>3, MomentsAssumption DEF Init, M!Init, M!NoRequest, ListInv

LEMMA StepList == ListInv /\ [Next]_vars => ListInv'
<1> SUFFICES ASSUME ListInv, [Next]_vars PROVE ListInv'
  OBVIOUS
<1>1. CASE UNCHANGED momentVars
  BY <1>1 DEF momentVars, ListInv
<1>2. CASE OpenMoment \/ PressRow
  BY <1>1, <1>2, CachedListKeeps DEF OpenMoment, PressRow, M!MountList, momentVars
<1>3. CASE OpenCreate \/ CreateStep
  BY <1>3, FormKeepsList DEF OpenCreate, CreateStep
<1>4. CASE Back
  BY <1>1, <1>4, FormKeepsList DEF Back
<1>5. CASE ListStep
  BY <1>5, CachedListKeeps DEF ListStep, M!ListAnswered, M!ListReceived, M!ListAges, M!Refresh,
     M!ListFails
<1>6. ASSUME NEW m \in Moment, SavingStep(m) PROVE ListInv'
  BY <1>6, SavingKeepsList
<1>7. CASE MapStep \/ UploadStep \/ RowsStep \/ SheetStep \/ NotesStep \/ UNCHANGED vars
  BY <1>1, <1>7 DEF MapStep, UploadStep, RowsStep, SheetStep, NotesStep, vars, OtherThanMap,
     OtherThanPhotos, OtherThanSheet, OtherThanNotes
<1>8. ASSUME NEW p \in Photo, OpenPhoto(p) \/ AddressStep(p) PROVE ListInv'
  BY <1>1, <1>8 DEF OpenPhoto, AddressStep, OtherThanPhotos
<1> QED
  BY <1>2, <1>3, <1>4, <1>5, <1>6, <1>7, <1>8 DEF Next

\* The photos of the moment likewise; an upload that was confirmed has its row.
RowsInv ==
    /\ stored \subseteq Photo /\ due \subseteq stored /\ rows \in G!Entry(Photo)
    /\ upload \in [Photo -> [pc: {"none", "url", "put", "confirm", "confirmed"}, own: BOOLEAN]]
    /\ \A p \in Photo : upload[p].pc = "confirmed" => p \in stored
    /\ rows.fetch = "answered" => due \subseteq rows.answer
    /\ rows.fresh => due \subseteq rows.data

LEMMA RowsAsked ==
    ASSUME NEW e \in G!Entry(Photo)
    PROVE  /\ G!Asked(e) \in G!Entry(Photo) /\ G!Asked(e).fetch = "asked"
           /\ G!Asked(e).fresh = e.fresh /\ G!Asked(e).data = e.data
BY DEF G!Asked, G!Entry

\* What the cache does to the entry of the photos keeps it, for what was due already.
LEMMA CacheKeepsRows ==
    ASSUME RowsInv, NEW watched \in BOOLEAN, NEW e,
           \/ e = rows \/ e = G!OnMount(rows) \/ e = G!Refetched(rows) \/ e = G!Aged(rows)
           \/ e = G!Failed(rows) \/ (rows.fetch = "answered" /\ e = G!Received(rows))
           \/ e = G!Answered(rows, stored) \/ e = G!Invalidated(rows, watched)
    PROVE  /\ e \in G!Entry(Photo)
           /\ e.fetch = "answered" => due \subseteq e.answer
           /\ e.fresh => due \subseteq e.data
<1>1. rows \in G!Entry(Photo)
  BY DEF RowsInv
<1>2. CASE e = rows
  BY <1>2 DEF RowsInv
<1>3. CASE e = G!OnMount(rows) \/ e = G!Refetched(rows)
  <2>1. e = rows \/ e = G!Asked(rows)
    BY <1>3 DEF G!OnMount, G!Refetched
  <2> QED
    BY <2>1, <1>1, <1>2, RowsAsked DEF RowsInv
<1>4. CASE e = G!Aged(rows)
  BY <1>1, <1>4 DEF G!Aged, G!Entry, RowsInv
<1>5. CASE e = G!Failed(rows)
  BY <1>1, <1>5 DEF G!Failed, G!Entry, RowsInv
<1>6. CASE rows.fetch = "answered" /\ e = G!Received(rows)
  BY <1>1, <1>6 DEF G!Received, G!Loaded, G!NoEntry, G!Entry, RowsInv
<1>7. CASE e = G!Answered(rows, stored)
  BY <1>1, <1>7 DEF G!Answered, G!Entry, RowsInv
<1>8. CASE e = G!Invalidated(rows, watched)
  <2> DEFINE stale == [rows EXCEPT !.fresh = FALSE]
  <2>1. stale \in G!Entry(Photo) /\ ~stale.fresh /\ stale.fetch = rows.fetch
        /\ stale.answer = rows.answer
    BY <1>1 DEF G!Entry
  <2>2. e = stale \/ e = G!Asked(stale)
    BY <1>8 DEF G!Invalidated, G!Refetched
  <2> QED
    BY <2>1, <2>2, RowsAsked DEF RowsInv
<1> QED
  BY <1>2, <1>3, <1>4, <1>5, <1>6, <1>7, <1>8

LEMMA CachedRowsKeep ==
    ASSUME RowsInv, UNCHANGED <<stored, upload, due>>,
           \/ rows' = G!OnMount(rows) \/ rows' = G!Refetched(rows) \/ rows' = G!Aged(rows)
           \/ rows' = G!Failed(rows) \/ (rows.fetch = "answered" /\ rows' = G!Received(rows))
           \/ rows' = G!Answered(rows, stored)
    PROVE  RowsInv'
<1>1. TRUE \in BOOLEAN
  OBVIOUS
<1> QED
  BY <1>1, CacheKeepsRows DEF RowsInv

\* An upload's answer makes its photo due where no older fetch can answer without it.
LEMMA UploadedKeepsRows ==
    ASSUME RowsInv, NEW p \in Photo, NEW watched \in BOOLEAN, G!Uploaded(p, watched)
    PROVE  RowsInv'
<1>1. rows' = G!Invalidated(rows, watched) /\ UNCHANGED stored /\ p \in stored
      /\ upload' = [upload EXCEPT ![p] = G!NoUpload]
      /\ due' = IF rows.fetch = "idle" \/ (rows.loaded /\ watched) THEN due \cup {p} ELSE due
  BY DEF G!Uploaded, RowsInv
<1>2. /\ rows' \in G!Entry(Photo)
      /\ rows'.fetch = "answered" => due \subseteq rows'.answer
      /\ rows'.fresh => due \subseteq rows'.data
  BY <1>1, CacheKeepsRows
<1>3. upload' \in [Photo -> [pc: {"none", "url", "put", "confirm", "confirmed"}, own: BOOLEAN]]
      /\ \A q \in Photo : upload'[q].pc = "confirmed" => q \in stored
  BY <1>1 DEF G!NoUpload, RowsInv
<1>4. rows.fetch = "idle" \/ (rows.loaded /\ watched) => rows'.fetch # "answered" /\ ~rows'.fresh
  <2> DEFINE stale == [rows EXCEPT !.fresh = FALSE]
  <2>1. stale \in G!Entry(Photo) /\ ~stale.fresh /\ stale.fetch = rows.fetch
        /\ stale.loaded = rows.loaded
    BY DEF G!Entry, RowsInv
  <2>2. rows' = IF watched /\ (stale.fetch = "idle" \/ stale.loaded) THEN G!Asked(stale) ELSE stale
    BY <1>1 DEF G!Invalidated, G!Refetched
  <2> QED
    BY <2>1, <2>2, RowsAsked
<1> QED
  BY <1>1, <1>2, <1>3, <1>4 DEF RowsInv

\* The upload's other steps leave the entry and what is due alone.
LEMMA UploadKeepsRows == ASSUME RowsInv, UploadStep PROVE RowsInv'
<1>1. CASE G!Pick \/ G!PickNothing
  BY <1>1 DEF G!Pick, G!PickNothing, RowsInv
<1>2. CASE G!Refresh
  BY <1>2, CachedRowsKeep DEF G!Refresh
<1>3. ASSUME NEW p \in Photo, NEW asset \in Assets, G!PickAsset(p, asset) PROVE RowsInv'
  BY <1>3 DEF G!PickAsset, RowsInv
<1>4. ASSUME NEW p \in Photo, G!UploadStep(p) PROVE RowsInv'
  BY <1>4 DEF G!UploadStep, RowsInv
<1>5. ASSUME NEW p \in Photo, G!Confirm(p) PROVE RowsInv'
  BY <1>5 DEF G!Confirm, RowsInv
<1>6. ASSUME NEW p \in Photo, G!Uploaded(p, IsMounted("moment")) PROVE RowsInv'
  <2>1. IsMounted("moment") \in BOOLEAN
    BY DEF IsMounted
  <2> QED
    BY <1>6, <2>1, UploadedKeepsRows
<1>7. ASSUME NEW p \in Photo, G!UploadFails(p) PROVE RowsInv'
  BY <1>7 DEF G!UploadFails, G!NoUpload, RowsInv
<1> QED
  BY <1>1, <1>2, <1>3, <1>4, <1>5, <1>6, <1>7 DEF UploadStep

LEMMA InitRows == Init => RowsInv
<1> SUFFICES ASSUME Init PROVE RowsInv
  OBVIOUS
<1>1. G!NoEntry \in G!Entry(Photo) /\ G!NoEntry.fetch = "idle"
  BY DEF G!NoEntry, G!Entry
<1>2. G!Loaded(Old) \in G!Entry(Photo) /\ G!Loaded(Old).fetch = "idle"
  BY PhotoAssumption DEF G!Loaded, G!NoEntry, G!Entry
<1>3. rows \in G!Entry(Photo) /\ rows.fetch # "answered"
  BY <1>1, <1>2 DEF Init, G!Init
<1> QED
  BY <1>3, PhotoAssumption DEF Init, G!Init, G!NoUpload, RowsInv

LEMMA StepRows == RowsInv /\ [Next]_vars => RowsInv'
<1> SUFFICES ASSUME RowsInv, [Next]_vars PROVE RowsInv'
  OBVIOUS
<1>1. CASE UNCHANGED photoVars
  BY <1>1 DEF photoVars, RowsInv
<1>2. CASE OpenMoment \/ PressRow
  BY <1>1, <1>2, CachedRowsKeep DEF OpenMoment, PressRow, G!MountRows, photoVars
<1>3. ASSUME NEW p \in Photo, OpenPhoto(p) \/ AddressStep(p) PROVE RowsInv'
  <2>1. CASE OpenPhoto(p)
    BY <2>1, CachedRowsKeep DEF OpenPhoto, G!MountRows
  <2>2. CASE AddressStep(p)
    BY <2>2 DEF AddressStep, G!AskAddress, G!AddressAnswered, G!AddressFails, RowsInv
  <2> QED
    BY <1>3, <2>1, <2>2
<1>4. CASE Back
  BY <1>1, <1>4 DEF Back, G!UnmountGrid, G!UnmountDetail, RowsInv, photoVars
<1>5. CASE UploadStep
  BY <1>5, UploadKeepsRows
<1>6. CASE RowsStep
  BY <1>6, CachedRowsKeep DEF RowsStep, G!RowsAnswered, G!RowsReceived, G!RowsAge, G!RowsFail
<1>7. CASE OpenCreate \/ CreateStep \/ ListStep \/ MapStep \/ SheetStep \/ NotesStep
           \/ UNCHANGED vars
  BY <1>1, <1>7 DEF OpenCreate, CreateStep, ListStep, MapStep, SheetStep, NotesStep, vars,
     OtherThanMap, OtherThanMoments, OtherThanSheet, OtherThanNotes
<1>8. ASSUME NEW m \in Moment, SavingStep(m) PROVE RowsInv'
  BY <1>1, <1>8 DEF SavingStep, OtherThanMoments
<1> QED
  BY <1>2, <1>3, <1>4, <1>5, <1>6, <1>7, <1>8 DEF Next

\* What the user made is in the list that shows it whenever that counts as up to date,
\* unless a fetch that could not be cancelled was under way when the answer came
\* (moments-queries.ts 36-43, photos-queries.ts 74-83).
THEOREM WhatWasMadeIsListed == Spec => []CreatedIsListed
<1>1. ListInv /\ RowsInv => CreatedIsListed
  BY DEF ListInv, RowsInv, CreatedIsListed, M!CreatedIsListed, G!UploadedIsListed, M!Settled,
     G!Settled
<1> QED
  BY <1>1, InitList, StepList, InitRows, StepRows, PTL DEF Spec

----------------------------------------------------------------------------
(* The address of a photo.                                                 *)

\* What is put together of any results the external service gives.
LEMMA AddressIsWhole ==
    ASSUME NEW results
    PROVE  LET a == G!ParseResults(results)
           IN /\ a \in G!Address
              /\ a.type # "null" => a.parts # {}
              /\ "number2" \in a.parts => "number1" \in a.parts
              /\ a.type = "road" => "name" \in a.parts
<1> DEFINE road == UNION {G!BuildRoadAddress(r) : r \in {s \in results : s.name = "roadaddr"}}
           jibun == UNION {G!BuildJibunAddress(r) : r \in {s \in results : s.name = "addr"}}
           a == G!ParseResults(results)
<1>1. ASSUME NEW r, "number2" \in G!BuildRoadAddress(r) PROVE "number1" \in G!BuildRoadAddress(r)
  BY <1>1 DEF G!BuildRoadAddress, G!CombineLandNumber
<1>2. ASSUME NEW r, "number2" \in G!BuildJibunAddress(r) PROVE "number1" \in G!BuildJibunAddress(r)
  BY <1>2 DEF G!BuildJibunAddress, G!CombineLandNumber
<1>3. ASSUME NEW r, G!BuildRoadAddress(r) # {} PROVE "name" \in G!BuildRoadAddress(r)
  BY <1>3 DEF G!BuildRoadAddress
<1>4. /\ "number2" \in road => "number1" \in road
      /\ "number2" \in jibun => "number1" \in jibun
      /\ road # {} => "name" \in road
  BY <1>1, <1>2, <1>3
<1>5. road \subseteq G!Field /\ jibun \subseteq G!Field
  <2>1. ASSUME NEW r PROVE G!BuildRoadAddress(r) \subseteq G!Field
    BY DEF G!BuildRoadAddress, G!CombineLandNumber, G!Field
  <2>2. ASSUME NEW r PROVE G!BuildJibunAddress(r) \subseteq G!Field
    BY DEF G!BuildJibunAddress, G!CombineLandNumber, G!Field
  <2> QED
    BY <2>1, <2>2
<1>6. CASE road # {}
  <2>1. a = [type |-> "road", parts |-> road]
    BY <1>6 DEF G!ParseResults
  <2> QED
    BY <2>1, <1>4, <1>5, <1>6 DEF G!Address
<1>7. CASE road = {} /\ jibun # {}
  <2>1. a = [type |-> "jibun", parts |-> jibun]
    BY <1>7 DEF G!ParseResults
  <2> QED
    BY <2>1, <1>4, <1>5, <1>7 DEF G!Address
<1>8. CASE road = {} /\ jibun = {}
  <2>1. a = G!NoAddress
    BY <1>8 DEF G!ParseResults
  <2> QED
    BY <2>1 DEF G!NoAddress, G!Address
<1> QED
  BY <1>6, <1>7, <1>8

\* An address that is known was made of some results.
GeoInv ==
    /\ geo \in [Photo -> [pc: {"idle", "asked", "failed"}, address: G!Address, known: BOOLEAN]]
    /\ \A p \in Photo : geo[p].known => \E results : geo[p].address = G!ParseResults(results)

LEMMA InitGeo == Init => GeoInv
BY DEF Init, G!Init, G!NoGeo, G!NoAddress, G!Address, GeoInv

LEMMA StepGeo == GeoInv /\ [Next]_vars => GeoInv'
<1> SUFFICES ASSUME GeoInv, [Next]_vars PROVE GeoInv'
  OBVIOUS
<1>1. CASE UNCHANGED geo
  BY <1>1 DEF GeoInv
<1>2. ASSUME NEW p \in Photo, G!AddressAnswered(p) PROVE GeoInv'
  BY <1>2, AddressIsWhole DEF G!AddressAnswered, GeoInv
<1>3. ASSUME NEW p \in Photo, G!AskAddress(p) \/ G!AddressFails(p) PROVE GeoInv'
  BY <1>3 DEF G!AskAddress, G!AddressFails, GeoInv
<1>4. ASSUME NEW p, G!UnmountDetail(p) PROVE GeoInv'
  BY <1>4 DEF G!UnmountDetail, GeoInv
<1>5. ASSUME NEW p \in Photo, OpenPhoto(p) \/ AddressStep(p) PROVE GeoInv'
  BY <1>1, <1>2, <1>3, <1>5 DEF OpenPhoto, G!MountRows, AddressStep
<1>6. CASE OpenMoment \/ PressRow \/ Back
  BY <1>1, <1>4, <1>6 DEF OpenMoment, PressRow, Back, G!MountRows, G!UnmountGrid, photoVars
<1>7. CASE UploadStep \/ RowsStep
  BY <1>1, <1>7 DEF UploadStep, RowsStep, G!Pick, G!PickNothing, G!Refresh, G!PickAsset,
     G!UploadStep, G!Confirm, G!Uploaded, G!UploadFails, G!RowsAnswered, G!RowsReceived,
     G!RowsAge, G!RowsFail
<1>8. CASE OpenCreate \/ CreateStep \/ ListStep \/ MapStep \/ SheetStep \/ NotesStep
           \/ UNCHANGED vars
  BY <1>1, <1>8 DEF OpenCreate, CreateStep, ListStep, MapStep, SheetStep, NotesStep, vars,
     OtherThanMap, OtherThanMoments, OtherThanSheet, OtherThanNotes, photoVars
<1>9. ASSUME NEW m \in Moment, SavingStep(m) PROVE GeoInv'
  BY <1>1, <1>9 DEF SavingStep, OtherThanMoments, photoVars
<1> QED
  BY <1>5, <1>6, <1>7, <1>8, <1>9 DEF Next

\* Whatever the external service leaves out of its answer, the place of a photo is never
\* blank, nor half a lot number, nor a street without its name (geocoding.service.ts 150-210,
\* photos/[photoId].tsx).
THEOREM PlacesAreNamed == Spec => []PlaceIsNamed
<1>1. ASSUME GeoInv, NEW p \in Located
      PROVE  /\ G!Place(p) # {}
             /\ "number2" \in G!Place(p) => "number1" \in G!Place(p)
             /\ geo[p].known /\ geo[p].address.type = "road" => "name" \in G!Place(p)
  <2>1. geo[p].known => \E results : geo[p].address = G!ParseResults(results)
    BY <1>1, PhotoAssumption DEF GeoInv
  <2>2. CASE geo[p].known
    <3>1. PICK results : geo[p].address = G!ParseResults(results)
      BY <2>1, <2>2
    <3> QED
      BY <3>1, <2>2, AddressIsWhole DEF G!Place
  <2>3. CASE ~geo[p].known
    BY <2>3 DEF G!Place
  <2> QED
    BY <2>2, <2>3
<1>2. GeoInv => PlaceIsNamed
  BY <1>1 DEF PlaceIsNamed, G!PlaceIsNamed
<1> QED
  BY <1>2, InitGeo, StepGeo, PTL DEF Spec

----------------------------------------------------------------------------
(* The share sheet.                                                        *)

Target == Photo \cup First
Sheet == [mounted: BOOLEAN, visible: BOOLEAN, form: H!Form, link: H!Body \cup {H!NoLink},
          left: BOOLEAN]
Request == [pc: {"unsent", "sent", "over"}, own: BOOLEAN, body: H!Body \cup {H!NoLink}]

\* A request that a mounted sheet waits for asks for what its form still says, and so does
\* the link a sheet has.
SheetInv ==
    /\ sheet \in [Target -> Sheet] /\ creating \in [H!Call -> Request]
    /\ \A c \in H!Call : creating[c].pc = "sent" => creating[c].body \in H!Body
    /\ \A c \in H!Call, t \in Target :
          creating[c].own /\ creating[c].body.target = t =>
              /\ creating[c].pc = "sent" /\ sheet[t].mounted
              /\ sheet[t].left \/ creating[c].body = H!RequestOf(t)
    /\ \A t \in Target : sheet[t].link # H!NoLink =>
          /\ sheet[t].link.target = t
          /\ sheet[t].left \/ sheet[t].link = H!RequestOf(t)
    /\ \A c \in H!Call : creating[c].own => creating[c].pc = "sent"
    /\ \A t \in Target : sheet[t].visible => sheet[t].mounted

\* What can be stacked; whoever shares stacks only screens with a target.
Route == [name: {"create", "moment", "photo"}, of: Target \cup {"none"}]
IsStack(s) ==
    s \in Seq(Route) /\ (errand = "share" => \A i \in 1 .. Len(s) : s[i].of \in Target)

\* Only the sheet of the screen on top is open, and no other errand than sharing opens one.
RouterInv ==
    /\ IsStack(stack)
    /\ \A t \in Target : sheet[t].visible => errand = "share" /\ stack # << >> /\ Top = t
    /\ errand # "create" => \A m \in Moment : ~saving[m].own

\* A sheet and its requests after a step that concerns one target and no request of it.
LEMMA SheetChanges ==
    ASSUME SheetInv, NEW t \in Target, NEW s \in Sheet,
           sheet' = [sheet EXCEPT ![t] = s], UNCHANGED creating,
           s.link # H!NoLink => s.link = sheet[t].link, s.visible => s.mounted,
           \/ s.mounted = sheet[t].mounted /\ s.left = sheet[t].left /\ s.form = sheet[t].form
           \/ s.link = H!NoLink /\ \A c \in H!Call : ~(creating[c].own /\ creating[c].body.target = t)
           \/ s.link = H!NoLink /\ s.left /\ s.mounted
    PROVE  SheetInv'
<1>1. ASSUME NEW u \in Target, u # t PROVE sheet'[u] = sheet[u] /\ H!RequestOf(u)' = H!RequestOf(u)
  BY <1>1 DEF SheetInv, H!RequestOf
<1>2. sheet'[t] = s /\ sheet' \in [Target -> Sheet]
  BY DEF SheetInv
<1>3. s.form = sheet[t].form => H!RequestOf(t)' = H!RequestOf(t)
  BY <1>2 DEF H!RequestOf
<1>4. ASSUME NEW u \in Target, sheet'[u].link # H!NoLink
      PROVE  sheet'[u].link.target = u /\ (sheet'[u].left \/ sheet'[u].link = H!RequestOf(u)')
  <2>1. CASE u # t
    BY <1>1, <1>4, <2>1 DEF SheetInv
  <2>2. CASE u = t
    BY <1>2, <1>3, <1>4, <2>2 DEF SheetInv
  <2> QED
    BY <2>1, <2>2
<1>5. ASSUME NEW c \in H!Call, NEW u \in Target, creating[c].own, creating[c].body.target = u
      PROVE  /\ creating[c].pc = "sent" /\ sheet'[u].mounted
             /\ sheet'[u].left \/ creating[c].body = H!RequestOf(u)'
  <2>1. CASE u # t
    BY <1>1, <1>5, <2>1 DEF SheetInv
  <2>2. CASE u = t
    BY <1>2, <1>3, <1>5, <2>2 DEF SheetInv
  <2> QED
    BY <2>1, <2>2
<1> QED
  BY <1>2, <1>4, <1>5 DEF SheetInv

\* A sheet asks for what its form says.
LEMMA RequestKeeps ==
    ASSUME SheetInv, NEW t \in Target, NEW s \in Sheet, NEW c \in H!Call, NEW r \in Request,
           sheet' = [sheet EXCEPT ![t] = s], creating' = [creating EXCEPT ![c] = r],
           s.link = H!NoLink, s.mounted, s.form = sheet[t].form,
           r.pc = "sent", r.body \in H!Body, r.body.target = t, r.body = H!RequestOf(t),
           \A d \in H!Call : ~(creating[d].own /\ creating[d].body.target = t)
    PROVE  SheetInv'
<1>1. ASSUME NEW u \in Target, u # t PROVE sheet'[u] = sheet[u] /\ H!RequestOf(u)' = H!RequestOf(u)
  BY <1>1 DEF SheetInv, H!RequestOf
<1>2. sheet'[t] = s /\ sheet' \in [Target -> Sheet] /\ creating' \in [H!Call -> Request]
      /\ creating'[c] = r /\ \A d \in H!Call : d # c => creating'[d] = creating[d]
  BY DEF SheetInv
<1>3. H!RequestOf(t)' = H!RequestOf(t)
  BY <1>2 DEF H!RequestOf
<1>4. ASSUME NEW u \in Target, sheet'[u].link # H!NoLink
      PROVE  sheet'[u].link.target = u /\ (sheet'[u].left \/ sheet'[u].link = H!RequestOf(u)')
  BY <1>1, <1>2, <1>4 DEF SheetInv
<1>5. ASSUME NEW d \in H!Call, NEW u \in Target, creating'[d].own, creating'[d].body.target = u
      PROVE  /\ creating'[d].pc = "sent" /\ sheet'[u].mounted
             /\ sheet'[u].left \/ creating'[d].body = H!RequestOf(u)'
  <2>1. CASE d = c
    BY <1>2, <1>3, <1>5, <2>1
  <2>2. CASE d # c
    BY <1>1, <1>2, <1>5, <2>2 DEF SheetInv
  <2> QED
    BY <2>1, <2>2
<1>6. \A d \in H!Call : /\ creating'[d].pc = "sent" => creating'[d].body \in H!Body
                        /\ creating'[d].own => creating'[d].pc = "sent"
  BY <1>2 DEF SheetInv
<1>7. \A u \in Target : sheet'[u].visible => sheet'[u].mounted
  BY <1>1, <1>2 DEF SheetInv
<1> QED
  BY <1>2, <1>4, <1>5, <1>6, <1>7 DEF SheetInv

\* What the user does with the sheet of the screen on top.
LEMMA SheetUseKeeps ==
    ASSUME SheetInv, NEW t \in Target, H!SheetStep(t) \/ (H!Mount(t) /\ ~sheet[t].mounted)
    PROVE  SheetInv' /\ \A u \in Target : sheet'[u].visible => u = t \/ sheet[u].visible
<1> DEFINE old == sheet[t]
           empty == [H!Unmounted EXCEPT !.mounted = TRUE]
<1>1. old \in Sheet /\ H!Unmounted \in Sheet /\ empty \in Sheet /\ empty.link = H!NoLink
      /\ empty.mounted /\ ~empty.left
  BY DEF SheetInv, Sheet, H!Unmounted, H!DefaultForm, H!Form
<1>2. H!Editable(t) => old.link = H!NoLink
                       /\ \A c \in H!Call : ~(creating[c].own /\ creating[c].body.target = t)
  BY DEF H!Editable, H!IsPending, SheetInv
<1>3. ASSUME NEW s \in Sheet, sheet' = [sheet EXCEPT ![t] = s]
      PROVE  \A u \in Target : sheet'[u].visible => u = t \/ sheet[u].visible
  BY <1>3 DEF SheetInv
<1>4. CASE H!Mount(t) /\ ~old.mounted
  <2>1. \A c \in H!Call : ~(creating[c].own /\ creating[c].body.target = t)
    BY <1>4 DEF SheetInv
  <2> QED
    BY <2>1, <1>1, <1>3, <1>4, SheetChanges DEF H!Mount
<1>5. CASE H!Open(t)
  <2> DEFINE s == [old EXCEPT !.visible = TRUE]
  <2>1. s \in Sheet /\ s.mounted = old.mounted /\ s.left = old.left /\ s.form = old.form
        /\ s.link = old.link
    BY <1>1 DEF Sheet
  <2>2. sheet' = [sheet EXCEPT ![t] = s] /\ UNCHANGED creating
    BY <1>5 DEF H!Open
  <2> QED
    BY <2>1, <2>2, <1>3, <1>5, SheetChanges DEF H!Open
<1>6. ASSUME NEW option \in {"default", "other"}, H!SetOption(t, option)
      PROVE  SheetInv' /\ \A u \in Target : sheet'[u].visible => u = t \/ sheet[u].visible
  <2> DEFINE s == [old EXCEPT !.form.option = option]
  <2>1. s \in Sheet /\ s.link = old.link /\ s.mounted = old.mounted /\ s.visible = old.visible
    BY <1>1 DEF Sheet, H!Form
  <2>2. sheet' = [sheet EXCEPT ![t] = s] /\ UNCHANGED creating /\ H!Editable(t)
    BY <1>6 DEF H!SetOption
  <2> QED
    BY <2>1, <2>2, <1>2, <1>3, SheetChanges DEF SheetInv
<1>7. ASSUME NEW password \in {"none", "short", "long"}, H!SetPassword(t, password)
      PROVE  SheetInv' /\ \A u \in Target : sheet'[u].visible => u = t \/ sheet[u].visible
  <2> DEFINE s == [old EXCEPT !.form.password = password]
  <2>1. s \in Sheet /\ s.link = old.link /\ s.mounted = old.mounted /\ s.visible = old.visible
    BY <1>1 DEF Sheet, H!Form
  <2>2. sheet' = [sheet EXCEPT ![t] = s] /\ UNCHANGED creating /\ H!Editable(t)
    BY <1>7 DEF H!SetPassword
  <2> QED
    BY <2>1, <2>2, <1>2, <1>3, SheetChanges DEF SheetInv
<1>8. CASE H!HandleClose(t)
  <2> DEFINE s == [H!Unmounted EXCEPT !.mounted = TRUE, !.left = H!IsPending(t)]
  <2>1. s \in Sheet /\ s.link = H!NoLink /\ s.mounted /\ (s.left <=> H!IsPending(t))
    BY <1>1 DEF Sheet, H!Unmounted, H!IsPending
  <2>2. ~H!IsPending(t) => \A c \in H!Call : ~(creating[c].own /\ creating[c].body.target = t)
    BY DEF H!IsPending, SheetInv
  <2>3. sheet' = [sheet EXCEPT ![t] = s] /\ UNCHANGED creating
    BY <1>8 DEF H!HandleClose
  <2> QED
    BY <2>1, <2>2, <2>3, <1>3, SheetChanges
<1>9. ASSUME NEW c \in H!Call, H!HandleCreate(t, c)
      PROVE  SheetInv' /\ \A u \in Target : sheet'[u].visible => u = t \/ sheet[u].visible
  <2> DEFINE s == [old EXCEPT !.left = FALSE]
             request == [pc |-> "sent", own |-> TRUE, body |-> H!RequestOf(t)]
  <2>1. s \in Sheet /\ s.form = old.form /\ s.link = old.link /\ s.mounted = old.mounted
    BY <1>1 DEF Sheet
  <2>2. sheet' = [sheet EXCEPT ![t] = s] /\ creating' = [creating EXCEPT ![c] = request]
        /\ H!Editable(t)
    BY <1>9 DEF H!HandleCreate
  <2>3. H!RequestOf(t) \in H!Body /\ H!RequestOf(t).target = t
    BY <1>1 DEF H!RequestOf, H!Body, Target, Sheet, H!Form
  <2>4. request \in Request /\ request.pc = "sent" /\ request.body = H!RequestOf(t)
    BY <2>3 DEF Request
  <2>5. s.mounted
    <3>1. sheet[t].mounted
      BY <2>2 DEF H!Editable, SheetInv
    <3> QED
      BY <3>1, <1>1 DEF Sheet
  <2>6. s.link = H!NoLink /\ \A d \in H!Call : ~(creating[d].own /\ creating[d].body.target = t)
    BY <2>1, <2>2, <1>2
  <2>7. request.body \in H!Body /\ request.body.target = t
    BY <2>3, <2>4
  <2> HIDE DEF s, request
  <2>8. SheetInv'
    BY <2>1, <2>2, <2>4, <2>5, <2>6, <2>7, RequestKeeps
  <2> QED
    BY <2>1, <2>2, <2>8, <1>3
<1> QED
  BY <1>4, <1>5, <1>6, <1>7, <1>8, <1>9 DEF H!SheetStep

\* A request ends, its link going to the sheet that waits for it, if it is still there.
LEMMA RequestEndKeeps ==
    ASSUME SheetInv, NEW c \in H!Call, H!CreateAnswered(c) \/ H!CreateFails(c)
    PROVE  SheetInv' /\ \A t \in Target : sheet'[t].visible => sheet[t].visible
<1> DEFINE over == [H!Unsent EXCEPT !.pc = "over"]
<1>1. over \in Request /\ over.pc = "over" /\ ~over.own
  BY DEF H!Unsent, Request
<1>2. creating' = [creating EXCEPT ![c] = over]
  BY DEF H!CreateAnswered, H!CreateFails, H!Over
<1> HIDE DEF over
<1>3. creating' \in [H!Call -> Request] /\ creating'[c] = over
      /\ \A d \in H!Call : d # c => creating'[d] = creating[d]
  BY <1>1, <1>2 DEF SheetInv
<1>4. CASE UNCHANGED sheet
  BY <1>1, <1>3, <1>4 DEF SheetInv, H!RequestOf
<1>5. CASE H!CreateAnswered(c) /\ creating[c].own
  <2> DEFINE t == creating[c].body.target
             s == [sheet[t] EXCEPT !.link = creating[c].body]
  <2>1. t \in Target /\ creating[c].body \in H!Body
    BY <1>5 DEF H!CreateAnswered, SheetInv, H!Body, Target
  <2>2. sheet' = [sheet EXCEPT ![t] = s]
    BY <1>5 DEF H!CreateAnswered, H!LinkToItsSheet
  <2>3. s \in Sheet /\ s.link = creating[c].body /\ s.form = sheet[t].form
        /\ s.left = sheet[t].left /\ s.mounted = sheet[t].mounted /\ s.visible = sheet[t].visible
    BY <2>1 DEF SheetInv, Sheet
  <2>4. sheet[t].left \/ creating[c].body = H!RequestOf(t)
    BY <2>1, <1>5 DEF SheetInv
  <2> HIDE DEF s
  <2>5. sheet' \in [Target -> Sheet] /\ sheet'[t] = s
        /\ \A u \in Target : u # t => sheet'[u] = sheet[u]
    BY <2>1, <2>2, <2>3 DEF SheetInv
  <2>6. \A u \in Target : H!RequestOf(u)' = H!RequestOf(u)
    BY <2>3, <2>5 DEF H!RequestOf
  <2>7. \A u \in Target : /\ sheet'[u].left = sheet[u].left
                          /\ sheet'[u].mounted = sheet[u].mounted
                          /\ sheet'[u].visible = sheet[u].visible
    BY <2>3, <2>5
  <2>8. ASSUME NEW u \in Target, sheet'[u].link # H!NoLink
        PROVE  sheet'[u].link.target = u /\ (sheet'[u].left \/ sheet'[u].link = H!RequestOf(u)')
    BY <2>3, <2>4, <2>5, <2>6, <2>8 DEF SheetInv
  <2>9. ASSUME NEW d \in H!Call, NEW u \in Target, creating'[d].own, creating'[d].body.target = u
        PROVE  /\ creating'[d].pc = "sent" /\ sheet'[u].mounted
               /\ sheet'[u].left \/ creating'[d].body = H!RequestOf(u)'
    <3>1. d # c /\ creating'[d] = creating[d]
      BY <1>1, <1>3, <2>9
    <3> QED
      BY <3>1, <2>3, <2>5, <2>6, <2>9 DEF SheetInv
  <2>10. \A d \in H!Call : /\ creating'[d].pc = "sent" => creating'[d].body \in H!Body
                           /\ creating'[d].own => creating'[d].pc = "sent"
    BY <1>1, <1>3 DEF SheetInv
  <2>11. \A u \in Target : /\ sheet'[u].visible => sheet'[u].mounted
                           /\ sheet'[u].visible => sheet[u].visible
    BY <2>3, <2>5 DEF SheetInv
  <2> QED
    BY <1>3, <2>5, <2>8, <2>9, <2>10, <2>11 DEF SheetInv
<1> QED
  BY <1>4, <1>5 DEF H!CreateAnswered, H!CreateFails, H!LinkToItsSheet

\* A sheet that goes with its screen leaves its requests to nobody.
LEMMA UnmountKeepsSheet ==
    ASSUME SheetInv, NEW t, H!Unmount(t)
    PROVE  SheetInv' /\ \A u \in Target : sheet'[u].visible => sheet[u].visible
<1>1. H!Unmounted \in Sheet /\ H!Unmounted.link = H!NoLink /\ ~H!Unmounted.visible
  BY DEF Sheet, H!Unmounted, H!DefaultForm, H!Form
<1>2. sheet' = [sheet EXCEPT ![t] = H!Unmounted]
      /\ creating' = [c \in H!Call |-> IF creating[c].body.target = t
                                       THEN [creating[c] EXCEPT !.own = FALSE] ELSE creating[c]]
  BY DEF H!Unmount
<1>3. sheet' \in [Target -> Sheet]
      /\ \A u \in Target : sheet'[u] = IF u = t THEN H!Unmounted ELSE sheet[u]
  BY <1>1, <1>2 DEF SheetInv
<1>4. ASSUME NEW c \in H!Call
      PROVE  /\ creating'[c] \in Request /\ creating'[c].body = creating[c].body
             /\ creating'[c].pc = creating[c].pc
             /\ creating'[c].own => creating[c].own /\ creating[c].body.target # t
  <2>1. creating[c] \in Request
    BY DEF SheetInv
  <2>2. CASE creating[c].body.target = t
    BY <1>2, <2>1, <2>2 DEF Request
  <2>3. CASE creating[c].body.target # t
    BY <1>2, <2>1, <2>3
  <2> QED
    BY <2>2, <2>3
<1>5. creating' \in [H!Call -> Request]
  BY <1>2, <1>4
<1>6. ASSUME NEW u \in Target, u # t PROVE H!RequestOf(u)' = H!RequestOf(u)
  BY <1>3, <1>6 DEF H!RequestOf
<1>7. ASSUME NEW u \in Target, sheet'[u].link # H!NoLink
      PROVE  sheet'[u].link.target = u /\ (sheet'[u].left \/ sheet'[u].link = H!RequestOf(u)')
  BY <1>1, <1>3, <1>6, <1>7 DEF SheetInv
<1>8. ASSUME NEW d \in H!Call, NEW u \in Target, creating'[d].own, creating'[d].body.target = u
      PROVE  /\ creating'[d].pc = "sent" /\ sheet'[u].mounted
             /\ sheet'[u].left \/ creating'[d].body = H!RequestOf(u)'
  BY <1>3, <1>4, <1>6, <1>8 DEF SheetInv
<1> QED
  BY <1>1, <1>3, <1>4, <1>5, <1>7, <1>8 DEF SheetInv

LEMMA InitSheet == Init => SheetInv /\ RouterInv
<1> SUFFICES ASSUME Init PROVE SheetInv /\ RouterInv
  OBVIOUS
<1>1. H!Unmounted \in Sheet /\ H!Unmounted.link = H!NoLink /\ ~H!Unmounted.visible
  BY DEF Sheet, H!Unmounted, H!DefaultForm, H!Form
<1>2. H!Unsent \in Request /\ H!Unsent.pc = "unsent" /\ ~H!Unsent.own
  BY DEF Request, H!Unsent
<1>3. SheetInv
  BY <1>1, <1>2 DEF Init, H!Init, SheetInv, Target
<1>4. \A m \in Moment : ~saving[m].own
  BY DEF Init, M!Init, M!NoRequest
<1>5. IsStack(stack)
  <2>1. stack = << >> /\ << >> \in Seq(Route) /\ Len(<< >>) = 0
    BY DEF Init
  <2> QED
    BY <2>1 DEF IsStack
<1>6. \A t \in Target : ~sheet[t].visible
  BY <1>1 DEF Init, H!Init, Target
<1> QED
  BY <1>3, <1>4, <1>5, <1>6 DEF RouterInv

\* The screen on top, and the screens after another is pushed or the top one goes.
LEMMA Screens ==
    ASSUME IsStack(stack)
    PROVE  /\ \A s \in Route : (errand = "share" => s.of \in Target) => IsStack(Append(stack, s))
           /\ IsStack(SubSeq(stack, 1, Len(stack) - 1))
           /\ stack # << >> /\ errand = "share" => Top \in Target
<1> DEFINE popped == SubSeq(stack, 1, Len(stack) - 1)
<1>1. stack \in Seq(Route) /\ Len(stack) \in Nat
  BY DEF IsStack
<1>2. ASSUME NEW s \in Route, errand = "share" => s.of \in Target PROVE IsStack(Append(stack, s))
  <2>1. /\ Append(stack, s) \in Seq(Route) /\ Len(Append(stack, s)) = Len(stack) + 1
        /\ Append(stack, s)[Len(stack) + 1] = s
        /\ \A i \in 1 .. Len(stack) : Append(stack, s)[i] = stack[i]
    BY <1>1
  <2> QED
    BY <2>1, <1>1, <1>2 DEF IsStack
<1>3. IsStack(popped)
  <2>1. \A i \in 1 .. Len(stack) - 1 : stack[i] \in Route
    BY <1>1
  <2>2. popped \in Seq(Route) /\ Len(popped) = IF 1 <= Len(stack) - 1 THEN Len(stack) - 1 ELSE 0
    BY <1>1, <2>1
  <2>3. ASSUME NEW i \in 1 .. Len(popped) PROVE popped[i] = stack[i] /\ i \in 1 .. Len(stack)
    BY <1>1, <2>2, <2>3
  <2> HIDE DEF popped
  <2> QED
    BY <2>2, <2>3 DEF IsStack
<1>4. stack # << >> => Len(stack) \in 1 .. Len(stack)
  BY <1>1
<1>5. stack # << >> /\ errand = "share" => Top \in Target
  BY <1>4 DEF IsStack, Top
<1> QED
  BY <1>2, <1>3, <1>5

\* Every step, by what it does to the sheets and to the stack.
LEMMA StepSheet == ListInv /\ SheetInv /\ RouterInv /\ [Next]_vars => SheetInv' /\ RouterInv'
<1> SUFFICES ASSUME ListInv, SheetInv, RouterInv, [Next]_vars PROVE SheetInv' /\ RouterInv'
  OBVIOUS
<1>1. UNCHANGED sheetVars => SheetInv'
  BY DEF sheetVars, SheetInv, H!RequestOf
<1>2. ASSUME UNCHANGED <<sheetVars, router>>, errand # "create" => \A m \in Moment : ~saving'[m].own
      PROVE  SheetInv' /\ RouterInv'
  BY <1>1, <1>2 DEF RouterInv, IsStack, Top, sheetVars, router
<1>3. ASSUME NEW name \in {"create", "moment", "photo"}, NEW of \in Target \cup {"none"},
             Push(Screen(name, of)), errand = "share" => of \in Target, UNCHANGED sheetVars,
             UNCHANGED saving, \A t \in Target : ~sheet[t].visible
      PROVE  SheetInv' /\ RouterInv'
  <2>1. Screen(name, of) \in Route /\ Screen(name, of).of = of
    BY DEF Screen, Route
  <2>2. IsStack(Append(stack, Screen(name, of)))
    BY <1>3, <2>1, Screens DEF RouterInv
  <2>3. IsStack(stack)'
    BY <1>3, <2>2 DEF Push, IsStack
  <2> QED
    BY <1>1, <1>3, <2>3 DEF RouterInv, Push, sheetVars
<1>4. ASSUME Pop, SheetInv', \A t \in Target : ~sheet'[t].visible,
             errand # "create" => \A m \in Moment : ~saving'[m].own
      PROVE  SheetInv' /\ RouterInv'
  <2>1. IsStack(SubSeq(stack, 1, Len(stack) - 1))
    BY <1>4, Screens DEF RouterInv
  <2>2. IsStack(stack)'
    BY <1>4, <2>1 DEF Pop, IsStack
  <2> QED
    BY <1>4, <2>2 DEF RouterInv, Pop
<1>5. stack = << >> => \A t \in Target : ~sheet[t].visible
  BY DEF RouterInv
<1>6. errand # "create" => \A m \in Moment : ~saving[m].own
  BY DEF RouterInv
<1>7. Album \in Target
  BY PhoneAssumption DEF Target
<1>8. CASE OpenCreate
  BY <1>3, <1>5, <1>8 DEF OpenCreate, OtherThanMoments, M!MountForm
<1>9. CASE OpenMoment
  BY <1>3, <1>5, <1>7, <1>9 DEF OpenMoment, M!MountList
<1>10. CASE PressRow
  BY <1>2, <1>3, <1>5, <1>6, <1>7, <1>10 DEF PressRow, M!MountList, Stay, momentVars, sheetVars,
     router
<1>11. ASSUME NEW p \in Photo, OpenPhoto(p) PROVE SheetInv' /\ RouterInv'
  <2>1. p \in Target
    BY DEF Target
  <2>2. \A t \in Target : ~sheet[t].visible
    BY <1>5, <1>11 DEF OpenPhoto, NoSheet, Target
  <2> QED
    BY <1>3, <1>11, <2>1, <2>2 DEF OpenPhoto, momentVars
<1>12. CASE Back
  <2>1. stack # << >> /\ Pop /\ \A t \in Target : ~sheet[t].visible
    BY <1>12 DEF Back, NoSheet, Target
  <2>2. CASE M!UnmountForm /\ UNCHANGED sheetVars
    <3>1. errand # "create" => \A m \in Moment : ~saving'[m].own
      BY <1>6, <2>2 DEF M!UnmountForm, ListInv
    <3> QED
      BY <1>1, <1>4, <2>1, <2>2, <3>1 DEF sheetVars
  <2>3. CASE H!Unmount(Top) /\ UNCHANGED momentVars
    BY <1>4, <1>6, <2>1, <2>3, UnmountKeepsSheet DEF momentVars
  <2> QED
    BY <1>12, <2>2, <2>3 DEF Back
<1>13. CASE CreateStep
  <2>1. errand = "create" /\ UNCHANGED <<sheetVars, router>>
    BY <1>13 DEF CreateStep, OtherThanMoments, Stay
  <2> QED
    BY <1>2, <2>1
<1>14. ASSUME NEW m \in Moment, SavingStep(m) PROVE SheetInv' /\ RouterInv'
  <2>1. UNCHANGED sheetVars
    BY <1>14 DEF SavingStep, OtherThanMoments
  <2>2. errand # "create" => \A k \in Moment : ~saving'[k].own
    BY <1>6, <1>14 DEF SavingStep, M!Save, M!Answer, M!Fails, M!NoRequest, ListInv
  <2>3. CASE Stay
    BY <1>2, <2>1, <2>2, <2>3 DEF Stay
  <2>4. CASE saving[m].own /\ Pop
    <3>1. errand = "create"
      BY <1>6, <2>4
    <3>2. \A t \in Target : ~sheet[t].visible
      BY <3>1 DEF RouterInv
    <3> QED
      BY <1>1, <1>4, <2>1, <2>2, <2>4, <3>2 DEF sheetVars
  <2> QED
    BY <1>14, <2>3, <2>4 DEF SavingStep
<1>15. CASE SheetStep
  <2>1. UNCHANGED <<router, saving>> /\ errand = "share"
    BY <1>15 DEF SheetStep, Stay, OtherThanSheet, momentVars
  <2>2. ASSUME stack # << >>, H!SheetStep(Top) \/ (H!Mount(Top) /\ ~sheet[Top].mounted)
        PROVE  SheetInv' /\ RouterInv'
    <3>1. Top \in Target
      BY <2>1, <2>2, Screens DEF RouterInv
    <3>2. SheetInv' /\ \A u \in Target : sheet'[u].visible => u = Top \/ sheet[u].visible
      BY <2>2, <3>1, SheetUseKeeps
    <3> QED
      BY <2>1, <2>2, <3>2 DEF RouterInv, IsStack, Top, router
  <2>3. ASSUME NEW c \in H!Call, H!CreateAnswered(c) \/ H!CreateFails(c)
        PROVE  SheetInv' /\ RouterInv'
    <3>1. SheetInv' /\ \A t \in Target : sheet'[t].visible => sheet[t].visible
      BY <2>3, RequestEndKeeps
    <3> QED
      BY <2>1, <3>1 DEF RouterInv, IsStack, Top, router
  <2> QED
    BY <1>15, <2>2, <2>3 DEF SheetStep
<1>16. CASE ListStep
  <2>1. UNCHANGED <<sheetVars, router, saving>>
    BY <1>16 DEF ListStep, OtherThanMoments, Stay, M!ListAnswered, M!ListReceived, M!ListAges,
       M!Refresh, M!ListFails
  <2> QED
    BY <1>2, <1>6, <2>1
<1>17. CASE MapStep \/ UploadStep \/ RowsStep \/ NotesStep \/ UNCHANGED vars
  <2>1. UNCHANGED <<sheetVars, router, saving>>
    BY <1>17 DEF MapStep, UploadStep, RowsStep, NotesStep, OtherThanMap, OtherThanPhotos,
       OtherThanNotes, Stay, momentVars, vars
  <2> QED
    BY <1>2, <1>6, <2>1
<1>18. ASSUME NEW p \in Photo, AddressStep(p) PROVE SheetInv' /\ RouterInv'
  <2>1. UNCHANGED <<sheetVars, router, saving>>
    BY <1>18 DEF AddressStep, OtherThanPhotos, Stay, momentVars
  <2> QED
    BY <1>2, <1>6, <2>1
<1> QED
  BY <1>8, <1>9, <1>10, <1>11, <1>12, <1>13, <1>14, <1>15, <1>16, <1>17, <1>18 DEF Next

\* A link that can be given away leads to what the screen on top shows, and was asked for
\* with what its form said when it was sent (ShareModal.tsx 63-114): no answer for another
\* target, or for a sheet that has gone, gets into an open sheet.
THEOREM LinksAreOfTheirTarget == Spec => []LinkIsOfTarget
<1>1. ASSUME SheetInv, RouterInv, NEW t \in Target, H!GivenAway(t) # H!NoLink
      PROVE  /\ H!GivenAway(t).target = t
             /\ sheet[t].left \/ H!GivenAway(t) = H!RequestOf(t)
             /\ stack # << >> /\ Top = t
  <2>1. sheet[t].visible /\ H!GivenAway(t) = sheet[t].link
    BY <1>1 DEF H!GivenAway
  <2> QED
    BY <1>1, <2>1 DEF SheetInv, RouterInv
<1>2. SheetInv /\ RouterInv => LinkIsOfTarget
  BY <1>1 DEF LinkIsOfTarget, H!LinkIsOfTarget, Target
<1> QED
  BY <1>2, InitList, StepList, InitSheet, StepSheet, PTL DEF Spec

----------------------------------------------------------------------------
(* The dates of the create form.                                           *)

\* A date that is set is midnight, as UTC has it, of the day that was picked.
FormInv ==
    /\ form \in [title: {"empty", "good", "overlong"}, started: Int, ended: Int,
                 picker: M!Fields \cup {"none"}, picked: [M!Fields -> Int]]
    /\ form.started # M!Unset => form.started = form.picked["started"] * 24
    /\ form.ended # M!Unset => form.ended = form.picked["ended"] * 24

\* Leaving the picker on a day gives that day, at whatever hour it opened and however far
\* the clock is from UTC; midnight UTC is on its own day unless the clock is behind.
LEMMA DayOfInstant ==
    ASSUME NEW start \in Int, NEW day \in Int
    PROVE  /\ M!ToIsoDate(start + (day - M!LocalDay(start)) * 24) = day * 24
           /\ M!FormatDate(day * 24) = day
           /\ Zone >= 0 => M!LocalDay(day * 24) = day
<1>1. Zone \in Int /\ -12 <= Zone /\ Zone <= 14
  BY MomentsAssumption
<1>2. M!LocalDay(start) \in Int
  BY <1>1 DEF M!LocalDay
<1>3. M!LocalDay(start + (day - M!LocalDay(start)) * 24) = day
  BY <1>1 DEF M!LocalDay
<1>4. M!FormatDate(day * 24) = day
  BY DEF M!FormatDate
<1>5. Zone >= 0 => M!LocalDay(day * 24) = day
  BY <1>1 DEF M!LocalDay
<1> QED
  BY <1>3, <1>4, <1>5 DEF M!ToIsoDate

\* The two date fields of the form.
LEMMA DateFields ==
    ASSUME FormInv
    PROVE  /\ form["started"] = form.started /\ form["ended"] = form.ended
           /\ form.started \in Int /\ form.ended \in Int /\ form.picked \in [M!Fields -> Int]
BY DEF FormInv

\* A field gets a date of the day it is marked with, or loses it.
LEMMA DateIsSet ==
    ASSUME FormInv, NEW day \in Int, NEW date \in Int, date # M!Unset => date = day * 24,
           NEW open \in M!Fields \cup {"none"},
           \/ form' = [form EXCEPT !.started = date, !.picked["started"] = day, !.picker = open]
           \/ form' = [form EXCEPT !.ended = date, !.picked["ended"] = day, !.picker = open]
    PROVE  FormInv'
<1> DEFINE Picked == form.picked
<1>1. Picked \in [{"started", "ended"} -> Int]
  BY DEF FormInv, M!Fields
<1>2. CASE form' = [form EXCEPT !.started = date, !.picked["started"] = day, !.picker = open]
  <2>1. /\ form'.title = form.title /\ form'.started = date /\ form'.ended = form.ended
        /\ form'.picker = open /\ form'.picked = [Picked EXCEPT !["started"] = day]
        /\ form' = [title |-> form'.title, started |-> form'.started, ended |-> form'.ended,
                    picker |-> form'.picker, picked |-> form'.picked]
    BY <1>2 DEF FormInv
  <2> HIDE DEF Picked
  <2>2. /\ form'.picked \in [M!Fields -> Int] /\ form'.picked["started"] = day
        /\ form'.picked["ended"] = Picked["ended"]
    BY <1>1, <2>1 DEF M!Fields
  <2> QED
    BY <2>1, <2>2 DEF FormInv, Picked
<1>3. CASE form' = [form EXCEPT !.ended = date, !.picked["ended"] = day, !.picker = open]
  <2>1. /\ form'.title = form.title /\ form'.started = form.started /\ form'.ended = date
        /\ form'.picker = open /\ form'.picked = [Picked EXCEPT !["ended"] = day]
        /\ form' = [title |-> form'.title, started |-> form'.started, ended |-> form'.ended,
                    picker |-> form'.picker, picked |-> form'.picked]
    BY <1>3 DEF FormInv
  <2> HIDE DEF Picked
  <2>2. /\ form'.picked \in [M!Fields -> Int] /\ form'.picked["ended"] = day
        /\ form'.picked["started"] = Picked["started"]
    BY <1>1, <2>1 DEF M!Fields
  <2> QED
    BY <2>1, <2>2 DEF FormInv, Picked
<1> QED
  BY <1>2, <1>3

\* A day is confirmed.
LEMMA ConfirmKeepsForm ==
    ASSUME FormInv, NEW day \in Days, M!ConfirmDate(day)
    PROVE  FormInv'
<1>1. Days \subseteq Int /\ Now \in Int
  BY MomentsAssumption
<1>2. CASE form.picker = "started"
  <2> DEFINE start == M!PickerStart("started")
             iso == M!ToIsoDate(start + (day - M!LocalDay(start)) * 24)
  <2>1. start \in Int
    BY <1>1, DateFields DEF M!PickerStart
  <2>2. iso = day * 24
    BY <1>1, <2>1, DayOfInstant
  <2>3. form' = [form EXCEPT !.started = iso, !.picked["started"] = day, !.picker = "none"]
    BY <1>2 DEF M!ConfirmDate
  <2> HIDE DEF start, iso
  <2>4. day \in Int /\ iso \in Int /\ "none" \in M!Fields \cup {"none"}
    BY <1>1, <2>2
  <2> QED
    BY <2>2, <2>3, <2>4, DateIsSet, Zenon
<1>3. CASE form.picker = "ended"
  <2> DEFINE start == M!PickerStart("ended")
             iso == M!ToIsoDate(start + (day - M!LocalDay(start)) * 24)
  <2>1. start \in Int
    BY <1>1, DateFields DEF M!PickerStart
  <2>2. iso = day * 24
    BY <1>1, <2>1, DayOfInstant
  <2>3. form' = [form EXCEPT !.ended = iso, !.picked["ended"] = day, !.picker = "none"]
    BY <1>3 DEF M!ConfirmDate
  <2> HIDE DEF start, iso
  <2>4. day \in Int /\ iso \in Int /\ "none" \in M!Fields \cup {"none"}
    BY <1>1, <2>2
  <2> QED
    BY <2>2, <2>3, <2>4, DateIsSet, Zenon
<1> QED
  BY <1>2, <1>3 DEF M!ConfirmDate, FormInv, M!Fields

\* The other controls of the form, and its coming and going.
LEMMA UseKeepsForm ==
    ASSUME FormInv, M!CreateStep \/ M!MountForm \/ M!UnmountForm
    PROVE  FormInv'
<1>1. CASE form' = M!NewForm
  BY <1>1 DEF FormInv, M!NewForm, M!Unset, M!Fields
<1>2. ASSUME NEW title \in {"empty", "good", "overlong"}, M!EditTitle(title) PROVE FormInv'
  BY <1>2 DEF FormInv, M!EditTitle
<1>3. ASSUME NEW field \in M!Fields, M!OpenPicker(field) PROVE FormInv'
  BY <1>3 DEF FormInv, M!OpenPicker
<1>4. CASE M!CancelPicker
  BY <1>4 DEF FormInv, M!CancelPicker
<1>5. M!Unset \in Int /\ form.picker \in M!Fields \cup {"none"}
  BY DEF FormInv, M!Unset
<1>6. ASSUME NEW field \in M!Fields, M!ClearDate(field) PROVE FormInv'
  <2>1. CASE field = "started"
    <3>1. form' = [form EXCEPT !.started = M!Unset, !.picked["started"] = M!Unset]
      BY <1>6, <2>1 DEF M!ClearDate
    <3>2. form' = [form EXCEPT !.started = M!Unset, !.picked["started"] = M!Unset,
                               !.picker = form.picker]
      BY <3>1 DEF FormInv
    <3> QED
      BY <1>5, <3>2, DateIsSet, Zenon
  <2>2. CASE field = "ended"
    <3>1. form' = [form EXCEPT !.ended = M!Unset, !.picked["ended"] = M!Unset]
      BY <1>6, <2>2 DEF M!ClearDate
    <3>2. form' = [form EXCEPT !.ended = M!Unset, !.picked["ended"] = M!Unset,
                               !.picker = form.picker]
      BY <3>1 DEF FormInv
    <3> QED
      BY <1>5, <3>2, DateIsSet, Zenon
  <2> QED
    BY <2>1, <2>2 DEF M!Fields
<1>7. ASSUME NEW m \in Moment, M!Submit(m) PROVE FormInv'
  BY <1>7 DEF FormInv, M!Submit
<1> QED
  BY <1>1, <1>2, <1>3, <1>4, <1>6, <1>7, ConfirmKeepsForm
     DEF M!CreateStep, M!MountForm, M!UnmountForm

LEMMA InitForm == Init => FormInv
BY DEF Init, M!Init, M!NewForm, M!Unset, M!Fields, FormInv

LEMMA StepForm == FormInv /\ [Next]_vars => FormInv'
<1> SUFFICES ASSUME FormInv, [Next]_vars PROVE FormInv'
  OBVIOUS
<1>1. CASE UNCHANGED form
  BY <1>1 DEF FormInv
<1>2. CASE OpenMoment \/ PressRow
  BY <1>1, <1>2 DEF OpenMoment, PressRow, M!MountList, momentVars
<1>3. CASE OpenCreate \/ CreateStep
  BY <1>3, UseKeepsForm DEF OpenCreate, CreateStep
<1>4. CASE Back
  BY <1>1, <1>4, UseKeepsForm DEF Back, momentVars
<1>5. CASE ListStep
  BY <1>1, <1>5 DEF ListStep, M!ListAnswered, M!ListReceived, M!ListAges, M!Refresh, M!ListFails
<1>6. ASSUME NEW m \in Moment, SavingStep(m) PROVE FormInv'
  BY <1>1, <1>6 DEF SavingStep, M!Save, M!Answer, M!Fails
<1>7. CASE MapStep \/ UploadStep \/ RowsStep \/ SheetStep \/ NotesStep \/ UNCHANGED vars
  BY <1>1, <1>7 DEF MapStep, UploadStep, RowsStep, SheetStep, NotesStep, vars, OtherThanMap,
     OtherThanPhotos, OtherThanSheet, OtherThanNotes, momentVars
<1>8. ASSUME NEW p \in Photo, OpenPhoto(p) \/ AddressStep(p) PROVE FormInv'
  BY <1>1, <1>8 DEF OpenPhoto, AddressStep, OtherThanPhotos, momentVars
<1> QED
  BY <1>2, <1>3, <1>4, <1>5, <1>6, <1>7, <1>8 DEF Next

\* In every time zone the form shows, and sends, the day that was picked
\* (create.tsx, toIsoDate and formatDate).
THEOREM PickedDayIsShown ==
    Spec => [](\A field \in M!Fields :
                   form[field] # M!Unset => M!FormatDate(form[field]) = form.picked[field])
<1>1. FormInv => \A field \in M!Fields :
                    form[field] # M!Unset => M!FormatDate(form[field]) = form.picked[field]
  BY DateFields, DayOfInstant DEF FormInv, M!Fields
<1> QED
  BY <1>1, InitForm, StepForm, PTL DEF Spec

\* Where the clock is not behind UTC, a picker that is opened again stands on that day too.
THEOREM PickedDayIsKept == ASSUME Zone >= 0 PROVE Spec => []DayIsPicked
<1>1. FormInv => DayIsPicked
  <2> SUFFICES ASSUME FormInv, NEW field \in M!Fields, form[field] # M!Unset
               PROVE  /\ M!FormatDate(form[field]) = form.picked[field]
                      /\ M!LocalDay(M!PickerStart(field)) = M!FormatDate(form[field])
    BY DEF DayIsPicked, M!DayIsPicked
  <2>1. form[field] = form.picked[field] * 24 /\ form.picked[field] \in Int
    BY DateFields DEF FormInv, M!Fields
  <2>2. M!PickerStart(field) = form[field]
    BY DEF M!PickerStart
  <2> QED
    BY <2>1, <2>2, DayOfInstant
<1> QED
  BY <1>1, InitForm, StepForm, PTL DEF Spec

----------------------------------------------------------------------------
(* The notification center.                                                *)

\* The list has what came since it was emptied, newest first and up to the limit; an item is
\* read when it was pressed.
NoteInv ==
    /\ items \in Seq([id: Nat, kind: N!Kind, read: BOOLEAN])
    /\ arrived \in Nat /\ wiped \in 0 .. arrived /\ pressed \subseteq 1 .. arrived
    /\ Len(items) = IF arrived - wiped < MaxNotifications THEN arrived - wiped
                    ELSE MaxNotifications
    /\ \A i \in DOMAIN items : /\ items[i].id = arrived + 1 - i
                               /\ items[i].read <=> items[i].id \in pressed

\* The list as a sequence.
LEMMA NoteList ==
    ASSUME NoteInv
    PROVE  /\ items \in Seq([id: Nat, kind: N!Kind, read: BOOLEAN])
           /\ Len(items) \in Nat /\ DOMAIN items = 1 .. Len(items)
           /\ \A i \in 1 .. Len(items) : items[i] \in [id: Nat, kind: N!Kind, read: BOOLEAN]
<1> DEFINE S == [id: Nat, kind: N!Kind, read: BOOLEAN]
<1>1. items \in Seq(S)
  BY DEF NoteInv
<1> HIDE DEF S
<1>2. /\ Len(items) \in Nat /\ DOMAIN items = 1 .. Len(items)
      /\ \A i \in 1 .. Len(items) : items[i] \in S
  BY <1>1
<1> QED
  BY <1>1, <1>2 DEF S

\* A new item in front of the others, and the cut at the limit.
LEMMA AddedItems ==
    ASSUME NEW S, NEW s \in Seq(S), items = s, NEW item \in S, MaxNotifications \in Nat \ {0}
    PROVE  /\ N!Added(item) \in Seq(S) /\ Len(N!Added(item)) \in Nat
           /\ Len(N!Added(item)) = IF Len(items) < MaxNotifications THEN Len(items) + 1
                                   ELSE MaxNotifications
           /\ N!Added(item)[1] = item
           /\ \A i \in 2 .. Len(N!Added(item)) :
                 i - 1 \in 1 .. Len(items) /\ N!Added(item)[i] = items[i - 1]
<1> DEFINE next == << item >> \o items
<1>1. /\ next \in Seq(S) /\ Len(next) = Len(items) + 1 /\ next[1] = item
      /\ \A i \in 2 .. Len(next) : i - 1 \in 1 .. Len(items) /\ next[i] = items[i - 1]
  BY Z3
<1>2. N!Added(item) = IF Len(next) > MaxNotifications THEN SubSeq(next, 1, MaxNotifications)
                      ELSE next
  BY DEF N!Added
<1> HIDE DEF next
<1>3. CASE Len(next) > MaxNotifications
  <2>1. /\ SubSeq(next, 1, MaxNotifications) \in Seq(S)
        /\ Len(SubSeq(next, 1, MaxNotifications)) = MaxNotifications
        /\ \A i \in 1 .. MaxNotifications : SubSeq(next, 1, MaxNotifications)[i] = next[i]
    BY <1>1, <1>3
  <2> QED
    BY <1>1, <1>2, <1>3, <2>1
<1>4. CASE ~(Len(next) > MaxNotifications)
  BY <1>1, <1>2, <1>4
<1> QED
  BY <1>3, <1>4

\* Something arrives, and either stays or is wiped with the rest.
LEMMA ArriveKeepsNotes == ASSUME NoteInv, N!Arrive PROVE NoteInv'
<1> USE NotificationAssumption
<1>1. CASE N!Processed
  <2> DEFINE item == N!NewItem("photo.processed")
             S == [id: Nat, kind: N!Kind, read: BOOLEAN]
  <2>1. item \in S /\ item.id = arrived + 1 /\ item.read = FALSE
    <3>1. arrived + 1 \in Nat
      BY DEF NoteInv
    <3> QED
      BY <3>1 DEF N!NewItem, N!Kind
  <2>2. items' = N!Added(item) /\ arrived' = arrived + 1 /\ UNCHANGED <<wiped, pressed>>
    BY <1>1 DEF N!Processed
  <2> HIDE DEF item
  <2>3. /\ items' \in Seq(S) /\ items'[1] = item
        /\ Len(items') = IF Len(items) < MaxNotifications THEN Len(items) + 1 ELSE MaxNotifications
        /\ \A i \in 2 .. Len(items') : i - 1 \in 1 .. Len(items) /\ items'[i] = items[i - 1]
    BY <2>1, <2>2, AddedItems DEF NoteInv
  <2>4. DOMAIN items = 1 .. Len(items) /\ DOMAIN items' = 1 .. Len(items')
    BY <2>3 DEF NoteInv
  <2>5. Len(items') = IF arrived' - wiped' < MaxNotifications THEN arrived' - wiped'
                      ELSE MaxNotifications
    BY <2>2, <2>3 DEF NoteInv
  <2>6. ASSUME NEW i \in DOMAIN items'
        PROVE  items'[i].id = arrived' + 1 - i /\ (items'[i].read <=> items'[i].id \in pressed')
    <3>1. CASE i = 1
      BY <3>1, <2>1, <2>2, <2>3 DEF NoteInv
    <3>2. CASE i # 1
      <4>1. i \in 2 .. Len(items') /\ i - 1 \in DOMAIN items /\ items'[i] = items[i - 1]
        BY <2>3, <2>4, <3>2
      <4> QED
        BY <4>1, <2>2 DEF NoteInv
    <3> QED
      BY <3>1, <3>2
  <2>7. items' \in Seq([id: Nat, kind: N!Kind, read: BOOLEAN])
    BY <2>3
  <2>8. arrived' \in Nat /\ wiped' \in 0 .. arrived' /\ pressed' \subseteq 1 .. arrived'
    <3>1. arrived \in Nat /\ wiped \in 0 .. arrived /\ pressed \subseteq 1 .. arrived
      BY DEF NoteInv
    <3>2. arrived' = arrived + 1 /\ wiped' = wiped /\ pressed' = pressed
      BY <2>2
    <3> QED
      BY <3>1, <3>2
  <2>9. \A i \in DOMAIN items' : items'[i].id = arrived' + 1 - i
    BY <2>6
  <2>10. \A i \in DOMAIN items' : items'[i].read <=> items'[i].id \in pressed'
    BY <2>6, Zenon
  <2> HIDE DEF S
  <2> QED
    BY <2>5, <2>7, <2>8, <2>9, <2>10 DEF NoteInv
<1>2. ASSUME NEW kind \in N!Kind, N!Viewed(kind) PROVE NoteInv'
  BY <1>2 DEF N!Viewed, N!QueryFn, NoteInv
<1> QED
  BY <1>1, <1>2 DEF N!Arrive

\* A row is pressed.
LEMMA PressKeepsNotes ==
    ASSUME NoteInv, NEW i, NEW leads, N!Press(i, leads) PROVE NoteInv'
<1> DEFINE S == [id: Nat, kind: N!Kind, read: BOOLEAN]
<1>1. /\ i \in DOMAIN items /\ items' = N!MarkedRead(items[i].id)
      /\ pressed' = pressed \cup {items[i].id} /\ UNCHANGED <<arrived, wiped>>
      /\ DOMAIN items = 1 .. Len(items) /\ Len(items) \in Nat
  BY NoteList DEF N!Press
<1>2. ASSUME NEW j \in 1 .. Len(items)
      PROVE  /\ items'[j] \in S /\ items'[j].id = items[j].id
             /\ items'[j].read <=> items[j].read \/ items[j].id = items[i].id
  <2>1. items[j] \in S
    BY <1>2, NoteList
  <2>2. items'[j] = IF items[j].id = items[i].id THEN [items[j] EXCEPT !.read = TRUE]
                    ELSE items[j]
    BY <1>1, <1>2 DEF N!MarkedRead
  <2> QED
    BY <2>1, <2>2
<1>3. items' = [j \in 1 .. Len(items) |-> items'[j]]
  BY <1>1 DEF N!MarkedRead
<1>4. items' \in Seq(S) /\ Len(items') = Len(items) /\ DOMAIN items' = 1 .. Len(items)
  <2>1. items' \in [1 .. Len(items) -> S] /\ Len(items) \in Nat
    BY <1>1, <1>2, <1>3
  <2> HIDE DEF S
  <2> QED
    BY <2>1
<1>5. items[i].id \in 1 .. arrived
  BY <1>1 DEF NoteInv
<1>6. ASSUME NEW j \in DOMAIN items'
      PROVE  items'[j].id = arrived' + 1 - j /\ (items'[j].read <=> items'[j].id \in pressed')
  BY <1>1, <1>2, <1>4 DEF NoteInv
<1> QED
  BY <1>1, <1>4, <1>5, <1>6 DEF NoteInv

LEMMA InitNotes == Init => NoteInv
BY NotificationAssumption DEF Init, N!Init, NoteInv

LEMMA StepNotes == NoteInv /\ [Next]_vars => NoteInv'
<1> SUFFICES ASSUME NoteInv, [Next]_vars PROVE NoteInv'
  OBVIOUS
<1>1. CASE UNCHANGED noteVars
  BY <1>1 DEF noteVars, NoteInv
<1>2. CASE PressRow
  BY <1>2, PressKeepsNotes DEF PressRow
<1>3. CASE NotesStep
  BY <1>3, ArriveKeepsNotes DEF NotesStep
<1>4. CASE OpenCreate \/ OpenMoment \/ Back \/ CreateStep \/ ListStep
  BY <1>1, <1>4 DEF OpenCreate, OpenMoment, Back, CreateStep, ListStep, OtherThanMoments
<1>5. CASE MapStep \/ UploadStep \/ RowsStep \/ SheetStep \/ UNCHANGED vars
  BY <1>1, <1>5 DEF MapStep, UploadStep, RowsStep, SheetStep, vars, OtherThanMap,
     OtherThanPhotos, OtherThanSheet
<1>6. ASSUME NEW p \in Photo, OpenPhoto(p) \/ AddressStep(p) PROVE NoteInv'
  BY <1>1, <1>6 DEF OpenPhoto, AddressStep, OtherThanPhotos
<1>7. ASSUME NEW m \in Moment, SavingStep(m) PROVE NoteInv'
  BY <1>1, <1>7 DEF SavingStep, OtherThanMoments
<1> QED
  BY <1>2, <1>3, <1>4, <1>5, <1>6, <1>7 DEF Next

\* However many notifications come and rows are pressed, the center has the newest ones in
\* order up to its limit, and the badge counts those that were not pressed
\* (notifications-queries.ts 57-84).
THEOREM NewestNotesAreKept == Spec => []NewestAreKept
<1>1. NoteInv => NewestAreKept
  <2> SUFFICES ASSUME NoteInv PROVE NewestAreKept
    OBVIOUS
  <2> DEFINE read == {i \in DOMAIN items : items[i].id \in pressed}
             unread == {i \in DOMAIN items : ~items[i].read}
  <2>1. DOMAIN items = 1 .. Len(items) /\ Len(items) \in Nat
    BY NoteList
  <2>2. unread = (1 .. Len(items)) \ read /\ read = (1 .. Len(items)) \cap read
    BY <2>1 DEF NoteInv
  <2>3. IsFiniteSet(1 .. Len(items)) /\ Cardinality(1 .. Len(items)) = Len(items)
    <3>1. 1 \in Int /\ Len(items) \in Int
      BY <2>1
    <3>2. /\ IsFiniteSet(1 .. Len(items))
          /\ Cardinality(1 .. Len(items)) = IF 1 > Len(items) THEN 0 ELSE Len(items) - 1 + 1
      BY <3>1, FS_Interval, Zenon
    <3> QED
      BY <2>1, <3>2
  <2>4. Cardinality(unread) = Len(items) - Cardinality(read)
    <3> HIDE DEF unread, read
    <3>1. Cardinality((1 .. Len(items)) \ read)
             = Cardinality(1 .. Len(items)) - Cardinality((1 .. Len(items)) \cap read)
      BY <2>3, FS_Difference, Zenon
    <3> QED
      BY <2>2, <2>3, <3>1
  <2>5. N!Cardinality(unread) = Cardinality(unread) /\ N!Cardinality(read) = Cardinality(read)
    BY DEF N!Cardinality, Cardinality
  <2> QED
    BY <2>4, <2>5 DEF NoteInv, NewestAreKept, N!NewestAreKept, N!UnreadCount
<1> QED
  BY <1>1, InitNotes, StepNotes, PTL DEF Spec
=============================================================================
