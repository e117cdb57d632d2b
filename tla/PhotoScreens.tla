---------------------------- MODULE PhotoScreens ----------------------------
(***************************************************************************)
(* The screens of a moment's photos: the grid with its upload button and   *)
(* the detail of one photo with its address.  Both read the list query of  *)
(* the moment; the detail finds its photo in it.  What processing does to  *)
(* a photo that is listed is in LiveUpdates.                               *)
(***************************************************************************)
EXTENDS Naturals, Sequences, QueryCache, Geocoding

CONSTANTS
    Photo,   \* the photos of the moment
    Old,     \* those that were uploaded before
    Located, \* those with a location
    Results  \* the answers the geocoding service may give: sets of results

VARIABLES
    stored,  \* photos with a row
    rows,    \* useMomentPhotos: the cached list of the moment
    upload,  \* uploadPhoto, for the photo each will give
    picker,  \* the image picker is open
    geo,     \* useReverseGeocode: the cached address of each photo's location
    due      \* photos whose upload's answer met no fetch it could not cancel

NoUpload == [pc |-> "none", own |-> FALSE]
NoGeo == [pc |-> "idle", address |-> NoAddress, known |-> FALSE]

Init ==
    /\ stored = Old /\ rows \in {NoEntry, Loaded(Old)}
    /\ upload = [p \in Photo |-> NoUpload] /\ picker = FALSE
    /\ geo = [p \in Photo |-> NoGeo] /\ due = {}

----------------------------------------------------------------------------
(* The grid and its upload button.                                         *)

AllowedExt == {"jpg", "jpeg", "png", "heic", "webp"}

\* extractExt: that of the file's name, or that of its URI, whichever is allowed first.
ExtractExt(asset) ==
    LET allowed == SelectSeq(asset, LAMBDA ext : ext \in AllowedExt)
    IN IF allowed = << >> THEN "none" ELSE allowed[1]

\* uploadMutation.isPending, which disables the button.
IsUploading == \E p \in Photo : upload[p].own

\* pickAndUpload opens the picker.
Pick ==
    /\ ~IsUploading /\ ~picker
    /\ picker' = TRUE
    /\ UNCHANGED <<stored, rows, upload, geo, due>>

\* No permission, nothing chosen, or a file of another kind: the picker closes for nothing.
PickNothing ==
    /\ picker
    /\ picker' = FALSE
    /\ UNCHANGED <<stored, rows, upload, geo, due>>

\* A file was chosen and has a kind that is allowed: uploadPhoto begins.
PickAsset(p, asset) ==
    /\ picker /\ ExtractExt(asset) # "none"
    /\ p \notin stored /\ upload[p].pc = "none"
    /\ picker' = FALSE
    /\ upload' = [upload EXCEPT ![p] = [pc |-> "url", own |-> TRUE]]
    /\ UNCHANGED <<stored, rows, geo, due>>

\* createPresignedUploadUrl, then uploadPhotoToR2 with a status in 200-299.
UploadStep(p) ==
    /\ upload[p].pc \in {"url", "put"}
    /\ upload' = [upload EXCEPT ![p].pc = IF upload[p].pc = "url" THEN "put" ELSE "confirm"]
    /\ UNCHANGED <<stored, rows, picker, geo, due>>

\* confirmPhotoUpload: the server inserts the row.
Confirm(p) ==
    /\ upload[p].pc = "confirm"
    /\ stored' = stored \cup {p}
    /\ upload' = [upload EXCEPT ![p].pc = "confirmed"]
    /\ UNCHANGED <<rows, picker, geo, due>>

\* The first step that fails ends the upload; an alert if the screen is still there.
UploadFails(p) ==
    /\ upload[p].pc # "none"
    /\ upload' = [upload EXCEPT ![p] = NoUpload]
    /\ UNCHANGED <<stored, rows, picker, geo, due>>

\* useUploadPhoto's onSuccess, whether or not the screen is still there.
Uploaded(p, watched) ==
    /\ upload[p].pc = "confirmed"
    /\ rows' = Invalidated(rows, watched)
    /\ upload' = [upload EXCEPT ![p] = NoUpload]
    /\ due' = IF rows.fetch = "idle" \/ (rows.loaded /\ watched) THEN due \cup {p} ELSE due
    /\ UNCHANGED <<stored, picker, geo>>

\* Pull to refresh, or the retry of the error view.
Refresh ==
    /\ ~IsLoading(rows)
    /\ rows' = Refetched(rows)
    /\ UNCHANGED <<stored, upload, picker, geo, due>>

\* The grid: neither while it loads nor in the error view.
Grid == IF IsLoading(rows) \/ rows.error THEN {} ELSE rows.data

\* Either screen mounts the query; the grid's screen takes its mutation along when it goes.
MountRows == rows' = OnMount(rows) /\ UNCHANGED <<stored, upload, picker, geo, due>>
UnmountGrid ==
    /\ upload' = [p \in Photo |-> [upload[p] EXCEPT !.own = FALSE]]
    /\ UNCHANGED <<stored, rows, picker, geo, due>>

----------------------------------------------------------------------------
(* The list query.                                                         *)

\* findPhotosByMoment answers from the table.
RowsAnswered ==
    /\ rows.fetch = "asked"
    /\ rows' = Answered(rows, stored)
    /\ UNCHANGED <<stored, upload, picker, geo, due>>

RowsReceived ==
    /\ rows.fetch = "answered"
    /\ rows' = Received(rows)
    /\ UNCHANGED <<stored, upload, picker, geo, due>>

RowsFail ==
    /\ rows.fetch # "idle"
    /\ rows' = Failed(rows)
    /\ UNCHANGED <<stored, upload, picker, geo, due>>

RowsAge ==
    /\ rows.fresh
    /\ rows' = Aged(rows)
    /\ UNCHANGED <<stored, upload, picker, geo, due>>

----------------------------------------------------------------------------
(* The detail of a photo.                                                  *)

\* data?.photos.find; without it the screen says there is no such photo and the share
\* button is disabled.
Found(p) == p \in rows.data

\* useReverseGeocode: asked once the photo with its location is there, and when the screen
\* mounts again without an address; an address never gets old.
AskAddress(p) ==
    /\ Found(p) /\ p \in Located
    /\ geo[p].pc = "idle" /\ ~geo[p].known
    /\ geo' = [geo EXCEPT ![p].pc = "asked"]
    /\ UNCHANGED <<stored, rows, upload, picker, due>>

\* reverseGeocode: 502 without an answer of the service, else what parseResults makes of it.
AddressAnswered(p) ==
    /\ geo[p].pc = "asked"
    /\ \E results \in Results :
          geo' = [geo EXCEPT ![p] = [pc |-> "idle", known |-> TRUE,
                                     address |-> ParseResults(results)]]
    /\ UNCHANGED <<stored, rows, upload, picker, due>>

AddressFails(p) ==
    /\ geo[p].pc = "asked"
    /\ geo' = [geo EXCEPT ![p].pc = "failed"]
    /\ UNCHANGED <<stored, rows, upload, picker, due>>

\* The screen goes: its next mount asks again for an address that failed.
UnmountDetail(p) ==
    /\ geo' = [geo EXCEPT ![p].pc = IF geo[p].pc = "failed" THEN "idle" ELSE geo[p].pc]
    /\ UNCHANGED <<stored, rows, upload, picker, due>>

\* The place the detail shows: the address, or the coordinates while there is none.
Place(p) ==
    IF geo[p].known /\ geo[p].address.type # "null" THEN geo[p].address.parts
    ELSE {"latitude", "longitude"}

----------------------------------------------------------------------------
(* Properties.                                                             *)

PhotoScreensTypeOK ==
    /\ stored \subseteq Photo /\ due \subseteq stored /\ rows \in Entry(Photo)
    /\ upload \in [Photo -> [pc: {"none", "url", "put", "confirm", "confirmed"}, own: BOOLEAN]]
    /\ picker \in BOOLEAN
    /\ geo \in [Photo -> [pc: {"idle", "asked", "failed"}, address: Address, known: BOOLEAN]]

\* A photo whose upload was answered is in the grid whenever that counts as up to date,
\* unless a fetch that could not be cancelled was under way (photos-queries.ts 79-81).
UploadedIsListed == Settled(rows) => due \subseteq rows.data

\* A photo with a location never has a blank place, nor half a lot number, nor the number
\* of a street without the street, whatever the external service left out.
PlaceIsNamed ==
    \A p \in Located :
        /\ Place(p) # {}
        /\ "number2" \in Place(p) => "number1" \in Place(p)
        /\ geo[p].known /\ geo[p].address.type = "road" => "name" \in Place(p)
=============================================================================
