-------------------------------- MODULE Phone -------------------------------
(***************************************************************************)
(* The screens of one phone behind its router: a tab at the bottom, and    *)
(* the create screen, a moment or a photo pushed on top of it.  A screen   *)
(* that is covered stays mounted; one that is popped unmounts.             *)
(*                                                                         *)
(* The user is on one errand, which bounds the controls the model uses in  *)
(* one behaviour; what an errand leaves out stays as it was at the start.  *)
(***************************************************************************)
EXTENDS Integers, Sequences

CONSTANTS Moment, First, Days, Now, Zone,           \* Moments
          View, Home, In,                           \* MapPhotos
          Photo, Old, Located, Results,             \* PhotoScreens
          MaxLinks,                                 \* ShareSheet
          MaxNotifications, MaxArrivals,            \* NotificationCenter
          Assets,                                   \* names a picked file may have
          Album,                                    \* the moment the photos belong to
          MaxFaults                                 \* bound: requests that fail

ASSUME PhoneAssumption == Album \in First /\ MaxFaults \in Nat
ASSUME MomentsAssumption ==
    First \subseteq Moment /\ Days \subseteq Nat /\ Now \in Nat /\ Zone \in -12 .. 14
ASSUME MapAssumption == Home \in View /\ In \in [View -> SUBSET Photo] /\ "none" \notin View
ASSUME PhotoAssumption == Old \subseteq Photo /\ Located \subseteq Photo
ASSUME SheetAssumption == MaxLinks \in Nat /\ "none" \notin Photo \cup First
ASSUME NotificationAssumption == MaxNotifications \in Nat \ {0} /\ MaxArrivals \in Nat

VARIABLES errand, stack, faults,
          moments, list, form, saving, owed,
          located, bbox, pins, kept, permission, locating,
          stored, rows, upload, picker, geo, due,
          sheet, creating,
          items, arrived, wiped, pressed

M == INSTANCE Moments
P == INSTANCE MapPhotos
G == INSTANCE PhotoScreens
H == INSTANCE ShareSheet WITH Target <- Photo \cup First
N == INSTANCE NotificationCenter

router == <<errand, stack>>
momentVars == <<moments, list, form, saving, owed>>
mapVars == <<located, bbox, pins, kept, permission, locating>>
photoVars == <<stored, rows, upload, picker, geo, due>>
sheetVars == <<sheet, creating>>
noteVars == <<items, arrived, wiped, pressed>>
vars == <<router, faults, momentVars, mapVars, photoVars, sheetVars, noteVars>>

Errand == {"create", "upload", "share", "map", "notifications"}

Init ==
    /\ errand \in Errand /\ stack = << >> /\ faults = 0
    /\ M!Init /\ P!Init /\ G!Init /\ H!Init /\ N!Init
    /\ errand \notin {"create", "upload"} => list = M!Loaded(First)
    /\ errand = "share" => rows = G!Loaded(Old)

\* What an action of a part leaves alone.
OtherThanMoments == UNCHANGED <<mapVars, photoVars, sheetVars, noteVars>>
OtherThanMap == UNCHANGED <<momentVars, photoVars, sheetVars, noteVars>>
OtherThanPhotos == UNCHANGED <<momentVars, mapVars, sheetVars, noteVars>>
OtherThanSheet == UNCHANGED <<momentVars, mapVars, photoVars, noteVars>>
OtherThanNotes == UNCHANGED <<momentVars, mapVars, photoVars, sheetVars>>

Fine == UNCHANGED faults
Fault == faults < MaxFaults /\ faults' = faults + 1

----------------------------------------------------------------------------
(* The router.                                                             *)

Screen(name, of) == [name |-> name, of |-> of]
OnTop(name) == stack # << >> /\ stack[Len(stack)].name = name
IsMounted(name) == \E i \in DOMAIN stack : stack[i].name = name
Top == stack[Len(stack)].of
Push(screen) == stack' = Append(stack, screen) /\ UNCHANGED errand
Stay == UNCHANGED router
\* An open sheet is modal.
NoSheet == \A t \in Photo \cup First : ~sheet[t].visible

\* The + of the list tab.
OpenCreate ==
    /\ errand = "create" /\ stack = << >>
    /\ Push(Screen("create", "none"))
    /\ M!MountForm /\ OtherThanMoments /\ Fine

\* A card of the list leads to its moment.
OpenMoment ==
    /\ errand \in {"upload", "share"} /\ stack = << >> /\ Album \in M!Cards
    /\ Push(Screen("moment", Album)) /\ G!MountRows /\ M!MountList
    /\ UNCHANGED <<mapVars, sheetVars, noteVars>> /\ Fine

\* A row of the notification center leads to its moment, if it has one.
PressRow ==
    /\ errand = "notifications" /\ stack = << >>
    /\ \E i \in 1 .. MaxNotifications, leads \in BOOLEAN :
          /\ N!Press(i, leads)
          /\ IF leads THEN Push(Screen("moment", Album)) /\ G!MountRows /\ M!MountList
             ELSE Stay /\ UNCHANGED <<photoVars, momentVars>>
    /\ UNCHANGED <<mapVars, sheetVars>> /\ Fine

\* A marker of the map or a picture of the grid leads to the photo.
OpenPhoto(p) ==
    /\ \/ errand = "map" /\ stack = << >> /\ p \in P!ClusterMarkers
       \/ errand = "share" /\ OnTop("moment") /\ NoSheet /\ p \in G!Grid
    /\ Push(Screen("photo", p))
    /\ G!MountRows /\ UNCHANGED <<momentVars, mapVars, sheetVars, noteVars>> /\ Fine

\* Back, or a create screen that closes itself: the top screen unmounts.
Pop == stack' = SubSeq(stack, 1, Len(stack) - 1) /\ UNCHANGED errand

Back ==
    /\ stack # << >> /\ NoSheet /\ Pop /\ Fine
    /\ UNCHANGED <<mapVars, noteVars>>
    /\ \/ OnTop("create") /\ M!UnmountForm /\ UNCHANGED <<photoVars, sheetVars>>
       \/ OnTop("moment") /\ ~picker /\ G!UnmountGrid /\ H!Unmount(Top) /\ UNCHANGED momentVars
       \/ OnTop("photo") /\ G!UnmountDetail(Top) /\ H!Unmount(Top) /\ UNCHANGED momentVars

----------------------------------------------------------------------------
(* The parts.                                                              *)

CreateStep ==
    /\ errand = "create" /\ OnTop("create") /\ M!CreateStep
    /\ Stay /\ OtherThanMoments /\ Fine

\* createMoment's way; its answer takes the screen that sent it away.
SavingStep(m) ==
    /\ OtherThanMoments
    /\ \/ M!Save(m) /\ Stay /\ Fine
       \/ M!Answer(m, FALSE) /\ Stay /\ Fine
       \/ /\ saving[m].own /\ saving[m].pc = "saved"
          /\ M!Answer(m, TRUE) /\ Pop /\ Fine
       \/ M!Fails(m) /\ Stay /\ Fault

ListStep ==
    /\ errand \in {"create", "upload"} /\ OtherThanMoments /\ Stay
    /\ \/ (M!ListAnswered \/ M!ListReceived \/ M!ListAges \/ (stack = << >> /\ M!Refresh)) /\ Fine
       \/ M!ListFails /\ Fault

MapStep ==
    /\ errand = "map" /\ OtherThanMap /\ Stay
    /\ \/ (\E p \in Old \cap Located : P!Locate(p)) /\ Fine
       \/ stack = << >> /\ Fine /\ (P!RetryPermission \/ \E v \in View : P!MoveCamera(v))
       \/ (\E status \in {"undetermined", "granted", "denied"} : P!AnswerPermission(status)) /\ Fine
       \/ (P!Fix \/ P!NoFix \/ P!Land) /\ Fine
       \/ (\E v \in View : P!PinsAnswered(v) \/ P!PinsReceived(v) \/ P!PinsAge(v)) /\ Fine
       \/ (\E v \in View : P!PinsFail(v)) /\ Fault

UploadStep ==
    /\ errand = "upload" /\ OtherThanPhotos /\ Stay
    /\ \/ OnTop("moment") /\ Fine /\ (G!Pick \/ G!PickNothing \/ G!Refresh)
       \/ OnTop("moment") /\ Fine /\ \E p \in Photo, asset \in Assets : G!PickAsset(p, asset)
       \/ (\E p \in Photo : G!UploadStep(p) \/ G!Confirm(p)
                            \/ G!Uploaded(p, IsMounted("moment"))) /\ Fine
       \/ (\E p \in Photo : G!UploadFails(p)) /\ Fault

RowsStep ==
    /\ OtherThanPhotos /\ Stay
    /\ \/ (G!RowsAnswered \/ G!RowsReceived \/ G!RowsAge) /\ Fine
       \/ G!RowsFail /\ Fault

AddressStep(p) ==
    /\ OtherThanPhotos /\ Stay
    /\ \/ errand = "map" /\ OnTop("photo") /\ Top = p /\ G!AskAddress(p) /\ Fine
       \/ G!AddressAnswered(p) /\ Fine
       \/ G!AddressFails(p) /\ Fault

\* The sheet is mounted with its target, and used while it is on top.
HasTarget(t) == IF t \in Photo THEN G!Found(t) ELSE t \in list.data

SheetStep ==
    /\ errand = "share" /\ OtherThanSheet /\ Stay
    /\ \/ /\ stack # << >> /\ HasTarget(Top) /\ ~sheet[Top].mounted
          /\ H!Mount(Top) /\ Fine
       \/ stack # << >> /\ H!SheetStep(Top) /\ Fine
       \/ (\E c \in H!Call : H!CreateAnswered(c)) /\ Fine
       \/ (\E c \in H!Call : H!CreateFails(c)) /\ Fault

NotesStep == errand = "notifications" /\ N!Arrive /\ Stay /\ OtherThanNotes /\ Fine

Next ==
    \/ OpenCreate \/ OpenMoment \/ PressRow \/ Back
    \/ \E p \in Photo : OpenPhoto(p) \/ AddressStep(p)
    \/ \E m \in Moment : SavingStep(m)
    \/ CreateStep \/ ListStep \/ MapStep \/ UploadStep \/ RowsStep \/ SheetStep \/ NotesStep

Spec == Init /\ [][Next]_vars

----------------------------------------------------------------------------
(* Properties.                                                             *)

\* The types of the parts' variables, and the screens the router can stack.
TypeOK ==
    /\ M!MomentsTypeOK /\ P!MapTypeOK /\ G!PhotoScreensTypeOK /\ H!SheetTypeOK
    /\ Len(stack) <= 2 /\ faults \in 0 .. MaxFaults

\* What the user made is in the list that shows it, whenever that counts as up to date
\* (Moments!CreatedIsListed, PhotoScreens!UploadedIsListed).
CreatedIsListed == M!CreatedIsListed /\ G!UploadedIsListed

\* The dates of the create form are the days that were picked (Moments!DayIsPicked).
DayIsPicked == M!DayIsPicked

\* The markers belong to the view (MapPhotos!MapShowsItsView).
MapShowsItsView == P!MapShowsItsView

\* A photo's place is never blank or half a number (PhotoScreens!PlaceIsNamed).
PlaceIsNamed == G!PlaceIsNamed

\* The link of a sheet is that of its target (ShareSheet!LinkIsOfTarget); only the sheet of
\* the screen on top has anything to give away.
LinkIsOfTarget ==
    /\ H!LinkIsOfTarget
    /\ \A t \in Photo \cup First : H!GivenAway(t) # H!NoLink => stack # << >> /\ Top = t

\* The notification center keeps the newest (NotificationCenter!NewestAreKept).
NewestAreKept == N!NewestAreKept

\* use-notifications-stream.ts:27: what arrives accumulates in the notification center
\* (NotificationCenter!ArrivalsAccumulate).
ArrivalsAccumulate == N!ArrivalsAccumulate
=============================================================================
