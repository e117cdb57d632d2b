------------------------------ MODULE MapPhotos -----------------------------
(***************************************************************************)
(* The map tab: the camera, the permission to locate the phone, and the    *)
(* query of the photos in view, one cache entry for each view.             *)
(***************************************************************************)
EXTENDS Naturals, QueryCache

CONSTANTS
    Photo,   \* the photos of the owner
    View,    \* bounding boxes the camera comes to rest at
    Home,    \* the one around the phone's position
    In       \* the photos whose location a view holds (ST_Within)

VARIABLES
    located,    \* photos that are done and have a location
    bbox,       \* the bounding box of the camera, or "none" before its first rest
    pins,       \* the cache entry of each bounding box
    kept,       \* the last bounding box observed with data, or "none"
    permission, \* permissionStatus
    locating    \* a request for the permission, or for the position, or a flight to it

Init ==
    /\ located = {} /\ bbox = "none" /\ kept = "none"
    /\ pins = [v \in View |-> NoEntry]
    /\ permission = "null" /\ locating = "asking"

\* A photo's processing ends with a location.
Locate(p) ==
    /\ p \notin located
    /\ located' = located \cup {p}
    /\ UNCHANGED <<bbox, pins, kept, permission, locating>>

----------------------------------------------------------------------------

\* Slip: the query has one entry whatever the view (a key without the box).
RestAtOne(v) ==
    /\ bbox' = v
    /\ kept' = IF bbox # "none" /\ pins[bbox].loaded THEN bbox ELSE kept
    /\ pins' = IF bbox = "none" THEN [pins EXCEPT ![v] = OnMount(pins[v])]
               ELSE [pins EXCEPT ![v] = pins[bbox]]

\* handleCameraIdle and useMapPhotos: another box is another entry.
RestAt(v) ==
    /\ bbox' = v
    /\ kept' = IF bbox # "none" /\ pins[bbox].loaded THEN bbox ELSE kept
    /\ pins' = [pins EXCEPT ![v] = OnMount(pins[v])]

\* The user moves the camera.
MoveCamera(v) ==
    /\ v # bbox /\ RestAt(v)
    /\ UNCHANGED <<located, permission, locating>>

\* The first answer to the permission request, or to "ask again" of the banner.
AnswerPermission(status) ==
    /\ locating = "asking"
    /\ permission' = status
    /\ locating' = IF status = "granted" THEN "fixing" ELSE "no"
    /\ UNCHANGED <<located, bbox, pins, kept>>

\* getCurrentPositionAsync gives a position, and the camera flies there ...
Fix ==
    /\ locating = "fixing"
    /\ locating' = "flying"
    /\ UNCHANGED <<located, bbox, pins, kept, permission>>

\* ... or fails, which nobody is told.
NoFix ==
    /\ locating = "fixing"
    /\ locating' = "no"
    /\ UNCHANGED <<located, bbox, pins, kept, permission>>

\* animateCameraTo comes to rest.
Land ==
    /\ locating = "flying"
    /\ locating' = "no"
    /\ RestAt(Home)
    /\ UNCHANGED <<located, permission>>

\* The banner, there while the permission is denied: handleRetryPermission.
RetryPermission ==
    /\ permission = "denied" /\ locating = "no"
    /\ locating' = "asking"
    /\ UNCHANGED <<located, bbox, pins, kept, permission>>

----------------------------------------------------------------------------

\* findPhotosByBbox: done, with a location inside the box.
FoundByBbox(v) == located \cap In[v]

PinsAnswered(v) ==
    /\ pins[v].fetch = "asked"
    /\ pins' = [pins EXCEPT ![v] = Answered(pins[v], FoundByBbox(v))]
    /\ UNCHANGED <<located, bbox, kept, permission, locating>>

PinsReceived(v) ==
    /\ pins[v].fetch = "answered"
    /\ pins' = [pins EXCEPT ![v] = Received(pins[v])]
    /\ UNCHANGED <<located, bbox, kept, permission, locating>>

PinsFail(v) ==
    /\ pins[v].fetch # "idle"
    /\ pins' = [pins EXCEPT ![v] = Failed(pins[v])]
    /\ UNCHANGED <<located, bbox, kept, permission, locating>>

PinsAge(v) ==
    /\ pins[v].fresh
    /\ pins' = [pins EXCEPT ![v] = Aged(pins[v])]
    /\ UNCHANGED <<located, bbox, kept, permission, locating>>

\* mapPhotosData: while the box's own query is pending, that of the last box with data.
MapPhotosData ==
    CASE bbox = "none"                                             -> {}
      [] bbox # "none" /\ (pins[bbox].loaded \/ pins[bbox].error)  -> pins[bbox].data
      [] OTHER -> IF kept = "none" THEN {} ELSE pins[kept].data

\* clusterMarkers; a tap on one finds its photo in the same data.
ClusterMarkers == MapPhotosData \cap located

----------------------------------------------------------------------------
(* Properties.                                                             *)

MapTypeOK ==
    /\ located \subseteq Photo /\ bbox \in View \cup {"none"} /\ kept \in View \cup {"none"}
    /\ pins \in [View -> Entry(Photo)]
    /\ permission \in {"null", "undetermined", "granted", "denied"}
    /\ locating \in {"no", "asking", "fixing", "flying"}

\* The markers of a view that has its own answer lie in it, however the camera moved and
\* in whatever order the answers came; the banner and a position never stand together.
MapShowsItsView ==
    /\ bbox # "none" /\ (pins[bbox].loaded \/ pins[bbox].fetch = "idle")
          => ClusterMarkers \subseteq In[bbox]
    /\ locating \in {"fixing", "flying"} => permission = "granted"
=============================================================================
