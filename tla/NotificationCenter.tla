------------------------- MODULE NotificationCenter -------------------------
(***************************************************************************)
(* The notification center: what the stream's payload handler puts into    *)
(* the cached list, the limit, the unread badge, and a press on a row.     *)
(***************************************************************************)
EXTENDS Naturals, Sequences, FiniteSets

CONSTANTS
    MaxNotifications,  \* MAX_NOTIFICATIONS, 50 in the code
    MaxArrivals        \* bound: payloads that arrive

VARIABLES
    items,    \* the list, newest first
    arrived,  \* how many payloads have come
    wiped,    \* how many had come when the list was last emptied
    pressed   \* the items that were pressed since

Kind == {"photo.processed", "moment viewed", "photo viewed"}
Item == [id: 1 .. MaxArrivals, kind: Kind, read: BOOLEAN]

Init == items = << >> /\ arrived = 0 /\ wiped = 0 /\ pressed = {}

\* Slip: what is too much goes at the wrong end.
AddedAtWrongEnd(item) ==
    IF Len(items) < MaxNotifications THEN << item >> \o items
    ELSE << item >> \o Tail(items)

\* useAddNotification: in front, and the oldest goes beyond the limit.
Added(item) ==
    LET next == << item >> \o items
    IN IF Len(next) > MaxNotifications THEN SubSeq(next, 1, MaxNotifications) ELSE next

NewItem(kind) == [id |-> arrived + 1, kind |-> kind, read |-> FALSE]

\* A photo's outcome: the item stays.
Processed ==
    /\ arrived < MaxArrivals
    /\ items' = Added(NewItem("photo.processed")) /\ arrived' = arrived + 1
    /\ UNCHANGED <<wiped, pressed>>

\* The query function of useNotifications, whatever the cache held.
QueryFn(cached) == << >>

\* A view of a share: the item is added, and the invalidation that follows refetches the
\* list with a query function that answers [], in the same turn of the event loop.
Viewed(kind) ==
    /\ arrived < MaxArrivals
    /\ items' = QueryFn(Added(NewItem(kind)))
    /\ arrived' = arrived + 1 /\ wiped' = arrived + 1 /\ pressed' = {}

Arrive == Processed \/ \E kind \in Kind \ {"photo.processed"} : Viewed(kind)

\* useMarkNotificationRead.
MarkedRead(id) ==
    [i \in DOMAIN items |-> IF items[i].id = id THEN [items[i] EXCEPT !.read = TRUE]
                            ELSE items[i]]

\* handlePress: a row is read, and leads to its moment if its kind has one.
Press(i, leads) ==
    /\ i \in DOMAIN items
    /\ leads = (items[i].kind # "photo viewed")
    /\ items' = MarkedRead(items[i].id)
    /\ pressed' = pressed \cup {items[i].id}
    /\ UNCHANGED <<arrived, wiped>>

\* useUnreadNotificationsCount: the badge of the tab.
UnreadCount == Cardinality({i \in DOMAIN items : ~items[i].read})

----------------------------------------------------------------------------
(* Properties.                                                             *)

\* What has come since the list was last emptied is there, newest first, up to the limit,
\* and the badge counts what of it was not pressed (notifications-queries.ts 57-58, 84).
NewestAreKept ==
    LET since == arrived - wiped
        shown == IF since < MaxNotifications THEN since ELSE MaxNotifications
    IN /\ Len(items) = shown
       /\ \A i \in DOMAIN items : items[i].id = arrived + 1 - i
       /\ UnreadCount = shown - Cardinality({i \in DOMAIN items : items[i].id \in pressed})

\* Whatever arrives is listed until newer items push it out (use-notifications-stream.ts 27).
ArrivalsAccumulate ==
    Len(items) = IF arrived < MaxNotifications THEN arrived ELSE MaxNotifications
=============================================================================
