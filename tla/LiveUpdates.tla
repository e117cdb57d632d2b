----------------------------- MODULE LiveUpdates -----------------------------
(***************************************************************************)
(* From the outcome of a photo to the screens of its owner: the SSE channel *)
(* of NotificationsService, the stream each of the owner's phones keeps, the *)
(* React Query cache that holds a moment's photo list, and the notification  *)
(* center.  The server's part, photo processing, is taken from its contract  *)
(* under faults, PhotoLifecycle's SafeUnderFaults: a photo that is done may  *)
(* still turn to failed.                                                     *)
(*                                                                         *)
(* The server keeps one Subject for the user, whatever the number of        *)
(* streams: the first stream makes it, the end of any stream completes it   *)
(* for all.  React Query's rules are those of the version in the lock file: *)
(* an invalidation cancels a fetch in flight and starts another, but not    *)
(* the first fetch of a list, and not while no screen shows the list.       *)
(*                                                                         *)
(* A definition marked "Slip" is no part of Next: it is a plausible bug in *)
(* the definition that follows, and shows which property catches it.       *)
(***************************************************************************)
EXTENDS Naturals

CONSTANTS
    Photos,    \* the photos of one moment
    Devices,   \* the phones of their owner
    MaxFaults  \* bound on dropped streams, server crashes, failed fetches and
               \* answers lost in processing

ASSUME LiveAssumption == MaxFaults \in Nat

VARIABLES
    status, hasUrls, told,  \* the server's side: PhotoLifecycle
    subscribed, \* devices whose stream is subscribed to the user's Subject
    ghosts,     \* devices with an older subscription whose socket is gone
    stream,     \* each phone's EventSource
    wire,       \* events written to a phone's stream and not yet read
    screen,     \* whether the phone shows the moment
    list,       \* the phone's cached photo list
    fetch,      \* the phone's request for the list
    notes,      \* the photo.processed items of the phone's notification center
    faults

server == <<status, hasUrls, told>>
channel == <<subscribed, ghosts>>
phone == <<stream, wire, screen, list, fetch, notes>>
vars == <<server, channel, phone, faults>>

Server == INSTANCE PhotoLifecycle

Status == {"absent", "pending", "done", "failed"}
Rows == [Photos -> Status]
Outcome == [photo : Photos, status : {"done", "failed"}]
Viewed == [type |-> "share.viewed"]

TypeOK ==
    /\ status \in Rows
    /\ hasUrls \in [Photos -> BOOLEAN]
    /\ told \in [Photos -> SUBSET {"done", "failed"}]
    /\ subscribed \in SUBSET Devices
    /\ ghosts \in SUBSET Devices
    /\ stream \in [Devices -> {"off", "waiting", "open"}]
    /\ wire \in [Devices -> SUBSET (Outcome \cup {Viewed})]
    /\ screen \in [Devices -> BOOLEAN]
    /\ list \in [Devices -> [loaded : BOOLEAN, valid : BOOLEAN, rows : Rows]]
    /\ fetch \in [Devices -> [pc : {"idle", "asked", "answered"}, rows : Rows]]
    /\ notes \in [Devices -> SUBSET [outcome : Outcome, overtaken : BOOLEAN]]
    /\ faults \in 0..MaxFaults

NoRows == [p \in Photos |-> "absent"]
NoFetch == [pc |-> "idle", rows |-> NoRows]
Asked == [pc |-> "asked", rows |-> NoRows]

Init ==
    /\ Server!Init
    /\ subscribed = {}
    /\ ghosts = {}
    /\ stream = [d \in Devices |-> "off"]
    /\ wire = [d \in Devices |-> {}]
    /\ screen = [d \in Devices |-> FALSE]
    /\ list = [d \in Devices |-> [loaded |-> FALSE, valid |-> FALSE, rows |-> NoRows]]
    /\ fetch = [d \in Devices |-> NoFetch]
    /\ notes = [d \in Devices |-> {}]
    /\ faults = 0

Fault == faults < MaxFaults /\ faults' = faults + 1

-----------------------------------------------------------------------------
(* The server.                                                             *)

Confirm(p) == Server!Confirmed(p) /\ UNCHANGED <<channel, phone, faults>>

Process(p) == (Server!Done(p) \/ Server!Failed(p)) /\ UNCHANGED <<channel, phone, faults>>

\* An attempt that made the photo done lost the answer of its update, or its
\* lock, and the last attempt failed.
FailLate(p) == Server!FailedLate(p) /\ Fault /\ UNCHANGED <<channel, phone>>

\* publish: the Subject hands the event to the streams of this moment; without
\* a Subject it is dropped, and nothing is kept for a stream that comes later.
Send(event) ==
    wire' = [d \in Devices |-> IF d \in subscribed THEN wire[d] \cup {event} ELSE wire[d]]

Publish(p) ==
    /\ Server!Told(p)
    /\ Send([photo |-> p, status |-> status[p]])
    /\ UNCHANGED <<channel, stream, screen, list, fetch, notes, faults>>

PublishViewed ==
    /\ Send(Viewed)
    /\ UNCHANGED <<server, channel, stream, screen, list, fetch, notes, faults>>

-----------------------------------------------------------------------------
(* Streams.                                                                *)

\* The tabs mount with a token, or the EventSource tries again after its
\* interval: getOrCreateChannel, and the subscription in the same turn.
Connect(d) ==
    /\ stream[d] \in {"off", "waiting"}
    /\ stream' = [stream EXCEPT ![d] = "open"]
    /\ subscribed' = subscribed \cup {d}
    /\ UNCHANGED <<server, ghosts, wire, screen, list, fetch, notes, faults>>

\* What is left of the stream on the server is found to be closed later.
Leave(d, pc) ==
    /\ stream[d] = "open"
    /\ stream' = [stream EXCEPT ![d] = pc]
    /\ wire' = [wire EXCEPT ![d] = {}]
    /\ subscribed' = subscribed \ {d}
    /\ ghosts' = IF d \in subscribed THEN ghosts \cup {d} ELSE ghosts
    /\ UNCHANGED <<server, screen, list, fetch, notes>>

\* The tabs unmount: handle.close().
Close(d) == Leave(d, "off") /\ UNCHANGED faults

\* The network drops the stream.
Drop(d) == Leave(d, "waiting") /\ Fault

\* finalize: cleanup completes the user's Subject, which ends every stream of
\* the user, and takes it from the map.
Cleanup(d) ==
    /\ d \in ghosts
    /\ subscribed' = {}
    /\ ghosts' = {}
    /\ UNCHANGED <<server, phone, faults>>

\* The phone has read the stream to its end and waits before it tries again.
StreamEnds(d) ==
    /\ stream[d] = "open"
    /\ d \notin subscribed
    /\ wire[d] = {}
    /\ stream' = [stream EXCEPT ![d] = "waiting"]
    /\ UNCHANGED <<server, channel, wire, screen, list, fetch, notes, faults>>

\* The server restarts: the channels were in its memory.
Crash ==
    /\ Fault
    /\ subscribed' = {}
    /\ ghosts' = {}
    /\ UNCHANGED <<server, phone>>

-----------------------------------------------------------------------------
(* The photo list.                                                         *)

\* Slip: an invalidation leaves a fetch in flight alone.
RefetchJoins(d) ==
    IF fetch[d].pc = "idle" THEN Asked ELSE fetch[d]

\* A refetch cancels the one in flight, unless that is the first of the list.
Refetch(d) ==
    IF fetch[d].pc = "idle" \/ list[d].loaded THEN Asked ELSE fetch[d]

\* Slip: refetchType "none": the list is stale, and the screen waits for a mount.
MarkStaleOnly(d) ==
    /\ list' = [list EXCEPT ![d].valid = FALSE]
    /\ fetch' = fetch

\* invalidateQueries: mark the list stale, and refetch it if a screen shows it.
Invalidate(d) ==
    /\ list' = [list EXCEPT ![d].valid = FALSE]
    /\ fetch' = IF screen[d] THEN [fetch EXCEPT ![d] = Refetch(d)] ELSE fetch

\* useMomentPhotos mounts.  A list older than 30 seconds is refetched too, which
\* the refresh below stands for.
OpenScreen(d) ==
    /\ ~screen[d]
    /\ screen' = [screen EXCEPT ![d] = TRUE]
    /\ fetch' = IF fetch[d].pc = "idle" /\ ~(list[d].loaded /\ list[d].valid)
                THEN [fetch EXCEPT ![d] = Asked]
                ELSE fetch
    /\ UNCHANGED <<server, channel, stream, wire, list, notes, faults>>

CloseScreen(d) ==
    /\ screen[d]
    /\ screen' = [screen EXCEPT ![d] = FALSE]
    /\ UNCHANGED <<server, channel, stream, wire, list, fetch, notes, faults>>

\* Pull to refresh.
Refresh(d) ==
    /\ screen[d]
    /\ fetch' = [fetch EXCEPT ![d] = Refetch(d)]
    /\ UNCHANGED <<server, channel, stream, wire, screen, list, notes, faults>>

\* useUploadPhoto's onSuccess.
Uploaded(d) ==
    /\ \E p \in Photos : status[p] # "absent"
    /\ Invalidate(d)
    /\ UNCHANGED <<server, channel, stream, wire, screen, notes, faults>>

\* The server answers from the table as it is.
AnswerFetch(d) ==
    /\ fetch[d].pc = "asked"
    /\ fetch' = [fetch EXCEPT ![d] = [pc |-> "answered", rows |-> status]]
    /\ UNCHANGED <<server, channel, stream, wire, screen, list, notes, faults>>

\* The answer arrives: the list counts as fresh, whatever was marked before.
ReceiveList(d) ==
    /\ fetch[d].pc = "answered"
    /\ list' = [list EXCEPT ![d] = [loaded |-> TRUE, valid |-> TRUE, rows |-> fetch[d].rows]]
    /\ fetch' = [fetch EXCEPT ![d] = NoFetch]
    /\ UNCHANGED <<server, channel, stream, wire, screen, notes, faults>>

\* The request and its retry fail: the list stays as it is.
FetchFails(d) ==
    /\ fetch[d].pc # "idle"
    /\ Fault
    /\ fetch' = [fetch EXCEPT ![d] = NoFetch]
    /\ UNCHANGED <<server, channel, stream, wire, screen, list, notes>>

-----------------------------------------------------------------------------
(* The stream's message handler.                                           *)

\* A fetch in flight that the invalidation does not cancel.
Overtaken(d) == fetch[d].pc # "idle" /\ (~list[d].loaded \/ ~screen[d])

\* photo.processed: into the notification center, and the list is stale.
HandleOutcome(d, event) ==
    /\ event \in wire[d] \ {Viewed}
    /\ wire' = [wire EXCEPT ![d] = @ \ {event}]
    /\ notes' = [notes EXCEPT ![d] = @ \cup {[outcome |-> event, overtaken |-> Overtaken(d)]}]
    /\ Invalidate(d)
    /\ UNCHANGED <<server, channel, stream, screen, faults>>

\* share.viewed: the item is added and the notification list invalidated at
\* once; its query function answers [], which replaces all items.
HandleViewed(d) ==
    /\ Viewed \in wire[d]
    /\ wire' = [wire EXCEPT ![d] = @ \ {Viewed}]
    /\ notes' = [notes EXCEPT ![d] = {}]
    /\ UNCHANGED <<server, channel, stream, screen, list, fetch, faults>>

-----------------------------------------------------------------------------

ServerStep(p) == Confirm(p) \/ Process(p) \/ FailLate(p) \/ Publish(p)

StreamStep(d) == Connect(d) \/ Close(d) \/ Drop(d) \/ Cleanup(d) \/ StreamEnds(d)

FetchStep(d) == AnswerFetch(d) \/ ReceiveList(d)

UserStep(d) == OpenScreen(d) \/ CloseScreen(d) \/ Refresh(d) \/ Uploaded(d)

Handle(d) == HandleViewed(d) \/ \E event \in wire[d] : HandleOutcome(d, event)

Next ==
    \/ \E p \in Photos : ServerStep(p)
    \/ PublishViewed
    \/ \E d \in Devices : StreamStep(d) \/ FetchStep(d) \/ FetchFails(d) \/ UserStep(d) \/ Handle(d)
    \/ Crash

Spec == Init /\ [][Next]_vars

\* The server keeps PhotoLifecycle's promise to tell, the phones read what
\* reaches them, wait out their interval and try again.  The user owes nothing,
\* but does not refresh forever before the answer comes (the strong fairness).
Fairness ==
    /\ \A p \in Photos : WF_vars(told[p] = {} /\ Publish(p))
    /\ \A d \in Devices :
        /\ WF_vars(\E p \in Photos, s \in {"done", "failed"} : HandleOutcome(d, [photo |-> p, status |-> s]))
        /\ WF_vars(HandleViewed(d))
        /\ WF_vars(AnswerFetch(d))
        /\ SF_vars(ReceiveList(d))
        /\ WF_vars(StreamEnds(d))
        /\ WF_vars(Cleanup(d))
        /\ WF_vars(stream[d] = "waiting" /\ Connect(d))

FairSpec == Spec /\ Fairness

-----------------------------------------------------------------------------
(* Properties.                                                             *)

Shows(d, outcome) == list[d].rows[outcome.photo] = outcome.status

Settled(d) == list[d].loaded /\ list[d].valid /\ fetch[d].pc = "idle"

\* What the notification center says of a photo the moment's list shows too,
\* once it counts as fresh and no fetch is in flight, or it shows the failure
\* that came after: the refetch an event sets off is never beaten by an older
\* one, save one it could not cancel.
NotedMeansShown ==
    \A d \in Devices : \A n \in notes[d] :
        Settled(d) /\ ~n.overtaken =>
            list[d].rows[n.outcome.photo] \in {n.outcome.status, "failed"}

\* No list runs ahead of the table, or beside it: it shows of a photo what the
\* photo is or once was.  A photo that was done and failed late may still be
\* shown done; one that failed before it had thumbnails never is.
Past(p) ==
    {"absent", status[p]}
    \cup (IF status[p] = "absent" THEN {} ELSE {"pending"})
    \cup (IF hasUrls[p] THEN {"done"} ELSE {})

NeverContradicts == \A d \in Devices, p \in Photos : list[d].rows[p] \in Past(p)

\* A phone that shows the loaded moment, keeps its stream and has no fetch it
\* started before in the way is brought to the outcome without the user's help:
\* the polling the stream replaced is not missed.
Attentive(d) == stream[d] = "open" /\ d \in subscribed /\ screen[d] /\ list[d].loaded /\ faults = 0

StreamReplacesPolling ==
    \A d \in Devices, p \in Photos :
        (Attentive(d) /\ status[p] \in {"done", "failed"} /\ told[p] = {})
            ~> (list[d].rows[p] = status[p] \/ ~Attentive(d))

\* use-notifications-stream.ts:31: an event refetches the moment's list, so
\* that what the notification center says the fresh list shows, always.
EveryNoteIsShown ==
    \A d \in Devices : \A n \in notes[d] : Settled(d) => Shows(d, n.outcome)

\* notifications-stream.ts:6: the stream reconnects by itself and recovers what
\* was sent in between, so a phone that had its stream when the outcome came, and
\* stays on the moment, sees it, or at least knows its list to be stale.
MissedIsRecovered ==
    \A d \in Devices, p \in Photos :
        (Attentive(d) /\ status[p] \in {"done", "failed"} /\ told[p] = {})
            ~> (list[d].rows[p] = status[p] \/ ~list[d].valid \/ ~screen[d] \/ stream[d] = "off")

=============================================================================
