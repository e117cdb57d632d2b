-------------------------- MODULE LiveUpdatesProofs -------------------------
(***************************************************************************)
(* What the lists and the notification center of any phones say of any     *)
(* photos is true, whatever faults strike: an event, a note or an answer on *)
(* its way says what the photo is or once was, and a list that counts as   *)
(* fresh is not older than what was noted.                                 *)
(***************************************************************************)
EXTENDS LiveUpdates, TLAPS

Final == {"done", "failed"}

\* A photo that is done has its thumbnails.
DoneHasUrls == \A p \in Photos : status[p] = "done" => hasUrls[p]

\* What is on the way to a phone, or has come there, the table says, has said or has gone
\* on from.
StillHolds(outcome) == status[outcome.photo] \in {outcome.status, "failed"}
EventsAreTrue == \A d \in Devices : \A event \in wire[d] \ {Viewed} : StillHolds(event)
NotesAreTrue == \A d \in Devices : \A n \in notes[d] : StillHolds(n.outcome)
AnswersAreTrue == \A d \in Devices, p \in Photos : fetch[d].rows[p] \in Past(p)

\* A note whose invalidation could cancel what was in flight: neither a list that counts as
\* fresh nor an answer on its way is older than it.
NoteIsKept(d, n) ==
    /\ list[d].loaded /\ list[d].valid =>
          list[d].rows[n.outcome.photo] \in {n.outcome.status, "failed"}
    /\ fetch[d].pc = "answered" =>
          fetch[d].rows[n.outcome.photo] \in {n.outcome.status, "failed"}
NotesAreKept == \A d \in Devices : \A n \in notes[d] : ~n.overtaken => NoteIsKept(d, n)

Truthful ==
    /\ TypeOK
    /\ DoneHasUrls
    /\ EventsAreTrue
    /\ NotesAreTrue
    /\ AnswersAreTrue
    /\ NeverContradicts
    /\ NotesAreKept

LEMMA Values ==
    NoRows \in Rows /\ NoFetch \in [pc : {"idle", "asked", "answered"}, rows : Rows]
    /\ Asked \in [pc : {"idle", "asked", "answered"}, rows : Rows]
BY DEF NoRows, NoFetch, Asked, Rows, Status

\* Nothing has been said at the start.
LEMMA InitTruthful == Init => Truthful
<1> SUFFICES ASSUME Init PROVE Truthful
  OBVIOUS
<1>1. TypeOK
  BY Values, LiveAssumption DEF Init, TypeOK, Server!Init, Rows, Status, NoRows
<1> QED
  BY <1>1 DEF Init, Truthful, DoneHasUrls, EventsAreTrue, NotesAreTrue, AnswersAreTrue,
     NeverContradicts, NotesAreKept, Past, Server!Init, NoRows, NoFetch

\* PhotoLifecycle's steps, the late failure included, take back nothing: a photo stays what
\* it is or goes on, and what it was it has been.
LEMMA TableGoesOn ==
    ASSUME TypeOK, DoneHasUrls, NEW p \in Photos, Confirm(p) \/ Process(p) \/ FailLate(p)
    PROVE  /\ status' \in Rows /\ hasUrls' \in [Photos -> BOOLEAN] /\ UNCHANGED told
           /\ DoneHasUrls'
           /\ \A q \in Photos : status[q] \in Final => status'[q] \in {status[q], "failed"}
           /\ \A q \in Photos : Past(q) \subseteq Past(q)'
<1>1. CASE Confirm(p)
  BY <1>1 DEF Confirm, Server!Confirmed, TypeOK, Rows, Status, DoneHasUrls, Final, Past
<1>2. CASE Server!Done(p)
  BY <1>2 DEF Server!Done, TypeOK, Rows, Status, DoneHasUrls, Final, Past
<1>3. CASE Server!Failed(p)
  BY <1>3 DEF Server!Failed, TypeOK, Rows, Status, DoneHasUrls, Final, Past
<1>4. CASE FailLate(p)
  BY <1>4 DEF FailLate, Server!FailedLate, TypeOK, Rows, Status, DoneHasUrls, Final, Past
<1> QED
  BY <1>1, <1>2, <1>3, <1>4 DEF Process

\* A step of the table leaves what was said true.
LEMMA TableKeeps ==
    ASSUME Truthful, NEW p \in Photos, Confirm(p) \/ Process(p) \/ FailLate(p)
    PROVE  Truthful'
<1>0. TypeOK /\ DoneHasUrls
  BY DEF Truthful
<1>1. UNCHANGED <<channel, phone>> /\ faults' \in 0..MaxFaults
  BY <1>0, LiveAssumption DEF Confirm, Process, FailLate, Fault, TypeOK
<1>2. TypeOK' /\ DoneHasUrls'
  BY <1>0, <1>1, TableGoesOn DEF TypeOK, channel, phone
<1>3. ASSUME NEW outcome \in Outcome, StillHolds(outcome)
      PROVE  StillHolds(outcome)'
  BY <1>0, <1>3, TableGoesOn DEF StillHolds, Outcome, Final
<1>4. EventsAreTrue' /\ NotesAreTrue'
  <2>1. \A d \in Devices : \A event \in wire[d] \ {Viewed} : event \in Outcome
    BY <1>0 DEF TypeOK
  <2>2. \A d \in Devices : \A n \in notes[d] : n.outcome \in Outcome
    BY <1>0 DEF TypeOK
  <2> QED
    BY <2>1, <2>2, <1>1, <1>3 DEF phone, Truthful, EventsAreTrue, NotesAreTrue
<1>5. AnswersAreTrue' /\ NeverContradicts'
  BY <1>0, <1>1, TableGoesOn DEF phone, Truthful, AnswersAreTrue, NeverContradicts
<1>6. NotesAreKept'
  BY <1>1 DEF phone, Truthful, NotesAreKept, NoteIsKept
<1> QED
  BY <1>2, <1>4, <1>5, <1>6 DEF Truthful

\* publish sends what the table holds.
LEMMA SendKeeps ==
    ASSUME Truthful, NEW event, Send(event),
           event = Viewed \/ (event \in Outcome /\ StillHolds(event)),
           UNCHANGED <<status, hasUrls, channel, stream, screen, list, fetch, notes, faults>>,
           told' \in [Photos -> SUBSET Final]
    PROVE  Truthful'
<1>1. TypeOK'
  BY DEF Truthful, TypeOK, Send, channel, Final
<1>2. EventsAreTrue'
  BY DEF Truthful, TypeOK, EventsAreTrue, StillHolds, Send
<1> QED
  BY <1>1, <1>2 DEF Truthful, DoneHasUrls, NotesAreTrue, StillHolds, AnswersAreTrue,
     NeverContradicts, Past, NotesAreKept, NoteIsKept

\* A stream or the server's channel ends, begins or restarts: at most events are lost.
LEMMA StreamKeeps ==
    ASSUME Truthful, TypeOK', UNCHANGED <<status, hasUrls, list, fetch, notes>>,
           \A d \in Devices : wire'[d] \subseteq wire[d]
    PROVE  Truthful'
BY DEF Truthful, DoneHasUrls, EventsAreTrue, NotesAreTrue, StillHolds, AnswersAreTrue,
   NeverContradicts, Past, NotesAreKept, NoteIsKept

\* The list's entry changes: a fetch that is answered was so before or is answered from the
\* table, and a list that counts as fresh did so before or is that answer.
LEMMA ListKeeps ==
    ASSUME Truthful, TypeOK', UNCHANGED <<status, hasUrls, notes, wire>>,
           \A d \in Devices :
              /\ \/ fetch'[d] = fetch[d]
                 \/ fetch'[d].rows = NoRows /\ fetch'[d].pc # "answered"
                 \/ fetch'[d].rows = status
              /\ \/ list'[d] = list[d]
                 \/ list'[d].rows = list[d].rows /\ ~list'[d].valid
                 \/ list'[d].rows = fetch[d].rows /\ fetch[d].pc = "answered"
    PROVE  Truthful'
<1>1. DoneHasUrls' /\ EventsAreTrue' /\ NotesAreTrue'
  BY DEF Truthful, DoneHasUrls, EventsAreTrue, NotesAreTrue, StillHolds
<1>2. AnswersAreTrue' /\ NeverContradicts'
  <2>1. \A p \in Photos : Past(p)' = Past(p) /\ status[p] \in Past(p) /\ NoRows[p] \in Past(p)
    BY DEF Past, NoRows
  <2> QED
    BY <2>1 DEF Truthful, AnswersAreTrue, NeverContradicts
<1>3. ASSUME NEW d \in Devices, NEW n \in notes[d], ~n.overtaken
      PROVE  NoteIsKept(d, n)'
  <2>1. n.outcome \in Outcome /\ status[n.outcome.photo] \in {n.outcome.status, "failed"}
    BY DEF Truthful, TypeOK, NotesAreTrue, StillHolds
  <2>2. NoteIsKept(d, n)
    BY <1>3 DEF Truthful, NotesAreKept
  <2> QED
    BY <2>1, <2>2 DEF NoteIsKept, Outcome, NoRows
<1> QED
  BY <1>1, <1>2, <1>3 DEF Truthful, NotesAreKept

\* An invalidation marks the list and leaves its fetch or asks again.
LEMMA InvalidateKeeps ==
    ASSUME TypeOK, NEW d \in Devices, Invalidate(d)
    PROVE  /\ list' = [list EXCEPT ![d].valid = FALSE]
           /\ list' \in [Devices -> [loaded : BOOLEAN, valid : BOOLEAN, rows : Rows]]
           /\ fetch' \in [Devices -> [pc : {"idle", "asked", "answered"}, rows : Rows]]
           /\ \A e \in Devices : fetch'[e] = fetch[e] \/ (e = d /\ fetch'[e] = Asked)
           /\ ~Overtaken(d) => fetch'[d].pc # "answered"
<1>1. list' = [list EXCEPT ![d].valid = FALSE]
  BY DEF Invalidate
<1>2. list' \in [Devices -> [loaded : BOOLEAN, valid : BOOLEAN, rows : Rows]]
  BY <1>1 DEF TypeOK
<1>3. fetch' = fetch \/ fetch' = [fetch EXCEPT ![d] = Asked]
  BY DEF Invalidate, Refetch, TypeOK
<1>4. ~Overtaken(d) => fetch'[d].pc # "answered"
  <2>1. CASE screen[d]
    BY <2>1 DEF Invalidate, Refetch, TypeOK, Overtaken, Asked
  <2>2. CASE ~screen[d]
    BY <2>2 DEF Invalidate, Overtaken, TypeOK
  <2> QED
    BY <2>1, <2>2
<1> QED
  BY <1>1, <1>2, <1>3, <1>4, Values DEF TypeOK

\* An outcome is noted and its list invalidated.
LEMMA HandleKeeps ==
    ASSUME Truthful, NEW d \in Devices, NEW event \in wire[d], HandleOutcome(d, event)
    PROVE  Truthful'
<1> DEFINE note == [outcome |-> event, overtaken |-> Overtaken(d)]
<1>0. TypeOK /\ Invalidate(d)
  BY DEF Truthful, HandleOutcome
<1>1. event \in Outcome /\ event # Viewed /\ StillHolds(event)
  BY <1>0 DEF HandleOutcome, TypeOK, Truthful, EventsAreTrue
<1>2. UNCHANGED <<server, channel, stream, screen, faults>>
      /\ wire' = [wire EXCEPT ![d] = @ \ {event}]
      /\ notes' = [notes EXCEPT ![d] = @ \cup {note}]
  BY DEF HandleOutcome
<1>3. /\ list' = [list EXCEPT ![d].valid = FALSE]
      /\ list' \in [Devices -> [loaded : BOOLEAN, valid : BOOLEAN, rows : Rows]]
      /\ fetch' \in [Devices -> [pc : {"idle", "asked", "answered"}, rows : Rows]]
      /\ \A e \in Devices : fetch'[e] = fetch[e] \/ (e = d /\ fetch'[e] = Asked)
      /\ ~Overtaken(d) => fetch'[d].pc # "answered"
  BY <1>0, InvalidateKeeps
<1>4. note \in [outcome : Outcome, overtaken : BOOLEAN]
  BY <1>1, <1>0 DEF Overtaken, TypeOK
<1>5. TypeOK'
  BY <1>0, <1>2, <1>3, <1>4 DEF TypeOK, server, channel
<1>6. DoneHasUrls' /\ EventsAreTrue' /\ NotesAreTrue'
  BY <1>0, <1>1, <1>2 DEF Truthful, TypeOK, DoneHasUrls, EventsAreTrue, NotesAreTrue,
     StillHolds, server
<1>7. AnswersAreTrue' /\ NeverContradicts'
  <2>1. \A e \in Devices : fetch'[e].rows = fetch[e].rows \/ fetch'[e].rows = NoRows
    BY <1>3 DEF Asked
  <2>2. \A e \in Devices : list'[e].rows = list[e].rows
    BY <1>0, <1>3 DEF TypeOK
  <2>3. \A p \in Photos : Past(p)' = Past(p) /\ NoRows[p] \in Past(p)
    BY <1>2 DEF Past, NoRows, server
  <2> QED
    BY <2>1, <2>2, <2>3 DEF Truthful, AnswersAreTrue, NeverContradicts
<1>8. ASSUME NEW e \in Devices, NEW n \in notes'[e], ~n.overtaken
      PROVE  NoteIsKept(e, n)'
  <2>1. CASE e # d
    BY <2>1, <1>0, <1>2, <1>3, <1>8 DEF Truthful, NotesAreKept, NoteIsKept, TypeOK
  <2>2. CASE e = d /\ n \in notes[d]
    <3>1. NoteIsKept(d, n)
      BY <2>2, <1>8 DEF Truthful, NotesAreKept
    <3>2. ~list'[d].valid
      BY <1>0, <1>3 DEF TypeOK
    <3> QED
      BY <2>2, <3>1, <3>2, <1>3 DEF NoteIsKept, Asked
  <2>3. CASE e = d /\ n = note
    <3>1. ~list'[d].valid
      BY <1>0, <1>3 DEF TypeOK
    <3>2. fetch'[d].pc # "answered"
      BY <2>3, <1>3, <1>8
    <3> QED
      BY <2>3, <3>1, <3>2 DEF NoteIsKept
  <2> QED
    BY <2>1, <2>2, <2>3, <1>0, <1>2 DEF TypeOK
<1> QED
  BY <1>5, <1>6, <1>7, <1>8 DEF Truthful, NotesAreKept

\* Every step keeps it.
LEMMA StepTruthful == Truthful /\ [Next]_vars => Truthful'
<1> SUFFICES ASSUME Truthful, [Next]_vars PROVE Truthful'
  OBVIOUS
<1>0. TypeOK
  BY DEF Truthful
<1>1. ASSUME NEW p \in Photos, ServerStep(p) PROVE Truthful'
  <2>1. CASE Confirm(p) \/ Process(p) \/ FailLate(p)
    BY <2>1, TableKeeps
  <2>2. CASE Publish(p)
    <3> DEFINE event == [photo |-> p, status |-> status[p]]
    <3>1. event \in Outcome /\ StillHolds(event)
      BY <2>2, <1>0 DEF Publish, Server!Told, Outcome, StillHolds, TypeOK
    <3>2. told' \in [Photos -> SUBSET Final] /\ UNCHANGED <<status, hasUrls>>
      BY <2>2, <1>0 DEF Publish, Server!Told, TypeOK, Final
    <3> HIDE DEF event
    <3>3. Send(event) /\ UNCHANGED <<channel, stream, screen, list, fetch, notes, faults>>
      BY <2>2 DEF Publish, event
    <3> QED
      BY <3>1, <3>2, <3>3, SendKeeps
  <2> QED
    BY <1>1, <2>1, <2>2 DEF ServerStep
<1>2. CASE PublishViewed
  <2>1. told' \in [Photos -> SUBSET Final]
    BY <1>2, <1>0 DEF PublishViewed, server, TypeOK, Final
  <2> QED
    BY <1>2, <2>1, SendKeeps DEF PublishViewed, server
<1>3. ASSUME NEW d \in Devices, StreamStep(d) PROVE Truthful'
  <2>1. UNCHANGED <<status, hasUrls, told, screen, list, fetch, notes>>
    BY <1>3 DEF StreamStep, Connect, Close, Drop, Leave, Cleanup, StreamEnds, server, phone
  <2>2. TypeOK'
    <3>1. stream' \in [Devices -> {"off", "waiting", "open"}]
      BY <1>3, <1>0 DEF StreamStep, Connect, Close, Drop, Leave, Cleanup, StreamEnds, phone, TypeOK
    <3>2. subscribed' \in SUBSET Devices /\ ghosts' \in SUBSET Devices
      BY <1>3, <1>0 DEF StreamStep, Connect, Close, Drop, Leave, Cleanup, StreamEnds, channel, TypeOK
    <3>3. wire' \in [Devices -> SUBSET (Outcome \cup {Viewed})]
      BY <1>3, <1>0 DEF StreamStep, Connect, Close, Drop, Leave, Cleanup, StreamEnds, phone, TypeOK
    <3>4. faults' \in 0..MaxFaults
      BY <1>3, <1>0, LiveAssumption DEF StreamStep, Connect, Close, Drop, Leave, Cleanup,
         StreamEnds, Fault, TypeOK
    <3> QED
      BY <3>1, <3>2, <3>3, <3>4, <2>1, <1>0 DEF TypeOK
  <2>3. \A e \in Devices : wire'[e] \subseteq wire[e]
    BY <1>3, <1>0 DEF StreamStep, Connect, Close, Drop, Leave, Cleanup, StreamEnds, phone, TypeOK
  <2> QED
    BY <2>1, <2>2, <2>3, StreamKeeps
<1>4. CASE Crash
  <2>1. TypeOK'
    BY <1>4, <1>0, LiveAssumption DEF Crash, Fault, server, phone, TypeOK
  <2> QED
    BY <1>4, <2>1, StreamKeeps DEF Crash, server, phone
<1>5. ASSUME NEW d \in Devices, FetchStep(d) \/ FetchFails(d) \/ UserStep(d) PROVE Truthful'
  <2>1. UNCHANGED <<status, hasUrls, told, notes, wire, stream, channel>>
    BY <1>5 DEF FetchStep, AnswerFetch, ReceiveList, FetchFails, UserStep, OpenScreen,
       CloseScreen, Refresh, Uploaded, server
  <2>2. CASE AnswerFetch(d)
    <3>1. TypeOK'
      BY <2>2, <2>1, <1>0 DEF AnswerFetch, TypeOK, channel, server
    <3>2. \A e \in Devices : (fetch'[e] = fetch[e] \/ fetch'[e].rows = status) /\ list'[e] = list[e]
      BY <2>2, <1>0 DEF AnswerFetch, TypeOK
    <3> QED
      BY <2>1, <3>1, <3>2, ListKeeps
  <2>3. CASE ReceiveList(d)
    <3>1. TypeOK'
      BY <2>3, <2>1, <1>0, Values DEF ReceiveList, TypeOK, channel, server
    <3>2. \A e \in Devices :
            /\ fetch'[e] = fetch[e] \/ (fetch'[e].rows = NoRows /\ fetch'[e].pc # "answered")
            /\ list'[e] = list[e] \/ (list'[e].rows = fetch[e].rows /\ fetch[e].pc = "answered")
      BY <2>3, <1>0 DEF ReceiveList, TypeOK, NoFetch
    <3> QED
      BY <2>1, <3>1, <3>2, ListKeeps
  <2>4. CASE FetchFails(d)
    <3>1. TypeOK'
      BY <2>4, <2>1, <1>0, Values, LiveAssumption DEF FetchFails, Fault, TypeOK, channel, server
    <3>2. \A e \in Devices :
            (fetch'[e] = fetch[e] \/ (fetch'[e].rows = NoRows /\ fetch'[e].pc # "answered"))
            /\ list'[e] = list[e]
      BY <2>4, <1>0 DEF FetchFails, TypeOK, NoFetch
    <3> QED
      BY <2>1, <3>1, <3>2, ListKeeps
  <2>5. CASE OpenScreen(d) \/ CloseScreen(d) \/ Refresh(d)
    <3>1. UNCHANGED <<list, faults>> /\ screen' \in [Devices -> BOOLEAN]
          /\ (fetch' = fetch \/ fetch' = [fetch EXCEPT ![d] = Asked])
      BY <2>5, <1>0 DEF OpenScreen, CloseScreen, Refresh, Refetch, TypeOK
    <3>2. TypeOK'
      <4>1. fetch' \in [Devices -> [pc : {"idle", "asked", "answered"}, rows : Rows]]
        <5>1. fetch \in [Devices -> [pc : {"idle", "asked", "answered"}, rows : Rows]]
          BY <1>0 DEF TypeOK
        <5> QED
          BY <5>1, <3>1, Values
      <4> QED
        BY <4>1, <3>1, <2>1, <1>0 DEF TypeOK, channel
    <3>3. \A e \in Devices :
            (fetch'[e] = fetch[e] \/ (fetch'[e].rows = NoRows /\ fetch'[e].pc # "answered"))
            /\ list'[e] = list[e]
      BY <3>1, <1>0 DEF TypeOK, Asked
    <3> QED
      BY <2>1, <3>2, <3>3, ListKeeps
  <2>6. CASE Uploaded(d)
    <3>1. Invalidate(d) /\ UNCHANGED <<screen, faults>>
      BY <2>6 DEF Uploaded
    <3>2. TypeOK'
      BY <3>1, <2>1, <1>0, InvalidateKeeps DEF TypeOK, channel
    <3>3. list' = [list EXCEPT ![d].valid = FALSE]
          /\ \A e \in Devices : fetch'[e] = fetch[e] \/ (e = d /\ fetch'[e] = Asked)
      BY <3>1, <1>0, InvalidateKeeps
    <3>4. \A e \in Devices :
            (fetch'[e] = fetch[e] \/ (fetch'[e].rows = NoRows /\ fetch'[e].pc # "answered"))
            /\ (list'[e] = list[e] \/ (list'[e].rows = list[e].rows /\ ~list'[e].valid))
      BY <3>3, <1>0 DEF TypeOK, Asked
    <3> QED
      BY <2>1, <3>2, <3>4, ListKeeps
  <2> QED
    BY <1>5, <2>2, <2>3, <2>4, <2>5, <2>6 DEF FetchStep, UserStep
<1>6. ASSUME NEW d \in Devices, HandleViewed(d) PROVE Truthful'
  <2>1. TypeOK'
    BY <1>6, <1>0 DEF HandleViewed, TypeOK, server, channel
  <2>2. UNCHANGED <<status, hasUrls, list, fetch>>
        /\ \A e \in Devices : wire'[e] \subseteq wire[e] /\ notes'[e] \subseteq notes[e]
    BY <1>6, <1>0 DEF HandleViewed, TypeOK, server
  <2> QED
    BY <2>1, <2>2 DEF Truthful, DoneHasUrls, EventsAreTrue, NotesAreTrue, StillHolds,
       AnswersAreTrue, NeverContradicts, Past, NotesAreKept, NoteIsKept
<1>7. ASSUME NEW d \in Devices, Handle(d) PROVE Truthful'
  BY <1>6, <1>7, HandleKeeps DEF Handle
<1>8. CASE UNCHANGED vars
  BY <1>8 DEF vars, server, channel, phone, Truthful, TypeOK, DoneHasUrls, EventsAreTrue,
     NotesAreTrue, StillHolds, AnswersAreTrue, NeverContradicts, Past, NotesAreKept, NoteIsKept
<1> QED
  BY <1>1, <1>2, <1>3, <1>4, <1>5, <1>7, <1>8 DEF Next

\* In every reachable state all of it is true, for any number of phones, photos and faults:
\* what a phone was told, fetches or shows is what the row says, has said before, or said
\* before the attempt that made it done failed late (photo-processing.processor.ts 174-198).
THEOREM PhonesAreTruthful == Spec => []Truthful
<1> QED
  BY InitTruthful, StepTruthful, PTL DEF Spec

\* What the notification center says of a photo, its list shows as soon as it counts as
\* fresh and nothing is in flight, or the failure that came later; but for a note whose
\* event overtook a fetch it could not cancel: the list's first, or one no screen waits for
\* (use-notifications-stream.ts 26-32).
THEOREM NoteAndListAgree == Spec => []NotedMeansShown
<1>1. Truthful => NotedMeansShown
  BY DEF Truthful, NotesAreKept, NoteIsKept, NotedMeansShown, Settled
<1> QED
  BY <1>1, PhonesAreTruthful, PTL

\* No list shows of a photo what that photo is not and never was (use-notifications-stream.ts
\* 32, the query function of useMomentPhotos).
THEOREM ListsAreTrue == Spec => []NeverContradicts
<1>1. Truthful => NeverContradicts
  BY DEF Truthful
<1> QED
  BY <1>1, PhonesAreTruthful, PTL
=============================================================================
