---------------------------- MODULE PhotoPipeline ----------------------------
(***************************************************************************)
(* The life of an uploaded photo on the server: the mobile client asks for *)
(* a presigned URL, stores the original in R2 and confirms; the confirm    *)
(* handler inserts the row and enqueues a BullMQ job; the worker writes    *)
(* the thumbnails to R2, updates the row and publishes an SSE event; the   *)
(* "failed" listener marks the row when the retries are used up.           *)
(*                                                                         *)
(* One action per await point of the code: between two awaits the event    *)
(* loop runs other handlers, and the process may stop.  The server is one  *)
(* process (one worker, concurrency 1), so a crash empties everything that *)
(* is not in Postgres, Redis or R2.                                        *)
(*                                                                         *)
(* A definition marked "Slip" is no part of Next: it is a plausible bug in *)
(* the definition that follows, and shows which property catches it.       *)
(***************************************************************************)
EXTENDS Naturals

CONSTANTS
    Photos,       \* photo ids handed out by createPresignedUploadUrl
    Requests,     \* confirm requests in flight at the same time
    Sizes,        \* the keys of THUMBNAIL_SIZES
    MaxAttempts,  \* opts.attempts of the job
    MaxStalled,   \* BullMQ's maxStalledCount
    MaxFaults     \* bound on crashes, lost locks, lost acks, failed enqueues

ASSUME PipelineAssumption ==
    /\ Sizes # {}
    /\ MaxAttempts \in Nat \ {0}
    /\ MaxStalled \in Nat
    /\ MaxFaults \in Nat

VARIABLES
    upload,   \* the client's progress, per photo
    photos,   \* the photos table: processing_status and thumbnail_keys
    bucket,   \* R2: the thumbnail objects that exist, per photo
    job,      \* Redis: the BullMQ job whose jobId is the photo id
    request,  \* confirm handlers in flight
    worker,   \* the one worker slot: the process() call it runs
    listener, \* onFailed calls in flight, per photo
    emitted,  \* statuses published on the owner's channel, per photo
    faults    \* faults so far, bounded by MaxFaults

vars == <<upload, photos, bucket, job, request, worker, listener, emitted, faults>>

Status == {"pending", "done", "failed"}
JobState == {"none", "waiting", "active", "delayed", "completed", "failed"}
WorkerPc == {"idle", "get", "put", "update", "publish", "settle", "thrown"}

TypeOK ==
    /\ upload \in [Photos -> {"none", "issued", "stored"}]
    /\ photos \in [Photos -> [status : Status \cup {"absent"}, thumbs : SUBSET Sizes]]
    /\ bucket \in [Photos -> SUBSET Sizes]
    /\ job \in [Photos -> [state : JobState, attempts : 0..MaxAttempts, stalls : 0..MaxStalled + 1]]
    /\ request \in [Requests -> [pc : {"idle"}] \cup [pc : {"save", "add"}, photo : Photos]]
    /\ worker \in [pc : {"idle"}]
                  \cup [pc : WorkerPc \ {"idle"}, photo : Photos, keys : SUBSET Sizes, lock : BOOLEAN]
    /\ listener \in [Photos -> {"none", "mark", "notify"}]
    /\ emitted \in [Photos -> SUBSET {"done", "failed"}]
    /\ faults \in 0..MaxFaults

Idle == [pc |-> "idle"]

Init ==
    /\ upload = [p \in Photos |-> "none"]
    /\ photos = [p \in Photos |-> [status |-> "absent", thumbs |-> {}]]
    /\ bucket = [p \in Photos |-> {}]
    /\ job = [p \in Photos |-> [state |-> "none", attempts |-> 0, stalls |-> 0]]
    /\ request = [r \in Requests |-> Idle]
    /\ worker = Idle
    /\ listener = [p \in Photos |-> "none"]
    /\ emitted = [p \in Photos |-> {}]
    /\ faults = 0

Fault == faults < MaxFaults /\ faults' = faults + 1

-----------------------------------------------------------------------------
(* The mobile client: a new upload takes a photo id of its own.            *)

CreatePresignedUploadUrl(p) ==
    /\ upload[p] = "none"
    /\ upload' = [upload EXCEPT ![p] = "issued"]
    /\ UNCHANGED <<photos, bucket, job, request, worker, listener, emitted, faults>>

PutOriginal(p) ==
    /\ upload[p] = "issued"
    /\ upload' = [upload EXCEPT ![p] = "stored"]
    /\ UNCHANGED <<photos, bucket, job, request, worker, listener, emitted, faults>>

-----------------------------------------------------------------------------
(* confirmPhotoUpload.  A request for a moment of someone else or with a   *)
(* key outside the photo's prefix returns before the first write and       *)
(* changes nothing.  The API takes a confirm of the same photo again.      *)

\* Slip: the client confirms before its PUT has been answered.
ConfirmStartEarly(r, p) ==
    /\ request[r].pc = "idle"
    /\ upload[p] # "none"
    /\ request' = [request EXCEPT ![r] = [pc |-> "save", photo |-> p]]
    /\ UNCHANGED <<upload, photos, bucket, job, worker, listener, emitted, faults>>

\* Slip: the job is enqueued before the row is saved.
ConfirmStartUnsaved(r, p) ==
    /\ request[r].pc = "idle"
    /\ upload[p] = "stored"
    /\ request' = [request EXCEPT ![r] = [pc |-> "add", photo |-> p]]
    /\ UNCHANGED <<upload, photos, bucket, job, worker, listener, emitted, faults>>

ConfirmStart(r, p) ==
    /\ request[r].pc = "idle"
    /\ upload[p] = "stored"
    /\ request' = [request EXCEPT ![r] = [pc |-> "save", photo |-> p]]
    /\ UNCHANGED <<upload, photos, bucket, job, worker, listener, emitted, faults>>

\* Slip: the entity names the status too, so that the save of a row that exists
\* writes "pending" over it.
ConfirmSaveResets(r) ==
    /\ request[r].pc = "save"
    /\ photos' = [photos EXCEPT ![request[r].photo].status = "pending"]
    /\ request' = [request EXCEPT ![r].pc = "add"]
    /\ UNCHANGED <<upload, bucket, job, worker, listener, emitted, faults>>

\* photoRepo.save: inserts with the column default "pending"; of a row that
\* exists it writes only the columns the entity names, never the status.
ConfirmSave(r) ==
    /\ request[r].pc = "save"
    /\ LET p == request[r].photo IN
        /\ photos' = [photos EXCEPT ![p].status = IF @ = "absent" THEN "pending" ELSE @]
        /\ request' = [request EXCEPT ![r].pc = "add"]
    /\ UNCHANGED <<upload, bucket, job, worker, listener, emitted, faults>>

\* Slip: no jobId, a confirm of the same photo starts its job over.
AddJobAgain(p) ==
    job' = [job EXCEPT ![p] = [state |-> "waiting", attempts |-> 0, stalls |-> 0]]

\* photoProcessingQueue.add with jobId = the photo id: BullMQ ignores an id it
\* knows, in whatever state that job is (none are removed).
AddJob(p) ==
    job' = [job EXCEPT ![p].state = IF @ = "none" THEN "waiting" ELSE @]

ConfirmAdd(r) ==
    /\ request[r].pc = "add"
    /\ AddJob(request[r].photo)
    /\ request' = [request EXCEPT ![r] = Idle]
    /\ UNCHANGED <<upload, photos, bucket, worker, listener, emitted, faults>>

\* The insert throws (nothing was written): the client gets a 500.
ConfirmSaveFails(r) ==
    /\ request[r].pc = "save"
    /\ request' = [request EXCEPT ![r] = Idle]
    /\ UNCHANGED <<upload, photos, bucket, job, worker, listener, emitted, faults>>

\* Redis refuses the add: the client gets a 500 and the row stays.
ConfirmAddFails(r) ==
    /\ request[r].pc = "add"
    /\ Fault
    /\ request' = [request EXCEPT ![r] = Idle]
    /\ UNCHANGED <<upload, photos, bucket, job, worker, listener, emitted>>

-----------------------------------------------------------------------------
(* BullMQ between the handlers.  The order of the wait list is abstracted. *)

Holds(p) == worker.pc # "idle" /\ worker.photo = p /\ worker.lock

\* The backoff of a failed attempt is over.
Promote(p) ==
    /\ job[p].state = "delayed"
    /\ job' = [job EXCEPT ![p].state = "waiting"]
    /\ UNCHANGED <<upload, photos, bucket, request, worker, listener, emitted, faults>>

\* The stall check finds an active job whose lock nobody renews.
Stall(p) ==
    /\ job[p].state = "active"
    /\ ~Holds(p)
    /\ job' = [job EXCEPT ![p].state = "waiting", ![p].stalls = @ + 1]
    /\ UNCHANGED <<upload, photos, bucket, request, worker, listener, emitted, faults>>

TooManyStalls(p) == job[p].stalls > MaxStalled

\* The worker takes a waiting job and calls process().
Pick(p) ==
    /\ worker.pc = "idle"
    /\ job[p].state = "waiting"
    /\ ~TooManyStalls(p)
    /\ job' = [job EXCEPT ![p].state = "active"]
    /\ worker' = [pc |-> "get", photo |-> p, keys |-> {}, lock |-> TRUE]
    /\ UNCHANGED <<upload, photos, bucket, request, listener, emitted, faults>>

\* Slips: every failed attempt marks the row; the comparison is off by one.
OnFailedAlways(p, attemptsMade) ==
    listener' = [listener EXCEPT ![p] = "mark"]

OnFailedLate(p, attemptsMade) ==
    listener' = IF attemptsMade <= MaxAttempts
                THEN listener
                ELSE [listener EXCEPT ![p] = "mark"]

\* onFailed: an attempt that leaves retries returns at once, the last one goes
\* on to mark the row.
OnFailed(p, attemptsMade) ==
    listener' = IF attemptsMade < MaxAttempts
                THEN listener
                ELSE [listener EXCEPT ![p] = "mark"]

\* A job that stalled too often fails for good when the worker takes it,
\* without a call of process(), whatever attempts it has left.
FailStalled(p) ==
    /\ worker.pc = "idle"
    /\ job[p].state = "waiting"
    /\ TooManyStalls(p)
    /\ job' = [job EXCEPT ![p].state = "failed", ![p].attempts = @ + 1]
    /\ OnFailed(p, job[p].attempts + 1)
    /\ UNCHANGED <<upload, photos, bucket, request, worker, emitted, faults>>

-----------------------------------------------------------------------------
(* process(): get the original, write the thumbnails one after the other,  *)
(* update the row (with the EXIF fields), publish.                         *)

At(pc) == worker.pc = pc

GetOriginal ==
    /\ At("get")
    /\ upload[worker.photo] = "stored"
    /\ worker' = [worker EXCEPT !.pc = "put"]
    /\ UNCHANGED <<upload, photos, bucket, job, request, listener, emitted, faults>>

\* Slip: the put is not awaited, and it fails.
PutThumbnailUnawaited(size) ==
    /\ At("put")
    /\ size \notin worker.keys
    /\ LET keys == worker.keys \cup {size} IN
        worker' = [worker EXCEPT !.keys = keys, !.pc = IF keys = Sizes THEN "update" ELSE @]
    /\ UNCHANGED <<upload, photos, bucket, job, request, listener, emitted, faults>>

PutThumbnail(size) ==
    /\ At("put")
    /\ size \notin worker.keys
    /\ bucket' = [bucket EXCEPT ![worker.photo] = @ \cup {size}]
    /\ LET keys == worker.keys \cup {size} IN
        worker' = [worker EXCEPT !.keys = keys, !.pc = IF keys = Sizes THEN "update" ELSE @]
    /\ UNCHANGED <<upload, photos, job, request, listener, emitted, faults>>

MarkDone(p) ==
    photos' = [photos EXCEPT ![p] = [status |-> "done", thumbs |-> worker.keys]]

\* Slip: the update is not awaited, and it fails.
UpdateRowUnawaited ==
    /\ At("update")
    /\ worker' = [worker EXCEPT !.pc = "publish"]
    /\ UNCHANGED <<upload, photos, bucket, job, request, listener, emitted, faults>>

UpdateRow ==
    /\ At("update")
    /\ MarkDone(worker.photo)
    /\ worker' = [worker EXCEPT !.pc = "publish"]
    /\ UNCHANGED <<upload, bucket, job, request, listener, emitted, faults>>

PublishDone ==
    /\ At("publish")
    /\ emitted' = [emitted EXCEPT ![worker.photo] = @ \cup {"done"}]
    /\ worker' = [worker EXCEPT !.pc = "settle"]
    /\ UNCHANGED <<upload, photos, bucket, job, request, listener, faults>>

\* Slip: process() catches the error, so BullMQ takes its return for a success.
ThrowSwallowed ==
    /\ worker.pc \in {"get", "put", "update"}
    /\ worker' = [worker EXCEPT !.pc = "settle"]
    /\ UNCHANGED <<upload, photos, bucket, job, request, listener, emitted, faults>>

\* Any await of process() may reject: R2, sharp or the database.
Throw ==
    /\ worker.pc \in {"get", "put", "update"}
    /\ worker' = [worker EXCEPT !.pc = "thrown"]
    /\ UNCHANGED <<upload, photos, bucket, job, request, listener, emitted, faults>>

\* The database commits the update and the connection drops before the answer.
LoseUpdateAck ==
    /\ At("update")
    /\ Fault
    /\ MarkDone(worker.photo)
    /\ worker' = [worker EXCEPT !.pc = "thrown"]
    /\ UNCHANGED <<upload, bucket, job, request, listener, emitted>>

\* BullMQ takes the result of process(): without the lock Redis refuses it.
Complete ==
    /\ At("settle")
    /\ worker' = Idle
    /\ job' = IF worker.lock THEN [job EXCEPT ![worker.photo].state = "completed"] ELSE job
    /\ UNCHANGED <<upload, photos, bucket, request, listener, emitted, faults>>

\* Slip: attempts that are not counted.
RetryUncounted ==
    /\ At("thrown")
    /\ worker.lock
    /\ job' = [job EXCEPT ![worker.photo].state = "delayed"]
    /\ worker' = Idle
    /\ UNCHANGED <<upload, photos, bucket, request, listener, emitted, faults>>

\* A rejected process() with attempts left waits out its backoff ...
Retry ==
    /\ At("thrown")
    /\ worker.lock
    /\ LET p == worker.photo IN
        /\ job[p].attempts + 1 < MaxAttempts
        /\ job' = [job EXCEPT ![p].state = "delayed", ![p].attempts = @ + 1]
        /\ OnFailed(p, job[p].attempts + 1)
    /\ worker' = Idle
    /\ UNCHANGED <<upload, photos, bucket, request, emitted, faults>>

\* ... the last one fails the job ...
GiveUp ==
    /\ At("thrown")
    /\ worker.lock
    /\ LET p == worker.photo IN
        /\ job[p].attempts + 1 >= MaxAttempts
        /\ job' = [job EXCEPT ![p].state = "failed", ![p].attempts = @ + 1]
        /\ OnFailed(p, job[p].attempts + 1)
    /\ worker' = Idle
    /\ UNCHANGED <<upload, photos, bucket, request, emitted, faults>>

\* ... and without the lock Redis refuses both and no event is emitted.
DropResult ==
    /\ At("thrown")
    /\ ~worker.lock
    /\ worker' = Idle
    /\ UNCHANGED <<upload, photos, bucket, job, request, listener, emitted, faults>>

\* The lock runs out while process() goes on (Redis is out of reach, or the
\* event loop is blocked).
LoseLock ==
    /\ worker.pc # "idle"
    /\ worker.lock
    /\ Fault
    /\ worker' = [worker EXCEPT !.lock = FALSE]
    /\ UNCHANGED <<upload, photos, bucket, job, request, listener, emitted>>

-----------------------------------------------------------------------------
(* The rest of onFailed, running beside the worker.                        *)

MarkFailed(p) ==
    /\ listener[p] = "mark"
    /\ photos' = [photos EXCEPT ![p].status = "failed"]
    /\ listener' = [listener EXCEPT ![p] = "notify"]
    /\ UNCHANGED <<upload, bucket, job, request, worker, emitted, faults>>

PublishFailed(p) ==
    /\ listener[p] = "notify"
    /\ emitted' = [emitted EXCEPT ![p] = @ \cup {"failed"}]
    /\ listener' = [listener EXCEPT ![p] = "none"]
    /\ UNCHANGED <<upload, photos, bucket, job, request, worker, faults>>

\* The process stops and starts again (a deploy, an idle machine stopped, the
\* 256 MB used up, a rejection nobody handles).
Crash ==
    /\ Fault
    /\ request' = [r \in Requests |-> Idle]
    /\ worker' = Idle
    /\ listener' = [p \in Photos |-> "none"]
    /\ UNCHANGED <<upload, photos, bucket, job, emitted>>

-----------------------------------------------------------------------------

ConfirmStep(r) == ConfirmSave(r) \/ ConfirmSaveFails(r) \/ ConfirmAdd(r) \/ ConfirmAddFails(r)

ProcessStep ==
    \/ GetOriginal
    \/ \E s \in Sizes : PutThumbnail(s)
    \/ UpdateRow
    \/ PublishDone
    \/ Throw
    \/ LoseUpdateAck
    \/ Complete
    \/ Retry
    \/ GiveUp
    \/ DropResult

QueueStep(p) == Promote(p) \/ Stall(p) \/ Pick(p) \/ FailStalled(p)

ListenerStep(p) == MarkFailed(p) \/ PublishFailed(p)

Next ==
    \/ \E p \in Photos : CreatePresignedUploadUrl(p) \/ PutOriginal(p)
    \/ \E r \in Requests, p \in Photos : ConfirmStart(r, p)
    \/ \E r \in Requests : ConfirmStep(r)
    \/ \E p \in Photos : QueueStep(p) \/ ListenerStep(p)
    \/ ProcessStep
    \/ LoseLock
    \/ Crash

Spec == Init /\ [][Next]_vars

\* The server keeps running its handlers and Redis its timers; nobody owes the
\* client's steps or the faults.
Fairness ==
    /\ \A r \in Requests : WF_vars(ConfirmStep(r))
    /\ \A p \in Photos : WF_vars(QueueStep(p)) /\ WF_vars(ListenerStep(p))
    /\ WF_vars(ProcessStep)

FairSpec == Spec /\ Fairness

-----------------------------------------------------------------------------
(* Properties.                                                             *)

Exists(p) == photos[p].status # "absent"

\* A row is only ever created for an original that is in R2 (photos-api.ts:
\* the PUT comes before the confirm, so that no row is left without a photo),
\* and a job is only ever in the queue for a row that exists.
RowAndOriginalFirst ==
    \A p \in Photos :
        /\ Exists(p) => upload[p] = "stored"
        /\ job[p].state # "none" => Exists(p)

\* Every thumbnail key a row holds names an object that is in R2, all sizes or
\* none, and a done row holds them: whatever attempt, crash or lost answer
\* came between, the presigned URLs of the list lead somewhere.
ThumbnailsAreStored ==
    \A p \in Photos :
        /\ photos[p].thumbs \in {{}, Sizes}
        /\ photos[p].thumbs \subseteq bucket[p]
        /\ photos[p].status = "done" => photos[p].thumbs = Sizes

\* "failed" is written only when the queue gave the job up after its last
\* attempt, so no later attempt can turn up behind it.
FailedIsExhausted ==
    \A p \in Photos :
        (photos[p].status = "failed" \/ listener[p] # "none") =>
            job[p].state = "failed" /\ job[p].attempts = MaxAttempts

\* A job the queue counts as completed left a done row.
CompletedIsDone ==
    \A p \in Photos : job[p].state = "completed" => photos[p].status = "done"

\* The owner hears of a result only after it is in the database: the refetch
\* an event sets off finds it there.
EventAfterCommit ==
    \A p \in Photos :
        /\ "done" \in emitted[p] => photos[p].thumbs = Sizes
        /\ "failed" \in emitted[p] => photos[p].status = "failed"

\* Confirming a photo again, before, during or after its processing, never
\* takes its row back: pending, then done, then failed is the only way.
Rank == [absent |-> 0, pending |-> 1, done |-> 2, failed |-> 3]

StatusOnlyAdvances ==
    [][\A p \in Photos : Rank[photos'[p].status] >= Rank[photos[p].status]]_vars

\* Nor does it start the job over: attempts and stalls are never reset, and a
\* job that ended stays ended.
JobRunsOnce ==
    [][\A p \in Photos :
        /\ job'[p].attempts >= job[p].attempts
        /\ job'[p].stalls >= job[p].stalls
        /\ job[p].state \in {"completed", "failed"} => job'[p] = job[p]]_vars

\* Every job the queue has taken ends, completed or failed, whatever crashes
\* and lost locks (finitely many) come between.
EveryJobEnds ==
    \A p \in Photos :
        (job[p].state = "waiting") ~> (job[p].state \in {"completed", "failed"})

\* Types' contract (photo-processing.types.ts:12): a pending row is waiting for
\* its job or being processed; the confirm that is about to add it counts.
PendingHasJob ==
    \A p \in Photos :
        photos[p].status = "pending" =>
            \/ job[p].state \notin {"none", "failed"}
            \/ listener[p] # "none"
            \/ \E r \in Requests : request[r].pc = "add" /\ request[r].photo = p

\* The "failed" column mirrors the queue's failed set (the notes on BullMQ call
\* it the dead letter queue): a job that failed is marked or about to be.
FailedJobIsMarked ==
    \A p \in Photos :
        job[p].state = "failed" => photos[p].status = "failed" \/ listener[p] = "mark"

\* photos-schemas.ts:83: thumbnailUrls is null for a photo that failed.
FailedHasNoThumbnails ==
    \A p \in Photos : photos[p].status = "failed" => photos[p].thumbs = {}

-----------------------------------------------------------------------------
(* What the properties above need to be inductive.                         *)

\* A confirm in flight is for a stored original, and past its save for a row.
RequestsInOrder ==
    \A r \in Requests :
        request[r].pc # "idle" =>
            /\ upload[request[r].photo] = "stored"
            /\ request[r].pc = "add" => Exists(request[r].photo)

\* The running process() has a job that has not ended (active, or taken from it
\* by the stall check), its keys are in R2, and past the update its row is done.
WorkerInOrder ==
    worker.pc # "idle" =>
        /\ job[worker.photo].state \in {"active", "waiting"}
        /\ worker.lock => job[worker.photo].state = "active"
        /\ worker.keys \subseteq bucket[worker.photo]
        /\ worker.pc \in {"update", "publish", "settle"} => worker.keys = Sizes
        /\ worker.pc \in {"publish", "settle"} => photos[worker.photo].status = "done"

\* A job that has not failed has an attempt left, an active one a stall.
JobHasBudget ==
    \A p \in Photos :
        /\ job[p].state # "failed" => job[p].attempts < MaxAttempts
        /\ job[p].state = "active" => job[p].stalls <= MaxStalled

ListenerInOrder ==
    \A p \in Photos : listener[p] = "notify" => photos[p].status = "failed"

\* The inductive invariant of the proofs.
Inductive ==
    /\ TypeOK
    /\ RequestsInOrder
    /\ WorkerInOrder
    /\ JobHasBudget
    /\ ListenerInOrder
    /\ RowAndOriginalFirst
    /\ ThumbnailsAreStored
    /\ FailedIsExhausted
    /\ CompletedIsDone
    /\ EventAfterCommit

\* As long as no fault strikes, the pipeline keeps the promise of PhotoLifecycle,
\* the eventual outcome and the word of it included.
Lifecycle == INSTANCE PhotoLifecycle WITH
    status <- [p \in Photos |-> photos[p].status],
    hasUrls <- [p \in Photos |-> photos[p].thumbs # {}],
    told <- emitted

KeepsLifecycle == Lifecycle!Spec

=============================================================================
