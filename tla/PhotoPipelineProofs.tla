------------------------- MODULE PhotoPipelineProofs -------------------------
(***************************************************************************)
(* Proofs about PhotoPipeline, for every set of photos, requests and sizes *)
(* and every bound on attempts, stalls and faults.  Everything follows     *)
(* from the inductive invariant Inductive of the module.                   *)
(***************************************************************************)
EXTENDS PhotoPipeline, TLAPS

\* The empty database, queue and process memory satisfy the invariant.
LEMMA InitInductive == Init => Inductive
<1> SUFFICES ASSUME Init PROVE Inductive
  OBVIOUS
<1> USE PipelineAssumption DEF Init
<1>1. TypeOK
  BY DEF TypeOK, Idle, Status, JobState, WorkerPc
<1>2. RequestsInOrder /\ WorkerInOrder
  BY DEF RequestsInOrder, WorkerInOrder, Idle
<1>3. JobHasBudget /\ ListenerInOrder
  BY DEF JobHasBudget, ListenerInOrder
<1>4. RowAndOriginalFirst /\ ThumbnailsAreStored /\ FailedIsExhausted
  BY DEF RowAndOriginalFirst, ThumbnailsAreStored, FailedIsExhausted, Exists
<1>5. CompletedIsDone /\ EventAfterCommit
  BY DEF CompletedIsDone, EventAfterCommit
<1> QED
  BY <1>1, <1>2, <1>3, <1>4, <1>5 DEF Inductive

\* Every action, of the handlers, the queue, the worker or a fault, keeps it.
LEMMA StepInductive == Inductive /\ [Next]_vars => Inductive'
<1> SUFFICES ASSUME Inductive, [Next]_vars PROVE Inductive'
  OBVIOUS
<1> USE PipelineAssumption
    DEF Inductive, TypeOK, Status, JobState, WorkerPc, RequestsInOrder, WorkerInOrder, JobHasBudget,
        ListenerInOrder, RowAndOriginalFirst, ThumbnailsAreStored, FailedIsExhausted, CompletedIsDone,
        EventAfterCommit, Exists
<1>1. ASSUME NEW p \in Photos, CreatePresignedUploadUrl(p) PROVE Inductive'
  BY <1>1 DEF CreatePresignedUploadUrl
<1>2. ASSUME NEW p \in Photos, PutOriginal(p) PROVE Inductive'
  BY <1>2 DEF PutOriginal
<1>3. ASSUME NEW r \in Requests, NEW p \in Photos, ConfirmStart(r, p) PROVE Inductive'
  BY <1>3 DEF ConfirmStart
<1>4. ASSUME NEW r \in Requests, ConfirmSave(r) PROVE Inductive'
  BY <1>4 DEF ConfirmSave
<1>5. ASSUME NEW r \in Requests, ConfirmSaveFails(r) PROVE Inductive'
  BY <1>5 DEF ConfirmSaveFails, Idle
<1>6. ASSUME NEW r \in Requests, ConfirmAdd(r) PROVE Inductive'
  BY <1>6 DEF ConfirmAdd, AddJob, Idle
<1>7. ASSUME NEW r \in Requests, ConfirmAddFails(r) PROVE Inductive'
  BY <1>7 DEF ConfirmAddFails, Idle, Fault
<1>8. ASSUME NEW p \in Photos, Promote(p) PROVE Inductive'
  BY <1>8 DEF Promote
<1>9. ASSUME NEW p \in Photos, Stall(p) PROVE Inductive'
  BY <1>9 DEF Stall, Holds
<1>10. ASSUME NEW p \in Photos, Pick(p) PROVE Inductive'
  BY <1>10 DEF Pick, TooManyStalls
<1>11. ASSUME NEW p \in Photos, FailStalled(p) PROVE Inductive'
  BY <1>11 DEF FailStalled, TooManyStalls, OnFailed
<1>12. ASSUME NEW p \in Photos, MarkFailed(p) PROVE Inductive'
  BY <1>12 DEF MarkFailed
<1>13. ASSUME NEW p \in Photos, PublishFailed(p) PROVE Inductive'
  BY <1>13 DEF PublishFailed
<1>14. ASSUME GetOriginal PROVE Inductive'
  BY <1>14 DEF GetOriginal, At
<1>15. ASSUME NEW s \in Sizes, PutThumbnail(s) PROVE Inductive'
  <2> DEFINE w == worker.photo
             keys == worker.keys \cup {s}
  <2>1. /\ w \in Photos /\ worker.keys \subseteq Sizes
        /\ worker.pc = "put" /\ worker.lock \in BOOLEAN
    BY <1>15 DEF PutThumbnail, At
  <2>2. /\ bucket' = [bucket EXCEPT ![w] = @ \cup {s}]
        /\ worker' = [worker EXCEPT !.keys = keys, !.pc = IF keys = Sizes THEN "update" ELSE @]
        /\ UNCHANGED <<upload, photos, job, request, listener, emitted, faults>>
    BY <1>15 DEF PutThumbnail
  <2>3. worker' \in [pc : {"put", "update"}, photo : Photos, keys : SUBSET Sizes, lock : BOOLEAN]
    BY <2>1, <2>2
  <2>4. /\ worker'.photo = w /\ worker'.keys = keys /\ worker'.lock = worker.lock
        /\ worker'.pc = "update" => keys = Sizes
        /\ worker'.pc \in {"put", "update"}
    BY <2>1, <2>2
  <2>5. \A p \in Photos : bucket[p] \subseteq bucket'[p] /\ bucket'[p] \subseteq Sizes
    BY <2>1, <2>2
  <2>6. TypeOK'
    BY <2>2, <2>3, <2>1
  <2>7. WorkerInOrder'
    BY <2>1, <2>2, <2>4
  <2>8. ThumbnailsAreStored'
    BY <2>2, <2>5
  <2>9. RequestsInOrder' /\ JobHasBudget' /\ ListenerInOrder' /\ RowAndOriginalFirst'
    BY <2>2
  <2>10. FailedIsExhausted' /\ CompletedIsDone' /\ EventAfterCommit'
    BY <2>2
  <2> QED
    BY <2>6, <2>7, <2>8, <2>9, <2>10
<1>16. ASSUME UpdateRow PROVE Inductive'
  BY <1>16 DEF UpdateRow, At, MarkDone
<1>17. ASSUME PublishDone PROVE Inductive'
  BY <1>17 DEF PublishDone, At
<1>18. ASSUME Throw PROVE Inductive'
  BY <1>18 DEF Throw
<1>19. ASSUME LoseUpdateAck PROVE Inductive'
  <2>1. At("update") /\ MarkDone(worker.photo) /\ worker' = [worker EXCEPT !.pc = "thrown"]
        /\ UNCHANGED <<upload, bucket, job, request, listener, emitted>>
    BY <1>19 DEF LoseUpdateAck
  <2>2. TypeOK'
    BY <1>19 DEF LoseUpdateAck, At, MarkDone, Fault
  <2>3. WorkerInOrder'
    BY <2>1 DEF At, MarkDone
  <2>4. photos[worker.photo].status # "failed" /\ listener[worker.photo] = "none"
    BY <2>1 DEF At
  <2>5. RowAndOriginalFirst' /\ RequestsInOrder'
    BY <2>1 DEF At, MarkDone
  <2>6. ThumbnailsAreStored' /\ CompletedIsDone'
    BY <2>1 DEF At, MarkDone
  <2>7. FailedIsExhausted' /\ ListenerInOrder' /\ EventAfterCommit'
    BY <2>1, <2>4 DEF At, MarkDone
  <2>8. JobHasBudget'
    BY <2>1
  <2> QED
    BY <2>2, <2>3, <2>5, <2>6, <2>7, <2>8
<1>20. ASSUME Complete PROVE Inductive'
  BY <1>20 DEF Complete, At, Idle
<1>21. ASSUME Retry PROVE Inductive'
  BY <1>21 DEF Retry, At, OnFailed, Idle
<1>22. ASSUME GiveUp PROVE Inductive'
  BY <1>22 DEF GiveUp, At, OnFailed, Idle
<1>23. ASSUME DropResult PROVE Inductive'
  BY <1>23 DEF DropResult, At, Idle
<1>24. ASSUME LoseLock PROVE Inductive'
  <2>1. worker.pc # "idle" /\ worker' = [worker EXCEPT !.lock = FALSE]
        /\ UNCHANGED <<upload, photos, bucket, job, request, listener, emitted>>
    BY <1>24 DEF LoseLock
  <2>2. faults' \in 0..MaxFaults
    BY <1>24 DEF LoseLock, Fault
  <2>3. /\ worker' \in [pc : WorkerPc \ {"idle"}, photo : Photos, keys : SUBSET Sizes, lock : BOOLEAN]
        /\ worker'.pc = worker.pc /\ worker'.photo = worker.photo
        /\ worker'.keys = worker.keys /\ worker'.lock = FALSE
    BY <2>1
  <2>4. TypeOK'
    BY <2>1, <2>2, <2>3
  <2>5. WorkerInOrder'
    BY <2>1, <2>3
  <2> QED
    BY <2>1, <2>4, <2>5
<1>25. ASSUME Crash PROVE Inductive'
  BY <1>25 DEF Crash, Fault, Idle
<1>30. ASSUME UNCHANGED vars PROVE Inductive'
  BY <1>30 DEF vars
<1> QED
  BY <1>1, <1>2, <1>3, <1>4, <1>5, <1>6, <1>7, <1>8, <1>9, <1>10, <1>11, <1>12, <1>13, <1>14, <1>15, <1>16, <1>17, <1>18, <1>19, <1>20, <1>21, <1>22, <1>23, <1>24, <1>25, <1>30
     DEF Next, ConfirmStep, QueueStep, ListenerStep, ProcessStep

\* The inductive invariant holds in every state the server can reach.
THEOREM PipelineInvariant == Spec => []Inductive
<1> QED
  BY InitInductive, StepInductive, PTL DEF Spec

\* Every variable keeps its type: attempts, stalls and faults stay within their
\* bounds in particular.
THEOREM TypeCorrect == Spec => []TypeOK
<1>1. Inductive => TypeOK
  BY DEF Inductive
<1> QED
  BY <1>1, PipelineInvariant, PTL

\* The order of the upload protocol: original, then row, then job.
THEOREM OriginalThenRowThenJob == Spec => []RowAndOriginalFirst
<1>1. Inductive => RowAndOriginalFirst
  BY DEF Inductive
<1> QED
  BY <1>1, PipelineInvariant, PTL

\* No row ever names a thumbnail that is not in R2.
THEOREM NoDanglingThumbnail == Spec => []ThumbnailsAreStored
<1>1. Inductive => ThumbnailsAreStored
  BY DEF Inductive
<1> QED
  BY <1>1, PipelineInvariant, PTL

\* A row is marked failed only behind the job's last attempt.
THEOREM FailedOnlyWhenExhausted == Spec => []FailedIsExhausted
<1>1. Inductive => FailedIsExhausted
  BY DEF Inductive
<1> QED
  BY <1>1, PipelineInvariant, PTL

\* A completed job leaves a done row.
THEOREM CompletedLeavesDone == Spec => []CompletedIsDone
<1>1. Inductive => CompletedIsDone
  BY DEF Inductive
<1> QED
  BY <1>1, PipelineInvariant, PTL

\* An event tells what is committed.
THEOREM OutcomeIsCommitted == Spec => []EventAfterCommit
<1>1. Inductive => EventAfterCommit
  BY DEF Inductive
<1> QED
  BY <1>1, PipelineInvariant, PTL

-----------------------------------------------------------------------------
(* Action properties.                                                      *)

\* No step writes "done" over "failed": a process() that reaches its update has
\* a job that did not fail.
LEMMA UpdateNeverRevives ==
    ASSUME Inductive, At("update")
    PROVE  photos[worker.photo].status # "failed"
BY DEF Inductive, At, WorkerInOrder, FailedIsExhausted, TypeOK

\* Every step keeps a row's status or takes it further.
LEMMA StepAdvances ==
    Inductive /\ [Next]_vars => \A p \in Photos : Rank[photos'[p].status] >= Rank[photos[p].status]
<1> SUFFICES ASSUME Inductive, [Next]_vars, NEW q \in Photos
             PROVE  Rank[photos'[q].status] >= Rank[photos[q].status]
  OBVIOUS
<1> DEFINE Advances == Rank[photos'[q].status] >= Rank[photos[q].status]
<1>t. photos \in [Photos -> [status : Status \cup {"absent"}, thumbs : SUBSET Sizes]]
  BY DEF Inductive, TypeOK
<1>1. ASSUME UNCHANGED photos PROVE Advances
  BY <1>1, <1>t DEF Rank, Status
<1>2. ASSUME NEW r \in Requests, ConfirmSave(r) PROVE Advances
  BY <1>2, <1>t DEF ConfirmSave, Rank, Status
<1>3. ASSUME At("update"), MarkDone(worker.photo) PROVE Advances
  BY <1>3, <1>t, UpdateNeverRevives DEF MarkDone, Rank, Status
<1>4. ASSUME NEW p \in Photos, MarkFailed(p) PROVE Advances
  BY <1>4, <1>t DEF MarkFailed, Rank, Status
<1> QED
  BY <1>1, <1>2, <1>3, <1>4
     DEF Next, vars, ConfirmStep, QueueStep, ListenerStep, ProcessStep, CreatePresignedUploadUrl,
         PutOriginal, ConfirmStart, ConfirmSaveFails, ConfirmAdd, ConfirmAddFails, Promote, Stall, Pick,
         FailStalled, PublishFailed, GetOriginal, PutThumbnail, UpdateRow, PublishDone, Throw,
         LoseUpdateAck, Complete, Retry, GiveUp, DropResult, LoseLock, Crash

\* A row's status only advances, whatever is confirmed, retried or repeated.
THEOREM StatusAdvances == Spec => StatusOnlyAdvances
<1>1. Inductive /\ [Next]_vars =>
        [\A p \in Photos : Rank[photos'[p].status] >= Rank[photos[p].status]]_vars
  BY StepAdvances
<1> QED
  BY <1>1, PipelineInvariant, PTL DEF Spec, StatusOnlyAdvances

\* Every step keeps what a job has used up, and leaves a job that ended alone.
LEMMA StepRunsOnce ==
    Inductive /\ [Next]_vars =>
        \A p \in Photos :
            /\ job'[p].attempts >= job[p].attempts
            /\ job'[p].stalls >= job[p].stalls
            /\ job[p].state \in {"completed", "failed"} => job'[p] = job[p]
<1> SUFFICES ASSUME Inductive, [Next]_vars, NEW q \in Photos
             PROVE  /\ job'[q].attempts >= job[q].attempts
                    /\ job'[q].stalls >= job[q].stalls
                    /\ job[q].state \in {"completed", "failed"} => job'[q] = job[q]
  OBVIOUS
<1> DEFINE RunsOnce == /\ job'[q].attempts >= job[q].attempts
                       /\ job'[q].stalls >= job[q].stalls
                       /\ job[q].state \in {"completed", "failed"} => job'[q] = job[q]
<1>t. job \in [Photos -> [state : JobState, attempts : 0..MaxAttempts, stalls : 0..MaxStalled + 1]]
  BY DEF Inductive, TypeOK
<1>1. ASSUME UNCHANGED job PROVE RunsOnce
  BY <1>1, <1>t, PipelineAssumption
<1>2. ASSUME NEW r \in Requests, ConfirmAdd(r) PROVE RunsOnce
  BY <1>2, <1>t, PipelineAssumption DEF ConfirmAdd, AddJob
<1>3. ASSUME NEW p \in Photos, Promote(p) \/ Stall(p) \/ Pick(p) \/ FailStalled(p) PROVE RunsOnce
  BY <1>3, <1>t, PipelineAssumption DEF Promote, Stall, Pick, FailStalled
<1>4. ASSUME worker.pc # "idle", worker.lock PROVE job[worker.photo].state = "active"
  BY <1>4 DEF Inductive, WorkerInOrder
<1>5. ASSUME Complete \/ Retry \/ GiveUp PROVE RunsOnce
  BY <1>5, <1>4, <1>t, PipelineAssumption DEF Complete, Retry, GiveUp, At
<1> QED
  BY <1>1, <1>2, <1>3, <1>5
     DEF Next, vars, ConfirmStep, QueueStep, ListenerStep, ProcessStep, CreatePresignedUploadUrl,
         PutOriginal, ConfirmStart, ConfirmSave, ConfirmSaveFails, ConfirmAddFails, MarkFailed,
         PublishFailed, GetOriginal, PutThumbnail, UpdateRow, PublishDone, Throw, LoseUpdateAck,
         DropResult, LoseLock, Crash

\* A job's attempts and stalls are never reset and its end is final, however
\* often the photo is confirmed.
THEOREM JobsRunOnce == Spec => JobRunsOnce
<1>1. Inductive /\ [Next]_vars =>
        [\A p \in Photos :
            /\ job'[p].attempts >= job[p].attempts
            /\ job'[p].stalls >= job[p].stalls
            /\ job[p].state \in {"completed", "failed"} => job'[p] = job[p]]_vars
  BY StepRunsOnce
<1> QED
  BY <1>1, PipelineInvariant, PTL DEF Spec, JobRunsOnce

----------------------------------------------------------------------------
(* As long as no fault strikes, PhotoPipeline implements PhotoLifecycle:   *)
(* its initial state is an initial state of the lifecycle and each of its  *)
(* steps is a step of the lifecycle or leaves what readers see unchanged.  *)

\* Without faults no lock is lost, no job stalls, and no attempt follows the one
\* that wrote the row: what the queue knows of a job tells the status of its row.
Faultless ==
    /\ faults = 0
    /\ worker.pc # "idle" =>
        /\ worker.lock
        /\ worker.pc \in {"get", "put", "update", "thrown"} =>
             photos[worker.photo].status = "pending"
    /\ \A p \in Photos :
        /\ job[p].stalls = 0
        /\ job[p].state = "active" => worker.pc # "idle" /\ worker.photo = p
        /\ job[p].state = "none" => photos[p].status \in {"absent", "pending"}
        /\ job[p].state \in {"waiting", "delayed"} => photos[p].status = "pending"
        /\ job[p].state = "failed" => photos[p].status \in {"pending", "failed"}
        /\ listener[p] = "mark" => photos[p].status = "pending"
        /\ photos[p].thumbs # {} <=> photos[p].status = "done"
        /\ "done" \in emitted[p] => photos[p].status = "done"

\* Nothing has happened yet at the start, a fault neither.
LEMMA InitFaultless == Init => Faultless
BY DEF Init, Faultless, Idle

\* With the bound on faults at zero every step keeps that.
LEMMA StepFaultless ==
    ASSUME MaxFaults = 0, Inductive, Faultless, [Next]_vars
    PROVE  Faultless'
<1> USE PipelineAssumption
    DEF Inductive, TypeOK, Status, JobState, WorkerPc, RequestsInOrder, WorkerInOrder, Exists, FailedIsExhausted,
        RowAndOriginalFirst, Faultless
<1>0. ~Fault
  BY DEF Fault
<1>1. ASSUME NEW p \in Photos, CreatePresignedUploadUrl(p) PROVE Faultless'
  BY <1>1 DEF CreatePresignedUploadUrl
<1>2. ASSUME NEW p \in Photos, PutOriginal(p) PROVE Faultless'
  BY <1>2 DEF PutOriginal
<1>3. ASSUME NEW r \in Requests, NEW p \in Photos, ConfirmStart(r, p) PROVE Faultless'
  BY <1>3 DEF ConfirmStart
<1>4. ASSUME NEW r \in Requests, ConfirmSave(r) PROVE Faultless'
  BY <1>4 DEF ConfirmSave
<1>5. ASSUME NEW r \in Requests, ConfirmSaveFails(r) PROVE Faultless'
  BY <1>5 DEF ConfirmSaveFails, Idle
<1>6. ASSUME NEW r \in Requests, ConfirmAdd(r) PROVE Faultless'
  BY <1>6 DEF ConfirmAdd, AddJob, Idle
<1>7. ASSUME NEW p \in Photos, Promote(p) PROVE Faultless'
  BY <1>7 DEF Promote
<1>8. ASSUME NEW p \in Photos, Stall(p) PROVE Faultless'
  BY <1>8 DEF Stall, Holds
<1>9. ASSUME NEW p \in Photos, Pick(p) PROVE Faultless'
  BY <1>9 DEF Pick, TooManyStalls
<1>10. ASSUME NEW p \in Photos, FailStalled(p) PROVE Faultless'
  BY <1>10 DEF FailStalled, TooManyStalls, OnFailed
<1>11. ASSUME NEW p \in Photos, MarkFailed(p) PROVE Faultless'
  BY <1>11 DEF MarkFailed
<1>12. ASSUME NEW p \in Photos, PublishFailed(p) PROVE Faultless'
  BY <1>12 DEF PublishFailed
<1>13. ASSUME GetOriginal PROVE Faultless'
  BY <1>13 DEF GetOriginal, At
<1>14. ASSUME NEW s \in Sizes, PutThumbnail(s) PROVE Faultless'
  BY <1>14 DEF PutThumbnail, At
<1>15. ASSUME UpdateRow PROVE Faultless'
  BY <1>15 DEF UpdateRow, At, MarkDone
<1>16. ASSUME PublishDone PROVE Faultless'
  BY <1>16 DEF PublishDone, At
<1>17. ASSUME Throw PROVE Faultless'
  BY <1>17 DEF Throw
<1>18. ASSUME Complete PROVE Faultless'
  BY <1>18 DEF Complete, At, Idle
<1>19. ASSUME Retry PROVE Faultless'
  BY <1>19 DEF Retry, At, OnFailed, Idle
<1>20. ASSUME GiveUp PROVE Faultless'
  BY <1>20 DEF GiveUp, At, OnFailed, Idle
<1>21. ASSUME DropResult PROVE Faultless'
  BY <1>21 DEF DropResult, At, Idle
<1>30. ASSUME UNCHANGED vars PROVE Faultless'
  BY <1>30 DEF vars
<1> QED
  BY <1>0, <1>1, <1>2, <1>3, <1>4, <1>5, <1>6, <1>7, <1>8, <1>9, <1>10, <1>11, <1>12, <1>13, <1>14, <1>15, <1>16, <1>17, <1>18, <1>19, <1>20, <1>21, <1>30
     DEF Next, ConfirmStep, QueueStep, ListenerStep, ProcessStep, ConfirmAddFails, LoseUpdateAck, LoseLock, Crash

-----------------------------------------------------------------------------
(* The steps of the lifecycle.                                             *)

\* Without faults every step is one of the lifecycle, or one its readers do not see.
LEMMA StepRefines ==
    ASSUME MaxFaults = 0, Inductive, Faultless, [Next]_vars
    PROVE  [Lifecycle!Next]_(Lifecycle!lifecycle)
<1> USE DEF Lifecycle!lifecycle
<1>t. /\ photos \in [Photos -> [status : Status \cup {"absent"}, thumbs : SUBSET Sizes]]
      /\ emitted \in [Photos -> SUBSET {"done", "failed"}]
  BY DEF Inductive, TypeOK
<1>0. ~Fault
  BY DEF Fault, Faultless
<1>1. ASSUME UNCHANGED <<photos, emitted>> PROVE UNCHANGED Lifecycle!lifecycle
  BY <1>1
<1>2. ASSUME NEW r \in Requests, ConfirmSave(r) PROVE [Lifecycle!Next]_(Lifecycle!lifecycle)
  <2>1. PICK p \in Photos :
            photos' = [photos EXCEPT ![p].status = IF @ = "absent" THEN "pending" ELSE @]
    BY <1>2 DEF ConfirmSave, Inductive, TypeOK
  <2>2. UNCHANGED emitted
    BY <1>2 DEF ConfirmSave
  <2>3. CASE photos[p].status = "absent"
    <3>1. Lifecycle!Confirmed(p)
      BY <2>1, <2>2, <2>3, <1>t DEF Lifecycle!Confirmed
    <3> QED
      BY <3>1 DEF Lifecycle!Next
  <2>4. CASE photos[p].status # "absent"
    BY <2>1, <2>2, <2>4, <1>t
  <2> QED
    BY <2>3, <2>4
<1>3. ASSUME UpdateRow PROVE Lifecycle!Next
  <2>1. PICK p \in Photos :
            /\ photos[p].status = "pending"
            /\ photos' = [photos EXCEPT ![p] = [status |-> "done", thumbs |-> Sizes]]
            /\ UNCHANGED emitted
    BY <1>3 DEF UpdateRow, MarkDone, At, Inductive, TypeOK, WorkerInOrder, Faultless
  <2>2. [q \in Photos |-> photos'[q].status] = [[q \in Photos |-> photos[q].status] EXCEPT ![p] = "done"]
    BY <2>1, <1>t
  <2>3. [q \in Photos |-> photos'[q].thumbs # {}] = [[q \in Photos |-> photos[q].thumbs # {}] EXCEPT ![p] = TRUE]
    BY <2>1, <1>t, PipelineAssumption
  <2>4. Lifecycle!Done(p)
    BY <2>1, <2>2, <2>3 DEF Lifecycle!Done
  <2> QED
    BY <2>1, <2>4 DEF Lifecycle!Next
<1>4. ASSUME NEW p \in Photos, MarkFailed(p) PROVE Lifecycle!Next
  <2>1. photos[p].status = "pending" /\ photos[p].thumbs = {}
    BY <1>4 DEF MarkFailed, Faultless
  <2>2. Lifecycle!Failed(p)
    BY <1>4, <2>1, <1>t DEF MarkFailed, Lifecycle!Failed
  <2> QED
    BY <2>2 DEF Lifecycle!Next
<1>5. ASSUME PublishDone PROVE Lifecycle!Next
  <2> DEFINE p == worker.photo
  <2>1. p \in Photos /\ photos[p].status = "done"
    BY <1>5 DEF PublishDone, At, Inductive, TypeOK, WorkerInOrder
  <2>2. Lifecycle!Told(p)
    BY <1>5, <2>1, <1>t DEF PublishDone, Lifecycle!Told
  <2> QED
    BY <2>1, <2>2 DEF Lifecycle!Next
<1>6. ASSUME NEW p \in Photos, PublishFailed(p) PROVE Lifecycle!Next
  <2>1. photos[p].status = "failed"
    BY <1>6 DEF PublishFailed, Inductive, ListenerInOrder
  <2>2. Lifecycle!Told(p)
    BY <1>6, <2>1, <1>t DEF PublishFailed, Lifecycle!Told
  <2> QED
    BY <2>2 DEF Lifecycle!Next
<1> QED
  BY <1>0, <1>1, <1>2, <1>3, <1>4, <1>5, <1>6
     DEF Next, vars, ConfirmStep, QueueStep, ListenerStep, ProcessStep, CreatePresignedUploadUrl,
         PutOriginal, ConfirmStart, ConfirmSaveFails, ConfirmAdd, ConfirmAddFails, Promote, Stall, Pick,
         FailStalled, GetOriginal, PutThumbnail, Throw, LoseUpdateAck, Complete, Retry, GiveUp,
         DropResult, LoseLock, Crash

\* A row gets its thumbnails with the status "done", never before.
ThumbnailsComeLast ==
    \A p \in Photos : photos[p].status \in {"absent", "pending"} => photos[p].thumbs = {}

\* Both initial states show the reader the same empty table.
LEMMA InitRefines == Init => Lifecycle!Init /\ ThumbnailsComeLast
<1> SUFFICES ASSUME Init PROVE Lifecycle!Init /\ ThumbnailsComeLast
  OBVIOUS
<1>1. \A p \in Photos : photos[p].status = "absent" /\ (photos[p].thumbs # {}) = FALSE
  BY DEF Init
<1>2. emitted = [p \in Photos |-> {}]
  BY DEF Init
<1>3. ThumbnailsComeLast
  BY <1>1 DEF ThumbnailsComeLast
<1> QED
  BY <1>1, <1>2, <1>3, Zenon DEF Lifecycle!Init

\* Without faults the pipeline keeps the safety part of the lifecycle's promise:
\* done and failed are final, a failed photo shows no thumbnails, and the owner
\* is told only what the row says.
THEOREM RefinesLifecycle ==
    ASSUME MaxFaults = 0
    PROVE  Spec => Lifecycle!Safe
<1>1. Init => Lifecycle!Init
  BY InitRefines
<1>2. Init => Faultless
  BY InitFaultless
<1>3. Inductive /\ Inductive' /\ Faultless /\ [Next]_vars => Faultless'
  BY StepFaultless
<1>4. Inductive /\ Faultless /\ [Next]_vars => [Lifecycle!Next]_(Lifecycle!lifecycle)
  BY StepRefines
<1> QED
  BY <1>1, <1>2, <1>3, <1>4, PipelineInvariant, PTL DEF Spec, Lifecycle!Safe

-----------------------------------------------------------------------------
(* With any number of faults PhotoPipeline implements the lifecycle with   *)
(* one step added, FailedLate: crashes, lost locks and lost answers can    *)
(* take a done photo to failed, and nothing else a reader could see.       *)

\* The first state has no row, and only the update that writes "done" writes
\* thumbnails.
LEMMA StepThumbnails ==
    ASSUME Inductive, ThumbnailsComeLast, [Next]_vars
    PROVE  ThumbnailsComeLast'
<1>t. photos \in [Photos -> [status : Status \cup {"absent"}, thumbs : SUBSET Sizes]]
  BY DEF Inductive, TypeOK
<1>1. ASSUME UNCHANGED photos PROVE ThumbnailsComeLast'
  BY <1>1 DEF ThumbnailsComeLast
<1>2. ASSUME NEW r \in Requests, ConfirmSave(r) PROVE ThumbnailsComeLast'
  BY <1>2, <1>t DEF ConfirmSave, ThumbnailsComeLast
<1>3. ASSUME MarkDone(worker.photo) PROVE ThumbnailsComeLast'
  BY <1>3, <1>t DEF MarkDone, ThumbnailsComeLast
<1>4. ASSUME NEW p \in Photos, MarkFailed(p) PROVE ThumbnailsComeLast'
  BY <1>4, <1>t DEF MarkFailed, ThumbnailsComeLast
<1> QED
  BY <1>1, <1>2, <1>3, <1>4
     DEF Next, vars, ConfirmStep, QueueStep, ListenerStep, ProcessStep, CreatePresignedUploadUrl,
         PutOriginal, ConfirmStart, ConfirmSaveFails, ConfirmAdd, ConfirmAddFails, Promote, Stall, Pick,
         FailStalled, PublishFailed, GetOriginal, PutThumbnail, UpdateRow, PublishDone, Throw,
         LoseUpdateAck, Complete, Retry, GiveUp, DropResult, LoseLock, Crash

\* The steps of the weakened lifecycle.
LateNext == Lifecycle!Next \/ \E p \in Photos : Lifecycle!FailedLate(p)

\* The row a process() is about to update is pending, or done by an attempt
\* whose answer or lock was lost: writing it again changes nothing.
LEMMA UpdateRefines ==
    ASSUME Inductive, ThumbnailsComeLast, At("update"), MarkDone(worker.photo), UNCHANGED emitted
    PROVE  [LateNext]_(Lifecycle!lifecycle)
<1>t. photos \in [Photos -> [status : Status \cup {"absent"}, thumbs : SUBSET Sizes]]
  BY DEF Inductive, TypeOK
<1>1. PICK p \in Photos :
        /\ p = worker.photo
        /\ worker.keys = Sizes
        /\ job[p].state \in {"active", "waiting"}
  BY DEF At, Inductive, TypeOK, WorkerInOrder
<1>2. photos[p].status \in {"pending", "done"}
  BY <1>1, <1>t, UpdateNeverRevives DEF Inductive, RowAndOriginalFirst, Exists, Status
<1>3. photos' = [photos EXCEPT ![p] = [status |-> "done", thumbs |-> Sizes]]
  BY <1>1 DEF MarkDone
<1>4. CASE photos[p].status = "done"
  <2>1. photos[p] = [status |-> "done", thumbs |-> Sizes]
    BY <1>1, <1>4, <1>t DEF Inductive, ThumbnailsAreStored
  <2>2. UNCHANGED photos
    BY <2>1, <1>1, <1>3, <1>t
  <2> QED
    BY <2>2 DEF Lifecycle!lifecycle
<1>5. CASE photos[p].status = "pending"
  <2>1. [q \in Photos |-> photos'[q].status] = [[q \in Photos |-> photos[q].status] EXCEPT ![p] = "done"]
    BY <1>1, <1>3, <1>t
  <2>2. [q \in Photos |-> photos'[q].thumbs # {}] = [[q \in Photos |-> photos[q].thumbs # {}] EXCEPT ![p] = TRUE]
    BY <1>1, <1>3, <1>t, PipelineAssumption
  <2>3. Lifecycle!Done(p)
    BY <1>1, <1>5, <2>1, <2>2 DEF Lifecycle!Done
  <2> QED
    BY <1>1, <2>3 DEF LateNext, Lifecycle!Next
<1> QED
  BY <1>2, <1>4, <1>5

\* The listener marks a pending row, a done one (the late failure), or writes
\* "failed" once more.
LEMMA MarkRefines ==
    ASSUME Inductive, ThumbnailsComeLast, NEW p \in Photos, MarkFailed(p)
    PROVE  [LateNext]_(Lifecycle!lifecycle)
<1>t. photos \in [Photos -> [status : Status \cup {"absent"}, thumbs : SUBSET Sizes]]
  BY DEF Inductive, TypeOK
<1>1. photos' = [photos EXCEPT ![p].status = "failed"] /\ UNCHANGED emitted
  BY DEF MarkFailed
<1>2. photos[p].status # "absent"
  <2>1. job[p].state = "failed"
    BY DEF MarkFailed, Inductive, FailedIsExhausted
  <2> QED
    BY <2>1 DEF Inductive, RowAndOriginalFirst, Exists
<1>3. [q \in Photos |-> photos'[q].status] = [[q \in Photos |-> photos[q].status] EXCEPT ![p] = "failed"]
  BY <1>1, <1>t
<1>4. [q \in Photos |-> photos'[q].thumbs # {}] = [q \in Photos |-> photos[q].thumbs # {}]
  BY <1>1, <1>t
<1>5. CASE photos[p].status = "pending"
  <2>1. Lifecycle!Failed(p)
    BY <1>1, <1>3, <1>4, <1>5 DEF Lifecycle!Failed
  <2> QED
    BY <2>1 DEF LateNext, Lifecycle!Next
<1>6. CASE photos[p].status = "done"
  <2>1. Lifecycle!FailedLate(p)
    BY <1>1, <1>3, <1>4, <1>6 DEF Lifecycle!FailedLate
  <2> QED
    BY <2>1 DEF LateNext
<1>7. CASE photos[p].status = "failed"
  BY <1>1, <1>7, <1>t DEF Lifecycle!lifecycle
<1> QED
  BY <1>2, <1>5, <1>6, <1>7, <1>t DEF Status

\* Every step, of a fault too, is one of the weakened lifecycle, or one its
\* readers do not see.
LEMMA StepRefinesLate ==
    ASSUME Inductive, ThumbnailsComeLast, [Next]_vars
    PROVE  [LateNext]_(Lifecycle!lifecycle)
<1>t. /\ photos \in [Photos -> [status : Status \cup {"absent"}, thumbs : SUBSET Sizes]]
      /\ emitted \in [Photos -> SUBSET {"done", "failed"}]
  BY DEF Inductive, TypeOK
<1>1. ASSUME UNCHANGED <<photos, emitted>> PROVE UNCHANGED Lifecycle!lifecycle
  BY <1>1 DEF Lifecycle!lifecycle
<1>2. ASSUME NEW r \in Requests, ConfirmSave(r) PROVE [LateNext]_(Lifecycle!lifecycle)
  <2>1. PICK p \in Photos :
            photos' = [photos EXCEPT ![p].status = IF @ = "absent" THEN "pending" ELSE @]
    BY <1>2 DEF ConfirmSave, Inductive, TypeOK
  <2>2. UNCHANGED emitted
    BY <1>2 DEF ConfirmSave
  <2>3. CASE photos[p].status = "absent"
    <3>1. Lifecycle!Confirmed(p)
      BY <2>1, <2>2, <2>3, <1>t DEF Lifecycle!Confirmed
    <3> QED
      BY <3>1 DEF LateNext, Lifecycle!Next
  <2>4. CASE photos[p].status # "absent"
    BY <2>1, <2>2, <2>4, <1>t DEF Lifecycle!lifecycle
  <2> QED
    BY <2>3, <2>4
<1>3. ASSUME UpdateRow \/ LoseUpdateAck PROVE [LateNext]_(Lifecycle!lifecycle)
  BY <1>3, UpdateRefines DEF UpdateRow, LoseUpdateAck
<1>4. ASSUME NEW p \in Photos, MarkFailed(p) PROVE [LateNext]_(Lifecycle!lifecycle)
  BY <1>4, MarkRefines
<1>5. ASSUME PublishDone PROVE LateNext
  <2> DEFINE p == worker.photo
  <2>1. p \in Photos /\ photos[p].status = "done"
    BY <1>5 DEF PublishDone, At, Inductive, TypeOK, WorkerInOrder
  <2>2. Lifecycle!Told(p)
    BY <1>5, <2>1, <1>t DEF PublishDone, Lifecycle!Told
  <2> QED
    BY <2>1, <2>2 DEF LateNext, Lifecycle!Next
<1>6. ASSUME NEW p \in Photos, PublishFailed(p) PROVE LateNext
  <2>1. photos[p].status = "failed"
    BY <1>6 DEF PublishFailed, Inductive, ListenerInOrder
  <2>2. Lifecycle!Told(p)
    BY <1>6, <2>1, <1>t DEF PublishFailed, Lifecycle!Told
  <2> QED
    BY <2>2 DEF LateNext, Lifecycle!Next
<1> QED
  BY <1>1, <1>2, <1>3, <1>4, <1>5, <1>6
     DEF Next, vars, ConfirmStep, QueueStep, ListenerStep, ProcessStep, CreatePresignedUploadUrl,
         PutOriginal, ConfirmStart, ConfirmSaveFails, ConfirmAdd, ConfirmAddFails, Promote, Stall, Pick,
         FailStalled, GetOriginal, PutThumbnail, Throw, Complete, Retry, GiveUp, DropResult, LoseLock, Crash

\* However many faults strike, readers of the table and of the channel see the
\* lifecycle with late failures: pending before done, thumbnails with done and
\* kept from then on, failed final, and no word of a result before its row.
THEOREM RefinesLifecycleUnderFaults == Spec => Lifecycle!SafeUnderFaults
<1>1. Init => Lifecycle!Init /\ ThumbnailsComeLast
  BY InitRefines
<1>2. Inductive /\ ThumbnailsComeLast /\ [Next]_vars => ThumbnailsComeLast'
  BY StepThumbnails
<1>3. Inductive /\ ThumbnailsComeLast /\ [Next]_vars =>
        [Lifecycle!Next \/ \E p \in Photos : Lifecycle!FailedLate(p)]_(Lifecycle!lifecycle)
  BY StepRefinesLate DEF LateNext
<1> QED
  BY <1>1, <1>2, <1>3, PipelineInvariant, PTL DEF Spec, Lifecycle!SafeUnderFaults

=============================================================================
