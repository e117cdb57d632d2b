--------------------------- MODULE PhotoLifecycle ---------------------------
(***************************************************************************)
(* What photo processing promises to those who read the photos table and   *)
(* the owner's channel, as photo-processing.types.ts words it: a confirmed *)
(* photo is pending, becomes done with its thumbnails or failed without    *)
(* any, once and for good, and the owner is told which.                    *)
(***************************************************************************)
EXTENDS Naturals

CONSTANTS Photos

VARIABLES
    status,   \* processing_status, "absent" before the confirm
    hasUrls,  \* whether the thumbnail URLs of the list are there
    told      \* the statuses the owner has been told of

lifecycle == <<status, hasUrls, told>>

Init ==
    /\ status = [p \in Photos |-> "absent"]
    /\ hasUrls = [p \in Photos |-> FALSE]
    /\ told = [p \in Photos |-> {}]

\* Slip: the save of a confirm writes the default over whatever is there.
ConfirmedAgain(p) ==
    /\ status' = [status EXCEPT ![p] = "pending"]
    /\ UNCHANGED <<hasUrls, told>>

Confirmed(p) ==
    /\ status[p] = "absent"
    /\ status' = [status EXCEPT ![p] = "pending"]
    /\ UNCHANGED <<hasUrls, told>>

Done(p) ==
    /\ status[p] = "pending"
    /\ status' = [status EXCEPT ![p] = "done"]
    /\ hasUrls' = [hasUrls EXCEPT ![p] = TRUE]
    /\ UNCHANGED told

Failed(p) ==
    /\ status[p] = "pending"
    /\ status' = [status EXCEPT ![p] = "failed"]
    /\ UNCHANGED <<hasUrls, told>>

\* The photo was done when the last attempt of its job failed: what the attempt
\* that made it done wrote beside the status stays, its thumbnails and the word
\* of it.  Only a fault leads here (an answer of the database that got lost, a
\* lock that ran out).
FailedLate(p) ==
    /\ status[p] = "done"
    /\ status' = [status EXCEPT ![p] = "failed"]
    /\ UNCHANGED <<hasUrls, told>>

Told(p) ==
    /\ status[p] \in {"done", "failed"}
    /\ told' = [told EXCEPT ![p] = @ \cup {status[p]}]
    /\ UNCHANGED <<status, hasUrls>>

Next == \E p \in Photos : Confirmed(p) \/ Done(p) \/ Failed(p) \/ Told(p)

Fairness ==
    \A p \in Photos :
        /\ WF_lifecycle(Done(p) \/ Failed(p))
        /\ WF_lifecycle(Told(p))

Safe == Init /\ [][Next]_lifecycle

Spec == Safe /\ Fairness

\* What is left of the promise when faults strike: done may still turn to
\* failed, nothing else is taken back.
SafeUnderFaults == Init /\ [][Next \/ \E p \in Photos : FailedLate(p)]_lifecycle

=============================================================================
