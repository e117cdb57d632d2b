------------------------------- MODULE Shares -------------------------------
(***************************************************************************)
(* Shared links: the owner creates and cancels shares, visitors open their *)
(* links in a browser.  The module follows SharesService from the token to *)
(* the answer, and the share page of apps/web from the answer to what the  *)
(* visitor sees.  What an open share's photos cost is in StripCache.       *)
(*                                                                         *)
(* One action per await point.  Time is a counter whose unit is of no      *)
(* matter; tokens are few, so that two may be drawn alike.                 *)
(*                                                                         *)
(* A definition marked "Slip" is no part of Next: it is a plausible bug in *)
(* the definition that follows, and shows which property catches it.       *)
(***************************************************************************)
EXTENDS Integers

CONSTANTS
    Ids,        \* share ids
    Tokens,     \* what nanoid draws
    Visitors,   \* browser tabs
    None,       \* no token, no share, no time
    MaxTries,   \* draws of generateUniqueToken
    Throttle,   \* SHARE_VIEWED_THROTTLE_MS
    MaxTime,    \* bound on the clock
    MaxFaults   \* bound on crashes and answers that fail

ASSUME SharesAssumption ==
    /\ None \notin Ids \cup Tokens \cup Nat
    /\ MaxTries \in Nat \ {0}
    /\ Throttle \in Nat \ {0}
    /\ MaxTime \in Nat
    /\ MaxFaults \in Nat

VARIABLES
    now,
    shares,   \* the shares table; a cancelled row is gone, and kept here as history
    create,   \* createShare calls in flight, by the id their row will get
    tab,      \* what a visitor's browser shows, of which link; share is history:
              \* the row the page was made from
    request,  \* the server's work on the request of a tab
    lastViewedEmit, \* the throttle's map, in memory
    viewed,   \* history: times of the share.viewed events since the server started
    faults

vars == <<now, shares, create, tab, request, lastViewedEmit, viewed, faults>>

Time == 0..MaxTime
View == {"none", "loading", "locked", "unlocking", "open", "expired", "notFound", "error"}
Answers == {"open", "locked", "refused", "missing", "gone", "failed"}

NoRow == [state |-> "none", token |-> None, expiresAt |-> None, locked |-> FALSE, cancelledAt |-> None]
NoCreate == [pc |-> "idle", tries |-> 0, token |-> None]
NoTab == [view |-> "none", token |-> None, share |-> None, askedAt |-> 0, answer |-> None]
NoRequest == [pc |-> "idle", share |-> None, right |-> FALSE, answer |-> None]

Row == [state : {"none", "active", "cancelled"}, token : Tokens \cup {None},
        expiresAt : Time \cup {None}, locked : BOOLEAN, cancelledAt : Time \cup {None}]
Create == [pc : {"idle", "lookup", "save"}, tries : 0..MaxTries - 1, token : Tokens \cup {None}]
Tab == [view : View, token : Tokens \cup {None}, share : Ids \cup {None},
        askedAt : Time, answer : Answers \cup {None}]
Request == [pc : {"idle", "find", "compare", "build", "answered"},
            share : Ids \cup {None}, right : BOOLEAN, answer : Answers \cup {None}]

TypeOK ==
    /\ now \in Time
    /\ shares \in [Ids -> Row]
    /\ create \in [Ids -> Create]
    /\ tab \in [Visitors -> Tab]
    /\ request \in [Visitors -> Request]
    /\ lastViewedEmit \in [Ids -> Time \cup {None}]
    /\ viewed \in [Ids -> SUBSET Time]
    /\ faults \in 0..MaxFaults

Init ==
    /\ now = 0
    /\ shares = [s \in Ids |-> NoRow]
    /\ create = [s \in Ids |-> NoCreate]
    /\ tab = [v \in Visitors |-> NoTab]
    /\ request = [v \in Visitors |-> NoRequest]
    /\ lastViewedEmit = [s \in Ids |-> None]
    /\ viewed = [s \in Ids |-> {}]
    /\ faults = 0

Fault == faults < MaxFaults /\ faults' = faults + 1

Tick ==
    /\ now < MaxTime
    /\ now' = now + 1
    /\ UNCHANGED <<shares, create, tab, request, lastViewedEmit, viewed, faults>>

-----------------------------------------------------------------------------
(* The owner.  A target that is not the owner's ends a create before it    *)
(* draws a token, and changes nothing.                                     *)

Holders(token) == {s \in Ids : shares[s].state = "active" /\ shares[s].token = token}

CreateShare(s) ==
    /\ shares[s].state = "none"
    /\ create[s].pc = "idle"
    /\ create' = [create EXCEPT ![s].pc = "lookup"]
    /\ UNCHANGED <<now, shares, tab, request, lastViewedEmit, viewed, faults>>

\* generateUniqueToken: a token that is free is taken to the save.
DrawFree(s, token) ==
    /\ create[s].pc = "lookup"
    /\ Holders(token) = {}
    /\ create' = [create EXCEPT ![s] = [pc |-> "save", tries |-> 0, token |-> token]]
    /\ UNCHANGED <<now, shares, tab, request, lastViewedEmit, viewed, faults>>

\* A token that is held is drawn again; after the last try the create answers 409.
DrawTaken(s, token) ==
    /\ create[s].pc = "lookup"
    /\ Holders(token) # {}
    /\ create' = IF create[s].tries + 1 < MaxTries
                 THEN [create EXCEPT ![s].tries = @ + 1]
                 ELSE [create EXCEPT ![s] = NoCreate]
    /\ UNCHANGED <<now, shares, tab, request, lastViewedEmit, viewed, faults>>

Insert(s, expiresAt, locked) ==
    /\ shares' = [shares EXCEPT ![s] = [state |-> "active", token |-> create[s].token,
                                        expiresAt |-> expiresAt, locked |-> locked, cancelledAt |-> None]]
    /\ create' = [create EXCEPT ![s] = NoCreate]
    /\ UNCHANGED <<now, tab, request, lastViewedEmit, viewed, faults>>

\* Slip: the token column has no unique index.
SaveUnindexed(s, expiresAt, locked) ==
    /\ create[s].pc = "save"
    /\ Insert(s, expiresAt, locked)

\* shareRepo.save, after the password is hashed.
Save(s, expiresAt, locked) ==
    /\ create[s].pc = "save"
    /\ Holders(create[s].token) = {}
    /\ Insert(s, expiresAt, locked)

\* The unique index, or a database out of reach, refuses the row: a 500, outside
\* the loop that draws again.
SaveFails(s) ==
    /\ create[s].pc = "save"
    /\ create' = [create EXCEPT ![s] = NoCreate]
    /\ UNCHANGED <<now, shares, tab, request, lastViewedEmit, viewed, faults>>

\* deleteShare: the row is looked up and deleted by its id; a second delete in
\* between finds nothing to delete and answers the same.
DeleteShare(s) ==
    /\ shares[s].state = "active"
    /\ shares' = [shares EXCEPT ![s] = [@ EXCEPT !.state = "cancelled", !.cancelledAt = now]]
    /\ UNCHANGED <<now, create, tab, request, lastViewedEmit, viewed, faults>>

-----------------------------------------------------------------------------
(* The visitor asks: the share page, or the unlock form of a locked one.   *)

Ask(v, view, token, share, right) ==
    /\ request[v].pc = "idle"
    /\ tab' = [tab EXCEPT ![v] = [view |-> view, token |-> token, share |-> share,
                                  askedAt |-> now, answer |-> None]]
    /\ request' = [request EXCEPT ![v] = [pc |-> "find", share |-> None, right |-> right, answer |-> None]]
    /\ UNCHANGED <<now, shares, create, lastViewedEmit, viewed, faults>>

\* Opens the link of a share, or reloads; a link lives on in a browser when its
\* share is gone.
OpenLink(v, s) ==
    /\ shares[s].state # "none"
    /\ Ask(v, "loading", shares[s].token, None, FALSE)

Submit(v, right) ==
    /\ tab[v].view = "locked"
    /\ Ask(v, "unlocking", tab[v].token, tab[v].share, right)

-----------------------------------------------------------------------------
(* findPublicByToken and unlockShare.                                      *)

Answer(v, share, answer) ==
    request' = [request EXCEPT ![v] = [pc |-> "answered", share |-> share, right |-> FALSE, answer |-> answer]]

\* Slip: the unlock trusts the share its locked page was made from.
FoundRemembered(v) ==
    IF tab[v].view = "unlocking" THEN {tab[v].share} ELSE Holders(tab[v].token)

\* findActiveShareOrThrow: the row of the token, read anew for each request ...
Found(v) == Holders(tab[v].token)

Asking(v) == request[v].pc = "find"

FindMissing(v) ==
    /\ Asking(v)
    /\ Found(v) = {}
    /\ Answer(v, None, "missing")
    /\ UNCHANGED <<now, shares, create, tab, lastViewedEmit, viewed, faults>>

\* ... and its expiry.
Expired(s) == shares[s].expiresAt # None /\ shares[s].expiresAt < now

FindExpired(v) ==
    /\ Asking(v)
    /\ \E s \in Found(v) : Expired(s) /\ Answer(v, s, "gone")
    /\ UNCHANGED <<now, shares, create, tab, lastViewedEmit, viewed, faults>>

FindLocked(v) ==
    /\ Asking(v)
    /\ \E s \in Found(v) :
        /\ ~Expired(s)
        /\ shares[s].locked
        /\ IF tab[v].view = "loading"
           THEN Answer(v, s, "locked")
           ELSE request' = [request EXCEPT ![v].pc = "compare", ![v].share = s]
    /\ UNCHANGED <<now, shares, create, tab, lastViewedEmit, viewed, faults>>

\* Slip: the time is noted for visits that send no event too.
EmitSliding(s) ==
    /\ lastViewedEmit' = [lastViewedEmit EXCEPT ![s] = now]
    /\ viewed' = IF lastViewedEmit[s] # None /\ now - lastViewedEmit[s] < Throttle
                 THEN viewed
                 ELSE [viewed EXCEPT ![s] = @ \cup {now}]

\* Slip: no throttle.
EmitAlways(s) ==
    /\ lastViewedEmit' = [lastViewedEmit EXCEPT ![s] = now]
    /\ viewed' = [viewed EXCEPT ![s] = @ \cup {now}]

\* emitViewedIfNeeded: one event within the interval.
EmitViewedIfNeeded(s) ==
    IF lastViewedEmit[s] # None /\ now - lastViewedEmit[s] < Throttle
    THEN UNCHANGED <<lastViewedEmit, viewed>>
    ELSE /\ lastViewedEmit' = [lastViewedEmit EXCEPT ![s] = now]
         /\ viewed' = [viewed EXCEPT ![s] = @ \cup {now}]

\* The event goes out first, then the page is built.
Build(v, s) ==
    /\ EmitViewedIfNeeded(s)
    /\ request' = [request EXCEPT ![v].pc = "build", ![v].share = s]

FindOpen(v) ==
    /\ Asking(v)
    /\ \E s \in Found(v) : ~Expired(s) /\ ~shares[s].locked /\ Build(v, s)
    /\ UNCHANGED <<now, shares, create, tab, faults>>

\* bcrypt.compare, with what was read before it.
Match(v) ==
    /\ request[v].pc = "compare"
    /\ request[v].right
    /\ Build(v, request[v].share)
    /\ UNCHANGED <<now, shares, create, tab, faults>>

Refuse(v) ==
    /\ request[v].pc = "compare"
    /\ ~request[v].right
    /\ Answer(v, request[v].share, "refused")
    /\ UNCHANGED <<now, shares, create, tab, lastViewedEmit, viewed, faults>>

\* buildOpenResponse.
BuildOpenResponse(v) ==
    /\ request[v].pc = "build"
    /\ Answer(v, request[v].share, "open")
    /\ UNCHANGED <<now, shares, create, tab, lastViewedEmit, viewed, faults>>

\* The database or R2 refuses on the way: a 500.
AnswerFails(v) ==
    /\ request[v].pc \in {"find", "compare", "build"}
    /\ Fault
    /\ Answer(v, None, "failed")
    /\ UNCHANGED <<now, shares, create, tab, lastViewedEmit, viewed>>

\* The server stops and starts again: connections break, the map is empty.
Crash ==
    /\ Fault
    /\ create' = [s \in Ids |-> NoCreate]
    /\ request' = [v \in Visitors |->
                     IF request[v].pc \in {"find", "compare", "build"}
                     THEN [pc |-> "answered", share |-> None, right |-> FALSE, answer |-> "failed"]
                     ELSE request[v]]
    /\ lastViewedEmit' = [s \in Ids |-> None]
    /\ viewed' = [s \in Ids |-> {}]
    /\ UNCHANGED <<now, shares, tab>>

-----------------------------------------------------------------------------
(* The answer reaches the browser.                                         *)

Show(v, view) ==
    /\ tab' = [tab EXCEPT ![v] = [@ EXCEPT !.view = view, !.answer = request[v].answer,
                    !.share = IF request[v].share = None THEN tab[v].share ELSE request[v].share]]
    /\ request' = [request EXCEPT ![v] = NoRequest]
    /\ UNCHANGED <<now, shares, create, lastViewedEmit, viewed, faults>>

\* page.tsx: an answer without data is "not found", whatever its status.
PageFor == [open |-> "open", locked |-> "locked", missing |-> "notFound", gone |-> "notFound", failed |-> "error"]

ReceivePage(v) ==
    /\ request[v].pc = "answered"
    /\ tab[v].view = "loading"
    /\ Show(v, PageFor[request[v].answer])

\* Slip: the form stays disabled behind a wrong password.
FormDisabled == [open |-> "open", refused |-> "unlocking", failed |-> "locked",
                 missing |-> "unlocking", gone |-> "unlocking"]

\* LockedView: a wrong password and a failure give the form back; nothing is done
\* about the other answers.
FormFor == [open |-> "open", refused |-> "locked", failed |-> "locked",
            missing |-> "unlocking", gone |-> "unlocking"]

ReceiveUnlock(v) ==
    /\ request[v].pc = "answered"
    /\ tab[v].view = "unlocking"
    /\ Show(v, FormFor[request[v].answer])

-----------------------------------------------------------------------------

OwnerStep(s) ==
    \/ CreateShare(s)
    \/ \E token \in Tokens : DrawFree(s, token) \/ DrawTaken(s, token)
    \/ \E expiresAt \in Time \cup {None}, locked \in BOOLEAN : Save(s, expiresAt, locked)
    \/ SaveFails(s)
    \/ DeleteShare(s)

AskStep(v) == (\E s \in Ids : OpenLink(v, s)) \/ (\E right \in BOOLEAN : Submit(v, right))

ServerStep(v) ==
    FindMissing(v) \/ FindExpired(v) \/ FindLocked(v) \/ FindOpen(v) \/ Match(v) \/ Refuse(v) \/ BuildOpenResponse(v)

ReceiveStep(v) == ReceivePage(v) \/ ReceiveUnlock(v)

Next ==
    \/ Tick
    \/ \E s \in Ids : OwnerStep(s)
    \/ \E v \in Visitors : AskStep(v) \/ ServerStep(v) \/ AnswerFails(v) \/ ReceiveStep(v)
    \/ Crash

Spec == Init /\ [][Next]_vars

\* The server works on what it was asked and the answer arrives.
Fairness == \A v \in Visitors : WF_vars(ServerStep(v)) /\ WF_vars(ReceiveStep(v))

FairSpec == Spec /\ Fairness

-----------------------------------------------------------------------------
(* Properties.                                                             *)

\* Two creates may find the same token free and save it; all the same no two
\* active shares ever answer to one link (generateUniqueToken, the unique index).
TokensAreUnique ==
    \A s, t \in Ids : shares[s].state = "active" /\ t \in Holders(shares[s].token) => s = t

AskedInTime(v, s) ==
    /\ s \in Ids
    /\ shares[s].state # "none"
    /\ shares[s].expiresAt = None \/ tab[v].askedAt <= shares[s].expiresAt
    /\ shares[s].cancelledAt = None \/ tab[v].askedAt <= shares[s].cancelledAt

\* What a visitor sees opened was asked for while its share was alive: a locked page
\* loaded in time does not unlock a share that has expired or was cancelled by the
\* time the password is sent (findActiveShareOrThrow before each answer).
GoneStaysGone == \A v \in Visitors : tab[v].view = "open" => AskedInTime(v, tab[v].share)

\* The throttle leaves no visit untold: behind every page that is built there is an
\* event from less than the interval before it was asked for, or a later one,
\* whatever other visitors and restarts did to the map (emitViewedIfNeeded).
EveryVisitIsTold ==
    \A v \in Visitors : request[v].pc = "build" =>
        \E e \in viewed[request[v].share] : e + Throttle > tab[v].askedAt

\* Within one life of the server the owner gets the events of a share at least the
\* interval apart (SHARE_VIEWED_THROTTLE_MS).
ViewedIsThrottled ==
    \A s \in Ids : \A d, e \in viewed[s] : d < e => d + Throttle <= e

Unlocking(v) == tab[v].view = "unlocking"

Alive(v) == shares[tab[v].share].state = "active" /\ ~Expired(tab[v].share)

\* The form of a share that stays alive is given back or opens, whatever the
\* password and the failures on the way (handleSubmit of LockedView).
UnlockEndsWhileAlive ==
    \A v \in Visitors : Unlocking(v) ~> (~Unlocking(v) \/ ~Alive(v))

\* A visitor whose link has expired is told so: "410 -> notice of expiry" (page.tsx).
\* The code does not: the page shows "not found", the form stays disabled.
ExpiredIsTold == \A v \in Visitors : tab[v].answer = "gone" => tab[v].view = "expired"

-----------------------------------------------------------------------------
(* The invariant behind the safety properties.                             *)

RowsInOrder ==
    \A s \in Ids :
        /\ shares[s].state = "active" => shares[s].cancelledAt = None
        /\ create[s].pc # "idle" => shares[s].state = "none"

EventsInOrder ==
    \A s \in Ids :
        /\ lastViewedEmit[s] # None => lastViewedEmit[s] \in viewed[s] /\ lastViewedEmit[s] <= now
        /\ \A e \in viewed[s] : lastViewedEmit[s] # None /\ e <= lastViewedEmit[s]

RequestInOrder(v) ==
    /\ tab[v].askedAt <= now
    /\ request[v].pc # "idle" => tab[v].view \in {"loading", "unlocking"}
    /\ request[v].pc = "compare" => tab[v].view = "unlocking"
    /\ request[v].pc \in {"compare", "build"} => AskedInTime(v, request[v].share)
    /\ request[v].pc = "answered" =>
        /\ request[v].answer \in IF tab[v].view = "loading" THEN DOMAIN PageFor ELSE DOMAIN FormFor
        /\ request[v].answer = "open" => AskedInTime(v, request[v].share)

RequestsInOrder == \A v \in Visitors : RequestInOrder(v)

\* Between the row a request has read and its answer nothing is forgotten: what was
\* found in time is what is opened, and the throttle's map is the last of the events.
Inductive ==
    /\ TypeOK
    /\ RowsInOrder
    /\ EventsInOrder
    /\ RequestsInOrder
    /\ TokensAreUnique
    /\ GoneStaysGone
    /\ EveryVisitIsTold
    /\ ViewedIsThrottled

=============================================================================
