---------------------------- MODULE SharesProofs ----------------------------
(***************************************************************************)
(* Shares keeps its links unique, opens none that was gone before it was   *)
(* asked for, and tells the owner of every visit, throttled: for any       *)
(* shares, tokens, visitors, tries and interval.                           *)
(***************************************************************************)
EXTENDS Shares, TLAPS

\* No rows, no requests, no events.
LEMMA InitInductive == Init => Inductive
BY SharesAssumption
   DEF Init, Inductive, TypeOK, Time, View, Answers, Row, Create, Tab, Request, NoRow, NoCreate, NoTab, NoRequest, RowsInOrder,
       EventsInOrder, RequestsInOrder, RequestInOrder, TokensAreUnique, Holders, GoneStaysGone, EveryVisitIsTold, ViewedIsThrottled

\* Every step keeps the types: the tries stay below their bound, and each answer
\* is one its page or form knows what to do with.
LEMMA StepTypes == Inductive /\ [Next]_vars => TypeOK'
<1> SUFFICES ASSUME Inductive, [Next]_vars PROVE TypeOK'
  OBVIOUS
<1>t. TypeOK
  BY DEF Inductive
<1>1. ASSUME Tick PROVE TypeOK'
  BY <1>1, <1>t, SharesAssumption DEF Tick, TypeOK, Time
<1>2. ASSUME NEW s \in Ids, NEW new \in Create, create' = [create EXCEPT ![s] = new],
             UNCHANGED <<now, shares, tab, request, lastViewedEmit, viewed, faults>>
      PROVE  TypeOK'
  BY <1>2, <1>t DEF TypeOK
<1>3. ASSUME NEW s \in Ids, CreateShare(s) PROVE TypeOK'
  <2>1. [create[s] EXCEPT !.pc = "lookup"] \in Create
    BY <1>t DEF TypeOK, Create
  <2>2. create' = [create EXCEPT ![s] = [create[s] EXCEPT !.pc = "lookup"]]
    BY <1>3, <1>t DEF CreateShare, TypeOK
  <2> QED
    BY <1>2, <1>3, <2>1, <2>2 DEF CreateShare
<1>4. NoCreate \in Create
  BY SharesAssumption DEF NoCreate, Create
<1>5. ASSUME NEW s \in Ids, NEW token \in Tokens, DrawFree(s, token) PROVE TypeOK'
  <2>1. [pc |-> "save", tries |-> 0, token |-> token] \in Create
    BY SharesAssumption DEF Create
  <2> QED
    BY <1>2, <1>5, <2>1 DEF DrawFree
<1>6. ASSUME NEW s \in Ids, NEW token \in Tokens, DrawTaken(s, token) PROVE TypeOK'
  <2>1. CASE create[s].tries + 1 < MaxTries
    <3>1. [create[s] EXCEPT !.tries = create[s].tries + 1] \in Create
      BY <1>t, <2>1, SharesAssumption DEF TypeOK, Create
    <3>2. create' = [create EXCEPT ![s] = [create[s] EXCEPT !.tries = create[s].tries + 1]]
      BY <1>6, <1>t, <2>1 DEF DrawTaken, TypeOK
    <3> QED
      BY <1>2, <1>6, <3>1, <3>2 DEF DrawTaken
  <2> QED
    BY <1>2, <1>4, <1>6, <2>1 DEF DrawTaken
<1>7. ASSUME NEW s \in Ids, NEW expiresAt \in Time \cup {None}, NEW locked \in BOOLEAN,
             Save(s, expiresAt, locked)
      PROVE  TypeOK'
  <2>1. [state |-> "active", token |-> create[s].token, expiresAt |-> expiresAt, locked |-> locked,
         cancelledAt |-> None] \in Row
    BY <1>t DEF TypeOK, Row, Create
  <2> QED
    BY <1>4, <1>7, <1>t, <2>1 DEF Save, Insert, TypeOK
<1>8. ASSUME NEW s \in Ids, SaveFails(s) PROVE TypeOK'
  BY <1>2, <1>4, <1>8 DEF SaveFails
<1>9. ASSUME NEW s \in Ids, DeleteShare(s) PROVE TypeOK'
  <2>1. [shares[s] EXCEPT !.state = "cancelled", !.cancelledAt = now] \in Row
    BY <1>t DEF TypeOK, Row
  <2> QED
    BY <1>9, <1>t, <2>1 DEF DeleteShare, TypeOK
<1>10. ASSUME NEW v \in Visitors, NEW view \in View, NEW token \in Tokens \cup {None},
              NEW share \in Ids \cup {None}, NEW right \in BOOLEAN, Ask(v, view, token, share, right)
       PROVE  TypeOK'
  <2>1. [pc |-> "find", share |-> None, right |-> right, answer |-> None] \in Request
    BY DEF Request
  <2>2. [view |-> view, token |-> token, share |-> share, askedAt |-> now, answer |-> None] \in Tab
    BY <1>t DEF TypeOK, Tab
  <2> QED
    BY <1>10, <1>t, <2>1, <2>2 DEF Ask, TypeOK
<1>11. ASSUME NEW v \in Visitors, AskStep(v) PROVE TypeOK'
  <2>1. ASSUME NEW s \in Ids, OpenLink(v, s) PROVE TypeOK'
    <3>1. "loading" \in View /\ shares[s].token \in Tokens \cup {None}
      BY <1>t DEF TypeOK, View, Row
    <3> QED
      BY <1>10, <2>1, <3>1 DEF OpenLink
  <2>2. ASSUME NEW right \in BOOLEAN, Submit(v, right) PROVE TypeOK'
    <3>1. "unlocking" \in View /\ tab[v].token \in Tokens \cup {None} /\ tab[v].share \in Ids \cup {None}
      BY <1>t DEF TypeOK, View, Tab
    <3> QED
      BY <1>10, <2>2, <3>1 DEF Submit
  <2> QED
    BY <1>11, <2>1, <2>2 DEF AskStep
<1>12. ASSUME NEW v \in Visitors, NEW new \in Request, request' = [request EXCEPT ![v] = new],
              faults' \in 0..MaxFaults, UNCHANGED <<now, shares, create, tab, lastViewedEmit, viewed>>
       PROVE  TypeOK'
  BY <1>12, <1>t DEF TypeOK
<1>13. faults \in 0..MaxFaults
  BY <1>t DEF TypeOK
<1>14. ASSUME NEW v \in Visitors, NEW share \in Ids \cup {None}, NEW answer \in Answers,
              Answer(v, share, answer), faults' \in 0..MaxFaults,
              UNCHANGED <<now, shares, create, tab, lastViewedEmit, viewed>>
       PROVE  TypeOK'
  <2>1. [pc |-> "answered", share |-> share, right |-> FALSE, answer |-> answer] \in Request
    BY DEF Request
  <2> QED
    BY <1>12, <1>14, <2>1 DEF Answer
<1>15. {"open", "locked", "refused", "missing", "gone", "failed"} = Answers
  BY DEF Answers
<1>16. ASSUME NEW v \in Visitors, FindMissing(v) PROVE TypeOK'
  BY <1>13, <1>14, <1>15, <1>16 DEF FindMissing
<1>17. ASSUME NEW v \in Visitors, FindExpired(v) PROVE TypeOK'
  BY <1>13, <1>14, <1>15, <1>17 DEF FindExpired, Found, Holders
<1>18. ASSUME NEW v \in Visitors, FindLocked(v) PROVE TypeOK'
  <2>1. PICK s \in Ids : IF tab[v].view = "loading"
                         THEN Answer(v, s, "locked")
                         ELSE request' = [request EXCEPT ![v].pc = "compare", ![v].share = s]
    BY <1>18 DEF FindLocked, Found, Holders
  <2>2. CASE Answer(v, s, "locked")
    BY <1>13, <1>14, <1>15, <1>18, <2>2 DEF FindLocked
  <2>3. CASE request' = [request EXCEPT ![v].pc = "compare", ![v].share = s]
    <3>1. [request[v] EXCEPT !.pc = "compare", !.share = s] \in Request
      BY <1>t DEF TypeOK, Request
    <3>2. request' = [request EXCEPT ![v] = [request[v] EXCEPT !.pc = "compare", !.share = s]]
      BY <1>t, <2>3 DEF TypeOK
    <3> QED
      BY <1>12, <1>13, <1>18, <3>1, <3>2 DEF FindLocked
  <2> QED
    BY <2>1, <2>2, <2>3
<1>19. ASSUME NEW v \in Visitors, NEW s \in Ids, Build(v, s), UNCHANGED <<now, shares, create, tab, faults>>
       PROVE  TypeOK'
  <2>1. /\ lastViewedEmit' \in [Ids -> Time \cup {None}]
        /\ viewed' \in [Ids -> SUBSET Time]
    <3>1. now \in Time
      BY <1>t DEF TypeOK
    <3>2. CASE UNCHANGED <<lastViewedEmit, viewed>>
      BY <3>2, <1>t DEF TypeOK
    <3>3. CASE /\ lastViewedEmit' = [lastViewedEmit EXCEPT ![s] = now]
               /\ viewed' = [viewed EXCEPT ![s] = @ \cup {now}]
      BY <3>1, <3>3, <1>t DEF TypeOK
    <3> QED
      BY <1>19, <3>2, <3>3 DEF Build, EmitViewedIfNeeded
  <2>2. [request[v] EXCEPT !.pc = "build", !.share = s] \in Request
    BY <1>t DEF TypeOK, Request
  <2>3. request' = [request EXCEPT ![v] = [request[v] EXCEPT !.pc = "build", !.share = s]]
    BY <1>19, <1>t DEF Build, TypeOK
  <2> QED
    BY <1>19, <1>t, <2>1, <2>2, <2>3 DEF TypeOK
<1>20. ASSUME NEW v \in Visitors, FindOpen(v) PROVE TypeOK'
  <2>1. PICK s \in Found(v) : Build(v, s)
    BY <1>20 DEF FindOpen
  <2> QED
    BY <1>19, <1>20, <2>1 DEF FindOpen, Found, Holders
<1>21. ASSUME NEW v \in Visitors, Match(v) PROVE TypeOK'
  <2>1. request[v].share \in Ids
    BY <1>21 DEF Match, Inductive, RequestsInOrder, RequestInOrder, AskedInTime
  <2> QED
    BY <1>19, <1>21, <2>1 DEF Match
<1>22. ASSUME NEW v \in Visitors, Refuse(v) \/ BuildOpenResponse(v) PROVE TypeOK'
  <2>1. request[v].share \in Ids \cup {None}
    BY <1>t DEF TypeOK, Request
  <2> QED
    BY <1>13, <1>14, <1>15, <1>22, <2>1 DEF Refuse, BuildOpenResponse
<1>23. ASSUME NEW v \in Visitors, AnswerFails(v) PROVE TypeOK'
  <2>1. faults' \in 0..MaxFaults
    BY <1>23, <1>t, SharesAssumption DEF AnswerFails, Fault, TypeOK
  <2> QED
    BY <1>14, <1>15, <1>23, <2>1 DEF AnswerFails
<1>24. ASSUME NEW v \in Visitors, NEW view \in View, Show(v, view) PROVE TypeOK'
  <2> DEFINE share == IF request[v].share = None THEN tab[v].share ELSE request[v].share
  <2>1. share \in Ids \cup {None} /\ request[v].answer \in Answers \cup {None}
    BY <1>t DEF TypeOK, Tab, Request
  <2>2. [tab[v] EXCEPT !.view = view, !.answer = request[v].answer, !.share = share] \in Tab
    <3> HIDE DEF share
    <3> QED
      BY <1>t, <2>1 DEF TypeOK, Tab
  <2>3. NoRequest \in Request
    BY DEF NoRequest, Request
  <2> QED
    BY <1>24, <1>t, <2>2, <2>3 DEF Show, TypeOK
<1>25. ASSUME NEW v \in Visitors, ReceiveStep(v) PROVE TypeOK'
  <2>1. request[v].answer \in IF tab[v].view = "loading" THEN DOMAIN PageFor ELSE DOMAIN FormFor
    BY <1>25 DEF ReceiveStep, ReceivePage, ReceiveUnlock, Inductive, RequestsInOrder, RequestInOrder
  <2>2. CASE ReceivePage(v)
    <3>1. PageFor[request[v].answer] \in View
      BY <2>1, <2>2 DEF ReceivePage, PageFor, View
    <3> QED
      BY <1>24, <2>2, <3>1 DEF ReceivePage
  <2>3. CASE ReceiveUnlock(v)
    <3>1. FormFor[request[v].answer] \in View
      BY <2>1, <2>3 DEF ReceiveUnlock, FormFor, View
    <3> QED
      BY <1>24, <2>3, <3>1 DEF ReceiveUnlock
  <2> QED
    BY <1>25, <2>2, <2>3 DEF ReceiveStep
<1>26. ASSUME Crash PROVE TypeOK'
  <2>1. [pc |-> "answered", share |-> None, right |-> FALSE, answer |-> "failed"] \in Request
    BY <1>15 DEF Request
  <2>2. request' \in [Visitors -> Request]
    BY <1>26, <1>t, <2>1 DEF Crash, TypeOK
  <2>3. faults' \in 0..MaxFaults
    BY <1>26, <1>t, SharesAssumption DEF Crash, Fault, TypeOK
  <2> QED
    BY <1>4, <1>26, <1>t, <2>2, <2>3 DEF Crash, TypeOK
<1>27. ASSUME UNCHANGED vars PROVE TypeOK'
  BY <1>27, <1>t DEF vars, TypeOK
<1> QED
  BY <1>1, <1>3, <1>5, <1>6, <1>7, <1>8, <1>9, <1>11, <1>16, <1>17, <1>18, <1>20, <1>21, <1>22, <1>23,
     <1>25, <1>26, <1>27
     DEF Next, OwnerStep, ServerStep

\* A create is of an id without a row, a cancelled row is not active again, and the
\* unique index lets one of two creates of a token through.
LEMMA StepRows == Inductive /\ [Next]_vars => RowsInOrder' /\ TokensAreUnique'
<1> SUFFICES ASSUME Inductive, [Next]_vars PROVE RowsInOrder' /\ TokensAreUnique'
  OBVIOUS
<1> USE DEF Inductive, TypeOK, Row, Create, RowsInOrder, TokensAreUnique, Holders
<1>1. CASE UNCHANGED <<shares, create>>
  BY <1>1
<1>2. ASSUME NEW s \in Ids, CreateShare(s) PROVE RowsInOrder' /\ TokensAreUnique'
  BY <1>2 DEF CreateShare
<1>3. ASSUME NEW s \in Ids, NEW token \in Tokens, DrawFree(s, token) PROVE RowsInOrder' /\ TokensAreUnique'
  BY <1>3 DEF DrawFree
<1>4. ASSUME NEW s \in Ids, NEW token \in Tokens, DrawTaken(s, token) PROVE RowsInOrder' /\ TokensAreUnique'
  BY <1>4 DEF DrawTaken, NoCreate
<1>5. ASSUME NEW s \in Ids, NEW expiresAt \in Time \cup {None}, NEW locked \in BOOLEAN,
             Save(s, expiresAt, locked)
      PROVE  RowsInOrder' /\ TokensAreUnique'
  <2>1. \A t \in Ids \ {s} : shares'[t] = shares[t] /\ create'[t] = create[t]
    BY <1>5 DEF Save, Insert
  <2>2. /\ shares'[s].state = "active"
        /\ shares'[s].token = create[s].token
        /\ shares'[s].cancelledAt = None
        /\ create'[s].pc = "idle"
    BY <1>5 DEF Save, Insert, NoCreate
  <2>3. \A t \in Ids \ {s} : shares[t].state = "active" => shares[t].token # create[s].token
    BY <1>5 DEF Save
  <2>4. RowsInOrder'
    BY <2>1, <2>2
  <2>5. TokensAreUnique'
    BY <2>1, <2>2, <2>3
  <2> QED
    BY <2>4, <2>5
<1>6. ASSUME NEW s \in Ids, SaveFails(s) PROVE RowsInOrder' /\ TokensAreUnique'
  BY <1>6 DEF SaveFails, NoCreate
<1>7. ASSUME NEW s \in Ids, DeleteShare(s) PROVE RowsInOrder' /\ TokensAreUnique'
  BY <1>7 DEF DeleteShare
<1>8. ASSUME Crash PROVE RowsInOrder' /\ TokensAreUnique'
  BY <1>8 DEF Crash, NoCreate
<1>9. ASSUME NEW v \in Visitors, AskStep(v) \/ ServerStep(v) \/ AnswerFails(v) \/ ReceiveStep(v)
      PROVE  UNCHANGED <<shares, create>>
  BY <1>9 DEF AskStep, OpenLink, Submit, Ask, ServerStep, FindMissing, FindExpired, FindLocked, FindOpen,
              Match, Refuse, BuildOpenResponse, AnswerFails, ReceiveStep, ReceivePage, ReceiveUnlock, Show
<1> QED
  <2> HIDE DEF Inductive, TypeOK, Row, Create, RowsInOrder, TokensAreUnique, Holders
  <2> QED
    BY <1>1, <1>2, <1>3, <1>4, <1>5, <1>6, <1>7, <1>8, <1>9 DEF Next, OwnerStep, Tick, vars

\* Only a visit adds an event, and only when the last one is the interval ago; a
\* restart forgets both the map and the events.
LEMMA StepEvents == Inductive /\ [Next]_vars => EventsInOrder' /\ ViewedIsThrottled'
<1> SUFFICES ASSUME Inductive, [Next]_vars PROVE EventsInOrder' /\ ViewedIsThrottled'
  OBVIOUS
<1>t. TypeOK /\ EventsInOrder /\ ViewedIsThrottled
  BY DEF Inductive
<1>1. CASE UNCHANGED <<now, lastViewedEmit, viewed>>
  BY <1>1, <1>t DEF EventsInOrder, ViewedIsThrottled
<1>2. CASE Tick
  BY <1>2, <1>t, SharesAssumption DEF Tick, TypeOK, Time, EventsInOrder, ViewedIsThrottled
<1>3. ASSUME NEW s \in Ids, EmitViewedIfNeeded(s), UNCHANGED now
      PROVE  EventsInOrder' /\ ViewedIsThrottled'
  <2>1. CASE UNCHANGED <<lastViewedEmit, viewed>>
    BY <1>1, <1>3, <2>1
  <2>2. CASE /\ ~(lastViewedEmit[s] # None /\ now - lastViewedEmit[s] < Throttle)
             /\ lastViewedEmit' = [lastViewedEmit EXCEPT ![s] = now]
             /\ viewed' = [viewed EXCEPT ![s] = @ \cup {now}]
    <3>1. now \in Int /\ Throttle \in Int /\ now # None
      BY <1>t, SharesAssumption DEF TypeOK, Time
    <3>2. \A t \in Ids \ {s} : viewed'[t] = viewed[t] /\ lastViewedEmit'[t] = lastViewedEmit[t]
      BY <1>t, <2>2 DEF TypeOK
    <3>3. viewed'[s] = viewed[s] \cup {now} /\ lastViewedEmit'[s] = now
      BY <1>t, <2>2 DEF TypeOK
    <3>4. \A e \in viewed[s] : e \in Int /\ e <= now /\ e + Throttle <= now
      <4>1. SUFFICES ASSUME NEW e \in viewed[s] PROVE e \in Int /\ e <= now /\ e + Throttle <= now
        OBVIOUS
      <4>2. e \in Int
        BY <1>t DEF TypeOK, Time
      <4>3. lastViewedEmit[s] \in Int /\ e <= lastViewedEmit[s] /\ lastViewedEmit[s] <= now
        BY <1>t DEF TypeOK, Time, EventsInOrder
      <4>4. lastViewedEmit[s] # None
        BY <1>t DEF EventsInOrder
      <4>5. ~(now - lastViewedEmit[s] < Throttle)
        BY <2>2, <4>4
      <4> QED
        BY <3>1, <4>2, <4>3, <4>5
    <3>5. EventsInOrder'
      BY <1>3, <1>t, <3>1, <3>2, <3>3, <3>4 DEF EventsInOrder
    <3>6. ViewedIsThrottled'
      BY <1>t, <3>1, <3>2, <3>3, <3>4 DEF ViewedIsThrottled
    <3> QED
      BY <3>5, <3>6
  <2> QED
    BY <1>3, <2>1, <2>2 DEF EmitViewedIfNeeded
<1>4. ASSUME NEW v \in Visitors, FindOpen(v) PROVE EventsInOrder' /\ ViewedIsThrottled'
  <2>1. PICK s \in Ids : EmitViewedIfNeeded(s)
    BY <1>4 DEF FindOpen, Found, Holders, Build
  <2> QED
    BY <1>3, <1>4, <2>1 DEF FindOpen
<1>5. ASSUME NEW v \in Visitors, Match(v) PROVE EventsInOrder' /\ ViewedIsThrottled'
  <2>1. request[v].share \in Ids
    BY <1>5 DEF Match, Inductive, RequestsInOrder, RequestInOrder, AskedInTime
  <2> QED
    BY <1>3, <1>5, <2>1 DEF Match, Build
<1>6. CASE Crash
  BY <1>6 DEF Crash, EventsInOrder, ViewedIsThrottled
<1>7. ASSUME NEW s \in Ids, OwnerStep(s) PROVE UNCHANGED <<now, lastViewedEmit, viewed>>
  BY <1>7 DEF OwnerStep, CreateShare, DrawFree, DrawTaken, Save, Insert, SaveFails, DeleteShare
<1>8. ASSUME NEW v \in Visitors, AskStep(v) \/ AnswerFails(v) \/ ReceiveStep(v)
      PROVE  UNCHANGED <<now, lastViewedEmit, viewed>>
  BY <1>8 DEF AskStep, OpenLink, Submit, Ask, AnswerFails, ReceiveStep, ReceivePage, ReceiveUnlock, Show
<1>9. ASSUME NEW v \in Visitors, FindMissing(v) \/ FindExpired(v) \/ FindLocked(v) \/ Refuse(v) \/ BuildOpenResponse(v)
      PROVE  UNCHANGED <<now, lastViewedEmit, viewed>>
  BY <1>9 DEF FindMissing, FindExpired, FindLocked, Refuse, BuildOpenResponse
<1> QED
  BY <1>1, <1>2, <1>4, <1>5, <1>6, <1>7, <1>8, <1>9 DEF Next, ServerStep, vars

-----------------------------------------------------------------------------
(* What a visitor's tab and request have to do with the rows and events.   *)

VisitInOrder(v) ==
    /\ RequestInOrder(v)
    /\ tab[v].view = "open" => AskedInTime(v, tab[v].share)
    /\ request[v].pc = "build" => \E e \in viewed[request[v].share] : e + Throttle > tab[v].askedAt

\* The invariant, visitor by visitor.
LEMMA InductiveByVisit ==
    (\A v \in Visitors : VisitInOrder(v)) <=> RequestsInOrder /\ GoneStaysGone /\ EveryVisitIsTold
BY DEF VisitInOrder, RequestsInOrder, GoneStaysGone, EveryVisitIsTold

\* No step takes back that a share was asked for in time: a row that is created is
\* of an id that had none, one that is cancelled is cancelled now.
LEMMA StaysInTime ==
    ASSUME Inductive, [Next]_vars, NEW v \in Visitors, tab'[v].askedAt = tab[v].askedAt,
           NEW s \in Ids, AskedInTime(v, s)
    PROVE  AskedInTime(v, s)'
<1>t. TypeOK /\ RowsInOrder /\ tab[v].askedAt <= now
  BY DEF Inductive, RequestsInOrder, RequestInOrder
<1>1. CASE shares' = shares
  BY <1>1 DEF AskedInTime
<1>2. ASSUME NEW r \in Ids, NEW expiresAt \in Time \cup {None}, NEW locked \in BOOLEAN,
             Save(r, expiresAt, locked)
      PROVE  AskedInTime(v, s)'
  <2>1. r # s
    BY <1>2, <1>t DEF Save, RowsInOrder, AskedInTime
  <2>2. shares'[s] = shares[s]
    BY <1>2, <1>t, <2>1 DEF Save, Insert, TypeOK
  <2> QED
    BY <2>2 DEF AskedInTime
<1>3. ASSUME NEW r \in Ids, DeleteShare(r) PROVE AskedInTime(v, s)'
  <2>1. CASE r # s
    <3>1. shares'[s] = shares[s]
      BY <1>3, <1>t, <2>1 DEF DeleteShare, TypeOK
    <3> QED
      BY <3>1 DEF AskedInTime
  <2>2. CASE r = s
    <3>1. /\ shares'[s].state = "cancelled"
          /\ shares'[s].cancelledAt = now
          /\ shares'[s].expiresAt = shares[s].expiresAt
      BY <1>3, <1>t, <2>2 DEF DeleteShare, TypeOK, Row
    <3> QED
      BY <1>t, <3>1 DEF AskedInTime
  <2> QED
    BY <2>1, <2>2
<1>4. ASSUME NEW r \in Ids, OwnerStep(r) PROVE AskedInTime(v, s)'
  BY <1>1, <1>2, <1>3, <1>4 DEF OwnerStep, CreateShare, DrawFree, DrawTaken, SaveFails
<1>5. ASSUME NEW w \in Visitors, AskStep(w) \/ ServerStep(w) \/ AnswerFails(w) \/ ReceiveStep(w)
      PROVE  shares' = shares
  BY <1>5 DEF AskStep, OpenLink, Submit, Ask, ServerStep, FindMissing, FindExpired, FindLocked, FindOpen,
              Match, Refuse, BuildOpenResponse, AnswerFails, ReceiveStep, ReceivePage, ReceiveUnlock, Show
<1> QED
  BY <1>1, <1>4, <1>5 DEF Next, Tick, Crash, vars

\* A step that leaves a visitor's tab and request alone and forgets no event.
LEMMA UntouchedVisit ==
    ASSUME Inductive, [Next]_vars, NEW w \in Visitors, tab'[w] = tab[w], request'[w] = request[w],
           now <= now', \A s \in Ids : viewed[s] \subseteq viewed'[s]
    PROVE  VisitInOrder(w)'
<1>1. VisitInOrder(w) /\ tab[w].askedAt \in Int /\ now \in Int /\ now' \in Int
  BY StepTypes, InductiveByVisit DEF Inductive, TypeOK, Tab, Time
<1>2. \A s : AskedInTime(w, s) => AskedInTime(w, s)'
  BY StaysInTime DEF AskedInTime
<1>3. request[w].pc = "build" => request[w].share \in Ids
  BY <1>1 DEF VisitInOrder, RequestInOrder, AskedInTime
<1>4. RequestInOrder(w)'
  BY <1>1, <1>2 DEF VisitInOrder, RequestInOrder, PageFor, FormFor
<1>5. tab'[w].view = "open" => AskedInTime(w, tab[w].share)'
  BY <1>1, <1>2 DEF VisitInOrder
<1> QED
  BY <1>1, <1>3, <1>4, <1>5 DEF VisitInOrder

\* A row found alive now was asked for in time.
LEMMA FoundInTime ==
    ASSUME Inductive, NEW v \in Visitors, NEW s \in Found(v), ~Expired(s)
    PROVE  AskedInTime(v, s)
<1>1. /\ s \in Ids /\ shares[s].state = "active" /\ shares[s].cancelledAt = None
      /\ tab[v].askedAt \in Int /\ now \in Int /\ tab[v].askedAt <= now
      /\ shares[s].expiresAt = None \/ shares[s].expiresAt \in Int
  BY DEF Inductive, TypeOK, Row, Tab, Time, RowsInOrder, RequestsInOrder, RequestInOrder, Found, Holders
<1> QED
  BY <1>1 DEF Expired, AskedInTime

\* Every step keeps every visit in order.
LEMMA StepVisits ==
    ASSUME Inductive, [Next]_vars
    PROVE  \A v \in Visitors : VisitInOrder(v)'
<1>t. /\ TypeOK
      /\ \A v \in Visitors : VisitInOrder(v)
  BY InductiveByVisit DEF Inductive
<1>n. now \in Int /\ Throttle \in Int /\ Throttle > 0
  BY <1>t, SharesAssumption DEF TypeOK, Time
<1>1. ASSUME UNCHANGED <<tab, request, viewed>>, now <= now'
      PROVE  \A v \in Visitors : VisitInOrder(v)'
  BY <1>1, UntouchedVisit
<1>2. CASE UNCHANGED vars
  BY <1>1, <1>2, <1>n DEF vars
<1>3. CASE Tick
  BY <1>1, <1>3, <1>n DEF Tick
<1>4. ASSUME NEW s \in Ids, OwnerStep(s) PROVE \A v \in Visitors : VisitInOrder(v)'
  BY <1>1, <1>4, <1>n DEF OwnerStep, CreateShare, DrawFree, DrawTaken, Save, Insert, SaveFails, DeleteShare
<1>5. CASE Crash
  <2>1. ASSUME NEW v \in Visitors PROVE VisitInOrder(v)'
    <3>1. VisitInOrder(v) /\ tab' = tab /\ shares' = shares /\ now' = now
      BY <1>5, <1>t DEF Crash
    <3>2. \/ request'[v] = request[v] /\ request[v].pc \in {"idle", "answered"}
          \/ /\ request[v].pc # "idle"
             /\ request'[v] = [pc |-> "answered", share |-> None, right |-> FALSE, answer |-> "failed"]
      BY <1>5, <1>t DEF Crash, TypeOK, Request
    <3>3. RequestInOrder(v)'
      BY <3>1, <3>2 DEF VisitInOrder, RequestInOrder, AskedInTime, PageFor, FormFor
    <3> QED
      BY <3>1, <3>2, <3>3 DEF VisitInOrder, AskedInTime
  <2> QED
    BY <2>1
<1>6. ASSUME NEW v \in Visitors, VisitInOrder(v)', now' = now,
             \A w \in Visitors \ {v} : tab'[w] = tab[w] /\ request'[w] = request[w],
             \A s \in Ids : viewed[s] \subseteq viewed'[s]
      PROVE  \A w \in Visitors : VisitInOrder(w)'
  BY <1>6, <1>n, UntouchedVisit
<1>7. ASSUME NEW v \in Visitors, NEW view \in {"loading", "unlocking"}, NEW token, NEW share, NEW right,
             Ask(v, view, token, share, right)
      PROVE  \A w \in Visitors : VisitInOrder(w)'
  <2>1. /\ tab'[v].view = view /\ tab'[v].askedAt = now
        /\ request'[v].pc = "find"
        /\ now' = now /\ viewed' = viewed
        /\ \A w \in Visitors \ {v} : tab'[w] = tab[w] /\ request'[w] = request[w]
    BY <1>7, <1>t DEF Ask, TypeOK
  <2>2. VisitInOrder(v)'
    BY <2>1, <1>n DEF VisitInOrder, RequestInOrder
  <2> QED
    BY <1>6, <2>1, <2>2
<1>8. ASSUME NEW v \in Visitors, AskStep(v) PROVE \A w \in Visitors : VisitInOrder(w)'
  BY <1>7, <1>8 DEF AskStep, OpenLink, Submit
<1>9. ASSUME NEW v \in Visitors, NEW share, NEW answer, Answer(v, share, answer),
             request[v].pc # "idle",
             answer \in IF tab[v].view = "loading" THEN DOMAIN PageFor ELSE DOMAIN FormFor,
             answer = "open" => AskedInTime(v, share),
             UNCHANGED <<now, shares, tab, viewed>>
      PROVE  \A w \in Visitors : VisitInOrder(w)'
  <2>1. /\ request'[v] = [pc |-> "answered", share |-> share, right |-> FALSE, answer |-> answer]
        /\ \A w \in Visitors \ {v} : tab'[w] = tab[w] /\ request'[w] = request[w]
    BY <1>9, <1>t DEF Answer, TypeOK
  <2>2. VisitInOrder(v)'
    BY <1>9, <1>t, <2>1 DEF VisitInOrder, RequestInOrder, AskedInTime, PageFor, FormFor
  <2> QED
    BY <1>6, <1>9, <2>1, <2>2
<1>10. /\ DOMAIN PageFor = {"open", "locked", "missing", "gone", "failed"}
       /\ DOMAIN FormFor = {"open", "refused", "missing", "gone", "failed"}
  BY DEF PageFor, FormFor
<1>11. ASSUME NEW v \in Visitors, FindMissing(v) \/ FindExpired(v) PROVE \A w \in Visitors : VisitInOrder(w)'
  BY <1>9, <1>10, <1>11 DEF FindMissing, FindExpired, Asking
<1>12. ASSUME NEW v \in Visitors, FindLocked(v) PROVE \A w \in Visitors : VisitInOrder(w)'
  <2>1. PICK s \in Found(v) :
           /\ ~Expired(s)
           /\ IF tab[v].view = "loading"
              THEN Answer(v, s, "locked")
              ELSE request' = [request EXCEPT ![v].pc = "compare", ![v].share = s]
    BY <1>12 DEF FindLocked
  <2>2. CASE tab[v].view = "loading"
    BY <1>9, <1>10, <1>12, <2>1, <2>2 DEF FindLocked, Asking
  <2>3. CASE tab[v].view # "loading"
    <3>1. /\ request'[v].pc = "compare" /\ request'[v].share = s
          /\ \A w \in Visitors \ {v} : tab'[w] = tab[w] /\ request'[w] = request[w]
          /\ UNCHANGED <<now, shares, tab, viewed>>
      BY <1>12, <1>t, <2>1, <2>3 DEF FindLocked, TypeOK, Request
    <3>2. tab[v].view = "unlocking" /\ AskedInTime(v, s)
      BY <1>12, <1>t, <2>1, <2>3, FoundInTime DEF FindLocked, Asking, VisitInOrder, RequestInOrder
    <3>3. VisitInOrder(v)'
      BY <1>t, <3>1, <3>2 DEF VisitInOrder, RequestInOrder, AskedInTime
    <3> QED
      BY <1>6, <3>1, <3>3
  <2> QED
    BY <2>2, <2>3
<1>13. ASSUME NEW v \in Visitors, NEW s \in Ids, Build(v, s), AskedInTime(v, s), request[v].pc # "idle",
              UNCHANGED <<now, shares, tab>>
       PROVE  \A w \in Visitors : VisitInOrder(w)'
  <2>1. /\ request'[v].pc = "build" /\ request'[v].share = s
        /\ \A w \in Visitors \ {v} : tab'[w] = tab[w] /\ request'[w] = request[w]
    BY <1>13, <1>t DEF Build, TypeOK, Request
  <2>2. tab[v].askedAt \in Int /\ tab[v].askedAt <= now
    BY <1>t DEF TypeOK, Tab, Time, VisitInOrder, RequestInOrder
  <2>3. /\ \A r \in Ids : viewed[r] \subseteq viewed'[r]
        /\ \E e \in viewed'[s] : e + Throttle > tab[v].askedAt
    <3>1. CASE /\ lastViewedEmit[s] # None /\ now - lastViewedEmit[s] < Throttle
               /\ viewed' = viewed
      <4>1. lastViewedEmit[s] \in Int /\ lastViewedEmit[s] \in viewed[s]
        BY <1>t, <3>1 DEF Inductive, TypeOK, Time, EventsInOrder
      <4> QED
        BY <1>n, <2>2, <3>1, <4>1
    <3>2. CASE viewed' = [viewed EXCEPT ![s] = @ \cup {now}]
      <4>1. now \in viewed'[s] /\ \A r \in Ids : viewed[r] \subseteq viewed'[r]
        BY <1>t, <3>2 DEF TypeOK
      <4> QED
        BY <1>n, <2>2, <4>1
    <3> QED
      BY <1>13, <3>1, <3>2 DEF Build, EmitViewedIfNeeded
  <2>4. VisitInOrder(v)'
    BY <1>13, <1>t, <2>1, <2>3 DEF VisitInOrder, RequestInOrder, AskedInTime
  <2> QED
    BY <1>6, <1>13, <2>1, <2>3, <2>4
<1>14. ASSUME NEW v \in Visitors, FindOpen(v) PROVE \A w \in Visitors : VisitInOrder(w)'
  <2>1. PICK s \in Found(v) : ~Expired(s) /\ Build(v, s)
    BY <1>14 DEF FindOpen
  <2>2. AskedInTime(v, s) /\ s \in Ids
    BY <2>1, FoundInTime DEF AskedInTime
  <2> QED
    BY <1>13, <1>14, <2>1, <2>2 DEF FindOpen, Asking
<1>15. ASSUME NEW v \in Visitors, Match(v) PROVE \A w \in Visitors : VisitInOrder(w)'
  <2>1. AskedInTime(v, request[v].share) /\ request[v].share \in Ids
    BY <1>15, <1>t DEF Match, VisitInOrder, RequestInOrder, AskedInTime
  <2> QED
    BY <1>13, <1>15, <2>1 DEF Match
<1>16. ASSUME NEW v \in Visitors, Refuse(v) PROVE \A w \in Visitors : VisitInOrder(w)'
  <2>1. tab[v].view = "unlocking"
    BY <1>16, <1>t DEF Refuse, VisitInOrder, RequestInOrder
  <2> QED
    BY <1>9, <1>10, <1>16, <2>1 DEF Refuse
<1>17. ASSUME NEW v \in Visitors, BuildOpenResponse(v) PROVE \A w \in Visitors : VisitInOrder(w)'
  <2>1. AskedInTime(v, request[v].share)
    BY <1>17, <1>t DEF BuildOpenResponse, VisitInOrder, RequestInOrder
  <2> QED
    BY <1>9, <1>10, <1>17, <2>1 DEF BuildOpenResponse
<1>18. ASSUME NEW v \in Visitors, AnswerFails(v) PROVE \A w \in Visitors : VisitInOrder(w)'
  BY <1>9, <1>10, <1>18 DEF AnswerFails
<1>19. ASSUME NEW v \in Visitors, NEW view, Show(v, view), request[v].pc = "answered",
              view = "open" => request[v].answer = "open"
       PROVE  \A w \in Visitors : VisitInOrder(w)'
  <2>1. /\ request'[v].pc = "idle"
        /\ tab'[v].view = view /\ tab'[v].askedAt = tab[v].askedAt
        /\ tab'[v].share = IF request[v].share = None THEN tab[v].share ELSE request[v].share
        /\ \A w \in Visitors \ {v} : tab'[w] = tab[w] /\ request'[w] = request[w]
        /\ UNCHANGED <<now, shares, viewed>>
    BY <1>19, <1>t DEF Show, NoRequest, TypeOK, Tab
  <2>2. ASSUME view = "open" PROVE AskedInTime(v, tab'[v].share)
    <3>1. AskedInTime(v, request[v].share)
      BY <1>19, <1>t, <2>2 DEF VisitInOrder, RequestInOrder
    <3> QED
      BY <2>1, <3>1, SharesAssumption DEF AskedInTime
  <2>3. VisitInOrder(v)'
    BY <1>t, <2>1, <2>2 DEF VisitInOrder, RequestInOrder, AskedInTime
  <2> QED
    BY <1>6, <2>1, <2>3
<1>20. ASSUME NEW v \in Visitors, ReceiveStep(v) PROVE \A w \in Visitors : VisitInOrder(w)'
  <2>1. VisitInOrder(v) /\ request[v].pc = "answered"
    BY <1>20, <1>t DEF ReceiveStep, ReceivePage, ReceiveUnlock
  <2>2. CASE ReceivePage(v)
    <3>1. PageFor[request[v].answer] = "open" => request[v].answer = "open"
      BY <1>10, <2>1, <2>2 DEF ReceivePage, VisitInOrder, RequestInOrder, PageFor
    <3> QED
      BY <1>19, <2>1, <2>2, <3>1 DEF ReceivePage
  <2>3. CASE ReceiveUnlock(v)
    <3>1. FormFor[request[v].answer] = "open" => request[v].answer = "open"
      BY <1>10, <2>1, <2>3 DEF ReceiveUnlock, VisitInOrder, RequestInOrder, FormFor
    <3> QED
      BY <1>19, <2>1, <2>3, <3>1 DEF ReceiveUnlock
  <2> QED
    BY <1>20, <2>2, <2>3 DEF ReceiveStep
<1> QED
  BY <1>2, <1>3, <1>4, <1>5, <1>8, <1>11, <1>12, <1>14, <1>15, <1>16, <1>17, <1>18, <1>20 DEF Next, ServerStep

-----------------------------------------------------------------------------

\* Every step keeps the invariant.
LEMMA StepInductive == Inductive /\ [Next]_vars => Inductive'
<1> SUFFICES ASSUME Inductive, [Next]_vars PROVE Inductive'
  OBVIOUS
<1>1. RequestsInOrder' /\ GoneStaysGone' /\ EveryVisitIsTold'
  <2>1. \A v \in Visitors : VisitInOrder(v)'
    BY StepVisits
  <2> QED
    BY <2>1 DEF VisitInOrder, RequestsInOrder, GoneStaysGone, EveryVisitIsTold
<1> QED
  BY <1>1, StepTypes, StepRows, StepEvents DEF Inductive

\* SharesService: types, the order of rows, events and requests, and the promises
\* below hold in every reachable state, for any shares, tokens and visitors.
THEOREM SharesInvariant == Spec => []Inductive
<1> QED
  BY InitInductive, StepInductive, PTL DEF Spec

\* The variables keep their types; a token is drawn at most MaxTries times.
THEOREM SharesTypeCorrect == Spec => []TypeOK
<1>1. Inductive => TypeOK
  BY DEF Inductive
<1> QED
  BY <1>1, SharesInvariant, PTL

\* createShare: however many creates draw the same token, one link is one share.
THEOREM OneShareOfAToken == Spec => []TokensAreUnique
<1>1. Inductive => TokensAreUnique
  BY DEF Inductive
<1> QED
  BY <1>1, SharesInvariant, PTL

\* findPublicByToken and unlockShare: what opens was asked for while its share was
\* neither expired nor cancelled.
THEOREM NothingGoneOpens == Spec => []GoneStaysGone
<1>1. Inductive => GoneStaysGone
  BY DEF Inductive
<1> QED
  BY <1>1, SharesInvariant, PTL

\* emitViewedIfNeeded: the owner is told of every visit, within the interval ...
THEOREM NoVisitUntold == Spec => []EveryVisitIsTold
<1>1. Inductive => EveryVisitIsTold
  BY DEF Inductive
<1> QED
  BY <1>1, SharesInvariant, PTL

\* ... and not more often than that while the server lives.
THEOREM NoEventTooSoon == Spec => []ViewedIsThrottled
<1>1. Inductive => ViewedIsThrottled
  BY DEF Inductive
<1> QED
  BY <1>1, SharesInvariant, PTL

=============================================================================
