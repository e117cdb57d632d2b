--------------------------- MODULE SessionProofs ----------------------------
(***************************************************************************)
(* For any accounts, requests, submits under way, lifetimes and bounds: the *)
(* client never sends a second refresh while one is under way, no request  *)
(* waits for a refresh that is over, and what a refresh stores or deletes  *)
(* is the session it set out from, unless a sign-in came between.          *)
(***************************************************************************)
EXTENDS Session, TLAPS

\* What a refresh and a request are set to is of their type.
LEMMA Values ==
    /\ None \in MaybeToken /\ IdleReq \in ReqState /\ NoFlight \in FlightState
    /\ IdleForm \in FormState
BY DEF None, MaybeToken, IdleReq, ReqState, NoFlight, FlightState, IdleForm, FormState

\* A pair that is issued now is a token, and is not None.
LEMMA IssueIsToken ==
    ASSUME TypeOK, NEW a \in Account
    PROVE  Issue(a) \in Token /\ Issue(a) \in MaybeToken /\ Issue(a) # None
BY SessionAssumption DEF TypeOK, Issue, Token, MaybeToken, None

\* Nothing is under way at the start.
LEMMA InitOneFlight == Init => OneFlight
<1> SUFFICES ASSUME Init PROVE OneFlight
  OBVIOUS
<1>1. screens \in Seq(Screen) /\ Len(screens) \in 1 .. MaxScreens
  BY SessionAssumption DEF Init, Screen
<1>2. TypeOK
  BY <1>1, SessionAssumption, Values DEF Init, TypeOK, MaybeToken
<1> QED
  BY <1>2 DEF Init, OneFlight, OneRefreshServesAll, IdleReq, NoFlight

\* The router replaces, pushes and pops one screen at a time.
LEMMA ReplaceKeeps ==
    ASSUME TypeOK, NEW screen \in Screen, Replace(screen)
    PROVE  screens' \in Seq(Screen) /\ Len(screens') \in 1 .. MaxScreens
BY DEF TypeOK, Replace

\* The parts of a form and of a refresh.
LEMMA Parts ==
    ASSUME TypeOK
    PROVE  /\ \A g \in Form : /\ form[g] \in FormState
                              /\ form[g].pair \in MaybeToken /\ form[g].todo \subseteq Keys
                              /\ form[g].pc \in {"idle", "up", "in", "hashed", "storing"}
                              /\ form[g].pc # "idle" => form[g].acct \in Account
           /\ \A f \in Request : /\ flight[f] \in FlightState /\ req[f] \in ReqState
                                 /\ flight[f].pair \in MaybeToken
BY DEF TypeOK, FormState, IdleForm, FlightState, MaybeToken

\* A form is granted its pair, or is idle again.
LEMMA GrantedKeeps ==
    ASSUME TypeOK, NEW g \in Form, form[g].pc # "idle", Granted(g)
    PROVE  /\ form' \in [Form -> FormState] /\ form'[g].pair = Issue(form[g].acct)
           /\ \A h \in Form : h # g => form'[h] = form[h]
<1> DEFINE state == [form[g] EXCEPT !.pc = "storing", !.pair = Issue(form[g].acct), !.todo = Keys]
<1>1. form[g] \in [pc: {"up", "in", "hashed", "storing"}, acct: Account,
                   pair: MaybeToken, todo: SUBSET Keys]
  BY Parts DEF FormState, IdleForm
<1>2. Issue(form[g].acct) \in MaybeToken
  BY <1>1, IssueIsToken
<1>3. state \in FormState /\ state.pair = Issue(form[g].acct)
  BY <1>1, <1>2 DEF FormState
<1>4. form' = [form EXCEPT ![g] = state]
  BY DEF Granted
<1> HIDE DEF state
<1> QED
  BY <1>3, <1>4 DEF TypeOK

LEMMA RefusedKeeps ==
    ASSUME TypeOK, NEW g \in Form, Refused(g)
    PROVE  /\ form' \in [Form -> FormState] /\ form'[g].pc = "idle"
           /\ \A h \in Form : h # g => form'[h] = form[h]
BY Values DEF TypeOK, Refused, IdleForm

\* The end of a refresh leaves nobody waiting for it: nobody waits for another one.
LEMMA SettleKeeps ==
    ASSUME OneFlight, NEW f \in Request, flight[f].pc # "none",
           NEW pair \in MaybeToken, Settle(f, pair)
    PROVE  /\ flight' \in [Request -> FlightState] /\ req' \in [Request -> ReqState]
           /\ refreshPromise' \in Request \cup {"none"}
           /\ OneRefreshServesAll'
           /\ refreshPromise' # "none" => flight'[refreshPromise'].pc # "none"
<1>t. TypeOK
  BY DEF OneFlight
<1>1. flight' \in [Request -> FlightState] /\ refreshPromise' \in Request \cup {"none"}
  BY <1>t, Values DEF Settle, TypeOK
<1>2. ASSUME NEW r \in Request PROVE req'[r] \in ReqState /\ req'[r].pc # "waiting"
  <2>1. req[r].pc = "waiting" => req[r].on = f
    BY <1>t DEF OneFlight, OneRefreshServesAll, TypeOK, ReqState
  <2>2. CASE req[r].pc # "waiting"
    BY <2>2, <1>t DEF Settle, TypeOK
  <2>3. CASE req[r].pc = "waiting" /\ pair = None
    <3>1. req'[r] = IdleReq
      BY <2>1, <2>3 DEF Settle
    <3> QED
      BY <3>1, Values DEF IdleReq
  <2>4. CASE req[r].pc = "waiting" /\ pair # None
    <3>1. req'[r] = [req[r] EXCEPT !.pc = "retried", !.token = pair, !.on = "none"]
      BY <2>1, <2>4 DEF Settle
    <3>2. req[r] \in ReqState
      BY <1>t DEF TypeOK
    <3> QED
      BY <3>1, <3>2 DEF ReqState
  <2> QED
    BY <2>2, <2>3, <2>4
<1>3. req' \in [Request -> ReqState]
  BY <1>2 DEF Settle
<1>4. \A g \in Request : flight'[g].pc = "none"
  BY <1>t DEF Settle, OneFlight, OneRefreshServesAll, TypeOK, NoFlight
<1>5. refreshPromise' = "none"
  BY DEF Settle
<1> QED
  BY <1>1, <1>2, <1>3, <1>4, <1>5 DEF OneRefreshServesAll

\* A step that touches no request and no refresh keeps what is said of them.
LEMMA RestKeeps ==
    ASSUME OneFlight, UNCHANGED <<req, flight, refreshPromise>>, TypeOK'
    PROVE  OneFlight'
BY DEF OneFlight, OneRefreshServesAll

\* A request that does not come to wait, with the refreshes as they are, keeps the rest.
LEMMA RequestKeeps ==
    ASSUME OneFlight, NEW r \in Request, NEW state \in ReqState, state.pc # "waiting",
           req' = [req EXCEPT ![r] = state], UNCHANGED <<flight, refreshPromise>>, TypeOK'
    PROVE  OneFlight'
BY DEF OneFlight, OneRefreshServesAll, TypeOK

\* A 401 joins the refresh under way, or starts the only one.
LEMMA JoinKeeps ==
    ASSUME OneFlight, NEW r \in Request, req[r].pc = "sent", req[r].token # None,
           JoinOrStartRefresh(r)
    PROVE  /\ flight' \in [Request -> FlightState] /\ req' \in [Request -> ReqState]
           /\ refreshPromise' \in Request \cup {"none"}
           /\ OneRefreshServesAll'
           /\ refreshPromise' # "none" => flight'[refreshPromise'].pc # "none"
<1>t. TypeOK /\ req[r] \in ReqState /\ req[r].token \in Token
  BY DEF OneFlight, TypeOK, ReqState, MaybeToken
<1>1. CASE refreshPromise # "none"
  <2>1. [req[r] EXCEPT !.pc = "waiting", !.on = refreshPromise] \in ReqState
    BY <1>1, <1>t DEF ReqState, TypeOK
  <2>2. /\ req' = [req EXCEPT ![r] = [req[r] EXCEPT !.pc = "waiting", !.on = refreshPromise]]
        /\ UNCHANGED <<flight, refreshPromise>>
    BY <1>1 DEF JoinOrStartRefresh
  <2>3. req' \in [Request -> ReqState]
    BY <2>1, <2>2, <1>t DEF TypeOK
  <2>4. req'[r].on = refreshPromise
    BY <2>2, <1>t DEF TypeOK, ReqState
  <2>5. OneRefreshServesAll'
    BY <2>2, <2>4, <1>1, <1>t DEF OneFlight, OneRefreshServesAll, TypeOK
  <2> QED
    BY <2>2, <2>3, <2>5, <1>t DEF OneFlight, TypeOK
<1>2. CASE refreshPromise = "none"
  <2>1. [req[r] EXCEPT !.pc = "waiting", !.on = r] \in ReqState
    BY <1>t DEF ReqState
  <2>2. [NoFlight EXCEPT !.pc = "lookup"] \in FlightState
    BY Values DEF NoFlight, FlightState
  <2>3. /\ req' = [req EXCEPT ![r] = [req[r] EXCEPT !.pc = "waiting", !.on = r]]
        /\ flight' = [flight EXCEPT ![r] = [NoFlight EXCEPT !.pc = "lookup"]]
        /\ refreshPromise' = r
    BY <1>2 DEF JoinOrStartRefresh
  <2>4. req' \in [Request -> ReqState] /\ flight' \in [Request -> FlightState]
    BY <2>1, <2>2, <2>3, <1>t DEF TypeOK
  <2>5. \A g \in Request : flight[g].pc = "none"
    BY <1>2, SessionAssumption DEF OneFlight, OneRefreshServesAll
  <2>6. \A s \in Request : req[s].pc # "waiting"
    <3> SUFFICES ASSUME NEW s \in Request, req[s].pc = "waiting" PROVE FALSE
      OBVIOUS
    <3>1. req[s].on \in Request /\ flight[req[s].on].pc # "none"
      BY <1>t DEF OneFlight, OneRefreshServesAll, TypeOK, ReqState
    <3> QED
      BY <3>1, <2>5
  <2>7. req'[r].on = r /\ flight'[r].pc = "lookup"
    BY <2>3, <1>t DEF TypeOK, ReqState, NoFlight
  <2>8. OneRefreshServesAll'
    BY <2>3, <2>5, <2>6, <2>7, <1>t DEF OneRefreshServesAll, TypeOK
  <2> QED
    BY <2>3, <2>4, <2>7, <2>8
<1> QED
  BY <1>1, <1>2

\* A step of the refresh under way that does not end it.
LEMMA FlightKeeps ==
    ASSUME OneFlight, NEW f \in Request, NEW state \in FlightState,
           flight[f].pc # "none", state.pc # "none",
           flight' = [flight EXCEPT ![f] = state], UNCHANGED <<req, refreshPromise>>, TypeOK'
    PROVE  OneFlight'
BY DEF OneFlight, OneRefreshServesAll, TypeOK, ReqState

\* Every step keeps the invariant.
LEMMA StepOneFlight == OneFlight /\ [Next]_vars => OneFlight'
<1> SUFFICES ASSUME OneFlight, [Next]_vars PROVE OneFlight'
  OBVIOUS
<1>t. TypeOK
  BY DEF OneFlight
<1>1. CASE Enter
  <2>1. screens' \in Seq(Screen) /\ Len(screens') \in 1 .. MaxScreens
    BY <1>1, <1>t, ReplaceKeeps DEF Enter, Screen
  <2> QED
    BY <1>1, <2>1, <1>t, RestKeeps DEF Enter, TypeOK
<1>2. CASE Push
  <2>1. screens' \in Seq(Screen) /\ Len(screens') \in 1 .. MaxScreens
    BY <1>2, <1>t, SessionAssumption DEF Push, Top, TypeOK, Screen
  <2> QED
    BY <1>2, <2>1, <1>t, RestKeeps DEF Push, TypeOK
<1>3. CASE Back
  <2>1. screens' \in Seq(Screen) /\ Len(screens') \in 1 .. MaxScreens
    BY <1>3, <1>t, SessionAssumption DEF Back, TypeOK
  <2> QED
    BY <1>3, <2>1, <1>t, RestKeeps DEF Back, TypeOK
<1>4. CASE \E g \in Form, kind \in {"up", "in"}, a \in Account : Submit(g, kind, a)
  <2> PICK g \in Form, kind \in {"up", "in"}, a \in Account : Submit(g, kind, a)
    BY <1>4
  <2>1. [IdleForm EXCEPT !.pc = kind, !.acct = a] \in FormState
    BY Values DEF FormState, IdleForm
  <2>2. form' \in [Form -> FormState]
    BY <2>1, <1>t DEF Submit, TypeOK
  <2> QED
    BY <2>2, <1>t, RestKeeps DEF Submit, TypeOK
<1>5. CASE \E g \in Form : SignIn(g)
  BY <1>5, <1>t, GrantedKeeps, RefusedKeeps, RestKeeps DEF SignIn, TypeOK
<1>6. CASE \E g \in Form : SignUpLookup(g)
  <2> PICK g \in Form : SignUpLookup(g)
    BY <1>6
  <2>1. [form[g] EXCEPT !.pc = "hashed"] \in FormState
    BY <1>t, Parts DEF SignUpLookup, FormState, IdleForm
  <2>2. form' \in [Form -> FormState]
    BY <2>1, <1>t, RefusedKeeps DEF SignUpLookup, TypeOK
  <2> QED
    BY <2>2, <1>t, RestKeeps DEF SignUpLookup, TypeOK
<1>21. CASE \E g \in Form : SignUpInsert(g)
  <2> PICK g \in Form : SignUpInsert(g)
    BY <1>21
  <2>1. form' \in [Form -> FormState]
    BY <1>t, GrantedKeeps, RefusedKeeps DEF SignUpInsert
  <2>2. registered' \subseteq Account
    BY <1>t, Parts DEF SignUpInsert, TypeOK
  <2> QED
    BY <2>1, <2>2, <1>t, RestKeeps DEF SignUpInsert, TypeOK
<1>22. CASE \E g \in Form : FormLost(g)
  <2> PICK g \in Form : FormLost(g)
    BY <1>22
  <2>1. form' \in [Form -> FormState]
    BY <1>t, RefusedKeeps DEF FormLost
  <2>2. registered' \subseteq Account
    BY <1>t, Parts DEF FormLost, TypeOK
  <2>3. lost' \in 0 .. MaxLost
    BY <1>t, SessionAssumption DEF FormLost, TypeOK
  <2> QED
    BY <2>1, <2>2, <2>3, <1>t, RestKeeps DEF FormLost, TypeOK
<1>23. CASE \E g \in Form : OpenTabs(g)
  <2> PICK g \in Form : OpenTabs(g)
    BY <1>23
  <2>1. screens' \in Seq(Screen) /\ Len(screens') \in 1 .. MaxScreens
    BY <1>t, ReplaceKeeps DEF OpenTabs, Screen
  <2> QED
    BY <2>1, <1>t, Values, RestKeeps DEF OpenTabs, TypeOK
<1>24. CASE \E g \in Form, k \in Keys : StoreForm(g, k)
  <2> PICK g \in Form, k \in Keys : StoreForm(g, k)
    BY <1>24
  <2>1. form[g].pair \in MaybeToken /\ [form[g] EXCEPT !.todo = form[g].todo \ {k}] \in FormState
    BY <1>t, Parts DEF StoreForm, FormState, IdleForm
  <2>2. access' \in MaybeToken /\ refresh' \in MaybeToken /\ form' \in [Form -> FormState]
    BY <2>1, <1>t DEF StoreForm, Write, TypeOK
  <2>3. \A f \in Request : flight'[f] \in FlightState /\ flight'[f].pc = flight[f].pc
    BY <1>t, Parts DEF StoreForm, FlightState
  <2>4. flight' \in [Request -> FlightState]
    BY <2>3 DEF StoreForm
  <2>5. TypeOK'
    BY <2>2, <2>4, <1>t DEF StoreForm, TypeOK
  <2>6. UNCHANGED <<req, refreshPromise>>
    BY DEF StoreForm
  <2>7. \A r \in Request : req[r].pc = "waiting" => req[r].on \in Request
    BY <1>t DEF TypeOK, ReqState
  <2>8. OneRefreshServesAll'
    BY <2>3, <2>6, <2>7 DEF OneFlight, OneRefreshServesAll
  <2> QED
    BY <2>3, <2>5, <2>6, <2>8, <1>t DEF OneFlight, TypeOK
<1>7. CASE \E a \in Account : RegisterElsewhere(a)
  BY <1>7, <1>t, RestKeeps DEF RegisterElsewhere, phone, TypeOK
<1>8. CASE Tick
  BY <1>8, <1>t, SessionAssumption, RestKeeps DEF Tick, phone, TypeOK, MaybeToken, Token
<1>9. CASE Crash
  <2>1. screens' \in Seq(Screen) /\ Len(screens') \in 1 .. MaxScreens
    BY <1>9, SessionAssumption DEF Crash, Screen
  <2>2. TypeOK'
    BY <1>9, <2>1, <1>t, Values, SessionAssumption DEF Crash, TypeOK
  <2> QED
    BY <1>9, <2>2, SessionAssumption DEF Crash, OneFlight, OneRefreshServesAll, IdleReq, NoFlight
<1>10. CASE \E r \in Request : Start(r)
  <2> PICK r \in Request : Start(r)
    BY <1>10
  <2>1. [IdleReq EXCEPT !.pc = "sent", !.token = access] \in ReqState
    BY <1>t DEF IdleReq, ReqState, TypeOK
  <2>2. TypeOK'
    BY <2>1, <1>t DEF Start, TypeOK
  <2>3. [IdleReq EXCEPT !.pc = "sent", !.token = access].pc # "waiting"
    BY DEF IdleReq
  <2> QED
    BY <2>1, <2>2, <2>3, RequestKeeps DEF Start
<1>11. ASSUME NEW r \in Request, End(r), UNCHANGED <<flight, refreshPromise>>,
             UNCHANGED <<now, registered, access, refresh, screens, form, crashes, faults>>,
             lost' \in 0 .. MaxLost
       PROVE OneFlight'
  <2>1. TypeOK'
    BY <1>11, <1>t, Values DEF End, TypeOK
  <2> QED
    BY <1>11, <2>1, Values, RequestKeeps DEF End, IdleReq
<1>12. CASE \E r \in Request : Answer(r)
  <2> PICK r \in Request : Answer(r)
    BY <1>12
  <2>1. CASE End(r) /\ UNCHANGED <<flight, refreshPromise>>
    BY <2>1, <1>11, <1>t DEF Answer, TypeOK
  <2>2. CASE req[r].pc = "sent" /\ req[r].token # None /\ JoinOrStartRefresh(r)
    BY <2>2, <1>t, JoinKeeps DEF Answer, OneFlight, TypeOK
  <2> QED
    BY <2>1, <2>2 DEF Answer
<1>13. CASE \E r \in Request : AnswerLost(r)
  BY <1>13, <1>11, <1>t, SessionAssumption DEF AnswerLost, TypeOK
<1>14. ASSUME NEW f \in Request, flight[f].pc # "none",
              NEW pair \in MaybeToken, Settle(f, pair),
              screens' \in Seq(Screen), Len(screens') \in 1 .. MaxScreens,
              lost' \in 0 .. MaxLost,
              UNCHANGED <<now, registered, access, refresh, form, crashes, faults>>
       PROVE  OneFlight'
  BY <1>14, <1>t, SettleKeeps DEF OneFlight, TypeOK
<1>15. CASE \E f \in Request : FlightLookup(f)
  <2> PICK f \in Request : FlightLookup(f)
    BY <1>15
  <2> DEFINE state == [flight[f] EXCEPT !.pc = "sent", !.pair = refresh]
  <2>1. state \in FlightState /\ state.pc # "none"
    BY <1>t DEF TypeOK, FlightState
  <2>2. flight' = [flight EXCEPT ![f] = state] /\ flight[f].pc # "none"
    BY DEF FlightLookup
  <2> HIDE DEF state
  <2>3. TypeOK'
    BY <2>1, <2>2, <1>t DEF FlightLookup, TypeOK
  <2> QED
    BY <2>1, <2>2, <2>3, FlightKeeps DEF FlightLookup
<1>25. CASE \E f \in Request : FlightNothing(f)
  <2> PICK f \in Request : FlightNothing(f)
    BY <1>25
  <2>1. screens' \in Seq(Screen) /\ Len(screens') \in 1 .. MaxScreens
    BY <1>t, ReplaceKeeps DEF FlightNothing, Screen
  <2> QED
    BY <2>1, <1>14, <1>t, Values DEF FlightNothing, TypeOK
<1>16. CASE \E f \in Request : FlightAnswer(f)
  <2> PICK f \in Request : FlightAnswer(f)
    BY <1>16
  <2>0. PICK failed \in BOOLEAN, t \in {flight[f].pair} :
         /\ failed => faults < MaxFaults
         /\ faults' = IF failed THEN faults + 1 ELSE faults
         /\ flight' = [flight EXCEPT ![f].pc = "storing", ![f].todo = Keys,
                ![f].pair = IF ~failed /\ ValidRefresh(t) /\ t.acct \in registered
                            THEN Issue(t.acct) ELSE None]
    BY DEF FlightAnswer
  <2> DEFINE pair == IF ~failed /\ ValidRefresh(t) /\ t.acct \in registered
                     THEN Issue(t.acct) ELSE None
             state == [flight[f] EXCEPT !.pc = "storing", !.todo = Keys, !.pair = pair]
  <2>1. pair \in MaybeToken
    BY <1>t, IssueIsToken, Values DEF TypeOK
  <2>2. flight' = [flight EXCEPT ![f] = state]
    BY <2>0
  <2>3. state \in FlightState /\ state.pc # "none"
    <3>1. flight[f] \in FlightState
      BY <1>t DEF TypeOK
    <3> HIDE DEF pair
    <3> QED
      BY <2>1, <3>1 DEF FlightState, Keys
  <2>4. faults' \in 0 .. MaxFaults
    BY <2>0, <1>t, SessionAssumption DEF TypeOK
  <2>5. /\ flight[f].pc # "none"
        /\ UNCHANGED <<now, registered, access, refresh, screens, form, req, refreshPromise,
                       crashes, lost>>
    BY DEF FlightAnswer
  <2> HIDE DEF pair, state
  <2>6. flight' \in [Request -> FlightState]
    BY <2>2, <2>3, <1>t DEF TypeOK
  <2>7. TypeOK'
    BY <2>4, <2>5, <2>6, <1>t DEF TypeOK
  <2> QED
    BY <2>2, <2>3, <2>5, <2>7, FlightKeeps
<1>17. CASE \E f \in Request : FlightLost(f)
  BY <1>17, <1>14, <1>t, Values, SessionAssumption DEF FlightLost, TypeOK
<1>18. CASE \E f \in Request, k \in Keys : StoreFlight(f, k)
  <2> PICK f \in Request, k \in Keys : StoreFlight(f, k)
    BY <1>18
  <2> DEFINE state == [flight[f] EXCEPT !.todo = flight[f].todo \ {k}]
  <2>1. flight[f] \in FlightState
    BY <1>t DEF TypeOK
  <2>2. state \in FlightState /\ state.pc # "none" /\ flight[f].pair \in MaybeToken
    BY <2>1 DEF StoreFlight, FlightState
  <2>3. flight' = [flight EXCEPT ![f] = state] /\ flight[f].pc # "none"
    BY DEF StoreFlight
  <2>4. access' \in MaybeToken /\ refresh' \in MaybeToken
    BY <2>2, <1>t DEF StoreFlight, Write, TypeOK
  <2> HIDE DEF state
  <2>5. TypeOK'
    BY <2>2, <2>3, <2>4, <1>t DEF StoreFlight, TypeOK
  <2> QED
    BY <2>2, <2>3, <2>5, FlightKeeps DEF StoreFlight
<1>19. CASE \E f \in Request : FlightEnd(f)
  <2> PICK f \in Request : FlightEnd(f)
    BY <1>19
  <2>1. flight[f].pair \in MaybeToken
    BY <1>t DEF TypeOK, FlightState
  <2>2. screens' \in Seq(Screen) /\ Len(screens') \in 1 .. MaxScreens
    BY <1>t, ReplaceKeeps DEF FlightEnd, Screen, TypeOK
  <2> QED
    BY <2>1, <2>2, <1>14, <1>t DEF FlightEnd, TypeOK
<1>20. CASE UNCHANGED vars
  BY <1>20, <1>t, RestKeeps DEF vars, phone, TypeOK
<1> QED
  BY <1>1, <1>2, <1>3, <1>4, <1>5, <1>6, <1>7, <1>8, <1>9, <1>10, <1>12, <1>13, <1>15, <1>16,
     <1>17, <1>18, <1>19, <1>20, <1>21, <1>22, <1>23, <1>24, <1>25
     DEF Next, FormStep, FlightStep

----------------------------------------------------------------------------
(* The order of the store, the forms and the refresh.                      *)

\* Nothing is stored, sent or asked for at the start.
LEMMA InitInOrder == Init => StoreInOrder /\ FormsInOrder /\ FlightsInOrder
BY DEF Init, StoreInOrder, FormsInOrder, FlightsInOrder, FlightInOrder, IdleForm, NoFlight

\* A token that was issued stays so, and one that is refused stays refused, as time passes.
LEMMA IssuedStays ==
    ASSUME TypeOK, TypeOK', now <= now', registered \subseteq registered', NEW t \in MaybeToken
    PROVE  /\ Issued(t) => t.acct \in registered' /\ t.born <= now'
           /\ t # None /\ ~ValidRefresh(t) => ~(now' < t.born + RefreshLife)
<1>1. CASE t = None
  BY <1>1 DEF Issued, ValidRefresh
<1>2. CASE t \in Token
  BY <1>2, SessionAssumption DEF Issued, ValidRefresh, Token, TypeOK
<1> QED
  BY <1>1, <1>2 DEF MaybeToken

\* The store stays as it is, forms store what was issued, and no refresh has sent or stored
\* anything it had not before: what was in order stays so.
LEMMA OrderKeeps ==
    ASSUME Inductive, TypeOK', now <= now', registered \subseteq registered',
           UNCHANGED refresh, faults' = 0 => faults = 0,
           \A g \in Form : form'[g] = form[g] \/ (form'[g].pc = "storing" => Issued(form[g].pair)'),
           \A f \in Request : flight'[f] = flight[f] \/ flight'[f].pc \in {"none", "lookup"}
    PROVE  StoreInOrder' /\ FormsInOrder' /\ FlightsInOrder'
<1>t. /\ TypeOK /\ refresh \in MaybeToken
      /\ \A g \in Form : form[g].pair \in MaybeToken
      /\ \A f \in Request : flight[f].pair \in MaybeToken
  BY Parts DEF Inductive, OneFlight, TypeOK
<1>1. StoreInOrder'
  BY <1>t, IssuedStays DEF Inductive, StoreInOrder, Issued
<1>2. FormsInOrder'
  <2> SUFFICES ASSUME NEW g \in Form, form'[g].pc = "storing" PROVE Issued(form[g].pair)'
    BY DEF FormsInOrder
  <2>1. CASE form'[g] = form[g]
    <3>1. Issued(form[g].pair) /\ form[g].pair \in MaybeToken
      BY <2>1, <1>t DEF Inductive, FormsInOrder
    <3>2. form[g].pair.acct \in registered' /\ form[g].pair.born <= now'
      BY <3>1, <1>t, IssuedStays
    <3> QED
      BY <2>1, <3>1, <3>2 DEF Issued
  <2> QED
    BY <2>1
<1>3. ASSUME NEW f \in Request, flight'[f] = flight[f] PROVE FlightInOrder(f)'
  <2>1. FlightInOrder(f)
    BY DEF Inductive, FlightsInOrder
  <2>2. /\ Issued(flight[f].pair) =>
             flight[f].pair.acct \in registered' /\ flight[f].pair.born <= now'
        /\ refresh # None /\ ~ValidRefresh(refresh) => ~(now' < refresh.born + RefreshLife)
    BY <1>t, IssuedStays
  <2> QED
    BY <1>3, <2>1, <2>2 DEF FlightInOrder, Issued, ValidRefresh
<1>4. ASSUME NEW f \in Request, flight'[f].pc \in {"none", "lookup"} PROVE FlightInOrder(f)'
  BY <1>4 DEF FlightInOrder
<1> QED
  BY <1>1, <1>2, <1>3, <1>4 DEF FlightsInOrder

\* A pair that is issued now is of its account, and not in the future.
LEMMA IssueIsIssued ==
    ASSUME TypeOK, NEW a \in Account, a \in registered', UNCHANGED now
    PROVE  Issue(a) # None /\ Issue(a).acct \in registered' /\ Issue(a).born <= now'
BY IssueIsToken, SessionAssumption DEF Issue, TypeOK

\* One key of a form's pair is stored.
LEMMA StoreFormKeeps ==
    ASSUME Inductive, TypeOK', NEW g \in Form, NEW k \in Keys, StoreForm(g, k)
    PROVE  StoreInOrder' /\ FormsInOrder' /\ FlightsInOrder'
<1>t. /\ TypeOK /\ UNCHANGED <<now, registered, faults>> /\ Issued(form[g].pair)
      /\ now <= now'
  BY DEF StoreForm, Inductive, OneFlight, FormsInOrder, TypeOK
<1>1. \A h \in Form : form'[h].pc = form[h].pc /\ form'[h].pair = form[h].pair
  <2>1. form[g] \in FormState
    BY <1>t, Parts
  <2>2. /\ [form[g] EXCEPT !.todo = form[g].todo \ {k}].pc = form[g].pc
        /\ [form[g] EXCEPT !.todo = form[g].todo \ {k}].pair = form[g].pair
    BY <2>1 DEF FormState, IdleForm
  <2> QED
    BY <2>2, <1>t DEF StoreForm, TypeOK
<1>2. FormsInOrder'
  BY <1>1, <1>t DEF Inductive, FormsInOrder, Issued
<1>3. CASE k = "access"
  <2>1. UNCHANGED refresh /\ \A f \in Request : flight'[f] = flight[f]
    <3>1. \A f \in Request : flight[f] \in FlightState
      BY <1>t, Parts
    <3> QED
      BY <1>3, <3>1 DEF StoreForm, Write, FlightState
  <2>2. StoreInOrder' /\ FlightsInOrder'
    BY <2>1, <1>t DEF Inductive, StoreInOrder, Issued, FlightsInOrder, FlightInOrder, ValidRefresh
  <2> QED
    BY <1>2, <2>2
<1>4. CASE k = "refresh"
  <2>1. refresh' = form[g].pair
    BY <1>4 DEF StoreForm, Write
  <2>2. StoreInOrder'
    BY <2>1, <1>t DEF StoreInOrder, Issued
  <2>3. ASSUME NEW f \in Request PROVE FlightInOrder(f)'
    <3>1. /\ flight'[f].pc = flight[f].pc /\ flight'[f].pair = flight[f].pair
          /\ flight'[f].pc \in {"sent", "storing"} => flight'[f].over
      <4>1. flight[f] \in FlightState
        BY <1>t, Parts
      <4> QED
        BY <1>4, <4>1 DEF StoreForm, FlightState
    <3>2. FlightInOrder(f)
      BY DEF Inductive, FlightsInOrder
    <3> QED
      BY <3>1, <3>2, <1>t DEF FlightInOrder, Issued
  <2> QED
    BY <1>2, <2>2, <2>3 DEF FlightsInOrder
<1> QED
  BY <1>3, <1>4 DEF Keys

\* A step of the refresh under way, which is the only one.
LEMMA FlightStepKeeps ==
    ASSUME Inductive, NEW f \in Request, flight[f].pc # "none",
           NEW state, flight' = [flight EXCEPT ![f] = state],
           UNCHANGED <<now, registered, form>>,
           refresh' # None => Issued(refresh)', FlightInOrder(f)'
    PROVE  StoreInOrder' /\ FormsInOrder' /\ FlightsInOrder'
<1>1. \A g \in Request : g # f => flight'[g].pc = "none"
  BY DEF Inductive, OneFlight, OneRefreshServesAll, TypeOK
<1>2. StoreInOrder' /\ FormsInOrder'
  BY DEF Inductive, StoreInOrder, FormsInOrder, Issued
<1>3. FlightsInOrder'
  BY <1>1 DEF FlightsInOrder, FlightInOrder
<1> QED
  BY <1>2, <1>3

\* The store hands over the token it has.
LEMMA FlightLookupKeeps ==
    ASSUME Inductive, NEW f \in Request, FlightLookup(f)
    PROVE  StoreInOrder' /\ FormsInOrder' /\ FlightsInOrder'
<1> DEFINE state == [flight[f] EXCEPT !.pc = "sent", !.pair = refresh]
<1>1. flight' = [flight EXCEPT ![f] = state]
  BY DEF FlightLookup
<1>2. flight[f] \in FlightState /\ f \in DOMAIN flight
  BY Parts DEF Inductive, OneFlight, TypeOK
<1>3. state.pc = "sent" /\ state.pair = refresh
  BY <1>2 DEF FlightState
<1> HIDE DEF state
<1>4. /\ flight[f].pc # "none" /\ UNCHANGED <<now, registered, form, refresh>>
      /\ refresh # None => Issued(refresh)
  BY DEF FlightLookup, Inductive, StoreInOrder
<1>5. FlightInOrder(f)'
  BY <1>1, <1>2, <1>3, <1>4 DEF FlightInOrder, Issued
<1> QED
  BY <1>1, <1>4, <1>5, FlightStepKeeps DEF Issued

\* The server answers a refresh: the new pair is of the token's account and not older.
LEMMA FlightAnswerKeeps ==
    ASSUME Inductive, NEW f \in Request, FlightAnswer(f)
    PROVE  StoreInOrder' /\ FormsInOrder' /\ FlightsInOrder'
<1> DEFINE sent == flight[f].pair
<1>t. /\ TypeOK /\ flight[f].pc = "sent" /\ sent # None /\ sent \in Token /\ Issued(sent)
      /\ ~flight[f].over => sent = refresh
      /\ flight[f] \in FlightState /\ f \in DOMAIN flight
      /\ UNCHANGED <<now, registered, refresh, form>>
  BY Parts DEF Inductive, OneFlight, FlightsInOrder, FlightInOrder, FlightAnswer, TypeOK, MaybeToken
<1>0. now \in Nat /\ faults \in Nat
  BY <1>t, SessionAssumption DEF TypeOK
<1>1. PICK failed \in BOOLEAN :
        /\ faults' = IF failed THEN faults + 1 ELSE faults
        /\ flight' = [flight EXCEPT ![f].pc = "storing", ![f].todo = Keys,
               ![f].pair = IF ~failed /\ ValidRefresh(sent) /\ sent.acct \in registered
                           THEN Issue(sent.acct) ELSE None]
  BY DEF FlightAnswer
<1> DEFINE pair == IF ~failed /\ ValidRefresh(sent) /\ sent.acct \in registered
                   THEN Issue(sent.acct) ELSE None
           state == [flight[f] EXCEPT !.pc = "storing", !.todo = Keys, !.pair = pair]
<1>2. flight' = [flight EXCEPT ![f] = state]
  BY <1>1
<1>3. /\ state.pc = "storing" /\ state.pair = pair /\ "refresh" \in state.todo
      /\ state.over = flight[f].over
  BY <1>t DEF FlightState, Keys
<1>4. flight'[f] = state
  BY <1>2, <1>t
<1>5. refresh # None => Issued(refresh)
  BY DEF Inductive, StoreInOrder
<1>6. CASE ~failed /\ ValidRefresh(sent)
  <2>1. sent.acct \in Account /\ sent.acct \in registered /\ sent.born <= now
    BY <1>t DEF Token, Issued
  <2>2. /\ pair = Issue(sent.acct) /\ pair # None /\ pair.acct = sent.acct /\ pair.born = now
        /\ Issued(pair)
    BY <1>6, <1>t, <1>0, <2>1, IssueIsToken DEF Issue, Issued
  <2> HIDE DEF pair, state, sent
  <2>3. FlightInOrder(f)'
    BY <1>3, <1>4, <1>t, <2>1, <2>2 DEF FlightInOrder, Issued
  <2> QED
    BY <1>2, <1>t, <1>5, <2>3, FlightStepKeeps DEF Issued
<1>7. CASE failed \/ ~ValidRefresh(sent)
  <2>1. pair = None /\ (faults' = 0 => ~ValidRefresh(sent))
    BY <1>7, <1>1, <1>0
  <2> HIDE DEF pair, state, sent
  <2>2. FlightInOrder(f)'
    BY <1>3, <1>4, <1>t, <2>1 DEF FlightInOrder, ValidRefresh
  <2> QED
    BY <1>2, <1>t, <1>5, <2>2, FlightStepKeeps DEF Issued
<1> QED
  BY <1>6, <1>7

\* One key of a refresh's pair is stored, or deleted.
LEMMA StoreFlightKeeps ==
    ASSUME Inductive, NEW f \in Request, NEW k \in Keys, StoreFlight(f, k)
    PROVE  StoreInOrder' /\ FormsInOrder' /\ FlightsInOrder'
<1> DEFINE state == [flight[f] EXCEPT !.todo = flight[f].todo \ {k}]
<1>t. /\ TypeOK /\ flight[f].pc = "storing" /\ k \in flight[f].todo
      /\ flight[f] \in FlightState /\ f \in DOMAIN flight
      /\ UNCHANGED <<now, registered, form, faults>> /\ FlightInOrder(f)
  BY Parts DEF Inductive, OneFlight, FlightsInOrder, StoreFlight, TypeOK
<1>1. flight' = [flight EXCEPT ![f] = state] /\ flight'[f] = state
  BY <1>t DEF StoreFlight
<1>2. /\ state.pc = "storing" /\ state.pair = flight[f].pair /\ state.over = flight[f].over
      /\ state.todo = flight[f].todo \ {k}
  BY <1>t DEF FlightState
<1>3. refresh # None => Issued(refresh)
  BY DEF Inductive, StoreInOrder
<1> HIDE DEF state
<1>4. CASE k = "access"
  <2>1. refresh' = refresh /\ ("refresh" \in state.todo <=> "refresh" \in flight[f].todo)
    BY <1>2, <1>4 DEF StoreFlight, Write
  <2>2. FlightInOrder(f)'
    BY <1>1, <1>2, <1>t, <2>1 DEF FlightInOrder, Issued, ValidRefresh
  <2> QED
    BY <1>1, <1>3, <1>t, <2>1, <2>2, FlightStepKeeps DEF Issued
<1>5. CASE k = "refresh"
  <2>1. refresh' = flight[f].pair /\ "refresh" \notin state.todo
    BY <1>2, <1>5 DEF StoreFlight, Write
  <2>2. flight[f].pair # None => Issued(flight[f].pair)
    BY <1>t DEF FlightInOrder
  <2>3. FlightInOrder(f)'
    BY <1>1, <1>2, <1>t, <2>1, <2>2 DEF FlightInOrder, Issued
  <2> QED
    BY <1>1, <1>t, <2>1, <2>2, <2>3, FlightStepKeeps DEF Issued
<1> QED
  BY <1>4, <1>5 DEF Keys

\* Every step keeps the order.
LEMMA StepInOrder ==
    Inductive /\ TypeOK' /\ [Next]_vars => StoreInOrder' /\ FormsInOrder' /\ FlightsInOrder'
<1> SUFFICES ASSUME Inductive, TypeOK', [Next]_vars
             PROVE  StoreInOrder' /\ FormsInOrder' /\ FlightsInOrder'
  OBVIOUS
<1>t. TypeOK /\ TypeOK' /\ now \in Nat /\ now <= now
  BY SessionAssumption DEF Inductive, OneFlight, TypeOK
<1>1. CASE Enter \/ Push \/ Back
  BY <1>1, <1>t, OrderKeeps DEF Enter, Push, Back
<1>2. CASE \E g \in Form, kind \in {"up", "in"}, a \in Account : Submit(g, kind, a)
  <2> PICK g \in Form, kind \in {"up", "in"}, a \in Account : Submit(g, kind, a)
    BY <1>2
  <2>1. \A h \in Form : form'[h] = form[h] \/ form'[h].pc # "storing"
    BY <1>t DEF Submit, IdleForm, TypeOK
  <2> QED
    BY <2>1, <1>t, OrderKeeps DEF Submit
<1>3. ASSUME NEW g \in Form, form[g].pc # "idle", Granted(g), form[g].acct \in registered',
             UNCHANGED <<now, refresh, flight, faults>>, registered \subseteq registered'
      PROVE  StoreInOrder' /\ FormsInOrder' /\ FlightsInOrder'
  <2>1. Issued(form[g].pair)'
    <3>1. form[g].acct \in Account /\ form'[g].pair = Issue(form[g].acct)
      BY <1>3, <1>t, Parts, GrantedKeeps
    <3> QED
      BY <3>1, <1>3, <1>t, IssueIsIssued DEF Issued
  <2>2. \A h \in Form : form'[h] = form[h] \/ (form'[h].pc = "storing" => Issued(form[h].pair)')
    BY <2>1, <1>3, <1>t, GrantedKeeps
  <2> QED
    BY <2>2, <1>3, <1>t, OrderKeeps
<1>4. ASSUME NEW g \in Form, Refused(g),
             UNCHANGED <<now, refresh, flight, faults>>, registered \subseteq registered'
      PROVE  StoreInOrder' /\ FormsInOrder' /\ FlightsInOrder'
  <2>1. \A h \in Form : form'[h] = form[h] \/ form'[h].pc # "storing"
    BY <1>4, <1>t, RefusedKeeps
  <2> QED
    BY <2>1, <1>4, <1>t, OrderKeeps
<1>5. CASE \E g \in Form : SignIn(g)
  BY <1>5, <1>3, <1>4 DEF SignIn
<1>6. CASE \E g \in Form : SignUpLookup(g)
  <2> PICK g \in Form : SignUpLookup(g)
    BY <1>6
  <2>1. CASE Refused(g)
    BY <2>1, <1>4 DEF SignUpLookup
  <2>2. CASE form' = [form EXCEPT ![g].pc = "hashed"]
    <3>1. form[g] \in FormState
      BY <1>t, Parts
    <3>2. \A h \in Form : form'[h] = form[h] \/ form'[h].pc # "storing"
      BY <2>2, <3>1, <1>t DEF TypeOK, FormState, IdleForm
    <3> QED
      BY <3>2, <1>t, OrderKeeps DEF SignUpLookup
  <2> QED
    BY <2>1, <2>2 DEF SignUpLookup
<1>7. CASE \E g \in Form : SignUpInsert(g)
  BY <1>7, <1>3, <1>4 DEF SignUpInsert
<1>8. CASE \E g \in Form : FormLost(g)
  BY <1>8, <1>4 DEF FormLost
<1>9. CASE \E g \in Form : OpenTabs(g)
  <2> PICK g \in Form : OpenTabs(g)
    BY <1>9
  <2>1. \A h \in Form : form'[h] = form[h] \/ form'[h].pc # "storing"
    BY <1>t DEF OpenTabs, IdleForm, TypeOK
  <2> QED
    BY <2>1, <1>t, OrderKeeps DEF OpenTabs
<1>10. CASE \E g \in Form, k \in Keys : StoreForm(g, k)
  BY <1>10, <1>t, StoreFormKeeps
<1>11. CASE \E a \in Account : RegisterElsewhere(a)
  BY <1>11, <1>t, OrderKeeps DEF RegisterElsewhere, phone
<1>12. CASE Tick
  BY <1>12, <1>t, OrderKeeps DEF Tick, phone
<1>13. CASE Crash
  BY <1>13, <1>t, OrderKeeps DEF Crash, IdleForm, NoFlight
<1>14. CASE \E r \in Request : Start(r) \/ AnswerLost(r)
  BY <1>14, <1>t, OrderKeeps DEF Start, AnswerLost
<1>15. CASE \E r \in Request : Answer(r)
  <2> PICK r \in Request : Answer(r)
    BY <1>15
  <2>1. \A f \in Request : flight'[f] = flight[f] \/ flight'[f].pc = "lookup"
    BY <1>t DEF Answer, JoinOrStartRefresh, NoFlight, TypeOK
  <2> QED
    BY <2>1, <1>t, OrderKeeps DEF Answer
<1>16. ASSUME NEW f \in Request, NEW pair, Settle(f, pair),
              UNCHANGED <<now, registered, refresh, form, faults>>
       PROVE  StoreInOrder' /\ FormsInOrder' /\ FlightsInOrder'
  <2>1. \A g \in Request : flight'[g] = flight[g] \/ flight'[g].pc = "none"
    BY <1>16, <1>t DEF Settle, NoFlight, TypeOK
  <2> QED
    BY <2>1, <1>16, <1>t, OrderKeeps
<1>17. CASE \E f \in Request : FlightNothing(f) \/ FlightLost(f) \/ FlightEnd(f)
  BY <1>17, <1>16 DEF FlightNothing, FlightLost, FlightEnd
<1>18. CASE \E f \in Request : FlightLookup(f)
  BY <1>18, FlightLookupKeeps
<1>19. CASE \E f \in Request : FlightAnswer(f)
  BY <1>19, FlightAnswerKeeps
<1>20. CASE \E f \in Request, k \in Keys : StoreFlight(f, k)
  BY <1>20, StoreFlightKeeps
<1>21. CASE UNCHANGED vars
  BY <1>21, <1>t, OrderKeeps DEF vars, phone
<1> QED
  BY <1>1, <1>2, <1>5, <1>6, <1>7, <1>8, <1>9, <1>10, <1>11, <1>12, <1>13, <1>14, <1>15,
     <1>17, <1>18, <1>19, <1>20, <1>21
     DEF Next, FormStep, FlightStep

\* Every step keeps the invariant.
LEMMA StepInductive == Inductive /\ [Next]_vars => Inductive'
<1> SUFFICES ASSUME Inductive, [Next]_vars PROVE Inductive'
  OBVIOUS
<1>1. OneFlight'
  BY StepOneFlight DEF Inductive
<1>2. StoreInOrder' /\ FormsInOrder' /\ FlightsInOrder'
  BY <1>1, StepInOrder DEF OneFlight
<1> QED
  BY <1>1, <1>2 DEF Inductive

----------------------------------------------------------------------------
(* Theorems.                                                               *)

\* The invariant holds in every reachable state, for any accounts, requests, submits under
\* way and bounds: one refresh at a time, only issued tokens anywhere, and a refresh that no
\* sign-in was stored over works on the token the store has (api-client.ts 136-176).
THEOREM SessionInvariant == Spec => []Inductive
<1>1. Init => Inductive
  BY InitOneFlight, InitInOrder DEF Inductive
<1>2. Inductive /\ [Next]_vars => Inductive'
  BY StepInductive
<1> QED
  BY <1>1, <1>2, PTL DEF Spec

\* However many requests meet an expired token, one refresh serves them, and none is left
\* waiting by its end.
THEOREM OneRefreshAtATime == Spec => []OneRefreshServesAll
<1>1. Inductive => OneRefreshServesAll
  BY DEF Inductive, OneFlight
<1> QED
  BY <1>1, SessionInvariant, PTL

\* Who writes the refresh token: a form, or the refresh under way.
LEMMA Writers ==
    ASSUME Inductive, [Next]_vars, refresh' # refresh
    PROVE  \/ \E g \in Form : /\ form[g].pc = "storing" /\ refresh' = form[g].pair
                              /\ refresh' # None
           \/ \E f \in Request : /\ flight[f].pc = "storing" /\ "refresh" \in flight[f].todo
                                 /\ refresh' = flight[f].pair
<1>1. CASE \E g \in Form, k \in Keys : StoreForm(g, k)
  BY <1>1 DEF StoreForm, Write, Inductive, FormsInOrder, Issued
<1>2. CASE \E f \in Request, k \in Keys : StoreFlight(f, k)
  BY <1>2 DEF StoreFlight, Write
<1> QED
  BY <1>1, <1>2
     DEF Next, FormStep, FlightStep, vars, phone, Enter, Push, Back, Submit, SignIn, SignUpLookup,
         SignUpInsert, FormLost, OpenTabs, RegisterElsewhere, Tick, Crash, Start, Answer,
         AnswerLost, FlightLookup, FlightNothing, FlightAnswer, FlightLost, FlightEnd

\* For any accounts, requests, submits, lifetimes and bounds, a refresh token the server
\* would still take is deleted only after a failure of the server itself, or by the refusal
\* of a refresh during which a sign-in was stored (api-client.ts 161-173).
THEOREM SessionsEndByFaults == Spec => OnlyFaultsEndSessions
<1>1. Inductive /\ [Next]_vars =>
         (refresh' = None /\ faults = 0 => ~ValidRefresh(refresh) \/ Overtaken)
  <2> SUFFICES ASSUME Inductive, [Next]_vars, refresh' = None, faults = 0, ~Overtaken
               PROVE  ~ValidRefresh(refresh)
    OBVIOUS
  <2>1. CASE refresh' = refresh
    BY <2>1 DEF ValidRefresh
  <2>2. CASE refresh' # refresh
    BY <2>2, Writers DEF Inductive, FlightsInOrder, FlightInOrder, Overtaken
  <2> QED
    BY <2>1, <2>2
<1> QED
  BY <1>1, SessionInvariant, PTL DEF Spec, OnlyFaultsEndSessions

\* For any of them, a refresh puts in the place of a token one of the same account that is
\* not older, unless a sign-in was stored while it was under way; a sign-in puts its own
\* there, the older of two if its answer is the later (api-client.ts 158-166, login.tsx 75).
THEOREM RefreshesMoveForward == Spec => RefreshMovesForward
<1>1. Inductive /\ [Next]_vars =>
        (refresh # None /\ refresh' # None
         => \/ refresh'.acct = refresh.acct /\ refresh'.born >= refresh.born
            \/ \E g \in Form : form[g].pc = "storing" /\ refresh' = form[g].pair
            \/ Overtaken)
  <2> SUFFICES ASSUME Inductive, [Next]_vars, refresh # None, refresh' # None, ~Overtaken,
                      ~ \E g \in Form : form[g].pc = "storing" /\ refresh' = form[g].pair
               PROVE  refresh'.acct = refresh.acct /\ refresh'.born >= refresh.born
    OBVIOUS
  <2>1. refresh.born \in Nat
    BY DEF Inductive, OneFlight, TypeOK, MaybeToken, Token
  <2>2. CASE refresh' = refresh
    BY <2>1, <2>2
  <2>3. CASE refresh' # refresh
    <3>1. PICK f \in Request : /\ flight[f].pc = "storing" /\ "refresh" \in flight[f].todo
                               /\ refresh' = flight[f].pair
      BY <2>3, Writers
    <3>2. flight[f].pair.born \in Nat
      BY <3>1, Parts DEF Inductive, OneFlight, MaybeToken, Token
    <3> QED
      BY <2>1, <3>1, <3>2 DEF Inductive, FlightsInOrder, FlightInOrder, Overtaken
  <2> QED
    BY <2>2, <2>3
<1> QED
  BY <1>1, SessionInvariant, PTL DEF Spec, RefreshMovesForward
=============================================================================
