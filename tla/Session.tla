------------------------------ MODULE Session ------------------------------
(***************************************************************************)
(* The signed-in session of one phone: the screens that obtain a pair of   *)
(* tokens, the store that keeps it, the client that sends every request    *)
(* with the access token and renews the pair once when it has expired, and *)
(* the stateless server that issues and verifies both tokens.  A token is  *)
(* the account it names and the time it was issued; time is a counter.     *)
(*                                                                         *)
(* The login and the sign-up screen each guard their own submit, and each  *)
(* has a link to the other: any number of submits may be under way at a    *)
(* time, whatever screen is shown.                                         *)
(*                                                                         *)
(* A definition marked Slip is no part of Next: it is a plausible mistake, *)
(* and the runs show that a property notices it.                           *)
(***************************************************************************)
EXTENDS Integers, FiniteSets, Sequences

CONSTANTS Account, Request,
          Form,                      \* the submits that may be under way at a time
          MaxScreens,                \* bound: screens on the router's stack
          AccessLife, RefreshLife,   \* 15 minutes and 7 days, in ticks
          MaxTime, MaxCrashes, MaxLost, MaxFaults  \* bounds: ticks, kills of the app,
                                                   \* lost answers, failures of the server

ASSUME SessionAssumption ==
    /\ AccessLife \in Nat \ {0} /\ RefreshLife \in Nat /\ AccessLife < RefreshLife
    /\ MaxScreens \in Nat \ {0}
    /\ MaxTime \in Nat /\ MaxCrashes \in Nat /\ MaxLost \in Nat /\ MaxFaults \in Nat
    /\ "none" \notin Account \cup Request

VARIABLES
    now,          \* the clock
    registered,   \* accounts with a row in users
    access,       \* the access token in secure storage, or None
    refresh,      \* the refresh token in secure storage, or None
    screens,      \* the router's stack, the screen that is shown last
    form,         \* the sign-ups and sign-ins being submitted
    req,          \* the requests of the tabs, each one call of apiRequest
    flight,       \* the refresh a request has started
    refreshPromise, \* the request whose refresh the client remembers, or None
    crashes, lost, faults

phone == <<screens, form, req, flight, refreshPromise>>
vars == <<now, registered, access, refresh, phone, crashes, lost, faults>>

None == [acct |-> "none", born |-> 0]
Token == [acct: Account, born: 0 .. MaxTime]
MaybeToken == Token \cup {None}
Keys == {"access", "refresh"}

\* The entry screen, the login or the sign-up screen, a screen for who is signed in.
Screen == {"entry", "auth", "app"}
Top == screens[Len(screens)]

\* verifyAsync with the lifetime the token was signed with.
ValidAccess(t) == t # None /\ now < t.born + AccessLife
ValidRefresh(t) == t # None /\ now < t.born + RefreshLife
\* issueTokens: both tokens of the pair are signed at once, so one value stands for both.
Issue(a) == [acct |-> a, born |-> now]

IdleForm == [pc |-> "idle", acct |-> "none", pair |-> None, todo |-> {}]
IdleReq == [pc |-> "idle", token |-> None, on |-> "none"]
NoFlight == [pc |-> "none", pair |-> None, todo |-> {}, over |-> FALSE]

Init ==
    /\ now = 0 /\ registered = {} /\ crashes = 0 /\ lost = 0 /\ faults = 0
    /\ access = None /\ refresh = None
    /\ screens = <<"entry">> /\ form = [g \in Form |-> IdleForm]
    /\ req = [r \in Request |-> IdleReq]
    /\ flight = [r \in Request |-> NoFlight]
    /\ refreshPromise = "none"

----------------------------------------------------------------------------
(* The secure store: a pair is written, and deleted, key by key.           *)

\* setTokens and clear: Promise.all over the two keys, in either order.
Write(k, t) ==
    /\ access' = IF k = "access" THEN t ELSE access
    /\ refresh' = IF k = "refresh" THEN t ELSE refresh

\* getTokens: a pair, or null when either key is missing.
HasPair == access # None /\ refresh # None

----------------------------------------------------------------------------
(* The router.                                                             *)

\* router.replace: another screen in the place of the one that is shown.
Replace(screen) == screens' = [screens EXCEPT ![Len(screens)] = screen]

\* A link leads on: from the login to the sign-up screen or back, each time to a new one,
\* and from a screen of the app to the next.
Push ==
    /\ Top \in {"auth", "app"} /\ Len(screens) < MaxScreens
    /\ screens' = Append(screens, Top)
    /\ UNCHANGED <<now, registered, access, refresh, form, req, flight, refreshPromise, crashes, lost, faults>>

\* The screen that is shown is left for the one beneath: what it has under way goes on.
Back ==
    /\ Len(screens) > 1
    /\ screens' = SubSeq(screens, 1, Len(screens) - 1)
    /\ UNCHANGED <<now, registered, access, refresh, form, req, flight, refreshPromise, crashes, lost, faults>>

----------------------------------------------------------------------------
(* The screens in front of the tabs.                                       *)

\* The entry screen looks for a pair and leaves for the tabs or the login screen.
Enter ==
    /\ Top = "entry"
    /\ Replace(IF HasPair THEN "app" ELSE "auth")
    /\ UNCHANGED <<now, registered, access, refresh, form, req, flight, refreshPromise, crashes, lost, faults>>

\* onSubmit of a login or a sign-up screen sends its form.  Which screen it is does not
\* matter: with one submit under way, the link leads to a screen that has none.
Submit(g, kind, a) ==
    /\ Top = "auth" /\ form[g].pc = "idle"
    /\ form' = [form EXCEPT ![g] = [IdleForm EXCEPT !.pc = kind, !.acct = a]]
    /\ UNCHANGED <<now, registered, access, refresh, screens, req, flight, refreshPromise, crashes, lost, faults>>

\* The handler answers with a pair, which the screen begins to store.
Granted(g) ==
    form' = [form EXCEPT ![g].pc = "storing", ![g].pair = Issue(form[g].acct), ![g].todo = Keys]
\* The handler answers with an error, which the screen shows before it waits again.
Refused(g) == form' = [form EXCEPT ![g] = IdleForm]

\* signIn: the account exists (and the password fits), or 401.
SignIn(g) ==
    /\ form[g].pc = "in"
    /\ \/ form[g].acct \in registered /\ Granted(g)
       \/ Refused(g)
    /\ UNCHANGED <<now, registered, access, refresh, screens, req, flight, refreshPromise, crashes, lost, faults>>

\* signUp, first half: the address is looked up and the password hashed.
SignUpLookup(g) ==
    /\ form[g].pc = "up"
    /\ IF form[g].acct \in registered THEN Refused(g)
       ELSE form' = [form EXCEPT ![g].pc = "hashed"]
    /\ UNCHANGED <<now, registered, access, refresh, screens, req, flight, refreshPromise, crashes, lost, faults>>

\* signUp, second half: the insert meets the unique index, or the pair is issued.
SignUpInsert(g) ==
    /\ form[g].pc = "hashed"
    /\ IF form[g].acct \in registered THEN Refused(g) ELSE Granted(g)
    /\ registered' = registered \cup {form[g].acct}
    /\ UNCHANGED <<now, access, refresh, screens, req, flight, refreshPromise,
                   crashes, lost, faults>>

\* The answer is lost on its way, with the handler before or after its insert.
FormLost(g) ==
    /\ form[g].pc \in {"in", "up", "hashed"} /\ lost < MaxLost
    /\ registered' \in {registered} \cup
           (IF form[g].pc = "hashed" THEN {registered \cup {form[g].acct}} ELSE {})
    /\ lost' = lost + 1
    /\ Refused(g)
    /\ UNCHANGED <<now, access, refresh, screens, req, flight, refreshPromise, crashes, faults>>

\* Somebody signs up elsewhere with the same address.
RegisterElsewhere(a) ==
    /\ a \notin registered
    /\ registered' = registered \cup {a}
    /\ UNCHANGED <<now, access, refresh, phone, crashes, lost, faults>>

\* setTokens of the form.  A refresh that has read its token by now is over: what it
\* stores or clears is not what it sent (a history of the properties below).
StoreForm(g, k) ==
    /\ form[g].pc = "storing" /\ k \in form[g].todo
    /\ Write(k, form[g].pair)
    /\ form' = [form EXCEPT ![g].todo = form[g].todo \ {k}]
    /\ flight' = [f \in Request |->
                    [flight[f] EXCEPT !.over = @ \/ (k = "refresh" /\ flight[f].pc \in {"sent", "storing"})]]
    /\ UNCHANGED <<now, registered, screens, req, refreshPromise, crashes, lost, faults>>

\* router.replace to the tabs, once both keys are stored, over whatever is shown.
OpenTabs(g) ==
    /\ form[g].pc = "storing" /\ form[g].todo = {}
    /\ Replace("app") /\ form' = [form EXCEPT ![g] = IdleForm]
    /\ UNCHANGED <<now, registered, access, refresh, req, flight, refreshPromise,
                   crashes, lost, faults>>

----------------------------------------------------------------------------
(* apiRequest.                                                             *)

\* A query of a screen of the app, be it covered, reads the access token and sends its request.
Start(r) ==
    /\ \E i \in 1 .. Len(screens) : screens[i] = "app"
    /\ req[r].pc = "idle"
    /\ req' = [req EXCEPT ![r] = [IdleReq EXCEPT !.pc = "sent", !.token = access]]
    /\ UNCHANGED <<now, registered, access, refresh, screens, form, flight, refreshPromise, crashes, lost, faults>>

\* Slip: every request that meets a 401 starts a refresh of its own.
StartOwnRefresh(r) ==
    /\ req' = [req EXCEPT ![r] = [req[r] EXCEPT !.pc = "waiting", !.on = r]]
    /\ flight' = [flight EXCEPT ![r] = [NoFlight EXCEPT !.pc = "lookup"]]
    /\ refreshPromise' = r

\* refreshTokens: a refresh on its way is joined, otherwise one starts.
JoinOrStartRefresh(r) ==
    IF refreshPromise # "none"
    THEN /\ req' = [req EXCEPT ![r] = [req[r] EXCEPT !.pc = "waiting", !.on = refreshPromise]]
         /\ UNCHANGED <<flight, refreshPromise>>
    ELSE /\ req' = [req EXCEPT ![r] = [req[r] EXCEPT !.pc = "waiting", !.on = r]]
         /\ flight' = [flight EXCEPT ![r] = [NoFlight EXCEPT !.pc = "lookup"]]
         /\ refreshPromise' = r

\* The request ends, with data or an error the screen shows.
End(r) == req' = [req EXCEPT ![r] = IdleReq]

\* The guard accepts the token and the request ends with its data, or it answers 401: the
\* first one of a request that carried a token asks for a refresh, any other is an error.
Answer(r) ==
    /\ req[r].pc \in {"sent", "retried"}
    /\ IF ~ValidAccess(req[r].token) /\ req[r].pc = "sent" /\ req[r].token # None
       THEN JoinOrStartRefresh(r)
       ELSE End(r) /\ UNCHANGED <<flight, refreshPromise>>
    /\ UNCHANGED <<now, registered, access, refresh, screens, form, crashes, lost, faults>>

\* The request or its answer is lost.
AnswerLost(r) ==
    /\ req[r].pc \in {"sent", "retried"} /\ lost < MaxLost
    /\ End(r) /\ lost' = lost + 1
    /\ UNCHANGED <<now, registered, access, refresh, screens, form, flight, refreshPromise, crashes, faults>>

----------------------------------------------------------------------------
(* refreshTokens.                                                          *)

\* Slip: the refresh wakes only the request that started it.
SettleOne(f, pair) ==
    /\ flight' = [flight EXCEPT ![f] = NoFlight]
    /\ refreshPromise' = "none"
    /\ req' = [req EXCEPT ![f] = IF pair = None THEN IdleReq
                  ELSE [req[f] EXCEPT !.pc = "retried", !.token = pair, !.on = "none"]]

\* Slip: the promise is not forgotten.
SettleRemembered(f, pair) ==
    /\ flight' = [flight EXCEPT ![f] = NoFlight]
    /\ UNCHANGED refreshPromise
    /\ req' = [r \in Request |->
          IF req[r].pc = "waiting" /\ req[r].on = f
          THEN IF pair = None THEN IdleReq
               ELSE [req[r] EXCEPT !.pc = "retried", !.token = pair, !.on = "none"]
          ELSE req[r]]

\* The refresh ends: the promise is forgotten and everyone who waited on it goes on, to
\* retry with the new pair or to report the 401 it had.
Settle(f, pair) ==
    /\ flight' = [flight EXCEPT ![f] = NoFlight]
    /\ refreshPromise' = "none"
    /\ req' = [r \in Request |->
          IF req[r].pc = "waiting" /\ req[r].on = f
          THEN IF pair = None THEN IdleReq
               ELSE [req[r] EXCEPT !.pc = "retried", !.token = pair, !.on = "none"]
          ELSE req[r]]

\* getRefreshToken: the store hands over what it holds.
FlightLookup(f) ==
    /\ flight[f].pc = "lookup"
    /\ flight' = [flight EXCEPT ![f].pc = "sent", ![f].pair = refresh]
    /\ UNCHANGED <<now, registered, access, refresh, screens, form, req, refreshPromise, crashes, lost, faults>>

\* Without a token there is nothing to send: the login screen is opened.
FlightNothing(f) ==
    /\ flight[f].pc = "sent" /\ flight[f].pair = None
    /\ Settle(f, None) /\ Replace("auth")
    /\ UNCHANGED <<now, registered, access, refresh, form, crashes, lost, faults>>

\* The server issues a new pair, or answers LOG_OUT: the pair is to be stored or cleared.
\* An error of the server itself (500, the database away) is an ERROR body too.
FlightAnswer(f) ==
    /\ flight[f].pc = "sent" /\ flight[f].pair # None
    /\ \E failed \in BOOLEAN, t \in {flight[f].pair} :
         /\ failed => faults < MaxFaults
         /\ faults' = IF failed THEN faults + 1 ELSE faults
         /\ flight' = [flight EXCEPT ![f].pc = "storing", ![f].todo = Keys,
                ![f].pair = IF ~failed /\ ValidRefresh(t) /\ t.acct \in registered
                            THEN Issue(t.acct) ELSE None]
    /\ UNCHANGED <<now, registered, access, refresh, screens, form, req, refreshPromise, crashes, lost>>

\* Slip: a lost exchange ends the session like a refused one.
FlightLostClears(f) ==
    /\ flight[f].pc = "sent" /\ flight[f].pair # None /\ lost < MaxLost
    /\ flight' = [flight EXCEPT ![f].pc = "storing", ![f].todo = Keys, ![f].pair = None]
    /\ lost' = lost + 1
    /\ UNCHANGED <<now, registered, access, refresh, screens, form, req, refreshPromise, crashes, faults>>

\* The exchange is lost: the tokens stay and the request reports its own error.
FlightLost(f) ==
    /\ flight[f].pc = "sent" /\ flight[f].pair # None /\ lost < MaxLost
    /\ Settle(f, None) /\ lost' = lost + 1
    /\ UNCHANGED <<now, registered, access, refresh, screens, form, crashes, faults>>

StoreFlight(f, k) ==
    /\ flight[f].pc = "storing" /\ k \in flight[f].todo
    /\ Write(k, flight[f].pair)
    /\ flight' = [flight EXCEPT ![f].todo = flight[f].todo \ {k}]
    /\ UNCHANGED <<now, registered, screens, form, req, refreshPromise, crashes, lost, faults>>

\* A cleared pair also opens the login screen, in the place of whatever screen is shown
\* (onUnauthorized of the root layout).
FlightEnd(f) ==
    /\ flight[f].pc = "storing" /\ flight[f].todo = {}
    /\ Settle(f, flight[f].pair)
    /\ IF flight[f].pair = None THEN Replace("auth") ELSE UNCHANGED screens
    /\ UNCHANGED <<now, registered, access, refresh, form, crashes, lost, faults>>

----------------------------------------------------------------------------
(* The environment.                                                        *)

Tick ==
    /\ now < MaxTime
    /\ now' = now + 1
    /\ UNCHANGED <<registered, access, refresh, phone, crashes, lost, faults>>

\* The app is killed and opened again: only the secure store survives.
Crash ==
    /\ crashes < MaxCrashes /\ Top # "entry"
    /\ crashes' = crashes + 1
    /\ screens' = <<"entry">> /\ form' = [g \in Form |-> IdleForm] /\ refreshPromise' = "none"
    /\ req' = [r \in Request |-> IdleReq]
    /\ flight' = [r \in Request |-> NoFlight]
    /\ UNCHANGED <<now, registered, access, refresh, lost, faults>>

FormStep(g) == SignIn(g) \/ SignUpLookup(g) \/ SignUpInsert(g) \/ OpenTabs(g)
               \/ \E k \in Keys : StoreForm(g, k)
FlightStep(f) == FlightLookup(f) \/ FlightNothing(f) \/ FlightAnswer(f) \/ FlightEnd(f)
                 \/ \E k \in Keys : StoreFlight(f, k)

Next ==
    \/ Enter \/ Push \/ Back \/ Tick \/ Crash
    \/ \E g \in Form : FormStep(g) \/ FormLost(g)
    \/ \E g \in Form, kind \in {"up", "in"}, a \in Account : Submit(g, kind, a)
    \/ \E a \in Account : RegisterElsewhere(a)
    \/ \E r \in Request : Start(r) \/ Answer(r) \/ AnswerLost(r) \/ FlightStep(r) \/ FlightLost(r)

Spec == Init /\ [][Next]_vars

\* The event loop runs what is ready and a request that is not lost is answered.
FairSpec == Spec /\ \A r \in Request : WF_vars(Answer(r)) /\ WF_vars(FlightStep(r))

----------------------------------------------------------------------------
(* Properties.                                                             *)

FormState == {IdleForm} \cup [pc: {"up", "in", "hashed", "storing"}, acct: Account,
                             pair: MaybeToken, todo: SUBSET Keys]
ReqState == [pc: {"idle", "sent", "retried"}, token: MaybeToken, on: {"none"}]
            \cup [pc: {"waiting"}, token: Token, on: Request]
FlightState == [pc: {"none", "lookup", "sent", "storing"}, pair: MaybeToken,
                todo: SUBSET Keys, over: BOOLEAN]

\* The types of the variables.
TypeOK ==
    /\ now \in 0 .. MaxTime /\ registered \subseteq Account
    /\ access \in MaybeToken /\ refresh \in MaybeToken
    /\ screens \in Seq(Screen) /\ Len(screens) \in 1 .. MaxScreens
    /\ form \in [Form -> FormState]
    /\ req \in [Request -> ReqState]
    /\ flight \in [Request -> FlightState]
    /\ refreshPromise \in Request \cup {"none"}
    /\ crashes \in 0 .. MaxCrashes /\ lost \in 0 .. MaxLost /\ faults \in 0 .. MaxFaults

\* However many requests meet an expired token at once, one refresh is under way, and
\* everyone who waits waits for that one: none is left behind by its end (api-client.ts
\* 137 and 172).
OneRefreshServesAll ==
    /\ \A f \in Request : flight[f].pc # "none" => refreshPromise = f
    /\ \A r \in Request : req[r].pc = "waiting" => flight[req[r].on].pc # "none"

\* Every refresh under way is the one that is remembered, and what is remembered is under way.
OneFlight ==
    /\ TypeOK
    /\ OneRefreshServesAll
    /\ refreshPromise # "none" => flight[refreshPromise].pc # "none"

\* A token the server has issued: of an account that exists, and not in the future.
Issued(t) == t # None /\ t.acct \in registered /\ t.born <= now

StoreInOrder == refresh # None => Issued(refresh)

FormsInOrder == \A g \in Form : form[g].pc = "storing" => Issued(form[g].pair)

\* A refresh under way holds what it read, or what the server gave for that: a pair of the
\* same account that is not older, or nothing for a token it refused.  As long as no
\* sign-in is stored over it, what it read is what the store has.
FlightInOrder(f) ==
    LET pair == flight[f].pair
        pending == "refresh" \in flight[f].todo
    IN  /\ flight[f].pc = "sent" =>
              /\ pair # None => Issued(pair)
              /\ ~flight[f].over => pair = refresh
        /\ flight[f].pc = "storing" /\ pair # None =>
              /\ Issued(pair)
              /\ pending /\ ~flight[f].over =>
                    refresh # None /\ pair.acct = refresh.acct /\ refresh.born <= pair.born
        /\ flight[f].pc = "storing" /\ pair = None /\ ~flight[f].over =>
              IF pending THEN faults = 0 => ~ValidRefresh(refresh) ELSE refresh = None

FlightsInOrder == \A f \in Request : FlightInOrder(f)

\* The invariant the proofs use.
Inductive == OneFlight /\ StoreInOrder /\ FormsInOrder /\ FlightsInOrder

\* A refresh that a sign-in was stored over while it was under way: what it stores or
\* clears then is another session than the one it set out from.
Overtaken == \E f \in Request : flight[f].pc = "storing" /\ flight[f].over

\* A refresh token the server would still take is not deleted, neither by a lost exchange
\* nor by a late refusal of an older token, as long as the server answers every refresh by
\* what the token is worth: only its own failures cost a session (api-client.ts 161-173),
\* and a refresh that was still under way when the session was signed in, whose refusal
\* clears the store whatever is there.
OnlyFaultsEndSessions == [][refresh' = None /\ faults = 0 => ~ValidRefresh(refresh) \/ Overtaken]_vars

\* Renewing the session never takes it back or elsewhere: whatever refresh was under way,
\* the token it puts in the place of another is of the same account and not older.  Only a
\* sign-in puts any other there, its own (the older of two, if its answer comes last), or
\* by being stored before the end of a refresh that was under way.
RefreshMovesForward ==
    [][refresh # None /\ refresh' # None
         => \/ refresh'.acct = refresh.acct /\ refresh'.born >= refresh.born
            \/ \E g \in Form : form[g].pc = "storing" /\ refresh' = form[g].pair
            \/ Overtaken]_vars

\* Every request ends: no 401 leaves it waiting for a refresh that is over, and none is
\* sent again and again.
EveryRequestEnds == \A r \in Request : req[r].pc # "idle" ~> req[r].pc = "idle"
=============================================================================
