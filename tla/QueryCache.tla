----------------------------- MODULE QueryCache -----------------------------
(***************************************************************************)
(* One entry of the phone's React Query cache, as the version in the lock  *)
(* file keeps it under the options of query-client.ts.  The data of every  *)
(* query here is a set.  Only operators: the modules that own a query hold *)
(* its entry in a variable.                                                *)
(***************************************************************************)

Entry(D) == [data: SUBSET D, answer: SUBSET D, loaded: BOOLEAN, fresh: BOOLEAN,
             error: BOOLEAN, fetch: {"idle", "asked", "answered"}]

NoEntry == [data |-> {}, answer |-> {}, loaded |-> FALSE, fresh |-> FALSE,
            error |-> FALSE, fetch |-> "idle"]
Loaded(data) == [NoEntry EXCEPT !.data = data, !.loaded = TRUE, !.fresh = TRUE]

\* A request starts; the error of an entry that never had data is forgotten.
Asked(e) == [e EXCEPT !.fetch = "asked", !.answer = {}, !.error = e.error /\ e.loaded]

\* A screen with the query mounts: within staleTime the data will do.
OnMount(e) == IF e.fetch = "idle" /\ ~(e.loaded /\ e.fresh) THEN Asked(e) ELSE e

\* refetch, and an invalidation that is watched: a fetch in flight is cancelled and made
\* anew, unless it is the first one.
Refetched(e) == IF e.fetch = "idle" \/ e.loaded THEN Asked(e) ELSE e

\* invalidateQueries: stale at once, and asked again if a mounted screen watches it.
Invalidated(e, watched) ==
    LET stale == [e EXCEPT !.fresh = FALSE] IN IF watched THEN Refetched(stale) ELSE stale

Answered(e, data) == [e EXCEPT !.fetch = "answered", !.answer = data]

\* The answer arrives: the data counts as fresh, whatever was invalidated before.
Received(e) == Loaded(e.answer)

\* The request and its one retry failed: what data there is stays.
Failed(e) == [e EXCEPT !.fetch = "idle", !.answer = {}, !.error = TRUE]

\* staleTime has passed.
Aged(e) == [e EXCEPT !.fresh = FALSE]

\* What the hook tells its screen.
IsLoading(e) == ~e.loaded /\ e.fetch # "idle"
Settled(e) == e.loaded /\ e.fresh /\ e.fetch = "idle"
=============================================================================
