------------------------------ MODULE Moments -------------------------------
(***************************************************************************)
(* The owner's moments: the table, the list the first tab shows, and the   *)
(* screen that creates one.  Instants are counted in hours since some      *)
(* midnight UTC; a date the form holds is the instant the ISO string with  *)
(* that date and 00:00Z names.                                             *)
(***************************************************************************)
EXTENDS Integers, QueryCache

CONSTANTS
    Moment,   \* the ids the table gives out
    First,    \* those it has from the start
    Days,     \* bound: the local days the user picks
    Now,      \* the instant a picker without a value opens at
    Zone      \* hours the phone's clock is ahead of UTC

VARIABLES
    moments,  \* ids in the table
    list,     \* useMoments: the cached list
    form,     \* the form of the open create screen
    saving,   \* createMoment requests, by the id they will get
    owed      \* moments whose creation was answered not during the list's first fetch

----------------------------------------------------------------------------
(* Dates.                                                                  *)

Unset == -1
LocalDay(t) == (t + Zone) \div 24

\* Slip: the UTC date of the instant, as toISOString gives it.
ToIsoDateInUtc(t) == (t \div 24) * 24

\* toIsoDate: the local date, written as midnight UTC.
ToIsoDate(t) == LocalDay(t) * 24

\* formatDate: the first ten characters of the string.
FormatDate(iso) == iso \div 24

\* The instant the picker opens at: new Date of the field's value, or of now.
PickerStart(field) == IF form[field] = Unset THEN Now ELSE form[field]

----------------------------------------------------------------------------

Fields == {"started", "ended"}
NewForm == [title |-> "empty", started |-> Unset, ended |-> Unset, picker |-> "none",
            picked |-> [f \in Fields |-> Unset]]
NoRequest == [pc |-> "none", own |-> FALSE]

Init ==
    /\ moments = First
    /\ list \in {Asked(NoEntry), Loaded(First)}
    /\ form = NewForm
    /\ saving = [m \in Moment |-> NoRequest]
    /\ owed = {}

\* createMutation.isPending, which disables every control but Cancel.
IsSubmitting == \E m \in Moment : saving[m].own /\ saving[m].pc # "none"

\* The title field; the empty and the overlong are what the schema refuses.
EditTitle(title) ==
    /\ ~IsSubmitting
    /\ form' = [form EXCEPT !.title = title]
    /\ UNCHANGED <<moments, list, saving, owed>>

\* The date button of a field.
OpenPicker(field) ==
    /\ ~IsSubmitting /\ form.picker = "none"
    /\ form' = [form EXCEPT !.picker = field]
    /\ UNCHANGED <<moments, list, saving, owed>>

\* onConfirm: the user leaves the picker on some day, at the time of day it opened with.
ConfirmDate(day) ==
    /\ form.picker # "none"
    /\ LET start == PickerStart(form.picker)
           t == start + (day - LocalDay(start)) * 24
       IN form' = [form EXCEPT ![form.picker] = ToIsoDate(t), !.picked[form.picker] = day,
                               !.picker = "none"]
    /\ UNCHANGED <<moments, list, saving, owed>>

CancelPicker ==
    /\ form.picker # "none"
    /\ form' = [form EXCEPT !.picker = "none"]
    /\ UNCHANGED <<moments, list, saving, owed>>

\* The clear button, there only with a value.
ClearDate(field) ==
    /\ form[field] # Unset /\ ~IsSubmitting /\ form.picker = "none"
    /\ form' = [form EXCEPT ![field] = Unset, !.picked[field] = Unset]
    /\ UNCHANGED <<moments, list, saving, owed>>

\* handleSubmit(onSubmit): the resolver lets a valid form through.
Submit(m) ==
    /\ ~IsSubmitting /\ form.picker = "none" /\ form.title = "good"
    /\ saving[m].pc = "none" /\ m \notin moments
    /\ saving' = [saving EXCEPT ![m] = [pc |-> "sent", own |-> TRUE]]
    /\ UNCHANGED <<moments, list, form, owed>>

\* createMoment of the service.
Save(m) ==
    /\ saving[m].pc = "sent"
    /\ moments' = moments \cup {m}
    /\ saving' = [saving EXCEPT ![m].pc = "saved"]
    /\ UNCHANGED <<list, form, owed>>

\* Slip: an invalidation that leaves a fetch in flight alone.
InvalidateLazily ==
    list' = IF list.fetch = "idle" THEN Invalidated(list, TRUE) ELSE Aged(list)

\* invalidateQueries of momentsKeys.all; the tab with the list stays mounted beneath.
InvalidateMoments == list' = Invalidated(list, TRUE)

\* The answer: the hook's onSuccess always runs, the screen's own only while it is mounted.
\* Closes says whether it takes the screen away.
Answer(m, closes) ==
    /\ saving[m].pc = "saved"
    /\ closes = saving[m].own
    /\ saving' = [saving EXCEPT ![m] = NoRequest]
    /\ InvalidateMoments
    /\ owed' = IF list.loaded \/ list.fetch = "idle" THEN owed \cup {m} ELSE owed
    /\ UNCHANGED <<moments, form>>

\* onError: the screen says so and can be sent again, saved or not.
Fails(m) ==
    /\ saving[m].pc \in {"sent", "saved"}
    /\ saving' = [saving EXCEPT ![m] = NoRequest]
    /\ UNCHANGED <<moments, list, form, owed>>

\* The create screen mounts with a new form, and unmounts: its requests go on without it.
MountForm == form' = NewForm /\ UNCHANGED <<moments, list, saving, owed>>
UnmountForm ==
    /\ form' = NewForm
    /\ saving' = [m \in Moment |-> [saving[m] EXCEPT !.own = FALSE]]
    /\ UNCHANGED <<moments, list, owed>>

CreateStep ==
    \/ \E title \in {"empty", "good", "overlong"} : EditTitle(title)
    \/ \E field \in Fields : OpenPicker(field) \/ ClearDate(field)
    \/ \E day \in Days : ConfirmDate(day)
    \/ CancelPicker
    \/ \E m \in Moment : Submit(m)

----------------------------------------------------------------------------
(* The list.                                                               *)

\* findMomentsByUserId answers from the table.
ListAnswered ==
    /\ list.fetch = "asked"
    /\ list' = Answered(list, moments)
    /\ UNCHANGED <<moments, form, saving, owed>>

ListReceived ==
    /\ list.fetch = "answered"
    /\ list' = Received(list)
    /\ UNCHANGED <<moments, form, saving, owed>>

ListFails ==
    /\ list.fetch # "idle"
    /\ list' = Failed(list)
    /\ UNCHANGED <<moments, form, saving, owed>>

ListAges ==
    /\ list.fresh
    /\ list' = Aged(list)
    /\ UNCHANGED <<moments, form, saving, owed>>

\* Pull to refresh, or the retry of the error view; the loading view offers neither.
Refresh ==
    /\ ~IsLoading(list)
    /\ list' = Refetched(list)
    /\ UNCHANGED <<moments, form, saving, owed>>

\* The screen of a moment reads its title from the list.
MountList == list' = OnMount(list) /\ UNCHANGED <<moments, form, saving, owed>>

\* The cards of the list; the loading and the error view have none.
Cards == IF IsLoading(list) \/ list.error THEN {} ELSE list.data

----------------------------------------------------------------------------
(* Properties.                                                             *)

MomentsTypeOK ==
    /\ moments \subseteq Moment /\ owed \subseteq moments /\ list \in Entry(Moment)
    /\ saving \in [Moment -> [pc: {"none", "sent", "saved"}, own: BOOLEAN]]
    /\ form.title \in {"empty", "good", "overlong"} /\ form.picker \in Fields \cup {"none"}

\* A moment whose creation was answered is in the list whenever that counts as up to date,
\* whatever fetches were under way but the list's first (moments-queries.ts 39-41).
CreatedIsListed == Settled(list) => owed \subseteq list.data

\* The form shows the day the user picked, and a picker opened again stands on that day,
\* so that confirming it changes nothing; that only where the clock is not behind UTC, as in
\* Korea: elsewhere the date written in UTC is read back as the day before.
DayIsPicked ==
    \A field \in Fields :
        /\ form[field] # Unset => FormatDate(form[field]) = form.picked[field]
        /\ form.picker = field /\ form[field] # Unset
              => LocalDay(PickerStart(field)) = FormatDate(form[field])
=============================================================================
