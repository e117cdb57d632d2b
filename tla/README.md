# Trailog in TLA+

Trailog is a photo journal: a NestJS server (Postgres, BullMQ on Redis, R2 object
storage, server-sent events), an Expo app, and a Next.js page for shared links.
This directory specifies the parts whose correctness depends on the order of
things: what a crash, a retry, a second request, a late answer or a screen that
goes may do to a photo, to its stripped copies, to a shared link, to a session
and to what a phone shows.

## The system

| part | state it keeps | operations | talks to |
|---|---|---|---|
| photo upload and processing (`apps/server/src/photos`, `apps/mobile/src/lib/photos`) | `photos` rows (`processing_status`, `thumbnail_keys`), objects in R2, the BullMQ job | presigned URL, PUT, confirm, `process`, `onFailed` | R2, Redis, Postgres, the owner's channel |
| stripped copies (`photos.service.ts`, `shares.service.ts`) | `stripped_keys` column, objects in R2 | `findPhotoForShare`, `findPhotosForMomentShare`, `getShareImageBuffer`, `getOrCreateStrippedKey`, `stripExif` | called by the public share endpoints |
| notifications (`apps/server/src/notifications`) | one rxjs Subject per user, in memory | `getOrCreateChannel`, `publish`, `cleanup` | published to by processing and shares |
| live updates on the phone (`apps/mobile/src/lib/notifications`, `photos-queries.ts`) | EventSource, React Query caches of the photo list and the notifications | connect, handle a payload, invalidate, fetch | the notifications stream, the list endpoint |
| shares (`apps/server/src/shares`) | `shares` rows, the throttle map in memory | create, list, cancel, open, unlock, download | photos, moments, notifications |
| share page (`apps/web`) | the view that is shown | load, unlock | the public endpoints |
| authentication (`apps/server/src/auth`, `users`; `apps/mobile/src/lib/auth`) | `users` rows; two tokens in secure storage, the refresh in flight | sign up, sign in, refresh, guard; request, retry after 401 | every endpoint |
| moments, map, photo, share sheet, notification tab (`apps/mobile/src/app`, `components/share`) | forms, the router's stack, query caches | create, upload, open, share, move the map | the endpoints, the operating system |
| geocoding (`apps/server/src/geocoding`) | nothing | an address out of the service's results | the external service |
| schema (`apps/server/src/database`, `docker/compose.yml`) | tables, indexes, keys, types, extensions | nine migrations, up and down; what TypeORM installs at a connect | Postgres |
| docs publishing (`.github/workflows/notion-sync.yml`, `scripts/sync-to-notion.mjs`) | pages in Notion | find, create, clear and fill a page, with retries | the Notion API |
| R2 client, response envelope, health, bootstrap, type packages | nothing of their own | thin | everything above |

What is hard here: the server is one process on a machine that is stopped when
idle, so everything in memory goes at any await; BullMQ runs a job again after an
error, a stall or a lost lock; the row, the object and the job live in three
stores with no transaction across them; visitors of a share work at the same time
on one column; events are neither stored nor numbered; a phone's cache decides by
rules of its own which of two overlapping answers counts; requests outlive the
screens that sent them; several requests meet one expired token at once.
`PROJECT.json` lists each hazard at its line with the properties that watch it.

## Modules

| module | models |
|---|---|
| `PhotoLifecycle` | the promise of photo processing to its readers: absent, pending, then done with URLs or failed without, once and for good, and the owner told; and what of it is left under faults |
| `PhotoPipeline` | the upload protocol, confirm handlers, BullMQ job, worker and `failed` listener, one action per await |
| `StripCache` | concurrent visits that fill and read the cache of stripped copies |
| `ShareContent` | extends `StripCache` by what the files and rows of an answer tell: `extractExif`, `stripExif`, piexif, the page's rows |
| `LiveUpdates` | the channel, the phones' streams, the cached photo list and the notes; the server's side is an instance of `PhotoLifecycle`, its late failures included |
| `Shares` | shared links from the token to what the visitor's browser shows |
| `Session` | the two tokens of a phone: screens and their overlapping submits, store, client and the stateless server |
| `QueryCache` | operators only: one entry of React Query under the app's options |
| `Moments`, `MapPhotos`, `PhotoScreens`, `ShareSheet`, `NotificationCenter`, `Geocoding` | one part of the app each, with the server's handler behind it |
| `Phone` | composes those six behind the router |
| `Migrations` | every statement of the migrations, the `migrations` table, the CLI's transactions and the extensions that come otherwise |
| `NotionSync` | pushes, the workflow's queue, and the script request by request |
| `MC...` | the small instances TLC checks |
| `PhotoPipelineProofs`, `StripCacheProofs`, `LiveUpdatesProofs`, `SharesProofs`, `SessionProofs`, `PhoneProofs`, `NotionSyncProofs`, `MigrationsProofs` | theorems and their proofs |

`PhotoPipeline` implements `PhotoLifecycle` (run `pipeline_lifecycle`, theorem
`RefinesLifecycle`; under faults, theorem `RefinesLifecycleUnderFaults`), and
`LiveUpdates` is built on what is left of `PhotoLifecycle` under faults, so the two
compose: what the phone is shown to do rests on the lifecycle and not on how the
server keeps it, and covers the server's faults as well as the phone's. `ShareContent` composes the copies of `StripCache` with the
metadata of the files. `Phone` instantiates its parts over one set of variables;
its actions join a part's step with the router's where the code does both.

A definition marked "Slip" is a plausible bug in the definition below it. It is no
part of any next-state relation; put in its place, it breaks the property named
with it in `PROJECT.json` ("mutants"). It is there to show that the property can
fail.

### PhotoPipeline

* `upload[p]` is the client's progress (`uploadPhoto` in `photos-api.ts`): a photo
  id is issued, the original is stored, and only then is it confirmed.
* `request[r]` is a `confirmPhotoUpload` call: before `photoRepo.save`
  (`ConfirmSave`) and before `queue.add` (`ConfirmAdd`). Ownership and key prefix
  are checked before the first write; a request they refuse changes nothing and is
  no action.
* `job[p]` is the BullMQ job whose `jobId` is the photo id, in the states of BullMQ
  5.77.6: `add` ignores an id it knows; a failed attempt with attempts left goes
  through its backoff; a lock nobody renews stalls the job; too many stalls fail it
  at the next pick-up, with its attempts not used up.
* `worker` is the one slot (concurrency 1) running `process`: get, the puts, the
  update, the publish, and then BullMQ's own step with the result, which Redis
  refuses when the lock is gone (`lock = FALSE`).
* `listener[p]` is an `onFailed` call past its early return. It runs beside the
  worker.
* `LoseUpdateAck` is a committed update whose answer is lost; `Crash` empties
  `request`, `worker` and `listener` and leaves the three stores as they are.

### StripCache and ShareContent

`stripped[p]` is the column, `copies[p]` what R2 holds; the key of a copy is a
function of photo and variant, so a set of variants stands for each. `part[v][p]`
is the work of visit `v` on photo `p`, with `seen`, the column as that visit read
it. The photos of a moment are worked on at once (`Promise.all`), the answer is
given when all are ready, and a failure answers 500 while the other parts go on
(`Reject`, `Finish`). A download reads the row twice (`OpenDownload`, `LoadAgain`).

`ShareContent` adds no state. `Original` is every kind of file a photo may be: its
type, its tags, whether piexifjs and ExifReader can read it, whether it is
processed. What a visitor learns is a function of it and of the answer `StripCache`
gives, so `LocationIsWithheld` speaks of every kind in every state.

### LiveUpdates

The rows are those of `PhotoLifecycle`: `Confirm`, `Process` and `Publish` are its steps,
and so is `FailLate`, by which the listener marks a done row failed after an attempt that
lost its answer or its lock. The list and the notes may then be behind the row, and the
properties say by how much.

`subscribed` and `ghosts` are the subscriptions to the user's Subject; a ghost is one
whose socket is gone and whose `finalize` has not run yet. Any `finalize` completes
the Subject for all (`Cleanup`). `list[d]` is the query cache entry of one moment,
`fetch[d]` its request. The rules of React Query (query-core 5.101.0) are in
`Refetch` and `Invalidate`: a refetch cancels the one in flight unless that is the
first of the list, an invalidation refetches only what a screen shows, and any
answer makes the list fresh. `notes[d]` holds the `photo.processed` items of the
notification center; each remembers, for the property only, whether a fetch that
its invalidation could not cancel was in flight (`overtaken`).

### Shares

`shares[s]` is a row; a cancelled one stays as history, out of every lookup
(`Holders`). `create[s]` is a `createShare` call between the lookup of its token and
the save: `Save` is possible only when no row holds the token (the unique index), and
`SaveFails` is the 500 otherwise. `tab[v]` is a visitor's browser, `request[v]` the
server's work for it: the row is read once (`Found`), then the password is compared
(`compare`), then the page is built (`build`); `BuildOpenResponse` stands for the
visit that `StripCache` has in detail. `PageFor` and `FormFor` are what `page.tsx` and
`LockedView.tsx` make of each answer. The clock counts ticks of no particular length:
several things may happen within one. An expiry is any tick, past ones too, as the
code checks none; the password is right or wrong. `lastViewedEmit` is the throttle's
map, which `Crash` empties; `viewed`, `askedAt`, `cancelledAt` and a tab's `share` and
`answer` are history for the properties. A visitor asks again when the last answer
has come.

### Session

`access` and `refresh` are the two keys of the secure store, written and deleted one
after the other (`todo`), so a kill of the app may leave one without the other.
`req[r]` is a call of `apiRequest`: sent, waiting for a refresh, retried.
`flight[r]` is the refresh that request `r` started, `refreshPromise` the one the
client remembers; `Settle` is the `finally` and what the waiting requests then do.
A token is the account it names and the time of its issue, which is all the
stateless server looks at. `form[g]` is a sign-up or sign-in under way, with the
server's lookup and insert as separate steps. There may be several: the login and the
sign-up screen each guard only their own submit, and each has a link to the other that
is never disabled and pushes a new screen. `screens` is the router's stack; a screen
left by `Back` takes nothing of what it sent along, and its answer is stored when it
comes. `over` is history: a sign-in was stored over a refresh under way. `Answer` and
`FlightAnswer` are the server's, with the guard; `crashes`, `lost` and `faults` bound
kills, lost answers and 500s.

Two consequences are in the model and in `PROJECT.json` as hazards, since nothing in the
code promises otherwise: of two overlapping sign-ins the older answer may be stored over
the newer pair, and the refusal of an old refresh clears a pair that was signed in while
it was under way.

### Phone

`errand` is chosen once and bounds which controls the user touches: creating a
moment, uploading, sharing, the map, or the notifications. It is a bound, not a part
of the app: the parts share the router and the two list caches, and each errand
exercises the screens that meet there. `stack` is the router's; the tab below it stays
mounted. `list`, `rows` and `pins[v]` are entries of `QueryCache`.

* `Moments`: the form with its two dates, the native picker, `createMoment` and the
  list. Instants are hours, a date is midnight UTC as `toIsoDate` writes it. A request
  outlives the screen (`own`): the hook's `onSuccess` runs all the same, the screen's
  `router.back()` does not.
* `MapPhotos`: the permission dialog, the fix, the camera flight, `onCameraIdle`, one
  query per bounding box with `keepPreviousData`.
* `PhotoScreens`: the grid, the picker and the three requests of an upload, the detail
  and its address. `Geocoding` has how an address is made, over the presence of the
  fields.
* `ShareSheet`: the sheet of each screen that has its target, the form, the request and
  the link. A request goes on when the sheet is closed or gone.
* `NotificationCenter`: the list of items with its limit of 50, read marks and the badge.

### Migrations and NotionSync

A schema object is a table, a later column, an index, a key, a type or an extension.
`PartOf` says what an object goes with, `Refers` what it keeps from being dropped; a
statement adds, drops or comments on one object, and `Allowed` is when Postgres carries it
out. `Up` and `Down` are the files' statements in their order. `tx` is the command being
run: the number of migrations it is to end with, the number it has come to, the statement
of the script it is at and the schema it sees. `Run` takes all pending migrations in one
transaction, `Revert` the last; `Execute` is one statement, `Record` the migration's row,
`Commit` and `Rollback` the end, the second at any point.

The extensions are not the migrations' alone. `Init` takes any database without
migrations: an empty one, one with PostGIS, and that of `docker/compose.yml`, whose image
also has extensions built on it ("postgis_topology" stands for them). The ids of the
tables are generated by `uuid_generate_v4`, of an extension that no migration makes:
TypeORM installs it, and PostGIS for the geometry column of `Photo`, at every connect and
outside the command's transaction (`Installed`). A command connects before it begins
(`Begin`), with the entities of a checkout that has the first `head` migrations; a server
connects at any time (`Connect`), and waits for an extension that an open transaction has
made. So PostGIS is mostly there before `EnablePostgis` and may be back after its revert,
and the IF NOT EXISTS and IF EXISTS of its statements are what `Allowed` lets extensions
do. The revert of `EnablePostgis` is refused on the image's database, as the migration's
comment wants of a RESTRICT; `NoStatementIsRefused` names that case and no other. Assumed
is that the role that connects may create extensions, as the image's does: where it may
not, TypeORM only warns, and the first migration fails.

`NotionSync` has the files' versions, the workflow's group (one run, one waiting, a
newer one replaces it), and the script as one request after another, each of which may
be answered, not answered, or carried out without an answer (`Retry(done)`).

## Runs

| run | instance | shows |
|---|---|---|
| `pipeline` | 1 photo, 2 confirms, 2 sizes, 3 attempts, 1 stall, 4 faults | all safety and action properties, `Inductive`, and `EveryJobEnds` |
| `pipeline_lifecycle` | 2 photos, 1 confirm, 2 sizes, 3 attempts, no faults | the pipeline implements `PhotoLifecycle` with its fairness |
| `strip_safety` | 2 photos of every kind, 2 variants, 2 visits, 1 fault | no key leads nowhere; a key is lost only to a stale read; no location gets out but through a file piexif cannot read |
| `live_updates` | 1 photo, 1 phone, 4 faults | notes and list agree but for a later failure; a list shows only what a row is or was; the stream replaces polling |
| `shares` | 2 shares, 1 token, 1 visitor, 2 tries, interval 2, clock 0..2, 1 fault | links are unique, gone is gone, visits are told and throttled, the form comes back |
| `session` | 2 requests, 1 account, 1 submit, 2 screens, lives 1 and 2, clock 0..2, 1 kill, 1 lost answer, 1 server failure | one refresh serves all, every request ends |
| `session_stores` | 2 requests, 2 accounts, 2 submits, 1 screen, lives 1 and 2, clock 0..3, 1 kill, 1 lost answer, 1 server failure | only the server's own failures, and refreshes a sign-in overtook, end a good session; a refresh never takes it back |
| `phone` | 2 moments, 3 photos, 2 views, 2 links, 4 arrivals for a list of 2, 1 fault | what was made is listed, the day picked is the day sent, markers are of the view, places are named, a link is of its target, the newest notifications are kept |
| `migrations` | the nine migrations, any number of commands and connects, six databases to begin with | no statement is refused but the drop of PostGIS under what is built on it; the schema is that of the migrations applied, and that of the entities at the end |
| `notion` | 3 files, two of them in a folder, 2 batches, 1 retry, 3 pushes, 2 faults | nothing twice, nothing missed, what a run leaves is whole |
| `pending_has_job` | 1 photo, 1 confirm, 3 attempts, 1 fault | violated: a confirm cut short leaves a pending row without a job |
| `expired_is_told` | 1 share, 1 visitor, clock 0..1, no fault | violated: an expired link shows "not found" |

Ten more configurations are kept beside the runs. Eight of them each refute one formula that a
comment of the code states, and a finding in `PROJECT.json` tells of it:
`PhotoPipeline_FailedJobIsMarked` (a job failed for stalling leaves its row pending),
`PhotoPipeline_FailedHasNoThumbnails` (a lost answer on the last attempt),
`StripCache_OtherVariantsKept` (two visits of different variants),
`StripCache_LocationIsHidden` (HEIC under `gps_only`), `StripCache_AllIsHidden` (the
date of a share without metadata), `LiveUpdates_EveryNoteIsShown` (the event during
the first load), `LiveUpdates_MissedIsRecovered` (the event while the stream is
down) and `Phone_ArrivalsAccumulate` (one view of a share empties the notification
center). The other two hold and are larger instances of `live_updates`:
`LiveUpdates_two_photos` (two photos and two faults, the invariants) and
`LiveUpdates_polling` (two photos without faults, the liveness property). All use the MC
module of their name's first part.

Why these bounds are enough. The photos of the pipeline meet only in the worker
slot: one photo with four faults, and two photos without, cover both; three attempts
are those of the code, and two faults are what it takes to stall a job twice, or to
lose a lock and then crash. Overlapping confirms need two
requests. The strip cache's conflict needs two visits and two variants; the second
photo is there for `Promise.all`. The properties of a
phone's list speak of one photo at a time, and what an event of another photo does to
this one is an invalidation, which `Uploaded` is too; so one photo is enough, and four
faults let a late failure meet a dropped stream, a restart and a failed fetch. Its two
events, done and then failed, overtake each other's fetches. With two photos and faults
the graph is too large for the search of cycles, so the larger instances take the
invariants and the liveness apart. One phone still has the shared Subject, through the
ghost an older connection of the phone leaves. Two creates of the only token are the
collision of tokens, and a cancelled share frees it for the other; clock and interval
let a throttled visit lie between two events. A second visitor shares only the rows
and the throttle with the first, in single steps.

In `session` the access token dies after one tick and the refresh token after two, so
both expire within the clock; two requests are what it takes to join a refresh. The
liveness of requests does not depend on who signs in, so that run has one account and one
submit, but screens behind each other; `session_stores` has the two submits and accounts
that a store can be fought over by, on one screen, as the stack bears on the store only by
which submits and requests are possible. In `phone` the
existing photos lie in different views; of the two moments one is new and of the three
photos one; two requests of share links suffice for one to end behind the other's back;
four arrivals overflow a list of two. `Zone` is 9, Korea, where the picker opens in the
afternoon UTC on the next local day; with a zone behind UTC the second half of
`DayIsPicked` is false, since a date is written in UTC and read back by the local
clock: the picker opened again then stands a day early. `Migrations` needs no bound: its
states are finite, and TLC visits them all; one extension built on PostGIS stands for any
number, since each refuses the drop alike. In `notion` one file stands alone and two below
the page of their folder, which is looked up for the first and remembered for the second;
a page takes two batches, and the third push is the one that replaces a waiting run. For
everything under "Proofs" the bounds are no limit.

Where `CHECK_DEADLOCK` is off, the system may stop for good: when every bound is used
up, or when the user does nothing more.

### Fairness

`PhotoPipeline`: weak fairness of each confirm handler, each listener, the worker's
step and the queue's step for each photo: handlers that were called run on, Redis
timers fire. It assumes a machine that runs; `fly.toml` stops it without traffic, and
then nothing happens until the next request. Faults and the client's steps are owed
by nobody. That attempts are bounded, and not fairness, is what makes `EveryJobEnds`
true (the mutant `RetryUncounted` breaks it).

`LiveUpdates`: weak fairness of the first publish of each outcome (`PhotoLifecycle`
promises it), of reading and handling what arrived, of the server's answers, of the
reconnect and of a found-dead socket; strong fairness of `ReceiveList` only, since a
user who pulls to refresh without end cancels each fetch and would otherwise keep
every answer away. Opening the screen or refreshing is owed by nobody.

`Shares`: weak fairness of the server's step on a request and of the arrival of its
answer, for each visitor; the owner, the visitors and the clock owe nothing.

`Session`: weak fairness of the answer to each request and of each step of a refresh:
a request is answered or fails in the end, as `fetch` does. The user, the clock and the
faults owe nothing.

The other specifications state safety only and no fairness.

## Proofs

Every theorem holds for any value of the constants under the module's named
assumptions; each rests on an inductive invariant, since none of the properties is
inductive by itself. The proof that a step keeps an invariant has one step per action.

`PhotoPipelineProofs` (`PipelineAssumption`: at least one size, at least one attempt)
proves `Inductive`, and from it the type invariant,
`RowAndOriginalFirst`, `ThumbnailsAreStored`, `FailedIsExhausted`, `CompletedIsDone`,
`EventAfterCommit` and the two action properties. `ThumbnailsAreStored` needs to know
that a `process` past its puts holds every
key and that those are in R2; `FailedIsExhausted` needs that a running `process` has a
job that has not failed (`WorkerInOrder`), so that no update comes behind the mark, and
that a job that has not failed has an attempt left (`JobHasBudget`);
`RowAndOriginalFirst` needs the order within a confirm (`RequestsInOrder`).

Its second part, `RefinesLifecycle`, proves that without faults every step is a step of
`PhotoLifecycle` or leaves what its readers see unchanged. `Faultless` adds to
`Inductive` what then holds: no job stalls, and no attempt follows the one that wrote
the row. `RefinesLifecycleUnderFaults` is for any number of faults: one step more is
possible, `FailedLate`, by which a photo that is done turns to failed and keeps its
thumbnails and the word that was given. It is what the finding of
`PhotoPipeline_FailedHasNoThumbnails` shows to happen, and the theorem says that crashes,
stalls, lost locks and lost answers do nothing worse: no photo is done without
thumbnails, none goes back to pending, none is lost, and nobody is told what is not so when
it is told. Its part of the invariant is that only a photo that is done or failed has
thumbnails (`ThumbnailsComeLast`).

`StripCacheProofs` proves `Inductive` of `StripCache`, and from it that no cached key and
no answer leads nowhere and that a key is only lost to a stale read. Its last part is
about `ShareContent` (`ContentAssumption` besides) and proves `LocationIsWithheld`: an
answer names the variant that was asked for, and the rest is a case analysis of the
conversions.

`LiveUpdatesProofs` proves `NotedMeansShown` and `NeverContradicts` for any phones and
photos, and for late failures and any other faults. The invariant (`Truthful`) says that
every event and note tells what the table holds or held before a late failure
(`StillHolds`), that every answer and list tells what it holds or once held, and that for
a note whose invalidation could cancel what was in flight neither an answer on its way
nor a fresh list is older than it (`NotesAreKept`). Of the table it needs that its steps
only go on (`TableGoesOn`): an outcome stays or turns to failed, and what a photo has been
is not unsaid. `NotedMeansShown` excepts the notes whose event overtook a fetch it could
not cancel, the list's first or one no screen waits for: there the note may run ahead of
the list, which `LiveUpdates_EveryNoteIsShown` shows.

`SharesProofs` proves `TokensAreUnique`, `GoneStaysGone`, `EveryVisitIsTold` and
`ViewedIsThrottled`. `GoneStaysGone` speaks of what is shown and needs what the request
carries between the row it read and its answer (`RequestInOrder`), and that an id is
created once (`RowsInOrder`); `EveryVisitIsTold` needs that the throttle's map is the
last of the events (`EventsInOrder`). The proof goes visitor by visitor: a step
touches one, and leaves the others in order (`UntouchedVisit`).

`SessionProofs` proves `OneRefreshServesAll`, `OnlyFaultsEndSessions` and
`RefreshMovesForward`, for any number of submits under way. A refresh under way must be
the remembered one, and for that the remembered one must be under way: otherwise a 401
could join a refresh that is over (`OneFlight`). The two action properties compare the
store with the tokens on their way to it, so the invariant says what those are: the stored
refresh token and those of the forms are of accounts that exist and of no later than now
(`StoreInOrder`, `FormsInOrder`); a refresh that no sign-in was stored over carries the
token that is stored, and what it stores is of the same account and no older
(`FlightInOrder`). Forms are not ordered among each other, nor against the store: a sign-in
may store an older pair than is there. A refresh that deletes the tokens had one the server
would no longer take, or met a failure of the server itself; or a sign-in came between, and
then it deletes what it has not read. Both properties name that case (`Overtaken`).

`PhoneProofs` gives each part an invariant and shows that the steps of the other parts
and of the router leave it alone: `MapInv` (an entry and its answer are of its view, and
the view the camera rests at was asked for), `ListInv` and `RowsInv` (what is owed is in
the table, in an answer on its way and in data that count as fresh), `GeoInv` (a known
address was made of some results, and `AddressIsWhole` says what any results give),
`SheetInv` with `RouterInv` (a request a mounted sheet waits for asks for what its form
still says; only the sheet of the screen on top is open), `FormInv` (a date of the form is
the midnight UTC of the day that was picked) and `NoteInv` (the items are the newest, each
once, within the limit). They give `MapShowsItsView`, `CreatedIsListed`, `PlaceIsNamed`,
`LinkIsOfTarget`, `NewestAreKept` and two theorems about dates: that the form shows and
sends the day that was picked holds in every zone (`PickedDayIsShown`); that a picker opened
again stands on it (the rest of `DayIsPicked`) has the hypothesis `Zone >= 0`, because in a
zone behind UTC it is false.

`NotionSyncProofs` (`NotionAssumption`: finitely many numbered files, a folder's after the
others, as `main` publishes them) proves `NothingTwice`, `NothingMissed` and
`WrittenIsWhole` for any number of files, batches, retries, pushes and faults. The script
knows the workspace only by its answers, so the invariant says that they still hold when
the next request is made (`AnswersStillHold`): the folder and the page it works on are those
a lookup would find, a page about to be made is not there, and the page that is appended to
has the acknowledged batches and no other block. `FolderComesLast` is why the folder's page
is still right for the next file; `ShownOrPlanned` accounts for every file of main, shown or
left to the run under way or the one that waits, each with a checkout in which it is as it
is on main. A lost answer breaks the first for one run only: the next looks everything up
again, so `WrittenIsWhole` has no other hypothesis than that the answers of its own run
arrived. The lemmas are about lookups by parent and title: what making a page or changing
one page's blocks does to the pages a reader finds. That the least page of a set exists is
`WFMin` of the library.

`MigrationsProofs` proves `NoStatementIsRefused`, `SchemaIsOfApplied` and
`SchemaIsOfEntities`, with no assumption: the module has no constants. TLC visits every
state of it; the proof is the argument why. `Stage(base, script,
k)` is what the first `k` statements leave of a schema, and a script `Fits` when it leads
from the core of the migrations before it, what they make and the extension of the ids
(`Core`), to that after it, each statement being carried out on its way. There is one lemma
for each of the eighteen scripts, with one step per statement, so a migration added later
needs two lemmas more and the rest stays. The other extensions come in by one lemma
(`StepAmongOthers`): a statement that is carried out without them is carried out with them
and leaves them or fewer, but for the drop of PostGIS. The invariant (`Inductive`) says that
between commands the schema is that of the migrations applied and that a command under way
sees a stage of a script and some extensions (`Underway`); it is needed because the three
properties say nothing about what a transaction sees halfway. `ConnectKeeps` is that a
server that connects meanwhile disturbs neither. `AddEntityComments` is the script that
needs the order of a down written out: it drops the keys and makes them again, so its stages
are those of a schema that shrinks and then grows.

Only model-checked: liveness (`EveryJobEnds`, `StreamReplacesPolling`,
`UnlockEndsWhileAlive`, `EveryRequestEnds` and the fairness part of the refinement), which
the prover does not reach, and the violations.

## Not modelled

* Access control beyond the checks that end a request early, and key formats.
* Image decoding and resizing; the coordinates of the map and its clustering; paging
  and ordering of lists.
* React Query's garbage collection after five minutes, and the cache that survives a
  change of account (a finding describes that).
* The stream's access token, read once when the tabs mount: to the stream of
  `LiveUpdates` its refusals look like a connection that stays down.
* The expiry of presigned URLs, and more than one server process (the deployment has one).
* Rendering, themes, gestures, the native pickers' own behaviour.
* Of the Notion script, the conversion of Markdown, the index pages and `DRY_RUN`.
* The R2 client, the response envelope, health check, bootstrap and type packages: they
  keep no state between two calls; what they do to others' state is in the modules that
  call them. `PROJECT.json` gives the reason for each.

## What could follow

The visits of `StripCache` started only by an open share, as a composition with
`Shares`; `Session` under the requests of `Phone`, with the cache of one account seen by
the next.
