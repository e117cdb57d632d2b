----------------------------- MODULE NotionSync -----------------------------
(***************************************************************************)
(* The publishing of docs/ to Notion: a push to main starts the workflow,  *)
(* one run at a time, which rewrites a page for every file the push        *)
(* changed (or for all of them), request by request, each tried again when *)
(* its answer does not come.  A file's content is its version, published   *)
(* in batches of blocks; a page is found by its parent and its title.      *)
(*                                                                         *)
(* A definition marked Slip is no part of Next: it is a plausible mistake, *)
(* and the runs show that a property notices it.                           *)
(***************************************************************************)
EXTENDS Integers, Sequences, FiniteSets, FiniteSetsExt

CONSTANTS Doc,         \* the files, numbered in the order they are published
          Folder,      \* those that stand below the page of their folder, the last ones
          Batches, Retries,  \* appends a page takes, second tries of a request
          MaxPushes, MaxFaults  \* bounds: pushes, requests that go wrong

ASSUME NotionAssumption ==
    /\ Doc \subseteq Nat \ {0} /\ IsFiniteSet(Doc) /\ Folder \subseteq Doc
    /\ \A d \in Folder, e \in Doc \ Folder : e < d
    /\ Batches \in Nat \ {0} /\ Retries \in Nat /\ MaxPushes \in Nat /\ MaxFaults \in Nat

VARIABLES
    repo,     \* the version of each file on main, 0 for none
    pushes,
    pages,    \* the pages of the workspace, in the order they were made
    run,      \* the run of the workflow
    waiting,  \* the run that waits for it, or none
    faults,
    mishaps   \* what has gone wrong so far

vars == <<repo, pushes, pages, run, waiting, faults, mishaps>>

Top == 0                  \* NOTION_PARENT_PAGE_ID
FolderTitle == 0          \* the title of a folder's page; a file's is its number
Nothing == [d \in Doc |-> 0]
NoRun == [pc |-> "idle", sha |-> Nothing, todo |-> {}, group |-> Top, page |-> Top,
          batch |-> 1, tries |-> 0, lost |-> FALSE]
NoneWaits == [sha |-> Nothing, todo |-> {}]

Init ==
    /\ repo = Nothing /\ pushes = 0 /\ pages = << >> /\ faults = 0 /\ mishaps = {}
    /\ run = NoRun /\ waiting = NoneWaits

----------------------------------------------------------------------------
(* The workflow.                                                           *)

\* The files to publish: a folder's are looked for in the checkout, the others are not.
ToSync(sha, changed) == {d \in changed : d \in Folder => sha[d] # 0}

\* main begins with the first file and ends when none is left.
Begin(sha, todo) ==
    [NoRun EXCEPT !.sha = sha, !.todo = todo, !.pc = IF todo = {} THEN "idle" ELSE "next"]

\* Slip: a diff that fails means that nothing changed.
ChangedIfKnown(D, long) == IF long THEN {} ELSE D

\* The changed files are taken from a checkout two commits deep: the diff of a longer push
\* fails and leaves the list empty, which means all.
Changed(D, long) == IF long THEN Doc ELSE D

\* A push changes, adds or removes files.  While a run is under way the new one waits, in place of the one that waited.
Push(D, gone, long) ==
    /\ pushes < MaxPushes
    /\ pushes' = pushes + 1
    /\ repo' = [d \in Doc |-> IF d \in D THEN IF d \in gone THEN 0 ELSE pushes + 1
                                         ELSE repo[d]]
    /\ LET todo == ToSync(repo', Changed(D, long))
       IN IF run.pc = "idle"
          THEN run' = Begin(repo', todo) /\ UNCHANGED <<waiting, mishaps>>
          ELSE /\ waiting' = [sha |-> repo', todo |-> todo]
               /\ mishaps' = IF waiting.todo = {} THEN mishaps
                             ELSE mishaps \cup {"superseded"}
               /\ UNCHANGED run
    /\ UNCHANGED <<pages, faults>>

\* The run is over; the one that waits begins.
Over == /\ run' = Begin(waiting.sha, waiting.todo)
        /\ waiting' = NoneWaits

----------------------------------------------------------------------------
(* The script.                                                             *)

Current == Min(run.todo)
Title == IF run.pc = "group" THEN FolderTitle ELSE Current

\* getOrCreatePage: the first child of the parent with the title.
Twins(parent, title) ==
    {i \in DOMAIN pages : pages[i].parent = parent /\ pages[i].title = title}
Find(parent, title) ==
    IF Twins(parent, title) = {} THEN Top ELSE Min(Twins(parent, title))
Create(parent, title) == Append(pages, [parent |-> parent, title |-> title, blocks |-> << >>])

Block == <<Current, run.sha[Current], run.batch>>
Batched(d, v, n) == [i \in 1 .. n |-> <<d, v, i>>]
Content(d, v) == Batched(d, v, Batches)

\* The for loops of main and syncFolder: the file that is done makes room for the next,
\* whose folder is looked up once.
NextFile ==
    /\ run.pc = "next" /\ run.sha[Current] # 0
    /\ run' = [run EXCEPT !.pc = IF Current \in Folder /\ run.group = Top THEN "group"
                                 ELSE "leaf"]
    /\ UNCHANGED <<repo, pushes, pages, waiting, faults, mishaps>>

\* readMarkdown finds no file: the run fails.
NoFile ==
    /\ run.pc = "next" /\ run.sha[Current] = 0
    /\ Over /\ mishaps' = mishaps \cup {"failed"}
    /\ UNCHANGED <<repo, pushes, pages, faults>>

\* blocks.delete of the first block; a page without blocks has nothing to delete.
Rest(blocks) == IF blocks = << >> THEN blocks ELSE Tail(blocks)

\* What a request does to the workspace: the lookups change nothing.
Effect ==
    CASE run.pc = "newgroup" -> Create(Top, FolderTitle)
      [] run.pc = "new"      -> Create(run.group, Current)
      [] run.pc = "clear"    -> [pages EXCEPT ![run.page].blocks = Rest(@)]
      [] run.pc = "append"   -> [pages EXCEPT ![run.page].blocks = Append(@, Block)]
      [] OTHER               -> pages

To(pc) == [run EXCEPT !.pc = pc, !.tries = 0]

\* Slip: a page that exists is written to as it is.
AfterLookupAppends(found) ==
    IF found = Top THEN To("new") ELSE [To("append") EXCEPT !.page = found]

\* upsertLeafPage: the page that was found is cleared before it is written to.
AfterLookup(found) ==
    IF found = Top THEN To("new") ELSE [To("clear") EXCEPT !.page = found]

\* Slip: one request is taken for all of them.
AfterClearOnce == To("append")

\* clearPageContent: the blocks are deleted one request at a time.
AfterClear == IF Len(pages[run.page].blocks) > 1 THEN To("clear") ELSE To("append")

\* How the script goes on when a request has been answered.
Proceed ==
    LET found == Find(IF run.pc = "group" THEN Top ELSE run.group, Title)
    IN CASE run.pc = "group" -> IF found = Top THEN To("newgroup")
                                ELSE [To("leaf") EXCEPT !.group = found]
         [] run.pc = "newgroup" -> [To("leaf") EXCEPT !.group = Len(pages) + 1]
         [] run.pc = "leaf" -> AfterLookup(found)
         [] run.pc = "new" -> [To("append") EXCEPT !.page = Len(pages) + 1]
         [] run.pc = "clear" -> AfterClear
         [] run.pc = "append" -> IF run.batch < Batches
                                 THEN [To("append") EXCEPT !.batch = run.batch + 1]
                                 ELSE [To("next") EXCEPT !.page = Top, !.batch = 1,
                                                         !.todo = run.todo \ {Current}]

Requesting == run.pc \notin {"idle", "next"}

\* The request is answered.
Request ==
    /\ Requesting
    /\ pages' = Effect
    /\ IF Proceed.todo = {} THEN Over ELSE run' = Proceed /\ UNCHANGED waiting
    /\ UNCHANGED <<repo, pushes, faults, mishaps>>

\* withRetry: no answer, 429 or 5xx; the request may have been carried out all the same.
\* It is made again, or the run fails with all that is left to do.
Retry(done) ==
    /\ Requesting /\ faults < MaxFaults
    /\ faults' = faults + 1
    /\ pages' = IF done THEN Effect ELSE pages
    /\ IF run.tries < Retries
       THEN /\ run' = [run EXCEPT !.tries = run.tries + 1, !.lost = run.lost \/ pages' # pages]
            /\ mishaps' = IF pages' # pages THEN mishaps \cup {"lost"} ELSE mishaps
            /\ UNCHANGED waiting
       ELSE Over /\ mishaps' = mishaps \cup {"failed"}
    /\ UNCHANGED <<repo, pushes>>

\* Any other answer (401, 404, validation) ends the run at once.
Fail ==
    /\ Requesting /\ faults < MaxFaults
    /\ faults' = faults + 1 /\ mishaps' = mishaps \cup {"failed"}
    /\ Over
    /\ UNCHANGED <<repo, pushes, pages>>

Next ==
    \/ \E D \in (SUBSET Doc) \ {{}}, long \in BOOLEAN : \E gone \in SUBSET D :
           Push(D, gone, long)
    \/ NextFile \/ NoFile \/ Request \/ Fail
    \/ \E done \in BOOLEAN : Retry(done)

Spec == Init /\ [][Next]_vars

----------------------------------------------------------------------------
(* Properties.                                                             *)

Version == 0 .. MaxPushes
Page == [parent: Nat, title: Doc \cup {FolderTitle},
         blocks: Seq(Doc \X Version \X (1 .. Batches))]
Pc == {"idle", "next", "group", "newgroup", "leaf", "new", "clear", "append"}
Run == [pc: Pc, sha: [Doc -> Version], todo: SUBSET Doc, group: 0 .. Len(pages),
        page: 0 .. Len(pages), batch: 1 .. Batches, tries: 0 .. Retries, lost: BOOLEAN]

\* The types of the variables; a run that is under way has something to do.
TypeOK ==
    /\ repo \in [Doc -> Version] /\ pushes \in 0 .. MaxPushes
    /\ pages \in Seq(Page)
    /\ run \in Run /\ (run.pc = "idle" <=> run.todo = {})
    /\ waiting \in [sha: [Doc -> Version], todo: SUBSET Doc]
    /\ faults \in 0 .. MaxFaults /\ mishaps \subseteq {"superseded", "lost", "failed"}

\* The group is known for the files of the folder, which come last, and looked up for the
\* first of them.
FolderComesLast ==
    run.pc # "idle" =>
        /\ run.group # Top => run.todo \subseteq Folder
        /\ run.pc \in {"group", "newgroup"} => run.group = Top /\ Current \in Folder
        /\ run.pc \in {"leaf", "new", "clear", "append"} =>
               (Current \in Folder <=> run.group # Top)

\* What a run was told in its answers is still so, unless one of them was lost: the folder's
\* page and the file's are those a reader finds, or are not there yet, and the page being
\* written has the batches that were acknowledged and nothing else.
AnswersStillHold ==
    /\ run.lost => "lost" \in mishaps
    /\ run.pc # "append" => run.batch = 1
    /\ run.pc \in {"clear", "append"} => run.page # Top
    /\ ~run.lost /\ run.pc # "idle" =>
         /\ run.group # Top => run.group = Find(Top, FolderTitle)
         /\ run.pc = "newgroup" => Twins(Top, FolderTitle) = {}
         /\ run.pc = "new" => Twins(run.group, Current) = {}
         /\ run.pc \in {"clear", "append"} => run.page = Find(run.group, Current)
         /\ run.pc = "append" =>
                pages[run.page].blocks = Batched(Current, run.sha[Current], run.batch - 1)

\* A reader finds a file's page where the script does.
ShownBlocks(d) ==
    LET group == IF d \in Folder THEN Find(Top, FolderTitle) ELSE Top
        page == Find(group, d)
    IN IF (d \in Folder /\ group = Top) \/ page = Top THEN << >> ELSE pages[page].blocks

\* Every file of main is shown, or the run or the one that waits has it to do, from a
\* checkout in which it is as it is on main.
ShownOrPlanned ==
    /\ run.pc = "idle" => waiting.todo = {}
    /\ mishaps = {} =>
         /\ waiting.todo # {} => waiting.sha = repo
         /\ \A d \in Doc : repo[d] # 0 /\ d \notin waiting.todo =>
                IF d \in run.todo THEN run.sha[d] = repo[d]
                ELSE ShownBlocks(d) = Content(d, repo[d])

NoTwins ==
    \A i, j \in DOMAIN pages :
        pages[i].parent = pages[j].parent /\ pages[i].title = pages[j].title => i = j

\* The batches of a page follow each other and are of one version.
InBatches(blocks) ==
    \A k, l \in DOMAIN blocks :
        k < l => blocks[k][2] = blocks[l][2] /\ blocks[k][3] < blocks[l][3]

\* When no request was carried out without its answer arriving, no page is there twice and
\* none shows a batch twice or two versions at once, whatever runs failed half-way, were
\* retried or waited (sync-to-notion.mjs 203-243).
NothingTwice ==
    "lost" \notin mishaps =>
        NoTwins /\ \A i \in DOMAIN pages : InBatches(pages[i].blocks)

\* The strengthening that makes the properties below inductive (the workflow's queue and
\* the script's order of requests, notion-sync.yml 20-22 and sync-to-notion.mjs 203-243).
Inductive ==
    TypeOK /\ FolderComesLast /\ AnswersStillHold /\ ShownOrPlanned /\ NothingTwice

\* A file that a run leaves behind is whole where a reader finds it, in the version of that
\* run's checkout, whatever earlier runs left there: only an answer lost in the same run
\* can spoil it.
WrittenIsWhole ==
    [][\A d \in run.todo : d = Current /\ run.pc = "append" /\ run.batch = Batches
          /\ ~run.lost /\ pages' # pages /\ faults' = faults
          => ShownBlocks(d)' = Content(d, run.sha[d])]_vars

\* At rest every file of main is published as it is there, unless a run failed, a waiting
\* one was replaced, or an answer was lost.
NothingMissed ==
    run.pc = "idle" /\ mishaps = {} =>
        \A d \in Doc : repo[d] # 0 => ShownBlocks(d) = Content(d, repo[d])
=============================================================================
