-------------------------- MODULE NotionSyncProofs --------------------------
(***************************************************************************)
(* The publishing to Notion for any files, pushes, batches, retries and    *)
(* faults.  A page is found by its parent and its title, so the proofs     *)
(* rest on what a request does to what is found: a write changes one       *)
(* page's blocks and no lookup, a creation changes one lookup at most.     *)
(***************************************************************************)
EXTENDS NotionSync, WellFoundedInduction, TLAPS

----------------------------------------------------------------------------
(* Lookups.                                                                *)

\* What is not empty has a least number.
LEMMA LeastNumber ==
    ASSUME NEW S \in SUBSET Nat, S # {}
    PROVE  Min(S) \in S /\ \A y \in S : Min(S) <= y
<1> DEFINE Less == OpToRel(<, Nat)
<1>1. \A x, y \in Nat : x < y => <<x, y>> \in Less
  BY DEF OpToRel
<1>2. IsWellFoundedOn(Less, Nat)
  BY NatLessThanWellFounded
<1> HIDE DEF Less
<1>3. PICK x \in S : \A y \in S : ~(<<y, x>> \in Less)
  BY <1>2, WFMin
<1>4. \A y \in S : ~(y < x) /\ x \in Nat /\ y \in Nat
  BY <1>1, <1>3, Zenon
<1>5. \A y \in S : x <= y
  BY <1>4
<1> QED
  BY <1>5 DEF Min

\* The least number of a set is that one.
LEMMA LeastIsUnique ==
    ASSUME NEW S \in SUBSET Nat, NEW f \in S, \A y \in S : f <= y
    PROVE  Min(S) = f
<1>1. Min(S) \in S /\ Min(S) <= f
  BY LeastNumber
<1>2. f <= Min(S) /\ f \in Nat /\ Min(S) \in Nat
  BY <1>1
<1> QED
  BY <1>1, <1>2

\* The pages with a parent and a title, and the first of them.
LEMMA FoundPage ==
    ASSUME pages \in Seq(Page), NEW parent, NEW title
    PROVE  /\ DOMAIN pages = 1 .. Len(pages) /\ Len(pages) \in Nat
           /\ Find(parent, title) \in 0 .. Len(pages)
           /\ Find(parent, title) = Top <=> Twins(parent, title) = {}
           /\ Find(parent, title) # Top =>
                 /\ Find(parent, title) \in Twins(parent, title)
                 /\ \A i \in Twins(parent, title) : Find(parent, title) <= i
<1>1. DOMAIN pages = 1 .. Len(pages) /\ Len(pages) \in Nat
  OBVIOUS
<1>2. Twins(parent, title) \subseteq 1 .. Len(pages)
  BY <1>1 DEF Twins
<1>3. CASE Twins(parent, title) = {}
  BY <1>1, <1>3 DEF Find, Top
<1>4. CASE Twins(parent, title) # {}
  <2>1. /\ Min(Twins(parent, title)) \in Twins(parent, title)
        /\ \A i \in Twins(parent, title) : Min(Twins(parent, title)) <= i
    BY <1>1, <1>2, <1>4, LeastNumber
  <2>2. Find(parent, title) = Min(Twins(parent, title))
    BY <1>4 DEF Find
  <2> QED
    BY <1>1, <1>2, <1>4, <2>1, <2>2 DEF Top
<1> QED
  BY <1>3, <1>4

\* The next file is one of those that are left, and the first of them.
LEMMA FirstOfTodo ==
    ASSUME TypeOK, run.todo # {}
    PROVE  Current \in run.todo /\ Current \in Doc /\ \A d \in run.todo : Current <= d
<1>1. run.todo \in SUBSET Nat /\ run.todo \subseteq Doc
  BY NotionAssumption DEF TypeOK, Run
<1> QED
  BY <1>1, LeastNumber DEF Current

Blocks == Seq(Doc \X Version \X (1 .. Batches))

\* The blocks of a page are replaced; a page is made.
WriteTo(page, blocks) ==
    /\ page \in DOMAIN pages /\ blocks \in Blocks
    /\ pages' = [pages EXCEPT ![page].blocks = blocks]
Make(parent, title) ==
    parent \in Nat /\ title \in Doc \cup {FolderTitle} /\ pages' = Create(parent, title)

\* A write to a page leaves the others, and every lookup, as they are.
LEMMA WrittenPage ==
    ASSUME pages \in Seq(Page), NEW page, NEW blocks, WriteTo(page, blocks)
    PROVE  /\ pages' \in Seq(Page) /\ Len(pages') = Len(pages)
           /\ DOMAIN pages' = DOMAIN pages
           /\ \A i \in DOMAIN pages :
                 /\ pages'[i].parent = pages[i].parent /\ pages'[i].title = pages[i].title
                 /\ pages'[i].blocks = IF i = page THEN blocks ELSE pages[i].blocks
           /\ \A parent, title : Find(parent, title)' = Find(parent, title)
<1> DEFINE new == [pages[page] EXCEPT !.blocks = blocks]
<1> USE DEF WriteTo, Blocks
<1>1. pages[page] \in Page
  OBVIOUS
<1>2. new \in Page /\ new.parent = pages[page].parent /\ new.title = pages[page].title
      /\ new.blocks = blocks
  BY <1>1 DEF Page
<1>3. pages' = [pages EXCEPT ![page] = new]
  OBVIOUS
<1> HIDE DEF new
<1>4. /\ pages' \in Seq(Page) /\ Len(pages') = Len(pages) /\ DOMAIN pages' = DOMAIN pages
      /\ \A i \in DOMAIN pages : pages'[i] = IF i = page THEN new ELSE pages[i]
  <2>1. pages \in [1 .. Len(pages) -> Page] /\ Len(pages) \in Nat
    OBVIOUS
  <2>2. pages' \in [1 .. Len(pages) -> Page]
    BY <1>2, <1>3, <2>1
  <2>3. pages' \in Seq(Page) /\ Len(pages') = Len(pages)
    BY <2>1, <2>2
  <2> QED
    BY <1>3, <2>1, <2>2, <2>3
<1>5. \A i \in DOMAIN pages :
        /\ pages'[i].parent = pages[i].parent /\ pages'[i].title = pages[i].title
        /\ pages'[i].blocks = IF i = page THEN blocks ELSE pages[i].blocks
  BY <1>2, <1>4
<1>6. \A parent, title : Twins(parent, title)' = Twins(parent, title)
  BY <1>4, <1>5 DEF Twins
<1>7. \A parent, title : Find(parent, title)' = Find(parent, title)
  BY <1>6 DEF Find
<1> QED
  BY <1>4, <1>5, <1>6, <1>7

\* A page that is made is found if there was none; no other lookup notices.
LEMMA MadePage ==
    ASSUME pages \in Seq(Page), NEW parent, NEW title, Make(parent, title)
    PROVE  /\ pages' \in Seq(Page) /\ Len(pages') = Len(pages) + 1
           /\ DOMAIN pages' = 1 .. Len(pages) + 1
           /\ \A i \in DOMAIN pages : pages'[i] = pages[i]
           /\ pages'[Len(pages) + 1].parent = parent /\ pages'[Len(pages) + 1].title = title
           /\ pages'[Len(pages) + 1].blocks = << >>
           /\ \A p, t : Find(p, t) # Top \/ p # parent \/ t # title =>
                           Find(p, t)' = Find(p, t)
           /\ Find(parent, title) = Top => Find(parent, title)' = Len(pages) + 1
<1> DEFINE new == [parent |-> parent, title |-> title, blocks |-> << >>]
           n == Len(pages) + 1
<1>1. new \in Page /\ new.parent = parent /\ new.title = title /\ new.blocks = << >>
  BY DEF Page, Make
<1>2. pages' = Append(pages, new)
  BY DEF Create, Make
<1> HIDE DEF new
<1>3. /\ pages' \in Seq(Page) /\ Len(pages') = n /\ DOMAIN pages' = 1 .. n
      /\ \A i \in DOMAIN pages : pages'[i] = pages[i]
      /\ pages'[n] = new /\ DOMAIN pages = 1 .. Len(pages) /\ Len(pages) \in Nat
  BY <1>1, <1>2
<1>4. ASSUME NEW p, NEW t
      PROVE  Twins(p, t)' = IF p = parent /\ t = title THEN Twins(p, t) \cup {n} ELSE Twins(p, t)
  BY <1>1, <1>3 DEF Twins
<1>5. ASSUME NEW p, NEW t, p # parent \/ t # title PROVE Find(p, t)' = Find(p, t)
  <2>1. Twins(p, t)' = Twins(p, t)
    BY <1>4, <1>5
  <2> QED
    BY <2>1 DEF Find
<1>6. ASSUME Find(parent, title) # Top PROVE Find(parent, title)' = Find(parent, title)
  <2> DEFINE f == Find(parent, title)
             T == Twins(parent, title)
  <2>1. /\ f \in T /\ \A i \in T : f <= i
        /\ f \in 0 .. Len(pages) /\ T \subseteq 1 .. Len(pages)
    BY <1>3, <1>6, FoundPage DEF Twins
  <2>2. Twins(parent, title)' = T \cup {n}
    BY <1>4
  <2>3. Find(parent, title)' = Min(T \cup {n})
    BY <2>1, <2>2 DEF Find
  <2>4. n \in Nat /\ \A i \in 1 .. Len(pages) : i < n
    BY <1>3
  <2> HIDE DEF f, T, n
  <2>5. T \cup {n} \in SUBSET Nat /\ f \in T \cup {n} /\ \A i \in T \cup {n} : f <= i
    BY <2>1, <2>4
  <2>6. Min(T \cup {n}) = f
    BY <2>5, LeastIsUnique
  <2> QED
    BY <2>3, <2>6 DEF f
<1>7. ASSUME Find(parent, title) = Top PROVE Find(parent, title)' = n
  <2>1. Twins(parent, title)' = {n}
    BY <1>4, <1>7, FoundPage
  <2>2. Min({n}) = n
    <3>1. {n} \in SUBSET Nat /\ n \in {n} /\ \A i \in {n} : n <= i
      BY <1>3
    <3> QED
      BY <3>1, LeastIsUnique
  <2> QED
    BY <2>1, <2>2 DEF Find
<1> QED
  BY <1>1, <1>3, <1>5, <1>6, <1>7
----------------------------------------------------------------------------
(* What a request does to the workspace.                                   *)

\* One more batch.
LEMMA NextBatch ==
    ASSUME NEW d, NEW v, NEW n \in Nat
    PROVE  Append(Batched(d, v, n), <<d, v, n + 1>>) = Batched(d, v, n + 1)
<1>1. Batched(d, v, n) \in Seq({<<d, v, i>> : i \in Nat}) /\ Len(Batched(d, v, n)) = n
  BY DEF Batched
<1> QED
  BY <1>1 DEF Batched

\* A page that loses its first block, and one that gets the next batch, is in order.
LEMMA StaysInBatches ==
    /\ \A blocks \in Blocks :
          blocks # << >> /\ InBatches(blocks) => InBatches(Tail(blocks))
    /\ \A d, v : \A n \in Nat : InBatches(Batched(d, v, n))
<1>1. ASSUME NEW blocks \in Blocks, blocks # << >>,
             InBatches(blocks)
      PROVE  InBatches(Tail(blocks))
  <2>1. /\ DOMAIN Tail(blocks) = 1 .. Len(blocks) - 1 /\ Len(blocks) \in Nat
        /\ \A k \in DOMAIN Tail(blocks) : Tail(blocks)[k] = blocks[k + 1]
        /\ DOMAIN blocks = 1 .. Len(blocks)
    BY <1>1 DEF Blocks
  <2>2. ASSUME NEW k \in DOMAIN Tail(blocks), NEW l \in DOMAIN Tail(blocks), k < l
        PROVE  k + 1 \in DOMAIN blocks /\ l + 1 \in DOMAIN blocks /\ k + 1 < l + 1
    BY <2>1, <2>2
  <2> QED
    BY <1>1, <2>1, <2>2 DEF InBatches
<1>2. ASSUME NEW d, NEW v, NEW n \in Nat PROVE InBatches(Batched(d, v, n))
  BY DEF InBatches, Batched
<1> QED
  BY <1>1, <1>2
\* A file has a page, and blocks on it, when something is shown of it.
LEMMA ShownPage ==
    ASSUME pages \in Seq(Page), NEW d \in Doc, ShownBlocks(d) # << >>
    PROVE  LET group == IF d \in Folder THEN Find(Top, FolderTitle) ELSE Top
           IN /\ d \in Folder => group # Top
              /\ Find(group, d) # Top /\ Find(group, d) \in DOMAIN pages
              /\ pages[Find(group, d)].title = d
              /\ ShownBlocks(d) = pages[Find(group, d)].blocks
<1> DEFINE group == IF d \in Folder THEN Find(Top, FolderTitle) ELSE Top
<1>1. /\ d \in Folder => group # Top
      /\ Find(group, d) # Top /\ ShownBlocks(d) = pages[Find(group, d)].blocks
  BY DEF ShownBlocks
<1>2. Find(group, d) \in Twins(group, d)
  BY <1>1, FoundPage
<1> QED
  BY <1>1, <1>2 DEF Twins

\* A page that is made hides nothing of what is shown.
LEMMA MadePageHidesNothing ==
    ASSUME pages \in Seq(Page), NEW parent, NEW title, Make(parent, title),
           NEW d \in Doc, ShownBlocks(d) # << >>
    PROVE  ShownBlocks(d)' = ShownBlocks(d)
<1> DEFINE group == IF d \in Folder THEN Find(Top, FolderTitle) ELSE Top
<1>1. /\ d \in Folder => group # Top
      /\ Find(group, d) # Top /\ Find(group, d) \in DOMAIN pages
      /\ ShownBlocks(d) = pages[Find(group, d)].blocks
  BY ShownPage
<1>2. \A p, t : Find(p, t) # Top => Find(p, t)' = Find(p, t)
  BY MadePage
<1>3. \A i \in DOMAIN pages : pages'[i] = pages[i]
  BY MadePage
<1>4. d \in Folder => Find(Top, FolderTitle)' = Find(Top, FolderTitle)
  BY <1>1, <1>2
<1>5. Find(group, d)' = Find(group, d)
  <2>1. CASE d \in Folder
    BY <1>1, <1>2, <1>4, <2>1
  <2>2. CASE d \notin Folder
    BY <1>1, <1>2, <2>2
  <2> QED
    BY <2>1, <2>2
<1>6. group' = group
  BY <1>4
<1>7. ShownBlocks(d)' = pages'[Find(group, d)].blocks
  BY <1>1, <1>4, <1>5, <1>6 DEF ShownBlocks
<1> QED
  BY <1>1, <1>3, <1>7

\* A write to another file's page changes nothing of what is shown.
LEMMA WrittenPageIsOne ==
    ASSUME pages \in Seq(Page), NEW page, NEW blocks, WriteTo(page, blocks),
           NEW d \in Doc, ShownBlocks(d) # << >>, pages[page].title # d
    PROVE  ShownBlocks(d)' = ShownBlocks(d)
<1> DEFINE group == IF d \in Folder THEN Find(Top, FolderTitle) ELSE Top
<1>1. /\ d \in Folder => group # Top
      /\ Find(group, d) # Top /\ Find(group, d) \in DOMAIN pages
      /\ pages[Find(group, d)].title = d
      /\ ShownBlocks(d) = pages[Find(group, d)].blocks
  BY ShownPage
<1>2. \A p, t : Find(p, t)' = Find(p, t)
  BY WrittenPage
<1>3. pages'[Find(group, d)].blocks = pages[Find(group, d)].blocks
  BY <1>1, WrittenPage
<1>4. group' = group
  BY <1>2
<1>5. Find(group, d)' = Find(group, d)
  BY <1>2
<1>6. ShownBlocks(d)' = pages'[Find(group, d)].blocks
  BY <1>1, <1>2, <1>4, <1>5 DEF ShownBlocks
<1> QED
  BY <1>1, <1>3, <1>6
\* The request that is made creates a page, writes to the one that was found, or looks.
LEMMA WhatARequestDoes ==
    ASSUME TypeOK, AnswersStillHold, Requesting, pages' = Effect
    PROVE  /\ run.todo # {} /\ Current \in Doc /\ Current \in run.todo
           /\ run.pc = "newgroup" => Make(Top, FolderTitle)
           /\ run.pc = "new" => Make(run.group, Current)
           /\ run.pc = "clear" =>
                 WriteTo(run.page, Rest(pages[run.page].blocks))
           /\ run.pc = "append" => WriteTo(run.page, Append(pages[run.page].blocks, Block))
           /\ run.pc \in {"group", "leaf"} => pages' = pages
<1>1. run \in Run /\ pages \in Seq(Page) /\ run.pc # "idle" /\ run.todo # {}
  BY DEF TypeOK, Requesting
<1>2. Current \in run.todo /\ Current \in Doc
  BY <1>1, FirstOfTodo
<1>3. run.group \in Nat /\ run.page \in 0 .. Len(pages) /\ Len(pages) \in Nat
      /\ run.sha \in [Doc -> Version] /\ run.batch \in 1 .. Batches
  BY <1>1 DEF Run
<1>4. CASE run.pc = "newgroup"
  BY <1>1, <1>2, <1>4 DEF Effect, Make, Top
<1>5. CASE run.pc = "new"
  BY <1>1, <1>2, <1>3, <1>5 DEF Effect, Make
<1>6. CASE run.pc \in {"clear", "append"}
  <2>1. run.page \in DOMAIN pages
    BY <1>3, <1>6 DEF AnswersStillHold, Top
  <2>2. pages[run.page] \in Page
    BY <1>1, <2>1
  <2>3. pages[run.page].blocks \in Seq(Doc \X Version \X (1 .. Batches))
    BY <2>2 DEF Page
  <2>4. CASE run.pc = "clear"
    <3>1. Rest(pages[run.page].blocks) \in Blocks
      BY <2>3 DEF Blocks, Rest
    <3>2. pages' = [pages EXCEPT ![run.page].blocks = Rest(pages[run.page].blocks)]
      BY <2>4 DEF Effect
    <3> QED
      BY <1>1, <1>2, <2>1, <2>4, <3>1, <3>2 DEF WriteTo
  <2>5. CASE run.pc = "append"
    <3>1. Block \in Doc \X Version \X (1 .. Batches)
      BY <1>2, <1>3 DEF Block
    <3>2. Append(pages[run.page].blocks, Block) \in Blocks
      BY <2>3, <3>1 DEF Blocks
    <3>3. pages' = [pages EXCEPT ![run.page].blocks = Append(pages[run.page].blocks, Block)]
      BY <2>5 DEF Effect
    <3> QED
      BY <1>1, <1>2, <2>1, <2>5, <3>2, <3>3 DEF WriteTo
  <2> QED
    BY <1>6, <2>4, <2>5
<1>7. CASE run.pc \in {"group", "leaf"}
  BY <1>1, <1>2, <1>7 DEF Effect
<1> QED
  BY <1>1, <1>2, <1>4, <1>5, <1>6, <1>7 DEF Run, Pc, Requesting

\* Pages are added, never taken away.
LEMMA RequestKeepsPages ==
    ASSUME TypeOK, AnswersStillHold, Requesting, pages' = Effect
    PROVE  pages' \in Seq(Page) /\ Len(pages') \in Nat /\ Len(pages) \in Nat
           /\ Len(pages) <= Len(pages')
<1>1. pages \in Seq(Page) /\ Len(pages) \in Nat /\ run.pc \in Pc \ {"idle", "next"}
  BY DEF TypeOK, Requesting, Run
<1>2. CASE run.pc \in {"newgroup", "new"}
  <2>1. PICK parent, title : Make(parent, title)
    BY <1>2, WhatARequestDoes
  <2> QED
    BY <1>1, <2>1, MadePage
<1>3. CASE run.pc \in {"clear", "append"}
  <2>1. PICK page, blocks : WriteTo(page, blocks)
    BY <1>3, WhatARequestDoes
  <2> QED
    BY <1>1, <2>1, WrittenPage
<1>4. CASE run.pc \in {"group", "leaf"}
  BY <1>1, <1>4, WhatARequestDoes
<1> QED
  BY <1>1, <1>2, <1>3, <1>4 DEF Pc

\* The page that is written to is the one that was looked for.
LEMMA WrittenToIsFound ==
    ASSUME TypeOK, AnswersStillHold, ~run.lost, run.pc \in {"clear", "append"}
    PROVE  /\ run.page \in DOMAIN pages /\ pages[run.page].title = Current
           /\ pages[run.page].blocks \in Blocks
<1>1. pages \in Seq(Page) /\ run.page # Top /\ run.page = Find(run.group, Current)
  BY DEF TypeOK, AnswersStillHold
<1>2. run.page \in Twins(run.group, Current)
  BY <1>1, FoundPage
<1>3. run.page \in DOMAIN pages /\ pages[run.page].title = Current
  BY <1>2 DEF Twins
<1>4. pages[run.page] \in Page
  BY <1>1, <1>3
<1> QED
  BY <1>3, <1>4 DEF Page, Blocks
\* The page that is written to gets the batch after those that were acknowledged.
LEMMA AckedBatches ==
    ASSUME TypeOK, AnswersStillHold, ~run.lost, run.pc = "append"
    PROVE  Append(pages[run.page].blocks, Block) = Batched(Current, run.sha[Current], run.batch)
<1>1. pages[run.page].blocks = Batched(Current, run.sha[Current], run.batch - 1)
  BY DEF AnswersStillHold
<1>2. run.batch - 1 \in Nat /\ (run.batch - 1) + 1 = run.batch
  BY NotionAssumption DEF TypeOK, Run
<1> QED
  BY <1>1, <1>2, NextBatch DEF Block

\* Where the pages stay as they are, so does what is found.
LEMMA NothingIsMoved ==
    ASSUME pages' = pages
    PROVE  /\ \A p, t : Twins(p, t)' = Twins(p, t) /\ Find(p, t)' = Find(p, t)
           /\ \A d : ShownBlocks(d)' = ShownBlocks(d)
<1>1. \A p, t : Twins(p, t)' = Twins(p, t)
  BY DEF Twins
<1>2. \A p, t : Find(p, t)' = Find(p, t)
  BY <1>1 DEF Find
<1>3. \A d : ShownBlocks(d)' = ShownBlocks(d)
  BY <1>2 DEF ShownBlocks
<1> QED
  BY <1>1, <1>2, <1>3

\* A page that there is none of yet is no twin.
LEMMA MadePageIsAlone ==
    ASSUME pages \in Seq(Page), NEW parent, NEW title, Make(parent, title),
           Twins(parent, title) = {}, NoTwins, \A i \in DOMAIN pages : InBatches(pages[i].blocks)
    PROVE  NoTwins' /\ \A i \in DOMAIN pages' : InBatches(pages'[i].blocks)
<1>1. /\ DOMAIN pages' = 1 .. Len(pages) + 1 /\ \A i \in DOMAIN pages : pages'[i] = pages[i]
      /\ pages'[Len(pages) + 1].parent = parent /\ pages'[Len(pages) + 1].title = title
      /\ pages'[Len(pages) + 1].blocks = << >>
  BY MadePage
<1>2. DOMAIN pages = 1 .. Len(pages) /\ Len(pages) \in Nat
  OBVIOUS
<1>3. \A i \in DOMAIN pages : ~(pages[i].parent = parent /\ pages[i].title = title)
  BY DEF Twins
<1>4. InBatches(<< >>)
  BY DEF InBatches
<1>5. ASSUME NEW i \in DOMAIN pages', NEW j \in DOMAIN pages',
             pages'[i].parent = pages'[j].parent, pages'[i].title = pages'[j].title
      PROVE  i = j
  <2>1. CASE i \in DOMAIN pages /\ j \in DOMAIN pages
    BY <1>1, <1>5, <2>1 DEF NoTwins
  <2>2. CASE i = Len(pages) + 1 /\ j \in DOMAIN pages
    BY <1>1, <1>3, <1>5, <2>2
  <2>3. CASE i \in DOMAIN pages /\ j = Len(pages) + 1
    BY <1>1, <1>3, <1>5, <2>3
  <2> QED
    BY <1>1, <1>2, <2>1, <2>2, <2>3
<1>6. ASSUME NEW i \in DOMAIN pages' PROVE InBatches(pages'[i].blocks)
  BY <1>1, <1>2, <1>4
<1> QED
  BY <1>5, <1>6 DEF NoTwins

\* A request of a run that lost nothing makes no twin, and writes no batch twice.
LEMMA RequestMakesNoTwin ==
    ASSUME TypeOK, AnswersStillHold, Requesting, pages' = Effect, ~run.lost,
           NoTwins, \A i \in DOMAIN pages : InBatches(pages[i].blocks)
    PROVE  NoTwins' /\ \A i \in DOMAIN pages' : InBatches(pages'[i].blocks)
<1>1. pages \in Seq(Page) /\ run.pc \in Pc \ {"idle", "next"} /\ run.pc # "idle"
  BY DEF TypeOK, Requesting, Run, Pc
<1>2. CASE run.pc = "newgroup"
  BY <1>1, <1>2, WhatARequestDoes, MadePageIsAlone DEF AnswersStillHold
<1>3. CASE run.pc = "new"
  BY <1>1, <1>3, WhatARequestDoes, MadePageIsAlone DEF AnswersStillHold
<1>4. CASE run.pc \in {"clear", "append"}
  <2>1. run.page \in DOMAIN pages /\ pages[run.page].blocks \in Blocks
    BY <1>4, WrittenToIsFound
  <2>2. PICK blocks : WriteTo(run.page, blocks) /\ InBatches(blocks)
    <3>1. CASE run.pc = "clear"
      <4>1. WriteTo(run.page, Rest(pages[run.page].blocks))
        BY <3>1, WhatARequestDoes
      <4>2. InBatches(Rest(pages[run.page].blocks))
        BY <2>1, StaysInBatches DEF Rest
      <4> QED
        BY <4>1, <4>2
    <3>2. CASE run.pc = "append"
      <4>1. WriteTo(run.page, Append(pages[run.page].blocks, Block))
        BY <3>2, WhatARequestDoes
      <4>2. Append(pages[run.page].blocks, Block) = Batched(Current, run.sha[Current], run.batch)
        BY <3>2, AckedBatches
      <4>3. run.batch \in Nat
        BY NotionAssumption DEF TypeOK, Run
      <4> QED
        BY <4>1, <4>2, <4>3, StaysInBatches
    <3> QED
      BY <1>4, <3>1, <3>2
  <2>3. /\ DOMAIN pages' = DOMAIN pages
        /\ \A i \in DOMAIN pages :
              /\ pages'[i].parent = pages[i].parent /\ pages'[i].title = pages[i].title
              /\ pages'[i].blocks = IF i = run.page THEN blocks ELSE pages[i].blocks
    BY <1>1, <2>2, WrittenPage
  <2> QED
    BY <2>2, <2>3 DEF NoTwins
<1>5. CASE run.pc \in {"group", "leaf"}
  BY <1>5, WhatARequestDoes DEF NoTwins
<1> QED
  BY <1>1, <1>2, <1>3, <1>4, <1>5 DEF Pc

\* A request changes nothing of what is shown of another file.
LEMMA RequestIsForOneFile ==
    ASSUME TypeOK, AnswersStillHold, Requesting, pages' = Effect, ~run.lost,
           NEW d \in Doc, d # Current, ShownBlocks(d) # << >>
    PROVE  ShownBlocks(d)' = ShownBlocks(d)
<1>1. pages \in Seq(Page) /\ run.pc \in Pc \ {"idle", "next"}
  BY DEF TypeOK, Requesting, Run
<1>2. CASE run.pc \in {"newgroup", "new"}
  <2>1. PICK parent, title : Make(parent, title)
    BY <1>2, WhatARequestDoes
  <2> QED
    BY <1>1, <2>1, MadePageHidesNothing
<1>3. CASE run.pc \in {"clear", "append"}
  <2>1. PICK blocks : WriteTo(run.page, blocks)
    BY <1>3, WhatARequestDoes
  <2>2. pages[run.page].title # d
    BY <1>3, WrittenToIsFound
  <2> QED
    BY <1>1, <2>1, <2>2, WrittenPageIsOne
<1>4. CASE run.pc \in {"group", "leaf"}
  <2>1. pages' = pages
    BY <1>4, WhatARequestDoes
  <2> QED
    BY <2>1, NothingIsMoved
<1> QED
  BY <1>1, <1>2, <1>3, <1>4 DEF Pc

\* The last batch makes the file whole where a reader finds it.
LEMMA LastBatchIsShown ==
    ASSUME TypeOK, FolderComesLast, AnswersStillHold, ~run.lost, pages' = Effect,
           run.pc = "append", run.batch = Batches, NEW d, d = Current
    PROVE  ShownBlocks(d)' = Content(d, run.sha[d])
<1>1. pages \in Seq(Page) /\ run.page # Top /\ Requesting
  BY DEF TypeOK, AnswersStillHold, Requesting
<1>2. d \in Folder => Find(Top, FolderTitle) = run.group /\ run.group # Top
  BY DEF FolderComesLast, AnswersStillHold
<1>3. d \notin Folder => run.group = Top
  BY DEF FolderComesLast
<1>4. Find(run.group, d) = run.page
  BY DEF AnswersStillHold
<1>5. WriteTo(run.page, Append(pages[run.page].blocks, Block))
  BY <1>1, WhatARequestDoes
<1>6. Append(pages[run.page].blocks, Block) = Content(d, run.sha[d])
  BY AckedBatches DEF Content
<1>7. \A p, t : Find(p, t)' = Find(p, t)
  BY <1>1, <1>5, WrittenPage
<1>8. pages'[run.page].blocks = Content(d, run.sha[d])
  BY <1>1, <1>5, <1>6, WrittenPage DEF WriteTo
<1> QED
  BY <1>1, <1>2, <1>3, <1>4, <1>7, <1>8 DEF ShownBlocks
----------------------------------------------------------------------------
(* The steps.                                                              *)

\* A run that begins knows nothing yet.
LEMMA RunBegins ==
    ASSUME NEW sha \in [Doc -> Version], NEW todo \in SUBSET Doc,
           run' = Begin(sha, todo), Len(pages') \in Nat
    PROVE  /\ run' \in Run' /\ (run'.pc = "idle" <=> run'.todo = {})
           /\ run'.sha = sha /\ run'.todo = todo /\ run'.lost = FALSE
           /\ FolderComesLast' /\ AnswersStillHold'
<1> DEFINE pc == IF todo = {} THEN "idle" ELSE "next"
<1>1. run' = [pc |-> pc, sha |-> sha, todo |-> todo, group |-> Top, page |-> Top,
              batch |-> 1, tries |-> 0, lost |-> FALSE]
  BY DEF Begin, NoRun
<1>2. /\ run'.pc = pc /\ run'.sha = sha /\ run'.todo = todo /\ run'.group = Top
      /\ run'.batch = 1 /\ run'.lost = FALSE
  BY <1>1
<1>3. run' \in Run'
  BY <1>1, NotionAssumption DEF Run, Pc, Top
<1>4. FolderComesLast' /\ AnswersStillHold'
  BY <1>2 DEF FolderComesLast, AnswersStillHold
<1> QED
  BY <1>2, <1>3, <1>4

\* The run goes on with these.
GoesTo(pc, group, page, batch, todo) ==
    /\ pc \in Pc /\ group \in 0 .. Len(pages') /\ page \in 0 .. Len(pages')
    /\ batch \in 1 .. Batches /\ todo \subseteq run.todo
    /\ run' = [run EXCEPT !.pc = pc, !.tries = 0, !.group = group, !.page = page,
                          !.batch = batch, !.todo = todo]

\* The fields of the run after an answer.
LEMMA ProceedsTo ==
    ASSUME TypeOK, NEW pc, NEW group, NEW page, NEW batch, NEW todo,
           GoesTo(pc, group, page, batch, todo)
    PROVE  /\ run' \in Run'
           /\ run'.pc = pc /\ run'.group = group /\ run'.page = page /\ run'.batch = batch
           /\ run'.todo = todo /\ run'.sha = run.sha /\ run'.lost = run.lost
           /\ todo = run.todo => Current' = Current
<1>1. run \in Run /\ 0 \in 0 .. Retries
  BY NotionAssumption DEF TypeOK
<1>2. run' = [pc |-> pc, sha |-> run.sha, todo |-> todo, group |-> group, page |-> page,
              batch |-> batch, tries |-> 0, lost |-> run.lost]
  BY <1>1 DEF Run, GoesTo
<1>3. run' \in Run'
  BY <1>1, <1>2 DEF Run, GoesTo
<1>4. run'.todo = todo /\ (todo = run.todo => Current' = Current)
  BY <1>2 DEF Current
<1> QED
  BY <1>2, <1>3, <1>4
\* The answer to a lookup, or to the creation of a page, is what the pages say.
LEMMA AnswerIsTrue ==
    ASSUME TypeOK, FolderComesLast, AnswersStillHold, Requesting, pages' = Effect,
           run' = Proceed, UNCHANGED mishaps, run.pc \in {"group", "newgroup", "leaf", "new"}
    PROVE  run' \in Run' /\ run'.pc # "idle" /\ run'.todo = run.todo /\ run'.sha = run.sha
           /\ run'.lost = run.lost /\ FolderComesLast' /\ AnswersStillHold'
<1> DEFINE n == Len(pages')
<1>1. /\ run \in Run /\ pages \in Seq(Page) /\ run.todo # {} /\ run.pc # "idle"
      /\ Len(pages) \in Nat /\ n \in Nat /\ Len(pages) <= n
  BY RequestKeepsPages DEF TypeOK, Requesting
<1>2. /\ Current \in run.todo /\ Current \in Doc /\ \A d \in run.todo : Current <= d
      /\ run.todo \subseteq Doc
  BY <1>1, FirstOfTodo DEF Run
<1>3. /\ run.group \in 0 .. n /\ run.page \in 0 .. n /\ run.batch = 1 /\ 1 \in 1 .. Batches
      /\ run.lost => "lost" \in mishaps
  BY <1>1, NotionAssumption DEF Run, AnswersStillHold
<1> HIDE DEF n
<1>4. Current \in Folder => run.todo \subseteq Folder
  BY <1>2, NotionAssumption
<1>5. CASE run.pc = "group"
  <2> DEFINE found == Find(Top, FolderTitle)
  <2>1. found \in 0 .. Len(pages) /\ (found = Top <=> Twins(Top, FolderTitle) = {})
    BY <1>1, FoundPage
  <2>2. pages' = pages /\ \A p, t : Find(p, t)' = Find(p, t) /\ Twins(p, t)' = Twins(p, t)
    BY <1>5, WhatARequestDoes, NothingIsMoved
  <2>3. Current \in Folder /\ run.group = Top
    BY <1>1, <1>5 DEF FolderComesLast
  <2>4. CASE found = Top
    <3>1. GoesTo("newgroup", run.group, run.page, 1, run.todo)
      BY <1>1, <1>3, <1>5, <2>4 DEF Proceed, To, Title, Run, GoesTo, Pc, n
    <3>2. /\ run' \in Run' /\ run'.pc = "newgroup" /\ run'.group = run.group
          /\ run'.page = run.page /\ run'.batch = 1 /\ run'.todo = run.todo
          /\ run'.sha = run.sha /\ run'.lost = run.lost /\ Current' = Current
      BY <3>1, ProceedsTo
    <3> QED
      BY <1>3, <2>1, <2>2, <2>3, <2>4, <3>2 DEF FolderComesLast, AnswersStillHold
  <2>5. CASE found # Top
    <3>1. GoesTo("leaf", found, run.page, 1, run.todo)
      BY <2>1, <2>2, <1>1, <1>3, <1>5, <2>5 DEF Proceed, To, Title, Run, GoesTo, Pc, n
    <3>2. /\ run' \in Run' /\ run'.pc = "leaf" /\ run'.group = found
          /\ run'.page = run.page /\ run'.batch = 1 /\ run'.todo = run.todo
          /\ run'.sha = run.sha /\ run'.lost = run.lost /\ Current' = Current
      BY <3>1, ProceedsTo
    <3> QED
      BY <1>3, <1>4, <2>2, <2>3, <2>5, <3>2 DEF FolderComesLast, AnswersStillHold
  <2> QED
    BY <2>4, <2>5
<1>6. CASE run.pc = "newgroup"
  <2>1. Current \in Folder /\ run.group = Top
    BY <1>1, <1>6 DEF FolderComesLast
  <2>2. Make(Top, FolderTitle)
    BY <1>6, WhatARequestDoes
  <2>3. n = Len(pages) + 1 /\ n # Top
        /\ (Find(Top, FolderTitle) = Top => Find(Top, FolderTitle)' = n)
    BY <1>1, <2>2, MadePage DEF n, Top
  <2>4. ~run.lost => Find(Top, FolderTitle) = Top
    BY <1>1, <1>6, FoundPage DEF AnswersStillHold
  <2>5. GoesTo("leaf", n, run.page, 1, run.todo)
    <3>1. run' = [run EXCEPT !.pc = "leaf", !.tries = 0, !.group = n]
      BY <1>6, <2>3 DEF Proceed, To
    <3>2. run' = [run EXCEPT !.pc = "leaf", !.tries = 0, !.group = n, !.page = run.page,
                             !.batch = 1, !.todo = run.todo]
      BY <1>1, <1>3, <3>1 DEF Run
    <3>3. "leaf" \in Pc /\ n \in 0 .. n /\ run.page \in 0 .. n
      BY <1>1, <1>3 DEF Pc
    <3> QED
      BY <1>3, <3>2, <3>3 DEF GoesTo, n
  <2>6. /\ run' \in Run' /\ run'.pc = "leaf" /\ run'.group = n
        /\ run'.page = run.page /\ run'.batch = 1 /\ run'.todo = run.todo
        /\ run'.sha = run.sha /\ run'.lost = run.lost /\ Current' = Current
    BY <2>5, ProceedsTo
  <2> QED
    BY <1>3, <1>4, <2>1, <2>3, <2>4, <2>6 DEF FolderComesLast, AnswersStillHold
<1>7. CASE run.pc = "leaf"
  <2> DEFINE found == Find(run.group, Current)
  <2>1. found \in 0 .. Len(pages) /\ (found = Top <=> Twins(run.group, Current) = {})
    BY <1>1, FoundPage
  <2>2. pages' = pages /\ \A p, t : Find(p, t)' = Find(p, t) /\ Twins(p, t)' = Twins(p, t)
    BY <1>7, WhatARequestDoes, NothingIsMoved
  <2>3. /\ run.group # Top => run.todo \subseteq Folder
        /\ Current \in Folder <=> run.group # Top
        /\ ~run.lost /\ run.group # Top => run.group = Find(Top, FolderTitle)
    BY <1>1, <1>7 DEF FolderComesLast, AnswersStillHold
  <2>4. CASE found = Top
    <3>1. GoesTo("new", run.group, run.page, 1, run.todo)
      BY <1>1, <1>3, <1>7, <2>4 DEF Proceed, To, Title, AfterLookup, Run, GoesTo, Pc, n
    <3>2. /\ run' \in Run' /\ run'.pc = "new" /\ run'.group = run.group
          /\ run'.page = run.page /\ run'.batch = 1 /\ run'.todo = run.todo
          /\ run'.sha = run.sha /\ run'.lost = run.lost /\ Current' = Current
      BY <3>1, ProceedsTo
    <3> QED
      BY <1>3, <2>1, <2>2, <2>3, <2>4, <3>2 DEF FolderComesLast, AnswersStillHold
  <2>5. CASE found # Top
    <3>1. GoesTo("clear", run.group, found, 1, run.todo)
      BY <2>1, <2>2, <1>1, <1>3, <1>7, <2>5 DEF Proceed, To, Title, AfterLookup, Run, GoesTo, Pc, n
    <3>2. /\ run' \in Run' /\ run'.pc = "clear" /\ run'.group = run.group
          /\ run'.page = found /\ run'.batch = 1 /\ run'.todo = run.todo
          /\ run'.sha = run.sha /\ run'.lost = run.lost /\ Current' = Current
      BY <3>1, ProceedsTo
    <3> QED
      BY <1>3, <2>2, <2>3, <2>5, <3>2 DEF FolderComesLast, AnswersStillHold
  <2> QED
    BY <2>4, <2>5
<1>8. CASE run.pc = "new"
  <2>1. /\ run.group # Top => run.todo \subseteq Folder
        /\ Current \in Folder <=> run.group # Top
        /\ ~run.lost /\ run.group # Top => run.group = Find(Top, FolderTitle)
        /\ ~run.lost => Twins(run.group, Current) = {}
    BY <1>1, <1>8 DEF FolderComesLast, AnswersStillHold
  <2>2. Make(run.group, Current)
    BY <1>8, WhatARequestDoes
  <2>3. /\ n = Len(pages) + 1 /\ n # Top /\ pages'[n].blocks = << >>
        /\ \A p, t : p = run.group /\ t = Current /\ Find(p, t) = Top => Find(p, t)' = n
        /\ \A p, t : Find(p, t) # Top => Find(p, t)' = Find(p, t)
    BY <1>1, <2>2, MadePage DEF n, Top
  <2>4. ~run.lost => Find(run.group, Current) = Top
    BY <1>1, <2>1, FoundPage
  <2>5. GoesTo("append", run.group, n, 1, run.todo)
    <3>1. run' = [run EXCEPT !.pc = "append", !.tries = 0, !.page = n]
      BY <1>8, <2>3 DEF Proceed, To
    <3>2. run' = [run EXCEPT !.pc = "append", !.tries = 0, !.group = run.group, !.page = n,
                             !.batch = 1, !.todo = run.todo]
      BY <1>1, <1>3, <3>1 DEF Run
    <3>3. "append" \in Pc /\ n \in 0 .. n /\ run.group \in 0 .. n
      BY <1>1, <1>3 DEF Pc
    <3> QED
      BY <1>3, <3>2, <3>3 DEF GoesTo, n
  <2>6. /\ run' \in Run' /\ run'.pc = "append" /\ run'.group = run.group
        /\ run'.page = n /\ run'.batch = 1 /\ run'.todo = run.todo
        /\ run'.sha = run.sha /\ run'.lost = run.lost /\ Current' = Current
    BY <2>5, ProceedsTo
  <2>7. \A d, v : Batched(d, v, 1 - 1) = << >>
    BY DEF Batched
  <2>8. ~run.lost => Find(run.group, Current)' = n
    BY <2>3, <2>4, <2>6
  <2>9. ~run.lost /\ run.group # Top => run.group = Find(Top, FolderTitle)'
    BY <2>1, <2>3
  <2> QED
    BY <1>3, <2>1, <2>3, <2>6, <2>7, <2>8, <2>9 DEF FolderComesLast, AnswersStillHold
<1> QED
  BY <1>5, <1>6, <1>7, <1>8
\* The files that are left after an answer.
LEMMA LeftToDo ==
    ASSUME TypeOK, Requesting
    PROVE  Proceed.todo = IF run.pc = "append" /\ run.batch = Batches THEN run.todo \ {Current}
                          ELSE run.todo
<1>1. run \in Run /\ run.pc \in Pc \ {"idle", "next"} /\ run.batch \in 1 .. Batches
  BY DEF TypeOK, Requesting, Run
<1>2. CASE run.pc = "append"
  <2>1. CASE run.batch < Batches
    <3>1. Proceed = [run EXCEPT !.pc = "append", !.tries = 0, !.batch = run.batch + 1]
      BY <1>2, <2>1 DEF Proceed, To
    <3> QED
      BY <1>1, <2>1, <3>1, NotionAssumption DEF Run
  <2>2. CASE ~(run.batch < Batches)
    <3>1. Proceed = [run EXCEPT !.pc = "next", !.tries = 0, !.page = Top, !.batch = 1,
                                !.todo = run.todo \ {Current}]
      BY <1>2, <2>2 DEF Proceed, To
    <3>2. run.batch = Batches
      BY <1>1, <2>2, NotionAssumption
    <3> QED
      BY <1>1, <1>2, <3>1, <3>2 DEF Run
  <2> QED
    BY <2>1, <2>2
<1>3. CASE run.pc # "append"
  BY <1>1, <1>3 DEF Proceed, To, AfterLookup, AfterClear, Pc, Run
<1> QED
  BY <1>2, <1>3

\* The answer to a write: the page has what was acknowledged, and nothing is found elsewhere.
LEMMA WriteIsTrue ==
    ASSUME TypeOK, FolderComesLast, AnswersStillHold, Requesting, pages' = Effect,
           run' = Proceed, UNCHANGED mishaps, run.pc \in {"clear", "append"}, run'.todo # {}
    PROVE  run' \in Run' /\ run'.pc # "idle" /\ run'.sha = run.sha
           /\ run'.lost = run.lost /\ FolderComesLast' /\ AnswersStillHold'
<1> DEFINE n == Len(pages')
<1>1. /\ run \in Run /\ pages \in Seq(Page) /\ run.pc # "idle"
      /\ Len(pages) \in Nat /\ n \in Nat /\ Len(pages) <= n
  BY RequestKeepsPages DEF TypeOK, Requesting
<1>2. run.group \in 0 .. n /\ run.page \in 0 .. n /\ Top \in 0 .. n /\ run.page # Top
  BY <1>1 DEF Run, Top, AnswersStillHold
<1> HIDE DEF n
<1>3. /\ run.batch \in 1 .. Batches /\ 1 \in 1 .. Batches /\ Batches \in Nat
      /\ run.lost => "lost" \in mishaps
      /\ run.group # Top => run.todo \subseteq Folder
      /\ Current \in Folder <=> run.group # Top
      /\ ~run.lost /\ run.group # Top => run.group = Find(Top, FolderTitle)
      /\ ~run.lost => run.page = Find(run.group, Current)
  BY <1>1, NotionAssumption DEF Run, FolderComesLast, AnswersStillHold
<1>4. PICK blocks : /\ WriteTo(run.page, blocks)
                    /\ run.pc = "clear" => blocks = Rest(pages[run.page].blocks)
                    /\ run.pc = "append" => blocks = Append(pages[run.page].blocks, Block)
  <2>1. CASE run.pc = "clear"
    BY <2>1, WhatARequestDoes
  <2>2. CASE run.pc = "append"
    BY <2>2, WhatARequestDoes
  <2> QED
    BY <2>1, <2>2
<1>5. pages'[run.page].blocks = blocks /\ \A p, t : Find(p, t)' = Find(p, t)
  BY <1>1, <1>4, WrittenPage DEF WriteTo
<1>6. CASE run.pc = "clear"
  <2>1. run.batch = 1
    BY <1>6 DEF AnswersStillHold
  <2>2. CASE Len(pages[run.page].blocks) > 1
    <3>1. run' = [run EXCEPT !.pc = "clear", !.tries = 0]
      BY <1>6, <2>2 DEF Proceed, To, AfterClear
    <3>2. run' = [run EXCEPT !.pc = "clear", !.tries = 0, !.group = run.group,
                             !.page = run.page, !.batch = 1, !.todo = run.todo]
      BY <1>1, <2>1, <3>1 DEF Run
    <3>3. GoesTo("clear", run.group, run.page, 1, run.todo)
      BY <1>2, <1>3, <3>2 DEF GoesTo, Pc, n
    <3>4. /\ run' \in Run' /\ run'.pc = "clear" /\ run'.group = run.group
          /\ run'.page = run.page /\ run'.batch = 1 /\ run'.todo = run.todo
          /\ run'.sha = run.sha /\ run'.lost = run.lost /\ Current' = Current
      BY <3>3, ProceedsTo
    <3> QED
      BY <1>2, <1>3, <1>5, <3>4 DEF FolderComesLast, AnswersStillHold
  <2>3. CASE ~(Len(pages[run.page].blocks) > 1)
    <3>1. run' = [run EXCEPT !.pc = "append", !.tries = 0]
      BY <1>6, <2>3 DEF Proceed, To, AfterClear
    <3>2. run' = [run EXCEPT !.pc = "append", !.tries = 0, !.group = run.group,
                             !.page = run.page, !.batch = 1, !.todo = run.todo]
      BY <1>1, <2>1, <3>1 DEF Run
    <3>3. GoesTo("append", run.group, run.page, 1, run.todo)
      BY <1>2, <1>3, <3>2 DEF GoesTo, Pc, n
    <3>4. /\ run' \in Run' /\ run'.pc = "append" /\ run'.group = run.group
          /\ run'.page = run.page /\ run'.batch = 1 /\ run'.todo = run.todo
          /\ run'.sha = run.sha /\ run'.lost = run.lost /\ Current' = Current
      BY <3>3, ProceedsTo
    <3>5. ~run.lost => blocks = << >>
      <4> SUFFICES ASSUME ~run.lost PROVE blocks = << >>
        OBVIOUS
      <4>1. pages[run.page].blocks \in Seq(Doc \X Version \X (1 .. Batches))
        BY <1>6, WrittenToIsFound DEF Blocks
      <4> QED
        BY <1>4, <1>6, <2>3, <4>1 DEF Rest
    <3>6. \A d, v : Batched(d, v, 1 - 1) = << >>
      BY DEF Batched
    <3> QED
      BY <1>2, <1>3, <1>5, <3>4, <3>5, <3>6 DEF FolderComesLast, AnswersStillHold
  <2> QED
    BY <2>2, <2>3
<1>7. CASE run.pc = "append" /\ run.batch < Batches
  <2>1. run' = [run EXCEPT !.pc = "append", !.tries = 0, !.batch = run.batch + 1]
    BY <1>7 DEF Proceed, To
  <2>2. run' = [run EXCEPT !.pc = "append", !.tries = 0, !.group = run.group,
                           !.page = run.page, !.batch = run.batch + 1, !.todo = run.todo]
    BY <1>1, <2>1 DEF Run
  <2>3. GoesTo("append", run.group, run.page, run.batch + 1, run.todo)
    BY <1>2, <1>3, <1>7, <2>2 DEF GoesTo, Pc, n
  <2>4. /\ run' \in Run' /\ run'.pc = "append" /\ run'.group = run.group
        /\ run'.page = run.page /\ run'.batch = run.batch + 1 /\ run'.todo = run.todo
        /\ run'.sha = run.sha /\ run'.lost = run.lost /\ Current' = Current
    BY <2>3, ProceedsTo
  <2>5. ~run.lost => blocks = Batched(Current, run.sha[Current], run.batch)
    BY <1>4, <1>7, AckedBatches
  <2>6. (run.batch + 1) - 1 = run.batch
    BY <1>3
  <2> QED
    BY <1>2, <1>3, <1>5, <2>4, <2>5, <2>6 DEF FolderComesLast, AnswersStillHold
<1>8. CASE run.pc = "append" /\ ~(run.batch < Batches)
  <2>1. run' = [run EXCEPT !.pc = "next", !.tries = 0, !.page = Top, !.batch = 1,
                           !.todo = run.todo \ {Current}]
    BY <1>8 DEF Proceed, To
  <2>2. run' = [run EXCEPT !.pc = "next", !.tries = 0, !.group = run.group,
                           !.page = Top, !.batch = 1, !.todo = run.todo \ {Current}]
    BY <1>1, <2>1 DEF Run
  <2>3. GoesTo("next", run.group, Top, 1, run.todo \ {Current})
    BY <1>2, <1>3, <2>2 DEF GoesTo, Pc, n
  <2>4. /\ run' \in Run' /\ run'.pc = "next" /\ run'.group = run.group
        /\ run'.batch = 1 /\ run'.todo = run.todo \ {Current}
        /\ run'.sha = run.sha /\ run'.lost = run.lost
    BY <2>3, ProceedsTo
  <2> QED
    BY <1>2, <1>3, <1>5, <2>4 DEF FolderComesLast, AnswersStillHold
<1> QED
  BY <1>6, <1>7, <1>8
\* What is shown stays shown; the file that a request completes is shown from then on.
LEMMA ShownAfterRequest ==
    ASSUME Inductive, Requesting, pages' = Effect, mishaps = {},
           NEW d \in Doc, repo[d] # 0, d \notin waiting.todo,
           d \in run.todo => d = Current /\ run.pc = "append" /\ run.batch = Batches
    PROVE  ShownBlocks(d)' = Content(d, repo[d])
<1>1. TypeOK /\ FolderComesLast /\ AnswersStillHold /\ ~run.lost
  BY DEF Inductive, AnswersStillHold
<1>2. IF d \in run.todo THEN run.sha[d] = repo[d] ELSE ShownBlocks(d) = Content(d, repo[d])
  BY DEF Inductive, ShownOrPlanned
<1>3. CASE d \in run.todo
  BY <1>1, <1>2, <1>3, LastBatchIsShown
<1>4. CASE d \notin run.todo
  <2>1. Current \in run.todo
    BY <1>1, WhatARequestDoes
  <2>2. Content(d, repo[d]) # << >>
    BY NotionAssumption DEF Content, Batched
  <2> QED
    BY <1>1, <1>2, <1>4, <2>1, <2>2, RequestIsForOneFile
<1> QED
  BY <1>3, <1>4

\* A request of a run leaves the pages in order, unless its answer is lost.
LEMMA PagesStayInOrder ==
    ASSUME Inductive, Requesting, pages' = Effect, "lost" \notin mishaps
    PROVE  NoTwins' /\ \A i \in DOMAIN pages' : InBatches(pages'[i].blocks)
<1>1. ~run.lost /\ NoTwins /\ \A i \in DOMAIN pages : InBatches(pages[i].blocks)
  BY DEF Inductive, AnswersStillHold, NothingTwice
<1> QED
  BY <1>1, RequestMakesNoTwin DEF Inductive

\* The run gives way to the one that waits.
LEMMA OverKeeps ==
    ASSUME Inductive, Over, pages' \in Seq(Page), UNCHANGED repo,
           mishaps' \subseteq {"superseded", "lost", "failed"},
           mishaps' = {} => mishaps = {} /\ \A d \in Doc :
               repo[d] # 0 /\ d \notin waiting.todo => ShownBlocks(d)' = Content(d, repo[d])
    PROVE  /\ run' \in Run' /\ (run'.pc = "idle" <=> run'.todo = {})
           /\ waiting' \in [sha: [Doc -> Version], todo: SUBSET Doc]
           /\ FolderComesLast' /\ AnswersStillHold' /\ ShownOrPlanned'
<1>1. waiting.sha \in [Doc -> Version] /\ waiting.todo \in SUBSET Doc /\ Len(pages') \in Nat
  BY DEF Inductive, TypeOK
<1>2. run' = Begin(waiting.sha, waiting.todo) /\ waiting' = NoneWaits
  BY DEF Over
<1>3. /\ run' \in Run' /\ (run'.pc = "idle" <=> run'.todo = {})
      /\ run'.sha = waiting.sha /\ run'.todo = waiting.todo
      /\ FolderComesLast' /\ AnswersStillHold'
  BY <1>1, <1>2, RunBegins
<1>4. waiting' \in [sha: [Doc -> Version], todo: SUBSET Doc] /\ waiting'.todo = {}
  BY <1>2, NotionAssumption DEF NoneWaits, Nothing, Version
<1>5. mishaps = {} /\ waiting.todo # {} => waiting.sha = repo
  BY DEF Inductive, ShownOrPlanned
<1>6. ASSUME mishaps' = {}, NEW d \in Doc, repo'[d] # 0
      PROVE  IF d \in run'.todo THEN run'.sha[d] = repo'[d]
             ELSE ShownBlocks(d)' = Content(d, repo'[d])
  BY <1>3, <1>5, <1>6
<1>7. ShownOrPlanned'
  BY <1>4, <1>6 DEF ShownOrPlanned
<1> QED
  BY <1>3, <1>4, <1>7

LEMMA RequestKeeps == ASSUME Inductive, Request PROVE Inductive'
<1>1. /\ TypeOK /\ FolderComesLast /\ AnswersStillHold /\ ShownOrPlanned /\ NothingTwice
      /\ Requesting /\ pages' = Effect /\ UNCHANGED <<repo, pushes, faults, mishaps>>
  BY DEF Inductive, Request
<1>2. pages' \in Seq(Page)
  BY <1>1, RequestKeepsPages
<1>3. NothingTwice'
  BY <1>1, PagesStayInOrder DEF NothingTwice
<1>4. CASE Proceed.todo = {}
  <2>1. Over
    BY <1>4 DEF Request
  <2>2. run.todo = {Current} /\ run.pc = "append" /\ run.batch = Batches
    BY <1>1, <1>4, LeftToDo, WhatARequestDoes
  <2>3. mishaps' = {} => mishaps = {} /\ \A d \in Doc :
           repo[d] # 0 /\ d \notin waiting.todo => ShownBlocks(d)' = Content(d, repo[d])
    BY <1>1, <2>2, ShownAfterRequest
  <2>4. /\ run' \in Run' /\ (run'.pc = "idle" <=> run'.todo = {})
        /\ waiting' \in [sha: [Doc -> Version], todo: SUBSET Doc]
        /\ FolderComesLast' /\ AnswersStillHold' /\ ShownOrPlanned'
    BY <1>1, <1>2, <2>1, <2>3, OverKeeps DEF TypeOK
  <2> QED
    BY <1>1, <1>2, <1>3, <2>4 DEF Inductive, TypeOK
<1>5. CASE Proceed.todo # {}
  <2>1. run' = Proceed /\ UNCHANGED waiting
    BY <1>5 DEF Request
  <2>2. /\ run' \in Run' /\ run'.pc # "idle" /\ run'.sha = run.sha
        /\ FolderComesLast' /\ AnswersStillHold'
    <3>1. CASE run.pc \in {"group", "newgroup", "leaf", "new"}
      BY <1>1, <2>1, <3>1, AnswerIsTrue
    <3>2. CASE run.pc \in {"clear", "append"}
      BY <1>1, <1>5, <2>1, <3>2, WriteIsTrue
    <3> QED
      BY <1>1, <3>1, <3>2 DEF TypeOK, Run, Pc, Requesting
  <2>3. ASSUME mishaps' = {}, NEW d \in Doc, repo[d] # 0, d \notin waiting.todo
        PROVE  IF d \in run'.todo THEN run'.sha[d] = repo[d]
               ELSE ShownBlocks(d)' = Content(d, repo[d])
    <3>1. run'.todo = IF run.pc = "append" /\ run.batch = Batches THEN run.todo \ {Current}
                      ELSE run.todo
      BY <1>1, <2>1, LeftToDo
    <3>2. d \in run'.todo => run.sha[d] = repo[d]
      BY <1>1, <2>3, <3>1 DEF ShownOrPlanned
    <3>3. d \notin run'.todo => ShownBlocks(d)' = Content(d, repo[d])
      BY <1>1, <2>3, <3>1, ShownAfterRequest
    <3> QED
      BY <2>2, <3>2, <3>3
  <2>4. ShownOrPlanned'
    BY <1>1, <2>1, <2>2, <2>3 DEF ShownOrPlanned
  <2> QED
    BY <1>1, <1>2, <1>3, <1>5, <2>1, <2>2, <2>4 DEF Inductive, TypeOK
<1> QED
  BY <1>4, <1>5
\* A run that fails and one that is made again: the workspace has what was carried out.
LEMMA FailureKeeps ==
    ASSUME Inductive, Requesting, pages' = Effect \/ pages' = pages, Over,
           mishaps' = mishaps \cup {"failed"}, faults' \in 0 .. MaxFaults,
           UNCHANGED <<repo, pushes>>
    PROVE  Inductive'
<1>1. TypeOK /\ AnswersStillHold /\ mishaps' \subseteq {"superseded", "lost", "failed"}
  BY DEF Inductive, TypeOK
<1>2. pages' \in Seq(Page)
  BY <1>1, RequestKeepsPages DEF TypeOK
<1>3. NothingTwice'
  <2>1. CASE pages' = Effect
    BY <2>1, PagesStayInOrder DEF NothingTwice
  <2>2. CASE pages' = pages
    BY <2>2 DEF NothingTwice, Inductive, NoTwins
  <2> QED
    BY <2>1, <2>2
<1>4. mishaps' # {}
  OBVIOUS
<1>5. /\ run' \in Run' /\ (run'.pc = "idle" <=> run'.todo = {})
      /\ waiting' \in [sha: [Doc -> Version], todo: SUBSET Doc]
      /\ FolderComesLast' /\ AnswersStillHold' /\ ShownOrPlanned'
  BY <1>1, <1>2, <1>4, OverKeeps
<1> QED
  BY <1>1, <1>2, <1>3, <1>5 DEF Inductive, TypeOK

LEMMA RetryKeeps == ASSUME Inductive, NEW done \in BOOLEAN, Retry(done) PROVE Inductive'
<1>1. /\ TypeOK /\ FolderComesLast /\ AnswersStillHold /\ ShownOrPlanned /\ NothingTwice
      /\ Requesting /\ faults' \in 0 .. MaxFaults /\ UNCHANGED <<repo, pushes>>
      /\ pages' = Effect \/ pages' = pages
  BY NotionAssumption DEF Inductive, Retry, TypeOK
<1>2. pages' \in Seq(Page) /\ Len(pages) \in Nat /\ Len(pages') \in Nat /\ Len(pages) <= Len(pages')
  BY <1>1, RequestKeepsPages DEF TypeOK
<1>3. CASE run.tries < Retries
  <2>1. /\ run' = [run EXCEPT !.tries = run.tries + 1, !.lost = run.lost \/ pages' # pages]
        /\ mishaps' = IF pages' # pages THEN mishaps \cup {"lost"} ELSE mishaps
        /\ UNCHANGED waiting
    BY <1>3 DEF Retry
  <2>2. run \in Run /\ run.tries + 1 \in 0 .. Retries
    BY <1>1, <1>3, NotionAssumption DEF TypeOK, Run
  <2>3. CASE pages' = pages
    <3>1. run' = [run EXCEPT !.tries = run.tries + 1]
      BY <2>1, <2>2, <2>3 DEF Run
    <3>2. /\ run'.pc = run.pc /\ run'.sha = run.sha /\ run'.todo = run.todo
          /\ run'.group = run.group /\ run'.page = run.page /\ run'.batch = run.batch
          /\ run'.lost = run.lost /\ run' \in Run' /\ Current' = Current
      BY <2>2, <2>3, <3>1 DEF Run, Current
    <3>3. mishaps' = mishaps
      BY <2>1, <2>3
    <3>4. /\ \A p, t : Twins(p, t)' = Twins(p, t) /\ Find(p, t)' = Find(p, t)
          /\ \A d \in Doc : ShownBlocks(d)' = ShownBlocks(d)
      BY <2>3, NothingIsMoved
    <3>5. TypeOK'
      BY <1>1, <1>2, <2>1, <3>2, <3>3 DEF TypeOK
    <3>6. FolderComesLast'
      BY <1>1, <3>2 DEF FolderComesLast
    <3>7. AnswersStillHold'
      BY <1>1, <2>3, <3>2, <3>3, <3>4 DEF AnswersStillHold
    <3>8. ShownOrPlanned'
      BY <1>1, <2>1, <3>2, <3>3, <3>4 DEF ShownOrPlanned
    <3>9. NothingTwice'
      BY <1>1, <2>3, <3>3 DEF NothingTwice, NoTwins
    <3> QED
      BY <3>5, <3>6, <3>7, <3>8, <3>9 DEF Inductive
  <2>4. CASE pages' # pages
    <3>1. run' = [run EXCEPT !.tries = run.tries + 1, !.lost = TRUE]
      BY <2>1, <2>4
    <3>2. /\ run'.pc = run.pc /\ run'.todo = run.todo /\ run'.group = run.group
          /\ run'.page = run.page /\ run'.batch = run.batch /\ run'.lost = TRUE
          /\ run' \in Run' /\ Current' = Current
      <4>1. run' = [pc |-> run.pc, sha |-> run.sha, todo |-> run.todo, group |-> run.group,
                    page |-> run.page, batch |-> run.batch, tries |-> run.tries + 1,
                    lost |-> TRUE]
        BY <2>2, <3>1 DEF Run
      <4>2. run.group \in 0 .. Len(pages') /\ run.page \in 0 .. Len(pages')
        BY <1>2, <2>2 DEF Run
      <4> QED
        BY <2>2, <4>1, <4>2 DEF Run, Current
    <3>3. mishaps' = mishaps \cup {"lost"}
      BY <2>1, <2>4
    <3>4. TypeOK'
      BY <1>1, <1>2, <2>1, <3>2, <3>3 DEF TypeOK
    <3>5. FolderComesLast'
      BY <1>1, <3>2 DEF FolderComesLast
    <3>6. AnswersStillHold'
      BY <1>1, <3>2, <3>3 DEF AnswersStillHold
    <3>7. ShownOrPlanned' /\ NothingTwice'
      BY <1>1, <2>1, <3>2, <3>3 DEF ShownOrPlanned, NothingTwice, Requesting
    <3> QED
      BY <3>4, <3>5, <3>6, <3>7 DEF Inductive
  <2> QED
    BY <2>3, <2>4
<1>4. CASE ~(run.tries < Retries)
  BY <1>1, <1>4, FailureKeeps DEF Retry
<1> QED
  BY <1>3, <1>4

LEMMA FailKeeps == ASSUME Inductive, Fail PROVE Inductive'
<1>1. faults' \in 0 .. MaxFaults
  BY NotionAssumption DEF Inductive, TypeOK, Fail
<1> QED
  BY <1>1, FailureKeeps DEF Fail

LEMMA NoFileKeeps == ASSUME Inductive, NoFile PROVE Inductive'
<1>1. /\ TypeOK /\ NothingTwice /\ Over /\ mishaps' = mishaps \cup {"failed"}
      /\ UNCHANGED <<repo, pushes, pages, faults>>
  BY DEF Inductive, NoFile
<1>2. mishaps' \subseteq {"superseded", "lost", "failed"} /\ mishaps' # {} /\ pages' \in Seq(Page)
  BY <1>1 DEF TypeOK
<1>3. /\ run' \in Run' /\ (run'.pc = "idle" <=> run'.todo = {})
      /\ waiting' \in [sha: [Doc -> Version], todo: SUBSET Doc]
      /\ FolderComesLast' /\ AnswersStillHold' /\ ShownOrPlanned'
  BY <1>1, <1>2, OverKeeps
<1>4. NothingTwice'
  BY <1>1 DEF NothingTwice, NoTwins
<1> QED
  BY <1>1, <1>2, <1>3, <1>4 DEF Inductive, TypeOK

LEMMA NextFileKeeps == ASSUME Inductive, NextFile PROVE Inductive'
<1> DEFINE pc == IF Current \in Folder /\ run.group = Top THEN "group" ELSE "leaf"
<1>1. /\ TypeOK /\ FolderComesLast /\ AnswersStillHold /\ ShownOrPlanned /\ NothingTwice
      /\ run.pc = "next" /\ UNCHANGED <<repo, pushes, pages, waiting, faults, mishaps>>
      /\ run' = [run EXCEPT !.pc = pc]
  BY DEF Inductive, NextFile
<1>2. run \in Run /\ run.todo # {} /\ pc \in Pc /\ pc \in {"group", "leaf"}
  BY <1>1 DEF TypeOK, Pc
<1>3. /\ run'.pc = pc /\ run'.sha = run.sha /\ run'.todo = run.todo
      /\ run'.group = run.group /\ run'.page = run.page /\ run'.batch = run.batch
      /\ run'.lost = run.lost /\ run' \in Run' /\ Current' = Current
  BY <1>1, <1>2 DEF Run, Current
<1>4. Current \in run.todo /\ (run.group # Top => run.todo \subseteq Folder)
  BY <1>1, <1>2, FirstOfTodo DEF FolderComesLast
<1>5. /\ \A p, t : Twins(p, t)' = Twins(p, t) /\ Find(p, t)' = Find(p, t)
      /\ \A d \in Doc : ShownBlocks(d)' = ShownBlocks(d)
  BY <1>1, NothingIsMoved
<1>6. pc = "group" <=> Current \in Folder /\ run.group = Top
  OBVIOUS
<1> HIDE DEF pc
<1>7. TypeOK'
  BY <1>1, <1>2, <1>3 DEF TypeOK
<1>8. FolderComesLast'
  BY <1>2, <1>3, <1>4, <1>6 DEF FolderComesLast
<1>9. AnswersStillHold'
  BY <1>1, <1>2, <1>3, <1>5 DEF AnswersStillHold
<1>10. ShownOrPlanned'
  BY <1>1, <1>2, <1>3, <1>5 DEF ShownOrPlanned
<1>11. NothingTwice'
  BY <1>1 DEF NothingTwice, NoTwins
<1> QED
  BY <1>7, <1>8, <1>9, <1>10, <1>11 DEF Inductive
\* A file that main has and the new list leaves out was not touched by the push.
LEMMA LeftOutIsUntouched ==
    ASSUME Inductive, NEW D \in SUBSET Doc, NEW gone \in SUBSET D, NEW long \in BOOLEAN,
           Push(D, gone, long), NEW d \in Doc, repo'[d] # 0,
           d \notin ToSync(repo', Changed(D, long))
    PROVE  repo'[d] = repo[d]
<1>1. d \notin D
  BY DEF ToSync, Changed
<1> QED
  BY <1>1 DEF Push

LEMMA PushKeeps ==
    ASSUME Inductive, NEW D \in SUBSET Doc, NEW gone \in SUBSET D, NEW long \in BOOLEAN,
           Push(D, gone, long)
    PROVE  Inductive'
<1> DEFINE todo == ToSync(repo', Changed(D, long))
<1>1. /\ TypeOK /\ FolderComesLast /\ AnswersStillHold /\ ShownOrPlanned /\ NothingTwice
      /\ UNCHANGED <<pages, faults>>
  BY DEF Inductive, Push
<1>2. repo' \in [Doc -> Version] /\ pushes' \in 0 .. MaxPushes
  BY <1>1, NotionAssumption DEF Push, TypeOK, Version
<1>3. todo \in SUBSET Doc
  BY DEF ToSync, Changed
<1>4. /\ run.pc = "idle" => run' = Begin(repo', todo) /\ UNCHANGED <<waiting, mishaps>>
      /\ run.pc # "idle" => /\ waiting' = [sha |-> repo', todo |-> todo] /\ UNCHANGED run
                            /\ mishaps' = IF waiting.todo = {} THEN mishaps
                                          ELSE mishaps \cup {"superseded"}
  BY DEF Push
<1>5. \A d \in Doc : repo'[d] # 0 /\ d \notin todo => repo'[d] = repo[d]
  BY LeftOutIsUntouched
<1> HIDE DEF todo
<1>6. /\ \A p, t : Twins(p, t)' = Twins(p, t) /\ Find(p, t)' = Find(p, t)
      /\ \A d \in Doc : ShownBlocks(d)' = ShownBlocks(d)
  BY <1>1, NothingIsMoved
<1>7. CASE run.pc = "idle"
  <2>1. /\ run' \in Run' /\ (run'.pc = "idle" <=> run'.todo = {})
        /\ run'.sha = repo' /\ run'.todo = todo
        /\ FolderComesLast' /\ AnswersStillHold'
    <3>1. Len(pages') \in Nat
      BY <1>1 DEF TypeOK
    <3> QED
      BY <1>2, <1>3, <1>4, <1>7, <3>1, RunBegins
  <2>2. waiting.todo = {} /\ run.todo = {}
    BY <1>1, <1>7 DEF ShownOrPlanned, TypeOK
  <2>3. ASSUME mishaps' = {}, NEW d \in Doc, repo'[d] # 0, d \notin todo
        PROVE  ShownBlocks(d)' = Content(d, repo'[d])
    <3>1. repo'[d] = repo[d] /\ mishaps = {}
      BY <1>4, <1>5, <1>7, <2>3
    <3>2. ShownBlocks(d) = Content(d, repo[d])
      BY <1>1, <2>2, <2>3, <3>1 DEF ShownOrPlanned
    <3> QED
      BY <1>6, <3>1, <3>2
  <2>4. ShownOrPlanned'
    BY <1>4, <1>7, <2>1, <2>2, <2>3 DEF ShownOrPlanned
  <2>5. NothingTwice'
    BY <1>1, <1>4, <1>7 DEF NothingTwice, NoTwins
  <2> QED
    BY <1>1, <1>2, <1>4, <1>7, <2>1, <2>4, <2>5 DEF Inductive, TypeOK
<1>8. CASE run.pc # "idle"
  <2>1. /\ UNCHANGED run /\ Current' = Current /\ run' \in Run' /\ waiting'.sha = repo'
        /\ waiting'.todo = todo /\ waiting' \in [sha: [Doc -> Version], todo: SUBSET Doc]
    BY <1>1, <1>2, <1>3, <1>4, <1>8 DEF TypeOK, Run, Current
  <2>2. mishaps \subseteq mishaps' /\ mishaps' \subseteq mishaps \cup {"superseded"}
        /\ (mishaps' = {} => waiting.todo = {})
    BY <1>4, <1>8
  <2>3. ASSUME mishaps' = {}, NEW d \in Doc, repo'[d] # 0, d \notin todo
        PROVE  IF d \in run'.todo THEN run'.sha[d] = repo'[d]
               ELSE ShownBlocks(d)' = Content(d, repo'[d])
    <3>1. repo'[d] = repo[d] /\ mishaps = {} /\ waiting.todo = {}
      BY <1>5, <2>2, <2>3
    <3>2. IF d \in run.todo THEN run.sha[d] = repo[d] ELSE ShownBlocks(d) = Content(d, repo[d])
      BY <1>1, <2>3, <3>1 DEF ShownOrPlanned
    <3> QED
      BY <1>6, <2>1, <3>1, <3>2
  <2>4. ShownOrPlanned'
    BY <1>8, <2>1, <2>3 DEF ShownOrPlanned
  <2>5. NothingTwice'
    BY <1>1, <2>2 DEF NothingTwice, NoTwins
  <2>6. FolderComesLast' /\ AnswersStillHold'
    BY <1>1, <1>6, <2>1, <2>2 DEF FolderComesLast, AnswersStillHold
  <2> QED
    BY <1>1, <1>2, <2>1, <2>2, <2>4, <2>5, <2>6 DEF Inductive, TypeOK
<1> QED
  BY <1>7, <1>8

LEMMA InitInductive == Init => Inductive
<1> SUFFICES ASSUME Init PROVE Inductive
  OBVIOUS
<1> USE NotionAssumption DEF Init
<1>1. /\ run.pc = "idle" /\ run.todo = {} /\ run.lost = FALSE /\ run.batch = 1
      /\ waiting.todo = {} /\ \A d \in Doc : repo[d] = 0
  BY DEF NoRun, NoneWaits, Nothing
<1>2. TypeOK
  <2>1. pages \in Seq(Page) /\ Len(pages) = 0
    OBVIOUS
  <2>2. run \in Run
    BY <2>1 DEF Run, NoRun, Nothing, Version, Pc, Top
  <2> QED
    BY <1>1, <2>1, <2>2 DEF TypeOK, Version, Nothing, NoneWaits
<1>3. FolderComesLast /\ AnswersStillHold /\ ShownOrPlanned
  BY <1>1 DEF FolderComesLast, AnswersStillHold, ShownOrPlanned
<1>4. NothingTwice
  BY DEF NothingTwice, NoTwins
<1> QED
  BY <1>2, <1>3, <1>4 DEF Inductive

LEMMA StepInductive == Inductive /\ [Next]_vars => Inductive'
<1> SUFFICES ASSUME Inductive, [Next]_vars PROVE Inductive'
  OBVIOUS
<1>1. CASE UNCHANGED vars
  <2>1. /\ \A p, t : Twins(p, t)' = Twins(p, t) /\ Find(p, t)' = Find(p, t)
        /\ \A d \in Doc : ShownBlocks(d)' = ShownBlocks(d)
    BY <1>1, NothingIsMoved DEF vars
  <2>2. Current' = Current
    BY <1>1 DEF vars, Current
  <2>3. TypeOK' /\ FolderComesLast' /\ NothingTwice'
    BY <1>1, <2>2 DEF vars, Inductive, TypeOK, Run, FolderComesLast, NothingTwice, NoTwins
  <2>4. AnswersStillHold' /\ ShownOrPlanned'
    BY <1>1, <2>1, <2>2 DEF vars, Inductive, AnswersStillHold, ShownOrPlanned
  <2> QED
    BY <2>3, <2>4 DEF Inductive
<1>2. CASE \E D \in (SUBSET Doc) \ {{}}, long \in BOOLEAN : \E gone \in SUBSET D :
             Push(D, gone, long)
  BY <1>2, PushKeeps
<1>3. CASE NextFile \/ NoFile \/ Request \/ Fail
  BY <1>3, NextFileKeeps, NoFileKeeps, RequestKeeps, FailKeeps
<1>4. CASE \E done \in BOOLEAN : Retry(done)
  BY <1>4, RetryKeeps
<1> QED
  BY <1>1, <1>2, <1>3, <1>4 DEF Next

----------------------------------------------------------------------------
(* What readers of the workspace can rely on.                              *)

\* Whatever is pushed while a run is under way, and whatever fails, the script's answers
\* hold and every file is shown, planned or accounted for (notion-sync.yml 20-24,
\* sync-to-notion.mjs 203-243).
THEOREM NotionInvariant == Spec => []Inductive
BY InitInductive, StepInductive, PTL DEF Spec

\* No page is there twice and no page shows a batch twice or two versions, however runs
\* failed, were retried or waited, as long as no answer of a request that was carried out
\* was lost (sync-to-notion.mjs 203-243).
THEOREM PagesAreOnce == Spec => []NothingTwice
<1>1. Inductive => NothingTwice
  BY DEF Inductive
<1> QED
  BY <1>1, NotionInvariant, PTL

\* At rest main is published, unless a run failed, one was superseded or an answer was lost
\* (notion-sync.yml 20-24 and 51-75, sync-to-notion.mjs 318-349).
THEOREM MainIsPublished == Spec => []NothingMissed
<1>1. Inductive => NothingMissed
  BY DEF Inductive, ShownOrPlanned, TypeOK, NothingMissed
<1> QED
  BY <1>1, NotionInvariant, PTL

\* The step that ends a file leaves it whole, and found: a run repairs what any earlier one
\* left (sync-to-notion.mjs 221-243).
THEOREM WhatEndsIsWhole == Spec => WrittenIsWhole
<1> DEFINE Whole == \A d \in run.todo : d = Current /\ run.pc = "append" /\ run.batch = Batches
                       /\ ~run.lost /\ pages' # pages /\ faults' = faults
                       => ShownBlocks(d)' = Content(d, run.sha[d])
<1>1. ASSUME Inductive, [Next]_vars, NEW d \in run.todo, d = Current, run.pc = "append",
             run.batch = Batches, ~run.lost, pages' # pages, faults' = faults
      PROVE  ShownBlocks(d)' = Content(d, run.sha[d])
  <2>1. faults \in Nat
    BY <1>1, NotionAssumption DEF Inductive, TypeOK
  <2>2. Request
    BY <1>1, <2>1 DEF Next, vars, Push, NextFile, NoFile, Fail, Retry
  <2> QED
    BY <1>1, <2>2, LastBatchIsShown DEF Inductive, Request
<1>2. Inductive /\ [Next]_vars => [Whole]_vars
  BY <1>1
<1> QED
  BY <1>2, NotionInvariant, PTL DEF Spec, WrittenIsWhole
=============================================================================
