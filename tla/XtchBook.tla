------------------------------ MODULE XtchBook ------------------------------
(***************************************************************************)
(* An open book, lib/Xtch/Xtch.{h,cpp}: the window it keeps of the page    *)
(* table, the clusters it remembers of pages visited, and the one decoded  *)
(* page in a buffer that all books share.  Module Reader adds the screen   *)
(* that turns the pages.                                                   *)
(*                                                                         *)
(* Page 0 .. PageCount - 1 of a book has one row in its table and begins   *)
(* in one cluster; rows and clusters are named by that page.  Every read   *)
(* and every reopening of the file may fail, and so may the allocation of  *)
(* the buffer.  Pages are alike in size, encoding and checks: a page that  *)
(* is damaged or too large is one that always fails.                       *)
(***************************************************************************)
EXTENDS Integers

CONSTANTS
  Books,       \* the files that may lie at the path when it is opened
  PageCount,   \* header.pageCount
  WindowSize,  \* kPageTableWindowSize
  Lookbehind,  \* kPageTableLookbehind
  LruSize,     \* kClusterLruSize
  NoBook, NoPage, Junk, NoBuffer

ASSUME BookAssumption ==
  /\ WindowSize \in Nat /\ Lookbehind \in 0..WindowSize - 1
  /\ LruSize \in Nat \ {0}
  /\ PageCount \in [Books -> Nat \ {0}]
  /\ NoBook \notin Books
  /\ NoPage \notin Nat /\ Junk \notin Nat
  /\ Junk \notin Books \X Nat /\ NoBuffer \notin Books \X Nat

VARIABLES
  book,       \* the open book
  fileOpen,
  pageTableWindow, pageTableWindowStart, pageTableWindowCount,
  clusterLru, clusterLruCount,
  loadedPageIndex, pageBuffer,
  target, row \* locals: the page to load, and the row found for it

tableWindow == <<pageTableWindow, pageTableWindowStart, pageTableWindowCount>>
lru == <<clusterLru, clusterLruCount>>
buffer == <<loadedPageIndex, pageBuffer>>
bookVars == <<book, fileOpen, tableWindow, lru, buffer, target, row>>

Count == PageCount[book]
Pages == IF book = NoBook THEN {} ELSE 0..Count - 1

EmptySlot == [pageIndex |-> NoPage, cluster |-> NoPage]

BookTypeOK ==
  /\ book \in Books \cup {NoBook}
  /\ fileOpen \in BOOLEAN
  /\ pageTableWindow \in [0..WindowSize - 1 -> Nat \cup {Junk}]
  /\ pageTableWindowStart \in Nat
  /\ pageTableWindowCount \in 0..WindowSize
  /\ clusterLru \in [0..LruSize - 1 -> [pageIndex : Nat \cup {NoPage}, cluster : Nat \cup {NoPage}]]
  /\ clusterLruCount \in 0..LruSize
  /\ loadedPageIndex \in Pages \cup {NoPage}
  /\ pageBuffer \in (Books \X Nat) \cup {Junk, NoBuffer}
  /\ target \in Pages \cup {NoPage}
  /\ row \in Nat \cup {Junk, NoPage}

\* The members of a new XtchBook, and those that close() leaves in it.
Closed ==
  /\ book' = NoBook
  /\ fileOpen' = FALSE
  /\ pageTableWindow' = [i \in 0..WindowSize - 1 |-> Junk]
  /\ pageTableWindowStart' = 0
  /\ pageTableWindowCount' = 0
  /\ clusterLru' = [i \in 0..LruSize - 1 |-> EmptySlot]
  /\ clusterLruCount' = 0
  /\ loadedPageIndex' = NoPage
  /\ target' = NoPage
  /\ row' = NoPage

\* open(): the first row is read for the default size, the window stays empty.
\* Whatever fails, the file is closed again.
OpenSucceeds(b) ==
  /\ book' = b
  /\ fileOpen' = TRUE
  /\ UNCHANGED <<tableWindow, lru, buffer, target, row>>

----------------------------------------------------------------------------
\* The page table

InWindow(p) ==
  /\ pageTableWindowCount > 0
  /\ p \in pageTableWindowStart .. pageTableWindowStart + pageTableWindowCount - 1

\* A few rows behind the page, but a full window if the book has one.
StartFor(p) ==
  LET back == IF p >= Lookbehind THEN p - Lookbehind ELSE 0
  IN IF back + WindowSize > Count
     THEN IF Count > WindowSize THEN Count - WindowSize ELSE 0
     ELSE back

Rows(start) == IF Count - start < WindowSize THEN Count - start ELSE WindowSize

RefillWindow(p) ==
  /\ pageTableWindowStart' = StartFor(p)
  /\ pageTableWindowCount' = Rows(StartFor(p))
  /\ pageTableWindow' = [i \in 0..WindowSize - 1 |->
                           IF i < Rows(StartFor(p)) THEN StartFor(p) + i ELSE pageTableWindow[i]]

\* Mutant: a failed refill leaves the old bounds over the new contents.
SpoilWindowKeepsCount ==
  /\ pageTableWindow' = [i \in 0..WindowSize - 1 |-> Junk]
  /\ UNCHANGED <<pageTableWindowStart, pageTableWindowCount>>

SpoilWindow ==
  /\ pageTableWindowCount' = 0
  /\ pageTableWindow' = [i \in 0..WindowSize - 1 |-> Junk]
  /\ UNCHANGED pageTableWindowStart

EnsureOpen == fileOpen' = TRUE
ReopenFails == ~fileOpen /\ fileOpen' = FALSE

\* After a failed refill a single row is tried, with a reopening of its own.
ReadPageTableEntry(p) ==
  \/ /\ InWindow(p)
     /\ row' = pageTableWindow[p - pageTableWindowStart]
     /\ UNCHANGED <<tableWindow, fileOpen>>
  \/ /\ ~InWindow(p)
     /\ EnsureOpen
     /\ RefillWindow(p)
     /\ row' = pageTableWindow'[p - StartFor(p)]
  \/ /\ ~InWindow(p)
     /\ EnsureOpen
     /\ SpoilWindow \/ (~fileOpen /\ UNCHANGED tableWindow)
     /\ row' \in {p, NoPage}
  \/ /\ ~InWindow(p)
     /\ ReopenFails
     /\ row' = NoPage
     /\ UNCHANGED tableWindow

----------------------------------------------------------------------------
\* The clusters of pages visited, latest first.

Used == 0..clusterLruCount - 1

Found(p) == {i \in Used : clusterLru[i].pageIndex = p}

\* memmove of the first n slots by one, and a slot written in front of them.
ToFront(slot, n) ==
  [i \in 0..LruSize - 1 |->
     IF i = 0 THEN slot ELSE IF i <= n THEN clusterLru[i - 1] ELSE clusterLru[i]]

Lookup(i) ==
  /\ clusterLru' = ToFront(clusterLru[i], i)
  /\ UNCHANGED clusterLruCount

\* Only called for a page that Lookup did not find.
Remember(p, cluster) ==
  /\ clusterLru' = ToFront([pageIndex |-> p, cluster |-> cluster],
                           IF clusterLruCount < LruSize THEN clusterLruCount ELSE LruSize - 1)
  /\ clusterLruCount' = IF clusterLruCount < LruSize THEN clusterLruCount + 1 ELSE LruSize

----------------------------------------------------------------------------
\* loadPageData(target), in two steps.

\* What is read at a row's offset through a cluster.
DataAt(r, cluster) == IF r \in Nat /\ r = cluster THEN <<book, r>> ELSE Junk

\* Mutant: the page stays marked as loaded while its buffer is reused.
BeginLoadKeepsMark ==
  /\ ReadPageTableEntry(target)
  /\ UNCHANGED <<book, lru, buffer, target>>

BeginLoad ==
  /\ loadedPageIndex' = NoPage
  /\ ReadPageTableEntry(target)
  /\ UNCHANGED <<book, lru, pageBuffer, target>>

\* The position comes from a remembered cluster or from a seek, which may fail, and
\* whose cluster is remembered if it can be told.
LoadSucceeds ==
  /\ EnsureOpen
  /\ \/ \E i \in Found(target) :
          /\ Lookup(i)
          /\ pageBuffer' = DataAt(row, clusterLru[i].cluster)
     \/ /\ Found(target) = {}
        /\ Remember(target, row) \/ UNCHANGED lru
        /\ pageBuffer' = DataAt(row, row)
  /\ loadedPageIndex' = target
  /\ UNCHANGED <<book, tableWindow, target, row>>

\* The file does not open; or there is no memory, or the seek fails; or a read
\* does, which may leave anything in the buffer.
LoadFails ==
  /\ \/ ReopenFails /\ UNCHANGED <<lru, pageBuffer>>
     \/ EnsureOpen /\ UNCHANGED lru /\ pageBuffer' \in {pageBuffer, Junk}
     \/ /\ EnsureOpen
        /\ \/ \E i \in Found(target) : Lookup(i)
           \/ Found(target) = {} /\ Remember(target, row)
        /\ pageBuffer' \in {pageBuffer, Junk} \ {NoBuffer}
  /\ UNCHANGED <<book, tableWindow, loadedPageIndex, target, row>>

\* closeFile() and the mark, as fail() of drawPage does it.
Unload ==
  /\ loadedPageIndex' = NoPage
  /\ fileOpen' = FALSE
  /\ UNCHANGED <<book, tableWindow, lru, pageBuffer, target, row>>

============================================================================
