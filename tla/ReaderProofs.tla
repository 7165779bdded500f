---------------------------- MODULE ReaderProofs ----------------------------
(***************************************************************************)
(* Proofs about Reader: what is cached is right, what is shown is the page *)
(* asked for, and the progress file leads back to it, for books, windows   *)
(* and caches of any size and steps of any number of pages.                *)
(***************************************************************************)
EXTENDS Reader, TLAPS

\* Where a book is open, and a book that is not holds nothing.
Places ==
  /\ pc \in {"lookup", "ensure", "load", "read", "resync", "paint", "prefetch",
             "truncate", "write", "covered"} => loaded
  /\ pc = "closed" => ~loaded
  /\ ~loaded => /\ pageTableWindowCount = 0
                /\ clusterLruCount = 0
                /\ loadedPageIndex = NoPage

\* The locals of a load, and what it has come to when the page is painted.
Loading ==
  /\ pc \in {"load", "read"} => target \in Pages
  /\ pc = "read" => row = target /\ loadedPageIndex = NoPage
  /\ pc \in {"resync", "paint"} => loadedPageIndex = page

\* The mark says what is in the buffer.
MarkTrue == loadedPageIndex # NoPage => pageBuffer = <<book, loadedPageIndex>>

\* From the drawing of a page or a message to the next key, prefetch included.
Drawn == pc \in {"prefetch", "flush"} \/ (pc \in {"load", "read"} /\ target # page)

PanelTrue ==
  /\ pc = "prefetch" \/ (pc \in {"load", "read"} /\ target # page) => ~dirty
  /\ loaded /\ ~dirty /\ (Drawn \/ pc = "keys") => panel \in {<<book, page>>, Message}

CleanupKnown == cleanupPending => loaded /\ Drawn

IInv ==
  /\ TypeOK
  /\ Places
  /\ CachesTrue
  /\ Loading
  /\ MarkTrue
  /\ PanelTrue
  /\ ProgressKept
  /\ CleanupKnown

----------------------------------------------------------------------------
\* Lemmas on the window of the page table and on the clusters remembered

\* A window that is filled for a page holds it, and lies within the table.
LEMMA StartBounds ==
  ASSUME book \in Books, NEW p \in Pages
  PROVE  /\ StartFor(p) \in Nat
         /\ Rows(StartFor(p)) \in 1..WindowSize
         /\ p - StartFor(p) \in 0..Rows(StartFor(p)) - 1
         /\ StartFor(p) + Rows(StartFor(p)) <= Count
<1>1. Count \in Nat \ {0} /\ p \in 0..Count - 1
  BY BookAssumption DEF Pages, Count
<1>2. WindowSize \in Nat /\ Lookbehind \in 0..WindowSize - 1
  BY BookAssumption
<1>3. QED
  BY <1>1, <1>2 DEF StartFor, Rows

\* The book and what it keeps of the page table and of clusters have their types.
WindowTypeOK ==
  /\ pageTableWindow \in [0..WindowSize - 1 -> Nat \cup {Junk}]
  /\ pageTableWindowStart \in Nat
  /\ pageTableWindowCount \in 0..WindowSize

ClustersTypeOK ==
  /\ clusterLru \in [0..LruSize - 1 -> [pageIndex : Nat \cup {NoPage}, cluster : Nat \cup {NoPage}]]
  /\ clusterLruCount \in 0..LruSize

LEMMA RefillTrue ==
  ASSUME book \in Books, WindowTypeOK, NEW p \in Pages, RefillWindow(p), UNCHANGED book
  PROVE  WindowTypeOK' /\ WindowTrue' /\ pageTableWindow'[p - StartFor(p)] = p
<1> DEFINE s == StartFor(p)
           n == Rows(StartFor(p))
<1>1. s \in Nat /\ n \in 1..WindowSize /\ p - s \in 0..n - 1
  BY StartBounds
<1>2. /\ pageTableWindowStart' = s
      /\ pageTableWindowCount' = n
      /\ pageTableWindow' = [i \in 0..WindowSize - 1 |-> IF i < n THEN s + i ELSE pageTableWindow[i]]
  BY DEF RefillWindow
<1>3. WindowSize \in Nat
  BY BookAssumption
<1>4. p \in Int /\ Pages' = Pages /\ Pages \subseteq Int
  BY BookAssumption DEF Pages, Count
<1> HIDE DEF s, n
<1>5. WindowTypeOK'
  BY <1>1, <1>2, <1>3 DEF WindowTypeOK
<1>6. WindowTrue'
  BY <1>1, <1>2, <1>3, <1>4 DEF WindowTrue, InWindow
<1>7. pageTableWindow'[p - s] = p
  BY <1>1, <1>2, <1>3, <1>4
<1>8. QED
  BY <1>5, <1>6, <1>7 DEF s

LEMMA SpoilTrue ==
  ASSUME WindowTypeOK, SpoilWindow
  PROVE  WindowTypeOK' /\ WindowTrue'
BY BookAssumption DEF SpoilWindow, WindowTypeOK, WindowTrue, InWindow

\* A row that is found is the row of the page, and the window stays true.
LEMMA RowRead ==
  ASSUME book \in Books, WindowTypeOK, WindowTrue, fileOpen \in BOOLEAN, NEW p \in Pages,
         ReadPageTableEntry(p), UNCHANGED book
  PROVE  row' \in {p, NoPage} /\ fileOpen' \in BOOLEAN /\ WindowTypeOK' /\ WindowTrue'
<1>1. UNCHANGED tableWindow => WindowTypeOK' /\ WindowTrue'
  BY DEF tableWindow, WindowTypeOK, WindowTrue, InWindow, Pages, Count
<1>2. CASE /\ InWindow(p)
           /\ row' = pageTableWindow[p - pageTableWindowStart]
           /\ UNCHANGED <<tableWindow, fileOpen>>
  BY <1>1, <1>2 DEF WindowTrue
<1>3. CASE /\ EnsureOpen
           /\ RefillWindow(p)
           /\ row' = pageTableWindow'[p - StartFor(p)]
  BY <1>3, RefillTrue DEF EnsureOpen
<1>4. CASE /\ EnsureOpen
           /\ SpoilWindow \/ (~fileOpen /\ UNCHANGED tableWindow)
           /\ row' \in {p, NoPage}
  BY <1>1, <1>4, SpoilTrue DEF EnsureOpen
<1>5. CASE ReopenFails /\ row' = NoPage /\ UNCHANGED tableWindow
  BY <1>1, <1>5 DEF ReopenFails
<1>6. QED
  BY <1>2, <1>3, <1>4, <1>5 DEF ReadPageTableEntry

LEMMA LookupTrue ==
  ASSUME ClustersTypeOK, ClustersTrue, NEW p, NEW i \in Found(p), Lookup(i)
  PROVE  ClustersTypeOK' /\ ClustersTrue' /\ clusterLru[i].cluster = p
<1>1. LruSize \in Nat \ {0}
  BY BookAssumption
<1>2. i \in Used /\ clusterLru[i].pageIndex = p
  BY DEF Found
<1>3. /\ clusterLruCount' = clusterLruCount
      /\ clusterLru' = [k \in 0..LruSize - 1 |->
                         IF k = 0 THEN clusterLru[i]
                         ELSE IF k <= i THEN clusterLru[k - 1] ELSE clusterLru[k]]
  BY DEF Lookup, ToFront
<1>4. ClustersTypeOK'
  BY <1>1, <1>2, <1>3 DEF ClustersTypeOK, Used
<1>5. ClustersTrue'
  BY <1>1, <1>2, <1>3 DEF ClustersTypeOK, ClustersTrue, Used
<1>6. QED
  BY <1>2, <1>4, <1>5 DEF ClustersTrue

LEMMA RememberTrue ==
  ASSUME ClustersTypeOK, ClustersTrue, NEW p \in Nat, Found(p) = {}, Remember(p, p)
  PROVE  ClustersTypeOK' /\ ClustersTrue'
<1>1. LruSize \in Nat \ {0}
  BY BookAssumption
<1> DEFINE slot == [pageIndex |-> p, cluster |-> p]
           n == IF clusterLruCount < LruSize THEN clusterLruCount ELSE LruSize - 1
<1>2. /\ clusterLruCount' = n + 1
      /\ clusterLru' = [k \in 0..LruSize - 1 |->
                         IF k = 0 THEN slot
                         ELSE IF k <= n THEN clusterLru[k - 1] ELSE clusterLru[k]]
  BY <1>1 DEF Remember, ToFront, ClustersTypeOK
<1>3. n \in Nat /\ n < LruSize /\ n <= clusterLruCount
  BY <1>1 DEF ClustersTypeOK
<1>4. slot \in [pageIndex : Nat \cup {NoPage}, cluster : Nat \cup {NoPage}]
  OBVIOUS
<1>5. slot.pageIndex = p /\ slot.cluster = p
  OBVIOUS
<1>6. \A k \in Used : clusterLru[k].pageIndex # p
  BY DEF Found
<1> HIDE DEF slot, n
<1>7. ClustersTypeOK'
  BY <1>1, <1>2, <1>3, <1>4 DEF ClustersTypeOK
<1>8. ClustersTrue'
  BY <1>1, <1>2, <1>3, <1>5, <1>6 DEF ClustersTypeOK, ClustersTrue, Used
<1>9. QED
  BY <1>7, <1>8

----------------------------------------------------------------------------
\* The invariant in two parts: what is cached, and everything else

CachesOK == WindowTypeOK /\ ClustersTypeOK /\ WindowTrue /\ ClustersTrue

\* What is open, loaded and shown.
DataOK ==
  /\ book \in Books \cup {NoBook}
  /\ loadedPageIndex \in Pages \cup {NoPage}
  /\ pageBuffer \in (Books \X Nat) \cup {Junk, NoBuffer}
  /\ target \in Pages \cup {NoPage}
  /\ row \in Nat \cup {Junk, NoPage}
  /\ loaded => page \in Pages
  /\ page \in Nat
  /\ progress \in Nat \cup {NoFile, Short}
  /\ panel \in (Books \X Nat) \cup {Junk, NoBuffer, Message, Other, White}

FlagsOK ==
  /\ pc \in PCs
  /\ fileOpen \in BOOLEAN
  /\ loaded \in BOOLEAN
  /\ loaded <=> book # NoBook
  /\ dirty \in BOOLEAN
  /\ cleanupPending \in BOOLEAN
  /\ then \in {"lookup", "exit"}
  /\ fault \in BOOLEAN

DataInv == DataOK /\ MarkTrue /\ ProgressKept

ControlInv == FlagsOK /\ Places /\ Loading /\ PanelTrue /\ CleanupKnown

LEMMA Parts == IInv <=> CachesOK /\ DataInv /\ ControlInv
BY DEF IInv, TypeOK, BookTypeOK, CachesTrue, CachesOK,
       DataInv, ControlInv, DataOK, FlagsOK, WindowTypeOK, ClustersTypeOK

LEMMA CachesKept ==
  ASSUME CachesOK, UNCHANGED <<book, tableWindow, lru>>
  PROVE  CachesOK'
BY DEF CachesOK, tableWindow, lru, WindowTypeOK, ClustersTypeOK, WindowTrue, ClustersTrue,
       InWindow, Pages, Count, Used

LEMMA CachesEmpty ==
  ASSUME Closed
  PROVE  CachesOK'
BY BookAssumption
   DEF Closed, CachesOK, WindowTypeOK, ClustersTypeOK, WindowTrue, ClustersTrue, InWindow, Used, EmptySlot

LEMMA PageNumbers ==
  ASSUME book \in Books
  PROVE  Count \in Nat \ {0} /\ Pages = 0..Count - 1
BY BookAssumption DEF Count, Pages

LEMMA SameBook ==
  ASSUME UNCHANGED book
  PROVE  Pages' = Pages /\ (UNCHANGED progress => (Resume(book))' = Resume(book))
BY DEF Pages, Count, Resume, Clamp

LEMMA Reading ==
  ASSUME IInv, loaded
  PROVE  book \in Books /\ page \in Pages /\ page # NoPage /\ Pages \subseteq Nat /\ NoPage \notin Pages
<1>1. book \in Books /\ page \in Pages
  BY Parts DEF DataInv, DataOK, ControlInv, FlagsOK
<1>2. QED
  BY <1>1, PageNumbers, BookAssumption

----------------------------------------------------------------------------
\* One lemma for each action: what it does to everything but the caches

LEMMA OpenFailsKeeps ==
  ASSUME IInv, OpenFails
  PROVE  DataInv' /\ ControlInv'
<1>0. DataInv /\ ControlInv
  BY Parts
<1>1. DataInv'
  BY <1>0, SameBook DEF DataInv, ControlInv, DataOK, Places, MarkTrue, ProgressKept,
     OpenFails, screenVars, bookVars, tableWindow, lru, buffer
<1>2. ControlInv'
  BY <1>0, SameBook
     DEF DataInv, ControlInv, DataOK, FlagsOK, PCs, Places, Loading, MarkTrue,
         PanelTrue, Drawn, CleanupKnown, OpenFails, screenVars, bookVars,
         tableWindow, lru, buffer
<1>3. QED
  BY <1>1, <1>2

LEMMA ExitKeeps ==
  ASSUME IInv, Exit
  PROVE  DataInv' /\ ControlInv'
<1>0. DataInv /\ ControlInv
  BY Parts
<1>1. DataInv'
  BY <1>0, SameBook DEF DataInv, ControlInv, DataOK, Places, MarkTrue, ProgressKept,
     Exit, Closed, screenVars, bookVars, tableWindow, lru, buffer
<1>2. ControlInv'
  BY <1>0, SameBook
     DEF DataInv, ControlInv, DataOK, FlagsOK, PCs, Places, Loading, MarkTrue,
         PanelTrue, Drawn, CleanupKnown, Exit, Closed, screenVars, bookVars,
         tableWindow, lru, buffer
<1>3. QED
  BY <1>1, <1>2

LEMMA TruncateKeeps ==
  ASSUME IInv, Truncate
  PROVE  DataInv' /\ ControlInv'
<1>0. DataInv /\ ControlInv
  BY Parts
<1>1. DataInv'
  BY <1>0, SameBook DEF DataInv, ControlInv, DataOK, Places, MarkTrue, ProgressKept,
     Truncate, screenVars, bookVars, tableWindow, lru, buffer
<1>2. ControlInv'
  BY <1>0, SameBook
     DEF DataInv, ControlInv, DataOK, FlagsOK, PCs, Places, Loading, MarkTrue,
         PanelTrue, Drawn, CleanupKnown, Truncate, screenVars, bookVars,
         tableWindow, lru, buffer
<1>3. QED
  BY <1>1, <1>2

LEMMA WriteKeeps ==
  ASSUME IInv, Write
  PROVE  DataInv' /\ ControlInv'
<1>0. DataInv /\ ControlInv
  BY Parts
<1>1. DataInv'
  <2>1. progress' = page => (Resume(book))' = page
    BY <1>0, Reading, PageNumbers
       DEF ControlInv, Places, Write, bookVars, Resume, Clamp, Count
  <2>2. QED
    BY <1>0, <2>1, SameBook
       DEF DataInv, DataOK, Places, MarkTrue, ProgressKept, Write, screenVars,
           bookVars, tableWindow, lru, buffer
<1>2. ControlInv'
  BY <1>0, SameBook
     DEF DataInv, ControlInv, DataOK, FlagsOK, PCs, Places, Loading, MarkTrue,
         PanelTrue, Drawn, CleanupKnown, Write, screenVars, bookVars, tableWindow,
         lru, buffer
<1>3. QED
  BY <1>1, <1>2

LEMMA FlushKeeps ==
  ASSUME IInv, Flush
  PROVE  DataInv' /\ ControlInv'
<1>0. DataInv /\ ControlInv
  BY Parts
<1>1. DataInv'
  BY <1>0, SameBook DEF DataInv, ControlInv, DataOK, Places, MarkTrue, ProgressKept,
     Flush, screenVars, bookVars, tableWindow, lru, buffer
<1>2. ControlInv'
  BY <1>0, SameBook
     DEF DataInv, ControlInv, DataOK, FlagsOK, PCs, Places, Loading, MarkTrue,
         PanelTrue, Drawn, CleanupKnown, Flush, screenVars, bookVars, tableWindow,
         lru, buffer
<1>3. QED
  BY <1>1, <1>2

LEMMA NoKeyKeeps ==
  ASSUME IInv, NoKey
  PROVE  DataInv' /\ ControlInv'
<1>0. DataInv /\ ControlInv
  BY Parts
<1>1. DataInv'
  BY <1>0, SameBook DEF DataInv, ControlInv, DataOK, Places, MarkTrue, ProgressKept,
     NoKey, Idle, screenVars, bookVars, tableWindow, lru, buffer
<1>2. ControlInv'
  BY <1>0, SameBook
     DEF DataInv, ControlInv, DataOK, FlagsOK, PCs, Places, Loading, MarkTrue,
         PanelTrue, Drawn, CleanupKnown, NoKey, Idle, screenVars, bookVars,
         tableWindow, lru, buffer
<1>3. QED
  BY <1>1, <1>2

LEMMA LeaveKeeps ==
  ASSUME IInv, Leave
  PROVE  DataInv' /\ ControlInv'
<1>0. DataInv /\ ControlInv
  BY Parts
<1>1. DataInv'
  BY <1>0, SameBook DEF DataInv, ControlInv, DataOK, Places, MarkTrue, ProgressKept,
     Leave, SaveThen, screenVars, bookVars, tableWindow, lru, buffer
<1>2. ControlInv'
  BY <1>0, SameBook
     DEF DataInv, ControlInv, DataOK, FlagsOK, PCs, Places, Loading, MarkTrue,
         PanelTrue, Drawn, CleanupKnown, Leave, SaveThen, screenVars, bookVars,
         tableWindow, lru, buffer
<1>3. QED
  BY <1>1, <1>2

LEMMA ChaptersKeeps ==
  ASSUME IInv, Chapters
  PROVE  DataInv' /\ ControlInv'
<1>0. DataInv /\ ControlInv
  BY Parts
<1>1. DataInv'
  BY <1>0, SameBook DEF DataInv, ControlInv, DataOK, Places, MarkTrue, ProgressKept,
     Chapters, Idle, screenVars, bookVars, tableWindow, lru, buffer
<1>2. ControlInv'
  BY <1>0, SameBook
     DEF DataInv, ControlInv, DataOK, FlagsOK, PCs, Places, Loading, MarkTrue,
         PanelTrue, Drawn, CleanupKnown, Chapters, Idle, screenVars, bookVars,
         tableWindow, lru, buffer
<1>3. QED
  BY <1>1, <1>2

LEMMA UncoverKeeps ==
  ASSUME IInv, Uncover
  PROVE  DataInv' /\ ControlInv'
<1>0. DataInv /\ ControlInv
  BY Parts
<1>1. DataInv'
  BY <1>0, SameBook DEF DataInv, ControlInv, DataOK, Places, MarkTrue, ProgressKept,
     Uncover, screenVars, bookVars, tableWindow, lru, buffer
<1>2. ControlInv'
  BY <1>0, SameBook
     DEF DataInv, ControlInv, DataOK, FlagsOK, PCs, Places, Loading, MarkTrue,
         PanelTrue, Drawn, CleanupKnown, Uncover, screenVars, bookVars,
         tableWindow, lru, buffer
<1>3. QED
  BY <1>1, <1>2

LEMMA DrawLookupKeeps ==
  ASSUME IInv, DrawLookup
  PROVE  DataInv' /\ ControlInv'
<1>0. DataInv /\ ControlInv
  BY Parts
<1>a. row' \in {page, NoPage} /\ fileOpen' \in BOOLEAN
  BY <1>0, Parts, Reading, RowRead DEF CachesOK, ControlInv, FlagsOK, Places, DrawLookup
<1>b. page \in Nat
  BY <1>0 DEF DataInv, DataOK
<1>1. DataInv'
  BY <1>0, SameBook, <1>a, <1>b
     DEF DataInv, ControlInv, DataOK, Places, MarkTrue, ProgressKept, DrawLookup,
         screenVars, bookVars, tableWindow, lru, buffer
<1>2. ControlInv'
  BY <1>0, SameBook, <1>a, <1>b
     DEF DataInv, ControlInv, DataOK, FlagsOK, PCs, Places, Loading, MarkTrue,
         PanelTrue, Drawn, CleanupKnown, DrawLookup, screenVars, bookVars,
         tableWindow, lru, buffer
<1>3. QED
  BY <1>1, <1>2

LEMMA DrawEnsureKeeps ==
  ASSUME IInv, DrawEnsure
  PROVE  DataInv' /\ ControlInv'
<1>0. DataInv /\ ControlInv
  BY Parts
<1>1. DataInv'
  BY <1>0, SameBook DEF DataInv, ControlInv, DataOK, Places, MarkTrue, ProgressKept,
     DrawEnsure, EnsureOpen, screenVars, bookVars, tableWindow, lru, buffer
<1>2. ControlInv'
  BY <1>0, SameBook
     DEF DataInv, ControlInv, DataOK, FlagsOK, PCs, Places, Loading, MarkTrue,
         PanelTrue, Drawn, CleanupKnown, DrawEnsure, EnsureOpen, screenVars,
         bookVars, tableWindow, lru, buffer
<1>3. QED
  BY <1>1, <1>2

LEMMA ResyncKeeps ==
  ASSUME IInv, Resync
  PROVE  DataInv' /\ ControlInv'
<1>0. DataInv /\ ControlInv
  BY Parts
<1>1. DataInv'
  BY <1>0, SameBook DEF DataInv, ControlInv, DataOK, Places, MarkTrue, ProgressKept,
     Resync, screenVars, bookVars, tableWindow, lru, buffer
<1>2. ControlInv'
  BY <1>0, SameBook
     DEF DataInv, ControlInv, DataOK, FlagsOK, PCs, Places, Loading, MarkTrue,
         PanelTrue, Drawn, CleanupKnown, Resync, screenVars, bookVars, tableWindow,
         lru, buffer
<1>3. QED
  BY <1>1, <1>2

LEMMA PaintKeeps ==
  ASSUME IInv, Paint
  PROVE  DataInv' /\ ControlInv'
<1>0. DataInv /\ ControlInv
  BY Parts
<1>a. pageBuffer = <<book, page>>
  BY <1>0, Reading DEF DataInv, ControlInv, MarkTrue, Loading, Places, Paint
<1>1. DataInv'
  BY <1>0, SameBook, <1>a DEF DataInv, ControlInv, DataOK, Places, MarkTrue, ProgressKept,
     Paint, screenVars, bookVars, tableWindow, lru, buffer
<1>2. ControlInv'
  BY <1>0, SameBook, <1>a
     DEF DataInv, ControlInv, DataOK, FlagsOK, PCs, Places, Loading, MarkTrue,
         PanelTrue, Drawn, CleanupKnown, Paint, screenVars, bookVars, tableWindow,
         lru, buffer
<1>3. QED
  BY <1>1, <1>2

LEMMA FailKeeps ==
  ASSUME IInv, Fail
  PROVE  DataInv' /\ ControlInv'
<1>0. DataInv /\ ControlInv
  BY Parts
<1>1. DataInv'
  BY <1>0, SameBook DEF DataInv, ControlInv, DataOK, Places, MarkTrue, ProgressKept,
     Fail, Unload, screenVars, bookVars, tableWindow, lru, buffer
<1>2. ControlInv'
  BY <1>0, SameBook
     DEF DataInv, ControlInv, DataOK, FlagsOK, PCs, Places, Loading, MarkTrue,
         PanelTrue, Drawn, CleanupKnown, Fail, Unload, screenVars, bookVars,
         tableWindow, lru, buffer
<1>3. QED
  BY <1>1, <1>2

LEMMA PrefetchKeeps ==
  ASSUME IInv, Prefetch
  PROVE  DataInv' /\ ControlInv'
<1>0. DataInv /\ ControlInv
  BY Parts
<1>a. page + 1 < Count => page + 1 \in Pages /\ page + 1 # page
  BY <1>0, Reading, PageNumbers DEF ControlInv, Places, Prefetch
<1>1. DataInv'
  BY <1>0, SameBook, <1>a DEF DataInv, ControlInv, DataOK, Places, MarkTrue, ProgressKept,
     Prefetch, screenVars, bookVars, tableWindow, lru, buffer
<1>2. ControlInv'
  BY <1>0, SameBook, <1>a
     DEF DataInv, ControlInv, DataOK, FlagsOK, PCs, Places, Loading, MarkTrue,
         PanelTrue, Drawn, CleanupKnown, Prefetch, screenVars, bookVars,
         tableWindow, lru, buffer
<1>3. QED
  BY <1>1, <1>2

LEMMA PowerOffKeeps ==
  ASSUME IInv, PowerOff
  PROVE  DataInv' /\ ControlInv'
<1>0. DataInv /\ ControlInv
  BY Parts
<1>1. DataInv'
  BY <1>0, SameBook DEF DataInv, ControlInv, DataOK, Places, MarkTrue, ProgressKept,
     PowerOff, Closed, screenVars, bookVars, tableWindow, lru, buffer
<1>2. ControlInv'
  BY <1>0, SameBook
     DEF DataInv, ControlInv, DataOK, FlagsOK, PCs, Places, Loading, MarkTrue,
         PanelTrue, Drawn, CleanupKnown, PowerOff, Closed, screenVars, bookVars,
         tableWindow, lru, buffer
<1>3. QED
  BY <1>1, <1>2

LEMMA OpenKeeps ==
  ASSUME IInv, NEW b \in Books, Open(b)
  PROVE  DataInv' /\ ControlInv'
<1>0. DataInv /\ ControlInv
  BY Parts
<1>a. book = NoBook /\ loadedPageIndex = NoPage /\ target = NoPage
  BY <1>0 DEF DataInv, ControlInv, DataOK, FlagsOK, Places, Pages, Open
<1>b. book' = b /\ b # NoBook /\ NoPage \notin Nat /\ NoFile \notin Nat
  BY BookAssumption, ReaderAssumption DEF Open, OpenSucceeds
<1>c. Pages' = 0..PageCount[b] - 1 /\ PageCount[b] \in Nat \ {0}
  BY <1>b, BookAssumption DEF Pages, Count
<1>d. page' \in Pages' /\ page' \in Nat
  BY <1>0, <1>c DEF DataInv, DataOK, Open, LoadProgress, Resume, Clamp
<1>e. ~fault' => page' = (Resume(book))'
  <2>1. (Resume(book))' = Resume(b)
    BY <1>b DEF Open, Resume, Clamp
  <2>2. progress = NoFile => Resume(b) = 0
    BY <1>b DEF Resume
  <2>3. QED
    BY <2>1, <2>2 DEF Open, LoadProgress
<1>1. DataInv'
  BY <1>0, <1>a, <1>b, <1>d, <1>e
     DEF DataInv, ControlInv, DataOK, Places, MarkTrue, ProgressKept, Open,
         OpenSucceeds, screenVars, bookVars, tableWindow, lru, buffer
<1>2. ControlInv'
  <2>1. pc = "closed" /\ ~loaded /\ ~cleanupPending
    BY <1>0 DEF ControlInv, CleanupKnown, Places, Open
  <2>2. FlagsOK'
    BY <1>0, <1>b, <2>1 DEF ControlInv, FlagsOK, PCs, Open, OpenSucceeds, LoadProgress
  <2>3. Places' /\ Loading' /\ PanelTrue' /\ CleanupKnown'
    BY <2>1 DEF Places, Loading, PanelTrue, Drawn, CleanupKnown, Open
  <2>4. QED
    BY <2>2, <2>3 DEF ControlInv
<1>3. QED
  BY <1>1, <1>2

LEMMA TurnKeeps ==
  ASSUME IInv, NEW d \in Int, Turn(d)
  PROVE  DataInv' /\ ControlInv'
<1>0. DataInv /\ ControlInv
  BY Parts
<1>a. page' \in Pages /\ page' \in Nat
  BY <1>0, Reading, PageNumbers DEF Turn, Turned, Clamp, Count
<1>1. DataInv'
  BY <1>0, SameBook, <1>a DEF DataInv, ControlInv, DataOK, Places, MarkTrue, ProgressKept,
     Turn, SaveThen, screenVars, bookVars, tableWindow, lru, buffer
<1>2. ControlInv'
  BY <1>0, SameBook, <1>a
     DEF DataInv, ControlInv, DataOK, FlagsOK, PCs, Places, Loading, MarkTrue,
         PanelTrue, Drawn, CleanupKnown, Turn, SaveThen, screenVars, bookVars,
         tableWindow, lru, buffer
<1>3. QED
  BY <1>1, <1>2

LEMMA JumpKeeps ==
  ASSUME IInv, NEW p \in Pages, Jump(p)
  PROVE  DataInv' /\ ControlInv'
<1>0. DataInv /\ ControlInv
  BY Parts
<1>a. page' \in Pages /\ page' \in Nat
  BY <1>0, Reading DEF ControlInv, Places, Jump
<1>1. DataInv'
  BY <1>0, SameBook, <1>a DEF DataInv, ControlInv, DataOK, Places, MarkTrue, ProgressKept,
     Jump, SaveThen, screenVars, bookVars, tableWindow, lru, buffer
<1>2. ControlInv'
  BY <1>0, SameBook, <1>a
     DEF DataInv, ControlInv, DataOK, FlagsOK, PCs, Places, Loading, MarkTrue,
         PanelTrue, Drawn, CleanupKnown, Jump, SaveThen, screenVars, bookVars,
         tableWindow, lru, buffer
<1>3. QED
  BY <1>1, <1>2

LEMMA LoadLookupKeeps ==
  ASSUME IInv, LoadLookup
  PROVE  DataInv' /\ ControlInv'
<1>0. DataInv /\ ControlInv
  BY Parts
<1>a. target \in Pages /\ target \in Nat /\ NoPage \notin Nat
  BY <1>0, Reading, BookAssumption DEF ControlInv, Places, Loading, LoadLookup
<1>b. row' \in {target, NoPage} /\ fileOpen' \in BOOLEAN
  BY <1>0, <1>a, Parts, Reading, RowRead
     DEF CachesOK, ControlInv, FlagsOK, Places, LoadLookup, BeginLoad
<1>1. DataInv'
  BY <1>0, SameBook, <1>a, <1>b
     DEF DataInv, ControlInv, DataOK, Places, MarkTrue, ProgressKept, LoadLookup,
         BeginLoad, LoadFailed, screenVars, bookVars, tableWindow, lru, buffer
<1>2. ControlInv'
  BY <1>0, SameBook, <1>a, <1>b
     DEF DataInv, ControlInv, DataOK, FlagsOK, PCs, Places, Loading, MarkTrue,
         PanelTrue, Drawn, CleanupKnown, LoadLookup, BeginLoad, LoadFailed,
         screenVars, bookVars, tableWindow, lru, buffer
<1>3. QED
  BY <1>1, <1>2

\* A load that succeeds has the page it was to load in the buffer.
LEMMA LoadTrue ==
  ASSUME IInv, pc = "read", LoadSucceeds
  PROVE  CachesOK' /\ pageBuffer' = <<book, target>>
<1>1. row = target /\ target \in Nat /\ CachesOK
  BY Parts, Reading DEF ControlInv, Places, Loading
<1>2. WindowTypeOK' /\ WindowTrue'
  BY <1>1
     DEF CachesOK, LoadSucceeds, tableWindow, WindowTypeOK, WindowTrue, InWindow,
         Pages, Count
<1>3. UNCHANGED lru => ClustersTypeOK' /\ ClustersTrue'
  BY <1>1 DEF CachesOK, lru, ClustersTypeOK, ClustersTrue, Used
<1>4. ASSUME NEW i \in Found(target), Lookup(i), pageBuffer' = DataAt(row, clusterLru[i].cluster)
      PROVE  CachesOK' /\ pageBuffer' = <<book, target>>
  BY <1>1, <1>2, <1>4, LookupTrue DEF CachesOK, DataAt
<1>5. CASE /\ Found(target) = {}
           /\ Remember(target, row) \/ UNCHANGED lru
           /\ pageBuffer' = DataAt(row, row)
  BY <1>1, <1>2, <1>3, <1>5, RememberTrue DEF CachesOK, DataAt
<1>6. QED
  BY <1>4, <1>5 DEF LoadSucceeds

LEMMA LoadFailsSafely ==
  ASSUME IInv, pc = "read", LoadFails
  PROVE  CachesOK' /\ pageBuffer' \in {pageBuffer, Junk} /\ fileOpen' \in BOOLEAN
<1>1. row = target /\ target \in Nat /\ CachesOK
  BY Parts, Reading DEF ControlInv, Places, Loading
<1>2. WindowTypeOK' /\ WindowTrue'
  BY <1>1
     DEF CachesOK, LoadFails, tableWindow, WindowTypeOK, WindowTrue, InWindow,
         Pages, Count
<1>3. UNCHANGED lru => ClustersTypeOK' /\ ClustersTrue'
  BY <1>1 DEF CachesOK, lru, ClustersTypeOK, ClustersTrue, Used
<1>4. (\E i \in Found(target) : Lookup(i)) => ClustersTypeOK' /\ ClustersTrue'
  BY <1>1, LookupTrue DEF CachesOK
<1>5. Found(target) = {} /\ Remember(target, row) => ClustersTypeOK' /\ ClustersTrue'
  BY <1>1, RememberTrue DEF CachesOK
<1>6. ClustersTypeOK' /\ ClustersTrue'
  BY <1>3, <1>4, <1>5 DEF LoadFails, lru
<1>7. QED
  BY <1>2, <1>6 DEF CachesOK, LoadFails, ReopenFails, EnsureOpen

LEMMA LoadReadKeeps ==
  ASSUME IInv, LoadRead
  PROVE  DataInv' /\ ControlInv'
<1>0. DataInv /\ ControlInv
  BY Parts
<1>a. target \in Pages /\ target \in Nat /\ NoPage \notin Nat /\ book \in Books
  BY <1>0, Reading, BookAssumption DEF ControlInv, Places, Loading, LoadRead
<1>1. CASE LoadSucceeds /\ pc' = IF target = page THEN "resync" ELSE "flush"
  <2>1. pageBuffer' = <<book, target>>
    BY <1>1, LoadTrue DEF LoadRead
  <2>2. DataInv'
    BY <1>0, <1>1, <1>a, <2>1, SameBook
       DEF LoadRead, LoadSucceeds, DataInv, DataOK, Places, MarkTrue,
           ProgressKept, screenVars, bookVars, tableWindow, lru, buffer
  <2>3. ControlInv'
    BY <1>0, <1>1, <1>a, SameBook
       DEF LoadRead, LoadSucceeds, EnsureOpen, DataInv, ControlInv, DataOK,
           FlagsOK, PCs, Places, Loading, MarkTrue, PanelTrue, Drawn,
           CleanupKnown, screenVars, bookVars, tableWindow, lru, buffer
  <2>4. QED
    BY <2>2, <2>3
<1>2. CASE LoadFails /\ LoadFailed
  <2>1. pageBuffer' \in {pageBuffer, Junk} /\ fileOpen' \in BOOLEAN
    BY <1>2, LoadFailsSafely DEF LoadRead
  <2>2. DataInv'
    BY <1>0, <1>2, <1>a, <2>1, SameBook
       DEF LoadRead, LoadFails, DataInv, ControlInv, DataOK, Places, MarkTrue,
           ProgressKept, Loading, screenVars, bookVars, tableWindow, lru, buffer
  <2>3. ControlInv'
    BY <1>0, <1>2, <1>a, <2>1, SameBook
       DEF LoadRead, LoadFails, LoadFailed, DataInv, ControlInv, DataOK, FlagsOK,
           PCs, Places, Loading, MarkTrue, PanelTrue, Drawn, CleanupKnown,
           screenVars, bookVars, tableWindow, lru, buffer
  <2>4. QED
    BY <2>2, <2>3
<1>3. QED
  BY <1>1, <1>2 DEF LoadRead

----------------------------------------------------------------------------
\* What it does to the caches

LEMMA CachesStep ==
  ASSUME IInv, [Next]_vars
  PROVE  CachesOK'
<1>0. CachesOK /\ DataInv /\ ControlInv
  BY Parts
<1>1. CASE UNCHANGED <<book, tableWindow, lru>>
  BY <1>0, <1>1, CachesKept
<1>2. ASSUME NEW b \in Books, Open(b)
      PROVE  CachesOK'
  <2>1. pageTableWindowCount = 0 /\ clusterLruCount = 0
    BY <1>0, <1>2 DEF ControlInv, Places, Open
  <2>2. QED
    BY <1>0, <1>2, <2>1
       DEF Open, OpenSucceeds, CachesOK, tableWindow, lru, WindowTypeOK,
           ClustersTypeOK, WindowTrue, ClustersTrue, InWindow, Used
<1>3. CASE Exit \/ PowerOff
  BY <1>3, CachesEmpty DEF Exit, PowerOff
<1>4. ASSUME NEW p \in Pages, book \in Books, ReadPageTableEntry(p), UNCHANGED <<book, lru>>
      PROVE  CachesOK'
  <2>1. WindowTypeOK' /\ WindowTrue'
    BY <1>0, <1>4, RowRead DEF CachesOK, ControlInv, FlagsOK
  <2>2. ClustersTypeOK' /\ ClustersTrue'
    BY <1>0, <1>4 DEF CachesOK, lru, ClustersTypeOK, ClustersTrue, Used
  <2>3. QED
    BY <2>1, <2>2 DEF CachesOK
<1>5. CASE DrawLookup
  BY <1>0, <1>4, <1>5, Reading DEF ControlInv, Places, DrawLookup
<1>6. CASE LoadLookup
  BY <1>0, <1>4, <1>6, Reading DEF ControlInv, Places, Loading, LoadLookup, BeginLoad
<1>7. CASE LoadRead
  BY <1>7, LoadTrue, LoadFailsSafely DEF LoadRead
<1>8. QED
  BY <1>1, <1>2, <1>3, <1>5, <1>6, <1>7
     DEF Next, vars, bookVars, OpenFails, Truncate, Write, Flush, NoKey, Leave, Chapters, Turn, Jump,
         Uncover, DrawEnsure, Resync, Paint, Fail, Unload, Prefetch

LEMMA ScreenStep ==
  ASSUME IInv, [Next]_vars
  PROVE  DataInv' /\ ControlInv'
<1>1. CASE UNCHANGED vars
  <2>1. DataInv /\ ControlInv
    BY Parts
  <2>2. QED
    <3>1. DataInv'
      BY <1>1, <2>1, SameBook
         DEF vars, screenVars, bookVars, buffer, DataInv, DataOK, MarkTrue,
             ProgressKept
    <3>2. ControlInv'
      BY <1>1, <2>1, SameBook
         DEF vars, screenVars, bookVars, tableWindow, lru, buffer, ControlInv,
             FlagsOK, Places, Loading, PanelTrue, Drawn, CleanupKnown
    <3>3. QED
      BY <3>1, <3>2
<1>2. CASE \E b \in Books : Open(b)
  BY <1>2, OpenKeeps
<1>3. CASE OpenFails \/ Exit \/ Truncate \/ Write
  BY <1>3, OpenFailsKeeps, ExitKeeps, TruncateKeeps, WriteKeeps
<1>4. CASE Flush \/ NoKey \/ Leave \/ Chapters \/ Uncover
  BY <1>4, FlushKeeps, NoKeyKeeps, LeaveKeeps, ChaptersKeeps, UncoverKeeps
<1>5. CASE \E d \in -MaxDelta..MaxDelta : Turn(d)
  BY <1>5, TurnKeeps, ReaderAssumption
<1>6. CASE \E p \in Pages : Jump(p)
  BY <1>6, JumpKeeps
<1>7. CASE DrawLookup \/ DrawEnsure \/ LoadLookup \/ LoadRead
  BY <1>7, DrawLookupKeeps, DrawEnsureKeeps, LoadLookupKeeps, LoadReadKeeps
<1>8. CASE Resync \/ Paint \/ Fail \/ Prefetch \/ PowerOff
  BY <1>8, ResyncKeeps, PaintKeeps, FailKeeps, PrefetchKeeps, PowerOffKeeps
<1>9. QED
  BY <1>1, <1>2, <1>3, <1>4, <1>5, <1>6, <1>7, <1>8 DEF Next

LEMMA InitInv ==
  ASSUME Init
  PROVE  IInv
<1>1. CachesOK
  BY BookAssumption
     DEF Init, CachesOK, WindowTypeOK, ClustersTypeOK, WindowTrue, ClustersTrue,
         InWindow, Used, EmptySlot
<1>2. DataInv
  BY BookAssumption DEF Init, DataInv, DataOK, MarkTrue, ProgressKept
<1>3. ControlInv
  BY BookAssumption
     DEF Init, ControlInv, FlagsOK, PCs, Places, Loading, PanelTrue, Drawn,
         CleanupKnown
<1>4. QED
  BY <1>1, <1>2, <1>3, Parts

----------------------------------------------------------------------------
\* Theorems

\* The invariant is inductive.
THEOREM Inductive == Spec => []IInv
<1>1. Init => IInv
  BY InitInv
<1>2. IInv /\ [Next]_vars => IInv'
  <2>1. SUFFICES ASSUME IInv, [Next]_vars PROVE (CachesOK /\ DataInv /\ ControlInv)'
    BY Parts, PTL
  <2>2. QED
    BY <2>1, CachesStep, ScreenStep
<1>3. QED
  BY <1>1, <1>2, PTL DEF Spec

\* Every variable keeps its type, the page a page of the open book (ReaderScreen::loop).
THEOREM TypeCorrect == Spec => []TypeOK
<1>1. IInv => TypeOK
  BY DEF IInv
<1>2. QED
  BY <1>1, Inductive, PTL

\* The window of the page table and the clusters remembered are those of their pages
\* after any failed reads, reopenings and refills (XtchBook::readPageTableEntry).
THEOREM CachesAlwaysTrue == Spec => []CachesTrue
<1>1. IInv => CachesTrue
  BY DEF IInv
<1>2. QED
  BY <1>1, Inductive, PTL

\* The panel shows the page the user is on, or says that it could not be read
\* (XtchBook::drawPage, prefetchForward).
THEOREM ShowsThePage == Spec => []PanelShowsPage
<1>1. IInv => PanelShowsPage
  BY DEF IInv, PanelTrue, Drawn, PanelShowsPage
<1>2. QED
  BY <1>1, Inductive, PTL

\* Outside a save the progress file leads back to the page, unless using it has just
\* failed (ReaderScreen::saveProgress, loadProgress).
THEOREM ProgressSafe == Spec => []ProgressKept
<1>1. IInv => ProgressKept
  BY DEF IInv
<1>2. QED
  BY <1>1, Inductive, PTL

\* Nothing but the white of deep sleep is drawn before the gray planes of an earlier page
\* are cleaned up, by the reader or by the screen its exit uncovers
\* (XtchBook::flushPendingCleanup).
THEOREM PlanesResynced == Spec => GrayResynced
<1>1. IInv /\ [Next]_vars => [panel' # panel /\ panel' # White => ~cleanupPending]_vars
  <2>1. SUFFICES ASSUME IInv, Next, panel' # panel, panel' # White PROVE ~cleanupPending
    OBVIOUS
  <2>2. Chapters \/ Paint \/ Fail \/ Exit
    BY <2>1
       DEF Next, screenVars, Open, OpenFails, Truncate, Write, Flush,
           NoKey, Leave, Turn, Jump, Uncover, DrawLookup, DrawEnsure, LoadLookup,
           LoadRead, Resync, Prefetch, PowerOff
  <2>3. pc \in {"keys", "paint", "fail", "exit"}
    BY <2>2 DEF Chapters, Paint, Fail, Exit
  <2>4. QED
    BY <2>1, <2>3 DEF IInv, CleanupKnown, Drawn
<1>2. QED
  BY <1>1, Inductive, PTL DEF Spec, GrayResynced

=============================================================================
