------------------------------- MODULE Reader -------------------------------
(***************************************************************************)
(* Reading a book: src/screens/ReaderScreen.cpp over module XtchBook, from *)
(* the choice of a file to the return to the screen below, with the        *)
(* chapter list and the page picker that cover it, the progress file on    *)
(* the card and the loss of power at any step.                             *)
(*                                                                         *)
(* One tick is keys, then a render if one was asked for: drawPage, which   *)
(* looks its page up, loads it unless the prefetch already has, and paints *)
(* it; then the prefetch of the next page.  The deferred cleanup of the    *)
(* panel's gray planes is run at the start of the next tick.  How strong a *)
(* refresh is, and the gestures that turn pages, are left out.             *)
(***************************************************************************)
EXTENDS XtchBook

CONSTANTS
  MaxDelta,      \* bound: pages turned in one tick
  NoFile, Short, \* a progress file that is missing, or too short to be read
  Message, Other, White \* what the panel shows but a page: why there is none, another
                        \* screen, or the white of deep sleep

ASSUME ReaderAssumption ==
  /\ MaxDelta \in Nat
  /\ NoFile \notin Nat /\ Short \notin Nat
  /\ {Message, Other, White} \cap (Books \X Nat) = {} /\ White \notin {Message, Other}

VARIABLES
  pc,
  loaded, page,
  progress,        \* the progress file
  dirty,           \* the reader has not been drawn since it was opened
  cleanupPending,
  then,            \* what follows saveProgress
  panel,           \* what the panel shows: a page, Message, Other or White
  fault            \* history: the last use of the progress file failed

screenVars == <<loaded, page, progress, dirty, cleanupPending, then, panel, fault>>
vars == <<pc, bookVars, screenVars>>

PCs == {"closed", "flush", "keys", "truncate", "write", "covered", "exit",
        "lookup", "ensure", "load", "read", "resync", "paint", "prefetch", "fail"}

TypeOK ==
  /\ BookTypeOK
  /\ pc \in PCs
  /\ loaded \in BOOLEAN
  /\ loaded <=> book # NoBook
  /\ loaded => page \in Pages
  /\ page \in Nat
  /\ progress \in Nat \cup {NoFile, Short}
  /\ dirty \in BOOLEAN
  /\ cleanupPending \in BOOLEAN
  /\ then \in {"lookup", "exit"}
  /\ panel \in (Books \X Nat) \cup {Junk, NoBuffer, Message, Other, White}
  /\ fault \in BOOLEAN

Init ==
  /\ pc = "closed"
  /\ loaded = FALSE
  /\ page = 0
  /\ progress = NoFile
  /\ dirty = FALSE
  /\ cleanupPending = FALSE
  /\ then = "exit"
  /\ panel = Other
  /\ fault = FALSE
  /\ book = NoBook
  /\ fileOpen = FALSE
  /\ pageTableWindow = [i \in 0..WindowSize - 1 |-> Junk]
  /\ pageTableWindowStart = 0
  /\ pageTableWindowCount = 0
  /\ clusterLru = [i \in 0..LruSize - 1 |-> EmptySlot]
  /\ clusterLruCount = 0
  /\ loadedPageIndex = NoPage
  /\ pageBuffer \in {NoBuffer, Junk}
  /\ target = NoPage
  /\ row = NoPage

----------------------------------------------------------------------------
\* onEnter.  The book may have been replaced by a shorter one since it was left.
\* A reader that another screen opens is drawn in the same tick; the one that
\* setup() opens has a tick of keys first.

Clamp(n, b) == IF n < PageCount[b] THEN n ELSE PageCount[b] - 1

\* Where the progress file says to go on in b: loadProgress and the clamping.
Resume(b) == IF progress \in Nat THEN Clamp(progress, b) ELSE 0

LoadProgress(b) ==
  \/ page' = Resume(b) /\ fault' = FALSE
  \/ page' = 0 /\ fault' = (progress # NoFile)

Open(b) ==
  /\ pc = "closed"
  /\ OpenSucceeds(b)
  /\ LoadProgress(b)
  /\ loaded' = TRUE
  /\ dirty' = TRUE
  /\ pc' \in {"lookup", "flush"}
  /\ UNCHANGED <<progress, cleanupPending, then, panel>>

OpenFails ==
  /\ pc = "closed"
  /\ dirty' = TRUE
  /\ pc' \in {"fail", "flush"}
  /\ UNCHANGED <<bookVars, loaded, page, progress, cleanupPending, then, panel, fault>>

\* onExit, after the save; the object dies, its static buffer does not.  The
\* screen below is drawn.
Exit ==
  /\ pc = "exit"
  /\ Closed
  /\ pc' = "closed"
  /\ loaded' = FALSE
  /\ dirty' = FALSE
  /\ cleanupPending' = FALSE
  /\ panel' = Other
  /\ UNCHANGED <<pageBuffer, page, progress, then, fault>>

----------------------------------------------------------------------------
\* saveProgress: the file is truncated by opening it, then written.

SaveThen(next) == pc' = "truncate" /\ then' = next

Truncate ==
  /\ pc = "truncate"
  /\ \/ pc' = "write" /\ progress' = Short /\ UNCHANGED fault
     \/ pc' = then /\ fault' = TRUE /\ UNCHANGED progress
  /\ UNCHANGED <<bookVars, loaded, page, dirty, cleanupPending, then, panel>>

Write ==
  /\ pc = "write"
  /\ pc' = then
  /\ \/ progress' = page /\ fault' = FALSE
     \/ fault' = TRUE /\ UNCHANGED progress
  /\ UNCHANGED <<bookVars, loaded, page, dirty, cleanupPending, then, panel>>

----------------------------------------------------------------------------
\* loop()

\* Mutant: the cleanup waits for an idle tick, one without a key.
FlushWhenIdle ==
  /\ pc = "flush"
  /\ pc' = "keys"
  /\ \/ cleanupPending' = FALSE
     \/ UNCHANGED cleanupPending
  /\ UNCHANGED <<bookVars, loaded, page, progress, dirty, then, panel, fault>>

\* Not without a book, which has nothing to clean up either.
Flush ==
  /\ pc = "flush"
  /\ pc' = "keys"
  /\ cleanupPending' = (cleanupPending /\ ~loaded)
  /\ UNCHANGED <<bookVars, loaded, page, progress, dirty, then, panel, fault>>

Idle == pc' = IF ~dirty THEN "flush" ELSE IF loaded THEN "lookup" ELSE "fail"

NoKey ==
  /\ pc = "keys"
  /\ Idle
  /\ UNCHANGED <<bookVars, screenVars>>

\* Back, or either key when the book did not open.
Leave ==
  /\ pc = "keys"
  /\ IF loaded THEN SaveThen("exit") ELSE pc' = "exit" /\ UNCHANGED then
  /\ UNCHANGED <<bookVars, loaded, page, progress, dirty, cleanupPending, panel, fault>>

\* Confirm.  Reading the chapters, once, leaves the file closed; then the list may
\* not fit into memory.
Chapters ==
  /\ pc = "keys"
  /\ loaded
  /\ fileOpen' \in {fileOpen, FALSE}
  /\ \/ pc' = "covered" /\ dirty' = FALSE /\ panel' = Other
     \/ Idle /\ UNCHANGED <<dirty, panel>>
  /\ UNCHANGED <<book, tableWindow, lru, buffer, target, row,
                 loaded, page, progress, cleanupPending, then, fault>>

Turned(d) == IF d > 0 THEN Clamp(page + d, book) ELSE IF page + d < 0 THEN 0 ELSE page + d

Turn(d) ==
  /\ pc = "keys"
  /\ loaded
  /\ Turned(d) # page
  /\ page' = Turned(d)
  /\ SaveThen("lookup")
  /\ UNCHANGED <<bookVars, loaded, progress, dirty, cleanupPending, panel, fault>>

\* Mutant: a jump is saved with the next page turn.
JumpUnsaved(p) ==
  /\ pc = "covered"
  /\ page' = p
  /\ pc' = "lookup"
  /\ UNCHANGED <<bookVars, loaded, progress, dirty, cleanupPending, then, panel, fault>>

\* jumpToPage, from a covering screen that then uncovers the reader.  Chapters
\* start on, and typed numbers are brought to, a page of the book.
Jump(p) ==
  /\ pc = "covered"
  /\ page' = p
  /\ SaveThen("lookup")
  /\ UNCHANGED <<bookVars, loaded, progress, dirty, cleanupPending, panel, fault>>

Uncover ==
  /\ pc = "covered"
  /\ pc' = "lookup"
  /\ UNCHANGED <<bookVars, screenVars>>

----------------------------------------------------------------------------
\* render(): drawPage

DrawLookup ==
  /\ pc = "lookup"
  /\ ReadPageTableEntry(page)
  /\ pc' = IF row' = NoPage THEN "fail" ELSE "ensure"
  /\ UNCHANGED <<book, lru, buffer, target, screenVars>>

\* Too large, or the file does not open; prefetched; or to be loaded.
DrawEnsure ==
  /\ pc = "ensure"
  /\ \/ pc' = "fail" /\ UNCHANGED <<fileOpen, target>>
     \/ /\ EnsureOpen
        /\ pc' = IF loadedPageIndex = page /\ pageBuffer # NoBuffer THEN "resync" ELSE "load"
        /\ target' = page
  /\ UNCHANGED <<book, tableWindow, lru, buffer, row, screenVars>>

\* A prefetch that fails is not reported.
LoadFailed == pc' = IF target = page THEN "fail" ELSE "flush"

LoadLookup ==
  /\ pc = "load"
  /\ BeginLoad
  /\ IF row' = NoPage THEN LoadFailed ELSE pc' = "read"
  /\ UNCHANGED screenVars

LoadRead ==
  /\ pc = "read"
  /\ \/ LoadSucceeds /\ pc' = IF target = page THEN "resync" ELSE "flush"
     \/ LoadFails /\ LoadFailed
  /\ UNCHANGED screenVars

\* The cleanup of the page before, in case loop() has not done it.
Resync ==
  /\ pc = "resync"
  /\ pc' = "paint"
  /\ cleanupPending' = FALSE
  /\ UNCHANGED <<bookVars, loaded, page, progress, dirty, then, panel, fault>>

Paint ==
  /\ pc = "paint"
  /\ pc' = "prefetch"
  /\ panel' = pageBuffer
  /\ dirty' = FALSE
  /\ cleanupPending' = TRUE
  /\ UNCHANGED <<bookVars, loaded, page, progress, then, fault>>

\* fail(), and the message in place of the page.
Fail ==
  /\ pc = "fail"
  /\ Unload
  /\ pc' = "flush"
  /\ panel' = Message
  /\ dirty' = FALSE
  /\ UNCHANGED <<loaded, page, progress, cleanupPending, then, fault>>

\* Skipped when the user has already gone on, and past the end.
Prefetch ==
  /\ pc = "prefetch"
  /\ \/ pc' = "flush" /\ UNCHANGED target
     \/ page + 1 < Count /\ pc' = "load" /\ target' = page + 1
  /\ UNCHANGED <<book, fileOpen, tableWindow, lru, buffer, row, screenVars>>

----------------------------------------------------------------------------
\* Power lost, or deep sleep, which does not call onExit and whitens the panel first.
\* setup() reserves the buffer again if it can.
PowerOff ==
  /\ Closed
  /\ pc' = "closed"
  /\ pageBuffer' \in {NoBuffer, Junk}
  /\ loaded' = FALSE
  /\ page' = 0
  /\ dirty' = FALSE
  /\ cleanupPending' = FALSE
  /\ panel' \in {panel, White}
  /\ UNCHANGED <<progress, then, fault>>

Next ==
  \/ \E b \in Books : Open(b)
  \/ OpenFails \/ Exit
  \/ Truncate \/ Write
  \/ Flush \/ NoKey \/ Leave \/ Chapters
  \/ \E d \in -MaxDelta..MaxDelta : Turn(d)
  \/ \E p \in Pages : Jump(p)
  \/ Uncover
  \/ DrawLookup \/ DrawEnsure \/ LoadLookup \/ LoadRead \/ Resync \/ Paint
  \/ Fail \/ Prefetch
  \/ PowerOff

Spec == Init /\ [][Next]_vars

----------------------------------------------------------------------------
\* Properties

\* A reader that has been drawn shows, between two ticks, the page the user is on or
\* says that it could not be read (ReaderScreen::render), whatever was cached,
\* prefetched, reopened or failed before.
PanelShowsPage ==
  loaded /\ ~dirty /\ pc \in {"prefetch", "flush", "keys"} =>
    panel \in {<<book, page>>, Message}

\* The window holds rows of the table where it says, and the clusters remembered
\* are those of their pages, each page once.
WindowTrue == \A p \in Pages : InWindow(p) => pageTableWindow[p - pageTableWindowStart] = p

ClustersTrue ==
  /\ \A i \in Used : clusterLru[i].cluster = clusterLru[i].pageIndex
  /\ \A i, j \in Used : clusterLru[i].pageIndex = clusterLru[j].pageIndex => i = j

CachesTrue == WindowTrue /\ ClustersTrue

\* Outside a save the progress file leads back to the page the user is on, unless
\* using the file has just failed: power may go at any time but then.
ProgressKept ==
  loaded /\ ~fault /\ pc \notin {"truncate", "write"} => page = Resume(book)

\* "The new page's own display calls need the DTM banks already resynced"
\* (Xtch.cpp:677): no page, message or other screen is drawn while the cleanup of an
\* earlier page is still to do, on the way out of the reader neither, whichever tick the
\* key comes in and whatever the prefetch has left open.  Only the white of deep sleep is.
GrayResynced == [][panel' # panel /\ panel' # White => ~cleanupPending]_vars

=============================================================================
