---------------------------- MODULE ChapterTable ----------------------------
(***************************************************************************)
(* The chapters of a book, lib/Xtch/Xtch.cpp: what open() believes of the  *)
(* header, and readChapters(), which finds out how many entries the table  *)
(* has from where the next table begins and keeps those that lie in the    *)
(* book; with screens/ChapterSelectionScreen.cpp, which offers them.       *)
(*                                                                         *)
(* The header's offsets are arbitrary, and so is what an entry says.  The  *)
(* card may fail at any call.  Offsets are in a smaller unit.              *)
(***************************************************************************)
EXTENDS Integers, Sequences

CONSTANTS
  HeaderSize, EntrySize,  \* sizeof(header) and kChapterEntrySize
  MaxSize, MaxPages       \* bounds: size of the file, pages of the book

ASSUME ChapterAssumption ==
  /\ HeaderSize \in Nat \ {0} /\ EntrySize \in Nat \ {0}
  /\ MaxSize \in Nat /\ MaxPages \in Nat \ {0}

VARIABLES
  bookState,  \* "closed", "open", "reading" while in readChapters(), "chosen"
  header,     \* the fields of it that matter here
  fileSize,
  chaptersAvailable, chaptersLoaded, chapters,
  entry,      \* the entry that is read next
  jump        \* the page a chosen chapter jumps to, or -1

chapterVars == <<bookState, header, fileSize, chaptersAvailable, chaptersLoaded, chapters, entry, jump>>

Offsets == {0} \cup HeaderSize - 1..MaxSize + 1

NoHeader == [pageCount |-> 0, chapterOffset |-> 0, pageTableOffset |-> 0, dataOffset |-> 0]

\* open(): a header that is not right, or a failure of the card, leaves the book closed;
\* nothing looks at the members it has set by then.
OpenBook ==
  /\ bookState = "closed"
  /\ fileSize' \in HeaderSize..MaxSize
  /\ \E flag, seen \in BOOLEAN, h \in [pageCount : 0..MaxPages, chapterOffset : Offsets,
                                       pageTableOffset : Offsets, dataOffset : Offsets] :
       \/ /\ seen /\ h.pageCount # 0 /\ h.pageTableOffset # 0
          /\ bookState' = "open" /\ header' = h
          /\ chaptersAvailable' = (flag /\ h.pageTableOffset >= HeaderSize)
       \/ /\ bookState' = "closed" /\ header' = NoHeader
          /\ chaptersAvailable' = FALSE
  /\ UNCHANGED <<chaptersLoaded, chapters, entry, jump>>

CloseBook ==
  /\ bookState \in {"open", "chosen"}
  /\ bookState' = "closed"
  /\ header' = NoHeader /\ chapters' = <<>>
  /\ chaptersAvailable' = FALSE /\ chaptersLoaded' = FALSE
  /\ jump' = -1
  /\ UNCHANGED <<fileSize, entry>>

Fits ==
  /\ header.chapterOffset # 0
  /\ header.chapterOffset >= HeaderSize
  /\ header.chapterOffset < fileSize
  /\ header.chapterOffset + EntrySize <= fileSize

\* The table that follows, if the header names one; else the end of the file.
NextTable ==
  LET follows(o) == o > header.chapterOffset /\ o <= fileSize
  IN  IF follows(header.pageTableOffset) THEN header.pageTableOffset
      ELSE IF follows(header.dataOffset) THEN header.dataOffset
      ELSE fileSize

ChapterCount == (NextTable - header.chapterOffset) \div EntrySize

\* getChapters(), when the reader opens the list: only the first time they are read.
ReadChapters ==
  /\ bookState = "open" /\ ~chaptersLoaded
  /\ chaptersLoaded' = TRUE
  /\ \/ /\ chaptersAvailable /\ Fits /\ ChapterCount \in 1..header.pageCount
        /\ bookState' = "reading" /\ entry' = 0
        /\ UNCHANGED chaptersAvailable
     \/ /\ chaptersAvailable' = FALSE
        /\ UNCHANGED <<bookState, entry>>
  /\ UNCHANGED <<header, fileSize, chapters, jump>>

\* On the card pages count from one.
ZeroBased(p) == IF p > 0 THEN p - 1 ELSE p

\* Mutant: the last page of a chapter is not cut off at the end of the book.
UncutChapter(start, end) ==
  IF ZeroBased(start) >= header.pageCount \/ ZeroBased(start) > ZeroBased(end) THEN <<>>
  ELSE <<[startPage |-> ZeroBased(start), endPage |-> ZeroBased(end)]>>

\* What an entry adds to the list: nothing if no page of the book is in it.
Chapter(start, end) ==
  LET last == IF ZeroBased(end) >= header.pageCount THEN header.pageCount - 1 ELSE ZeroBased(end)
  IN  IF ZeroBased(start) >= header.pageCount \/ ZeroBased(start) > last THEN <<>>
      ELSE <<[startPage |-> ZeroBased(start), endPage |-> last]>>

ReadEntry ==
  /\ bookState = "reading" /\ entry < ChapterCount
  /\ \E start, end \in 0..MaxPages + 2, named \in BOOLEAN :
       /\ named \/ start # 0 \/ end # 0
       /\ chapters' = chapters \o Chapter(start, end)
  /\ entry' = entry + 1
  /\ UNCHANGED <<bookState, header, fileSize, chaptersAvailable, chaptersLoaded, jump>>

\* After the last entry, a blank one, or one that cannot be read.
EndChapters ==
  /\ bookState = "reading"
  /\ bookState' = "open"
  /\ chaptersAvailable' = (chapters # <<>>)
  /\ UNCHANGED <<header, fileSize, chaptersLoaded, chapters, entry, jump>>

\* ChapterSelectionScreen::activate() on one of its rows; jumpToPage() looks at the page again.
ChooseChapter ==
  /\ bookState = "open" /\ chaptersLoaded
  /\ \E i \in DOMAIN chapters : jump' = chapters[i].startPage
  /\ bookState' = "chosen"
  /\ UNCHANGED <<header, fileSize, chaptersAvailable, chaptersLoaded, chapters, entry>>

ChapterInit ==
  /\ bookState = "closed" /\ header = NoHeader /\ fileSize = HeaderSize
  /\ chaptersAvailable = FALSE /\ chaptersLoaded = FALSE /\ chapters = <<>>
  /\ entry = 0 /\ jump = -1

ChapterNext ==
  OpenBook \/ CloseBook \/ ReadChapters \/ ReadEntry \/ EndChapters \/ ChooseChapter

ChapterSpec == ChapterInit /\ [][ChapterNext]_chapterVars

-----------------------------------------------------------------------------

\* Whatever the header and the entries say, and wherever the card fails: every chapter
\* offered is a range of pages of this book, and the entries it came from lie after the
\* header, in the file, and in front of every table that begins behind them as far as the
\* reader can tell; once they have been asked for, the book says it has chapters only if
\* there is one to choose.  (readChapters(), Xtch.cpp:512-582.)
ChaptersSound ==
  /\ \A i \in DOMAIN chapters :
       /\ chapters[i].startPage <= chapters[i].endPage
       /\ chapters[i].endPage < header.pageCount
  /\ jump < header.pageCount
  /\ bookState = "reading" =>
       LET end == header.chapterOffset + ChapterCount * EntrySize IN
       /\ header.chapterOffset >= HeaderSize /\ end <= fileSize
       /\ header.pageTableOffset \in header.chapterOffset + 1..fileSize => end <= header.pageTableOffset
       /\ Len(chapters) <= entry
  /\ chaptersLoaded /\ bookState # "reading" => chaptersAvailable = (chapters # <<>>)

=============================================================================
