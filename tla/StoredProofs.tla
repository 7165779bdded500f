---------------------------- MODULE StoredProofs ----------------------------
(***************************************************************************)
(* What holds of the components that read what is stored and draw it, for  *)
(* every value of their constants: firmware images, chapter tables, page   *)
(* images, settings, the crash log, editors, lists, text, the folder page, *)
(* fonts and compressed pages.  Each section has the inductive invariant   *)
(* of one component, the lemmas on its operators, and the theorem on the   *)
(* property that the run `stored` checks on small instances.               *)
(***************************************************************************)
EXTENDS FirmwareImage, ChapterTable, PageImage, SettingsStore, CrashReport, Editors,
        ListScreens, TextLayout, Utf8, FilePage, FontTables, Inflate,
        SequenceTheorems, FiniteSetTheorems, WellFoundedInduction, TLAPS

\* FirmwareImage: what inspect() accepts, for every width its lengths are added
\* in, every slot, header, chunk and alignment.

\* Types of inspect()'s locals and of the cached chip.
ImageNumbers ==
  /\ size \in Nat /\ size <= MaxFile
  /\ cursor \in Nat /\ pos \in Nat /\ remaining \in Nat /\ hashed \in Nat /\ segments \in Nat

ImageFlags ==
  /\ check \in Answers \cup {"idle", "header", "segment", "data", "hash"}
  /\ hashAppended \in BOOLEAN
  /\ xorAccum \in {0, 1}
  /\ chipId \in {"not read", "known", "unknown"}

ImageTyped == ImageNumbers /\ ImageFlags

\* The file is large enough and small enough once its size has been looked at.
FileSized == check \in {"header", "segment", "data", "hash", "ok"} => MinBytes <= size /\ size <= Limit

\* What inspect() relies on between two of its reads: ImageExact's first part, and what a
\* state of its own adds.
ImageReading ==
  /\ check \in {"segment", "data", "hash"} => pos = cursor /\ hashed = cursor /\ cursor <= size
  /\ check = "header" => cursor = 0 /\ hashed = 0
  /\ check = "data" => segments > 0

\* Before the hash is compared, all of the image but its trailer was read.
ImageHashing == check = "hash" => hashAppended /\ size = pos + Trailer /\ pos % Align = 0

\* ImageExact's second part.
AcceptedImage ==
  check = "ok" =>
    /\ cursor = size /\ pos = hashed /\ pos % Align = 0
    /\ hashed = IF hashAppended THEN size - Trailer ELSE size

ImageInv == ImageTyped /\ FileSized /\ ImageReading /\ ImageHashing /\ AcceptedImage

\* The constants one by one.
LEMMA Constants ==
  /\ MinBytes \in Nat /\ Limit \in Nat /\ Header \in Nat /\ SegHeader \in Nat /\ Trailer \in Nat
  /\ Align \in Nat \ {0} /\ ImageChunk \in Nat \ {0} /\ Wrap \in Nat \ {0}
  /\ MaxFile \in Nat /\ Limit <= MaxFile /\ MaxFile < Wrap
<1>1. {MinBytes, Limit, Header, SegHeader, Trailer, Align, ImageChunk} \subseteq 1..Wrap - 1
  BY ImageAssumption
<1>2. MaxFile \in Limit..Wrap - 1
  BY ImageAssumption
<1>3. Wrap \in Int
  BY ImageAssumption
<1>. QED
  BY <1>1, <1>2, <1>3

-----------------------------------------------------------------------------
(* Arithmetic                                                              *)

\* Only zero times n lies between zero and n.
LEMMA NoMultipleBelow ==
  ASSUME NEW n \in Nat \ {0}, NEW k \in Int, 0 <= n * k, n * k < n
  PROVE  k = 0
<1>1. CASE k >= 1
  <2>1. n * k >= n
    BY <1>1
  <2>. QED
    BY <2>1
<1>2. CASE k <= -1
  <2>1. n * k <= -n
    BY <1>2
  <2>. QED
    BY <2>1
<1>. QED
  BY <1>1, <1>2

\* What division is.
LEMMA Division ==
  ASSUME NEW b \in Int, NEW n \in Nat \ {0}
  PROVE  b \div n \in Int /\ b % n \in 0..n - 1 /\ b = n * (b \div n) + (b % n)
  OBVIOUS

\* Adding n and cutting off the rest goes to the next multiple of n, at most n ahead.
LEMMA RoundUp ==
  ASSUME NEW a \in Nat, NEW n \in Nat \ {0}
  PROVE  LET r == ((a + n) \div n) * n IN r \in Nat /\ r > a /\ r <= a + n /\ r % n = 0
<1>. DEFINE q == (a + n) \div n
            r == q * n
            quot == r \div n
<1>0. a + n \in Int
  OBVIOUS
<1>1. q \in Int /\ a + n = n * q + ((a + n) % n) /\ (a + n) % n \in 0..n - 1
  BY <1>0, Division
<1>2. r \in Int /\ r = n * q
  <2>. HIDE DEF q
  <2>. QED
    BY <1>1
<1>3. r > a /\ r <= a + n
  <2>. HIDE DEF q, r
  <2>. QED
    BY <1>1, <1>2
<1>4. quot \in Int /\ r % n \in 0..n - 1 /\ r = n * quot + (r % n)
  <2>. HIDE DEF q, r
  <2>. QED
    BY <1>2, Division
<1>5. r % n = 0
  <2>. HIDE DEF q, r, quot
  <2>1. n * (q - quot) = r % n
    BY <1>1, <1>2, <1>4
  <2>2. q - quot = 0
    BY <2>1, <1>1, <1>4, NoMultipleBelow
  <2>. QED
    BY <2>1, <2>2
<1>. QED
  BY <1>2, <1>3, <1>5

\* A sum below Wrap is kept.
LEMMA NoWrap ==
  ASSUME NEW a \in Nat, NEW w \in Nat \ {0}, a < w
  PROVE  a % w = a
  OBVIOUS

\* A turn of feed() reads part of what remains.
LEMMA WantPart ==
  ASSUME remaining \in Nat \ {0}
  PROVE  Want \in Nat /\ Want <= remaining
<1>1. ImageChunk \in Nat
  BY Constants
<1>2. \E x \in {remaining, ImageChunk} : \A y \in {remaining, ImageChunk} : x <= y
  BY <1>1
<1>. QED
  BY <1>1, <1>2 DEF Want, Min

-----------------------------------------------------------------------------
(* One lemma for each part of inspect()                                    *)

\* Before a check there is nothing read and nothing to be wrong of.
LEMMA ImageInitial == ImageInit => ImageInv
<1>. SUFFICES ASSUME ImageInit PROVE ImageInv
  OBVIOUS
<1>1. ImageNumbers
  <2>1. size = 0 /\ cursor = 0 /\ pos = 0 /\ remaining = 0 /\ hashed = 0 /\ segments = 0
    BY DEF ImageInit
  <2>2. 0 <= MaxFile
    BY Constants
  <2>. QED
    BY <2>1, <2>2 DEF ImageNumbers
<1>2. ImageFlags
  BY DEF ImageInit, ImageFlags
<1>3. FileSized /\ ImageReading /\ ImageHashing /\ AcceptedImage
  BY DEF ImageInit, FileSized, ImageReading, ImageHashing, AcceptedImage
<1>. QED
  BY <1>1, <1>2, <1>3 DEF ImageInv, ImageTyped

\* A step that only answers keeps the invariant, unless it answers that all is well.
LEMMA AnswerKeeps ==
  ASSUME ImageInv, NEW a \in Answers \ {"ok"}, ReadFails(a)
  PROVE  ImageInv'
<1>. USE DEF ReadFails, Answer, walked
<1>1. ImageNumbers'
  BY DEF ImageInv, ImageTyped, ImageNumbers
<1>2. ImageFlags'
  BY DEF ImageInv, ImageTyped, ImageFlags, Answers
<1>3. check' \notin {"header", "segment", "data", "hash", "ok"}
  BY DEF Answers
<1>4. FileSized' /\ ImageReading' /\ ImageHashing' /\ AcceptedImage'
  BY <1>3 DEF FileSized, ImageReading, ImageHashing, AcceptedImage
<1>. QED
  BY <1>1, <1>2, <1>4 DEF ImageInv, ImageTyped

\* Opening the image: only a file whose size is within the limits is read on.
LEMMA InspectKeeps ==
  ASSUME ImageInv, Inspect
  PROVE  ImageInv'
<1>1. /\ cursor' = 0 /\ hashed' = 0 /\ pos' = 0 /\ remaining' = 0 /\ segments' = 0
      /\ hashAppended' = FALSE /\ xorAccum' = 0 /\ chipId' = chipId
  BY DEF Inspect
<1>2. \/ size' = 0 /\ check' \in {"not found", "not opened"}
      \/ size' \in 0..MaxFile /\ check' \in {"too small", "too large"}
      \/ size' \in 0..MaxFile /\ check' = "header" /\ size' \in MinBytes..Limit
  BY DEF Inspect, Answer
<1>3. size' \in Nat /\ size' <= MaxFile
  <2>1. MaxFile \in Nat
    BY Constants
  <2>2. size' = 0 \/ size' \in 0..MaxFile
    BY <1>2
  <2>. QED
    BY <2>1, <2>2
<1>4. check' \in {"not found", "not opened", "too small", "too large", "header"}
  BY <1>2
<1>5. check' = "header" => MinBytes <= size' /\ size' <= Limit
  <2>1. MinBytes \in Nat /\ Limit \in Nat
    BY Constants
  <2>. QED
    BY <1>2, <2>1
<1>6. ImageNumbers'
  BY <1>1, <1>3 DEF ImageNumbers
<1>7. ImageFlags'
  BY <1>1, <1>4 DEF ImageInv, ImageTyped, ImageFlags, Answers
<1>8. FileSized' /\ ImageReading' /\ ImageHashing' /\ AcceptedImage'
  BY <1>1, <1>4, <1>5 DEF FileSized, ImageReading, ImageHashing, AcceptedImage
<1>. QED
  BY <1>6, <1>7, <1>8 DEF ImageInv, ImageTyped

\* Reading the header: as many bytes hashed as read.
LEMMA HeaderKeeps ==
  ASSUME ImageInv, ReadHeader
  PROVE  ImageInv'
<1>1. Header \in Nat
  BY Constants
<1>2. check = "header" /\ ReadExact(Header) /\ pos' = Header /\ UNCHANGED <<size, remaining, xorAccum>>
  BY DEF ReadHeader
<1>3. cursor = 0 /\ hashed = 0 /\ MinBytes <= size /\ size <= Limit
  BY <1>2 DEF ImageInv, ImageReading, FileSized
<1>4. cursor' = Header /\ hashed' = Header /\ Header <= size
  BY <1>1, <1>2, <1>3 DEF ReadExact
<1>5. check' \in {"not an image", "wrong device", "invalid", "segment"}
  BY DEF ReadHeader, Answer
<1>6. segments' = segments \/ segments' \in 1..MaxSegments
  BY DEF ReadHeader
<1>7. hashAppended' \in BOOLEAN
  <2>1. hashAppended \in BOOLEAN
    BY DEF ImageInv, ImageTyped, ImageFlags
  <2>. QED
    BY <2>1, Zenon DEF ReadHeader
<1>8. chipId' \in {"not read", "known", "unknown"}
  BY DEF ReadHeader, ImageInv, ImageTyped, ImageFlags
<1>9. ImageNumbers'
  <2>1. ImageNumbers
    BY DEF ImageInv, ImageTyped
  <2>2. segments' \in Nat
    BY <1>6, <2>1, ImageAssumption DEF ImageNumbers
  <2>. QED
    BY <2>1, <2>2, <1>1, <1>2, <1>4 DEF ImageNumbers
<1>10. ImageFlags'
  BY <1>2, <1>5, <1>7, <1>8 DEF ImageInv, ImageTyped, ImageFlags, Answers
<1>11. FileSized' /\ ImageReading' /\ ImageHashing' /\ AcceptedImage'
  BY <1>2, <1>3, <1>4, <1>5 DEF FileSized, ImageReading, ImageHashing, AcceptedImage
<1>. QED
  BY <1>9, <1>10, <1>11 DEF ImageInv, ImageTyped

\* Reading the header of a segment, whose length may wrap the position.
LEMMA SegmentHeaderKeeps ==
  ASSUME ImageInv, ReadSegmentHeader
  PROVE  ImageInv'
<1>1. SegHeader \in Nat /\ Wrap \in Nat
  BY Constants
<1>2. /\ check = "segment" /\ segments > 0 /\ ReadExact(SegHeader) /\ pos' = pos + SegHeader
      /\ UNCHANGED <<size, segments, hashAppended, xorAccum, chipId>>
  BY DEF ReadSegmentHeader
<1>3. check' \in {"invalid", "data"} /\ remaining' \in Nat
  BY <1>1 DEF ReadSegmentHeader, Answer
<1>4. ImageNumbers'
  BY <1>1, <1>2, <1>3 DEF ImageInv, ImageTyped, ImageNumbers, ReadExact
<1>5. ImageFlags'
  BY <1>2, <1>3 DEF ImageInv, ImageTyped, ImageFlags, Answers
<1>6. FileSized'
  BY <1>2, <1>3 DEF ImageInv, FileSized
<1>7. ImageReading'
  BY <1>1, <1>2, <1>3 DEF ImageInv, ImageTyped, ImageNumbers, ImageReading, ReadExact
<1>8. ImageHashing' /\ AcceptedImage'
  BY <1>3 DEF ImageHashing, AcceptedImage
<1>. QED
  BY <1>4, <1>5, <1>6, <1>7, <1>8 DEF ImageInv, ImageTyped

\* The position cannot wrap while it does not part from the cursor.
LEMMA FeedKeeps ==
  ASSUME ImageInv, Feed
  PROVE  ImageInv'
<1>1. ImageNumbers
  BY DEF ImageInv, ImageTyped
<1>2. /\ check = "data" /\ remaining \in Nat \ {0} /\ ReadExact(Want) /\ remaining' = remaining - Want
      /\ pos' = (pos + Want) % Wrap /\ UNCHANGED <<check, size, segments, hashAppended, chipId>>
  BY <1>1 DEF Feed, ImageNumbers
<1>3. Want \in Nat /\ Want <= remaining
  BY <1>2, WantPart
<1>4. pos = cursor /\ hashed = cursor /\ segments > 0
  BY <1>2 DEF ImageInv, ImageReading
<1>5. cursor + Want <= size /\ cursor' = cursor + Want /\ hashed' = hashed + Want
  BY <1>2 DEF ReadExact
<1>. HIDE DEF Want
<1>6. pos' = pos + Want
  <2>1. pos + Want \in Nat /\ pos + Want < Wrap
    BY <1>1, <1>3, <1>4, <1>5, Constants DEF ImageNumbers
  <2>. QED
    BY <2>1, <1>2, Constants, NoWrap
<1>7. xorAccum' \in {0, 1}
  <2>1. xorAccum \in {0, 1}
    BY DEF ImageInv, ImageTyped, ImageFlags
  <2>2. PICK parity \in 0..1 : xorAccum' = (xorAccum + parity) % 2
    BY DEF Feed
  <2>. QED
    BY <2>1, <2>2
<1>8. ImageNumbers'
  BY <1>1, <1>2, <1>3, <1>5, <1>6 DEF ImageNumbers
<1>9. ImageFlags'
  BY <1>2, <1>7 DEF ImageInv, ImageTyped, ImageFlags
<1>10. FileSized'
  BY <1>2 DEF ImageInv, FileSized
<1>11. ImageReading'
  BY <1>1, <1>2, <1>4, <1>5, <1>6 DEF ImageNumbers, ImageReading
<1>12. ImageHashing' /\ AcceptedImage'
  BY <1>2 DEF ImageHashing, AcceptedImage
<1>. QED
  BY <1>8, <1>9, <1>10, <1>11, <1>12 DEF ImageInv, ImageTyped

\* A segment read to its end.
LEMMA NextSegmentKeeps ==
  ASSUME ImageInv, NextSegment
  PROVE  ImageInv'
<1>1. /\ check = "data" /\ check' = "segment" /\ segments' = segments - 1
      /\ UNCHANGED <<size, cursor, pos, remaining, hashAppended, xorAccum, hashed, chipId>>
  BY DEF NextSegment, Answer
<1>2. ImageNumbers'
  BY <1>1 DEF ImageInv, ImageTyped, ImageNumbers, ImageReading
<1>3. ImageFlags'
  BY <1>1 DEF ImageInv, ImageTyped, ImageFlags
<1>4. FileSized' /\ ImageReading'
  BY <1>1 DEF ImageInv, FileSized, ImageReading
<1>5. ImageHashing' /\ AcceptedImage'
  BY <1>1 DEF ImageHashing, AcceptedImage
<1>. QED
  BY <1>2, <1>3, <1>4, <1>5 DEF ImageInv, ImageTyped

\* The padding ends on the alignment, and there the image or its hash.
LEMMA PaddingKeeps ==
  ASSUME ImageInv, ReadPadding
  PROVE  ImageInv'
<1>1. ImageNumbers
  BY DEF ImageInv, ImageTyped
<1>2. /\ check = "segment" /\ Expected = size /\ ReadExact(PadEnd - pos) /\ pos' = PadEnd
      /\ UNCHANGED <<size, remaining, segments, hashAppended, xorAccum, chipId>>
  BY DEF ReadPadding
<1>3. Align \in Nat \ {0} /\ Trailer \in Nat
  BY Constants
<1>4. PadEnd \in Nat /\ PadEnd > pos /\ PadEnd % Align = 0
  <2>1. pos \in Nat
    BY <1>1 DEF ImageNumbers
  <2>. QED
    BY <2>1, <1>3, RoundUp DEF PadEnd
<1>. HIDE DEF PadEnd
<1>5. pos = cursor /\ hashed = cursor
  BY <1>2 DEF ImageInv, ImageReading
<1>6. cursor' = PadEnd /\ hashed' = PadEnd
  BY <1>1, <1>2, <1>4, <1>5 DEF ReadExact, ImageNumbers
<1>7. check' = "invalid" \/ (check' = "hash" /\ hashAppended) \/ (check' = "ok" /\ ~hashAppended)
  BY DEF ReadPadding, Answer
<1>8. hashAppended => size = PadEnd + Trailer
  BY <1>2 DEF Expected
<1>9. ~hashAppended => size = PadEnd
  <2>1. ~hashAppended => size = PadEnd + 0
    BY <1>2 DEF Expected
  <2>. QED
    BY <2>1, <1>4
<1>10. ImageNumbers'
  BY <1>1, <1>2, <1>4, <1>6 DEF ImageNumbers
<1>11. ImageFlags'
  BY <1>2, <1>7 DEF ImageInv, ImageTyped, ImageFlags, Answers
<1>12. FileSized'
  BY <1>2, <1>7 DEF ImageInv, FileSized
<1>13. ImageReading'
  <2>1. cursor' <= size' /\ pos' = cursor' /\ hashed' = cursor'
    BY <1>1, <1>2, <1>5, <1>6 DEF ReadExact, ImageNumbers
  <2>. QED
    BY <2>1, <1>7 DEF ImageReading
<1>14. ImageHashing'
  <2>1. check' = "hash" => hashAppended
    BY <1>7
  <2>. QED
    BY <2>1, <1>2, <1>4, <1>8 DEF ImageHashing
<1>15. AcceptedImage'
  <2>1. check' = "ok" => ~hashAppended
    BY <1>7
  <2>. QED
    BY <2>1, <1>2, <1>4, <1>6, <1>9 DEF AcceptedImage
<1>. QED
  BY <1>10, <1>11, <1>12, <1>13, <1>14, <1>15 DEF ImageInv, ImageTyped

\* Reading the hash appended to the image.
LEMMA HashKeeps ==
  ASSUME ImageInv, ReadHash
  PROVE  ImageInv'
<1>1. ImageNumbers
  BY DEF ImageInv, ImageTyped
<1>2. /\ check = "hash" /\ cursor' = cursor + Trailer /\ check' \in {"ok", "invalid"}
      /\ UNCHANGED <<size, pos, remaining, segments, hashAppended, xorAccum, hashed, chipId>>
  BY DEF ReadHash, Answer
<1>3. pos = cursor /\ hashed = cursor
  BY <1>2 DEF ImageInv, ImageReading
<1>4. hashAppended /\ size = pos + Trailer /\ pos % Align = 0
  BY <1>2 DEF ImageInv, ImageHashing
<1>5. Trailer \in Nat
  BY Constants
<1>6. ImageNumbers'
  BY <1>1, <1>2, <1>5 DEF ImageNumbers
<1>7. ImageFlags'
  BY <1>2 DEF ImageInv, ImageTyped, ImageFlags, Answers
<1>8. FileSized'
  BY <1>2 DEF ImageInv, FileSized
<1>9. ImageReading' /\ ImageHashing'
  BY <1>2 DEF ImageReading, ImageHashing
<1>10. AcceptedImage'
  <2>1. cursor' = size' /\ pos' = hashed' /\ hashed' = size' - Trailer
    BY <1>1, <1>2, <1>3, <1>4, <1>5 DEF ImageNumbers
  <2>. QED
    BY <2>1, <1>2, <1>4 DEF AcceptedImage
<1>. QED
  BY <1>6, <1>7, <1>8, <1>9, <1>10 DEF ImageInv, ImageTyped

\* A failed read, or an image whose size is not right, is answered and changes nothing else.
LEMMA RefusalKeeps ==
  ASSUME ImageInv, NoRoomForHeader \/ WrongSize \/ ReadFailure
  PROVE  ImageInv'
<1>1. ReadFails("not read") \/ ReadFails("invalid")
  BY DEF NoRoomForHeader, WrongSize, ReadFailure, ReadFails
<1>. QED
  BY <1>1, AnswerKeeps DEF Answers

-----------------------------------------------------------------------------

\* Every step of a check keeps its invariant.
LEMMA ImageStep == ImageInv /\ [ImageNext]_imageVars => ImageInv'
<1>. SUFFICES ASSUME ImageInv, [ImageNext]_imageVars PROVE ImageInv'
  OBVIOUS
<1>1. CASE UNCHANGED imageVars
  BY <1>1 DEF ImageInv, ImageTyped, ImageNumbers, ImageFlags, FileSized, ImageReading, ImageHashing, AcceptedImage, imageVars, walked
<1>2. CASE ImageNext
  BY <1>2, InspectKeeps, HeaderKeeps, SegmentHeaderKeeps, FeedKeeps, NextSegmentKeeps, PaddingKeeps, HashKeeps,
     RefusalKeeps DEF ImageNext
<1>. QED
  BY <1>1, <1>2

\* So it always holds.
LEMMA InvariantHolds == ImageSpec => []ImageInv
BY ImageInitial, ImageStep, PTL DEF ImageSpec

\* inspect()'s locals keep their types, whatever the file says of its lengths.
THEOREM TypeCorrect == ImageSpec => []ImageTyped
<1>1. ImageInv => ImageTyped
  BY DEF ImageInv
<1>. QED
  BY <1>1, InvariantHolds, PTL

\* For a sum that wraps at any width: an accepted image has been read to its last byte, is
\* padded to a multiple of the alignment, and was hashed whole (SdUpdate.cpp:223-292).
THEOREM AcceptsWhole == ImageSpec => []ImageExact
<1>1. ImageInv => ImageExact
  BY DEF ImageInv, ImageReading, AcceptedImage, ImageExact
<1>. QED
  BY <1>1, InvariantHolds, PTL

\* An accepted image has at least the size of a header and fits the slot flash() erases
\* for it (SdUpdate.cpp:186-193).
THEOREM AcceptsFitting == ImageSpec => [](check = "ok" => MinBytes <= size /\ size <= Limit)
<1>1. ImageInv => (check = "ok" => MinBytes <= size /\ size <= Limit)
  BY DEF ImageInv, FileSized
<1>. QED
  BY <1>1, InvariantHolds, PTL

-----------------------------------------------------------------------------

\* ChapterTable: the chapters of a book, for every header and table.

\* What the file can say of a chapter and of the book, and the state of a reader of it.
Pages == [startPage : Int, endPage : Int]
Headers == [pageCount : Nat, chapterOffset : Nat, pageTableOffset : Nat, dataOffset : Nat]

ChapterTypes ==
  /\ bookState \in {"closed", "open", "reading", "chosen"}
  /\ header \in Headers /\ fileSize \in Nat /\ entry \in Nat /\ jump \in Int
  /\ chapters \in Seq(Pages)

\* Every chapter kept is a range of pages of the book.
Ranges ==
  /\ \A i \in DOMAIN chapters :
       chapters[i].startPage <= chapters[i].endPage /\ chapters[i].endPage < header.pageCount
  /\ jump < header.pageCount

\* What a book that is closed, or not asked for its chapters yet, has of them.
Unread ==
  /\ bookState = "closed" => header = NoHeader /\ ~chaptersLoaded
  /\ ~chaptersLoaded => chapters = <<>> /\ bookState # "reading"
  /\ bookState # "chosen" => jump = -1

\* While the entries are read: the table lies in the file.
InTable ==
  /\ bookState = "reading" => Fits /\ Len(chapters) <= entry
  /\ chaptersLoaded /\ bookState # "reading" => chaptersAvailable = (chapters # <<>>)

ChapterInv == ChapterTypes /\ Ranges /\ Unread /\ InTable

\* Whole entries end before what they are counted up to.
LEMMA WholeEntries ==
  ASSUME NEW n \in Nat, NEW width \in Nat \ {0}
  PROVE  n \div width \in Nat /\ (n \div width) * width <= n
OBVIOUS

\* The table that follows lies behind the chapters and in the file, and is the page table
\* if that does.
LEMMA NextTableIs ==
  ASSUME header \in Headers, fileSize \in Nat, Fits
  PROVE  /\ NextTable \in header.chapterOffset + 1..fileSize
         /\ header.pageTableOffset \in header.chapterOffset + 1..fileSize => NextTable = header.pageTableOffset
BY ChapterAssumption DEF Headers, Fits, NextTable

\* The table that ends before the next one ends in the file, at whole entries.
LEMMA ChapterInvSound == ChapterInv => ChaptersSound
<1>. SUFFICES ASSUME ChapterInv PROVE ChaptersSound
  OBVIOUS
<1>1. ASSUME bookState = "reading"
      PROVE  LET end == header.chapterOffset + ChapterCount * EntrySize IN
             /\ header.chapterOffset >= HeaderSize /\ end <= fileSize
             /\ header.pageTableOffset \in header.chapterOffset + 1..fileSize => end <= header.pageTableOffset
             /\ Len(chapters) <= entry
  <2>. DEFINE n == NextTable - header.chapterOffset
              end == header.chapterOffset + ChapterCount * EntrySize
  <2>1. header \in Headers /\ fileSize \in Nat /\ Fits /\ Len(chapters) <= entry
    BY <1>1 DEF ChapterInv, ChapterTypes, InTable
  <2>2. /\ NextTable \in header.chapterOffset + 1..fileSize
        /\ header.pageTableOffset \in header.chapterOffset + 1..fileSize => NextTable = header.pageTableOffset
    BY <2>1, NextTableIs
  <2>3. header.chapterOffset \in Nat /\ header.chapterOffset >= HeaderSize
    BY <2>1 DEF Headers, Fits
  <2>4. n \in Nat
    BY <2>2, <2>3
  <2>5. ChapterCount * EntrySize \in Nat /\ ChapterCount * EntrySize <= n
    BY <2>4, WholeEntries, ChapterAssumption DEF ChapterCount
  <2>6. end <= NextTable
    BY <2>2, <2>3, <2>5
  <2>. QED
    BY <2>1, <2>2, <2>3, <2>5, <2>6
<1>. QED
  BY <1>1 DEF ChapterInv, Ranges, InTable, ChaptersSound

\* An entry adds one range of pages of the book, or nothing.
LEMMA ChapterIs ==
  ASSUME header \in Headers, NEW begin \in Nat, NEW end \in Nat
  PROVE  \/ Chapter(begin, end) = <<>>
         \/ \E c \in Pages : /\ Chapter(begin, end) = <<c>>
                             /\ c.startPage <= c.endPage /\ c.endPage < header.pageCount
<1>. DEFINE final == IF ZeroBased(end) >= header.pageCount THEN header.pageCount - 1 ELSE ZeroBased(end)
            c == [startPage |-> ZeroBased(begin), endPage |-> final]
<1>1. ZeroBased(begin) \in Int /\ final \in Int /\ final < header.pageCount
  BY DEF Headers, ZeroBased
<1>2. CASE Chapter(begin, end) = <<>>
  BY <1>2
<1>3. CASE ~(ZeroBased(begin) >= header.pageCount \/ ZeroBased(begin) > final)
  <2>1. Chapter(begin, end) = <<c>>
    BY <1>3 DEF Chapter
  <2>2. c \in Pages /\ c.startPage <= c.endPage /\ c.endPage < header.pageCount
    BY <1>1, <1>3 DEF Pages
  <2>. QED
    BY <2>1, <2>2
<1>. QED
  BY <1>2, <1>3 DEF Chapter

\* An empty table is sound.
LEMMA ChapterInitial == ChapterInit => ChapterInv
<1>. SUFFICES ASSUME ChapterInit PROVE ChapterInv
  OBVIOUS
<1>1. ChapterTypes
  BY ChapterAssumption DEF ChapterInit, ChapterTypes, NoHeader, Headers
<1>2. Ranges
  BY DEF ChapterInit, Ranges, NoHeader
<1>3. Unread /\ InTable
  BY DEF ChapterInit, Unread, InTable
<1>. QED
  BY <1>1, <1>2, <1>3 DEF ChapterInv

\* One step per action: opening, the first entry, an entry that is kept or not, a choice.
LEMMA ChapterStep == ChapterInv /\ [ChapterNext]_chapterVars => ChapterInv'
<1>. SUFFICES ASSUME ChapterInv, [ChapterNext]_chapterVars PROVE ChapterInv'
  OBVIOUS
<1>. USE DEF ChapterInv
<1>1. CASE OpenBook
  <2>1. chapters = <<>> /\ jump = -1 /\ ~chaptersLoaded
    BY <1>1 DEF OpenBook, Unread
  <2>2. fileSize' \in Nat
    BY <1>1, ChapterAssumption DEF OpenBook
  <2>3. PICK flag \in BOOLEAN, seen \in BOOLEAN,
             h \in [pageCount : 0..MaxPages, chapterOffset : Offsets, pageTableOffset : Offsets, dataOffset : Offsets] :
       \/ /\ seen /\ h.pageCount # 0 /\ h.pageTableOffset # 0
          /\ bookState' = "open" /\ header' = h
          /\ chaptersAvailable' = (flag /\ h.pageTableOffset >= HeaderSize)
       \/ /\ bookState' = "closed" /\ header' = NoHeader
          /\ chaptersAvailable' = FALSE
    BY <1>1 DEF OpenBook
  <2>4. h \in Headers /\ NoHeader \in Headers
    BY ChapterAssumption DEF Headers, NoHeader, Offsets
  <2>5. header' \in Headers /\ bookState' \in {"open", "closed"}
    BY <2>3, <2>4
  <2>6. ChapterTypes'
    BY <1>1, <2>2, <2>5 DEF OpenBook, ChapterTypes
  <2>7. Ranges'
    BY <1>1, <2>1, <2>5 DEF OpenBook, Ranges, Headers
  <2>8. Unread' /\ InTable'
    BY <1>1, <2>1, <2>3, <2>5 DEF OpenBook, Unread, InTable
  <2>. QED
    BY <2>6, <2>7, <2>8
<1>2. CASE CloseBook
  <2>1. ChapterTypes'
    BY <1>2 DEF CloseBook, ChapterTypes, NoHeader, Headers
  <2>2. Ranges'
    BY <1>2 DEF CloseBook, Ranges, NoHeader
  <2>3. Unread' /\ InTable'
    BY <1>2 DEF CloseBook, Unread, InTable
  <2>. QED
    BY <2>1, <2>2, <2>3
<1>3. CASE ReadChapters
  <2>1. chapters = <<>>
    BY <1>3 DEF ReadChapters, Unread
  <2>2. ChapterTypes'
    BY <1>3 DEF ReadChapters, ChapterTypes
  <2>3. Ranges'
    BY <1>3 DEF ReadChapters, Ranges
  <2>4. Unread'
    BY <1>3 DEF ReadChapters, Unread
  <2>5. Len(chapters') = 0 /\ entry' \in Nat
    BY <1>3, <2>1, <2>2 DEF ReadChapters, ChapterTypes
  <2>6. bookState' = "reading" => Fits' /\ Len(chapters') <= entry'
    BY <1>3, <2>5 DEF ReadChapters, Fits
  <2>7. bookState' # "reading" => chaptersAvailable' = (chapters' # <<>>)
    BY <1>3, <2>1 DEF ReadChapters
  <2>. QED
    BY <2>2, <2>3, <2>4, <2>6, <2>7 DEF InTable
<1>4. CASE ReadEntry
  <2>1. PICK begin \in 0..MaxPages + 2, end \in 0..MaxPages + 2 : chapters' = chapters \o Chapter(begin, end)
    BY <1>4 DEF ReadEntry
  <2>2. begin \in Nat /\ end \in Nat /\ header \in Headers
    BY ChapterAssumption DEF ChapterTypes
  <2>3. \/ Chapter(begin, end) = <<>>
        \/ \E c \in Pages : /\ Chapter(begin, end) = <<c>>
                            /\ c.startPage <= c.endPage /\ c.endPage < header.pageCount
    BY <2>2, ChapterIs
  <2>4. chapters \in Seq(Pages) /\ Len(chapters) \in Nat
    BY DEF ChapterTypes
  <2>5. /\ chapters' \in Seq(Pages) /\ Len(chapters') <= Len(chapters) + 1
        /\ \A i \in DOMAIN chapters' :
             chapters'[i].startPage <= chapters'[i].endPage /\ chapters'[i].endPage < header.pageCount
    <3>1. CASE Chapter(begin, end) = <<>>
      BY <2>1, <2>4, <3>1 DEF Ranges
    <3>2. CASE \E c \in Pages : /\ Chapter(begin, end) = <<c>>
                                /\ c.startPage <= c.endPage /\ c.endPage < header.pageCount
      <4>1. PICK c \in Pages : /\ Chapter(begin, end) = <<c>>
                               /\ c.startPage <= c.endPage /\ c.endPage < header.pageCount
        BY <3>2
      <4>2. chapters' = chapters \o <<c>>
        BY <2>1, <4>1
      <4>3. chapters' \in Seq(Pages) /\ Len(chapters') = Len(chapters) + 1
        BY <2>4, <4>2
      <4>4. \A i \in 1..Len(chapters) + 1 : chapters'[i] = IF i <= Len(chapters) THEN chapters[i] ELSE c
        BY <2>4, <4>2
      <4>. QED
        BY <2>4, <4>1, <4>3, <4>4 DEF Ranges
    <3>. QED
      BY <2>3, <3>1, <3>2
  <2>6. ChapterTypes' /\ Ranges' /\ Unread'
    BY <1>4, <2>5 DEF ReadEntry, ChapterTypes, Ranges, Unread
  <2>7. InTable'
    BY <1>4, <2>4, <2>5, <2>6 DEF ReadEntry, InTable, Fits, ChapterTypes, Unread
  <2>. QED
    BY <2>6, <2>7
<1>5. CASE EndChapters
  <2>1. ChapterTypes' /\ Ranges' /\ Unread'
    BY <1>5 DEF EndChapters, ChapterTypes, Ranges, Unread
  <2>2. InTable'
    BY <1>5 DEF EndChapters, InTable
  <2>. QED
    BY <2>1, <2>2
<1>6. CASE ChooseChapter
  <2>1. PICK i \in DOMAIN chapters : jump' = chapters[i].startPage
    BY <1>6 DEF ChooseChapter
  <2>2. chapters[i] \in Pages
    BY DEF ChapterTypes
  <2>3. jump' \in Int /\ jump' < header.pageCount
    BY <2>1, <2>2 DEF Ranges, Pages, ChapterTypes, Headers
  <2>4. ChapterTypes' /\ Ranges' /\ Unread' /\ InTable'
    BY <1>6, <2>3 DEF ChooseChapter, ChapterTypes, Ranges, Unread, InTable
  <2>. QED
    BY <2>4
<1>7. CASE UNCHANGED chapterVars
  BY <1>7 DEF chapterVars, ChapterTypes, Ranges, Unread, InTable, Fits
<1>. QED
  BY <1>1, <1>2, <1>3, <1>4, <1>5, <1>6, <1>7 DEF ChapterNext

\* A book with any header, over any chapter table, gives only chapters that are ranges of its
\* pages: while the table is read its entries lie behind the header, in the file and before
\* the table that follows, no more chapters are kept than entries were read, and what a choice
\* jumps to is a page of the book.  (Book::loadChapters(), Xtch.cpp.)
THEOREM ChaptersAlwaysSound == ChapterSpec => []ChaptersSound
<1>1. ChapterSpec => []ChapterInv
  BY ChapterInitial, ChapterStep, PTL DEF ChapterSpec
<1>. QED
  BY <1>1, ChapterInvSound, PTL

-----------------------------------------------------------------------------

\* PageImage: a page as the panel is given it, for every screen and page size.

\* What a pass leaves on the panel, however it was painted.
Painted(op) == IF FullFrame THEN Blit(op) ELSE Pixels(op)

\* A page that is being painted was decoded, and fits the screen.
Fitting ==
  pass \in {"ink", "lsb", "msb", "rebuild", "drawn"} =>
    /\ screen \in Screens /\ page \in PageSizes
    /\ page[1] <= screen[1] /\ page[2] <= screen[2]
    /\ plane \in [1..2 -> [Stored(page) -> 0..1]]

\* What the panel has been given by now.
GivenSoFar ==
  /\ pass \in {"lsb", "msb", "rebuild", "drawn"} => base = Painted("ink")
  /\ pass \in {"msb", "rebuild", "drawn"} => lsb = Painted("lsb")
  /\ pass \in {"rebuild", "drawn"} => msb = Painted("msb")
  /\ pass = "drawn" => frame = Painted("ink")

PageInv == Fitting /\ GivenSoFar

\* A column's bytes have room for all of it.
LEMMA ColumnFits ==
  ASSUME NEW h \in Nat
  PROVE  ColBytes(h) * BitsPerByte \in Nat /\ h <= ColBytes(h) * BitsPerByte
<1>1. BitsPerByte \in Nat \ {0}
  BY PageImageAssumption
<1>2. \A n \in Nat, b \in Nat \ {0} : n \div b \in Nat /\ n < (n \div b) * b + b
  OBVIOUS
<1>. DEFINE n == h + BitsPerByte - 1
<1>3. n \in Nat
  BY <1>1
<1>4. n \div BitsPerByte \in Nat /\ n < (n \div BitsPerByte) * BitsPerByte + BitsPerByte
  BY <1>1, <1>2, <1>3
<1>5. (n \div BitsPerByte) * BitsPerByte \in Nat
  BY <1>1, <1>4
<1>. QED
  BY <1>1, <1>4, <1>5 DEF ColBytes

\* The sizes and offsets are numbers.
LEMMA PageNumbers ==
  ASSUME Fitting, pass \in {"ink", "lsb", "msb", "rebuild", "drawn"}
  PROVE  W \in Nat /\ H \in Nat /\ page[1] \in Nat /\ page[2] \in Nat /\ ox \in Int /\ oy \in Int
<1>1. W \in Nat /\ H \in Nat /\ page[1] \in Nat /\ page[2] \in Nat
  BY PageImageAssumption DEF Fitting, W, H
<1>2. \A n \in Int : n \div 2 \in Int
  OBVIOUS
<1>. QED
  BY <1>1, <1>2 DEF ox, oy

\* A pixel of the page has one of the four levels.
LEMMA PixelLevel ==
  ASSUME Fitting, pass = "drawn",
         NEW x \in 0..page[1] - 1, NEW y \in 0..page[2] - 1
  PROVE  /\ <<x, y>> \in Stored(page)
         /\ plane[1][<<x, y>>] \in {0, 1} /\ plane[2][<<x, y>>] \in {0, 1}
<1>1. page[1] \in Nat /\ page[2] \in Nat
  BY PageNumbers
<1>2. ColBytes(page[2]) * BitsPerByte \in Nat /\ page[2] <= ColBytes(page[2]) * BitsPerByte
  BY <1>1, ColumnFits
<1>3. y \in 0..ColBytes(page[2]) * BitsPerByte - 1
  BY <1>1, <1>2
<1>4. <<x, y>> \in Stored(page)
  BY <1>3 DEF Stored
<1>5. plane \in [1..2 -> [Stored(page) -> 0..1]]
  BY DEF Fitting
<1>6. plane[1][<<x, y>>] \in 0..1 /\ plane[2][<<x, y>>] \in 0..1
  BY <1>4, <1>5
<1>. QED
  BY <1>4, <1>6

\* The three frames tell a level in a cell.
Tells(level, cell) ==
  /\ Painted("ink")[cell] = IF level = 0 THEN 1 ELSE 0
  /\ Painted("lsb")[cell] = IF level = 1 THEN 1 ELSE 0
  /\ Painted("msb")[cell] = IF level \in {1, 2} THEN 1 ELSE 0

\* The two planes tell each of the four grays.
LEMMA TellsGray ==
  ASSUME NEW level \in 0..3, NEW cell, Tells(level, cell)
  PROVE  <<Painted("ink")[cell], Painted("lsb")[cell], Painted("msb")[cell]>> = Gray(level)
<1>1. level = 0 \/ level = 1 \/ level = 2 \/ level = 3
  OBVIOUS
<1>2. Gray(0) = <<1, 0, 0>> /\ Gray(1) = <<0, 1, 1>> /\ Gray(2) = <<0, 0, 1>> /\ Gray(3) = <<0, 0, 0>>
  BY DEF Gray
<1>. QED
  BY <1>1, <1>2 DEF Tells

\* Both ways of painting give a pixel what its level asks for.
LEMMA PaintTrue ==
  ASSUME Fitting, pass = "drawn", NEW x \in 0..W - 1, NEW y \in 0..H - 1
  PROVE  <<Painted("ink")[<<W - 1 - x, y>>], Painted("lsb")[<<W - 1 - x, y>>], Painted("msb")[<<W - 1 - x, y>>]>>
           = Gray(LevelAt(x, y))
<1>. DEFINE cell == <<W - 1 - x, y>>
<1>1. W \in Nat /\ H \in Nat /\ page[1] \in Nat /\ page[2] \in Nat /\ ox \in Int /\ oy \in Int
  BY PageNumbers
<1>2. cell \in Panel
  BY <1>1 DEF Panel
<1>3. CASE FullFrame
  <2>1. ox = 0 /\ oy = 0 /\ page[1] = W /\ page[2] = H
    BY <1>3 DEF FullFrame, W, H
  <2>2. LevelAt(x, y) = Level(cell)
    BY <1>1, <2>1 DEF LevelAt
  <2>3. W - 1 - x \in 0..page[1] - 1 /\ y \in 0..page[2] - 1
    BY <1>1, <2>1
  <2>. DEFINE p1 == plane[1][cell]
              p2 == plane[2][cell]
  <2>4. p1 \in {0, 1} /\ p2 \in {0, 1}
    BY <2>3, PixelLevel
  <2>5. /\ Painted("ink")[cell] = 1 - (p1 + p2 - p1 * p2)
        /\ Painted("lsb")[cell] = (1 - p1) * p2
        /\ Painted("msb")[cell] = (p1 + p2) % 2
    BY <1>2, <1>3 DEF Painted, Blit
  <2>6. Level(cell) = 2 * p1 + p2
    BY DEF Level
  <2>7. \E level \in 0..3 : LevelAt(x, y) = level /\ Tells(level, cell)
    <3>. HIDE DEF cell, p1, p2
    <3>1. LevelAt(x, y) = 2 * p1 + p2
      BY <2>2, <2>6
    <3>2. CASE p1 = 0 /\ p2 = 0
      BY <2>5, <3>1, <3>2 DEF Tells
    <3>3. CASE p1 = 0 /\ p2 = 1
      BY <2>5, <3>1, <3>3 DEF Tells
    <3>4. CASE p1 = 1 /\ p2 = 0
      BY <2>5, <3>1, <3>4 DEF Tells
    <3>5. CASE p1 = 1 /\ p2 = 1
      BY <2>5, <3>1, <3>5 DEF Tells
    <3>. QED
      BY <2>4, <3>2, <3>3, <3>4, <3>5
  <2>. QED
    BY <2>7, TellsGray
<1>4. CASE ~FullFrame
  <2>. DEFINE from == PixelCell(cell)
              inside == from[1] \in 0..page[1] - 1 /\ from[2] \in 0..page[2] - 1
  <2>1. from = <<page[1] - 1 - (x - ox), y - oy>>
    BY <1>1 DEF PixelCell
  <2>2. inside <=> x - ox \in 0..page[1] - 1 /\ y - oy \in 0..page[2] - 1
    BY <1>1, <2>1
  <2>3. LevelAt(x, y) = IF inside THEN Level(from) ELSE 0
    BY <2>1, <2>2 DEF LevelAt
  <2>4. inside => plane[1][from] \in {0, 1} /\ plane[2][from] \in {0, 1}
    BY <2>1, PixelLevel
  <2>5. inside => Level(from) \in 0..3
    BY <2>4 DEF Level
  <2>6. /\ Painted("ink")[cell] = IF inside /\ Level(from) \in 1..3 THEN 0 ELSE 1
        /\ Painted("lsb")[cell] = IF inside /\ Level(from) \in {1} THEN 1 ELSE 0
        /\ Painted("msb")[cell] = IF inside /\ Level(from) \in {1, 2} THEN 1 ELSE 0
    BY <1>2, <1>4 DEF Painted, Pixels, Kept
  <2>7. \E level \in 0..3 : LevelAt(x, y) = level /\ Tells(level, cell)
    <3>. HIDE DEF cell, from, inside
    <3>1. CASE ~inside
      BY <2>3, <2>6, <3>1 DEF Tells
    <3>2. CASE inside
      BY <2>3, <2>5, <2>6, <3>2 DEF Tells
    <3>. QED
      BY <3>1, <3>2
  <2>. QED
    BY <2>7, TellsGray
<1>. QED
  BY <1>3, <1>4

\* Three planes painted of the whole page give every pixel its level.
LEMMA PageInvAgrees == PageInv => PaintsAgree
<1>. SUFFICES ASSUME PageInv, pass = "drawn"
              PROVE  /\ frame = base
                     /\ \A x \in 0..W - 1, y \in 0..H - 1 :
                          <<base[<<W - 1 - x, y>>], lsb[<<W - 1 - x, y>>], msb[<<W - 1 - x, y>>]>> = Gray(LevelAt(x, y))
  BY DEF PaintsAgree
<1>1. base = Painted("ink") /\ lsb = Painted("lsb") /\ msb = Painted("msb") /\ frame = Painted("ink")
  BY DEF PageInv, GivenSoFar
<1>. QED
  BY <1>1, PaintTrue DEF PageInv

\* Before a page is drawn, no plane is claimed to be.
LEMMA PageInitial == PageInit => PageInv
BY DEF PageInit, PageInv, Fitting, GivenSoFar

\* Every step of drawing a page keeps its invariant.
LEMMA PageStep == PageInv /\ [PageNext]_pageVars => PageInv'
<1>. SUFFICES ASSUME PageInv, [PageNext]_pageVars PROVE PageInv'
  OBVIOUS
<1>. USE DEF PageInv
<1>1. ASSUME NEW s \in Screens, NEW p \in PageSizes, Decode(s, p) PROVE PageInv'
  BY <1>1 DEF Decode, Fitting, GivenSoFar
<1>2. ASSUME NEW s \in Screens, NEW p \in PageSizes, TooLarge(s, p) PROVE PageInv'
  BY <1>2 DEF TooLarge, Fitting, GivenSoFar
<1>3. CASE PaintInk \/ PaintLsb \/ PaintMsb \/ RebuildInk \/ UNCHANGED pageVars
  <2>1. UNCHANGED <<screen, page, plane>>
    BY <1>3 DEF PaintInk, PaintLsb, PaintMsb, RebuildInk, pageVars
  <2>2. \A op \in {"ink", "lsb", "msb"} : Painted(op)' = Painted(op)
    BY <2>1 DEF Painted, FullFrame, Blit, Pixels, Panel, ox, oy, W, H, Level, PixelCell, Kept
  <2>3. Fitting'
    BY <1>3, <2>1 DEF PaintInk, PaintLsb, PaintMsb, RebuildInk, pageVars, Fitting
  <2>4. \A op : Paint(op) => frame' = Painted(op)
    BY DEF Paint, Painted
  <2>5. GivenSoFar'
    <3>. HIDE DEF PageInv
    <3>1. GivenSoFar
      BY DEF PageInv
    <3>2. CASE PaintInk
      BY <2>2, <2>4, <3>1, <3>2 DEF PaintInk, GivenSoFar
    <3>3. CASE PaintLsb
      BY <2>2, <2>4, <3>1, <3>3 DEF PaintLsb, GivenSoFar
    <3>4. CASE PaintMsb
      BY <2>2, <2>4, <3>1, <3>4 DEF PaintMsb, GivenSoFar
    <3>5. CASE RebuildInk
      BY <2>2, <2>4, <3>1, <3>5 DEF RebuildInk, GivenSoFar, imageFrames
    <3>6. CASE UNCHANGED pageVars
      BY <2>2, <3>1, <3>6 DEF pageVars, GivenSoFar, imageFrames
    <3>. QED
      BY <1>3, <3>2, <3>3, <3>4, <3>5, <3>6
  <2>. QED
    BY <2>3, <2>5
<1>. QED
  BY <1>1, <1>2, <1>3 DEF PageNext, Drawn

\* On every screen, for every page that fits it, the picture blitted byte by byte is the one
\* painted pixel by pixel, in every pass, and what the frame holds when the page is done is
\* the ink the first pass sent.  (ReaderActivity::renderPage().)
THEOREM PaintingsAgree == PageSpec => []PaintsAgree
<1>1. PageSpec => []PageInv
  BY PageInitial, PageStep, PTL DEF PageSpec
<1>. QED
  BY <1>1, PageInvAgrees, PTL

-----------------------------------------------------------------------------

\* SettingsStore: settings over saves, crashes and starts.

\* A struct that the code can have in memory.
Struct(light, refresh, night, tilt, b1, b2, deep) ==
  [light |-> light, refresh |-> refresh, night |-> night, tilt |-> tilt, book |-> <<b1, b2>>, deep |-> deep]
InRange(s) ==
  \E light \in LightMenu, deep \in DeepMenu : \E refresh, night, tilt, b1, b2 :
    s = Struct(light, refresh, night, tilt, b1, b2, deep)

\* A file has four parts, or a beginning of them.
Four(parts) == \E a, b, c, e : parts = <<a, b, c, e>>
Cut(parts, n) == SubSeq(parts, 1, n)

\* The file is the beginning of what was saved last.
OneSave == \E parts : Four(parts) /\ \E m \in 0..4 : \E n \in 0..m : saved = Cut(parts, m) /\ file = Cut(parts, n)

\* While the file is written.
SettingsWritten ==
  /\ saving \in {"no", "open", "write"}
  /\ saving = "write" => saved = Parts(settings) /\ written \in 0..4 /\ file = Cut(saved, written)

\* What is known of the file and of the screen.
InStep ==
  /\ complete => saving = "no" /\ Loaded(file) = settings
  /\ onScreen = "settings" /\ ~toDraw => told = Rows(settings)

SettingsInv == InRange(settings) /\ OneSave /\ SettingsWritten /\ InStep

\* The beginnings of four parts.
LEMMA Cuts ==
  ASSUME NEW parts, Four(parts)
  PROVE  /\ \A n \in 0..4 : /\ Cut(parts, n) \in Seq({parts[1], parts[2], parts[3], parts[4]})
                            /\ Len(Cut(parts, n)) = n
                            /\ \A i \in 1..n : Cut(parts, n)[i] = parts[i]
         /\ Cut(parts, 4) = parts
         /\ Cut(parts, 0) = <<>>
         /\ parts \in Seq({parts[1], parts[2], parts[3], parts[4]}) /\ Len(parts) = 4
<1>. DEFINE S == {parts[1], parts[2], parts[3], parts[4]}
<1>1. PICK a, b, c, e : parts = <<a, b, c, e>>
  BY DEF Four
<1>2. parts \in Seq(S) /\ Len(parts) = 4
  BY <1>1
<1>3. \A n \in 0..4 : /\ Cut(parts, n) \in Seq(S)
                      /\ Len(Cut(parts, n)) = n
                      /\ \A i \in 1..n : Cut(parts, n)[i] = parts[i]
  BY <1>2 DEF Cut
<1>4. Cut(parts, 4) = parts
  <2>1. Cut(parts, 4) \in Seq(S) /\ Len(Cut(parts, 4)) = Len(parts)
    BY <1>2, <1>3
  <2>2. \A i \in 1..Len(parts) : Cut(parts, 4)[i] = parts[i]
    BY <1>2, <1>3
  <2>. QED
    BY <1>2, <2>1, <2>2, SeqEqual
<1>5. Cut(parts, 0) = <<>>
  BY <1>2 DEF Cut
<1>. QED
  BY <1>2, <1>3, <1>4, <1>5

\* A beginning of a beginning is one.
LEMMA CutCut ==
  ASSUME NEW parts, Four(parts), NEW m \in 0..4, NEW n \in 0..m
  PROVE  Cut(Cut(parts, m), n) = Cut(parts, n) /\ IsPrefix(Cut(parts, n), Cut(parts, m))
<1>. DEFINE S == {parts[1], parts[2], parts[3], parts[4]}
            p == Cut(parts, m)
            q == Cut(parts, n)
<1>1. /\ p \in Seq(S) /\ Len(p) = m /\ \A i \in 1..m : p[i] = parts[i]
      /\ q \in Seq(S) /\ Len(q) = n /\ \A i \in 1..n : q[i] = parts[i]
  <2>1. m \in 0..4 /\ n \in 0..4
    OBVIOUS
  <2>. QED
    BY <2>1, Cuts
<1>. HIDE DEF p, q
<1>2. Cut(p, n) = q
  <2>1. Cut(p, n) \in Seq(S) /\ Len(Cut(p, n)) = n /\ \A i \in 1..n : Cut(p, n)[i] = p[i]
    BY <1>1 DEF Cut
  <2>. QED
    BY <1>1, <2>1
<1>3. IsPrefix(q, p)
  <2>1. SubSeq(q, 1, Len(q)) = q
    BY <1>1
  <2>. QED
    BY <1>1, <1>2, <2>1 DEF IsPrefix, Cut
<1>. QED
  BY <1>2, <1>3 DEF p, q

\* What is loaded is in range, whatever is in the file.
LEMMA LoadedInRange == ASSUME NEW parts PROVE InRange(Loaded(parts)) /\ InRange(Default)
<1>1. InRange(Default)
  <2>1. Default = Struct(60, 5, FALSE, FALSE, 0, 0, 0) /\ 60 \in LightMenu /\ 0 \in DeepMenu
    BY DEF Default, Struct, NoBook, LightMenu, DeepMenu
  <2>. QED
    BY <2>1 DEF InRange
<1>2. \A light, refresh, night, tilt, b1, b2, deep : InRange(Sanitised(Struct(light, refresh, night, tilt, b1, b2, deep)))
  <2>. SUFFICES ASSUME NEW light, NEW refresh, NEW night, NEW tilt, NEW b1, NEW b2, NEW deep
                PROVE  InRange(Sanitised(Struct(light, refresh, night, tilt, b1, b2, deep)))
    OBVIOUS
  <2>. DEFINE l == IF light \in LightMenu THEN light ELSE 60
              dp == IF deep \in DeepMenu THEN deep ELSE 10
  <2>1. Sanitised(Struct(light, refresh, night, tilt, b1, b2, deep)) = Struct(l, refresh, night, tilt, b1, b2, dp)
    <3>. DEFINE old == Struct(light, refresh, night, tilt, b1, b2, deep)
    <3>1. Sanitised(old) = [old EXCEPT !.light = l, !.deep = dp]
      BY DEF Sanitised, Struct
    <3>. QED
      BY <3>1 DEF Struct
  <2>2. l \in LightMenu /\ dp \in DeepMenu
    BY DEF LightMenu, DeepMenu
  <2>. QED
    BY <2>1, <2>2 DEF InRange
<1>3. \E light, refresh, night, tilt, b1, b2, deep : ReadInto(parts) = Struct(light, refresh, night, tilt, b1, b2, deep)
  BY DEF ReadInto, Struct
<1>. QED
  BY <1>1, <1>2, <1>3 DEF Loaded

\* Settings in range come back as they were saved.
LEMMA RoundTrip ==
  ASSUME NEW s, InRange(s)
  PROVE  Four(Parts(s)) /\ Loaded(Parts(s)) = s
<1>1. PICK light \in LightMenu, deep \in DeepMenu : \E refresh, night, tilt, b1, b2 :
        s = Struct(light, refresh, night, tilt, b1, b2, deep)
  BY DEF InRange
<1>2. PICK refresh, night, tilt, b1, b2 : s = Struct(light, refresh, night, tilt, b1, b2, deep)
  BY <1>1
<1>. DEFINE head == [version |-> VERSION, light |-> light, refresh |-> refresh, night |-> night, tilt |-> tilt]
<1>3. Parts(s) = <<head, b1, b2, deep>>
  BY <1>2 DEF Parts, Struct
<1>4. Accepted(Parts(s))
  BY <1>3 DEF Accepted, VERSION, MinVersion
<1>5. ReadInto(Parts(s)) = s
  BY <1>2, <1>3 DEF ReadInto, PartAt, Struct, VERSION
<1>6. Sanitised(s) = s
  BY <1>2 DEF Sanitised, Struct
<1>. QED
  BY <1>3, <1>4, <1>5, <1>6 DEF Loaded, Four

\* The invariant says what a restart loads and what the rows of the screen told.
LEMMA SettingsInvKeeps == SettingsInv => RestartKeeps
<1>. SUFFICES ASSUME SettingsInv PROVE RestartKeeps
  OBVIOUS
<1>1. IsPrefix(file, saved)
  BY CutCut DEF SettingsInv, OneSave
<1>2. complete => Loaded(file) = settings
  BY DEF SettingsInv, InStep
<1>3. Ready("settings") => told = Rows(settings)
  BY DEF SettingsInv, InStep, Ready
<1>. QED
  BY <1>1, <1>2, <1>3 DEF RestartKeeps

\* At first the card has what was there before.
LEMMA SettingsInitial == SettingsInit => SettingsInv
<1>. SUFFICES ASSUME SettingsInit PROVE SettingsInv
  OBVIOUS
<1>1. InRange(settings)
  BY LoadedInRange DEF SettingsInit
<1>2. OneSave
  <2>1. PICK head \in ForeignHeads, deep \in {0, 7}, book \in Books, length \in 0..4 :
          file = SubSeq(<<head, book[1], book[2], deep>>, 1, length)
    BY DEF SettingsInit
  <2>. DEFINE parts == <<head, book[1], book[2], deep>>
  <2>2. Four(parts) /\ file = Cut(parts, length) /\ saved = Cut(parts, length)
    BY <2>1 DEF Four, Cut, SettingsInit
  <2>. QED
    BY <2>2 DEF OneSave
<1>3. SettingsWritten /\ InStep
  BY DEF SettingsInit, SettingsWritten, InStep
<1>. QED
  BY <1>1, <1>2, <1>3 DEF SettingsInv

\* Confirm leaves the menus in no row.
LEMMA BumpedInRange == ASSUME InRange(settings) PROVE InRange(Bumped)
<1>1. PICK light \in LightMenu, deep \in DeepMenu : \E refresh, night, tilt, b1, b2 :
        settings = Struct(light, refresh, night, tilt, b1, b2, deep)
  BY DEF InRange
<1>2. PICK refresh, night, tilt, b1, b2 : settings = Struct(light, refresh, night, tilt, b1, b2, deep)
  BY <1>1
<1>3. NextLight(light) \in LightMenu /\ NextDeep(deep) \in DeepMenu
  BY DEF NextLight, NextDeep, LightMenu, DeepMenu
<1>4. CASE index = 0
  <2>1. Bumped = Struct(NextLight(light), refresh, night, tilt, b1, b2, deep)
    BY <1>2, <1>4 DEF Bumped, Struct
  <2>. QED
    BY <2>1, <1>3 DEF InRange
<1>5. CASE index = 1
  <2>1. Bumped = Struct(light, refresh, night, tilt, b1, b2, NextDeep(deep))
    BY <1>2, <1>5 DEF Bumped, Struct
  <2>. QED
    BY <2>1, <1>3 DEF InRange
<1>6. CASE index = 2
  <2>1. Bumped = Struct(light, NextRefresh(refresh), night, tilt, b1, b2, deep)
    BY <1>2, <1>6 DEF Bumped, Struct
  <2>. QED
    BY <2>1 DEF InRange
<1>7. CASE index = 3
  <2>1. Bumped = Struct(light, refresh, ~night, tilt, b1, b2, deep)
    BY <1>2, <1>7 DEF Bumped, Struct
  <2>. QED
    BY <2>1 DEF InRange
<1>8. CASE index \notin {0, 1, 2, 3}
  <2>1. Bumped = Struct(light, refresh, night, ~tilt, b1, b2, deep)
    BY <1>2, <1>8 DEF Bumped, Struct
  <2>. QED
    BY <2>1 DEF InRange
<1>. QED
  BY <1>4, <1>5, <1>6, <1>7, <1>8

\* A save opens the file, and every part it writes follows those in it.
LEMMA SaveStep ==
  ASSUME SettingsInv, SaveOpen \/ SaveWrite \/ SaveDone
  PROVE  SettingsInv'
<1>. DEFINE parts == Parts(settings)
<1>1. InRange(settings) /\ settings' = settings
  BY DEF SettingsInv, SaveOpen, SaveWrite, SaveDone, memory
<1>2. Four(parts) /\ Loaded(parts) = settings
  BY <1>1, RoundTrip
<1>3. Cut(parts, 0) = <<>> /\ Cut(parts, 4) = parts /\ Len(parts) = 4
  BY <1>2, Cuts
<1>4. onScreen' = onScreen /\ toDraw' = toDraw /\ told' = told /\ Rows(settings)' = Rows(settings)
  <2>1. onScreen' = onScreen /\ toDraw' = toDraw /\ told' = told /\ index' = index /\ hasTilt' = hasTilt
    BY DEF SaveOpen, SaveWrite, SaveDone, panel
  <2>2. Rows(settings)' = Rows(settings)
    BY <1>1, <2>1 DEF Rows, Labels, RefreshLabel, ItemCount
  <2>. QED
    BY <2>1, <2>2
<1>5. CASE SaveOpen
  <2>1. CASE saving' = "write" /\ file' = Opened(file) /\ saved' = Parts(settings)
    <3>1. saved' = Cut(parts, 4) /\ file' = Cut(parts, 0)
      BY <2>1, <1>3 DEF Opened
    <3>2. OneSave'
      BY <3>1, <1>2 DEF OneSave
    <3>3. file' = Cut(saved', 0)
      BY <3>1, <1>3
    <3>4. SettingsWritten'
      BY <1>1, <1>3, <1>5, <2>1, <3>3 DEF SettingsWritten, SaveOpen, Parts
    <3>5. InStep'
      BY <1>4, <1>5 DEF SettingsInv, InStep, SaveOpen
    <3>. QED
      BY <1>1, <3>2, <3>4, <3>5 DEF SettingsInv
  <2>2. CASE saving' = "no" /\ UNCHANGED <<file, saved>>
    <3>1. OneSave' /\ SettingsWritten'
      BY <2>2 DEF SettingsInv, OneSave, SettingsWritten
    <3>2. InStep'
      BY <1>4, <1>5 DEF SettingsInv, InStep, SaveOpen
    <3>. QED
      BY <1>1, <3>1, <3>2 DEF SettingsInv
  <2>. QED
    BY <1>5, <2>1, <2>2 DEF SaveOpen
<1>6. ASSUME saving = "write"
      PROVE  saved = parts /\ written \in 0..4 /\ file = Cut(parts, written) /\ ~complete
  BY <1>6 DEF SettingsInv, SettingsWritten, InStep
<1>7. CASE SaveWrite
  <2>1. saved = parts /\ written \in 0..4 /\ file = Cut(parts, written) /\ ~complete /\ saving = "write"
    BY <1>6, <1>7 DEF SaveWrite
  <2>2. written \in 0..3 /\ written + 1 \in 0..4 /\ 4 \in 0..4
    BY <2>1, <1>3, <1>7 DEF SaveWrite
  <2>3. complete' = complete /\ saved' = saved /\ InStep'
    BY <1>4, <1>7, <2>1 DEF SaveWrite, InStep, SettingsInv
  <2>4. CASE /\ written' = written + 1 /\ UNCHANGED saving
             /\ file' = SubSeq(saved, 1, written + 1) \o SubSeq(file, written + 2, Len(file))
    <3>. DEFINE S == {parts[1], parts[2], parts[3], parts[4]}
    <3>1. file \in Seq(S) /\ Len(file) = written /\ Cut(parts, written + 1) \in Seq(S)
      <4>1. written \in 0..4
        BY <2>1
      <4>. QED
        BY <1>2, <2>1, <2>2, <4>1, Cuts
    <3>2. SubSeq(file, written + 2, Len(file)) = <<>>
      BY <3>1, <2>2, SubSeqEmpty
    <3>3. Cut(parts, written + 1) \o <<>> = Cut(parts, written + 1)
      BY <3>1, ConcatEmptySeq
    <3>4. file' = Cut(parts, written')
      BY <2>1, <2>4, <3>2, <3>3 DEF Cut
    <3>5. saved' = Cut(parts, 4)
      BY <1>3, <2>1, <2>3
    <3>6. OneSave'
      BY <1>2, <2>2, <2>4, <3>4, <3>5 DEF OneSave
    <3>7. SettingsWritten'
      BY <1>1, <2>1, <2>2, <2>3, <2>4, <3>4 DEF SettingsWritten, Parts
    <3>. QED
      BY <1>1, <2>3, <3>6, <3>7 DEF SettingsInv
  <2>5. CASE saving' = "no" /\ UNCHANGED <<file, written>>
    <3>1. OneSave' /\ SettingsWritten'
      BY <2>3, <2>5 DEF SettingsInv, OneSave, SettingsWritten
    <3>. QED
      BY <1>1, <2>3, <3>1 DEF SettingsInv
  <2>. QED
    BY <1>7, <2>4, <2>5 DEF SaveWrite
<1>8. CASE SaveDone
  <2>1. saved = parts /\ written = 4 /\ file = parts
    BY <1>3, <1>6, <1>8 DEF SaveDone
  <2>2. file' = file /\ saved' = saved /\ saving' = "no"
    BY <1>8 DEF SaveDone
  <2>3. OneSave' /\ SettingsWritten'
    BY <2>2 DEF SettingsInv, OneSave, SettingsWritten
  <2>4. Loaded(file') = settings'
    BY <1>1, <1>2, <2>1, <2>2
  <2>5. InStep'
    BY <1>4, <2>2, <2>4 DEF SettingsInv, InStep
  <2>. QED
    BY <1>1, <2>3, <2>5 DEF SettingsInv
<1>. QED
  BY <1>5, <1>7, <1>8

\* Every step of the settings, a restart too, keeps their invariant.
LEMMA SettingsStep == SettingsInv /\ [SettingsNext]_settingsVars => SettingsInv'
<1>. SUFFICES ASSUME SettingsInv, [SettingsNext]_settingsVars PROVE SettingsInv'
  OBVIOUS
<1>1. CASE Start
  <2>1. PICK readable \in BOOLEAN : /\ settings' = IF readable THEN Loaded(file) ELSE Default
                                   /\ complete' = readable /\ saving' = "no"
    BY <1>1 DEF Start
  <2>2. onScreen' # "settings"
    BY <1>1 DEF Start, FirstScreen
  <2>3. InRange(settings')
    BY <2>1, LoadedInRange
  <2>4. OneSave' /\ file' = file
    BY <1>1 DEF Start, SettingsInv, OneSave
  <2>5. SettingsWritten' /\ InStep'
    BY <2>1, <2>2, <2>4 DEF SettingsWritten, InStep
  <2>. QED
    BY <2>3, <2>4, <2>5 DEF SettingsInv
<1>2. CASE StartWithoutCard \/ TurnOff
  <2>1. settings' = Default /\ ~complete' /\ saving' = "no" /\ onScreen' # "settings"
    BY <1>2 DEF StartWithoutCard, TurnOff
  <2>2. InRange(settings')
    BY <2>1, LoadedInRange
  <2>3. OneSave'
    BY <1>2 DEF StartWithoutCard, TurnOff, SettingsInv, OneSave
  <2>4. SettingsWritten' /\ InStep'
    BY <2>1 DEF SettingsWritten, InStep
  <2>. QED
    BY <2>2, <2>3, <2>4 DEF SettingsInv
<1>3. CASE SaveOpen \/ SaveWrite \/ SaveDone
  BY <1>3, SaveStep
<1>4. CASE GoToSettings \/ LeaveReader \/ MoveIndex \/ LeaveFirmware
  <2>1. settings' = settings /\ file' = file /\ saved' = saved /\ complete' = complete /\ saving' = saving /\ saving = "no"
    BY <1>4 DEF GoToSettings, LeaveReader, MoveIndex, LeaveFirmware, memory, card, Ready
  <2>2. onScreen' # "settings" \/ toDraw'
    BY <1>4 DEF GoToSettings, LeaveReader, MoveIndex, LeaveFirmware
  <2>. QED
    BY <2>1, <2>2 DEF SettingsInv, OneSave, SettingsWritten, InStep
<1>5. CASE Confirm \/ LeaveSettings \/ \E book \in Books : GoToReader(book)
  <2>1. /\ file' = file /\ saved' = saved /\ ~complete' /\ saving' = "open"
    BY <1>5 DEF Confirm, LeaveSettings, GoToReader, Change
  <2>a. onScreen' = "settings" /\ ~toDraw' => told' = Rows(settings)'
    <3>1. CASE LeaveSettings /\ UNCHANGED <<onScreen, told>>
      <4>1. /\ onScreen' = onScreen /\ told' = told /\ toDraw' = toDraw
            /\ settings' = settings /\ Rows(settings)' = Rows(settings)
        BY <3>1 DEF LeaveSettings, Change, Rows, Labels, RefreshLabel, ItemCount
      <4>. QED
        BY <4>1 DEF SettingsInv, InStep
    <3>2. CASE onScreen' # "settings" \/ toDraw'
      BY <3>2
    <3>. QED
      BY <1>5, <3>1, <3>2 DEF Confirm, LeaveSettings, GoToReader
  <2>2. InRange(settings')
    <3>1. CASE Confirm
      BY <3>1, BumpedInRange DEF Confirm, Change, SettingsInv
    <3>2. CASE LeaveSettings
      BY <3>2 DEF LeaveSettings, Change, SettingsInv
    <3>3. CASE \E book \in Books : GoToReader(book)
      <4>1. PICK book \in Books : settings' = [settings EXCEPT !.book = book]
        BY <3>3 DEF GoToReader, Change
      <4>2. PICK light \in LightMenu, deep \in DeepMenu : \E refresh, night, tilt, b1, b2 :
              settings = Struct(light, refresh, night, tilt, b1, b2, deep)
        BY DEF SettingsInv, InRange
      <4>3. PICK refresh, night, tilt, b1, b2 : settings = Struct(light, refresh, night, tilt, b1, b2, deep)
        BY <4>2
      <4>4. book = <<book[1], book[2]>>
        BY StoreAssumption
      <4>5. settings' = Struct(light, refresh, night, tilt, book[1], book[2], deep)
        BY <4>1, <4>3, <4>4 DEF Struct
      <4>. QED
        BY <4>5 DEF InRange
    <3>. QED
      BY <1>5, <3>1, <3>2, <3>3
  <2>3. OneSave'
    BY <2>1 DEF SettingsInv, OneSave
  <2>4. SettingsWritten' /\ InStep'
    BY <2>1, <2>a DEF SettingsWritten, InStep
  <2>. QED
    BY <2>2, <2>3, <2>4 DEF SettingsInv
<1>6. CASE DrawSettings
  <2>1. /\ settings' = settings /\ file' = file /\ saved' = saved /\ complete' = complete
        /\ saving' = saving /\ saving = "no"
        /\ told' = Rows(settings) /\ Rows(settings)' = Rows(settings)
    BY <1>6 DEF DrawSettings, memory, card, Rows, Labels, RefreshLabel, ItemCount
  <2>. QED
    BY <2>1 DEF SettingsInv, OneSave, SettingsWritten, InStep
<1>7. CASE UNCHANGED settingsVars
  <2>1. /\ settings' = settings /\ file' = file /\ saved' = saved /\ complete' = complete
        /\ saving' = saving /\ written' = written /\ onScreen' = onScreen /\ toDraw' = toDraw
        /\ told' = told /\ Rows(settings)' = Rows(settings)
    BY <1>7 DEF settingsVars, memory, card, panel, Rows, Labels, RefreshLabel, ItemCount
  <2>2. InRange(settings') /\ OneSave' /\ InStep'
    BY <2>1 DEF SettingsInv, OneSave, InStep
  <2>3. SettingsWritten'
    BY <2>1 DEF SettingsInv, SettingsWritten, Parts, Cut
  <2>. QED
    BY <2>2, <2>3 DEF SettingsInv
<1>. QED
  BY <1>1, <1>2, <1>3, <1>4, <1>5, <1>6, <1>7 DEF SettingsNext

\* However often the device crashes while settings are written, what a start loads from the
\* beginning of the file that is left is what was set where the file has it and the default
\* where it does not, and what was set is on screen and in the file once a save is through.
\* (SettingsStore::load(), save(); SettingsActivity.)
THEOREM RestartsKeep == SettingsSpec => []RestartKeeps
<1>1. SettingsSpec => []SettingsInv
  BY SettingsInitial, SettingsStep, PTL DEF SettingsSpec
<1>. QED
  BY <1>1, SettingsInvKeeps, PTL

-----------------------------------------------------------------------------

\* Editors: the keyboard and the page jump, for every layout of their keys.

\* Which editors there are.
EditorTypes == editor \in {"keyboard", "pageJump", "closed"} /\ pageCount \in Nat \ {0}

\* The cursor is on a key of the grid, in every mode and row.
OnKey == editor # "closed" => selRow \in 0..GridRows - 1 /\ selCol \in 0..rowLength(selRow) - 1

\* A panel nothing was asked of shows what render() would draw.
Fresh == Listening => drawn = View

\* A page jump ends on a page of the book.
JumpInBook == outcome[1] = "page" => outcome[2] \in 0..pageCount - 1

EditorInv == EditorTypes /\ OnKey /\ Fresh /\ JumpInBook

\* Every row has a key, and at most ten.
LEMMA RowsHaveKeys ==
  ASSUME editor \in {"keyboard", "pageJump"}, NEW row \in 0..GridRows - 1
  PROVE  rowLength(row) \in 1..10
<1>1. CASE editor = "pageJump"
  BY <1>1 DEF rowLength
<1>2. CASE editor = "keyboard" /\ row = SpecialRow
  BY <1>2 DEF rowLength
<1>3. CASE editor = "keyboard" /\ row # SpecialRow
  <2>1. row + 1 \in 1..4
    BY <1>3 DEF GridRows, SpecialRow
  <2>2. LetterRows[row + 1] \in 1..10 /\ SymbolRows[row + 1] \in 1..10
    BY <2>1, EditorAssumption, ElementOfSeq
  <2>. QED
    BY <1>3, <2>2 DEF rowLength
<1>. QED
  BY <1>1, <1>2, <1>3

\* The key under the cursor is one of those drawn, marked.
LEMMA EditorInvShows == EditorInv => KeysAsShown
<1>. SUFFICES ASSUME EditorInv PROVE KeysAsShown
  OBVIOUS
<1>1. ASSUME Listening PROVE \E key \in View.keys : key.selected /\ <<key.row, key.col>> = selection
  <2>1. selRow \in 0..GridRows - 1 /\ selCol \in 0..rowLength(selRow) - 1 /\ editor \in {"keyboard", "pageJump"}
    BY <1>1 DEF EditorInv, EditorTypes, OnKey, Listening
  <2>2. rowLength(selRow) \in 1..10
    BY <2>1, RowsHaveKeys
  <2>3. selCol \in 0..9 /\ selCol < rowLength(selRow)
    BY <2>1, <2>2
  <2>. DEFINE key == [row |-> selRow, col |-> selCol, selected |-> selRow = selRow /\ selCol = selCol,
                      label |-> IF editor = "pageJump" THEN <<>>
                                ELSE IF selRow = SpecialRow THEN <<shifted, symbolsMode>>
                                ELSE <<charAt(selRow, selCol)>>]
  <2>4. key \in Cells
    BY <2>1, <2>3 DEF Cells
  <2>5. key.row = selRow /\ key.col = selCol /\ key.selected
    OBVIOUS
  <2>6. OnGrid(key)
    BY <2>3, <2>5 DEF OnGrid
  <2>7. key \in View.keys
    BY <2>4, <2>6 DEF View
  <2>. QED
    BY <2>5, <2>7 DEF selection
<1>2. Listening => drawn = View
  BY DEF EditorInv, Fresh
<1>3. outcome[1] = "page" => outcome[2] \in 0..pageCount - 1
  BY DEF EditorInv, JumpInBook
<1>. QED
  BY <1>1, <1>2, <1>3 DEF KeysAsShown

\* No editor is open at first.
LEMMA EditorInitial == EditorInit => EditorInv
<1>. SUFFICES ASSUME EditorInit PROVE EditorInv
  OBVIOUS
<1>1. EditorTypes
  <2>1. PageCounts \subseteq Nat \ {0}
    BY EditorAssumption
  <2>2. editor \in {"keyboard", "pageJump"} /\ (pageCount = 1 \/ pageCount \in PageCounts)
    BY DEF EditorInit
  <2>3. pageCount \in Nat \ {0}
    <3>1. CASE pageCount = 1
      BY <3>1
    <3>2. CASE pageCount \in PageCounts
      BY <2>1, <3>2
    <3>. QED
      BY <2>2, <3>1, <3>2
  <2>. QED
    BY <2>2, <2>3 DEF EditorTypes
<1>2. OnKey
  <2>1. selRow \in 0..GridRows - 1 /\ selCol = 0 /\ editor \in {"keyboard", "pageJump"}
    BY DEF EditorInit, GridRows, SpecialRow
  <2>2. rowLength(selRow) \in 1..10
    BY <2>1, RowsHaveKeys
  <2>. QED
    BY <2>1, <2>2 DEF OnKey
<1>3. Fresh /\ JumpInBook
  BY DEF EditorInit, Fresh, JumpInBook, Listening
<1>. QED
  BY <1>1, <1>2, <1>3 DEF EditorInv

\* A step that leaves the grid and asks for no render left all that is drawn alone.
LEMMA SameView ==
  ASSUME UNCHANGED <<editor, selection, modes, typed>>
  PROVE  View' = View /\ (Listening /\ Quiet => Listening')
<1>1. UNCHANGED <<editor, selRow, selCol, shifted, symbolsMode, typed>>
  BY DEF selection, modes
<1>2. View' = View
  BY <1>1 DEF View, Cells, OnGrid, GridRows, SpecialRow, rowLength, charAt
<1>. QED
  BY <1>1, <1>2 DEF Listening, Quiet

\* Every step of an editor keeps its invariant.
LEMMA EditorStep == EditorInv /\ [EditorNext]_editorVars => EditorInv'
<1>. SUFFICES ASSUME EditorInv, [EditorNext]_editorVars PROVE EditorInv'
  OBVIOUS
<1>1. CASE Vertical
  <2>1. PICK step \in {1, GridRows - 1} : selRow' = (selRow + step) % GridRows /\ selCol' = ClampedCol(selCol, selRow')
    BY <1>1 DEF Vertical
  <2>2. /\ editor' = editor /\ editor \in {"keyboard", "pageJump"} /\ pageCount' = pageCount /\ outcome' = outcome
        /\ symbolsMode' = symbolsMode /\ updateRequested' = TRUE
    BY <1>1 DEF Vertical, Touched, Listening, EditorInv, EditorTypes, modes, pages
  <2>3. GridRows \in {2, 5} /\ GridRows' = GridRows /\ selRow \in Nat /\ selCol \in Nat
    <3>1. selRow \in 0..GridRows - 1 /\ selCol \in 0..rowLength(selRow) - 1
      BY <2>2 DEF EditorInv, OnKey
    <3>. QED
      BY <2>2, <3>1 DEF GridRows, SpecialRow
  <2>4. selRow' \in 0..GridRows - 1
    BY <2>1, <2>3
  <2>5. rowLength(selRow') \in 1..10
    BY <2>2, <2>4, RowsHaveKeys
  <2>6. selCol' \in 0..rowLength(selRow') - 1
    BY <2>1, <2>3, <2>5 DEF ClampedCol
  <2>7. rowLength(selRow)' = rowLength(selRow')
    BY <2>2 DEF rowLength, SpecialRow
  <2>8. OnKey'
    BY <2>3, <2>4, <2>6, <2>7 DEF OnKey
  <2>. QED
    BY <2>2, <2>8 DEF EditorInv, EditorTypes, Fresh, JumpInBook, Listening
<1>2. CASE Horizontal
  <2>1. PICK step \in {1, rowLength(selRow) - 1} : selCol' = (selCol + step) % rowLength(selRow)
    BY <1>2 DEF Horizontal
  <2>2. /\ editor' = editor /\ editor \in {"keyboard", "pageJump"} /\ pageCount' = pageCount /\ outcome' = outcome
        /\ symbolsMode' = symbolsMode /\ updateRequested' = TRUE /\ selRow' = selRow
    BY <1>2 DEF Horizontal, Touched, Listening, EditorInv, EditorTypes, modes, pages
  <2>3. selRow \in 0..GridRows - 1 /\ selCol \in 0..rowLength(selRow) - 1
    BY <2>2 DEF EditorInv, OnKey
  <2>4. rowLength(selRow) \in 1..10
    BY <2>2, <2>3, RowsHaveKeys
  <2>5. selCol' \in 0..rowLength(selRow) - 1
    BY <2>1, <2>3, <2>4
  <2>6. rowLength(selRow)' = rowLength(selRow) /\ GridRows' = GridRows
    BY <2>2 DEF rowLength, SpecialRow, GridRows
  <2>7. OnKey'
    BY <2>2, <2>3, <2>5, <2>6 DEF OnKey
  <2>. QED
    BY <2>2, <2>7 DEF EditorInv, EditorTypes, Fresh, JumpInBook, Listening
<1>3. CASE KeyboardConfirm \/ PageJumpConfirm
  <2>1. /\ editor' = editor /\ pageCount' = pageCount /\ outcome' = outcome /\ drawn' = drawn
        /\ selRow' = selRow /\ selCol' = selCol /\ Listening
    BY <1>3 DEF KeyboardConfirm, PageJumpConfirm, selection, pages
  <2>2. Touched \/ (Quiet /\ UNCHANGED <<typed, modes>>)
    BY <1>3 DEF KeyboardConfirm, PageJumpConfirm, Type, Erase, SpecialKey
  <2>3. symbolsMode' = symbolsMode \/ (editor = "keyboard" /\ selRow = SpecialRow)
    BY <1>3 DEF KeyboardConfirm, PageJumpConfirm, Type, Erase, SpecialKey, modes
  <2>4. rowLength(selRow)' = rowLength(selRow) /\ GridRows' = GridRows
    BY <2>1, <2>3 DEF rowLength, SpecialRow, GridRows
  <2>5. OnKey'
    BY <2>1, <2>4 DEF EditorInv, OnKey
  <2>6. Fresh'
    <3>1. CASE Touched
      BY <3>1 DEF Touched, Fresh, Listening
    <3>2. CASE Quiet /\ UNCHANGED <<typed, modes>>
      <4>1. UNCHANGED <<editor, selection, modes, typed>>
        BY <2>1, <3>2 DEF selection
      <4>2. View' = View
        BY <4>1, SameView
      <4>. QED
        BY <2>1, <4>2 DEF EditorInv, Fresh
    <3>. QED
      BY <2>2, <3>1, <3>2
  <2>. QED
    BY <2>1, <2>5, <2>6 DEF EditorInv, EditorTypes, JumpInBook
<1>4. CASE Done \/ Cancel
  <2>1. editor' = "closed" /\ outcome'[1] # "page" /\ pageCount' = pageCount
    BY <1>4 DEF Done, Cancel, Leave, pages
  <2>. QED
    BY <2>1 DEF EditorInv, EditorTypes, OnKey, Fresh, JumpInBook, Listening
<1>5. CASE Go
  <2>1. /\ editor' = "closed" /\ pageCount' = pageCount /\ pageCount \in Nat \ {0}
        /\ outcome' = IF typed = <<>> THEN <<"none">> ELSE <<"page", Clamped(Number(typed)) - 1>>
    BY <1>5 DEF Go, Leave, pages, EditorInv, EditorTypes
  <2>2. \A value : Clamped(value) - 1 \in 0..pageCount - 1
    BY <2>1 DEF Clamped
  <2>3. JumpInBook'
    BY <2>1, <2>2 DEF JumpInBook
  <2>. QED
    BY <2>1, <2>3 DEF EditorInv, EditorTypes, OnKey, Fresh, Listening
<1>6. CASE Render
  <2>1. UNCHANGED <<editor, selection, modes, typed>>
    BY <1>6 DEF Render
  <2>2. View' = View
    BY <2>1, SameView
  <2>3. /\ UNCHANGED <<editor, selRow, selCol, symbolsMode>> /\ pageCount' = pageCount /\ outcome' = outcome
        /\ drawn' = View
    BY <1>6 DEF Render, selection, modes, pages
  <2>4. OnKey'
    BY <2>3 DEF EditorInv, OnKey, rowLength, SpecialRow, GridRows
  <2>. QED
    BY <2>2, <2>3, <2>4 DEF EditorInv, EditorTypes, Fresh, JumpInBook
<1>7. CASE UNCHANGED editorVars
  <2>1. UNCHANGED <<editor, selection, modes, typed>>
    BY <1>7 DEF editorVars
  <2>2. View' = View
    BY <2>1, SameView
  <2>3. /\ UNCHANGED <<editor, selRow, selCol, symbolsMode>> /\ pageCount' = pageCount /\ outcome' = outcome
        /\ drawn' = drawn /\ updateRequested' = updateRequested
    BY <1>7 DEF editorVars, selection, modes, pages
  <2>4. OnKey'
    BY <2>3 DEF EditorInv, OnKey, rowLength, SpecialRow, GridRows
  <2>. QED
    BY <2>2, <2>3, <2>4 DEF EditorInv, EditorTypes, Fresh, JumpInBook, Listening
<1>. QED
  BY <1>1, <1>2, <1>3, <1>4, <1>5, <1>6, <1>7 DEF EditorNext

\* For every size of keyboard rows and every book: while an editor listens, the panel shows
\* the text that was typed, character by character, with the key that Confirm would press
\* marked and on the grid, and a page it jumps to is a page of the book.  (KeyboardScreen.cpp
\* and PageJumpScreen.cpp.)
THEOREM KeysShown == EditorSpec => []KeysAsShown
<1>1. EditorSpec => []EditorInv
  BY EditorInitial, EditorStep, PTL DEF EditorSpec
<1>. QED
  BY <1>1, EditorInvShows, PTL

-----------------------------------------------------------------------------

\* CrashReport: the log ring, for every size of it, over crashes and starts.

\* The line in the slot that comes i slots after the head.
Line(messages, head, i) == messages[(head + i) % MaxLogLines]

\* From place `first` on, lines that were logged and in their order; 0 is no line.
InOrder(messages, head, first, newest) ==
  \A i \in first..MaxLogLines - 1 :
    /\ Line(messages, head, i) \in 0..newest
    /\ \A j \in first..MaxLogLines - 1 :
         i < j /\ Line(messages, head, i) # 0 /\ Line(messages, head, j) # 0 => Line(messages, head, i) < Line(messages, head, j)

\* The ring holds what was logged; only a ring with its magic has a head.
RingTypes == lines \in Nat /\ logMessages \in [Slots -> Int] /\ (logMagic => logHead \in Slots)

\* Only the oldest slot may hold a line out of its order, the one a crash tore;
\* the version line overwrites it before a report is written.
RingOrdered ==
  logMagic => /\ InOrder(logMessages, logHead, 1, lines)
              /\ boot \in {"mounted", "checked"} => InOrder(logMessages, logHead, 0, lines)

\* A captured panic, and a start after one, is of a crash that has no report yet.
ReportDue ==
  /\ panicCaptured => unreported
  /\ boot \notin {"checked", "torn"} /\ RebootFromPanic => unreported

\* What is owed is what the memory still holds.
OwedKept == owed[1] \in {0, panicStack} /\ owed[2] \in {0, panicMessage}

\* The report on the card: of a crash, with what was owed then, and its lines in order.
ReportIs ==
  /\ crashReport.due = TRUE
  /\ crashReport.whole =>
       /\ crashReport.owed[1] # 0 => crashReport.stack = crashReport.owed[1]
       /\ crashReport.owed[2] # 0 => crashReport.reason = crashReport.owed[2]
  /\ \A i \in DOMAIN crashReport.logs :
       /\ crashReport.logs[i] \in 1..lines
       /\ \A j \in DOMAIN crashReport.logs : i < j => crashReport.logs[i] < crashReport.logs[j]

CrashInv == RingTypes /\ RingOrdered /\ ReportDue /\ OwedKept /\ ReportIs

\* Where a place of the ring is.
LEMMA Wraps ==
  ASSUME NEW head \in Slots, NEW i \in Slots
  PROVE  /\ (head + i) % MaxLogLines = IF head + i < MaxLogLines THEN head + i ELSE head + i - MaxLogLines
         /\ (head + 1) % MaxLogLines = IF head + 1 < MaxLogLines THEN head + 1 ELSE 0
<1>1. MaxLogLines \in Nat /\ MaxLogLines > 1
  BY CrashAssumption
<1>2. ASSUME NEW x \in Nat, x < MaxLogLines PROVE x % MaxLogLines = x
  BY <1>1, <1>2
<1>3. ASSUME NEW x \in Nat, x >= MaxLogLines, x < 2 * MaxLogLines PROVE x % MaxLogLines = x - MaxLogLines
  BY <1>1, <1>3
<1>. QED
  BY <1>1, <1>2, <1>3 DEF Slots

\* A line that is added takes the oldest slot and is the newest then.
LEMMA LogKeepsOrder ==
  ASSUME RingTypes, RingOrdered, Log
  PROVE  RingTypes' /\ logMagic' /\ InOrder(logMessages', logHead', 0, lines')
<1>. DEFINE ring == IF LogBad THEN Empty ELSE logMessages
            head == IF LogBad THEN 0 ELSE logHead
<1>1. MaxLogLines \in Nat /\ MaxLogLines > 1
  BY CrashAssumption
<1>2. head \in Slots /\ ring \in [Slots -> Int] /\ lines \in Nat
  <2>1. head \in Slots
    <3>1. CASE LogBad
      BY <1>1, <3>1 DEF Slots
    <3>2. CASE ~LogBad
      BY <3>2 DEF LogBad
    <3>. QED
      BY <3>1, <3>2
  <2>2. Empty \in [Slots -> Int]
    BY DEF Empty
  <2>. QED
    BY <2>1, <2>2 DEF RingTypes
<1>3. InOrder(ring, head, 1, lines)
  <2>1. CASE LogBad
    <3>1. \A i \in Slots : Line(ring, head, i) = 0
      BY <1>1, <2>1, <1>2, Wraps DEF Line, Empty, Slots
    <3>. QED
      BY <1>2, <3>1 DEF InOrder, Slots
  <2>2. CASE ~LogBad
    BY <2>2 DEF RingOrdered, LogBad
  <2>. QED
    BY <2>1, <2>2
<1>4. /\ logMessages' = [ring EXCEPT ![head] = lines + 1] /\ logHead' = (head + 1) % MaxLogLines
      /\ logMagic' /\ lines' = lines + 1
  BY DEF Log
<1>. HIDE DEF ring, head
<1>5. logHead' \in Slots
  BY <1>1, <1>2, <1>4, Wraps DEF Slots
<1>6. \A i \in Slots : Line(logMessages', logHead', i) = IF i = MaxLogLines - 1 THEN lines + 1 ELSE Line(ring, head, i + 1)
  <2>. SUFFICES ASSUME NEW i \in Slots
                PROVE  Line(logMessages', logHead', i) = IF i = MaxLogLines - 1 THEN lines + 1 ELSE Line(ring, head, i + 1)
    OBVIOUS
  <2>1. /\ (logHead' + i) % MaxLogLines = IF logHead' + i < MaxLogLines THEN logHead' + i ELSE logHead' + i - MaxLogLines
        /\ logHead' = IF head + 1 < MaxLogLines THEN head + 1 ELSE 0
    BY <1>2, <1>4, <1>5, Wraps
  <2>2. CASE i = MaxLogLines - 1
    <3>1. (logHead' + i) % MaxLogLines = head
      BY <1>1, <1>2, <2>1, <2>2 DEF Slots
    <3>. QED
      BY <1>2, <1>4, <2>2, <3>1 DEF Line
  <2>3. CASE i # MaxLogLines - 1
    <3>1. i + 1 \in Slots
      BY <1>1, <2>3 DEF Slots
    <3>2. (head + (i + 1)) % MaxLogLines = IF head + (i + 1) < MaxLogLines THEN head + (i + 1) ELSE head + (i + 1) - MaxLogLines
      BY <1>2, <3>1, Wraps
    <3>3. (logHead' + i) % MaxLogLines = (head + (i + 1)) % MaxLogLines
      BY <1>1, <1>2, <2>1, <2>3, <3>2 DEF Slots
    <3>4. (head + (i + 1)) % MaxLogLines \in Slots /\ (head + (i + 1)) % MaxLogLines # head
      BY <1>1, <1>2, <2>3, <3>2 DEF Slots
    <3>. QED
      BY <1>2, <1>4, <2>3, <3>3, <3>4 DEF Line
  <2>. QED
    BY <2>2, <2>3
<1>7. InOrder(logMessages', logHead', 0, lines')
  <2>1. \A i \in Slots : i # MaxLogLines - 1 => i + 1 \in 1..MaxLogLines - 1
    BY <1>1 DEF Slots
  <2>2. \A i \in Slots : Line(logMessages', logHead', i) \in 0..lines + 1
    BY <1>2, <1>3, <1>6, <2>1 DEF InOrder
  <2>3. \A i, j \in Slots : i < j /\ Line(logMessages', logHead', i) # 0 /\ Line(logMessages', logHead', j) # 0
                              => Line(logMessages', logHead', i) < Line(logMessages', logHead', j)
    <3>. SUFFICES ASSUME NEW i \in Slots, NEW j \in Slots, i < j,
                         Line(logMessages', logHead', i) # 0, Line(logMessages', logHead', j) # 0
                  PROVE  Line(logMessages', logHead', i) < Line(logMessages', logHead', j)
      OBVIOUS
    <3>1. i # MaxLogLines - 1 /\ i + 1 \in 1..MaxLogLines - 1 /\ Line(logMessages', logHead', i) = Line(ring, head, i + 1)
      BY <1>1, <1>6 DEF Slots
    <3>2. CASE j = MaxLogLines - 1
      <4>1. Line(ring, head, i + 1) \in 0..lines
        BY <1>3, <3>1 DEF InOrder
      <4>. QED
        BY <1>2, <1>6, <3>1, <3>2, <4>1
    <3>3. CASE j # MaxLogLines - 1
      <4>1. j + 1 \in 1..MaxLogLines - 1 /\ Line(logMessages', logHead', j) = Line(ring, head, j + 1)
        BY <1>6, <2>1, <3>3
      <4>2. i + 1 < j + 1
        BY DEF Slots
      <4>. QED
        BY <1>3, <3>1, <4>1, <4>2 DEF InOrder
    <3>. QED
      BY <3>2, <3>3
  <2>. QED
    BY <1>4, <2>2, <2>3 DEF InOrder, Slots
<1>8. RingTypes'
  BY <1>2, <1>4, <1>5 DEF RingTypes, Slots
<1>. QED
  BY <1>4, <1>7, <1>8

\* What the report would say of a ring in order.
LEMMA LogsInOrder ==
  ASSUME RingTypes, logMagic => InOrder(logMessages, logHead, 0, lines)
  PROVE  \A i \in DOMAIN LastLogs :
           /\ LastLogs[i] \in 1..lines
           /\ \A j \in DOMAIN LastLogs : i < j => LastLogs[i] < LastLogs[j]
<1>1. CASE ~logMagic
  BY <1>1 DEF LastLogs
<1>2. CASE logMagic
  <2>. DEFINE kept == {s \in Slots : FromOldest(s) # 0}
  <2>1. LastLogs = [i \in kept |-> FromOldest(i)]
    BY <1>2 DEF LastLogs
  <2>2. \A i \in kept : i \in 0..MaxLogLines - 1 /\ FromOldest(i) # 0 /\ FromOldest(i) = Line(logMessages, logHead, i)
    BY DEF Slots, FromOldest, Line
  <2>. HIDE DEF kept
  <2>3. \A i \in kept : FromOldest(i) \in 0..lines
    BY <1>2, <2>2 DEF InOrder
  <2>4. \A i, j \in kept : i < j => FromOldest(i) < FromOldest(j)
    BY <1>2, <2>2 DEF InOrder
  <2>. QED
    BY <2>1, <2>2, <2>3, <2>4 DEF RingTypes
<1>. QED
  BY <1>1, <1>2

\* At power on the memory of the log holds anything, and no line is in it.
LEMMA CrashInitial == CrashInit => CrashInv
<1>. SUFFICES ASSUME CrashInit PROVE CrashInv
  OBVIOUS
<1>1. RingTypes /\ RingOrdered
  <2>1. Garbage \in Int
    BY CrashAssumption
  <2>2. lines = 0 /\ logMessages = [i \in Slots |-> Garbage] /\ ~logMagic
    BY DEF CrashInit
  <2>. QED
    BY <2>1, <2>2 DEF RingTypes, RingOrdered
<1>2. ReportDue /\ OwedKept
  BY DEF CrashInit, ReportDue, RebootFromPanic, OwedKept
<1>3. ReportIs
  <2>1. crashReport.due = TRUE /\ crashReport.logs = <<>> /\ crashReport.whole = FALSE
    BY DEF CrashInit
  <2>. QED
    BY <2>1 DEF ReportIs
<1>. QED
  BY <1>1, <1>2, <1>3 DEF CrashInv

\* A line that is torn is in the oldest slot.
LEMMA TearKeepsOrder ==
  ASSUME RingTypes, RingOrdered, TearLine
  PROVE  RingTypes' /\ RingOrdered'
<1>1. MaxLogLines \in Nat /\ MaxLogLines > 1
  BY CrashAssumption
<1>2. /\ logMagic /\ logHead \in Slots /\ logHead' = logHead /\ logMagic' = logMagic /\ lines' = lines + 1
      /\ logMessages' = [logMessages EXCEPT ![logHead] = lines + 1] /\ boot' = "torn"
      /\ InOrder(logMessages, logHead, 1, lines) /\ lines \in Nat /\ logMessages \in [Slots -> Int]
  BY DEF TearLine, LogBad, RingTypes, RingOrdered
<1>3. \A i \in 1..MaxLogLines - 1 : Line(logMessages', logHead, i) = Line(logMessages, logHead, i)
  <2>. SUFFICES ASSUME NEW i \in 1..MaxLogLines - 1
                PROVE  Line(logMessages', logHead, i) = Line(logMessages, logHead, i)
    OBVIOUS
  <2>1. i \in Slots
    BY <1>1 DEF Slots
  <2>2. (logHead + i) % MaxLogLines = IF logHead + i < MaxLogLines THEN logHead + i ELSE logHead + i - MaxLogLines
    BY <1>2, <2>1, Wraps
  <2>3. (logHead + i) % MaxLogLines \in Slots /\ (logHead + i) % MaxLogLines # logHead
    BY <1>1, <1>2, <2>2 DEF Slots
  <2>. QED
    BY <1>2, <2>3 DEF Line
<1>4. InOrder(logMessages', logHead', 1, lines')
  <2>. SUFFICES ASSUME NEW i \in 1..MaxLogLines - 1
                PROVE  /\ Line(logMessages', logHead, i) \in 0..lines + 1
                       /\ \A j \in 1..MaxLogLines - 1 :
                            i < j /\ Line(logMessages', logHead, i) # 0 /\ Line(logMessages', logHead, j) # 0
                              => Line(logMessages', logHead, i) < Line(logMessages', logHead, j)
    BY <1>2 DEF InOrder
  <2>1. Line(logMessages', logHead, i) \in 0..lines
    BY <1>2, <1>3 DEF InOrder
  <2>2. Line(logMessages', logHead, i) \in 0..lines + 1
    <3>1. lines \in Nat
      BY <1>2
    <3>. QED
      BY <2>1, <3>1
  <2>3. ASSUME NEW j \in 1..MaxLogLines - 1, i < j, Line(logMessages', logHead, i) # 0, Line(logMessages', logHead, j) # 0
        PROVE  Line(logMessages', logHead, i) < Line(logMessages', logHead, j)
    <3>1. /\ Line(logMessages', logHead, i) = Line(logMessages, logHead, i)
          /\ Line(logMessages', logHead, j) = Line(logMessages, logHead, j)
      BY <1>3
    <3>2. InOrder(logMessages, logHead, 1, lines)
      BY <1>2
    <3>. QED
      BY <2>3, <3>1, <3>2 DEF InOrder
  <2>. QED
    BY <2>2, <2>3
<1>. QED
  BY <1>2, <1>4 DEF RingTypes, RingOrdered

\* Nothing but Log, TearLine and what power-on leaves changes the ring, but to clear it.
LEMMA ClearedInOrder ==
  ASSUME RingTypes, lines' = lines, ClearLogs
  PROVE  RingTypes' /\ RingOrdered'
<1>1. MaxLogLines \in Nat /\ MaxLogLines > 1
  BY CrashAssumption
<1>2. logMessages' = Empty /\ logHead' = 0 /\ 0 \in Slots
  BY <1>1 DEF ClearLogs, Slots
<1>3. \A i \in Slots : Line(logMessages', logHead', i) = 0
  <2>. SUFFICES ASSUME NEW i \in Slots PROVE Line(logMessages', logHead', i) = 0
    OBVIOUS
  <2>1. (0 + i) % MaxLogLines = IF 0 + i < MaxLogLines THEN 0 + i ELSE 0 + i - MaxLogLines
    BY <1>2, Wraps
  <2>2. (0 + i) % MaxLogLines \in Slots
    BY <1>1, <2>1 DEF Slots
  <2>. QED
    BY <1>2, <2>2 DEF Line, Empty
<1>4. InOrder(logMessages', logHead', 0, lines') /\ InOrder(logMessages', logHead', 1, lines')
  BY <1>1, <1>3 DEF InOrder, Slots, RingTypes
<1>5. logMessages' \in [Slots -> Int]
  BY <1>2 DEF Empty
<1>. QED
  BY <1>2, <1>4, <1>5 DEF RingTypes, RingOrdered

\* Every step of logging, crashing and reporting keeps the invariant.
LEMMA CrashStep == CrashInv /\ [CrashNext]_crashVars => CrashInv'
<1>. SUFFICES ASSUME CrashInv, [CrashNext]_crashVars PROVE CrashInv'
  OBVIOUS
<1>. USE DEF CrashInv
<1>a. lines \in Nat
  BY DEF RingTypes
<1>b. ASSUME crashReport' = crashReport, lines' \in Nat, lines' >= lines PROVE ReportIs'
  BY <1>a, <1>b DEF ReportIs
<1>c. ASSUME UNCHANGED <<logMessages, logHead, logMagic, lines>>, boot' \in {"mounted", "checked"} => boot \in {"mounted", "checked"}
      PROVE  RingTypes' /\ RingOrdered'
  BY <1>c DEF RingTypes, RingOrdered
<1>d. ASSUME Log, boot \notin {"checked", "torn"} \/ boot' = boot, UNCHANGED <<resetReason, panicMemory, crashReport, dueFor>>
      PROVE  CrashInv'
  <2>1. RingTypes' /\ RingOrdered'
    <3>1. RingTypes' /\ logMagic' /\ InOrder(logMessages', logHead', 0, lines')
      BY <1>d, LogKeepsOrder
    <3>2. InOrder(logMessages', logHead', 1, lines')
      BY <3>1 DEF InOrder
    <3>. QED
      BY <3>1, <3>2 DEF RingOrdered
  <2>2. ReportDue'
    BY <1>d DEF ReportDue, RebootFromPanic, panicMemory, dueFor
  <2>3. ReportIs'
    BY <1>a, <1>b, <1>d DEF Log
  <2>4. OwedKept'
    BY <1>d DEF OwedKept, panicMemory, dueFor
  <2>. QED
    BY <2>1, <2>2, <2>3, <2>4
<1>1. CASE LogLine
  BY <1>1, <1>d DEF LogLine
<1>2. CASE Announce
  BY <1>2, <1>d DEF Announce
<1>3. CASE TearLine
  <2>1. RingTypes' /\ RingOrdered'
    BY <1>3, TearKeepsOrder
  <2>2. ReportDue'
    BY <1>3 DEF TearLine, ReportDue, RebootFromPanic, panicMemory, dueFor
  <2>3. ReportIs'
    BY <1>3, <1>a, <1>b DEF TearLine
  <2>4. OwedKept'
    BY <1>3 DEF TearLine, OwedKept, panicMemory, dueFor
  <2>. QED
    BY <2>1, <2>2, <2>3, <2>4
<1>4. CASE Begin
  <2>1. RingTypes' /\ RingOrdered'
    <3>1. CASE ClearLogs
      BY <1>4, <3>1, ClearedInOrder DEF Begin
    <3>2. CASE UNCHANGED logRing
      BY <1>4, <3>2, <1>c DEF Begin, logRing
    <3>. QED
      BY <1>4, <3>1, <3>2 DEF Begin, ClearPanic
  <2>2. ReportDue'
    BY <1>4 DEF Begin, ReportDue, RebootFromPanic, panicMemory, dueFor, ClearPanic
  <2>3. ReportIs'
    BY <1>4, <1>a, <1>b DEF Begin
  <2>4. OwedKept'
    BY <1>4 DEF Begin, OwedKept, panicMemory, dueFor, ClearPanic
  <2>. QED
    BY <2>1, <2>2, <2>3, <2>4
<1>5. CASE CheckPanic
  <2>1. RingTypes' /\ RingOrdered'
    BY <1>5, <1>c DEF CheckPanic, logRing
  <2>2. ReportDue'
    BY <1>5 DEF CheckPanic, ReportDue, Consume, dueFor
  <2>3. ReportIs'
    <3>1. CASE crashReport' = crashReport
      BY <1>5, <3>1, <1>a, <1>b DEF CheckPanic
    <3>a. \A i \in DOMAIN LastLogs : /\ LastLogs[i] \in 1..lines
                                     /\ \A j \in DOMAIN LastLogs : i < j => LastLogs[i] < LastLogs[j]
      BY <1>5, LogsInOrder DEF CheckPanic, RingOrdered
    <3>b. lines' = lines
      BY <1>5 DEF CheckPanic
    <3>c. RebootFromPanic => unreported = TRUE
      BY <1>5 DEF CheckPanic, ReportDue
    <3>2. CASE RebootFromPanic /\ crashReport' = PanicInfo
      <4>1. /\ crashReport'.due = TRUE /\ crashReport'.logs = LastLogs
            /\ crashReport'.owed = owed /\ crashReport'.stack = panicStack /\ crashReport'.reason = panicMessage
        BY <3>2, <3>c DEF PanicInfo
      <4>2. /\ crashReport'.owed[1] # 0 => crashReport'.stack = crashReport'.owed[1]
            /\ crashReport'.owed[2] # 0 => crashReport'.reason = crashReport'.owed[2]
        BY <4>1 DEF OwedKept
      <4>. HIDE DEF CrashInv
      <4>. QED
        BY <3>a, <3>b, <4>1, <4>2 DEF ReportIs
    <3>3. CASE RebootFromPanic /\ \E reason \in {0, panicMessage}, places \in 0..MaxLogLines : crashReport' = CutInfo(reason, places)
      <4>1. PICK reason \in {0, panicMessage}, places \in 0..MaxLogLines : crashReport' = CutInfo(reason, places)
        BY <3>3
      <4>. DEFINE cut == [i \in DOMAIN LastLogs \cap 0..places - 1 |-> LastLogs[i]]
      <4>2. crashReport'.due = TRUE /\ crashReport'.logs = cut /\ crashReport'.whole = FALSE
        BY <3>3, <3>c, <4>1 DEF CutInfo, PanicInfo
      <4>3. \A i \in DOMAIN cut : /\ cut[i] \in 1..lines
                                 /\ \A j \in DOMAIN cut : i < j => cut[i] < cut[j]
        BY <3>a
      <4>. HIDE DEF CrashInv, cut
      <4>. QED
        BY <3>b, <4>2, <4>3 DEF ReportIs
    <3>4. \/ crashReport' = crashReport
          \/ RebootFromPanic /\ crashReport' = PanicInfo
          \/ RebootFromPanic /\ \E reason \in {0, panicMessage}, places \in 0..MaxLogLines : crashReport' = CutInfo(reason, places)
      BY <1>5, CrashAssumption DEF CheckPanic
    <3>. QED
      BY <3>1, <3>2, <3>3, <3>4
  <2>4. OwedKept'
    BY <1>5 DEF CheckPanic, OwedKept, dueFor
  <2>. QED
    BY <2>1, <2>2, <2>3, <2>4
<1>6. CASE Panic \/ LockUp \/ Watchdog \/ Restart
  <2>1. /\ UNCHANGED <<logMessages, logHead, logMagic>> /\ crashReport' = crashReport /\ lines' = lines
        /\ boot' = "early"
    BY <1>6 DEF Panic, LockUp, Watchdog, Restart, Reset, logRing
  <2>2. RingTypes' /\ RingOrdered'
    BY <2>1, <1>c
  <2>3. ReportDue'
    BY <1>6 DEF Panic, LockUp, Watchdog, Restart, Reset, ReportDue, RebootFromPanic, panicMemory, dueFor
  <2>4. ReportIs'
    BY <2>1, <1>a, <1>b
  <2>5. OwedKept'
    BY <1>6 DEF Panic, LockUp, Watchdog, Restart, Reset, OwedKept, panicMemory, dueFor
  <2>. QED
    BY <2>2, <2>3, <2>4, <2>5
<1>7. CASE PowerLoss
  <2>1. RingTypes' /\ RingOrdered'
    <3>1. Garbage \in Int
      BY CrashAssumption
    <3>2. lines' = lines /\ logMessages' = [i \in Slots |-> Garbage] /\ ~logMagic'
      BY <1>7 DEF PowerLoss, Reset
    <3>. QED
      BY <3>1, <3>2 DEF RingTypes, RingOrdered
  <2>2. ReportDue'
    BY <1>7 DEF PowerLoss, Reset, ReportDue, RebootFromPanic
  <2>3. ReportIs'
    <3>1. crashReport' = crashReport /\ lines' = lines
      BY <1>7 DEF PowerLoss, Reset
    <3>. QED
      BY <3>1, <1>a, <1>b
  <2>4. OwedKept'
    BY <1>7 DEF PowerLoss, OwedKept
  <2>. QED
    BY <2>1, <2>2, <2>3, <2>4
<1>8. CASE UNCHANGED crashVars
  <2>1. RingTypes' /\ RingOrdered'
    BY <1>8, <1>c DEF crashVars, logRing
  <2>2. ReportDue'
    BY <1>8 DEF crashVars, panicMemory, dueFor, ReportDue, RebootFromPanic
  <2>3. ReportIs'
    BY <1>8, <1>a, <1>b DEF crashVars
  <2>4. OwedKept'
    BY <1>8 DEF crashVars, panicMemory, dueFor, OwedKept
  <2>. QED
    BY <2>1, <2>2, <2>3, <2>4
<1>. QED
  BY <1>1, <1>2, <1>3, <1>4, <1>5, <1>6, <1>7, <1>8 DEF CrashNext

\* For a ring of any number of lines, and whatever a restart leaves of the memory it is in: a
\* crash report on the card was written for a crash nobody had reported, complete it has the
\* newest stack and reason that were captured and not reported yet, and its lines were logged,
\* each before the next one, none twice.  (logging in Logging.cpp, HalSystem's checkPanic().)
THEOREM ReportsTrue == CrashSpec => []ReportTrue
<1>1. CrashSpec => []CrashInv
  BY CrashInitial, CrashStep, PTL DEF CrashSpec
<1>2. CrashInv => ReportTrue
  BY DEF CrashInv, ReportIs, ReportTrue
<1>. QED
  BY <1>1, <1>2, PTL

-----------------------------------------------------------------------------

\* ListScreens: the list screens, for every card, scan and book.

\* The screens that are lists.
ListNames == {"home", "books", "firmware", "chapters", "networks"}

\* A list with a length, that is empty when that is 0.
Measured(list) == Len(list) \in Nat /\ (list = <<>> <=> Len(list) = 0)

\* What holds of every screen: where the index is, which rows the menu has,
\* and how far the window reaches.
ListTypes ==
  /\ listScreen \in ListNames \cup {"closed"}
  /\ Measured(entries) /\ listIndex \in Nat /\ window \in Nat /\ navigation \in Int

\* The index is on a row, if there is one.
OnRow == entries # <<>> => listIndex < Len(entries)

\* The home menu and the chapter list are never empty.
MenuRows ==
  /\ listScreen = "home" => window = 0 /\ entries \in {Menu(TRUE), Menu(FALSE)}
  /\ listScreen = "chapters" => entries # <<>>

\* Only the network screen has states of its own.
NetworkState == listScreen # "closed" => (listScreen = "networks" <=> state # "List")

\* The window shows as many rows as there are from its first on.
WindowFull == listScreen # "closed" /\ entries # <<>> => window = 0 \/ window + VisibleRows <= Len(entries)

\* What render() draws of a list.
Picture ==
  [i \in window + 1..Min({window + VisibleRows, Len(entries)}) |->
     [row |-> entries[i],
      boxes |-> IF i = listIndex + 1 THEN {RowBox(Top + (i - 1 - window) * RowHeight)} ELSE {}]]

\* A list that asked for no render is drawn as it is, its index in the window.
ListDrawn ==
  listScreen # "closed" /\ ~redraw /\ state \in {"List", "NetworkList"} =>
    IF entries = <<>> THEN display = <<>>
    ELSE window <= listIndex /\ listIndex < window + VisibleRows /\ display = Picture

ListInv == ListTypes /\ OnRow /\ MenuRows /\ NetworkState /\ WindowFull /\ ListDrawn

\* The smaller and the larger of two.
LEMMA LeastOf == \A a, b \in Int : /\ Min({a, b}) = (IF a <= b THEN a ELSE b)
                                   /\ Max({a, b}) = (IF a >= b THEN a ELSE b)
BY DEF Min, Max

\* A sequence has a length.
LEMMA SeqSized == ASSUME NEW S, NEW list \in Seq(S) PROVE Measured(list)
BY LenProperties, EmptySeq DEF Measured

\* The menu with a book to continue and without one.
LEMMA Menus ==
  /\ Menu(TRUE) = <<ListRow("item", "Continue"), ListRow("item", "Browse"), ListRow("item", "Transfer"), ListRow("item", "Settings")>>
  /\ Menu(FALSE) = <<ListRow("item", "Browse"), ListRow("item", "Transfer"), ListRow("item", "Settings")>>
<1>. DEFINE T == {ListRow("item", "Continue"), ListRow("item", "Browse"), ListRow("item", "Transfer"), ListRow("item", "Settings")}
            p == <<ListRow("item", "Continue")>>
            q == <<ListRow("item", "Browse"), ListRow("item", "Transfer"), ListRow("item", "Settings")>>
            whole == <<ListRow("item", "Continue"), ListRow("item", "Browse"), ListRow("item", "Transfer"), ListRow("item", "Settings")>>
<1>1. p \in Seq(T) /\ q \in Seq(T) /\ whole \in Seq(T) /\ Len(p) = 1 /\ Len(q) = 3 /\ Len(whole) = 4
  OBVIOUS
<1>2. /\ p \o q \in Seq(T) /\ Len(p \o q) = 4
      /\ \A i \in 1..4 : (p \o q)[i] = IF i <= 1 THEN p[i] ELSE q[i - 1]
  BY <1>1, ConcatProperties
<1>3. \A i \in 1..4 : (p \o q)[i] = whole[i]
  BY <1>2
<1>4. p \o q = whole
  BY <1>1, <1>2, <1>3, SeqEqual
<1>5. <<>> \o q = q
  BY <1>1, ConcatEmptySeq
<1>. QED
  BY <1>4, <1>5 DEF Menu

\* The menu has three or four rows.
LEMMA MenuSizes ==
  ASSUME NEW menu \in {Menu(TRUE), Menu(FALSE)}
  PROVE  Measured(menu) /\ Len(menu) \in {3, 4}
<1>. DEFINE T == {ListRow("item", "Continue"), ListRow("item", "Browse"), ListRow("item", "Transfer"), ListRow("item", "Settings")}
            q == <<ListRow("item", "Browse"), ListRow("item", "Transfer"), ListRow("item", "Settings")>>
            whole == <<ListRow("item", "Continue"), ListRow("item", "Browse"), ListRow("item", "Transfer"), ListRow("item", "Settings")>>
<1>1. q \in Seq(T) /\ whole \in Seq(T) /\ Len(q) = 3 /\ Len(whole) = 4
  OBVIOUS
<1>2. menu = whole \/ menu = q
  BY Menus
<1>. HIDE DEF q, whole, T
<1>. QED
  BY <1>1, <1>2, SeqSized

\* The panel holds at least one row of every list, and its rows end above the line
\* at the bottom.
LEMMA RowsFit ==
  ASSUME listScreen \in ListNames, Measured(entries), MenuRows
  PROVE  /\ VisibleRows \in Nat /\ VisibleRows > 0 /\ RowHeight \in Nat /\ RowHeight >= 8 /\ Top \in Nat /\ Top >= 40
         /\ Top + VisibleRows * RowHeight <= Height - Bottom
<1>1. Height \in Nat /\ LineHeight \in Nat /\ Height >= 144 + 4 * (LineHeight + 10)
  BY ListAssumption
<1>2. RowHeight \in Nat /\ RowHeight >= 8 /\ Top \in Nat /\ Top >= 40 /\ Bottom \in Nat
  BY <1>1 DEF RowHeight, Top, Bottom
<1>3. CASE listScreen = "home"
  <2>1. Len(entries) \in 3..4
    <3>1. entries \in {Menu(TRUE), Menu(FALSE)}
      BY <1>3 DEF MenuRows
    <3>2. Len(entries) \in {3, 4}
      BY <3>1, MenuSizes
    <3>. QED
      BY <3>2
  <2>2. RowHeight = LineHeight + 10 /\ Top = 120 /\ Bottom = 24 /\ VisibleRows = Len(entries)
    BY <1>3 DEF RowHeight, Top, Bottom, VisibleRows
  <2>. QED
    BY <1>1, <1>2, <2>1, <2>2
<1>4. CASE listScreen # "home"
  <2>. DEFINE room == Height - Top - Bottom
  <2>1. RowHeight = LineHeight + 8 /\ Top <= 64 /\ Bottom <= 52
    BY <1>4 DEF RowHeight, Top, Bottom
  <2>2. room \in Nat /\ room >= RowHeight /\ VisibleRows = room \div RowHeight
    BY <1>1, <1>2, <1>4, <2>1 DEF VisibleRows
  <2>. HIDE DEF room
  <2>3. \A n \in Nat, b \in Nat \ {0} : n \div b \in Nat /\ (n \div b) * b <= n /\ (n >= b => n \div b > 0)
    OBVIOUS
  <2>4. VisibleRows \in Nat /\ VisibleRows > 0 /\ VisibleRows * RowHeight <= room
    BY <1>2, <2>2, <2>3
  <2>. QED
    BY <1>1, <1>2, <2>4 DEF room
<1>. QED
  BY <1>3, <1>4

\* Confirm's row is the marked one, and its box is on the panel.
LEMMA ListInvShows == ListInv => RowsAsShown
<1>. SUFFICES ASSUME ListInv, ListWaits, entries # <<>>
     PROVE  LET marked == {i \in DOMAIN display : display[i].boxes # {}}
            IN  /\ Cardinality(DOMAIN display) = Min({VisibleRows, Len(entries)})
                /\ \A i \in DOMAIN display : display[i].row = entries[i]
                /\ Cardinality(marked) = 1
                /\ {display[i].row : i \in marked} = {Target}
                /\ \A i \in marked : \A box \in display[i].boxes :
                     box.h = RowHeight /\ box.y + box.h <= Height - Bottom
  BY DEF RowsAsShown, ListInv, ListDrawn, ListWaits, Active
<1>. DEFINE marked == {i \in DOMAIN display : display[i].boxes # {}}
            box == RowBox(Top + (listIndex - window) * RowHeight)
            final == Min({window + VisibleRows, Len(entries)})
<1>1. /\ window <= listIndex /\ listIndex < window + VisibleRows /\ display = Picture
      /\ window \in Nat /\ listIndex \in Nat /\ listIndex < Len(entries) /\ Len(entries) \in Nat
      /\ window = 0 \/ window + VisibleRows <= Len(entries)
      /\ listScreen \in ListNames
  BY DEF ListInv, ListDrawn, ListWaits, Active, ListTypes, OnRow, WindowFull, Measured
<1>2. /\ VisibleRows \in Nat /\ VisibleRows > 0 /\ RowHeight \in Nat /\ RowHeight >= 8 /\ Top \in Nat /\ Top >= 40
      /\ Top + VisibleRows * RowHeight <= Height - Bottom
  BY <1>1, RowsFit DEF ListInv, ListTypes
<1>3. final \in Nat /\ final = (IF window + VisibleRows <= Len(entries) THEN window + VisibleRows ELSE Len(entries))
  BY <1>1, <1>2, LeastOf
<1>. HIDE DEF final
<1>4. DOMAIN display = window + 1..final
  BY <1>1 DEF Picture, final
<1>5. Cardinality(DOMAIN display) = Min({VisibleRows, Len(entries)})
  <2>1. Min({VisibleRows, Len(entries)}) = IF VisibleRows <= Len(entries) THEN VisibleRows ELSE Len(entries)
    BY <1>1, <1>2, LeastOf
  <2>2. Cardinality(window + 1..final) = IF window + 1 > final THEN 0 ELSE final - (window + 1) + 1
    <3>. DEFINE first == window + 1
    <3>1. first \in Int /\ final \in Int
      BY <1>1, <1>3
    <3>. HIDE DEF first
    <3>2. Cardinality(first..final) = IF first > final THEN 0 ELSE final - first + 1
      BY <3>1, FS_Interval
    <3>. QED
      BY <3>2 DEF first
  <2>. QED
    BY <1>1, <1>2, <1>3, <1>4, <2>1, <2>2
<1>6. \A i \in DOMAIN display : /\ display[i].row = entries[i]
                                /\ display[i].boxes = IF i = listIndex + 1 THEN {RowBox(Top + (i - 1 - window) * RowHeight)} ELSE {}
  BY <1>1, <1>4 DEF Picture, final
<1>7. listIndex + 1 \in DOMAIN display
  BY <1>1, <1>3, <1>4
<1>8. marked = {listIndex + 1} /\ display[listIndex + 1].boxes = {box}
  <2>1. (listIndex + 1) - 1 - window = listIndex - window
    BY <1>1
  <2>. QED
    BY <1>6, <1>7, <2>1
<1>9. Cardinality(marked) = 1
  BY <1>8, FS_Singleton
<1>10. {display[i].row : i \in marked} = {Target}
  <2>1. entries[listIndex + 1] = Target
    <3>1. CASE listScreen # "home"
      BY <3>1 DEF Target
    <3>2. CASE listScreen = "home"
      <4>1. entries \in {Menu(TRUE), Menu(FALSE)}
        BY <3>2 DEF ListInv, MenuRows
      <4>2. CASE entries = Menu(TRUE)
        <5>1. entries = <<ListRow("item", "Continue"), ListRow("item", "Browse"), ListRow("item", "Transfer"), ListRow("item", "Settings")>>
          BY <4>2, Menus
        <5>. QED
          BY <1>1, <3>2, <5>1 DEF Target
      <4>3. CASE entries = Menu(FALSE)
        <5>1. entries = <<ListRow("item", "Browse"), ListRow("item", "Transfer"), ListRow("item", "Settings")>>
          BY <4>3, Menus
        <5>. QED
          BY <1>1, <3>2, <5>1 DEF Target
      <4>. QED
        BY <4>1, <4>2, <4>3
    <3>. QED
      BY <3>1, <3>2
  <2>. QED
    <3>1. display[listIndex + 1].row = Target
      BY <1>6, <1>7, <2>1
    <3>. HIDE DEF marked
    <3>. QED
      BY <1>8, <3>1
<1>11. box.h = RowHeight /\ box.y + box.h <= Height - Bottom
  <2>. DEFINE k == listIndex - window
              y == Top + k * RowHeight
  <2>1. k \in Nat /\ k + 1 <= VisibleRows
    BY <1>1, <1>2
  <2>2. \A a, b, r \in Nat : a <= b => a * r <= b * r
    OBVIOUS
  <2>3. (k + 1) * RowHeight <= VisibleRows * RowHeight /\ (k + 1) * RowHeight = k * RowHeight + RowHeight
    BY <1>2, <2>1, <2>2
  <2>4. k * RowHeight \in Nat
    BY <1>2, <2>1
  <2>. HIDE DEF k
  <2>5. Height \in Nat /\ Bottom \in Nat /\ Bottom >= 24 /\ Width \in Nat
    BY ListAssumption DEF Bottom
  <2>6. y \in Nat /\ y >= 40 /\ y + RowHeight <= Height - Bottom
    <3>1. VisibleRows * RowHeight \in Nat
      BY <1>2
    <3>. QED
      BY <1>2, <2>3, <2>4, <2>5, <3>1
  <2>. HIDE DEF y
  <2>7. ASSUME NEW x \in Int, NEW w \in Int, NEW lift \in {2, 4}
        PROVE  /\ FillRect(x, y - lift, w, RowHeight).h = RowHeight
               /\ FillRect(x, y - lift, w, RowHeight).y = y - lift
    <3>1. Max({y - lift, 0}) = y - lift
      <4>. DEFINE lifted == y - lift
      <4>1. lifted \in Int /\ lifted >= 0
        BY <2>6
      <4>. HIDE DEF lifted
      <4>2. Max({lifted, 0}) = lifted
        BY <4>1, LeastOf
      <4>. QED
        BY <4>2 DEF lifted
    <3>2. Min({(y - lift) + RowHeight, Height}) = (y - lift) + RowHeight
      BY <1>2, <2>5, <2>6, LeastOf
    <3>. QED
      BY <1>2, <2>6, <3>1, <3>2 DEF FillRect
  <2>8. RowBox(y).h = RowHeight /\ RowBox(y).y \in {y - 2, y - 4}
    BY <2>5, <2>7 DEF RowBox
  <2>9. box = RowBox(y)
    BY DEF y, k
  <2>. HIDE DEF box
  <2>. QED
    BY <1>2, <2>5, <2>6, <2>8, <2>9
<1>. QED
  BY <1>5, <1>6, <1>8, <1>9, <1>10, <1>11

\* The listing of a folder has as many rows as there are.
LEMMA ListingSized ==
  ASSUME NEW dir \in DOMAIN Card
  PROVE  Measured(Listing(dir))
<1>. DEFINE kept == {e \in Card[dir] : Wanted(e)}
            made == {ListRow(each.kind, each.name) : each \in kept}
            before(row) == {other \in made : other.name < row.name}
            as == [each \in kept |-> ListRow(each.kind, each.name)]
            nth(i) == CHOOSE row \in made : Cardinality(before(row)) = i - 1
            list == [i \in 1..Cardinality(made) |-> nth(i)]
<1>1. IsFiniteSet(kept)
  <2>1. IsFiniteSet(Card[dir]) /\ kept \subseteq Card[dir]
    BY ListAssumption
  <2>. HIDE DEF kept
  <2>. QED
    BY <2>1, FS_Subset
<1>2. as \in Surjection(kept, made)
  <2>. HIDE DEF kept
  <2>. QED
    BY DEF Surjection
<1>3. Cardinality(made) \in Nat
  <2>. HIDE DEF kept, made, as
  <2>1. IsFiniteSet(made)
    BY <1>1, <1>2, FS_Surjection
  <2>. QED
    BY <2>1, FS_CardinalityType
<1>4. Listing(dir) = list
  BY DEF Listing
<1>5. \A n \in Nat : \A f : f = [i \in 1..n |-> f[i]] => Measured(f)
  <2>. SUFFICES ASSUME NEW n \in Nat, NEW f, f = [i \in 1..n |-> f[i]] PROVE Measured(f)
    OBVIOUS
  <2>. DEFINE S == {f[i] : i \in 1..n}
  <2>1. f \in [1..n -> S]
    OBVIOUS
  <2>. HIDE DEF S
  <2>2. f \in Seq(S) /\ Len(f) = n
    BY <2>1, SeqDef, IsASeq, LenProperties
  <2>3. f = <<>> <=> Len(f) = 0
    BY <2>2, EmptySeq
  <2>. QED
    BY <2>2, <2>3 DEF Measured
<1>. HIDE DEF nth
<1>6. list = [i \in 1..Cardinality(made) |-> list[i]]
  OBVIOUS
<1>. HIDE DEF list, made
<1>. QED
  BY <1>3, <1>4, <1>5, <1>6

\* A set of numbers that is not empty has a least one.
LEMMA LeastIn ==
  ASSUME NEW S, S \subseteq Nat, S # {}
  PROVE  Min(S) \in S /\ \A y \in S : Min(S) <= y
<1>. DEFINE Smaller == {pair \in Nat \X Nat : pair[1] < pair[2]}
<1>1. IsWellFoundedOn(Smaller, Nat)
  BY NatLessThanWellFounded DEF OpToRel
<1>2. PICK x \in S : \A y \in S : <<y, x>> \notin Smaller
  <2>. HIDE DEF Smaller
  <2>. QED
    BY <1>1, WFMin
<1>3. \A y \in S : x <= y
  <2>. SUFFICES ASSUME NEW y \in S, y < x PROVE FALSE
    OBVIOUS
  <2>1. <<y, x>> \in Smaller
    OBVIOUS
  <2>. QED
    BY <1>2, <2>1
<1>. QED
  BY <1>3 DEF Min

\* followWindow() leaves the index in the window and the window on the list.
LEMMA WindowFollows ==
  ASSUME window \in Nat, listIndex \in Nat, NEW length \in Nat, listIndex < length,
         NEW room \in Nat, room > 0, window = 0 \/ window + room <= length
  PROVE  LET w == followWindow(listIndex, room) IN
         /\ w \in Nat /\ w <= listIndex /\ listIndex < w + room
         /\ w = 0 \/ w + room <= length
BY DEF followWindow

\* The first list is the menu, its cursor on its first row.
LEMMA ListInitial == ListInit => ListInv
<1>. SUFFICES ASSUME ListInit PROVE ListInv
  OBVIOUS
<1>1. Measured(<<>>) /\ Len(<<>>) = 0
  BY DEF Measured
<1>2. Measured(entries) /\ listIndex \in Nat /\ OnRow /\ (listScreen = "chapters" => entries # <<>>)
  <2>1. CASE listScreen = "home" /\ listIndex = 0 /\ \E hasContinue \in BOOLEAN : entries = Menu(hasContinue)
    <3>1. entries \in {Menu(TRUE), Menu(FALSE)}
      BY <2>1
    <3>2. Measured(entries) /\ Len(entries) \in {3, 4}
      BY <3>1, MenuSizes
    <3>. QED
      BY <2>1, <3>2 DEF OnRow
  <2>2. CASE InFolders /\ listIndex = 0 /\ entries \in {<<>>, Listing(<<>>)}
    <3>1. Measured(entries)
      BY <1>1, <2>2, ListingSized, ListAssumption
    <3>. QED
      BY <2>2, <3>1 DEF Measured, OnRow, InFolders
  <2>3. CASE listScreen = "chapters" /\ \E list \in ChapterLists, pageNow \in 0..LastPage :
                entries = ChapterRows(list) /\ listIndex = ChapterOf(list, pageNow)
    <3>1. PICK list \in ChapterLists, pageNow \in 0..LastPage : entries = ChapterRows(list) /\ listIndex = ChapterOf(list, pageNow)
      BY <2>3
    <3>2. list \in Seq([first : Int, last : Int]) /\ Len(list) \in Nat
      BY ListAssumption, LenProperties
    <3>. DEFINE head == ListRow("goto", 0)
                row(i) == ListRow("chapter", i)
                under == [i \in 1..Len(list) |-> row(i)]
                T == {head} \cup {row(i) : i \in 1..Len(list)}
    <3>. HIDE DEF head, row
    <3>3. <<head>> \in Seq(T) /\ Len(<<head>>) = 1
      OBVIOUS
    <3>4. under \in Seq(T) /\ Len(under) = Len(list)
      <4>1. under \in [1..Len(list) -> T]
        OBVIOUS
      <4>. HIDE DEF under, T
      <4>. QED
        BY <3>2, <4>1, IsASeq, SeqDef, LenProperties
    <3>5. entries = <<head>> \o under
      BY <3>1 DEF ChapterRows, head, row
    <3>. HIDE DEF under, T
    <3>6. entries \in Seq(T) /\ Len(entries) = 1 + Len(list)
      BY <3>3, <3>4, <3>5, ConcatProperties
    <3>7. Measured(entries)
      BY <3>6, SeqSized
    <3>8. ChapterOf(list, pageNow) \in 0..Len(list)
      <4>. DEFINE holding == {i \in 1..Len(list) : list[i].first <= pageNow /\ pageNow <= list[i].last}
      <4>1. holding \subseteq Nat /\ holding \subseteq 1..Len(list)
        OBVIOUS
      <4>2. ChapterOf(list, pageNow) = IF holding = {} THEN 0 ELSE Min(holding)
        BY DEF ChapterOf
      <4>. HIDE DEF holding
      <4>3. CASE holding = {}
        BY <3>2, <4>2, <4>3
      <4>4. CASE holding # {}
        <5>1. Min(holding) \in holding
          BY <4>1, <4>4, LeastIn
        <5>2. ChapterOf(list, pageNow) \in 1..Len(list)
          BY <4>1, <4>2, <4>4, <5>1
        <5>. QED
          BY <5>2
      <4>. QED
        BY <4>3, <4>4
    <3>9. listIndex \in Nat /\ listIndex < Len(entries)
      BY <3>1, <3>2, <3>6, <3>8
    <3>10. entries # <<>>
      BY <3>2, <3>6, <3>7 DEF Measured
    <3>. QED
      BY <3>7, <3>9, <3>10 DEF OnRow
  <2>4. CASE listScreen = "networks" /\ listIndex = 0 /\ entries = <<>>
    BY <1>1, <2>4 DEF OnRow
  <2>. QED
    BY <2>1, <2>2, <2>3, <2>4 DEF ListInit
<1>3. ListTypes
  <2>1. listScreen \in ListNames /\ window = 0 /\ navigation = 0
    BY DEF ListInit, ListNames
  <2>. QED
    BY <1>2, <2>1 DEF ListTypes
<1>4. MenuRows
  <2>1. listScreen = "home" => entries \in {Menu(TRUE), Menu(FALSE)}
    BY DEF ListInit, InFolders
  <2>. QED
    BY <1>2, <2>1 DEF ListInit, MenuRows
<1>5. NetworkState
  BY DEF ListInit, NetworkState
<1>6. WindowFull /\ ListDrawn
  BY DEF ListInit, WindowFull, ListDrawn
<1>. QED
  BY <1>2, <1>3, <1>4, <1>5, <1>6 DEF ListInv

\* A step that leaves the rows, the cursor and the picture alone, or asks for a new one.
LEMMA Undisturbed ==
  ASSUME ListInv, UNCHANGED <<entries, listIndex, window, display>>,
         navigation' \in Int, listScreen' \in {listScreen, "closed"},
         state' = state \/ (redraw' /\ state # "List" /\ state' # "List"),
         redraw' = redraw \/ redraw'
  PROVE  ListInv'
<1>. USE DEF ListInv
<1>1. ListTypes' /\ OnRow'
  BY DEF ListTypes, OnRow, Measured, ListNames
<1>2. MenuRows'
  BY DEF MenuRows, Menu, ListRow
<1>3. NetworkState'
  BY DEF NetworkState
<1>4. WindowFull'
  BY DEF WindowFull, VisibleRows, Top, Bottom, RowHeight
<1>5. ListDrawn'
  <2>1. CASE listScreen' = "closed" \/ redraw'
    BY <2>1 DEF ListDrawn
  <2>2. CASE listScreen' = listScreen /\ redraw' = redraw /\ state' = state
    <3>1. Picture' = Picture /\ VisibleRows' = VisibleRows
      BY <2>2 DEF Picture, RowBox, FillRect, VisibleRows, Top, Bottom, RowHeight
    <3>. QED
      BY <2>2, <3>1 DEF ListDrawn
  <2>. QED
    BY <2>1, <2>2
<1>. QED
  BY <1>1, <1>2, <1>3, <1>4, <1>5

\* Rows, index and window of a list that is drawn anew.
LEMMA NewRows ==
  ASSUME ListInv, listScreen' = listScreen, redraw', state' = state \/ (state # "List" /\ state' # "List"),
         Measured(entries'), listIndex' \in Nat, entries' # <<>> => listIndex' < Len(entries'),
         listScreen = "home" => window' = 0 /\ entries' \in {Menu(TRUE), Menu(FALSE)},
         listScreen = "chapters" => entries' # <<>>,
         window' = 0 \/ (entries' = <<>> /\ window' = window) \/ (entries' = entries /\ window' = window),
         navigation' \in Int
  PROVE  ListInv'
<1>. USE DEF ListInv
<1>1. ListTypes' /\ OnRow'
  BY DEF ListTypes, OnRow, Measured
<1>2. MenuRows'
  BY DEF MenuRows, Menu, ListRow
<1>3. NetworkState' /\ ListDrawn'
  BY DEF NetworkState, ListDrawn
<1>4. WindowFull'
  BY DEF WindowFull, VisibleRows, Top, Bottom, RowHeight
<1>. QED
  BY <1>1, <1>2, <1>3, <1>4

\* A render draws the rows of the window it leaves.
LEMMA RowsDrawn ==
  ASSUME ListInv, listScreen \in ListNames, UNCHANGED <<listScreen, state, entries, listIndex, navigation>>, entries # <<>>, DrawRows,
         \/ listScreen = "home" /\ window' = window
         \/ listScreen # "home" /\ window' = followWindow(listIndex, VisibleRows)
  PROVE  ListInv'
<1>. USE DEF ListInv
<1>1. VisibleRows \in Nat /\ VisibleRows > 0
  BY RowsFit DEF ListTypes
<1>2. /\ window \in Nat /\ listIndex \in Nat /\ Len(entries) \in Nat /\ listIndex < Len(entries)
      /\ window = 0 \/ window + VisibleRows <= Len(entries)
  BY DEF ListTypes, Measured, OnRow, WindowFull, ListNames
<1>3. /\ window' \in Nat /\ window' <= listIndex /\ listIndex < window' + VisibleRows
      /\ window' = 0 \/ window' + VisibleRows <= Len(entries)
  <2>1. CASE listScreen = "home" /\ window' = window
    BY <1>2, <2>1 DEF MenuRows, VisibleRows
  <2>2. CASE listScreen # "home" /\ window' = followWindow(listIndex, VisibleRows)
    BY <1>1, <1>2, <2>2, WindowFollows
  <2>. QED
    BY <2>1, <2>2
<1>4. VisibleRows' = VisibleRows
  BY DEF VisibleRows, Top, Bottom, RowHeight
<1>5. display' = Picture'
  <2>1. Picture' = [i \in window' + 1..Min({window' + VisibleRows, Len(entries)}) |->
                      [row |-> entries[i],
                       boxes |-> IF i = listIndex + 1 THEN {RowBox(Top + (i - 1 - window') * RowHeight)} ELSE {}]]
    BY DEF Picture, RowBox, FillRect, VisibleRows, Top, Bottom, RowHeight
  <2>. QED
    BY <2>1 DEF DrawRows
<1>6. ListTypes' /\ OnRow' /\ NetworkState'
  BY <1>3 DEF ListTypes, OnRow, NetworkState, Measured
<1>7. MenuRows'
  BY DEF MenuRows, Menu, ListRow
<1>8. WindowFull'
  BY <1>3, <1>4 DEF WindowFull
<1>9. ListDrawn'
  BY <1>3, <1>4, <1>5 DEF ListDrawn
<1>. QED
  BY <1>6, <1>7, <1>8, <1>9

\* A render of no rows draws a text.
LEMMA TextDrawn ==
  ASSUME ListInv, UNCHANGED <<listScreen, state, entries, listIndex, navigation>>, DrawText,
         window' \in Nat, listScreen # "home",
         entries = <<>> \/ (window' = window /\ state \notin {"List", "NetworkList"})
  PROVE  ListInv'
<1>. USE DEF ListInv
<1>1. ListTypes' /\ OnRow' /\ NetworkState' /\ MenuRows'
  BY DEF ListTypes, OnRow, NetworkState, Measured, MenuRows
<1>2. WindowFull'
  BY DEF WindowFull, VisibleRows, Top, Bottom, RowHeight
<1>3. ListDrawn'
  BY DEF ListDrawn, DrawText
<1>. QED
  BY <1>1, <1>2, <1>3

\* Every step of the lists keeps their invariant.
LEMMA ListStep == ListInv /\ [ListNext]_listVars => ListInv'
<1>. SUFFICES ASSUME ListInv, [ListNext]_listVars PROVE ListInv'
  OBVIOUS
<1>a. /\ Measured(entries) /\ listIndex \in Nat /\ window \in Nat /\ navigation \in Int
      /\ listScreen \in ListNames \cup {"closed"}
      /\ listScreen # "closed" => (listScreen = "networks" <=> state # "List")
      /\ entries # <<>> => listIndex < Len(entries)
      /\ listScreen = "home" => window = 0 /\ entries \in {Menu(TRUE), Menu(FALSE)}
      /\ listScreen = "chapters" => entries # <<>>
  BY DEF ListInv, ListTypes, NetworkState, OnRow, MenuRows
<1>b. Measured(<<>>) /\ Len(<<>>) = 0
  BY DEF Measured
<1>1. CASE Tap
  <2>1. /\ UNCHANGED <<entries, listIndex, window, display, listScreen, state, redraw>>
        /\ navigation' \in Int
    BY <1>1, ListAssumption DEF Tap, cursorVars
  <2>. QED
    BY <2>1, Undisturbed
<1>2. CASE Move
  <2>1. CASE entries = <<>>
    <3>1. /\ UNCHANGED <<entries, listIndex, window, display, listScreen, state, redraw>>
          /\ navigation' = 0
      BY <1>2, <2>1 DEF Move
    <3>. QED
      BY <3>1, Undisturbed
  <2>2. CASE entries # <<>>
    <3>1. /\ UNCHANGED <<entries, window, listScreen, state>> /\ redraw' /\ navigation' = 0
          /\ listIndex' = wrapIndex(listIndex, navigation, Len(entries))
      BY <1>2, <2>2 DEF Move, Asked
    <3>2. Len(entries) \in Nat /\ Len(entries) > 0
      BY <1>a, <2>2 DEF Measured
    <3>3. listIndex' \in Nat /\ listIndex' < Len(entries)
      BY <1>a, <3>1, <3>2 DEF wrapIndex
    <3>4. navigation' \in Int /\ Measured(entries') /\ (entries' # <<>> => listIndex' < Len(entries'))
      BY <1>a, <3>1, <3>3
    <3>5. /\ listScreen = "home" => window' = 0 /\ entries' \in {Menu(TRUE), Menu(FALSE)}
          /\ listScreen = "chapters" => entries' # <<>>
      BY <1>a, <3>1
    <3>. QED
      BY <3>1, <3>3, <3>4, <3>5, NewRows
  <2>. QED
    BY <2>1, <2>2
<1>3. ASSUME NEW dir, LoadFolder(dir, 0), InFolders, UNCHANGED <<listScreen, state, navigation>>
      PROVE  ListInv'
  <2>1. redraw' /\ listScreen # "home" /\ listScreen # "chapters"
    BY <1>3 DEF LoadFolder, Asked, InFolders
  <2>2. CASE dir \in DOMAIN Card /\ entries' = Listing(dir) /\ listIndex' = (IF 0 >= Len(entries') THEN 0 ELSE 0) /\ window' = 0
    <3>1. Measured(entries') /\ listIndex' = 0
      BY <2>2, ListingSized
    <3>2. entries' # <<>> => listIndex' < Len(entries')
      BY <3>1 DEF Measured
    <3>3. navigation' \in Int /\ listIndex' \in Nat
      BY <1>3, <1>a, <3>1
    <3>. QED
      BY <1>3, <2>1, <2>2, <3>1, <3>2, <3>3, NewRows
  <2>3. CASE entries' = <<>> /\ listIndex' = 0 /\ UNCHANGED window
    BY <1>3, <1>a, <1>b, <2>1, <2>3, NewRows
  <2>. QED
    BY <1>3, <2>2, <2>3 DEF LoadFolder
<1>4. ASSUME Close PROVE ListInv'
  BY <1>4, <1>a, Undisturbed DEF Close, cursorVars
<1>5. CASE GoUp
  <2>1. CASE Close
    BY <2>1, <1>4
  <2>2. CASE LoadFolder(Front(place), 0) /\ InFolders /\ UNCHANGED <<listScreen, state, navigation>>
    BY <2>2, <1>3
  <2>. QED
    BY <1>5, <2>1, <2>2 DEF GoUp
<1>6. CASE OpenFolder
  <2>1. LoadFolder(Append(place, Target.name), 0) /\ InFolders /\ UNCHANGED <<listScreen, state, navigation>>
    BY <1>6 DEF OpenFolder
  <2>. QED
    BY <2>1, <1>3
<1>7. CASE OpenFile \/ GoOn \/ AskPassword \/ Connected
  <2>1. UNCHANGED <<entries, listIndex, window, display, listScreen, state, redraw, navigation>>
    BY <1>7 DEF OpenFile, GoOn, AskPassword, Connected, cursorVars
  <2>. QED
    BY <1>a, <2>1, Undisturbed
<1>8. CASE JumpToChapter \/ Back
  BY <1>8, <1>4 DEF JumpToChapter, Back
<1>9. CASE Resume
  <2>1. /\ UNCHANGED <<listScreen, state, window>> /\ redraw' /\ navigation' = 0
    BY <1>9 DEF Resume, Asked
  <2>2. CASE listScreen = "home"
    <3>1. PICK hasContinue \in BOOLEAN : entries' = Menu(hasContinue) /\ listIndex' = IF listIndex >= Len(entries') THEN 0 ELSE listIndex
      BY <1>9, <2>2 DEF Resume
    <3>2. entries' = Menu(TRUE) \/ entries' = Menu(FALSE)
      BY <3>1
    <3>3. Measured(entries') /\ Len(entries') \in {3, 4}
      BY <3>2, MenuSizes
    <3>4. listIndex' \in Nat /\ listIndex' < Len(entries')
      BY <1>a, <3>1, <3>3
    <3>5. navigation' \in Int
      BY <2>1
    <3>6. window' = 0 /\ entries' \in {Menu(TRUE), Menu(FALSE)}
      BY <1>a, <2>1, <2>2, <3>2
    <3>. QED
      BY <2>1, <2>2, <3>3, <3>4, <3>5, <3>6, NewRows
  <2>3. CASE listScreen # "home"
    <3>1. UNCHANGED <<entries, listIndex>>
      BY <1>9, <2>3 DEF Resume
    <3>2. navigation' \in Int
      BY <2>1
    <3>3. /\ Measured(entries') /\ listIndex' \in Nat /\ (entries' # <<>> => listIndex' < Len(entries'))
          /\ listScreen = "chapters" => entries' # <<>>
      BY <1>a, <3>1
    <3>. QED
      BY <2>1, <2>3, <3>1, <3>2, <3>3, NewRows
  <2>. QED
    BY <2>2, <2>3
<1>10. CASE ScanComplete
  <2>1. PICK found \in Scans : entries' = found
    BY <1>10 DEF ScanComplete
  <2>2. found \in Seq([kind : {"open", "locked"}, name : Nat])
    BY ListAssumption
  <2>3. Measured(entries')
    BY <2>1, <2>2, SeqSized
  <2>4. UNCHANGED <<listScreen, navigation>> /\ redraw' /\ state = "Scanning" /\ state' = "NetworkList" /\ listIndex' = 0 /\ window' = 0
    BY <1>10 DEF ScanComplete, ToState, Asked
  <2>5. entries' # <<>> => listIndex' < Len(entries')
    BY <2>3, <2>4 DEF Measured
  <2>6. listScreen # "home" /\ listScreen # "chapters"
    BY <1>a, <1>10 DEF ScanComplete, Active
  <2>. QED
    BY <1>a, <1>10, <2>3, <2>4, <2>5, <2>6, NewRows
<1>11. CASE SelectNetwork \/ PasswordEntered \/ ConnectFailed \/ TryAgain
  <2>1. /\ UNCHANGED <<entries, listIndex, window, display, listScreen, navigation>> /\ redraw'
        /\ state # "List" /\ state' # "List"
    BY <1>a, <1>11 DEF SelectNetwork, PasswordEntered, ConnectFailed, TryAgain, ToState, Asked, cursorVars
  <2>. QED
    BY <1>a, <2>1, Undisturbed
<1>12. CASE DrawMenu
  <2>1. /\ UNCHANGED <<listScreen, state, entries, listIndex, navigation, window>> /\ listScreen = "home" /\ DrawRows
    BY <1>12 DEF DrawMenu, Drawing
  <2>2. entries # <<>> /\ listScreen \in ListNames
    <3>1. Len(entries) \in {3, 4}
      BY <1>a, <2>1, MenuSizes
    <3>. QED
      BY <1>b, <2>1, <3>1 DEF ListNames
  <2>. QED
    BY <2>1, <2>2, RowsDrawn
<1>c. window' = followWindow(listIndex, VisibleRows) /\ listScreen \in ListNames => window' \in Nat
  <2>1. listScreen \in ListNames => VisibleRows \in Nat
    BY RowsFit DEF ListInv, ListTypes
  <2>. QED
    BY <1>a, <2>1 DEF followWindow
<1>13. CASE DrawFolder \/ DrawChapters \/ DrawNetworks
  <2>1. /\ UNCHANGED <<listScreen, state, entries, listIndex, navigation>>
        /\ listScreen \in ListNames /\ listScreen # "home"
    BY <1>13 DEF DrawFolder, DrawChapters, DrawNetworks, Drawing, ListNames
  <2>2. CASE entries # <<>> /\ DrawRows /\ window' = followWindow(listIndex, VisibleRows)
    BY <2>1, <2>2, RowsDrawn
  <2>3. CASE DrawText /\ entries = <<>> /\ window' \in Nat
    BY <2>1, <2>3, TextDrawn
  <2>4. CASE DrawText /\ UNCHANGED window /\ state \notin {"List", "NetworkList"}
    BY <1>a, <2>1, <2>4, TextDrawn
  <2>5. CASE DrawFolder
    BY <1>c, <2>1, <2>2, <2>3, <2>5 DEF DrawFolder
  <2>6. CASE DrawChapters
    BY <1>a, <2>1, <2>2, <2>6 DEF DrawChapters, Drawing
  <2>7. CASE DrawNetworks
    BY <1>a, <1>c, <2>1, <2>2, <2>3, <2>4, <2>7 DEF DrawNetworks, Drawing
  <2>. QED
    BY <1>13, <2>5, <2>6, <2>7
<1>14. CASE UNCHANGED listVars
  BY <1>14, <1>a, Undisturbed DEF listVars, cursorVars
<1>. QED
  BY <1>1, <1>2, <1>5, <1>6, <1>7, <1>8, <1>9, <1>10, <1>11, <1>12, <1>13, <1>14 DEF ListNext

\* On every display, for every card, scan and book: an index that Confirm would use is that of
\* the row render() marked, the list on the panel is the rows around it, and no box reaches
\* past the panel.  (HomeActivity, FileBrowserActivity, ChapterListActivity,
\* WifiSelectionActivity and the lists drawn by UiList.)
THEOREM RowsShown == ListSpec => []RowsAsShown
<1>1. ListSpec => []ListInv
  BY ListInitial, ListStep, PTL DEF ListSpec
<1>. QED
  BY <1>1, ListInvShows, PTL

-----------------------------------------------------------------------------

\* TextLayout: a line as it is measured and drawn, in every font.

\* Where a loop is in a line: what it has still to read, and its pen.
PlaceAt(more, pen, prev, advance) == [more |-> more, pen |-> pen, prev |-> prev, advance |-> advance]

\* The glyph that is next there, where it goes, and whether the font has it.
Joined(w) == Ligated(Head(w.more), Tail(w.more))
PenAt(w) == IF w.prev # None THEN w.pen + ToPixel(w.advance + Kerning(w.prev, Joined(w).cp)) ELSE w.pen
InFont(w) == Head(w.more) \notin Marks /\ HasGlyph(Joined(w).cp)

\* Where the measuring loop is a character later.
After(w) ==
  IF Head(w.more) \in Marks THEN PlaceAt(Tail(w.more), w.pen, w.prev, w.advance)
  ELSE IF HasGlyph(Joined(w).cp) THEN PlaceAt(Joined(w).rest, PenAt(w), Joined(w).cp, Glyphs[Joined(w).cp].advance)
  ELSE PlaceAt(Joined(w).rest, w.pen + ToPixel(w.advance), None, 0)

\* The bounds hold the glyph that is next.
Holds(b, w) ==
  InFont(w) =>
    LET g == Glyphs[Joined(w).cp] IN
    /\ b.minX <= PenAt(w) + g.left /\ PenAt(w) + g.left + g.width <= b.maxX
    /\ b.minY <= g.top - g.height /\ g.top <= b.maxY

\* A pen is a number, and no advance waits before the first glyph.
PlaceSound(w) == w.pen \in Int /\ w.advance \in Int /\ (w.prev = None => w.advance = 0)

\* The types of the measured bounds and of the last base glyph.
Boxes == [minX : Int, maxX : Int, minY : Int, maxY : Int]
LineTypes ==
  /\ bounds \in Boxes
  /\ lastBase \in [left : Int, width : Int, top : Int]

\* The places the measuring loop has been to, from the start of the line, and the bounds
\* hold what is between them.
MeasuredTo == PlaceAt(rest, penX, prevCp, prevAdvance)
MeasuringLine ==
  walk = "measure" => ink = {} /\
    \E R : /\ PlaceAt(text, 0, None, 0) \in R /\ MeasuredTo \in R
           /\ \A w \in R : PlaceSound(w)
           /\ \A w \in R : w # MeasuredTo => After(w) \in R /\ Holds(bounds, w)

\* The drawing loop is in one of those places, seen from where the line begins; after a
\* character that has no glyph it remembers that one.
Follows(w) ==
  /\ rest = w.more /\ penX = x0 + w.pen /\ prevAdvance = w.advance
  /\ prevCp = w.prev \/ (w.prev = None /\ ~HasGlyph(prevCp))
\* A box that was inked lies in the bounds, seen from the start of the line.
BoxInside(box) ==
  /\ x0 + bounds.minX <= box.left /\ box.right <= x0 + bounds.maxX
  /\ bounds.minY <= box.bottom /\ box.top <= bounds.maxY
  /\ box.left \in Int /\ box.right \in Int
\* While a line is drawn: the places measured are those the pen will be at.
DrawingLine ==
  walk = "draw" =>
    /\ x0 = Half(LogicalWidth - TextWidth)
    /\ \A box \in ink : BoxInside(box)
    /\ \E R : /\ \A w \in R : PlaceSound(w)
              /\ \A w \in R : w.more # <<>> => After(w) \in R /\ Holds(bounds, w)
              /\ \E w \in R : Follows(w)

TextInv == LineTypes /\ MeasuringLine /\ DrawingLine

\* What a font is made of.
LEMMA GlyphTypes ==
  /\ \A cp : HasGlyph(cp) => /\ cp # None
                             /\ Glyphs[cp].advance \in Nat /\ Glyphs[cp].width \in Nat /\ Glyphs[cp].height \in Nat
                             /\ Glyphs[cp].left \in Int /\ Glyphs[cp].top \in Int
  /\ \A l, r : Kerning(l, r) \in Int
  /\ \A l, r : ~HasGlyph(l) \/ ~HasGlyph(r) => Kerning(l, r) = 0
  /\ \A n \in Int : ToPixel(n) \in Int
  /\ ToPixel(0) = 0
<1>1. /\ \A cp \in DOMAIN Glyphs : Glyphs[cp] \in [advance : Nat, width : Nat, left : Int, top : Int, height : Nat]
      /\ 0 \notin DOMAIN Glyphs
  BY FontAssumption
<1>2. \A cp : HasGlyph(cp) => /\ cp # None
                             /\ Glyphs[cp].advance \in Nat /\ Glyphs[cp].width \in Nat /\ Glyphs[cp].height \in Nat
                             /\ Glyphs[cp].left \in Int /\ Glyphs[cp].top \in Int
  BY <1>1 DEF HasGlyph, None
<1>3. \A l, r : Kerning(l, r) \in Int
  BY FontAssumption DEF Kerning
<1>4. \A l, r : ~HasGlyph(l) \/ ~HasGlyph(r) => Kerning(l, r) = 0
  BY FontAssumption DEF Kerning, HasGlyph
<1>5. (\A n \in Int : ToPixel(n) \in Int) /\ ToPixel(0) = 0
  BY DEF ToPixel
<1>. QED
  BY <1>2, <1>3, <1>4, <1>5

\* Bounds that are extended hold what they held and the box they are extended by.
LEMMA ExtendHolds ==
  ASSUME bounds \in Boxes, NEW left \in Int, NEW right \in Int, NEW bottom \in Int, NEW top \in Int,
         Extend(left, right, bottom, top)
  PROVE  /\ bounds' \in Boxes
         /\ bounds'.minX <= bounds.minX /\ bounds.maxX <= bounds'.maxX
         /\ bounds'.minY <= bounds.minY /\ bounds.maxY <= bounds'.maxY
         /\ bounds'.minX <= left /\ right <= bounds'.maxX /\ bounds'.minY <= bottom /\ top <= bounds'.maxY
<1>1. bounds.minX \in Int /\ bounds.maxX \in Int /\ bounds.minY \in Int /\ bounds.maxY \in Int
  BY DEF Boxes
<1>2. /\ Min({bounds.minX, left}) = (IF bounds.minX <= left THEN bounds.minX ELSE left)
      /\ Max({bounds.maxX, right}) = (IF bounds.maxX >= right THEN bounds.maxX ELSE right)
      /\ Min({bounds.minY, bottom}) = (IF bounds.minY <= bottom THEN bounds.minY ELSE bottom)
      /\ Max({bounds.maxY, top}) = (IF bounds.maxY >= top THEN bounds.maxY ELSE top)
  BY <1>1, LeastOf
<1>3. /\ bounds'.minX = (IF bounds.minX <= left THEN bounds.minX ELSE left)
      /\ bounds'.maxX = (IF bounds.maxX >= right THEN bounds.maxX ELSE right)
      /\ bounds'.minY = (IF bounds.minY <= bottom THEN bounds.minY ELSE bottom)
      /\ bounds'.maxY = (IF bounds.maxY >= top THEN bounds.maxY ELSE top)
      /\ bounds' = [minX |-> bounds'.minX, maxX |-> bounds'.maxX, minY |-> bounds'.minY, maxY |-> bounds'.maxY]
  BY <1>2 DEF Extend
<1>. QED
  BY <1>1, <1>3 DEF Boxes

\* Bounds that are extended hold the glyphs they held.
LEMMA HoldsMore ==
  ASSUME bounds \in Boxes, bounds' \in Boxes, NEW w, PlaceSound(w), Holds(bounds, w),
         bounds'.minX <= bounds.minX, bounds.maxX <= bounds'.maxX,
         bounds'.minY <= bounds.minY, bounds.maxY <= bounds'.maxY
  PROVE  Holds(bounds', w)
<1>. SUFFICES ASSUME InFont(w) PROVE Holds(bounds', w)
  BY DEF Holds
<1>. DEFINE g == Glyphs[Joined(w).cp]
<1>1. g.width \in Int /\ g.height \in Int /\ g.left \in Int /\ g.top \in Int
  BY GlyphTypes DEF InFont
<1>2. PenAt(w) \in Int
  BY GlyphTypes DEF PenAt, PlaceSound
<1>3. /\ bounds.minX <= PenAt(w) + g.left /\ PenAt(w) + g.left + g.width <= bounds.maxX
      /\ bounds.minY <= g.top - g.height /\ g.top <= bounds.maxY
  BY DEF Holds
<1>4. /\ bounds.minX \in Int /\ bounds.maxX \in Int /\ bounds.minY \in Int /\ bounds.maxY \in Int
      /\ bounds'.minX \in Int /\ bounds'.maxX \in Int /\ bounds'.minY \in Int /\ bounds'.maxY \in Int
  BY DEF Boxes
<1>. HIDE DEF g
<1>5. /\ bounds'.minX <= PenAt(w) + g.left /\ PenAt(w) + g.left + g.width <= bounds'.maxX
      /\ bounds'.minY <= g.top - g.height /\ g.top <= bounds'.maxY
  BY <1>1, <1>2, <1>3, <1>4
<1>. QED
  BY <1>5 DEF Holds, g

\* One place further, the pen is sound.
LEMMA AfterSound ==
  ASSUME NEW w, PlaceSound(w)
  PROVE  PlaceSound(After(w)) /\ PenAt(w) \in Int
<1>1. PenAt(w) \in Int
  BY GlyphTypes DEF PenAt, PlaceSound
<1>2. CASE Head(w.more) \in Marks
  BY <1>1, <1>2 DEF After, PlaceAt, PlaceSound
<1>3. CASE Head(w.more) \notin Marks /\ HasGlyph(Joined(w).cp)
  BY <1>1, <1>3, GlyphTypes DEF After, PlaceAt, PlaceSound
<1>4. CASE Head(w.more) \notin Marks /\ ~HasGlyph(Joined(w).cp)
  BY <1>1, <1>4, GlyphTypes DEF After, PlaceAt, PlaceSound, None
<1>. QED
  BY <1>1, <1>2, <1>3, <1>4

\* A step of the measuring loop goes one place further and holds what is between.
LEMMA MeasureGoesOn ==
  ASSUME PlaceSound(MeasuredTo), LineTypes, MeasureMark \/ MeasureCharacter
  PROVE  /\ MeasuredTo' = After(MeasuredTo) /\ LineTypes' /\ Holds(bounds', MeasuredTo)
         /\ bounds'.minX <= bounds.minX /\ bounds.maxX <= bounds'.maxX
         /\ bounds'.minY <= bounds.minY /\ bounds.maxY <= bounds'.maxY
<1>1. /\ MeasuredTo.more = rest /\ MeasuredTo.pen = penX /\ MeasuredTo.prev = prevCp /\ MeasuredTo.advance = prevAdvance
      /\ Joined(MeasuredTo) = Next1
  BY DEF MeasuredTo, PlaceAt, Joined, Next1
<1>2. bounds \in Boxes /\ bounds.minX \in Int /\ bounds.maxX \in Int /\ bounds.minY \in Int /\ bounds.maxY \in Int
  BY DEF LineTypes, Boxes
<1>3. penX \in Int /\ lastBase.left \in Int /\ lastBase.width \in Int /\ lastBase.top \in Int
  BY <1>1 DEF PlaceSound, LineTypes
<1>4. CASE MeasureMark
  <2>. DEFINE g == Glyphs[Head(rest)]
              bottom == g.top - g.height
              raise == IF bottom > 0 /\ bottom - lastBase.top < 1 THEN 1 - (bottom - lastBase.top) ELSE 0
              x == penX + lastBase.left + (lastBase.width \div 2) - (g.width \div 2) - g.left
  <2>1. Head(rest) \in Marks /\ rest' = Tail(rest) /\ UNCHANGED <<penX, prevCp, prevAdvance, lastBase>>
    BY <1>4 DEF MeasureMark
  <2>2. MeasuredTo' = After(MeasuredTo)
    BY <1>1, <2>1 DEF MeasuredTo, After, PlaceAt
  <2>3. Holds(bounds', MeasuredTo)
    BY <1>1, <2>1 DEF Holds, InFont
  <2>4. CASE HasGlyph(Head(rest))
    <3>1. g.width \in Nat /\ g.height \in Nat /\ g.left \in Int /\ g.top \in Int
      BY <2>4, GlyphTypes
    <3>2. x \in Int /\ bottom \in Int /\ raise \in Int
      BY <1>3, <3>1
    <3>3. Extend(x + g.left, x + g.left + g.width, bottom - raise, g.top - raise)
      BY <1>4, <2>4 DEF MeasureMark
    <3>. HIDE DEF g, bottom, raise, x
    <3>4. x + g.left \in Int /\ x + g.left + g.width \in Int /\ bottom - raise \in Int /\ g.top - raise \in Int
      BY <3>1, <3>2
    <3>5. /\ bounds' \in Boxes
          /\ bounds'.minX <= bounds.minX /\ bounds.maxX <= bounds'.maxX
          /\ bounds'.minY <= bounds.minY /\ bounds.maxY <= bounds'.maxY
      BY <1>2, <3>3, <3>4, ExtendHolds
    <3>. QED
      BY <2>1, <2>2, <2>3, <3>5 DEF LineTypes
  <2>5. CASE ~HasGlyph(Head(rest))
    <3>1. bounds' = bounds
      BY <1>4, <2>5 DEF MeasureMark
    <3>. QED
      BY <1>2, <2>1, <2>2, <2>3, <3>1 DEF LineTypes
  <2>. QED
    BY <2>4, <2>5
<1>5. CASE MeasureCharacter
  <2>. DEFINE cp == Next1.cp
              g == Glyphs[cp]
              x == IF prevCp # None THEN penX + MeasuredStep(prevCp, cp) ELSE penX
  <2>1. Head(rest) \notin Marks /\ rest' = Next1.rest
    BY <1>5 DEF MeasureCharacter
  <2>2. x = PenAt(MeasuredTo) /\ x \in Int
    <3>1. PenAt(MeasuredTo) \in Int
      BY AfterSound
    <3>. QED
      BY <1>1, <3>1 DEF PenAt, MeasuredStep
  <2>3. CASE HasGlyph(cp)
    <3>1. g.width \in Nat /\ g.height \in Nat /\ g.left \in Int /\ g.top \in Int
      BY <2>3, GlyphTypes
    <3>2. /\ Extend(x + g.left, x + g.left + g.width, g.top - g.height, g.top)
          /\ penX' = x /\ prevCp' = cp /\ prevAdvance' = g.advance
          /\ lastBase' = [left |-> g.left, width |-> g.width, top |-> g.top]
      BY <1>5, <2>3 DEF MeasureCharacter
    <3>3. MeasuredTo' = After(MeasuredTo)
      BY <1>1, <2>1, <2>2, <2>3, <3>2 DEF MeasuredTo, After, PlaceAt
    <3>4. lastBase' \in [left : Int, width : Int, top : Int]
      BY <3>1, <3>2
    <3>. HIDE DEF x, g
    <3>5. x + g.left \in Int /\ x + g.left + g.width \in Int /\ g.top - g.height \in Int /\ g.top \in Int
      BY <2>2, <3>1
    <3>6. /\ bounds' \in Boxes
          /\ bounds'.minX <= bounds.minX /\ bounds.maxX <= bounds'.maxX
          /\ bounds'.minY <= bounds.minY /\ bounds.maxY <= bounds'.maxY
          /\ bounds'.minX <= x + g.left /\ x + g.left + g.width <= bounds'.maxX
          /\ bounds'.minY <= g.top - g.height /\ g.top <= bounds'.maxY
      BY <1>2, <3>2, <3>5, ExtendHolds
    <3>7. Holds(bounds', MeasuredTo)
      BY <1>1, <2>2, <3>6 DEF Holds, g
    <3>. QED
      BY <3>3, <3>4, <3>6, <3>7 DEF LineTypes
  <2>4. CASE ~HasGlyph(cp)
    <3>1. /\ penX' = penX + ToPixel(prevAdvance)
          /\ prevCp' = None /\ prevAdvance' = 0 /\ lastBase' = NoBase
          /\ bounds' = bounds
      BY <1>5, <2>4 DEF MeasureCharacter
    <3>2. MeasuredTo' = After(MeasuredTo)
      BY <1>1, <2>1, <2>4, <3>1 DEF MeasuredTo, After, PlaceAt
    <3>3. Holds(bounds', MeasuredTo)
      BY <1>1, <2>4 DEF Holds, InFont
    <3>4. LineTypes'
      BY <1>2, <3>1 DEF LineTypes, NoBase
    <3>. QED
      BY <1>2, <3>1, <3>2, <3>3, <3>4
  <2>. QED
    BY <2>3, <2>4
<1>. QED
  BY <1>4, <1>5

\* A step of the drawing loop goes to the same place.
LEMMA DrawFollows ==
  ASSUME NEW w, PlaceSound(w), Follows(w), x0 \in Int, SkipMark \/ DrawCharacter
  PROVE  Follows(After(w))'
<1>1. rest = w.more /\ x0' = x0 /\ Next1 = Joined(w)
  BY DEF Follows, SkipMark, DrawCharacter, Next1, Joined
<1>2. CASE SkipMark
  <2>1. Head(rest) \in Marks /\ rest' = Tail(rest) /\ UNCHANGED <<penX, prevCp, prevAdvance>>
    BY <1>2 DEF SkipMark
  <2>. QED
    BY <1>1, <2>1 DEF Follows, After, PlaceAt
<1>3. CASE DrawCharacter
  <2>. DEFINE cp == Next1.cp
              g == Glyphs[cp]
              x == IF prevCp # None THEN penX + ToPixel(prevAdvance + Kerning(prevCp, cp)) ELSE penX
  <2>1. /\ Head(rest) \notin Marks /\ rest' = Next1.rest /\ penX' = x /\ prevCp' = cp
        /\ HasGlyph(cp) => prevAdvance' = g.advance
        /\ ~HasGlyph(cp) => prevAdvance' = 0
    BY <1>3 DEF DrawCharacter
  <2>2. w.pen \in Int /\ PenAt(w) \in Int /\ w.advance \in Int /\ (w.prev = None => w.advance = 0)
    BY AfterSound DEF PlaceSound
  <2>3. x = x0 + PenAt(w)
    <3>1. CASE prevCp = w.prev
      <4>1. ToPixel(prevAdvance + Kerning(prevCp, cp)) \in Int
        BY <2>2, GlyphTypes DEF Follows
      <4>. QED
        BY <1>1, <2>2, <3>1, <4>1 DEF Follows, PenAt
    <3>2. CASE w.prev = None /\ ~HasGlyph(prevCp)
      <4>1. prevAdvance + Kerning(prevCp, cp) = 0
        BY <2>2, <3>2, GlyphTypes DEF Follows
      <4>2. x = penX
        BY <2>2, <4>1, GlyphTypes DEF Follows
      <4>. QED
        BY <3>2, <4>2 DEF Follows, PenAt
    <3>. QED
      BY <3>1, <3>2 DEF Follows
  <2>4. CASE HasGlyph(cp)
    BY <1>1, <2>1, <2>3, <2>4 DEF Follows, After, PlaceAt
  <2>5. CASE ~HasGlyph(cp)
    <3>1. PenAt(w) = w.pen + ToPixel(w.advance)
      <4>1. Kerning(w.prev, cp) = 0
        BY <2>5, GlyphTypes
      <4>. QED
        BY <1>1, <2>2, <4>1, GlyphTypes DEF PenAt
    <3>. QED
      BY <1>1, <2>1, <2>3, <2>5, <3>1 DEF Follows, After, PlaceAt
  <2>. QED
    BY <2>4, <2>5
<1>. QED
  BY <1>2, <1>3

\* Nothing is measured at first.
LEMMA TextInitial == TextInit => TextInv
BY DEF TextInit, TextInv, LineTypes, Boxes, NoBase, MeasuringLine, DrawingLine

\* The box a drawn character leaves is inside the bounds.
LEMMA InkInside ==
  ASSUME NEW w, PlaceSound(w), Follows(w), Holds(bounds, w), x0 \in Int, LineTypes, DrawCharacter,
         \A box \in ink : BoxInside(box)
  PROVE  \A box \in ink' : BoxInside(box)'
<1>. DEFINE cp == Next1.cp
            g == Glyphs[cp]
            x == IF prevCp # None THEN penX + ToPixel(prevAdvance + Kerning(prevCp, cp)) ELSE penX
            new == [left |-> x + g.left, right |-> x + g.left + g.width, bottom |-> g.top - g.height, top |-> g.top]
<1>1. bounds' = bounds /\ x0' = x0 /\ Next1 = Joined(w) /\ penX' = x /\ Head(rest) \notin Marks /\ rest = w.more
  BY DEF DrawCharacter, Follows, Next1, Joined
<1>2. CASE ink' = ink
  BY <1>1, <1>2 DEF BoxInside
<1>3. CASE HasGlyph(cp) /\ ink' = ink \cup {new}
  <2>1. g.width \in Nat /\ g.height \in Nat /\ g.left \in Int /\ g.top \in Int
    BY <1>3, GlyphTypes
  <2>2. PenAt(w) \in Int
    BY AfterSound
  <2>3. x = x0 + PenAt(w)
    <3>1. Follows(After(w))'
      BY DrawFollows
    <3>2. After(w).pen = PenAt(w)
      BY <1>1, <1>3 DEF After, PlaceAt
    <3>. QED
      BY <1>1, <3>1, <3>2 DEF Follows
  <2>4. /\ bounds.minX <= PenAt(w) + g.left /\ PenAt(w) + g.left + g.width <= bounds.maxX
        /\ bounds.minY <= g.top - g.height /\ g.top <= bounds.maxY
    BY <1>1, <1>3 DEF Holds, InFont
  <2>5. bounds.minX \in Int /\ bounds.maxX \in Int
    BY DEF LineTypes, Boxes
  <2>6. new.left = x + g.left /\ new.right = x + g.left + g.width /\ new.bottom = g.top - g.height /\ new.top = g.top
    OBVIOUS
  <2>. HIDE DEF new, x, g
  <2>7. BoxInside(new)
    BY <2>1, <2>2, <2>3, <2>4, <2>5, <2>6 DEF BoxInside
  <2>. QED
    BY <1>1, <1>3, <2>7 DEF BoxInside
<1>. QED
  BY <1>2, <1>3 DEF DrawCharacter

\* Every step of measuring and drawing keeps the invariant.
LEMMA TextStep == TextInv /\ [TextNext]_textVars => TextInv'
<1>. SUFFICES ASSUME TextInv, [TextNext]_textVars PROVE TextInv'
  OBVIOUS
<1>. USE DEF TextInv
<1>1. CASE StartMeasure
  <2>1. LineTypes' /\ walk' = "measure"
    BY <1>1 DEF StartMeasure, ResetPen, LineTypes, NoBase, Boxes
  <2>2. MeasuredTo' = PlaceAt(text, 0, None, 0)'
    BY <1>1 DEF StartMeasure, ResetPen, MeasuredTo, PlaceAt, None
  <2>3. PlaceSound(MeasuredTo')
    BY <2>2 DEF PlaceAt, PlaceSound
  <2>4. MeasuringLine'
    <3>. DEFINE R == {MeasuredTo'}
    <3>1. /\ PlaceAt(text, 0, None, 0)' \in R /\ MeasuredTo' \in R
          /\ \A w \in R : PlaceSound(w)
          /\ \A w \in R : w # MeasuredTo' => After(w) \in R /\ Holds(bounds', w)
      BY <2>2, <2>3
    <3>. HIDE DEF R
    <3>. QED
      BY <1>1, <3>1 DEF MeasuringLine, StartMeasure
  <2>. QED
    BY <2>1, <2>4 DEF DrawingLine
<1>2. CASE StartDraw
  <2>1. walk = "measure" /\ walk' = "draw" /\ bounds' = bounds /\ ink' = ink /\ text' = text /\ rest = <<>> /\ rest' = text
    BY <1>2 DEF StartDraw, ResetPen
  <2>2. x0' = Half(LogicalWidth - TextWidth)'
    BY <1>2 DEF StartDraw, ResetPen, Half, TextWidth
  <2>3. Half(LogicalWidth - TextWidth) \in Int /\ x0' = Half(LogicalWidth - TextWidth)
    BY <1>2, FontAssumption DEF LineTypes, Boxes, Half, TextWidth, StartDraw, ResetPen
  <2>4. /\ x0' \in Int /\ penX' = x0' /\ prevAdvance' = 0 /\ prevCp' = None
    BY <1>2, <2>3 DEF StartDraw, ResetPen
  <2>5. ink' = {}
    BY <2>1 DEF MeasuringLine
  <2>6. PICK R : /\ PlaceAt(text, 0, None, 0) \in R /\ MeasuredTo \in R
                 /\ \A w \in R : PlaceSound(w)
                 /\ \A w \in R : w # MeasuredTo => After(w) \in R /\ Holds(bounds, w)
    BY <2>1 DEF MeasuringLine
  <2>7. \A w \in R : w.more # <<>> => After(w) \in R /\ Holds(bounds', w)
    BY <2>1, <2>6 DEF MeasuredTo, PlaceAt
  <2>8. Follows(PlaceAt(text, 0, None, 0))'
    <3>1. /\ PlaceAt(text, 0, None, 0)'.more = rest' /\ PlaceAt(text, 0, None, 0)'.pen = 0
          /\ PlaceAt(text, 0, None, 0)'.prev = None /\ PlaceAt(text, 0, None, 0)'.advance = 0
      BY <2>1 DEF PlaceAt, None
    <3>2. penX' = x0' + 0
      <4>1. \A n \in Int : n = n + 0
        OBVIOUS
      <4>2. x0' \in Int /\ penX' = x0'
        BY <2>4
      <4>. QED
        BY <4>1, <4>2
    <3>. QED
      BY <2>4, <3>1, <3>2 DEF Follows
  <2>9. PlaceAt(text, 0, None, 0)' = PlaceAt(text, 0, None, 0)
    BY <2>1 DEF PlaceAt
  <2>10. \E w \in R : Follows(w)'
    BY <2>6, <2>8, <2>9 DEF PlaceAt
  <2>11. DrawingLine'
    BY <2>2, <2>5, <2>6, <2>7, <2>10 DEF DrawingLine
  <2>12. LineTypes'
    BY <1>2 DEF StartDraw, ResetPen, LineTypes, NoBase
  <2>. QED
    BY <2>1, <2>11, <2>12 DEF MeasuringLine
<1>3. CASE MeasureMark \/ MeasureCharacter
  <2>1. walk = "measure" /\ walk' = "measure" /\ text' = text /\ ink' = ink
    BY <1>3 DEF MeasureMark, MeasureCharacter
  <2>2. PICK R : /\ PlaceAt(text, 0, None, 0) \in R /\ MeasuredTo \in R
                 /\ \A w \in R : PlaceSound(w)
                 /\ \A w \in R : w # MeasuredTo => After(w) \in R /\ Holds(bounds, w)
    BY <2>1 DEF MeasuringLine
  <2>3. /\ MeasuredTo' = After(MeasuredTo) /\ LineTypes' /\ Holds(bounds', MeasuredTo)
        /\ bounds'.minX <= bounds.minX /\ bounds.maxX <= bounds'.maxX
        /\ bounds'.minY <= bounds.minY /\ bounds.maxY <= bounds'.maxY
    BY <1>3, <2>2, MeasureGoesOn
  <2>. DEFINE V == R \cup {After(MeasuredTo)}
  <2>4. \A w \in V : PlaceSound(w)
    BY <2>2, AfterSound
  <2>5. \A w \in R : w # MeasuredTo => After(w) \in V /\ Holds(bounds', w)
    BY <2>2, <2>3, HoldsMore DEF LineTypes
  <2>6. \A w \in V : w # MeasuredTo' => After(w) \in V /\ Holds(bounds', w)
    BY <2>2, <2>3, <2>5
  <2>7. PlaceAt(text, 0, None, 0)' \in V /\ MeasuredTo' \in V
    BY <2>1, <2>2, <2>3 DEF PlaceAt
  <2>. HIDE DEF V
  <2>8. MeasuringLine'
    BY <2>1, <2>4, <2>6, <2>7 DEF MeasuringLine
  <2>. QED
    BY <2>1, <2>3, <2>8 DEF DrawingLine
<1>4. CASE SkipMark \/ DrawCharacter
  <2>1. /\ walk = "draw" /\ walk' = "draw" /\ bounds' = bounds /\ x0' = x0 /\ lastBase' = lastBase /\ rest # <<>>
        /\ TextWidth' = TextWidth
    BY <1>4 DEF SkipMark, DrawCharacter, TextWidth
  <2>2. PICK R : /\ \A w \in R : PlaceSound(w)
                 /\ \A w \in R : w.more # <<>> => After(w) \in R /\ Holds(bounds, w)
                 /\ \E w \in R : Follows(w)
    BY <2>1 DEF DrawingLine
  <2>3. PICK w \in R : Follows(w)
    BY <2>2
  <2>4. PlaceSound(w) /\ After(w) \in R /\ Holds(bounds, w)
    BY <2>1, <2>2, <2>3 DEF Follows
  <2>5. x0 = Half(LogicalWidth - TextWidth) /\ x0 \in Int
    BY <2>1, FontAssumption DEF DrawingLine, LineTypes, Boxes, Half, TextWidth
  <2>6. Follows(After(w))'
    BY <1>4, <2>3, <2>4, <2>5, DrawFollows
  <2>7. \A box \in ink' : BoxInside(box)'
    <3>1. CASE SkipMark
      BY <2>1, <3>1 DEF DrawingLine, SkipMark, BoxInside
    <3>2. CASE DrawCharacter
      BY <2>1, <2>3, <2>4, <2>5, <3>2, InkInside DEF DrawingLine
    <3>. QED
      BY <1>4, <3>1, <3>2
  <2>8. \E v \in R : Follows(v)'
    BY <2>4, <2>6
  <2>9. x0' = Half(LogicalWidth - TextWidth)'
    BY <2>1, <2>5 DEF Half
  <2>10. DrawingLine'
    BY <2>1, <2>2, <2>7, <2>8, <2>9 DEF DrawingLine
  <2>. QED
    BY <2>1, <2>10 DEF LineTypes, MeasuringLine
<1>5. CASE Written \/ UNCHANGED textVars
  <2>1. UNCHANGED textVars
    BY <1>5 DEF Written
  <2>2. LineTypes' /\ MeasuringLine'
    BY <2>1 DEF textVars, LineTypes, MeasuringLine, MeasuredTo, PlaceAt
  <2>3. DrawingLine'
    BY <2>1 DEF textVars, DrawingLine, Follows, BoxInside, Half, TextWidth
  <2>. QED
    BY <2>2, <2>3
<1>. QED
  BY <1>1, <1>2, <1>3, <1>4, <1>5 DEF TextNext

\* In every font, for every line: the box of each glyph that drawText() inks lies in the
\* bounds that getTextBounds() measured, seen from where drawCenteredText() begins the line.
\* (EpdFont::getTextBounds(), GfxRenderer::drawText().)
THEOREM InkInBounds == TextSpec => []InkMeasured
<1>1. TextSpec => []TextInv
  BY TextInitial, TextStep, PTL DEF TextSpec
<1>2. TextInv => InkMeasured
  <2>. SUFFICES ASSUME TextInv, walk = "draw", NEW box \in ink
                PROVE  /\ x0 + bounds.minX <= box.left /\ box.right <= x0 + bounds.maxX
                       /\ bounds.minY <= box.bottom /\ box.top <= bounds.maxY
                       /\ bounds.minX = 0 /\ TextWidth <= LogicalWidth => box.left >= 0 /\ box.right <= LogicalWidth
    BY DEF InkMeasured
  <2>1. BoxInside(box) /\ x0 = Half(LogicalWidth - TextWidth)
    BY DEF TextInv, DrawingLine
  <2>2. bounds.minX \in Int /\ bounds.maxX \in Int /\ LogicalWidth \in Nat
    BY FontAssumption DEF TextInv, LineTypes, Boxes
  <2>3. ASSUME bounds.minX = 0, TextWidth <= LogicalWidth
        PROVE  box.left >= 0 /\ box.right <= LogicalWidth
    <3>1. TextWidth = bounds.maxX /\ x0 = (LogicalWidth - bounds.maxX) \div 2
      BY <2>1, <2>2, <2>3 DEF TextWidth, Half
    <3>2. x0 \in Int /\ x0 >= 0 /\ x0 <= LogicalWidth - bounds.maxX
      BY <2>2, <2>3, <3>1
    <3>. QED
      BY <2>1, <2>2, <2>3, <3>2 DEF BoxInside
  <2>. QED
    BY <2>1, <2>3 DEF BoxInside
<1>. QED
  BY <1>1, <1>2, PTL

-----------------------------------------------------------------------------

\* Utf8: text of any bytes.

\* The values of a byte.
ByteValue == 0..255

\* The value of the bits behind a header, as utf8NextCodepoint() puts it together.
TwoBytes(a, b) == (a % 32) * 64 + (b % 64)
ThreeBytes(a, b, c) == (a % 16) * 4096 + (b % 64) * 64 + (c % 64)
FourBytes(a, b, c, e) == (a % 8) * 262144 + (b % 64) * 4096 + (c % 64) * 64 + (e % 64)

\* Two shifts of six bits are one of twelve, three are one of eighteen.
LEMMA Shifts == ASSUME NEW n \in Nat PROVE n \div 4096 = (n \div 64) \div 64 /\ n \div 262144 = (n \div 4096) \div 64
BY SMT
\* What a mask leaves.
LEMMA LowBits == ASSUME NEW n \in Nat PROVE n % 64 \in 0..63 /\ (n % 16) \in 0..15 /\ (n % 8) \in 0..7
BY SMT
\* A codepoint put together of its payloads can be taken apart again.
LEMMA ThreeDigits ==
  ASSUME NEW a \in ByteValue, NEW b \in ByteValue, NEW c \in ByteValue, NEW cp, cp = ThreeBytes(a, b, c)
  PROVE  /\ cp \in Nat /\ cp <= 65535 /\ cp \div 4096 = (a % 16)
         /\ ((cp \div 64) % 64) = (b % 64) /\ (cp % 64) = (c % 64)
<1>. DEFINE x == a % 16  y == b % 64   z == c % 64
<1>1. x \in 0..15 /\ y \in 0..63 /\ z \in 0..63
  BY SMT, LowBits DEF ByteValue
<1>2. cp = x * 4096 + y * 64 + z
  BY SMT DEF ThreeBytes
<1>. HIDE DEF x, y, z
<1>a. cp \in Nat /\ cp <= 65535
  BY SMT, <1>1, <1>2
<1>3. cp = (x * 64 + y) * 64 + z
  BY SMT, <1>1, <1>2
<1>4. x * 64 + y \in Nat
  BY SMT, <1>1
<1>5. cp \div 64 = x * 64 + y /\ (cp % 64) = z
  BY SMT, <1>1, <1>3, <1>4
<1>6. cp \div 4096 = x /\ ((cp \div 64) % 64) = y
  BY SMT, <1>1, <1>5, <1>a, Shifts
<1>. QED
  BY SMT, <1>a, <1>5, <1>6 DEF x, y, z

\* The digits to base 64 of a codepoint assembled of four bytes.
LEMMA FourDigits ==
  ASSUME NEW a \in ByteValue, NEW b \in ByteValue, NEW c \in ByteValue, NEW e \in ByteValue,
         NEW cp, cp = FourBytes(a, b, c, e)
  PROVE  /\ cp \in Nat /\ cp <= 2097151 /\ cp \div 262144 = (a % 8) /\ ((cp \div 4096) % 64) = (b % 64)
         /\ ((cp \div 64) % 64) = (c % 64) /\ (cp % 64) = (e % 64)
<1>. DEFINE x == a % 8  y == b % 64   z == c % 64  w == e % 64
<1>1. x \in 0..7 /\ y \in 0..63 /\ z \in 0..63 /\ w \in 0..63
  BY SMT, LowBits DEF ByteValue
<1>2. cp = x * 262144 + y * 4096 + z * 64 + w
  BY SMT DEF FourBytes
<1>. HIDE DEF x, y, z, w
<1>a. cp \in Nat /\ cp <= 2097151
  BY SMT, <1>1, <1>2
<1>3. cp = ((x * 64 + y) * 64 + z) * 64 + w
  BY SMT, <1>1, <1>2
<1>4. (x * 64 + y) * 64 + z \in Nat
  BY SMT, <1>1
<1>5. cp \div 64 = (x * 64 + y) * 64 + z /\ (cp % 64) = w
  BY SMT, <1>1, <1>3, <1>4
<1>6. (cp \div 64) \div 64 = x * 64 + y /\ ((cp \div 64) % 64) = z
  BY SMT, <1>1, <1>5
<1>7. cp \div 4096 = x * 64 + y
  BY SMT, <1>6, <1>a, Shifts
<1>8. cp \div 262144 = x /\ ((cp \div 4096) % 64) = y
  BY SMT, <1>1, <1>7, <1>a, Shifts
<1>. QED
  BY SMT, <1>a, <1>5, <1>6, <1>8 DEF x, y, z, w

\* Which sequences of one, two, three and four bytes encode a scalar value, by the masks
\* and ranges the reader uses.
LEMMA Formed1 == ASSUME NEW a \in ByteValue
  PROVE  (WellFormed(<<a>>) <=> a < 128) /\ (a < 128 => Encoding(a) = <<a>>)
<1>1. WellFormed(<<a>>) <=> IsScalar(a) /\ Encoding(a) = <<a>>
  BY DEF WellFormed
<1>2. CASE a < 128
  <2>1. Encoding(a) = <<a>> /\ IsScalar(a)
    BY <1>2 DEF IsScalar, Encoding, ByteValue
  <2>. QED
    BY <1>1, <1>2, <2>1
<1>3. CASE ~(a < 128)
  <2>1. a < 2048 /\ ~(a < 128)
    BY <1>3 DEF ByteValue
  <2>2. Encoding(a) = <<192 + (a \div 64), 128 + (a % 64)>>
    BY <2>1 DEF Encoding
  <2>3. Len(<<a>>) = 1 /\ Len(<<192 + (a \div 64), 128 + (a % 64)>>) = 2
    OBVIOUS
  <2>4. Encoding(a) # <<a>>
    BY <2>2, <2>3
  <2>. QED
    BY <1>1, <1>3, <2>4
<1>. QED
  BY <1>2, <1>3

\* Two bytes are a character by their first bits and the value they make.
LEMMA Formed2 ==
  ASSUME NEW a \in ByteValue, NEW b \in ByteValue
  PROVE  /\ WellFormed(<<a, b>>) <=> a \div 32 = 6 /\ b \div 64 = 2 /\ TwoBytes(a, b) >= 128
         /\ WellFormed(<<a, b>>) => Encoding(TwoBytes(a, b)) = <<a, b>>
<1>. DEFINE cp == TwoBytes(a, b)
<1>1. cp \in 0..2047 /\ cp \div 64 = a % 32 /\ cp % 64 = b % 64
  BY DEF TwoBytes, ByteValue
<1>2. WellFormed(<<a, b>>) <=> IsScalar(cp) /\ Encoding(cp) = <<a, b>>
  BY DEF WellFormed, TwoBytes
<1>. HIDE DEF cp
<1>3. CASE cp < 128
  <2>1. Encoding(cp) = <<cp>>
    BY <1>3 DEF Encoding
  <2>2. Len(<<cp>>) = 1 /\ Len(<<a, b>>) = 2
    OBVIOUS
  <2>3. Encoding(cp) # <<a, b>>
    BY <2>1, <2>2
  <2>4. ~(cp >= 128)
    BY <1>1, <1>3
  <2>. QED
    BY <1>2, <2>3, <2>4 DEF cp
<1>4. CASE ~(cp < 128)
  <2>0. cp < 2048
    BY <1>1
  <2>1. Encoding(cp) = <<192 + (cp \div 64), 128 + (cp % 64)>>
    BY <1>4, <2>0 DEF Encoding
  <2>1a. Encoding(cp) = <<192 + (a % 32), 128 + (b % 64)>>
    BY <1>1, <2>1
  <2>2. Encoding(cp) = <<a, b>> <=> 192 + (a % 32) = a /\ 128 + (b % 64) = b
    BY <2>1a
  <2>3. (192 + (a % 32) = a <=> a \div 32 = 6) /\ (128 + (b % 64) = b <=> b \div 64 = 2)
    BY DEF ByteValue
  <2>4. cp >= 128 /\ IsScalar(cp)
    BY <1>1, <1>4 DEF IsScalar
  <2>. QED
    BY <1>2, <2>4, <2>2, <2>3 DEF cp
<1>. QED
  BY <1>3, <1>4

\* Three bytes are.
LEMMA Formed3 ==
  ASSUME NEW a \in ByteValue, NEW b \in ByteValue, NEW c \in ByteValue
  PROVE  /\ WellFormed(<<a, b, c>>) <=>
              a \div 16 = 14 /\ b \div 64 = 2 /\ c \div 64 = 2 /\ ~Rejected(3, ThreeBytes(a, b, c))
         /\ WellFormed(<<a, b, c>>) => Encoding(ThreeBytes(a, b, c)) = <<a, b, c>>
<1>. DEFINE cp == ThreeBytes(a, b, c)
<1>0. cp = ThreeBytes(a, b, c)
  OBVIOUS
<1>. HIDE DEF cp
<1>1. /\ cp \in Nat /\ cp <= 65535 /\ cp \div 4096 = (a % 16)
      /\ ((cp \div 64) % 64) = (b % 64) /\ (cp % 64) = (c % 64)
  BY SMT, <1>0, ThreeDigits
<1>2. WellFormed(<<a, b, c>>) <=> IsScalar(cp) /\ Encoding(cp) = <<a, b, c>>
  BY SMT DEF WellFormed, ThreeBytes, cp
<1>3. CASE cp < 2048
  <2>1. ASSUME cp < 128 PROVE Encoding(cp) # <<a, b, c>>
    <3>1. Encoding(cp) = <<cp>>
      BY SMT, <2>1 DEF Encoding
    <3>2. Len(<<cp>>) = 1 /\ Len(<<a, b, c>>) = 3
      BY SMT
    <3>. QED
      BY SMT, <3>1, <3>2
  <2>2. ASSUME ~(cp < 128) PROVE Encoding(cp) # <<a, b, c>>
    <3>1. Encoding(cp) = <<192 + (cp \div 64), 128 + (cp % 64)>>
      BY SMT, <2>2, <1>3 DEF Encoding
    <3>2. Len(<<192 + (cp \div 64), 128 + (cp % 64)>>) = 2 /\ Len(<<a, b, c>>) = 3
      BY SMT
    <3>. QED
      BY SMT, <3>1, <3>2
  <2>3. Encoding(cp) # <<a, b, c>>
    BY SMT, <2>1, <2>2
  <2>4. Rejected(3, cp)
    BY SMT, <1>3 DEF Rejected
  <2>. QED
    BY SMT, <1>2, <2>3, <2>4 DEF cp
<1>4. CASE ~(cp < 2048)
  <2>0. cp < 65536 /\ ~(cp < 128)
    BY SMT, <1>1, <1>4
  <2>1. Encoding(cp) = <<224 + (cp \div 4096), 128 + ((cp \div 64) % 64), 128 + (cp % 64)>>
    BY SMT, <1>4, <2>0 DEF Encoding
  <2>1a. Encoding(cp) = <<224 + (a % 16), 128 + (b % 64), 128 + (c % 64)>>
    BY SMT, <1>1, <2>1
  <2>2. Encoding(cp) = <<a, b, c>> <=> 224 + (a % 16) = a /\ 128 + (b % 64) = b /\ 128 + (c % 64) = c
    BY SMT, <2>1a
  <2>3. (224 + (a % 16) = a <=> a \div 16 = 14) /\ (128 + (b % 64) = b <=> b \div 64 = 2)
          /\ (128 + (c % 64) = c <=> c \div 64 = 2)
    BY SMT DEF ByteValue
  <2>4. ~Rejected(3, cp) <=> IsScalar(cp)
    BY SMT, <1>1, <1>4 DEF IsScalar, Rejected
  <2>. QED
    BY SMT, <1>2, <2>4, <2>2, <2>3 DEF cp
<1>. QED
  BY SMT, <1>3, <1>4

\* Four bytes are.
LEMMA Formed4 ==
  ASSUME NEW a \in ByteValue, NEW b \in ByteValue, NEW c \in ByteValue, NEW e \in ByteValue
  PROVE  /\ WellFormed(<<a, b, c, e>>) <=>
              a \div 8 = 30 /\ b \div 64 = 2 /\ c \div 64 = 2 /\ e \div 64 = 2
                /\ ~Rejected(4, FourBytes(a, b, c, e))
         /\ WellFormed(<<a, b, c, e>>) => Encoding(FourBytes(a, b, c, e)) = <<a, b, c, e>>
<1>. DEFINE cp == FourBytes(a, b, c, e)
<1>0. cp = FourBytes(a, b, c, e)
  OBVIOUS
<1>. HIDE DEF cp
<1>1. /\ cp \in Nat /\ cp <= 2097151 /\ cp \div 262144 = (a % 8) /\ ((cp \div 4096) % 64) = (b % 64)
      /\ ((cp \div 64) % 64) = (c % 64) /\ (cp % 64) = (e % 64)
  BY SMT, <1>0, FourDigits
<1>2. WellFormed(<<a, b, c, e>>) <=> IsScalar(cp) /\ Encoding(cp) = <<a, b, c, e>>
  BY SMT DEF WellFormed, FourBytes, cp
<1>3. CASE cp < 65536
  <2>1. ASSUME cp < 128 PROVE Encoding(cp) # <<a, b, c, e>>
    <3>1. Encoding(cp) = <<cp>>
      BY SMT, <2>1 DEF Encoding
    <3>2. Len(<<cp>>) = 1 /\ Len(<<a, b, c, e>>) = 4
      BY SMT
    <3>. QED
      BY SMT, <3>1, <3>2
  <2>2. ASSUME ~(cp < 128) /\ cp < 2048 PROVE Encoding(cp) # <<a, b, c, e>>
    <3>1. Encoding(cp) = <<192 + (cp \div 64), 128 + (cp % 64)>>
      BY SMT, <2>2 DEF Encoding
    <3>2. Len(<<192 + (cp \div 64), 128 + (cp % 64)>>) = 2 /\ Len(<<a, b, c, e>>) = 4
      BY SMT
    <3>. QED
      BY SMT, <3>1, <3>2
  <2>3. ASSUME ~(cp < 128) /\ ~(cp < 2048) PROVE Encoding(cp) # <<a, b, c, e>>
    <3>1. Encoding(cp) = <<224 + (cp \div 4096), 128 + ((cp \div 64) % 64), 128 + (cp % 64)>>
      BY SMT, <2>3, <1>3 DEF Encoding
    <3>2. Len(<<224 + (cp \div 4096), 128 + ((cp \div 64) % 64), 128 + (cp % 64)>>) = 3
            /\ Len(<<a, b, c, e>>) = 4
      BY SMT
    <3>. QED
      BY SMT, <3>1, <3>2
  <2>4. Encoding(cp) # <<a, b, c, e>>
    BY SMT, <2>1, <2>2, <2>3
  <2>5. Rejected(4, cp)
    BY SMT, <1>3 DEF Rejected
  <2>. QED
    BY SMT, <1>2, <2>4, <2>5 DEF cp
<1>4. CASE ~(cp < 65536)
  <2>0. ~(cp < 2048) /\ ~(cp < 128)
    BY SMT, <1>1, <1>4
  <2>1. Encoding(cp) = <<240 + (cp \div 262144), 128 + ((cp \div 4096) % 64),
                         128 + ((cp \div 64) % 64), 128 + (cp % 64)>>
    BY SMT, <1>4, <2>0 DEF Encoding
  <2>1a. Encoding(cp) = <<240 + (a % 8), 128 + (b % 64), 128 + (c % 64), 128 + (e % 64)>>
    BY SMT, <1>1, <2>1
  <2>2. Encoding(cp) = <<a, b, c, e>> <=>
          240 + (a % 8) = a /\ 128 + (b % 64) = b /\ 128 + (c % 64) = c /\ 128 + (e % 64) = e
    BY SMT, <2>1a
  <2>3. (240 + (a % 8) = a <=> a \div 8 = 30) /\ (128 + (b % 64) = b <=> b \div 64 = 2)
          /\ (128 + (c % 64) = c <=> c \div 64 = 2) /\ (128 + (e % 64) = e <=> e \div 64 = 2)
    BY SMT DEF ByteValue
  <2>4. ~Rejected(4, cp) <=> IsScalar(cp)
    BY SMT, <1>1, <1>4 DEF IsScalar, Rejected
  <2>. QED
    BY SMT, <1>2, <2>4, <2>2, <2>3 DEF cp
<1>. QED
  BY SMT, <1>3, <1>4

-----------------------------------------------------------------------------

\* The byte k places behind place i of the text; zero past its end, as at the cursor.
ByteAt(i, k) == IF i + k < Len(bytes) THEN bytes[i + k + 1] ELSE 0

\* What the sequence that begins at place i stands for, by its length.
CodeValue(i, n) ==
  IF n = 1 THEN ByteAt(i, 0)
  ELSE IF n = 2 THEN TwoBytes(ByteAt(i, 0), ByteAt(i, 1))
  ELSE IF n = 3 THEN ThreeBytes(ByteAt(i, 0), ByteAt(i, 1), ByteAt(i, 2))
  ELSE FourBytes(ByteAt(i, 0), ByteAt(i, 1), ByteAt(i, 2), ByteAt(i, 3))

\* The reader finds a whole character at place i.
Accepts(i) ==
  LET n == CodepointLen(ByteAt(i, 0)) IN
  /\ n = 1 => ByteAt(i, 0) < 128
  /\ \A k \in 1..n - 1 : Continuation(ByteAt(i, k))
  /\ n > 1 => ~Rejected(n, CodeValue(i, n))

\* The text, which ends at the first zero.
TextTypes == bytes \in Seq(1..255)

\* A byte behind any place; it is zero just where the text has ended.
LEMMA HereByte ==
  ASSUME TextTypes, NEW i \in Nat, NEW k \in Nat
  PROVE  ByteAt(i, k) \in ByteValue /\ (i + k < Len(bytes) <=> ByteAt(i, k) # 0)
<1>. DEFINE j == i + k + 1
<1>1. Len(bytes) \in Nat /\ j \in Nat /\ j >= 1 /\ (j <= Len(bytes) <=> i + k < Len(bytes))
  BY DEF TextTypes
<1>2. ByteAt(i, k) = IF i + k < Len(bytes) THEN bytes[j] ELSE 0
  BY DEF ByteAt
<1>. HIDE DEF j
<1>3. j <= Len(bytes) => bytes[j] \in 1..255
  BY <1>1, ElementOfSeq DEF TextTypes
<1>4. CASE i + k < Len(bytes)
  <2>1. ByteAt(i, k) \in 1..255
    BY <1>1, <1>2, <1>3, <1>4
  <2>. DEFINE v == ByteAt(i, k)
  <2>. HIDE DEF v
  <2>2. v \in 1..255 => v \in 0..255 /\ v # 0
    OBVIOUS
  <2>. QED
    BY Zenon, <1>4, <2>1, <2>2 DEF ByteValue, v
<1>5. CASE ~(i + k < Len(bytes))
  BY <1>2, <1>5 DEF ByteValue
<1>. QED
  BY <1>4, <1>5

\* What the first byte says of the length.
LEMMA LeadLength ==
  ASSUME NEW a \in ByteValue
  PROVE  /\ CodepointLen(a) \in 1..4
         /\ a < 128 => CodepointLen(a) = 1
         /\ CodepointLen(a) = 2 <=> a \div 32 = 6
         /\ CodepointLen(a) = 3 <=> a \div 16 = 14
         /\ CodepointLen(a) = 4 <=> a \div 8 = 30
         /\ Continuation(a) => CodepointLen(a) = 1 /\ a >= 128
BY DEF CodepointLen, Continuation, ByteValue

\* A piece of the text, byte by byte.
LEMMA PieceOf ==
  ASSUME TextTypes, NEW i \in Nat, NEW n \in 1..4, i + n <= Len(bytes)
  PROVE  /\ Piece(i, n) \in Seq(1..255) /\ Len(Piece(i, n)) = n
         /\ \A k \in 1..n : Piece(i, n)[k] = ByteAt(i, k - 1)
<1>1. Len(bytes) \in Nat /\ \A k \in 1..n : i + k \in 1..Len(bytes)
  BY DEF TextTypes
<1>2. Piece(i, n) = SubSeq(bytes, i + 1, i + n)
  BY DEF Piece
<1>s. /\ SubSeq(bytes, i + 1, i + n) \in Seq(1..255)
      /\ Len(SubSeq(bytes, i + 1, i + n)) = (i + n) - (i + 1) + 1
      /\ \A k \in 1..(i + n) - (i + 1) + 1 : SubSeq(bytes, i + 1, i + n)[k] = bytes[(i + 1) + k - 1]
  <2>1. \A k \in i + 1..i + n : bytes[k] \in 1..255
    <3>1. \A k \in i + 1..i + n : k \in 1..Len(bytes)
      BY <1>1
    <3>. QED
      BY <3>1, ElementOfSeq DEF TextTypes
  <2>2. i + 1 \in Int /\ i + n \in Int /\ i + 1 <= i + n
    OBVIOUS
  <2>. DEFINE m == i + 1  l == i + n
  <2>. HIDE DEF m, l
  <2>3. SUFFICES /\ SubSeq(bytes, m, l) \in Seq(1..255)
                 /\ Len(SubSeq(bytes, m, l)) = l - m + 1
                 /\ \A k \in 1..l - m + 1 : SubSeq(bytes, m, l)[k] = bytes[m + k - 1]
    BY DEF m, l
  <2>4. m \in Int /\ l \in Int /\ m <= l /\ \A k \in m..l : bytes[k] \in 1..255
    BY Zenon, <2>1, <2>2 DEF m, l
  <2>. QED
    BY <2>4, SubSeqProperties
<1>3. \A k \in 1..n : Piece(i, n)[k] = bytes[i + k]
  <2>. SUFFICES ASSUME NEW k \in 1..n PROVE Piece(i, n)[k] = bytes[i + k]
    OBVIOUS
  <2>1. (i + 1) + k - 1 = i + k /\ k \in 1..(i + n) - (i + 1) + 1
    OBVIOUS
  <2>. QED
    BY Zenon, <1>2, <1>s, <2>1
<1>4. Piece(i, n) \in Seq(1..255) /\ Len(Piece(i, n)) = n
  <2>1. (i + n) - (i + 1) + 1 = n
    OBVIOUS
  <2>. QED
    BY Zenon, <2>1, <1>2, <1>s
<1>5. \A k \in 1..n : ByteAt(i, k - 1) = bytes[i + k]
  <2>. SUFFICES ASSUME NEW k \in 1..n PROVE ByteAt(i, k - 1) = bytes[i + k]
    OBVIOUS
  <2>1. i + (k - 1) < Len(bytes) /\ i + (k - 1) + 1 = i + k
    BY <1>1
  <2>. QED
    BY Zenon, <2>1 DEF ByteAt
<1>. QED
  BY <1>3, <1>4, <1>5

\* A piece of the text is the bytes read there.
LEMMA PieceCases ==
  ASSUME TextTypes, NEW i \in Nat
  PROVE  /\ i + 1 <= Len(bytes) => Piece(i, 1) = <<ByteAt(i, 0)>>
         /\ i + 2 <= Len(bytes) => Piece(i, 2) = <<ByteAt(i, 0), ByteAt(i, 1)>>
         /\ i + 3 <= Len(bytes) => Piece(i, 3) = <<ByteAt(i, 0), ByteAt(i, 1), ByteAt(i, 2)>>
         /\ i + 4 <= Len(bytes) => Piece(i, 4) = <<ByteAt(i, 0), ByteAt(i, 1), ByteAt(i, 2), ByteAt(i, 3)>>
<1>. DEFINE p(n) == Piece(i, n)
<1>1. ASSUME i + 1 <= Len(bytes) PROVE Piece(i, 1) = <<ByteAt(i, 0)>>
  <2>1. p(1) \in Seq(1..255) /\ Len(p(1)) = 1 /\ p(1)[1] = ByteAt(i, 0)
    BY <1>1, PieceOf
  <2>. QED
    BY <2>1
<1>2. ASSUME i + 2 <= Len(bytes) PROVE Piece(i, 2) = <<ByteAt(i, 0), ByteAt(i, 1)>>
  <2>1. p(2) \in Seq(1..255) /\ Len(p(2)) = 2 /\ p(2)[1] = ByteAt(i, 0) /\ p(2)[2] = ByteAt(i, 1)
    BY <1>2, PieceOf
  <2>. QED
    BY <2>1
<1>3. ASSUME i + 3 <= Len(bytes) PROVE Piece(i, 3) = <<ByteAt(i, 0), ByteAt(i, 1), ByteAt(i, 2)>>
  <2>1. /\ p(3) \in Seq(1..255) /\ Len(p(3)) = 3 /\ p(3)[1] = ByteAt(i, 0) /\ p(3)[2] = ByteAt(i, 1)
        /\ p(3)[3] = ByteAt(i, 2)
    BY <1>3, PieceOf
  <2>. QED
    BY <2>1
<1>4. ASSUME i + 4 <= Len(bytes)
      PROVE  Piece(i, 4) = <<ByteAt(i, 0), ByteAt(i, 1), ByteAt(i, 2), ByteAt(i, 3)>>
  <2>1. /\ p(4) \in Seq(1..255) /\ Len(p(4)) = 4 /\ p(4)[1] = ByteAt(i, 0) /\ p(4)[2] = ByteAt(i, 1)
        /\ p(4)[3] = ByteAt(i, 2) /\ p(4)[4] = ByteAt(i, 3)
    BY <1>4, PieceOf
  <2>. QED
    BY <2>1
<1>. QED
  BY <1>1, <1>2, <1>3, <1>4

\* A character begins at a place exactly when the reader accepts one there, and it is the
\* one the reader makes of it.
LEMMA BeginsWhole ==
  ASSUME TextTypes, NEW i \in Nat, i < Len(bytes)
  PROVE  LET n == CodepointLen(ByteAt(i, 0)) IN
         /\ Accepts(i) => BeginsAt(i) = {n} /\ Encoding(CodeValue(i, n)) = Piece(i, n)
         /\ ~Accepts(i) => BeginsAt(i) = {}
<1>. DEFINE n == CodepointLen(ByteAt(i, 0))
            a == ByteAt(i, 0)  b == ByteAt(i, 1)  c == ByteAt(i, 2)  e == ByteAt(i, 3)
<1>1. /\ a \in ByteValue /\ b \in ByteValue /\ c \in ByteValue /\ e \in ByteValue
      /\ (i + 1 < Len(bytes) <=> b # 0) /\ (i + 2 < Len(bytes) <=> c # 0)
      /\ (i + 3 < Len(bytes) <=> e # 0)
  BY HereByte
<1>2. /\ n \in 1..4 /\ (n = 2 <=> a \div 32 = 6) /\ (n = 3 <=> a \div 16 = 14)
      /\ (n = 4 <=> a \div 8 = 30) /\ (a < 128 => n = 1)
  BY <1>1, LeadLength
<1>3. /\ Piece(i, 1) = <<a>>
      /\ i + 2 <= Len(bytes) => Piece(i, 2) = <<a, b>>
      /\ i + 3 <= Len(bytes) => Piece(i, 3) = <<a, b, c>>
      /\ i + 4 <= Len(bytes) => Piece(i, 4) = <<a, b, c, e>>
  BY PieceCases DEF TextTypes
<1>4. Len(bytes) \in Nat
  BY DEF TextTypes
<1>5. /\ CodeValue(i, 1) = a /\ CodeValue(i, 2) = TwoBytes(a, b) /\ CodeValue(i, 3) = ThreeBytes(a, b, c)
      /\ CodeValue(i, 4) = FourBytes(a, b, c, e)
  BY DEF CodeValue
<1>6. Accepts(i) <=> /\ n = 1 => a < 128
                     /\ \A k \in 1..n - 1 : Continuation(ByteAt(i, k))
                     /\ n > 1 => ~Rejected(n, CodeValue(i, n))
  BY DEF Accepts
<1>. HIDE DEF n, a, b, c, e
<1>m. \A m : m \in BeginsAt(i) <=> m \in 1..4 /\ i + m <= Len(bytes) /\ WellFormed(Piece(i, m))
  BY DEF BeginsAt
<1>7. 1 \in BeginsAt(i) <=> n = 1 /\ Accepts(i)
  <2>1. 1 \in BeginsAt(i) <=> WellFormed(<<a>>)
    BY <1>m, <1>3, <1>4
  <2>2. n = 1 => (Accepts(i) <=> a < 128)
    <3>1. n = 1 => 1..n - 1 = {}
      OBVIOUS
    <3>2. n = 1 => ~(n > 1)
      OBVIOUS
    <3>. QED
      BY Zenon, <3>1, <3>2, <1>6
  <2>. QED
    BY <2>1, <2>2, <1>1, <1>2, Formed1
<1>8. 2 \in BeginsAt(i) <=> n = 2 /\ Accepts(i)
  <2>1. 2 \in BeginsAt(i) <=> a \div 32 = 6 /\ b \div 64 = 2 /\ TwoBytes(a, b) >= 128
    <3>1. 2 \in BeginsAt(i) <=> i + 2 <= Len(bytes) /\ WellFormed(<<a, b>>)
      BY <1>m, <1>3, <1>4
    <3>2. b \div 64 = 2 => i + 2 <= Len(bytes)
      BY <1>1, <1>4 DEF ByteValue
    <3>. QED
      BY <3>1, <3>2, <1>1, Formed2
  <2>. DEFINE cp == TwoBytes(a, b)
  <2>2. cp \in 0..2047
    BY <1>1 DEF TwoBytes, ByteValue
  <2>. HIDE DEF cp
  <2>r. ~Rejected(2, cp) <=> cp >= 128
    BY SMT, <2>2 DEF Rejected
  <2>3. ~Rejected(2, TwoBytes(a, b)) <=> TwoBytes(a, b) >= 128
    BY Zenon, <2>r DEF cp
  <2>4. n = 2 => (Accepts(i) <=> b \div 64 = 2 /\ TwoBytes(a, b) >= 128)
    <3>. SUFFICES ASSUME n = 2 PROVE Accepts(i) <=> b \div 64 = 2 /\ TwoBytes(a, b) >= 128
      OBVIOUS
    <3>1. \A k : k \in 1..n - 1 <=> k = 1
      OBVIOUS
    <3>2. (\A k \in 1..n - 1 : Continuation(ByteAt(i, k))) <=> Continuation(b)
      BY <3>1 DEF b
    <3>3. n > 1 /\ ~(n = 1) /\ CodeValue(i, n) = TwoBytes(a, b)
      BY <1>5
    <3>4. Accepts(i) <=> Continuation(b) /\ ~Rejected(2, TwoBytes(a, b))
      BY Zenon, <1>6, <3>2, <3>3
    <3>. QED
      BY <3>4, <2>3 DEF Continuation
  <2>. QED
    BY <2>1, <2>4, <1>2
<1>9. 3 \in BeginsAt(i) <=> n = 3 /\ Accepts(i)
  <2>1. 3 \in BeginsAt(i) <=>
          a \div 16 = 14 /\ b \div 64 = 2 /\ c \div 64 = 2 /\ ~Rejected(3, ThreeBytes(a, b, c))
    <3>1. 3 \in BeginsAt(i) <=> i + 3 <= Len(bytes) /\ WellFormed(<<a, b, c>>)
      BY <1>m, <1>3, <1>4
    <3>2. c \div 64 = 2 => i + 3 <= Len(bytes)
      BY <1>1, <1>4 DEF ByteValue
    <3>. QED
      BY <3>1, <3>2, <1>1, Formed3
  <2>4. n = 3 => (Accepts(i) <=> b \div 64 = 2 /\ c \div 64 = 2 /\ ~Rejected(3, ThreeBytes(a, b, c)))
    <3>. SUFFICES ASSUME n = 3
                  PROVE  Accepts(i) <=> b \div 64 = 2 /\ c \div 64 = 2 /\ ~Rejected(3, ThreeBytes(a, b, c))
      OBVIOUS
    <3>1. \A k : k \in 1..n - 1 <=> k = 1 \/ k = 2
      OBVIOUS
    <3>2. (\A k \in 1..n - 1 : Continuation(ByteAt(i, k))) <=> Continuation(b) /\ Continuation(c)
      BY <3>1 DEF b, c
    <3>3. n > 1 /\ ~(n = 1) /\ CodeValue(i, n) = ThreeBytes(a, b, c)
      BY <1>5
    <3>4. Accepts(i) <=> Continuation(b) /\ Continuation(c) /\ ~Rejected(3, ThreeBytes(a, b, c))
      BY Zenon, <1>6, <3>2, <3>3
    <3>. QED
      BY <3>4 DEF Continuation
  <2>. QED
    BY <2>1, <2>4, <1>2
<1>10. 4 \in BeginsAt(i) <=> n = 4 /\ Accepts(i)
  <2>1. 4 \in BeginsAt(i) <=> a \div 8 = 30 /\ b \div 64 = 2 /\ c \div 64 = 2 /\ e \div 64 = 2
                                /\ ~Rejected(4, FourBytes(a, b, c, e))
    <3>1. 4 \in BeginsAt(i) <=> i + 4 <= Len(bytes) /\ WellFormed(<<a, b, c, e>>)
      BY <1>m, <1>3, <1>4
    <3>2. e \div 64 = 2 => i + 4 <= Len(bytes)
      BY <1>1, <1>4 DEF ByteValue
    <3>. QED
      BY <3>1, <3>2, <1>1, Formed4
  <2>4. n = 4 => (Accepts(i) <=> b \div 64 = 2 /\ c \div 64 = 2 /\ e \div 64 = 2
                                   /\ ~Rejected(4, FourBytes(a, b, c, e)))
    <3>. SUFFICES ASSUME n = 4
                  PROVE  Accepts(i) <=> b \div 64 = 2 /\ c \div 64 = 2 /\ e \div 64 = 2
                                          /\ ~Rejected(4, FourBytes(a, b, c, e))
      OBVIOUS
    <3>1. \A k : k \in 1..n - 1 <=> k = 1 \/ k = 2 \/ k = 3
      OBVIOUS
    <3>2. (\A k \in 1..n - 1 : Continuation(ByteAt(i, k))) <=>
            Continuation(b) /\ Continuation(c) /\ Continuation(e)
      BY <3>1 DEF b, c, e
    <3>3. n > 1 /\ ~(n = 1) /\ CodeValue(i, n) = FourBytes(a, b, c, e)
      BY <1>5
    <3>4. Accepts(i) <=> Continuation(b) /\ Continuation(c) /\ Continuation(e)
                           /\ ~Rejected(4, FourBytes(a, b, c, e))
      BY Zenon, <1>6, <3>2, <3>3
    <3>. QED
      BY <3>4 DEF Continuation
  <2>. QED
    BY <2>1, <2>4, <1>2
<1>11. \A m : m \in BeginsAt(i) => m = 1 \/ m = 2 \/ m = 3 \/ m = 4
  BY <1>m
<1>12. n = 1 \/ n = 2 \/ n = 3 \/ n = 4
  BY <1>2
<1>13. Accepts(i) => BeginsAt(i) = {n}
  BY <1>7, <1>8, <1>9, <1>10, <1>11, <1>12
<1>14. ~Accepts(i) => BeginsAt(i) = {}
  BY <1>7, <1>8, <1>9, <1>10, <1>11
<1>15. ASSUME Accepts(i) PROVE Encoding(CodeValue(i, n)) = Piece(i, n)
  <2>1. n \in BeginsAt(i) /\ i + n <= Len(bytes) /\ WellFormed(Piece(i, n))
    BY <1>13, <1>15, <1>m
  <2>2. CASE n = 1
    BY <2>1, <2>2, <1>1, <1>3, <1>5, Formed1
  <2>3. CASE n = 2
    BY <2>1, <2>3, <1>1, <1>3, <1>5, Formed2
  <2>4. CASE n = 3
    BY <2>1, <2>4, <1>1, <1>3, <1>5, Formed3
  <2>5. CASE n = 4
    BY <2>1, <2>5, <1>1, <1>3, <1>5, Formed4
  <2>. QED
    BY <1>12, <2>2, <2>3, <2>4, <2>5
<1>. QED
  BY <1>13, <1>14, <1>15 DEF n

-----------------------------------------------------------------------------

\* The widths of the payload in a first byte.
LEMMA Powers == 2^(7 - 2) = 32 /\ 2^(7 - 3) = 16 /\ 2^(7 - 4) = 8
OBVIOUS

\* The function the reader fills byte by byte exists, and ends in the value of the sequence.
LEMMA AssembledIs ==
  ASSUME TextTypes, at \in Nat, NEW n \in {2, 3, 4}
  PROVE  Assembled(n) = CodeValue(at, n)
<1>. DEFINE a == ByteAt(at, 0)  b == ByteAt(at, 1)  c == ByteAt(at, 2)  e == ByteAt(at, 3)
            lead == a % 2^(7 - n)
            Fills(f) == f = [i \in 1..n |-> IF i = 1 THEN Ahead(0) % 2^(7 - n)
                                            ELSE f[i - 1] * 64 + (Ahead(i - 1) % 64)]
            f2 == lead * 64 + (b % 64)
            f3 == f2 * 64 + (c % 64)
            f4 == f3 * 64 + (e % 64)
            g == [i \in 1..n |-> IF i = 1 THEN lead ELSE IF i = 2 THEN f2 ELSE IF i = 3 THEN f3 ELSE f4]
            h == CHOOSE f : Fills(f)
<1>1. Ahead(0) = a /\ Ahead(1) = b /\ Ahead(2) = c /\ Ahead(3) = e
  BY DEF Ahead, ByteAt
<1>2. Assembled(n) = h[n]
  BY DEF Assembled
<1>3. Fills(g)
  <2>1. ASSUME NEW i \in 1..n
        PROVE  g[i] = IF i = 1 THEN Ahead(0) % 2^(7 - n) ELSE g[i - 1] * 64 + (Ahead(i - 1) % 64)
    <3>. HIDE DEF lead, f2, f3, f4, a, b, c, e
    <3>1. CASE i = 1
      BY <1>1, <3>1 DEF lead
    <3>2. CASE i = 2
      <4>1. i - 1 = 1 /\ 1 \in 1..n /\ ~(i = 1)
        BY <3>2
      <4>2. g[i] = f2 /\ g[i - 1] = lead /\ Ahead(i - 1) = b
        BY <4>1, <3>2, <1>1
      <4>. QED
        BY Zenon, <4>1, <4>2 DEF f2
    <3>3. CASE i = 3
      <4>1. i - 1 = 2 /\ 2 \in 1..n /\ ~(i = 1)
        BY <3>3
      <4>2. g[i] = f3 /\ g[i - 1] = f2 /\ Ahead(i - 1) = c
        BY <4>1, <3>3, <1>1
      <4>. QED
        BY Zenon, <4>1, <4>2 DEF f3
    <3>4. CASE i = 4
      <4>1. i - 1 = 3 /\ 3 \in 1..n /\ ~(i = 1)
        BY <3>4
      <4>2. g[i] = f4 /\ g[i - 1] = f3 /\ Ahead(i - 1) = e
        BY <4>1, <3>4, <1>1
      <4>. QED
        BY Zenon, <4>1, <4>2 DEF f4
    <3>. QED
      BY <3>1, <3>2, <3>3, <3>4
  <2>2. g = [i \in 1..n |-> g[i]]
    OBVIOUS
  <2>. HIDE DEF g
  <2>. QED
    BY Zenon, <2>1, <2>2
<1>4. Fills(h)
  <2>. HIDE DEF Fills, g
  <2>. QED
    BY Zenon, <1>3
<1>. HIDE DEF h, lead, a, b, c, e
<1>5. \A i \in 1..n : h[i] = IF i = 1 THEN Ahead(0) % 2^(7 - n) ELSE h[i - 1] * 64 + (Ahead(i - 1) % 64)
  BY Zenon, <1>4
<1>6. h[1] = lead
  <2>1. 1 \in 1..n
    OBVIOUS
  <2>. QED
    BY Zenon, <2>1, <1>1, <1>5 DEF lead
<1>7. h[2] = f2
  <2>1. 2 \in 1..n /\ 2 - 1 = 1 /\ ~(2 = 1)
    OBVIOUS
  <2>. QED
    BY Zenon, <2>1, <1>1, <1>5, <1>6
<1>8. n > 2 => h[3] = f3
  <2>. SUFFICES ASSUME n > 2 PROVE h[3] = f3
    OBVIOUS
  <2>1. 3 \in 1..n /\ 3 - 1 = 2 /\ ~(3 = 1)
    OBVIOUS
  <2>. QED
    BY Zenon, <2>1, <1>1, <1>5, <1>7
<1>9. n > 3 => h[4] = f4
  <2>. SUFFICES ASSUME n > 3 PROVE h[4] = f4
    OBVIOUS
  <2>1. 4 \in 1..n /\ 4 - 1 = 3 /\ ~(4 = 1) /\ n > 2
    OBVIOUS
  <2>. QED
    <3>1. h[4] = h[3] * 64 + (Ahead(3) % 64)
      BY Zenon, <2>1, <1>5
    <3>. QED
      BY <2>1, <3>1, <1>1, <1>8
<1>10. a \in ByteValue /\ b \in ByteValue /\ c \in ByteValue /\ e \in ByteValue
  BY HereByte DEF a, b, c, e
<1>11. CASE n = 2
  <2>1. lead = a % 32
    BY <1>11, Powers DEF lead
  <2>2. CodeValue(at, n) = TwoBytes(a, b)
    BY <1>11 DEF CodeValue, a, b
  <2>. QED
    BY <1>2, <1>7, <1>11, <2>1, <2>2 DEF TwoBytes
<1>12. CASE n = 3
  <2>1. lead = a % 16
    BY <1>12, Powers DEF lead
  <2>2. CodeValue(at, n) = ThreeBytes(a, b, c)
    BY <1>12 DEF CodeValue, a, b, c
  <2>3. f3 = (a % 16) * 4096 + (b % 64) * 64 + (c % 64)
    BY SMT, <2>1, <1>10 DEF ByteValue
  <2>. QED
    BY SMT, <1>2, <1>8, <1>12, <2>3, <2>2 DEF ThreeBytes
<1>13. CASE n = 4
  <2>1. lead = a % 8
    BY <1>13, Powers DEF lead
  <2>2. CodeValue(at, n) = FourBytes(a, b, c, e)
    BY <1>13 DEF CodeValue, a, b, c, e
  <2>3. f4 = (a % 8) * 262144 + (b % 64) * 4096 + (c % 64) * 64 + (e % 64)
    BY SMT, <2>1, <1>10 DEF ByteValue
  <2>. QED
    BY SMT, <1>2, <1>9, <1>13, <2>3, <2>2 DEF FourBytes
<1>. QED
  BY <1>11, <1>12, <1>13

-----------------------------------------------------------------------------

\* What is kept between two reads: the text is bytes, and the cursor in it.
Utf8Inv == TextTypes /\ at \in 0..Len(bytes) /\ ReadsEveryCharacter

\* At the start of the text nothing has been read.
LEMMA Utf8Initial == Utf8Init => Utf8Inv
BY DEF Utf8Init, Utf8Inv, TextTypes, ReadsEveryCharacter

\* What is promised of one read, as a predicate of the text and of what was read.
BeginsIn(b, i) == {n \in 1..4 : i + n <= Len(b) /\ WellFormed(SubSeq(b, i + 1, i + n))}

ReadRight(b, to, cp, took, from) ==
  /\ BeginsIn(b, from) # {} =>
       took \in BeginsIn(b, from) /\ Encoding(cp) = SubSeq(b, from + 1, from + took)
  /\ BeginsIn(b, from) = {} =>
       cp = Replacement /\ \A i \in from + 1..to - 1 : BeginsIn(b, i) = {}

\* Where characters begin depends on the bytes alone.
LEMMA BeginsInIs == \A i : BeginsAt(i) = BeginsIn(bytes, i)
BY DEF BeginsAt, BeginsIn, Piece

\* Another text: bytes again, and nothing read of it.
LEMMA TextTaken == ASSUME Utf8Inv, ReadText PROVE Utf8Inv'
<1>1. PICK n \in 0..TextLen : bytes' \in [1..n -> ByteValues]
  BY DEF ReadText
<1>2. n \in Nat /\ ByteValues \subseteq 1..255
  BY <1>1, Utf8Assumption
<1>3. bytes' \in Seq(1..255)
  <2>1. bytes' \in [1..n -> 1..255]
    BY <1>1, <1>2
  <2>. QED
    BY <1>2, <2>1, SeqDef
<1>4. at' = 0 /\ decoded'.took = 0
  BY DEF ReadText
<1>. QED
  BY <1>3, <1>4 DEF Utf8Inv, TextTypes, ReadsEveryCharacter

\* One character read, or one step into what is none.
LEMMA CharacterRead == ASSUME Utf8Inv, NextCodepoint PROVE Utf8Inv'
<1>. DEFINE n == CodepointLen(Ahead(0))
            Bad(k) == [cp |-> Replacement, took |-> k, from |-> at]
            Same(i) == BeginsAt(i)' = BeginsAt(i)
<1>1. /\ TextTypes /\ at \in Nat /\ at < Len(bytes) /\ Len(bytes) \in Nat /\ bytes' = bytes
      /\ at' = at + decoded'.took
  BY DEF Utf8Inv, NextCodepoint, TextTypes
<1>2. \A k \in Nat : Ahead(k) = ByteAt(at, k)
  BY DEF Ahead, ByteAt
<1>3. Ahead(0) = ByteAt(at, 0) /\ Ahead(0) \in ByteValue /\ n \in 1..4
  BY <1>1, <1>2, HereByte, LeadLength
<1>4. decoded' = IF n = 1 /\ Ahead(0) >= 128 THEN Bad(1)
                 ELSE IF n = 1 THEN [cp |-> Ahead(0), took |-> 1, from |-> at]
                 ELSE IF \E i \in 1..n - 1 : ~Continuation(Ahead(i)) THEN Broken(n)
                 ELSE IF Rejected(n, Assembled(n)) THEN Bad(1)
                 ELSE [cp |-> Assembled(n), took |-> n, from |-> at]
  BY DEF NextCodepoint
<1>5. /\ Accepts(at) => BeginsAt(at) = {n} /\ Encoding(CodeValue(at, n)) = Piece(at, n)
      /\ ~Accepts(at) => BeginsAt(at) = {}
  BY <1>1, <1>3, BeginsWhole
<1>6. Accepts(at) <=> /\ n = 1 => Ahead(0) < 128
                      /\ \A k \in 1..n - 1 : Continuation(Ahead(k))
                      /\ n > 1 => ~Rejected(n, CodeValue(at, n))
  <2>1. \A k \in 1..n - 1 : Ahead(k) = ByteAt(at, k)
    BY <1>2, <1>3
  <2>. QED
    BY Zenon, <1>3, <2>1 DEF Accepts
<1>7. n # 1 => Assembled(n) = CodeValue(at, n)
  <2>1. n # 1 => n \in {2, 3, 4}
    BY <1>3
  <2>. QED
    BY <2>1, <1>1, AssembledIs
<1>. HIDE DEF n
<1>9. SUFFICES at' \in 0..Len(bytes) /\ ReadRight(bytes, at', decoded'.cp, decoded'.took, decoded'.from)
  <2>1. at' <= Len(bytes') /\ ReadRight(bytes', at', decoded'.cp, decoded'.took, decoded'.from)
          => ReadsEveryCharacter'
    BY DEF ReadsEveryCharacter, ReadRight, BeginsAt, BeginsIn, Piece
  <2>2. TextTypes'
    BY <1>1 DEF TextTypes
  <2>. QED
    BY <1>1, <2>1, <2>2 DEF Utf8Inv
<1>10. \A i : BeginsAt(i) = BeginsIn(bytes, i)
  BY BeginsInIs
\* A read that found a character.
<1>11. ASSUME Accepts(at), decoded' = [cp |-> CodeValue(at, n), took |-> n, from |-> at]
       PROVE  at' \in 0..Len(bytes) /\ ReadRight(bytes, at', decoded'.cp, decoded'.took, decoded'.from)
  <2>1. n \in BeginsAt(at) /\ at + n <= Len(bytes)
    BY <1>5, <1>11 DEF BeginsAt
  <2>2. decoded'.cp = CodeValue(at, n) /\ decoded'.took = n /\ decoded'.from = at
    BY <1>11
  <2>3. at' = at + n /\ at' \in 0..Len(bytes)
    BY <1>1, <1>3, <2>1, <2>2 DEF n
  <2>4. ReadRight(bytes, at', CodeValue(at, n), n, at)
    BY Zenon, <2>1, <1>10, <1>5, <1>11 DEF ReadRight, Piece
  <2>. QED
    BY Zenon, <2>2, <2>3, <2>4
\* A read that found none: k bytes are passed, all but the first of them continuation bytes.
<1>12. ASSUME ~Accepts(at), NEW k \in Nat, k > 0, at + k <= Len(bytes), decoded' = Bad(k),
              \A i \in 1..k - 1 : Continuation(Ahead(i))
       PROVE  at' \in 0..Len(bytes) /\ ReadRight(bytes, at', decoded'.cp, decoded'.took, decoded'.from)
  <2>1. BeginsIn(bytes, at) = {}
    BY <1>5, <1>10, <1>12
  <2>2. decoded'.cp = Replacement /\ decoded'.took = k /\ decoded'.from = at
    BY <1>12
  <2>3. at' = at + k /\ at' \in 0..Len(bytes)
    BY <1>1, <1>12, <2>2
  <2>4. ASSUME NEW i \in at + 1..at' - 1 PROVE BeginsIn(bytes, i) = {}
    <3>1. i - at \in 1..k - 1 /\ i - at \in Nat /\ i \in Nat /\ i < Len(bytes) /\ i + 0 = i
            /\ at + (i - at) = i
      BY <1>1, <1>12, <2>3
    <3>2. Ahead(i - at) = ByteAt(i, 0)
      BY Zenon, <3>1 DEF Ahead, ByteAt
    <3>3. Continuation(ByteAt(i, 0))
      BY Zenon, <1>12, <3>1, <3>2
    <3>4. ByteAt(i, 0) \in ByteValue
      BY <1>1, <3>1, HereByte
    <3>5. CodepointLen(ByteAt(i, 0)) = 1 /\ ~(ByteAt(i, 0) < 128)
      <4>1. CodepointLen(ByteAt(i, 0)) = 1 /\ ByteAt(i, 0) >= 128
        BY <3>3, <3>4, LeadLength
      <4>. QED
        BY <4>1, <3>4 DEF ByteValue
    <3>6. ~Accepts(i)
      BY Zenon, <3>5 DEF Accepts
    <3>. QED
      BY <1>1, <1>10, <3>1, <3>6, BeginsWhole
  <2>5. ReadRight(bytes, at', Replacement, k, at)
    BY Zenon, <2>1, <2>4 DEF ReadRight
  <2>. QED
    BY Zenon, <2>2, <2>3, <2>5
<1>13. CASE n = 1 /\ Ahead(0) >= 128
  <2>1. ~Accepts(at) /\ decoded' = Bad(1)
    BY <1>3, <1>4, <1>6, <1>13 DEF ByteValue
  <2>2. 1 \in Nat /\ 1 > 0 /\ at + 1 <= Len(bytes) /\ \A i \in 1..1 - 1 : Continuation(Ahead(i))
    BY <1>1
  <2>. QED
    BY Zenon, <2>1, <2>2, <1>12
<1>14. CASE n = 1 /\ ~(Ahead(0) >= 128)
  <2>1. Accepts(at) /\ CodeValue(at, n) = Ahead(0)
    <3>1. n = 1 /\ 1..n - 1 = {} /\ ~(n > 1) /\ Ahead(0) < 128
      BY <1>3, <1>14 DEF ByteValue
    <3>. QED
      BY Zenon, <1>3, <1>6, <3>1 DEF CodeValue
  <2>2. decoded' = [cp |-> Ahead(0), took |-> 1, from |-> at]
    BY Zenon, <1>4, <1>14
  <2>. QED
    BY Zenon, <1>11, <1>14, <2>1, <2>2
<1>15. CASE n # 1 /\ \E i \in 1..n - 1 : ~Continuation(Ahead(i))
  <2>. DEFINE broken == {i \in 1..n - 1 : ~Continuation(Ahead(i))}
              first == CHOOSE i \in broken : \A j \in broken : i <= j
  <2>1. decoded' = Bad(first)
    BY Zenon, <1>4, <1>15 DEF Broken
  <2>2. ~Accepts(at)
    BY Zenon, <1>6, <1>15
  <2>3. n \in 2..4 /\ broken # {} /\ broken \subseteq 1..n - 1
    BY <1>3, <1>15 DEF n
  <2>4. \E i \in broken : \A j \in broken : i <= j
    <3>1. CASE 1 \in broken
      BY <2>3, <3>1
    <3>2. CASE 1 \notin broken /\ 2 \in broken
      <4>1. \A j \in broken : j \in 1..3 /\ j # 1
        BY <2>3, <3>2
      <4>. QED
        BY <3>2, <4>1
    <3>3. CASE 1 \notin broken /\ 2 \notin broken
      <4>1. \A j \in broken : j \in 1..3 /\ j # 1 /\ j # 2
        BY <2>3, <3>3
      <4>2. \A j \in broken : j = 3
        BY <4>1
      <4>. QED
        BY <2>3, <4>2
    <3>. QED
      BY <3>1, <3>2, <3>3
  <2>5. first \in broken /\ \A j \in broken : first <= j
    BY Zenon, <2>4
  <2>6. \A i \in 1..n - 1 : i \notin broken => Continuation(Ahead(i))
    OBVIOUS
  <2>. HIDE DEF first, broken
  <2>7. first \in Nat /\ first > 0 /\ first <= n - 1
    BY <2>3, <2>5
  <2>8. \A i \in 1..first - 1 : Continuation(Ahead(i))
    <3>. SUFFICES ASSUME NEW i \in 1..first - 1 PROVE Continuation(Ahead(i))
      OBVIOUS
    <3>1. i \in 1..n - 1 /\ ~(first <= i)
      BY <2>3, <2>7
    <3>. QED
      BY Zenon, <2>5, <2>6, <3>1
  <2>9. at + first <= Len(bytes)
    <3>1. CASE first = 1
      BY <1>1, <3>1
    <3>2. CASE first # 1
      <4>1. first - 1 \in 1..first - 1 /\ first - 1 \in Nat
        BY <2>7, <3>2
      <4>. DEFINE m == first - 1
      <4>2. Continuation(Ahead(m)) /\ m \in Nat
        BY Zenon, <2>8, <4>1
      <4>. HIDE DEF m
      <4>3. Ahead(m) = ByteAt(at, m) /\ ByteAt(at, m) \in ByteValue /\ (at + m < Len(bytes) <=> ByteAt(at, m) # 0)
        BY <1>1, <1>2, <4>2, HereByte
      <4>4. ByteAt(at, m) # 0
        BY <4>2, <4>3 DEF Continuation
      <4>5. at + m < Len(bytes) /\ m = first - 1
        BY <4>3, <4>4 DEF m
      <4>. QED
        BY <4>5, <4>2, <1>1, <2>7
    <3>. QED
      BY <3>1, <3>2
  <2>. QED
    BY Zenon, <1>12, <2>1, <2>2, <2>7, <2>8, <2>9
<1>16. CASE /\ n # 1 /\ ~(\E i \in 1..n - 1 : ~Continuation(Ahead(i)))
            /\ Rejected(n, Assembled(n))
  <2>1. decoded' = Bad(1)
    BY Zenon, <1>4, <1>16
  <2>2. ~Accepts(at)
    <3>1. n > 1
      BY <1>3, <1>16 DEF n
    <3>. QED
      BY Zenon, <3>1, <1>6, <1>7, <1>16
  <2>3. 1 \in Nat /\ 1 > 0 /\ at + 1 <= Len(bytes) /\ \A i \in 1..1 - 1 : Continuation(Ahead(i))
    BY <1>1
  <2>. QED
    BY Zenon, <2>1, <2>2, <2>3, <1>12
<1>17. CASE /\ n # 1 /\ ~(\E i \in 1..n - 1 : ~Continuation(Ahead(i)))
            /\ ~Rejected(n, Assembled(n))
  <2>1. decoded' = [cp |-> Assembled(n), took |-> n, from |-> at]
    BY Zenon, <1>4, <1>17
  <2>2. Accepts(at)
    BY Zenon, <1>6, <1>7, <1>17
  <2>. QED
    BY Zenon, <1>7, <1>11, <1>17, <2>1, <2>2
<1>. QED
  BY Zenon, <1>13, <1>14, <1>15, <1>16, <1>17

\* Text of any length and of any bytes is read as the format defines it: every well-formed
\* character whole and as itself, anything else as U+FFFD in steps that swallow the beginning
\* of no character.  The reader judges bytes by masks and ranges, the format is defined by the
\* encoding of scalar values.  (utf8NextCodepoint(), Utf8.cpp.)
THEOREM CharactersRead == Utf8Spec => []ReadsEveryCharacter
<1>1. Utf8Inv /\ [Utf8Next]_utf8Vars => Utf8Inv'
  <2>. SUFFICES ASSUME Utf8Inv, [Utf8Next]_utf8Vars PROVE Utf8Inv'
    OBVIOUS
  <2>1. CASE Utf8Next
    BY <2>1, TextTaken, CharacterRead DEF Utf8Next
  <2>2. CASE UNCHANGED utf8Vars
    BY <2>2 DEF utf8Vars, Utf8Inv, TextTypes, ReadsEveryCharacter, BeginsAt, Piece
  <2>. QED
    BY <2>1, <2>2
<1>2. Utf8Inv => ReadsEveryCharacter
  BY DEF Utf8Inv
<1>. QED
  BY Utf8Initial, <1>1, <1>2, PTL DEF Utf8Spec

\* FilePage: what the page of the file manager shows of a folder, whatever order the
\* browser's requests and the server's answers come in.

\* The names there are, and the paths made of them.
FileNames == PageNames \cup UNION {{p[i] : i \in DOMAIN p} : p \in DOMAIN FirstTree}
Paths == Seq(FileNames)
Below == {p \in Paths : p # <<>>}

\* What a list of a folder has of a file in it, and what the page's rows have.
ItemOf(q) == [name |-> Last(q), kind |-> tree[q]]
RowOf(q) == [name |-> Last(q), kind |-> tree[q], full |-> q]

\* The list of the folder the page is in, and its rows, but for what was not read.
ItemsBut(unread) == {ItemOf(q) : q \in Visible(path)} \ unread
RowsBut(unread) == {RowOf(q) : q \in {v \in Visible(path) : ItemOf(v) \notin unread}}

\* Paths are sequences of names, and what a button acts on is never the root.
CardTypes == path \in Paths /\ DOMAIN tree \subseteq Paths /\ \A row \in rows : row.full \in Below

Sendable(r) ==
  /\ r.at \in Paths /\ r.arg \in Paths
  /\ r.op \in {"rename", "move", "delete"} => r.at # <<>>

MessageTypes ==
  /\ issued \in Nat /\ latest \in Nat /\ latest <= issued /\ shown \in Nat /\ shown <= issued
  /\ \A r \in requests : r.id \in 1..issued
  /\ \A r \in requests : \E target, arg \in Paths, op \in {"list", "mkdir", "upload", "abort", "rename", "move", "delete"} :
       r = Request(r.id, op, target, arg) /\ Sendable(r)
  /\ \A a \in answers : a.id \in 1..issued /\ \A item \in a.items : item.name \in FileNames

\* The newest list is asked of the folder the page is in.
NewestAsked ==
  /\ \A r \in requests : r.id = latest => r.op = "list" /\ r.at = path
  /\ \A a \in answers : a.id = latest => a.op = "list"

\* While nothing is lost and no change waits to be told of, the newest list is the folder's,
\* in its answer and on the page.
NewestTrue ==
  /\ \A r \in requests : r.op = "abort" => lost
  /\ ~lost /\ (\A a \in answers : a.op = "list") =>
       /\ \A a \in answers : a.id = latest => a.items = ItemsBut(a.missing)
       /\ shown = latest => rows = RowsBut(missing)

FilePageInv == CardTypes /\ MessageTypes /\ NewestAsked /\ NewestTrue

\* A file is in the folder of its path without the last name.
LEMMA ChildIs ==
  ASSUME NEW p \in Paths, NEW q \in Paths, Len(q) = Len(p) + 1, IsPrefix(p, q)
  PROVE  Append(p, Last(q)) = q /\ Last(q) \in FileNames
<1>1. Len(p) \in Nat /\ Len(q) \in 1..Len(q) /\ Last(q) = q[Len(q)]
  BY LenProperties DEF Paths, Last
<1>2. Last(q) \in FileNames
  BY <1>1, ElementOfSeq DEF Paths
<1>. DEFINE m == Append(p, Last(q))
<1>3. m \in Paths /\ Len(m) = Len(q) /\ (\A i \in 1..Len(p) : m[i] = p[i]) /\ m[Len(p) + 1] = Last(q)
  BY <1>1, <1>2, AppendProperties DEF Paths
<1>. HIDE DEF m
<1>4. \A i \in 1..Len(p) : p[i] = q[i]
  <2>. SUFFICES ASSUME NEW i \in 1..Len(p) PROVE p[i] = q[i]
    OBVIOUS
  <2>1. SubSeq(p, 1, Len(p)) = SubSeq(q, 1, Len(p))
    BY DEF IsPrefix
  <2>2. SubSeq(p, 1, Len(p))[i] = p[i] /\ SubSeq(q, 1, Len(p))[i] = q[i]
    BY <1>1 DEF Paths
  <2>. QED
    BY <2>1, <2>2
<1>5. \A i \in 1..Len(q) : m[i] = q[i]
  <2>. SUFFICES ASSUME NEW i \in 1..Len(q) PROVE m[i] = q[i]
    OBVIOUS
  <2>1. CASE i = Len(q)
    BY <1>1, <1>3, <2>1
  <2>2. CASE i # Len(q)
    <3>1. i \in 1..Len(p)
      BY <1>1, <2>2
    <3>. QED
      BY <3>1, <1>3, <1>4
  <2>. QED
    BY <2>1, <2>2
<1>6. m = q
  BY <1>3, <1>5, SeqEqual DEF Paths
<1>. QED
  BY <1>2, <1>6 DEF m

\* A path joined to a path, and the end of one, are paths.
LEMMA PathsOf ==
  /\ <<>> \in Paths
  /\ \A name \in FileNames : <<name>> \in Paths
  /\ \A p \in Paths, name \in FileNames : Append(p, name) \in Below
  /\ \A p, q \in Paths : p \o q \in Paths
  /\ \A p \in Paths : Front(p) \in Paths /\ Len(p) \in Nat
  /\ \A p \in Below : Last(p) \in FileNames
  /\ \A p \in Paths, n \in Nat : n <= Len(p) => SubSeq(p, 1, n) \in Paths
  /\ \A p \in Paths, n \in Nat : SubSeq(p, n + 1, Len(p)) \in Paths
<1>1. <<>> \in Paths /\ \A name \in FileNames : <<name>> \in Paths
  BY DEF Paths
<1>2. \A p \in Paths, name \in FileNames : Append(p, name) \in Below
  BY AppendProperties DEF Paths, Below
<1>3. \A p, q \in Paths : p \o q \in Paths
  BY DEF Paths
<1>4. \A p \in Paths, m, n \in Nat : m > 0 /\ n <= Len(p) => SubSeq(p, m, n) \in Paths
  <2>. SUFFICES ASSUME NEW p \in Paths, NEW m \in Nat, NEW n \in Nat, m > 0, n <= Len(p)
                PROVE  SubSeq(p, m, n) \in Paths
    OBVIOUS
  <2>1. \A i \in m..n : i \in 1..Len(p)
    BY LenProperties DEF Paths
  <2>2. \A i \in m..n : p[i] \in FileNames
    BY <2>1, ElementOfSeq DEF Paths
  <2>. QED
    BY <2>2, SubSeqProperties DEF Paths
<1>5. \A p \in Paths : Len(p) \in Nat
  BY LenProperties DEF Paths
<1>6. \A p \in Paths : Front(p) \in Paths
  <2>. SUFFICES ASSUME NEW p \in Paths PROVE Front(p) \in Paths
    OBVIOUS
  <2>1. CASE Len(p) = 0
    <3>1. SubSeq(p, 1, Len(p) - 1) = <<>>
      BY <2>1, SubSeqEmpty
    <3>. QED
      BY <3>1, <1>1 DEF Front
  <2>2. CASE Len(p) # 0
    <3>. DEFINE n == Len(p) - 1
    <3>1. n \in Nat /\ n <= Len(p)
      BY <1>5, <2>2
    <3>. HIDE DEF n
    <3>2. SubSeq(p, 1, n) \in Paths
      BY <3>1, <1>4
    <3>. QED
      BY <3>2 DEF Front, n
  <2>. QED
    BY <2>1, <2>2
<1>7. \A p \in Below : Last(p) \in FileNames
  <2>. SUFFICES ASSUME NEW p \in Below PROVE Last(p) \in FileNames
    OBVIOUS
  <2>1. Len(p) \in 1..Len(p) /\ p \in Seq(FileNames)
    BY EmptySeq, LenProperties DEF Below, Paths
  <2>. QED
    BY <2>1, ElementOfSeq DEF Last
<1>8. \A p \in Paths, n \in Nat : SubSeq(p, n + 1, Len(p)) \in Paths
  <2>. SUFFICES ASSUME NEW p \in Paths, NEW n \in Nat PROVE SubSeq(p, n + 1, Len(p)) \in Paths
    OBVIOUS
  <2>. DEFINE m == n + 1
              l == Len(p)
  <2>1. m \in Nat /\ m > 0 /\ l \in Nat /\ l <= Len(p)
    BY <1>5
  <2>. HIDE DEF m, l
  <2>2. SubSeq(p, m, l) \in Paths
    BY <2>1, <1>4
  <2>. QED
    BY <2>2 DEF m, l
<1>9. \A p \in Paths, n \in Nat : n <= Len(p) => SubSeq(p, 1, n) \in Paths
  BY <1>4
<1>. QED
  BY <1>1, <1>2, <1>3, <1>5, <1>6, <1>7, <1>8, <1>9

\* What can be seen in a folder is in it, by its own path.
LEMMA VisibleIs ==
  ASSUME CardTypes, NEW p \in Paths, NEW q \in Visible(p)
  PROVE  q \in Paths /\ Append(p, Last(q)) = q /\ Last(q) \in FileNames
<1>1. q \in DOMAIN tree /\ Len(q) = Len(p) + 1 /\ IsPrefix(p, q)
  BY DEF Visible, Children
<1>2. q \in Paths
  BY <1>1 DEF CardTypes
<1>. QED
  BY <1>1, <1>2, ChildIs

\* Neither the folder the page is in nor the card changed, so neither did the list of it.
LEMMA SameList ==
  ASSUME path' = path, tree' = tree
  PROVE  /\ Visible(path)' = Visible(path) /\ \A q : ItemOf(q)' = ItemOf(q) /\ RowOf(q)' = RowOf(q)
         /\ \A m : ItemsBut(m)' = ItemsBut(m)
         /\ missing' = missing => RowsBut(missing)' = RowsBut(missing)
<1>1. Visible(path)' = Visible(path) /\ (\A q : ItemOf(q)' = ItemOf(q) /\ RowOf(q)' = RowOf(q))
  BY DEF Visible, IsFolder, Present, Children, ItemOf, RowOf
<1>. QED
  BY <1>1 DEF ItemsBut, RowsBut

\* The invariant says what the page shows.
LEMMA FilePageInvTrue == FilePageInv => PageTrue
BY DEF FilePageInv, NewestTrue, PageTrue, RowsBut, RowOf, ItemOf

\* The page starts on the root with nothing asked.
LEMMA FilePageInitial == FilePageInit => FilePageInv
<1>. SUFFICES ASSUME FilePageInit PROVE FilePageInv
  OBVIOUS
<1>1. CardTypes
  <2>1. ASSUME NEW p \in DOMAIN FirstTree PROVE p \in Paths
    <3>. DEFINE S == {p[i] : i \in DOMAIN p}
    <3>1. p \in Seq(S)
      BY PageAssumption
    <3>2. S \subseteq FileNames
      BY DEF FileNames
    <3>. HIDE DEF S
    <3>3. \A i \in 1..Len(p) : p[i] \in FileNames
      BY <3>1, <3>2, ElementOfSeq
    <3>4. p = [i \in 1..Len(p) |-> p[i]] /\ Len(p) \in Nat
      BY <3>1, LenProperties
    <3>. QED
      BY <3>3, <3>4, IsASeq DEF Paths
  <2>. QED
    BY <2>1, PathsOf DEF CardTypes, FilePageInit
<1>2. MessageTypes
  <2>1. \A r \in requests : r = Request(1, "list", <<>>, <<>>) /\ r.id = 1 /\ r.op = "list" /\ r.at = <<>> /\ r.arg = <<>>
    BY DEF FilePageInit, Request
  <2>2. answers = {} /\ issued = 1 /\ latest = 1 /\ shown = 0
    BY DEF FilePageInit
  <2>. QED
    BY <2>1, <2>2, PathsOf DEF MessageTypes, Sendable
<1>3. NewestAsked /\ NewestTrue
  BY DEF FilePageInit, NewestAsked, NewestTrue, Request
<1>. QED
  BY <1>1, <1>2, <1>3 DEF FilePageInv

\* A message the server can be sent, by its number.
Typed(r, n) ==
  /\ r.id \in 1..n
  /\ \E target, arg \in Paths, op \in {"list", "mkdir", "upload", "abort", "rename", "move", "delete"} :
       r = Request(r.id, op, target, arg) /\ Sendable(r)

\* Loading a folder: the newest list is asked of it, and no answer there is is the newest.
LEMMA LoadKeeps ==
  ASSUME FilePageInv, NEW folder \in Paths, NEW others, Load(folder, others), path' = folder,
         rows' = rows, tree' = tree, UNCHANGED listing, answers' \subseteq answers,
         \A r \in others : Typed(r, issued) /\ (r.op = "abort" => lost')
  PROVE  FilePageInv'
<1>. DEFINE new == Request(issued + 1, "list", folder, <<>>)
<1>1. issued' = issued + 1 /\ latest' = issued + 1 /\ requests' = others \cup {new}
  BY DEF Load, listing
<1>2. new.id = issued + 1 /\ new.op = "list" /\ new.at = folder /\ new.arg = <<>>
  BY DEF Request
<1>3. /\ issued \in Nat /\ shown \in Nat /\ shown <= issued
      /\ \A a \in answers : a.id \in 1..issued /\ \A item \in a.items : item.name \in FileNames
  BY DEF FilePageInv, MessageTypes
<1>. HIDE DEF new
<1>4. CardTypes'
  BY DEF FilePageInv, CardTypes
<1>5. MessageTypes'
  <2>1. /\ issued' \in Nat /\ latest' \in Nat /\ latest' <= issued' /\ shown' \in Nat /\ shown' <= issued'
    BY <1>1, <1>3 DEF listing
  <2>2. ASSUME NEW r \in requests'
        PROVE  r.id \in 1..issued' /\
               \E target, arg \in Paths, op \in {"list", "mkdir", "upload", "abort", "rename", "move", "delete"} :
                 r = Request(r.id, op, target, arg) /\ Sendable(r)
    <3>1. CASE r \in others
      <4>1. r.id \in 1..issued
        BY <3>1 DEF Typed
      <4>2. r.id \in 1..issued'
        BY <4>1, <1>1, <1>3
      <4>. QED
        BY Zenon, <3>1, <4>2 DEF Typed
    <3>2. CASE r = new
      <4>1. r.id \in 1..issued'
        BY <3>2, <1>1, <1>2, <1>3
      <4>2. r = Request(r.id, "list", folder, <<>>)
        BY <3>2, <1>2 DEF new
      <4>3. Sendable(r) /\ <<>> \in Paths
        BY <3>2, <1>2, PathsOf DEF Sendable
      <4>. QED
        BY <4>1, <4>2, <4>3
    <3>. QED
      BY <1>1, <3>1, <3>2
  <2>3. \A a \in answers' : a.id \in 1..issued' /\ \A item \in a.items : item.name \in FileNames
    <3>1. 1..issued \subseteq 1..issued'
      BY <1>1, <1>3
    <3>. QED
      BY Zenon, <1>3, <3>1
  <2>. QED
    BY <2>1, <2>2, <2>3 DEF MessageTypes, Sendable
<1>6. \A r \in requests' : r.id = latest' => r = new
  BY <1>1, <1>3 DEF Typed
<1>7. \A a \in answers' : a.id # latest'
  BY <1>1, <1>3
<1>8. NewestAsked'
  BY <1>2, <1>6, <1>7 DEF NewestAsked
<1>9. NewestTrue'
  <2>1. \A r \in requests' : r.op = "abort" => lost'
    BY <1>1, <1>2
  <2>2. shown' # latest'
    BY <1>1, <1>3 DEF listing
  <2>. QED
    BY Zenon, <2>1, <2>2, <1>7 DEF NewestTrue
<1>. QED
  BY <1>4, <1>5, <1>8, <1>9 DEF FilePageInv

\* Any other request leaves the newest list as it is.
LEMMA SendKeeps ==
  ASSUME FilePageInv, NEW op \in {"mkdir", "upload", "rename", "move", "delete"}, NEW dir \in Paths, NEW arg \in Paths,
         op \in {"rename", "move", "delete"} => dir # <<>>,
         Send(op, dir, arg), path' = path, rows' = rows
  PROVE  FilePageInv'
<1>. DEFINE new == Request(issued + 1, op, dir, arg)
<1>1. /\ issued' = issued + 1 /\ requests' = requests \cup {new}
      /\ answers' = answers /\ tree' = tree /\ latest' = latest /\ shown' = shown /\ missing' = missing /\ lost' = lost
  BY DEF Send, listing
<1>2. new.id = issued + 1 /\ new.op = op /\ new.at = dir /\ new.arg = arg
  BY DEF Request
<1>3. /\ issued \in Nat /\ latest \in Nat /\ latest <= issued /\ shown \in Nat /\ shown <= issued
      /\ \A r \in requests : Typed(r, issued)
      /\ \A a \in answers : a.id \in 1..issued /\ \A item \in a.items : item.name \in FileNames
  BY DEF FilePageInv, MessageTypes, Typed
<1>. HIDE DEF new
<1>4. CardTypes'
  BY <1>1 DEF FilePageInv, CardTypes
<1>5. MessageTypes'
  <2>1. /\ issued' \in Nat /\ latest' \in Nat /\ latest' <= issued' /\ shown' \in Nat /\ shown' <= issued'
    BY <1>1, <1>3
  <2>0. 1..issued \subseteq 1..issued'
    BY <1>1, <1>3
  <2>2. ASSUME NEW r \in requests'
        PROVE  r.id \in 1..issued' /\
               \E target, ag \in Paths, o \in {"list", "mkdir", "upload", "abort", "rename", "move", "delete"} :
                 r = Request(r.id, o, target, ag) /\ Sendable(r)
    <3>1. CASE r \in requests
      BY Zenon, <3>1, <1>3, <2>0 DEF Typed
    <3>2. CASE r = new
      <4>1. r.id \in 1..issued'
        BY <3>2, <1>1, <1>2, <1>3
      <4>2. r = Request(r.id, op, dir, arg)
        BY <3>2, <1>2 DEF new
      <4>3. Sendable(r)
        BY <3>2, <1>2 DEF Sendable
      <4>. QED
        BY <4>1, <4>2, <4>3
    <3>. QED
      BY <1>1, <3>1, <3>2
  <2>3. \A a \in answers' : a.id \in 1..issued' /\ \A item \in a.items : item.name \in FileNames
    BY Zenon, <1>1, <1>3, <2>0
  <2>. QED
    BY <2>1, <2>2, <2>3 DEF MessageTypes, Sendable
<1>6. new.id # latest /\ new.op # "abort"
  BY <1>2, <1>3
<1>8. NewestAsked'
  BY <1>1, <1>6 DEF NewestAsked, FilePageInv
<1>9. NewestTrue'
  BY <1>1, <1>6 DEF NewestTrue, FilePageInv, ItemsBut, RowsBut, ItemOf, RowOf, Visible, IsFolder, Present, Children
<1>. QED
  BY <1>4, <1>5, <1>8, <1>9 DEF FilePageInv

\* What the user does.
LEMMA UserKeeps ==
  ASSUME FilePageInv, EnterFolder \/ Crumb \/ Refresh \/ Mkdir \/ RowButton \/ Upload \/ CancelUpload
  PROVE  FilePageInv'
<1>1. /\ path \in Paths /\ \A row \in rows : row.full \in Paths /\ row.full # <<>>
      /\ \A r \in requests : Typed(r, issued) /\ (r.op = "abort" => lost)
  BY DEF FilePageInv, CardTypes, Below, MessageTypes, Typed, NewestTrue
<1>2. ASSUME NEW folder \in Paths, GoTo(folder) PROVE FilePageInv'
  BY <1>1, <1>2, LoadKeeps DEF GoTo
<1>3. CASE EnterFolder
  BY <1>1, <1>2, <1>3 DEF EnterFolder
<1>4. CASE Crumb
  <2>1. PICK n \in 0..Len(path) - 1 : GoTo(SubSeq(path, 1, n))
    BY <1>4 DEF Crumb
  <2>2. Len(path) \in Nat /\ n \in Nat /\ n <= Len(path)
    BY <1>1, PathsOf
  <2>. QED
    BY <1>1, <1>2, <2>1, <2>2, PathsOf
<1>5. CASE Refresh
  BY <1>1, <1>2, <1>5 DEF Refresh
<1>6. \A name \in PageNames : <<name>> \in Paths
  BY PathsOf DEF FileNames
<1>7. CASE Mkdir
  BY <1>1, <1>6, <1>7, SendKeeps DEF Mkdir, pageState
<1>8. CASE RowButton
  <2>1. path' = path /\ rows' = rows
    BY <1>8 DEF RowButton, pageState
  <2>2. CASE Rename
    BY <1>1, <1>6, <2>1, <2>2, SendKeeps DEF Rename
  <2>3. CASE MoveFile
    <3>1. PICK row \in rows, dest \in {<<>>} \cup {r.full : r \in rows} : Send("move", row.full, dest)
      BY <2>3 DEF MoveFile
    <3>2. dest \in Paths
      BY <1>1, PathsOf
    <3>. QED
      BY <1>1, <2>1, <3>1, <3>2, SendKeeps
  <2>4. CASE Delete
    BY <1>1, <2>1, <2>4, SendKeeps, PathsOf DEF Delete
  <2>. QED
    BY <1>8, <2>2, <2>3, <2>4 DEF RowButton
<1>9. CASE Upload
  BY <1>1, <1>6, <1>9, SendKeeps DEF Upload
<1>10. CASE CancelUpload
  <2>. DEFINE Aborted(r) == IF r.id = activeUpload THEN [r EXCEPT !.op = "abort"] ELSE r
              others == {Aborted(r) : r \in requests}
  <2>1. /\ Load(path, others) /\ answers' \subseteq answers /\ lost' = TRUE
        /\ path' = path /\ rows' = rows /\ tree' = tree /\ UNCHANGED listing
    BY <1>10 DEF CancelUpload
  <2>2. ASSUME NEW r \in requests PROVE Typed(Aborted(r), issued)
    <3>1. CASE r.id = activeUpload
      <4>1. PICK target \in Paths, arg \in Paths, op \in {"list", "mkdir", "upload", "abort", "rename", "move", "delete"} :
              r = Request(r.id, op, target, arg) /\ Sendable(r)
        BY <1>1 DEF Typed
      <4>2. [r EXCEPT !.op = "abort"] = Request(r.id, "abort", target, arg)
        BY <4>1 DEF Request
      <4>. DEFINE q == Request(r.id, "abort", target, arg)
      <4>3. q.id = r.id /\ q.op = "abort" /\ q.at = target /\ q.arg = arg
        BY DEF Request
      <4>4. Sendable(q)
        BY <4>3 DEF Sendable
      <4>5. r.id \in 1..issued
        BY <1>1 DEF Typed
      <4>6. Typed(q, issued)
        BY <4>3, <4>4, <4>5 DEF Typed
      <4>. QED
        BY <3>1, <4>2, <4>6
    <3>2. CASE r.id # activeUpload
      BY <1>1, <3>2
    <3>. QED
      BY <3>1, <3>2
  <2>. HIDE DEF Aborted
  <2>3. \A r \in others : Typed(r, issued) /\ (r.op = "abort" => lost')
    BY <2>1, <2>2
  <2>. HIDE DEF others
  <2>. QED
    BY <1>1, <2>1, <2>3, LoadKeeps
<1>. QED
  BY <1>3, <1>4, <1>5, <1>7, <1>8, <1>9, <1>10

\* A change of the card leaves paths on it.
LEMMA ServedPaths ==
  ASSUME CardTypes, NEW r, Sendable(r)
  PROVE  DOMAIN Served(r) \subseteq Paths
<1>. DEFINE joined == r.at \o r.arg
            renamed == Front(r.at) \o r.arg
            moved == Append(r.arg, Last(r.at))
<1>1. DOMAIN tree \subseteq Paths /\ r.at \in Paths /\ r.arg \in Paths
  BY DEF CardTypes, Sendable
<1>2. joined \in Paths /\ renamed \in Paths /\ (r.op = "move" => moved \in Paths)
  <2>1. joined \in Paths /\ renamed \in Paths
    BY Zenon, <1>1, PathsOf
  <2>2. r.op = "move" => Last(r.at) \in FileNames
    BY <1>1, PathsOf DEF Sendable, Below
  <2>3. r.op = "move" => moved \in Paths
    BY Zenon, <1>1, <2>2, PathsOf DEF Below
  <2>. QED
    BY <2>1, <2>3
<1>. HIDE DEF joined, renamed, moved
<1>3. ASSUME NEW p \in Paths, NEW kind PROVE DOMAIN With(p, kind) \subseteq Paths
  BY <1>1 DEF With
<1>4. ASSUME NEW ps PROVE DOMAIN Without(ps) \subseteq Paths
  BY <1>1 DEF Without
<1>5. ASSUME NEW from \in Paths, NEW to \in Paths PROVE DOMAIN MovedTo(from, to) \subseteq Paths
  <2>. DEFINE below == {q \in DOMAIN tree : IsPrefix(from, q)}
              new == {to \o SubSeq(q, Len(from) + 1, Len(q)) : q \in below}
  <2>1. DOMAIN MovedTo(from, to) = (DOMAIN tree \ below) \cup new
    BY DEF MovedTo
  <2>2. Len(from) \in Nat
    BY PathsOf
  <2>3. \A q \in below : SubSeq(q, Len(from) + 1, Len(q)) \in Paths
    BY Zenon, <1>1, <2>2, PathsOf
  <2>4. new \subseteq Paths
    BY Zenon, <2>3, PathsOf
  <2>. HIDE DEF below, new
  <2>. QED
    BY <1>1, <2>1, <2>4
<1>6. \/ Served(r) = With(joined, "dir") \/ Served(r) = With(joined, "file")
      \/ Served(r) = Without({joined}) \/ Served(r) = Without({r.at})
      \/ Served(r) = MovedTo(r.at, renamed)
      \/ r.op = "move" /\ Served(r) = MovedTo(r.at, moved)
      \/ Served(r) = tree
  BY Zenon DEF Served, joined, renamed, moved
<1>. QED
  <2>1. CASE Served(r) = With(joined, "dir") \/ Served(r) = With(joined, "file")
    BY <1>2, <1>3, <2>1
  <2>2. CASE Served(r) = Without({joined}) \/ Served(r) = Without({r.at})
    BY <1>4, <2>2
  <2>3. CASE Served(r) = MovedTo(r.at, renamed)
    BY <1>1, <1>2, <1>5, <2>3
  <2>4. CASE r.op = "move" /\ Served(r) = MovedTo(r.at, moved)
    BY <1>1, <1>2, <1>5, <2>4
  <2>. QED
    BY <1>1, <1>6, <2>1, <2>2, <2>3, <2>4

\* The server at work: a change is told of, and a list is of the card as it is then.
LEMMA ServeKeeps == ASSUME FilePageInv, Serve PROVE FilePageInv'
<1>. DEFINE Answered(r, unread) ==
        /\ requests' = requests \ {r}
        /\ tree' \in {tree, Served(r)}
        /\ answers' = IF r.op = "abort" THEN answers
                      ELSE answers \cup {[id |-> r.id, op |-> r.op, items |-> Listed(r) \ unread, missing |-> unread]}
        /\ UNCHANGED <<pageState, issued, latest, listing, lost>>
<1>0. PICK r \in requests : \E unread \in SUBSET Listed(r) : Answered(r, unread)
  BY Zenon DEF Serve
<1>1. PICK unread \in SUBSET Listed(r) : Answered(r, unread)
  BY <1>0
<1>. DEFINE new == [id |-> r.id, op |-> r.op, items |-> Listed(r) \ unread, missing |-> unread]
<1>2. /\ path' = path /\ rows' = rows /\ issued' = issued /\ latest' = latest
      /\ shown' = shown /\ missing' = missing /\ lost' = lost
  BY <1>1 DEF pageState, listing
<1>3. r.id \in 1..issued /\ Sendable(r) /\ r.at \in Paths
  BY DEF FilePageInv, MessageTypes, Sendable
<1>4. new.id = r.id /\ new.op = r.op /\ new.items = Listed(r) \ unread /\ new.missing = unread
  OBVIOUS
<1>. HIDE DEF new
<1>5. CardTypes'
  <2>1. CardTypes /\ DOMAIN Served(r) \subseteq Paths
    BY <1>3, ServedPaths DEF FilePageInv
  <2>2. DOMAIN tree' \subseteq Paths
    BY Zenon, <1>1, <2>1 DEF CardTypes
  <2>. QED
    BY Zenon, <1>2, <2>1, <2>2 DEF CardTypes
<1>6. MessageTypes'
  <2>1. \A item \in new.items : item.name \in FileNames
    BY <1>3, <1>4, VisibleIs DEF Listed, FilePageInv
  <2>2. \A a \in answers' : a.id \in 1..issued' /\ \A item \in a.items : item.name \in FileNames
    <3>1. \A a \in answers : a.id \in 1..issued /\ \A item \in a.items : item.name \in FileNames
      BY DEF FilePageInv, MessageTypes
    <3>2. \A a \in answers' : a \in answers \/ a = new
      BY <1>1 DEF new
    <3>. QED
      BY Zenon, <1>2, <1>3, <1>4, <2>1, <3>1, <3>2
  <2>. QED
    BY Zenon, <1>1, <1>2, <2>2 DEF FilePageInv, MessageTypes, Sendable
<1>7. NewestAsked'
  <2>1. \A a \in answers' : a \in answers \/ a = new
    BY <1>1 DEF new
  <2>2. requests' \subseteq requests
    BY <1>1
  <2>. QED
    BY Zenon, <1>2, <1>4, <2>1, <2>2 DEF FilePageInv, NewestAsked
<1>8. NewestTrue'
  <2>1. \A q \in requests' : q.op = "abort" => lost'
    BY <1>1, <1>2 DEF FilePageInv, NewestTrue
  <2>2. ASSUME ~lost', \A a \in answers' : a.op = "list"
        PROVE  /\ \A a \in answers' : a.id = latest' => a.items = ItemsBut(a.missing)'
               /\ shown' = latest' => rows' = RowsBut(missing)'
    <3>1. r.op # "abort"
      BY <1>2, <2>2 DEF FilePageInv, NewestTrue
    <3>2. answers' = answers \cup {new}
      BY <1>1, <3>1 DEF new
    <3>3. r.op = "list" /\ \A a \in answers : a.op = "list"
      BY <1>4, <2>2, <3>2
    <3>4. tree' = tree
      BY <1>1, <3>3 DEF Served
    <3>5. /\ \A a \in answers : a.id = latest => a.items = ItemsBut(a.missing)
          /\ shown = latest => rows = RowsBut(missing)
      BY <1>2, <2>2, <3>3 DEF FilePageInv, NewestTrue
    <3>6. new.id = latest => new.items = ItemsBut(new.missing)
      <4>1. new.id = latest => r.at = path
        BY <1>4 DEF FilePageInv, NewestAsked
      <4>2. Listed(r) = {[name |-> Last(q), kind |-> tree[q]] : q \in Visible(r.at)}
        BY <3>3 DEF Listed
      <4>. QED
        BY <1>4, <4>1, <4>2 DEF ItemOf, ItemsBut
    <3>8. (\A m : ItemsBut(m)' = ItemsBut(m)) /\ RowsBut(missing)' = RowsBut(missing)
      BY <1>2, <3>4, SameList
    <3>. QED
      BY Zenon, <1>2, <3>2, <3>5, <3>6, <3>8
  <2>. QED
    BY <2>1, <2>2 DEF NewestTrue
<1>. QED
  BY <1>5, <1>6, <1>7, <1>8 DEF FilePageInv

\* A list arrives; if it is the newest, its rows are the folder's.
LEMMA ListAnswerKeeps == ASSUME FilePageInv, ListAnswer PROVE FilePageInv'
<1>1. PICK a \in answers :
        /\ a.op = "list" /\ rows' = {Row(item) : item \in a.items} /\ shown' = a.id /\ missing' = a.missing
        /\ answers' = answers \ {a}
        /\ UNCHANGED <<path, activeUpload, requests, tree, issued, latest, lost>>
  BY DEF ListAnswer
<1>2. /\ path \in Paths /\ a.id \in 1..issued /\ issued \in Nat
      /\ \A item \in a.items : item.name \in FileNames
  BY DEF FilePageInv, CardTypes, MessageTypes
<1>3. CardTypes'
  <2>1. \A item \in a.items : Row(item).full \in Below
    BY <1>2, PathsOf DEF Row
  <2>2. \A row \in rows' : row.full \in Below
    BY <1>1, <2>1
  <2>. QED
    BY <1>1, <2>2 DEF FilePageInv, CardTypes
<1>4. MessageTypes'
  <2>1. shown' \in Nat /\ shown' <= issued
    BY <1>1, <1>2
  <2>2. \A m \in answers' : m \in answers
    BY <1>1
  <2>. QED
    BY Zenon, <1>1, <2>1, <2>2 DEF FilePageInv, MessageTypes, Sendable
<1>5. NewestAsked'
  BY <1>1 DEF FilePageInv, NewestAsked
<1>6. NewestTrue'
  <2>1. \A r \in requests' : r.op = "abort" => lost'
    BY <1>1 DEF FilePageInv, NewestTrue
  <2>2. ASSUME ~lost', \A m \in answers' : m.op = "list"
        PROVE  /\ \A m \in answers' : m.id = latest' => m.items = ItemsBut(m.missing)'
               /\ shown' = latest' => rows' = RowsBut(missing)'
    <3>1. \A m \in answers : m.op = "list"
      BY <1>1, <2>2
    <3>2. \A m \in answers : m.id = latest => m.items = ItemsBut(m.missing)
      BY <1>1, <2>2, <3>1 DEF FilePageInv, NewestTrue
    <3>3. /\ Visible(path)' = Visible(path) /\ \A q : ItemOf(q)' = ItemOf(q) /\ RowOf(q)' = RowOf(q)
          /\ \A m : ItemsBut(m)' = ItemsBut(m)
      BY <1>1, SameList
    <3>4. RowsBut(missing)' = {RowOf(q) : q \in {v \in Visible(path) : ItemOf(v) \notin a.missing}}
      BY <1>1, <3>3 DEF RowsBut
    <3>5. a.id = latest => rows' = {RowOf(q) : q \in {v \in Visible(path) : ItemOf(v) \notin a.missing}}
      <4>1. \A q \in Visible(path) : Row(ItemOf(q)) = RowOf(q)
        BY <1>2, VisibleIs DEF Row, ItemOf, RowOf, FilePageInv
      <4>2. a.id = latest => rows' = {Row(item) : item \in {ItemOf(q) : q \in Visible(path)} \ a.missing}
        BY <1>1, <3>2 DEF ItemsBut
      <4>. QED
        BY <4>1, <4>2
    <3>. QED
      BY Zenon, <1>1, <3>2, <3>3, <3>4, <3>5
  <2>. QED
    BY <2>1, <2>2 DEF NewestTrue
<1>. QED
  BY <1>3, <1>4, <1>5, <1>6 DEF FilePageInv

\* Being told of a change, the page asks again.
LEMMA ChangeAnswerKeeps == ASSUME FilePageInv, ChangeAnswer PROVE FilePageInv'
<1>1. /\ Load(path, requests) /\ path' = path /\ rows' = rows /\ tree' = tree /\ UNCHANGED listing /\ lost' = lost
      /\ answers' \subseteq answers
  BY DEF ChangeAnswer, AfterChange
<1>2. path \in Paths
  BY DEF FilePageInv, CardTypes
<1>3. \A r \in requests : Typed(r, issued) /\ (r.op = "abort" => lost')
  BY <1>1 DEF FilePageInv, MessageTypes, NewestTrue, Typed
<1>. QED
  BY <1>1, <1>2, <1>3, LoadKeeps

\* A lost message leaves the page to be checked no more.
LEMMA LoseKeeps == ASSUME FilePageInv, Lose PROVE FilePageInv'
<1>1. /\ requests' \subseteq requests /\ answers' \subseteq answers /\ lost' = TRUE
      /\ path' = path /\ rows' = rows /\ tree' = tree /\ issued' = issued /\ latest' = latest /\ shown' = shown
  BY DEF Lose, listing
<1>2. (\A r \in requests' : r \in requests) /\ (\A a \in answers' : a \in answers)
  BY <1>1
<1>3. CardTypes'
  BY <1>1 DEF FilePageInv, CardTypes
<1>4. MessageTypes'
  BY Zenon, <1>1, <1>2 DEF FilePageInv, MessageTypes, Sendable
<1>5. NewestAsked'
  BY Zenon, <1>1, <1>2 DEF FilePageInv, NewestAsked
<1>6. NewestTrue'
  BY Zenon, <1>1 DEF NewestTrue
<1>. QED
  BY <1>3, <1>4, <1>5, <1>6 DEF FilePageInv

\* For any card, any names typed and any number of requests, served and answered in any order:
\* once nothing is under way and nothing was lost, and the newest list arrived last, the page
\* shows what its folder holds on the card, but for what the server could not read of it, and every button acts on the file beside its name.
\* (load(), render() and the button handlers of FileManagerPage.h.)
THEOREM PageShowsFolder == FilePageSpec => []PageTrue
<1>1. FilePageInv /\ [FilePageNext]_filePageVars => FilePageInv'
  <2>. SUFFICES ASSUME FilePageInv, [FilePageNext]_filePageVars PROVE FilePageInv'
    OBVIOUS
  <2>1. CASE EnterFolder \/ Crumb \/ Refresh \/ Mkdir \/ RowButton \/ Upload \/ CancelUpload
    BY <2>1, UserKeeps
  <2>2. CASE Serve
    BY <2>2, ServeKeeps
  <2>3. CASE ListAnswer
    BY <2>3, ListAnswerKeeps
  <2>4. CASE ChangeAnswer
    BY <2>4, ChangeAnswerKeeps
  <2>5. CASE Lose
    BY <2>5, LoseKeeps
  <2>6. CASE UNCHANGED filePageVars
    BY <2>6 DEF filePageVars, pageState, network, FilePageInv, CardTypes, MessageTypes, NewestAsked, NewestTrue,
                Sendable, ItemsBut, RowsBut, ItemOf, RowOf, Visible, IsFolder, Present, Children
  <2>. QED
    BY <2>1, <2>2, <2>3, <2>4, <2>5, <2>6 DEF FilePageNext
<1>2. FilePageSpec => []FilePageInv
  BY FilePageInitial, <1>1, PTL DEF FilePageSpec
<1>. QED
  BY <1>2, FilePageInvTrue, PTL

\* FontTables: what is looked up in a built-in font, for every codepoint and pair.

\* Whatever is looked up, it is a codepoint or a pair of codepoints.
WantsCodepoint == \E cp \in Nat : wanted = Glyph(cp)
WantsPair == \E left, right \in Nat : wanted = Pair(left, right)

\* As many rows as the table of the query has.
RowCount == IF query.kind = "glyph" THEN Data.intervalCount ELSE Data.ligaturePairCount

\* The search asks for what was wanted or, where the font has no glyph for it, for the
\* replacement.
Asking ==
  \/ query = wanted
  \/ /\ query = Glyph(ReplacementGlyph) /\ wanted.kind = "glyph"
     /\ Holding(wanted.left) = {}

\* The position sought is in the range left: all rows before it are before the query, and
\* no row after it is.
Narrowing ==
  /\ start \in Nat /\ count \in Nat /\ 1 <= start /\ start + count <= RowCount + 1
  /\ \A i \in 1..RowCount : (i < start => Before(i)) /\ (start + count <= i => ~Before(i))

Answered ==
  \/ answer = Unasked
  \/ answer = Searching /\ Asking /\ Narrowing
  \/ answer = NotFound
  \/ \E glyphAt \in Nat : answer = Found(glyphAt)

FontInv == font \in {"bold", "medium"} /\ (WantsCodepoint \/ WantsPair) /\ Answered /\ LookupsExact

Sound == IntervalsSound(Intervals, Data) /\ LigaturesSound(LigaturePairs, Data, Intervals)

\* The tables of either font are as FontTablesSound has them.
LEMMA TablesSound ==
  ASSUME font \in {"bold", "medium"}
  PROVE  Sound
BY FontTablesSound DEF Sound, Intervals, Data, LigaturePairs

\* The rows of the intervals: numbers, in order and apart.
LEMMA IntervalRows ==
  ASSUME Sound
  PROVE  /\ Len(Intervals) = Data.intervalCount /\ DOMAIN Intervals = 1..Data.intervalCount
         /\ Data.intervalCount \in Nat
         /\ \A i \in 1..Data.intervalCount :
              /\ Interval(i).first \in Nat /\ Interval(i).last \in Nat /\ Interval(i).offset \in Nat
              /\ Interval(i).first <= Interval(i).last
              /\ Interval(i).offset + Interval(i).last - Interval(i).first < Data.glyphs
              /\ \A cp \in Absent :
                   cp < Interval(i).first \/ Interval(i).last < cp
         /\ \A i, j \in 1..Data.intervalCount : i < j =>
              /\ Interval(i).last < Interval(j).first
              /\ Interval(i).offset + Interval(i).last - Interval(i).first < Interval(j).offset
<1>. DEFINE t == Intervals
            data == Data
<1>1. IntervalsSound(t, data)
  BY DEF Sound
<1>2. \A i : Interval(i).first = t[i][1] /\ Interval(i).last = t[i][2] /\ Interval(i).offset = t[i][3]
  BY DEF Interval
<1>. HIDE DEF t, data
<1>3. t \in Seq(Nat \X Nat \X Nat) /\ Len(t) = data.intervalCount
  BY <1>1 DEF IntervalsSound
<1>4. DOMAIN t = 1..data.intervalCount /\ data.intervalCount \in Nat
  BY <1>3, LenProperties
<1>5. \A i \in DOMAIN t : t[i] \in Nat \X Nat \X Nat
  BY <1>3, <1>4, ElementOfSeq
<1>6. \A i \in DOMAIN t : t[i][1] \in Nat /\ t[i][2] \in Nat /\ t[i][3] \in Nat
  BY <1>5
<1>7. /\ \A i \in DOMAIN t :
           /\ t[i][1] <= t[i][2] /\ t[i][3] + t[i][2] - t[i][1] < data.glyphs
           /\ \A cp \in Absent : cp < t[i][1] \/ t[i][2] < cp
      /\ \A i, j \in DOMAIN t : i < j =>
           t[i][2] < t[j][1] /\ t[i][3] + t[i][2] - t[i][1] < t[j][3]
  BY <1>1 DEF IntervalsSound
<1>8. ASSUME NEW i \in 1..data.intervalCount
      PROVE  /\ Interval(i).first \in Nat /\ Interval(i).last \in Nat /\ Interval(i).offset \in Nat
             /\ Interval(i).first <= Interval(i).last
             /\ Interval(i).offset + Interval(i).last - Interval(i).first < data.glyphs
             /\ \A cp \in Absent : cp < Interval(i).first \/ Interval(i).last < cp
  BY <1>2, <1>4, <1>6, <1>7
<1>9. ASSUME NEW i \in 1..data.intervalCount, NEW j \in 1..data.intervalCount, i < j
      PROVE  /\ Interval(i).last < Interval(j).first
             /\ Interval(i).offset + Interval(i).last - Interval(i).first < Interval(j).offset
  BY <1>2, <1>4, <1>7, <1>9
<1>10. Len(t) = data.intervalCount /\ DOMAIN t = 1..data.intervalCount /\ data.intervalCount \in Nat
  BY <1>3, <1>4
<1>. HIDE DEF Interval
<1>. QED
  BY <1>8, <1>9, <1>10 DEF t, data

\* The rows of the ligatures: numbers, in the order of the pairs.
LEMMA LigatureRows ==
  ASSUME Sound
  PROVE  /\ Len(LigaturePairs) = Data.ligaturePairCount /\ DOMAIN LigaturePairs = 1..Data.ligaturePairCount
         /\ Data.ligaturePairCount \in Nat
         /\ \A i \in 1..Data.ligaturePairCount :
              /\ LigaturePair(i).left \in Nat /\ LigaturePair(i).right \in Nat /\ LigaturePair(i).ligatureCp \in Nat
              /\ ~IsCombiningMark(LigaturePair(i).left) /\ ~IsCombiningMark(LigaturePair(i).right)
              /\ ~IsCombiningMark(LigaturePair(i).ligatureCp)
              /\ Holding(LigaturePair(i).ligatureCp) # {}
         /\ \A i, j \in 1..Data.ligaturePairCount : i < j =>
              Less(LigaturePair(i), LigaturePair(j).left, LigaturePair(j).right)
<1>. DEFINE t == LigaturePairs
            data == Data
            iv == Intervals
<1>1. LigaturesSound(t, data, iv)
  BY DEF Sound
<1>2. \A i : LigaturePair(i).left = t[i][1] /\ LigaturePair(i).right = t[i][2] /\ LigaturePair(i).ligatureCp = t[i][3]
  BY DEF LigaturePair
<1>a. \A cp : (\E k \in DOMAIN iv : iv[k][1] <= cp /\ cp <= iv[k][2]) => Holding(cp) # {}
  BY DEF Holding, Interval
<1>. HIDE DEF t, data, iv
<1>3. t \in Seq(Nat \X Nat \X Nat) /\ Len(t) = data.ligaturePairCount
  BY <1>1 DEF LigaturesSound
<1>4. DOMAIN t = 1..data.ligaturePairCount /\ data.ligaturePairCount \in Nat
  BY <1>3, LenProperties
<1>5. \A i \in DOMAIN t : t[i] \in Nat \X Nat \X Nat
  BY <1>3, <1>4, ElementOfSeq
<1>6. \A i \in DOMAIN t : t[i][1] \in Nat /\ t[i][2] \in Nat /\ t[i][3] \in Nat
  BY <1>5
<1>7. /\ \A i, j \in DOMAIN t : i < j =>
           t[i][1] < t[j][1] \/ (t[i][1] = t[j][1] /\ t[i][2] < t[j][2])
      /\ \A i \in DOMAIN t :
           /\ ~\E k \in 1..3 : IsCombiningMark(t[i][k])
           /\ \E k \in DOMAIN iv : iv[k][1] <= t[i][3] /\ t[i][3] <= iv[k][2]
  BY <1>1 DEF LigaturesSound
<1>b. 1 \in 1..3 /\ 2 \in 1..3 /\ 3 \in 1..3
  OBVIOUS
<1>8. \A i \in DOMAIN t :
        /\ ~IsCombiningMark(t[i][1]) /\ ~IsCombiningMark(t[i][2]) /\ ~IsCombiningMark(t[i][3])
        /\ Holding(t[i][3]) # {}
  BY <1>7, <1>a, <1>b, Zenon
<1>9. \A i, j \in DOMAIN t : i < j => Less(LigaturePair(i), LigaturePair(j).left, LigaturePair(j).right)
  <2>. SUFFICES ASSUME NEW i \in DOMAIN t, NEW j \in DOMAIN t, i < j
                PROVE  Less(LigaturePair(i), LigaturePair(j).left, LigaturePair(j).right)
    OBVIOUS
  <2>1. t[i][1] < t[j][1] \/ (t[i][1] = t[j][1] /\ t[i][2] < t[j][2])
    BY <1>7
  <2>. QED
    BY <2>1, <1>2 DEF Less
<1>10. /\ Len(t) = data.ligaturePairCount /\ DOMAIN t = 1..data.ligaturePairCount /\ data.ligaturePairCount \in Nat
       /\ \A i \in 1..data.ligaturePairCount :
              /\ LigaturePair(i).left \in Nat /\ LigaturePair(i).right \in Nat /\ LigaturePair(i).ligatureCp \in Nat
              /\ ~IsCombiningMark(LigaturePair(i).left) /\ ~IsCombiningMark(LigaturePair(i).right)
              /\ ~IsCombiningMark(LigaturePair(i).ligatureCp)
              /\ Holding(LigaturePair(i).ligatureCp) # {}
       /\ \A i, j \in 1..data.ligaturePairCount : i < j =>
              Less(LigaturePair(i), LigaturePair(j).left, LigaturePair(j).right)
  BY <1>2, <1>3, <1>4, <1>6, <1>8, <1>9, Zenon
<1>. QED
  BY <1>10 DEF t, data

\* What a query for a glyph is made of.
LEMMA GlyphFields ==
  ASSUME NEW cp
  PROVE  Glyph(cp).kind = "glyph" /\ Glyph(cp).left = cp
BY DEF Glyph

\* What a query for a ligature is made of.
LEMMA PairFields ==
  ASSUME NEW left, NEW right
  PROVE  Pair(left, right).kind = "pair" /\ Pair(left, right).left = left /\ Pair(left, right).right = right
BY DEF Pair

\* In either table, what is above a row before the query is before it too.
LEMMA BeforeAbove ==
  ASSUME Sound, NEW i \in 1..RowCount, NEW j \in 1..RowCount, j <= i, Before(i),
         \/ \E cp \in Nat : query = Glyph(cp)
         \/ \E left, right \in Nat : query = Pair(left, right)
  PROVE  Before(j)
<1>1. CASE i = j
  BY <1>1
<1>2. ASSUME j < i, NEW cp \in Nat, query = Glyph(cp)
      PROVE  Before(j)
  <2>1. query.kind = "glyph" /\ query.left = cp
    BY <1>2, GlyphFields
  <2>2. i \in 1..Data.intervalCount /\ j \in 1..Data.intervalCount
    BY <2>1 DEF RowCount
  <2>3. Interval(i).first <= cp
    BY <2>1 DEF Before
  <2>4. Interval(j).last < Interval(i).first /\ Interval(j).first <= Interval(j).last
        /\ Interval(j).first \in Nat /\ Interval(j).last \in Nat /\ Interval(i).first \in Nat
    BY <1>2, <2>2, IntervalRows
  <2>5. Interval(j).first <= cp
    BY <2>3, <2>4
  <2>. QED
    BY <2>1, <2>5 DEF Before
<1>3. ASSUME j < i, NEW left \in Nat, NEW right \in Nat, query = Pair(left, right)
      PROVE  Before(j)
  <2>1. query.kind = "pair" /\ query.left = left /\ query.right = right
    BY <1>3, PairFields
  <2>2. i \in 1..Data.ligaturePairCount /\ j \in 1..Data.ligaturePairCount
    BY <2>1 DEF RowCount
  <2>3. Less(LigaturePair(i), left, right)
    BY <2>1 DEF Before
  <2>4. Less(LigaturePair(j), LigaturePair(i).left, LigaturePair(i).right)
        /\ LigaturePair(i).left \in Nat /\ LigaturePair(i).right \in Nat
        /\ LigaturePair(j).left \in Nat /\ LigaturePair(j).right \in Nat
    BY <1>3, <2>2, LigatureRows
  <2>5. Less(LigaturePair(j), left, right)
    BY <2>3, <2>4 DEF Less
  <2>. QED
    BY <2>1, <2>5 DEF Before
<1>. QED
  BY <1>1, <1>2, <1>3

\* A codepoint is in no interval but the one before the position sought.
LEMMA GlyphPosition ==
  ASSUME Sound, Narrowing, count = 0, NEW cp \in Nat, query = Glyph(cp)
  PROVE  /\ Holding(cp) \subseteq {start - 1}
         /\ start > 1 => start - 1 \in 1..Data.intervalCount
         /\ start > 1 /\ cp <= Interval(start - 1).last => start - 1 \in Holding(cp)
         /\ start > 1 /\ cp > Interval(start - 1).last => Holding(cp) = {}
         /\ ~(start > 1) => Holding(cp) = {}
<1>1. query.kind = "glyph" /\ query.left = cp
  BY GlyphFields
<1>. DEFINE n == Data.intervalCount
<1>2. /\ start \in Nat /\ 1 <= start /\ start <= n + 1 /\ n \in Nat
      /\ \A i \in 1..n : (i < start => Interval(i).first <= cp) /\ (start <= i => ~(Interval(i).first <= cp))
  <2>1. n \in Nat
    BY IntervalRows
  <2>2. \A i \in 1..n : Before(i) <=> Interval(i).first <= cp
    BY <1>1 DEF Before
  <2>3. RowCount = n
    BY <1>1 DEF RowCount
  <2>. QED
    BY <2>1, <2>2, <2>3 DEF Narrowing
<1>3. \A i \in 1..n : /\ Interval(i).first \in Nat /\ Interval(i).last \in Nat
                       /\ \A j \in 1..n : i < j => Interval(i).last < Interval(j).first
  BY IntervalRows
<1>4. Holding(cp) = {i \in 1..n : Interval(i).first <= cp /\ cp <= Interval(i).last}
  BY IntervalRows DEF Holding
<1>. HIDE DEF n
<1>5. start > 1 => start - 1 \in 1..n /\ Interval(start - 1).first <= cp
  BY <1>2
<1>6. ASSUME NEW i \in Holding(cp) PROVE i = start - 1 /\ start > 1
  <2>1. i \in 1..n /\ Interval(i).first <= cp /\ cp <= Interval(i).last
    BY <1>4
  <2>2. i < start
    BY <2>1, <1>2
  <2>3. ASSUME i < start - 1 PROVE FALSE
    <3>1. Interval(i).last < Interval(start - 1).first /\ Interval(i).last \in Nat /\ Interval(start - 1).first \in Nat
      BY <2>1, <2>3, <1>3, <1>5, <1>2
    <3>. QED
      BY <3>1, <2>1, <2>2, <1>5, <1>2
  <2>. QED
    BY <2>1, <2>2, <2>3, <1>2
<1>7. Holding(cp) \subseteq {start - 1} /\ (~(start > 1) => Holding(cp) = {})
  BY <1>6
<1>8. ASSUME start > 1, cp > Interval(start - 1).last PROVE Holding(cp) = {}
  <2>1. start - 1 \notin Holding(cp)
    <3>1. Interval(start - 1).last \in Nat
      BY <1>3, <1>5, <1>8
    <3>. QED
      BY <1>4, <1>8, <3>1
  <2>. QED
    BY <2>1, <1>7
<1>9. ASSUME start > 1, cp <= Interval(start - 1).last PROVE start - 1 \in Holding(cp)
  BY <1>4, <1>5, <1>9
<1>10. start > 1 => start - 1 \in 1..n
  BY <1>5
<1>. QED
  BY <1>7, <1>8, <1>9, <1>10 DEF n

\* The glyph a row gives a codepoint it holds is the font's, and of no other row.
LEMMA GlyphOf ==
  ASSUME Sound, NEW cp \in Nat, NEW k \in Holding(cp), Holding(cp) \subseteq {k},
         NEW glyphAt, glyphAt = Interval(k).offset + cp - Interval(k).first
  PROVE  glyphAt \in Nat /\ glyphAt < Data.glyphs /\ Using(glyphAt) = Holding(cp) /\ cp \notin Absent
<1>. DEFINE n == Data.intervalCount
<1>1. /\ DOMAIN Intervals = 1..n
      /\ \A i \in 1..n :
           /\ Interval(i).first \in Nat /\ Interval(i).last \in Nat /\ Interval(i).offset \in Nat
           /\ Interval(i).first <= Interval(i).last
           /\ Interval(i).offset + Interval(i).last - Interval(i).first < Data.glyphs
           /\ \A c \in Absent : c < Interval(i).first \/ Interval(i).last < c
      /\ \A i, j \in 1..n : i < j => Interval(i).offset + Interval(i).last - Interval(i).first < Interval(j).offset
      /\ n \in Nat
  BY IntervalRows
<1>2. k \in 1..n /\ Interval(k).first <= cp /\ cp <= Interval(k).last
  BY <1>1 DEF Holding
<1>. HIDE DEF n
<1>3. glyphAt \in Nat /\ Interval(k).offset <= glyphAt /\ glyphAt <= Interval(k).offset + Interval(k).last - Interval(k).first
  BY <1>1, <1>2
<1>5. cp \notin Absent
  BY <1>1, <1>2
<1>6. \A i \in Using(glyphAt) : i = k
  <2>. SUFFICES ASSUME NEW i \in 1..n, Interval(i).offset <= glyphAt, glyphAt <= Interval(i).offset + Interval(i).last - Interval(i).first
                PROVE  i = k
    BY <1>1 DEF Using
  <2>1. ASSUME i < k PROVE FALSE
    <3>1. Interval(i).offset + Interval(i).last - Interval(i).first < Interval(k).offset
      BY <1>1, <1>2, <2>1
    <3>. QED
      BY <3>1, <1>1, <1>2, <1>3
  <2>2. ASSUME k < i PROVE FALSE
    <3>1. Interval(k).offset + Interval(k).last - Interval(k).first < Interval(i).offset
      BY <1>1, <1>2, <2>2
    <3>. QED
      BY <3>1, <1>1, <1>2, <1>3
  <2>. QED
    BY <2>1, <2>2, <1>1, <1>2
<1>7. k \in Using(glyphAt)
  BY <1>1, <1>2, <1>3 DEF Using
<1>8. glyphAt < Data.glyphs
  <2>1. Data.glyphs \in Nat
    BY DEF Data, BoldFont, MediumFont
  <2>2. Interval(k).offset + Interval(k).last - Interval(k).first < Data.glyphs
    BY <1>1, <1>2
  <2>. QED
    BY <1>1, <1>2, <1>3, <2>1, <2>2
<1>9. Using(glyphAt) = Holding(cp)
  <2>1. \A i \in Holding(cp) : i = k
    OBVIOUS
  <2>2. k \in Holding(cp)
    OBVIOUS
  <2>. HIDE DEF n
  <2>3. \A i : i \in Using(glyphAt) <=> i \in Holding(cp)
    BY <1>6, <1>7, <2>1, <2>2
  <2>. QED
    BY <2>3
<1>. QED
  BY <1>3, <1>5, <1>8, <1>9

\* A pair is listed at the position sought or nowhere.
LEMMA PairPosition ==
  ASSUME Sound, Narrowing, count = 0, NEW left \in Nat, NEW right \in Nat, query = Pair(left, right)
  PROVE  /\ start \in Nat /\ 1 <= start
         /\ PairsListed(query) \subseteq {start}
         /\ start \in PairsListed(query) <=>
              /\ start <= Data.ligaturePairCount
              /\ LigaturePair(start).left = query.left /\ LigaturePair(start).right = query.right
<1>1. query.kind = "pair" /\ query.left = left /\ query.right = right
  BY PairFields
<1>. DEFINE n == Data.ligaturePairCount
<1>2. start \in Nat /\ 1 <= start /\ start <= n + 1 /\ n \in Nat /\ DOMAIN LigaturePairs = 1..n
  <2>1. RowCount = n
    BY <1>1 DEF RowCount
  <2>. QED
    BY <2>1, LigatureRows DEF Narrowing
<1>3. \A i \in 1..n : (i < start => Less(LigaturePair(i), left, right)) /\ (start <= i => ~Less(LigaturePair(i), left, right))
  <2>1. RowCount = n
    BY <1>1 DEF RowCount
  <2>2. \A i \in 1..n : Before(i) <=> Less(LigaturePair(i), left, right)
    BY <1>1 DEF Before
  <2>3. start + count = start
    BY <1>2
  <2>. QED
    BY <2>1, <2>2, <2>3 DEF Narrowing
<1>4. /\ \A i \in 1..n : LigaturePair(i).left \in Nat /\ LigaturePair(i).right \in Nat
      /\ \A i, j \in 1..n : i < j => Less(LigaturePair(i), LigaturePair(j).left, LigaturePair(j).right)
  BY LigatureRows
<1>. HIDE DEF n
<1>5. ASSUME NEW i \in 1..n, LigaturePair(i).left = left, LigaturePair(i).right = right PROVE i = start
  <2>1. ~Less(LigaturePair(i), left, right)
    BY <1>4, <1>5 DEF Less
  <2>2. start <= i
    BY <1>2, <1>3, <2>1
  <2>3. ASSUME start < i PROVE FALSE
    <3>1. start \in 1..n
      BY <1>2, <2>3
    <3>2. Less(LigaturePair(start), left, right)
      BY <1>4, <1>5, <2>3, <3>1
    <3>. QED
      BY <1>2, <1>3, <3>1, <3>2
  <2>. QED
    BY <2>2, <2>3, <1>2
<1>6. PairsListed(query) = {i \in 1..n : LigaturePair(i).left = left /\ LigaturePair(i).right = right}
  BY <1>1, <1>2 DEF PairsListed
<1>7. start \in 1..n <=> start <= n
  BY <1>2
<1>. QED
  BY <1>1, <1>2, <1>5, <1>6, <1>7 DEF n

\* A search begun has the whole of its table left.
LEMMA BegunWhole ==
  ASSUME font \in {"bold", "medium"}, font' = font, NEW q, BeginSearch(q),
         \/ \E cp \in Nat : q = Glyph(cp)
         \/ \E left, right \in Nat : q = Pair(left, right)
  PROVE  Narrowing'
<1>1. RowCount' \in Nat /\ count' = RowCount' /\ start' = 1
  BY DEF BeginSearch, RowCount, Data, BoldFont, MediumFont
<1>2. PICK n \in Nat : RowCount' = n
  BY <1>1
<1>3. count' = n /\ start' = 1
  BY <1>1, <1>2
<1>4. ASSUME NEW i \in 1..n
      PROVE  (i < start' => Before(i)') /\ (start' + count' <= i => ~Before(i)')
  <2>1. ~(i < start') /\ ~(start' + count' <= i)
    BY <1>3
  <2>. QED
    BY <2>1, Zenon
<1>5. start' \in Nat /\ count' \in Nat /\ 1 <= start' /\ start' + count' <= n + 1
  BY <1>3
<1>. QED
  BY <1>2, <1>4, <1>5, Zenon DEF Narrowing

\* While the search goes on, or has not begun, there is nothing to be right of but the range.
LEMMA SearchExact ==
  ASSUME Sound, font' = font, answer' = Searching, Narrowing'
  PROVE  LookupsExact'
<1>1. answer'.kind # "found" /\ answer'.kind # "none"
  BY DEF Searching
<1>2. Len(Intervals)' = Data.intervalCount' /\ Len(LigaturePairs)' = Data.ligaturePairCount'
      /\ Data.intervalCount' \in Nat /\ Data.ligaturePairCount' \in Nat
  <2>1. Intervals' = Intervals /\ LigaturePairs' = LigaturePairs /\ Data' = Data
    BY DEF Intervals, LigaturePairs, Data
  <2>. QED
    BY <2>1, IntervalRows, LigatureRows
<1>3. RowCount' = Len(IF query.kind = "glyph" THEN Intervals ELSE LigaturePairs)' /\ RowCount' \in Nat
  BY <1>2 DEF RowCount
<1>4. start' + count' - 1 <= RowCount'
  BY <1>3 DEF Narrowing
<1>5. start' + count' - 1 <= Len(IF query.kind = "glyph" THEN Intervals ELSE LigaturePairs)'
  BY <1>3, <1>4
<1>. QED
  BY <1>1, <1>5, Zenon DEF LookupsExact

\* Before the search there is no answer to be wrong.
LEMMA UnaskedExact ==
  ASSUME answer = Unasked
  PROVE  LookupsExact
<1>1. answer.kind # "found" /\ answer.kind # "none" /\ answer # Searching
  BY DEF Searching, Unasked
<1>. QED
  BY <1>1 DEF LookupsExact

\* Whatever is to be looked up, the search has not begun.
LEMMA FontInitial == FontInit => FontInv
<1>. SUFFICES ASSUME FontInit PROVE FontInv
  OBVIOUS
<1>1. font \in {"bold", "medium"} /\ answer = Unasked
  BY DEF FontInit
<1>2. WantsCodepoint \/ WantsPair
  <2>1. Sound
    BY <1>1, TablesSound
  <2>2. Ends \ {-1} \subseteq Nat /\ PairEnds \subseteq Nat
    <3>1. \A r \in {BoldIntervals[i] : i \in DOMAIN BoldIntervals} : r[1] \in Nat /\ r[2] \in Nat
      <4>1. BoldIntervals \in Seq(Nat \X Nat \X Nat)
        BY FontTablesSound DEF IntervalsSound
      <4>. QED
        BY <4>1, ElementOfSeq
    <3>2. \A r \in {BoldLigatures[i] : i \in DOMAIN BoldLigatures} : r[1] \in Nat /\ r[2] \in Nat /\ r[3] \in Nat
      <4>1. BoldLigatures \in Seq(Nat \X Nat \X Nat)
        BY FontTablesSound DEF LigaturesSound
      <4>. QED
        BY <4>1, ElementOfSeq
    <3>3. Ends \ {-1} \subseteq Nat
      BY <3>1 DEF Ends
    <3>4. PairEnds \subseteq Nat
      BY <3>2, FontTablesAssumption DEF PairEnds
    <3>. QED
      BY <3>3, <3>4
  <2>3. ExtraCodepoints \subseteq Nat
    BY FontTablesAssumption
  <2>. QED
    BY <2>2, <2>3 DEF FontInit, WantsCodepoint, WantsPair
<1>. QED
  BY <1>1, <1>2, UnaskedExact DEF FontInv, Answered

\* What is asked for is a codepoint or a pair, of the same kind as what was wanted.
LEMMA QueryKinds ==
  ASSUME FontInv, answer = Searching
  PROVE  /\ Asking /\ Narrowing /\ Sound
         /\ wanted.kind = query.kind
         /\ \/ \E cp \in Nat : query = Glyph(cp)
            \/ \E left, right \in Nat : query = Pair(left, right) /\ wanted = query
<1>1. Asking /\ Narrowing
  BY DEF FontInv, Answered, Unasked, Searching, NotFound, Found
<1>2. Sound
  BY TablesSound DEF FontInv
<1>3. CASE query = wanted
  BY <1>1, <1>2, <1>3 DEF FontInv, WantsCodepoint, WantsPair
<1>4. CASE query = Glyph(ReplacementGlyph) /\ wanted.kind = "glyph"
  <2>1. ReplacementGlyph \in Nat
    BY DEF ReplacementGlyph
  <2>2. query.kind = "glyph"
    BY <1>4, GlyphFields
  <2>. QED
    BY <1>1, <1>2, <1>4, <2>1, <2>2
<1>. QED
  BY <1>1, <1>3, <1>4 DEF Asking

\* Beginning the search.
LEMMA LookUpKeeps == FontInv /\ LookUp => FontInv'
<1>. SUFFICES ASSUME FontInv, LookUp PROVE FontInv'
  OBVIOUS
<1>1. font' = font /\ wanted' = wanted /\ query' = wanted /\ answer' = Searching /\ BeginSearch(wanted)
  BY DEF LookUp, BeginSearch
<1>2. font' \in {"bold", "medium"} /\ (WantsCodepoint \/ WantsPair)' /\ Asking'
  BY <1>1 DEF FontInv, WantsCodepoint, WantsPair, Asking
<1>3. \/ \E cp \in Nat : wanted = Glyph(cp)
      \/ \E left, right \in Nat : wanted = Pair(left, right)
  BY DEF FontInv, WantsCodepoint, WantsPair
<1>4. Narrowing'
  BY <1>1, <1>3, BegunWhole DEF FontInv
<1>6. LookupsExact'
  BY <1>1, <1>4, SearchExact, TablesSound DEF FontInv
<1>. QED
  BY <1>1, <1>2, <1>4, <1>6 DEF FontInv, Answered

\* One comparison of the search.
LEMMA HalveKeeps == FontInv /\ Halve => FontInv'
<1>. SUFFICES ASSUME FontInv, Halve PROVE FontInv'
  OBVIOUS
<1>1. font' = font /\ wanted' = wanted /\ query' = query /\ answer' = answer /\ answer = Searching /\ count > 0
  BY DEF Halve
<1>2. /\ Asking /\ Narrowing /\ Sound
      /\ \/ \E cp \in Nat : query = Glyph(cp)
         \/ \E left, right \in Nat : query = Pair(left, right)
  BY <1>1, QueryKinds
<1>. DEFINE half == count \div 2
            n == RowCount
            before(i) == Before(i)
<1>3. n' = n /\ \A i : before(i)' = before(i)
  BY <1>1 DEF RowCount, Data, Before, Interval, LigaturePair, Intervals, LigaturePairs, Less
<1>4. \/ before(start + half) /\ start' = start + half + 1 /\ count' = count - half - 1
      \/ ~before(start + half) /\ count' = half /\ start' = start
  BY DEF Halve
<1>5. \A i, j \in 1..n : j <= i /\ before(i) => before(j)
  BY <1>2, BeforeAbove
<1>6. /\ start \in Nat /\ count \in Nat /\ 1 <= start /\ start + count <= n + 1 /\ n \in Nat
      /\ \A i \in 1..n : (i < start => before(i)) /\ (start + count <= i => ~before(i))
  BY <1>2, IntervalRows, LigatureRows DEF Narrowing, RowCount
<1>7. half \in Nat /\ half < count /\ 2 * half <= count
  BY <1>1, <1>6
<1>. HIDE DEF half, n, before
<1>8. start + half \in 1..n
  BY <1>6, <1>7
<1>9. /\ start' \in Nat /\ count' \in Nat /\ 1 <= start' /\ start' + count' <= n + 1
      /\ \A i \in 1..n : (i < start' => before(i)) /\ (start' + count' <= i => ~before(i))
  <2>1. CASE before(start + half) /\ start' = start + half + 1 /\ count' = count - half - 1
    <3>1. start' \in Nat /\ count' \in Nat /\ start' + count' = start + count
      BY <2>1, <1>6, <1>7
    <3>2. \A i \in 1..n : i < start' => i <= start + half
      BY <2>1, <1>6, <1>7
    <3>3. \A i \in 1..n : i < start' => before(i)
      BY <2>1, <3>2, <1>5, <1>8
    <3>. QED
      BY <3>1, <3>3, <2>1, <1>6, <1>7
  <2>2. CASE ~before(start + half) /\ count' = half /\ start' = start
    <3>1. start' \in Nat /\ count' \in Nat /\ start' + count' <= n + 1
      BY <2>2, <1>6, <1>7
    <3>2. \A i \in 1..n : start' + count' <= i => start + half <= i
      BY <2>2
    <3>3. \A i \in 1..n : start' + count' <= i => ~before(i)
      BY <2>2, <3>2, <1>5, <1>8
    <3>. QED
      BY <3>1, <3>3, <2>2, <1>6, <1>7
  <2>. QED
    BY <2>1, <2>2, <1>4
<1>10. Narrowing'
  BY <1>3, <1>9 DEF Narrowing, n, before
<1>11. font' \in {"bold", "medium"} /\ (WantsCodepoint \/ WantsPair)' /\ Asking'
  BY <1>1, <1>2 DEF FontInv, WantsCodepoint, WantsPair, Asking, Holding, Interval, Intervals
<1>12. LookupsExact'
  BY <1>1, <1>2, <1>10, SearchExact
<1>. QED
  BY <1>1, <1>10, <1>11, <1>12 DEF FontInv, Answered

\* The end of a search for a glyph, or the turn to the replacement.
LEMMA GetGlyphKeeps == FontInv /\ GetGlyph => FontInv'
<1>. SUFFICES ASSUME FontInv, GetGlyph PROVE FontInv'
  OBVIOUS
<1>1. font' = font /\ wanted' = wanted /\ answer = Searching /\ count = 0 /\ query.kind = "glyph"
  BY DEF GetGlyph
<1>2. /\ Asking /\ Narrowing /\ Sound /\ wanted.kind = "glyph"
      /\ \/ \E cp \in Nat : query = Glyph(cp)
         \/ \E left, right \in Nat : query = Pair(left, right) /\ wanted = query
  BY <1>1, QueryKinds
<1>3. PICK cp \in Nat : query = Glyph(cp) /\ query.left = cp
  <2>1. ASSUME NEW left, NEW right, query = Pair(left, right) PROVE FALSE
    BY <1>1, <2>1, PairFields
  <2>. QED
    BY <1>2, <2>1, GlyphFields
<1>4. PICK wantedCp \in Nat : wanted = Glyph(wantedCp) /\ wanted.left = wantedCp
  <2>1. ASSUME NEW left, NEW right, wanted = Pair(left, right) PROVE FALSE
    BY <1>2, <2>1, PairFields
  <2>. QED
    BY <2>1, GlyphFields DEF FontInv, WantsCodepoint, WantsPair
<1>5. /\ Holding(cp) \subseteq {start - 1}
      /\ start > 1 => start - 1 \in 1..Data.intervalCount
      /\ start > 1 /\ cp <= Interval(start - 1).last => start - 1 \in Holding(cp)
      /\ start > 1 /\ cp > Interval(start - 1).last => Holding(cp) = {}
      /\ ~(start > 1) => Holding(cp) = {}
  BY <1>1, <1>2, <1>3, GlyphPosition
<1>6. font' \in {"bold", "medium"} /\ (WantsCodepoint \/ WantsPair)'
  BY <1>1 DEF FontInv, WantsCodepoint, WantsPair
<1>7. ReplacementGlyph \in Absent
  BY DEF Absent
<1>8. \A c : Holding(c)' = Holding(c) /\ Using(c)' = Using(c)
  BY <1>1 DEF Holding, Using, Interval, Intervals
<1>9. \A i : Interval(i)' = Interval(i) /\ Data' = Data
  BY <1>1 DEF Interval, Intervals, Data
<1>10. \/ /\ start > 1 /\ cp <= Interval(start - 1).last
          /\ answer' = Found(Interval(start - 1).offset + cp - Interval(start - 1).first)
       \/ /\ start > 1 => cp > Interval(start - 1).last
          /\ cp # ReplacementGlyph /\ BeginSearch(Glyph(ReplacementGlyph)) /\ answer' = answer
       \/ /\ start > 1 => cp > Interval(start - 1).last
          /\ cp = ReplacementGlyph /\ answer' = NotFound
  BY <1>3 DEF GetGlyph
<1>11. ASSUME start > 1, cp <= Interval(start - 1).last,
              answer' = Found(Interval(start - 1).offset + cp - Interval(start - 1).first)
       PROVE  FontInv'
  <2>1. PICK k : k = start - 1
    OBVIOUS
  <2>2. PICK glyphAt : glyphAt = Interval(k).offset + cp - Interval(k).first
    OBVIOUS
  <2>a. k \in Holding(cp) /\ Holding(cp) \subseteq {k} /\ answer' = Found(glyphAt)
    BY <1>5, <1>11, <2>1, <2>2
  <2>3. glyphAt \in Nat /\ glyphAt < Data.glyphs /\ Using(glyphAt) = Holding(cp) /\ cp \notin Absent
    BY <1>2, <2>2, <2>a, GlyphOf
  <2>4. glyphAt \in {Interval(i).offset + cp - Interval(i).first : i \in Holding(cp)}
    BY <2>2, <2>a
  <2>5. cp = wantedCp
    BY <1>2, <1>3, <1>4, <1>7, <2>3, GlyphFields DEF Asking
  <2>6. answer'.kind = "found" /\ answer'.at = glyphAt /\ answer'.kind # "none" /\ answer' # Searching
    BY <2>a DEF Found, Searching
  <2>7. AnchorFor(cp) = "CenterRaised"
    BY <2>3 DEF Absent, AnchorFor
  <2>8. wanted'.kind # "pair" /\ wanted'.left = cp
    BY <1>1, <1>2, <1>4, <2>5
  <2>9. glyphAt \in {Interval(i).offset + cp - Interval(i).first : i \in Holding(cp)}'
    BY <2>4, <1>8, <1>9
  <2>10. Using(glyphAt)' = Holding(cp)' /\ glyphAt < Data.glyphs'
    BY <2>3, <1>8, <1>9
  <2>11. LookupsExact'
    BY <2>6, <2>7, <2>8, <2>9, <2>10 DEF LookupsExact
  <2>. QED
    BY <1>6, <2>a, <2>3, <2>11 DEF FontInv, Answered
<1>12. ASSUME start > 1 => cp > Interval(start - 1).last, cp # ReplacementGlyph,
              BeginSearch(Glyph(ReplacementGlyph)), answer' = answer
       PROVE  FontInv'
  <2>1. Holding(cp) = {}
    BY <1>5, <1>12
  <2>2. cp = wantedCp
    BY <1>2, <1>3, <1>4, <1>12, GlyphFields DEF Asking
  <2>3. query' = Glyph(ReplacementGlyph) /\ wanted'.kind = "glyph" /\ wanted'.left = cp
    BY <1>1, <1>2, <1>4, <1>12, <2>2 DEF BeginSearch
  <2>4. Asking'
    BY <1>8, <2>1, <2>3 DEF Asking
  <2>5. ReplacementGlyph \in Nat
    BY DEF ReplacementGlyph
  <2>6. Narrowing'
    BY <1>1, <1>12, <2>5, BegunWhole DEF FontInv
  <2>7. LookupsExact'
    BY <1>1, <1>2, <1>12, <2>6, SearchExact
  <2>. QED
    BY <1>1, <1>6, <1>12, <2>4, <2>6, <2>7 DEF FontInv, Answered
<1>13. ASSUME start > 1 => cp > Interval(start - 1).last, cp = ReplacementGlyph, answer' = NotFound
       PROVE  FontInv'
  <2>1. Holding(cp) = {}
    BY <1>5, <1>13
  <2>2. Holding(wantedCp) = {}
    BY <1>2, <1>3, <1>4, <2>1, GlyphFields DEF Asking
  <2>3. answer'.kind # "found" /\ answer' # Searching
    BY <1>13 DEF NotFound, Searching
  <2>4. wanted'.kind # "pair" /\ Holding(wanted.left)' = {}
    BY <1>1, <1>2, <1>4, <1>8, <2>2
  <2>5. LookupsExact'
    BY <2>3, <2>4 DEF LookupsExact
  <2>. QED
    BY <1>6, <1>13, <2>5 DEF FontInv, Answered
<1>. QED
  BY <1>10, <1>11, <1>12, <1>13

\* The end of a search for a ligature.
LEMMA GetLigatureKeeps == FontInv /\ GetLigature => FontInv'
<1>. SUFFICES ASSUME FontInv, GetLigature PROVE FontInv'
  OBVIOUS
<1>1. /\ font' = font /\ wanted' = wanted /\ query' = query /\ answer = Searching /\ count = 0 /\ query.kind = "pair"
      /\ start' = start
  BY DEF GetLigature
<1>2. /\ Asking /\ Narrowing /\ Sound /\ wanted.kind = "pair"
      /\ \/ \E cp \in Nat : query = Glyph(cp)
         \/ \E left, right \in Nat : query = Pair(left, right) /\ wanted = query
  BY <1>1, QueryKinds
<1>3. PICK left \in Nat, right \in Nat : query = Pair(left, right) /\ wanted = query
  <2>1. ASSUME NEW cp, query = Glyph(cp) PROVE FALSE
    BY <1>1, <2>1, GlyphFields
  <2>. QED
    BY <1>2, <2>1
<1>4. /\ start \in Nat /\ 1 <= start /\ PairsListed(query) \subseteq {start}
      /\ start \in PairsListed(query) <=>
           /\ start <= Data.ligaturePairCount
           /\ LigaturePair(start).left = query.left /\ LigaturePair(start).right = query.right
  BY <1>1, <1>2, <1>3, PairPosition
<1>5. font' \in {"bold", "medium"} /\ (WantsCodepoint \/ WantsPair)'
  BY <1>1 DEF FontInv, WantsCodepoint, WantsPair
<1>6. \A c : Holding(c)' = Holding(c) /\ PairsListed(wanted)' = PairsListed(wanted) /\ LigaturePair(c)' = LigaturePair(c)
  BY <1>1 DEF Holding, Interval, Intervals, PairsListed, LigaturePairs, LigaturePair
<1>7. \/ start \in PairsListed(wanted) /\ answer' = Found(LigaturePair(start).ligatureCp)
      \/ start \notin PairsListed(wanted) /\ answer' = NotFound
  BY <1>3, <1>4 DEF GetLigature
<1>8. ASSUME start \in PairsListed(wanted), answer' = Found(LigaturePair(start).ligatureCp)
      PROVE  FontInv'
  <2>a. PICK i : i = start
    OBVIOUS
  <2>b. PICK cp : cp = LigaturePair(i).ligatureCp
    OBVIOUS
  <2>1. start \in 1..Data.ligaturePairCount
    BY <1>2, <1>8, LigatureRows DEF PairsListed
  <2>2. /\ cp \in Nat /\ Holding(cp) # {}
        /\ ~IsCombiningMark(LigaturePair(start).left) /\ ~IsCombiningMark(LigaturePair(start).right)
        /\ ~IsCombiningMark(cp)
    BY <1>2, <2>a, <2>b, <2>1, LigatureRows
  <2>3. LigaturePair(start).left = wanted.left /\ LigaturePair(start).right = wanted.right
    BY <1>8 DEF PairsListed
  <2>4. answer' = Found(cp) /\ cp = LigaturePair(i)'.ligatureCp /\ i \in PairsListed(wanted)'
    BY <1>6, <1>8, <2>a, <2>b
  <2>5. answer'.kind = "found" /\ answer'.at = cp /\ answer'.kind # "none" /\ answer' # Searching
    BY <2>4 DEF Found, Searching
  <2>6. wanted'.kind # "glyph" /\ wanted'.left = wanted.left /\ wanted'.right = wanted.right
    BY <1>1, <1>2
  <2>c. Holding(answer.at)' # {}
    BY <1>1, <2>2, <2>5 DEF Holding, Interval, Intervals
  <2>7. (\E each \in PairsListed(wanted) : answer.at = LigaturePair(each).ligatureCp /\ Holding(answer.at) # {})'
    BY <2>4, <2>5, <2>c
  <2>8. ~\E c \in {wanted.left, wanted.right, cp} : IsCombiningMark(c)
    BY <2>2, <2>3
  <2>9. LookupsExact'
    BY <2>5, <2>6, <2>7, <2>8 DEF LookupsExact
  <2>. QED
    BY <1>5, <2>2, <2>4, <2>9 DEF FontInv, Answered
<1>9. ASSUME start \notin PairsListed(wanted), answer' = NotFound
      PROVE  FontInv'
  <2>1. PairsListed(wanted)' = {}
    BY <1>3, <1>4, <1>6, <1>9
  <2>2. answer'.kind # "found" /\ answer' # Searching /\ wanted'.kind # "glyph"
    BY <1>1, <1>2, <1>9 DEF NotFound, Searching
  <2>3. LookupsExact'
    BY <2>1, <2>2 DEF LookupsExact
  <2>. QED
    BY <1>5, <1>9, <2>3 DEF FontInv, Answered
<1>. QED
  BY <1>7, <1>8, <1>9

\* Both built-in fonts, every codepoint and every pair of them: a glyph is found exactly for
\* the characters of the font, one of the font's and no other character's, and a pair is
\* replaced exactly if it is listed, and by a character the font has.
THEOREM FontsSearched == FontSpec => []LookupsExact
<1>1. FontInv /\ [FontNext]_fontVars => FontInv'
  <2>. SUFFICES ASSUME FontInv, [FontNext]_fontVars PROVE FontInv'
    OBVIOUS
  <2>1. CASE LookUp
    BY <2>1, LookUpKeeps
  <2>2. CASE Halve
    BY <2>2, HalveKeeps
  <2>3. CASE GetGlyph
    BY <2>3, GetGlyphKeeps
  <2>4. CASE GetLigature
    BY <2>4, GetLigatureKeeps
  <2>5. CASE UNCHANGED fontVars
    BY <2>5 DEF fontVars, FontInv, WantsCodepoint, WantsPair, Answered, Asking, Narrowing, RowCount, Before, Less, Data,
                Interval, Intervals, LigaturePair, LigaturePairs, LookupsExact, Holding, Using, PairsListed
  <2>. QED
    BY <2>1, <2>2, <2>3, <2>4, <2>5 DEF FontNext
<1>2. FontInv => LookupsExact
  BY DEF FontInv
<1>. QED
  BY FontInitial, <1>1, <1>2, PTL DEF FontSpec

\* Inflate: the bits of a stream and the bytes that are written, for every stream, every
\* table the format may have and every size of window.

\* What holds of 0 and from each number to the next holds up to n.
LEMMA Stepwise ==
  ASSUME NEW n \in Nat, NEW S, 0 \in S, \A i \in 0..n : i # n /\ i \in S => i + 1 \in S
  PROVE  \A i \in 0..n : i \in S
<1>. DEFINE absent == {i \in 0..n : i \notin S}
<1>. SUFFICES ASSUME absent # {} PROVE FALSE
  OBVIOUS
<1>1. Min(absent) \in absent /\ \A j \in absent : Min(absent) <= j
  BY LeastIn
<1>2. PICK i \in absent : \A j \in absent : i <= j
  BY <1>1
<1>3. i \in Nat /\ i # 0 /\ i <= n
  OBVIOUS
<1>4. i - 1 \in 0..n /\ i - 1 # n /\ ~(i <= i - 1)
  BY <1>3
<1>5. i - 1 \in S
  BY <1>2, <1>4
<1>6. i - 1 + 1 \in S /\ i - 1 + 1 = i
  BY <1>3, <1>4, <1>5
<1>. QED
  BY <1>6

\* The values of a function defined by its first value and each next one from the last.
Recursive(f, n, T, zero, F) ==
  f \in [0..n -> T] /\ f[0] = zero /\ \A i \in 1..n : f[i] = F[<<i, f[i - 1]>>]

\* There is such a function.
LEMMA Recursion ==
  ASSUME NEW n \in Nat, NEW T, NEW zero \in T, NEW F \in [(1..n) \X T -> T]
  PROVE  \E f : Recursive(f, n, T, zero, F)
<1>. DEFINE Good(m, f) == f[0] = zero /\ \A i \in 1..m : f[i] = F[<<i, f[i - 1]>>]
            S == {m \in 0..n : \E f \in [0..m -> T] : Good(m, f)}
<1>1. 0 \in S
  <2>a. 0 \in 0..n
    OBVIOUS
  <2>1. [i \in 0..0 |-> zero] \in [0..0 -> T] /\ Good(0, [i \in 0..0 |-> zero])
    OBVIOUS
  <2>. QED
    BY <2>1, <2>a
<1>2. ASSUME NEW m \in 0..n, m # n, m \in S PROVE m + 1 \in S
  <2>1. PICK f \in [0..m -> T] : Good(m, f)
    BY <1>2
  <2>2. m \in Nat /\ m + 1 \in 1..n /\ f[m] \in T /\ F[<<m + 1, f[m]>>] \in T
    BY <1>2
  <2>. DEFINE g == [i \in 0..m + 1 |-> IF i = m + 1 THEN F[<<m + 1, f[m]>>] ELSE f[i]]
  <2>3. g \in [0..m + 1 -> T]
    BY <2>2
  <2>4. \A i \in 0..m : g[i] = f[i]
    BY <2>2
  <2>5. g[m + 1] = F[<<m + 1, f[m]>>]
    BY <2>2
  <2>. HIDE DEF g
  <2>6. g[0] = zero
    BY <2>1, <2>2, <2>4
  <2>7. ASSUME NEW i \in 1..m + 1 PROVE g[i] = F[<<i, g[i - 1]>>]
    <3>1. CASE i = m + 1
      BY <3>1, <2>2, <2>4, <2>5
    <3>2. CASE i # m + 1
      <4>1. i \in 1..m /\ i \in 0..m /\ i - 1 \in 0..m
        BY <3>2, <2>2
      <4>. QED
        BY <4>1, <2>1, <2>4
    <3>. QED
      BY <3>1, <3>2
  <2>8. Good(m + 1, g)
    BY <2>6, <2>7
  <2>. QED
    BY <2>2, <2>3, <2>8
<1>. HIDE DEF S
<1>3. \A m \in 0..n : m # n /\ m \in S => m + 1 \in S
  BY <1>2
<1>4. n \in S
  BY <1>1, <1>3, Stepwise
<1>. QED
  BY <1>4 DEF S, Recursive

\* What a sequence of bits stands for is a number.
LEMMA ValueIs ==
  ASSUME NEW b \in Seq(Bit)
  PROVE  Value(b) \in Nat
<1>. DEFINE n == Len(b)
            F == [p \in (1..n) \X Nat |-> 2 * p[2] + b[n + 1 - p[1]]]
            v == CHOOSE v : v = [i \in 0..n |-> IF i = 0 THEN 0 ELSE 2 * v[i - 1] + b[n + 1 - i]]
<1>1. n \in Nat
  BY LenProperties
<1>2. \A i \in 1..n : b[n + 1 - i] \in Nat
  <2>. SUFFICES ASSUME NEW i \in 1..n PROVE b[n + 1 - i] \in Nat
    OBVIOUS
  <2>1. n + 1 - i \in 1..Len(b)
    BY <1>1
  <2>. QED
    BY <2>1, ElementOfSeq DEF Bit
<1>3. Value(b) = v[n]
  BY DEF Value
<1>. HIDE DEF n
<1>4. F \in [(1..n) \X Nat -> Nat]
  BY <1>2
<1>5. PICK f : Recursive(f, n, Nat, 0, F)
  <2>. HIDE DEF F
  <2>. QED
    BY <1>1, <1>4, Recursion
<1>a. f \in [0..n -> Nat] /\ f[0] = 0 /\ \A i \in 1..n : f[i] = F[<<i, f[i - 1]>>]
  BY <1>5 DEF Recursive
<1>6. \A i \in 1..n : f[i] = 2 * f[i - 1] + b[n + 1 - i]
  <2>. SUFFICES ASSUME NEW i \in 1..n PROVE f[i] = 2 * f[i - 1] + b[n + 1 - i]
    OBVIOUS
  <2>1. f[i - 1] \in Nat
    BY <1>1, <1>a
  <2>2. F[<<i, f[i - 1]>>] = 2 * f[i - 1] + b[n + 1 - i]
    BY <2>1
  <2>. QED
    BY <1>a, <2>2
<1>7. f = [i \in 0..n |-> IF i = 0 THEN 0 ELSE 2 * f[i - 1] + b[n + 1 - i]]
  BY <1>1, <1>a, <1>6
<1>8. v = [i \in 0..n |-> IF i = 0 THEN 0 ELSE 2 * v[i - 1] + b[n + 1 - i]]
  BY <1>7, Zenon
<1>. HIDE DEF v, F
<1>. DEFINE S == {i \in 0..n : v[i] \in Nat}
<1>9. 0 \in S
  BY <1>1, <1>8
<1>10. ASSUME NEW i \in 0..n, i # n, i \in S PROVE i + 1 \in S
  <2>1. i + 1 \in 0..n /\ i + 1 # 0 /\ i + 1 \in 1..n /\ i + 1 - 1 = i
    BY <1>1, <1>10
  <2>2. v[i + 1] = 2 * v[i] + b[n + 1 - (i + 1)]
    BY <1>8, <2>1
  <2>. QED
    BY <1>2, <1>10, <2>1, <2>2
<1>. HIDE DEF S
<1>11. n \in S
  <2>1. \A i \in 0..n : i # n /\ i \in S => i + 1 \in S
    BY <1>10
  <2>2. \A i \in 0..n : i \in S
    BY <1>1, <1>9, <2>1, Stepwise
  <2>. QED
    BY <1>1, <2>2
<1>. QED
  BY <1>3, <1>11 DEF S

\* What FlattenSeq makes of a sequence of sequences is the last of its joins from the front.
Joint(w) == [p \in (1..Len(w)) \X Seq(Bit) |-> p[2] \o w[p[1]]]

LEMMA FlattenIs ==
  ASSUME NEW w \in Seq(Seq(Bit)), NEW h, Recursive(h, Len(w), Seq(Bit), <<>>, Joint(w))
  PROVE  FlattenSeq(w) = h[Len(w)] /\ FlattenSeq(w) \in Seq(Bit)
<1>. DEFINE n == Len(w)
            flat == CHOOSE f : f = [i \in 1..n |-> IF i = 1 THEN w[i] ELSE f[i - 1] \o w[i]]
<1>1. n \in Nat /\ \A i \in 1..n : w[i] \in Seq(Bit)
  BY LenProperties, ElementOfSeq
<1>2. FlattenSeq(w) = IF n = 0 THEN w ELSE flat[n]
  BY DEF FlattenSeq
<1>3. h \in [0..n -> Seq(Bit)] /\ h[0] = <<>> /\ \A i \in 1..n : h[i] = Joint(w)[<<i, h[i - 1]>>]
  BY DEF Recursive
<1>. HIDE DEF n
<1>4. \A i \in 1..n : h[i] = h[i - 1] \o w[i]
  <2>. SUFFICES ASSUME NEW i \in 1..n PROVE h[i] = h[i - 1] \o w[i]
    OBVIOUS
  <2>1. h[i - 1] \in Seq(Bit)
    BY <1>1, <1>3
  <2>2. Joint(w)[<<i, h[i - 1]>>] = h[i - 1] \o w[i]
    BY <2>1 DEF Joint, n
  <2>. QED
    BY <1>3, <2>2
<1>5. CASE n = 0
  <2>1. w = <<>> /\ <<>> \in Seq(Bit)
    BY <1>5, EmptySeq DEF n
  <2>. QED
    BY <2>1, <1>2, <1>3, <1>5 DEF n
<1>6. CASE n # 0
  <2>1. 0 \in 0..n /\ 1 \in 1..n /\ n \in 1..n
    BY <1>1, <1>6
  <2>. DEFINE g == [i \in 1..n |-> h[i]]
  <2>2. g[1] = w[1]
    <3>1. h[1] = <<>> \o w[1]
      <4>1. PICK j : j = 1
        OBVIOUS
      <4>2. h[j] = h[j - 1] \o w[j]
        <5>1. j \in 1..n
          BY <2>1, <4>1
        <5>. QED
          BY <1>4, <5>1
      <4>3. j - 1 = 0
        BY <4>1
      <4>. QED
        BY <1>3, <4>1, <4>2, <4>3
    <3>2. <<>> \o w[1] = w[1]
      BY <1>1, <2>1, ConcatEmptySeq
    <3>. QED
      BY <3>1, <3>2, <2>1
  <2>3. \A i \in 1..n : i # 1 => g[i] = g[i - 1] \o w[i]
    <3>. SUFFICES ASSUME NEW i \in 1..n, i # 1 PROVE g[i] = g[i - 1] \o w[i]
      OBVIOUS
    <3>1. i - 1 \in 1..n
      BY <1>1
    <3>2. g[i] = h[i] /\ g[i - 1] = h[i - 1]
      BY <3>1
    <3>. QED
      BY <1>4, <3>2
  <2>4. g = [i \in 1..n |-> IF i = 1 THEN w[i] ELSE g[i - 1] \o w[i]]
    <3>. DEFINE r == [i \in 1..n |-> IF i = 1 THEN w[i] ELSE g[i - 1] \o w[i]]
    <3>. HIDE DEF g
    <3>1. \A i \in 1..n : g[i] = r[i]
      BY <2>2, <2>3
    <3>2. g = [i \in 1..n |-> g[i]]
      BY DEF g
    <3>. QED
      BY <3>1, <3>2
  <2>. HIDE DEF g
  <2>5. flat = [i \in 1..n |-> IF i = 1 THEN w[i] ELSE flat[i - 1] \o w[i]]
    BY <2>4, Zenon
  <2>. HIDE DEF flat
  <2>. DEFINE S == {i \in 0..n : i = 0 \/ flat[i] = h[i]}
  <2>6. ASSUME NEW i \in 0..n, i # n, i \in S PROVE i + 1 \in S
    <3>1. i + 1 \in 1..n /\ i + 1 - 1 = i /\ i + 1 \in 0..n
      BY <1>1, <2>6
    <3>2. CASE i = 0
      <4>1. flat[1] = w[1] /\ h[1] = w[1]
        BY <2>1, <2>2, <2>5 DEF g
      <4>. QED
        BY <3>1, <3>2, <4>1
    <3>3. CASE i # 0
      <4>. PICK j : j = i + 1
        OBVIOUS
      <4>a. j \in 1..n /\ j # 1 /\ j - 1 = i
        BY <1>1, <3>1, <3>3
      <4>1. flat[j] = flat[j - 1] \o w[j]
        BY <2>5, <4>a
      <4>2. h[j] = h[j - 1] \o w[j]
        BY <1>4, <4>a
      <4>3. flat[i] = h[i]
        BY <2>6, <3>3
      <4>. QED
        BY <3>1, <4>a, <4>1, <4>2, <4>3
    <3>. QED
      BY <3>2, <3>3
  <2>7. \A i \in 0..n : i \in S
    <3>1. 0 \in S
      BY <2>1
    <3>2. \A i \in 0..n : i # n /\ i \in S => i + 1 \in S
      BY <2>6
    <3>. HIDE DEF S
    <3>. QED
      BY <1>1, <3>1, <3>2, Stepwise
  <2>8. flat[n] = h[n] /\ h[n] \in Seq(Bit)
    BY <1>1, <1>3, <1>6, <2>7
  <2>. QED
    BY <1>2, <1>6, <2>8 DEF n
<1>. QED
  BY <1>5, <1>6

LEMMA JoinsExist ==
  ASSUME NEW w \in Seq(Seq(Bit))
  PROVE  \E h : Recursive(h, Len(w), Seq(Bit), <<>>, Joint(w))
<1>1. Len(w) \in Nat /\ \A i \in 1..Len(w) : w[i] \in Seq(Bit)
  BY LenProperties, ElementOfSeq
<1>2. \A p \in (1..Len(w)) \X Seq(Bit) : p[2] \o w[p[1]] \in Seq(Bit)
  <2>. SUFFICES ASSUME NEW i \in 1..Len(w), NEW s \in Seq(Bit) PROVE s \o w[i] \in Seq(Bit)
    OBVIOUS
  <2>. QED
    BY <1>1, ConcatProperties
<1>3. Joint(w) \in [(1..Len(w)) \X Seq(Bit) -> Seq(Bit)]
  BY <1>2 DEF Joint
<1>4. <<>> \in Seq(Bit)
  BY EmptySeq
<1>. DEFINE n == Len(w)
            F == Joint(w)
            T == Seq(Bit)
            none == <<>>
<1>5. n \in Nat /\ none \in T /\ F \in [(1..n) \X T -> T]
  BY <1>1, <1>3, <1>4
<1>. HIDE DEF n, F, T, none
<1>6. \E h : Recursive(h, n, T, none, F)
  BY <1>5, Recursion
<1>. QED
  BY <1>6 DEF n, F, T, none

LEMMA FlattenTypes ==
  ASSUME NEW w \in Seq(Seq(Bit))
  PROVE  FlattenSeq(w) \in Seq(Bit)
<1>1. PICK h : Recursive(h, Len(w), Seq(Bit), <<>>, Joint(w))
  BY JoinsExist
<1>. QED
  BY <1>1, FlattenIs

\* One more piece is joined at the end.
LEMMA FlattenAppend ==
  ASSUME NEW w \in Seq(Seq(Bit)), NEW x \in Seq(Bit)
  PROVE  FlattenSeq(Append(w, x)) = FlattenSeq(w) \o x
<1>. DEFINE n == Len(w)
            m == Append(w, x)
<1>1. /\ n \in Nat /\ m \in Seq(Seq(Bit)) /\ Len(m) = n + 1
      /\ (\A i \in 1..n : m[i] = w[i]) /\ m[n + 1] = x
  BY LenProperties, AppendProperties
<1>. HIDE DEF m
<1>2. PICK h : Recursive(h, Len(m), Seq(Bit), <<>>, Joint(m))
  BY <1>1, JoinsExist
<1>3. h \in [0..n + 1 -> Seq(Bit)] /\ h[0] = <<>> /\ \A i \in 1..n + 1 : h[i] = Joint(m)[<<i, h[i - 1]>>]
  BY <1>1, <1>2 DEF Recursive
<1>. HIDE DEF n
<1>4. \A i \in 1..n + 1 : h[i] = h[i - 1] \o m[i] /\ h[i - 1] \in Seq(Bit)
  <2>. SUFFICES ASSUME NEW i \in 1..n + 1 PROVE h[i] = h[i - 1] \o m[i] /\ h[i - 1] \in Seq(Bit)
    OBVIOUS
  <2>1. h[i - 1] \in Seq(Bit)
    BY <1>1, <1>3
  <2>2. Joint(m)[<<i, h[i - 1]>>] = h[i - 1] \o m[i]
    BY <1>1, <2>1 DEF Joint
  <2>. QED
    BY <1>3, <2>1, <2>2
<1>. DEFINE g == [i \in 0..n |-> h[i]]
<1>5. Recursive(g, n, Seq(Bit), <<>>, Joint(w))
  <2>1. g \in [0..n -> Seq(Bit)] /\ g[0] = <<>>
    BY <1>1, <1>3
  <2>2. ASSUME NEW i \in 1..n PROVE g[i] = Joint(w)[<<i, g[i - 1]>>]
    <3>1. i \in 1..n + 1 /\ i - 1 \in 0..n /\ i \in 0..n
      BY <1>1
    <3>2. g[i] = g[i - 1] \o w[i] /\ g[i - 1] \in Seq(Bit)
      BY <1>1, <1>4, <3>1
    <3>. HIDE DEF g
    <3>3. Joint(w)[<<i, g[i - 1]>>] = g[i - 1] \o w[i]
      BY <3>2 DEF Joint, n
    <3>. QED
      BY <3>2, <3>3
  <2>. HIDE DEF g
  <2>. QED
    BY <2>1, <2>2 DEF Recursive
<1>6. g[n] = h[n]
  BY <1>1
<1>. HIDE DEF g
<1>7. FlattenSeq(w) = g[n]
  BY <1>5, FlattenIs DEF n
<1>8. FlattenSeq(m) = h[n + 1]
  BY <1>1, <1>2, FlattenIs
<1>9. h[n + 1] = h[n] \o m[n + 1]
  <2>. PICK j : j = n + 1
    OBVIOUS
  <2>1. j \in 1..n + 1 /\ j - 1 = n
    BY <1>1
  <2>2. h[j] = h[j - 1] \o m[j]
    BY <1>4, <2>1
  <2>. QED
    BY <2>1, <2>2
<1>. QED
  BY <1>1, <1>6, <1>7, <1>8, <1>9 DEF m

\* The bits of two stretches of bytes are those of the one and then those of the other.
LEMMA FlattenConcat ==
  ASSUME NEW u \in Seq(Seq(Bit)), NEW v \in Seq(Seq(Bit))
  PROVE  FlattenSeq(u \o v) = FlattenSeq(u) \o FlattenSeq(v)
<1>. DEFINE n == Len(v)
            part(k) == SubSeq(v, 1, k)
            S == {k \in 0..n : FlattenSeq(u \o part(k)) = FlattenSeq(u) \o FlattenSeq(part(k))}
<1>1. n \in Nat /\ (\A k \in 0..n : part(k) \in Seq(Seq(Bit))) /\ part(0) = <<>> /\ part(n) = v
  <2>1. n \in Nat /\ \A i \in 1..n : v[i] \in Seq(Bit)
    BY LenProperties, ElementOfSeq
  <2>2. ASSUME NEW k \in 0..n PROVE part(k) \in Seq(Seq(Bit))
    <3>1. k \in Int /\ \A i \in 1..k : v[i] \in Seq(Bit)
      BY <2>1
    <3>. QED
      BY <3>1, SubSeqProperties
  <2>3. part(0) = <<>>
    BY SubSeqEmpty
  <2>4. part(n) = v
    BY SubSeqFull
  <2>. QED
    BY <2>1, <2>2, <2>3, <2>4
<1>2. FlattenSeq(<<>>) = <<>>
  BY DEF FlattenSeq
<1>a. 0 \in 0..n /\ \A k \in 0..n : k # n => k + 1 \in 1..n /\ k + 1 \in 0..n /\ k + 1 - 1 = k
  <2>1. n \in Nat
    BY <1>1
  <2>. HIDE DEF n
  <2>. QED
    BY <2>1
<1>3. 0 \in S
  <2>1. FlattenSeq(u) \in Seq(Bit)
    BY FlattenTypes
  <2>2. u \o <<>> = u /\ FlattenSeq(u) \o <<>> = FlattenSeq(u)
    BY <2>1, ConcatEmptySeq
  <2>. QED
    BY <1>1, <1>2, <1>a, <2>2
<1>4. ASSUME NEW k \in 0..n, k # n, k \in S PROVE k + 1 \in S
  <2>1. k + 1 \in 1..n /\ k + 1 \in 0..n /\ k + 1 - 1 = k
    BY <1>4, <1>a
  <2>2. v[k + 1] \in Seq(Bit)
    BY <2>1, ElementOfSeq
  <2>3. part(k + 1) = Append(part(k), v[k + 1])
    <3>1. 1 \in 1..Len(v) /\ k + 1 \in 1..Len(v)
      BY <2>1
    <3>2. part(k + 1) = SubSeq(v, 1, k + 1 - 1) \o <<v[k + 1]>>
      BY <3>1, SubSeqRecursiveSecond
    <3>3. Append(part(k), v[k + 1]) = part(k) \o <<v[k + 1]>>
      BY <1>1, <2>2, AppendIsConcat
    <3>. QED
      BY <2>1, <3>2, <3>3
  <2>. DEFINE p == part(k)
              x == v[k + 1]
  <2>4. p \in Seq(Seq(Bit)) /\ x \in Seq(Bit) /\ FlattenSeq(u \o p) = FlattenSeq(u) \o FlattenSeq(p)
    BY <1>1, <1>4, <2>2
  <2>. HIDE DEF p, x
  <2>5. u \o Append(p, x) = Append(u \o p, x) /\ u \o p \in Seq(Seq(Bit))
    <3>1. Append(p, x) = p \o <<x>> /\ <<x>> \in Seq(Seq(Bit)) /\ u \o p \in Seq(Seq(Bit))
      BY <2>4, AppendIsConcat, ConcatProperties
    <3>2. Append(u \o p, x) = (u \o p) \o <<x>>
      BY <2>4, <3>1, AppendIsConcat
    <3>3. (u \o p) \o <<x>> = u \o (p \o <<x>>)
      <4>. DEFINE T == Seq(Bit)
                  one == <<x>>
      <4>1. u \in Seq(T) /\ p \in Seq(T) /\ one \in Seq(T)
        BY <2>4, <3>1
      <4>. HIDE DEF T, one
      <4>2. (u \o p) \o one = u \o (p \o one)
        BY <4>1, ConcatAssociative
      <4>. QED
        BY <4>2 DEF one
    <3>. QED
      BY <3>1, <3>2, <3>3
  <2>6. FlattenSeq(u \o Append(p, x)) = (FlattenSeq(u) \o FlattenSeq(p)) \o x
    BY <2>4, <2>5, FlattenAppend
  <2>7. (FlattenSeq(u) \o FlattenSeq(p)) \o x = FlattenSeq(u) \o (FlattenSeq(p) \o x)
    BY <2>4, FlattenTypes, ConcatAssociative
  <2>8. FlattenSeq(Append(p, x)) = FlattenSeq(p) \o x
    BY <2>4, FlattenAppend
  <2>9. FlattenSeq(u \o Append(p, x)) = FlattenSeq(u) \o FlattenSeq(Append(p, x))
    BY <2>6, <2>7, <2>8
  <2>. QED
    BY <2>1, <2>3, <2>9 DEF p, x
<1>. HIDE DEF S
<1>5. \A k \in 0..n : k \in S
  <2>1. \A k \in 0..n : k # n /\ k \in S => k + 1 \in S
    BY <1>4
  <2>. QED
    BY <1>1, <1>3, <2>1, Stepwise
<1>6. n \in S
  BY <1>1, <1>5
<1>. QED
  BY <1>1, <1>6 DEF S

\* How many members of A come before s.
Rank(A, s) == Cardinality({t \in A : t < s})

\* Of a set of numbers, each rank below its size is that of some member.
LEMMA RankExists ==
  ASSUME NEW k \in Nat, NEW A, A \subseteq 0..k - 1, NEW r \in Nat, r < Cardinality(A)
  PROVE  \E s \in A : Rank(A, s) = r
<1>. DEFINE below(m) == {t \in A : t < m}
            S == {m \in 0..k : r < Cardinality(below(m))}
<1>1. IsFiniteSet(A)
  <2>1. IsFiniteSet(0..k - 1)
    BY FS_Interval
  <2>. QED
    BY <2>1, FS_Subset
<1>a. \A x \in A : x \in Nat /\ x < k
  OBVIOUS
<1>2. \A m \in 0..k : IsFiniteSet(below(m)) /\ Cardinality(below(m)) \in Nat
  <2>. SUFFICES ASSUME NEW m \in 0..k PROVE IsFiniteSet(below(m)) /\ Cardinality(below(m)) \in Nat
    OBVIOUS
  <2>1. below(m) \subseteq A
    OBVIOUS
  <2>. HIDE DEF below
  <2>. QED
    BY <1>1, <2>1, FS_Subset, FS_CardinalityType
<1>3. below(k) = A /\ below(0) = {}
  <2>1. below(k) = A
    BY <1>a
  <2>2. below(0) = {}
    <3>1. \A x \in A : ~(x < 0)
      BY <1>a
    <3>. QED
      BY <3>1
  <2>. QED
    BY <2>1, <2>2
<1>4. k \in S
  BY <1>3
<1>5. S \subseteq Nat /\ S # {}
  <2>1. 0..k \subseteq Nat /\ S \subseteq 0..k
    <3>. HIDE DEF below
    <3>. QED
      OBVIOUS
  <2>. HIDE DEF S
  <2>. QED
    BY <1>4, <2>1
<1>. HIDE DEF S
<1>6. PICK m : m \in S /\ \A y \in S : m <= y
  BY <1>5, LeastIn
<1>. DEFINE s == m - 1
<1>7. m \in 0..k /\ m # 0 /\ r < Cardinality(below(m))
  <2>1. m \in 0..k /\ r < Cardinality(below(m))
    BY <1>6 DEF S
  <2>2. m # 0
    <3>. SUFFICES ASSUME m = 0 PROVE FALSE
      OBVIOUS
    <3>1. below(m) = {}
      BY <1>3
    <3>. QED
      BY <2>1, <3>1, FS_EmptySet
  <2>. QED
    BY <2>1, <2>2
<1>8. s \in 0..k /\ s \in Nat /\ m \in Nat /\ m = s + 1
  BY <1>7
<1>9. ~(r < Cardinality(below(s)))
  <2>1. s \notin S
    BY <1>6, <1>8
  <2>. QED
    BY <1>8, <2>1 DEF S
<1>10. CASE s \in A
  <2>1. below(m) = below(s) \cup {s} /\ s \notin below(s)
    <3>1. \A x \in A : x < m <=> x < s \/ x = s
      BY <1>a, <1>8
    <3>2. s < m /\ ~(s < s)
      BY <1>8
    <3>. HIDE DEF s
    <3>. QED
      BY <1>10, <3>1, <3>2
  <2>. HIDE DEF below, s
  <2>2. Cardinality(below(m)) = Cardinality(below(s)) + 1
    BY <1>2, <1>8, <2>1, FS_AddElement
  <2>3. Cardinality(below(s)) = r
    BY <1>2, <1>7, <1>8, <1>9, <2>2
  <2>. QED
    BY <1>10, <2>3 DEF below, Rank
<1>11. CASE s \notin A
  <2>1. below(m) = below(s)
    <3>1. \A x \in A : x < m <=> x < s
      <4>. SUFFICES ASSUME NEW x \in A PROVE x < m <=> x < s
        OBVIOUS
      <4>1. x \in Nat /\ x # s
        BY <1>a, <1>11
      <4>. QED
        BY <4>1, <1>8
    <3>. HIDE DEF s
    <3>. QED
      BY <3>1
  <2>. QED
    BY <1>7, <1>9, <2>1
<1>. QED
  BY <1>10, <1>11

\* A table of lengths: one for each symbol, none longer than a code may be.
LengthTable(l, most) == \E k \in 0..most : l \in [0..k - 1 -> 0..MaxBits]

\* The symbols with a code shorter than n bits.
Shorter(l, n) == {s \in Symbols(l) : l[s] \in 1..n - 1}

LEMMA Shorters ==
  ASSUME NEW k \in Nat, NEW l \in [0..k - 1 -> Nat], NEW n \in Nat
  PROVE  /\ CountOf(l, n) \in Nat /\ Cardinality(Shorter(l, n)) \in Nat /\ Shorter(l, 1) = {}
         /\ n # 0 => Cardinality(Shorter(l, n + 1)) = Cardinality(Shorter(l, n)) + CountOf(l, n)
<1>. DEFINE A == {s \in Symbols(l) : l[s] = n}
            B == Shorter(l, n)
            C == Shorter(l, n + 1)
<1>1. IsFiniteSet(0..k - 1) /\ Symbols(l) = 0..k - 1
  BY FS_Interval DEF Symbols
<1>2. A \subseteq 0..k - 1 /\ B \subseteq 0..k - 1
  BY <1>1 DEF Shorter
<1>3. n # 0 => C = B \cup A /\ B \cap A = {}
  BY <1>1 DEF Shorter
<1>4. Shorter(l, 1) = {} /\ CountOf(l, n) = Cardinality(A)
  BY <1>1 DEF Shorter, CountOf
<1>. HIDE DEF A, B, C
<1>5. IsFiniteSet(A) /\ IsFiniteSet(B) /\ Cardinality(A) \in Nat /\ Cardinality(B) \in Nat
  BY <1>1, <1>2, FS_Subset, FS_CardinalityType
<1>6. n # 0 => Cardinality(C) = Cardinality(B) + Cardinality(A)
  <2>1. Cardinality({}) = 0
    BY FS_EmptySet
  <2>2. n # 0 => Cardinality(C) = Cardinality(B) + Cardinality(A) - 0
    BY <1>3, <1>5, <2>1, FS_Union
  <2>. QED
    BY <1>5, <2>2
<1>. QED
  BY <1>4, <1>5, <1>6 DEF B, C

\* offs[] counts the symbols with shorter codes.
LEMMA OffsetIs ==
  ASSUME NEW k \in Nat, NEW l \in [0..k - 1 -> Nat], NEW n \in 1..MaxBits
  PROVE  Offset(l)[n] = Cardinality(Shorter(l, n))
<1>. DEFINE c(i) == Cardinality(Shorter(l, i))
            g == [i \in 1..MaxBits |-> c(i)]
            offs == CHOOSE offs : offs = [i \in 1..MaxBits |-> IF i = 1 THEN 0 ELSE offs[i - 1] + CountOf(l, i - 1)]
<1>1. MaxBits \in Nat /\ MaxBits # 0
  BY FormatAssumption
<1>2. c(1) = 0
  BY Shorters, FS_EmptySet
<1>3. \A i \in 1..MaxBits : i # 1 => c(i) = c(i - 1) + CountOf(l, i - 1)
  <2>. SUFFICES ASSUME NEW i \in 1..MaxBits, i # 1 PROVE c(i) = c(i - 1) + CountOf(l, i - 1)
    OBVIOUS
  <2>. PICK j : j = i - 1
    OBVIOUS
  <2>1. j \in Nat /\ j # 0 /\ j + 1 = i
    BY <1>1
  <2>2. c(j + 1) = c(j) + CountOf(l, j)
    BY <2>1, Shorters
  <2>. QED
    BY <2>1, <2>2
<1>4. Offset(l) = offs
  BY DEF Offset
<1>. HIDE DEF c
<1>5. g = [i \in 1..MaxBits |-> IF i = 1 THEN 0 ELSE g[i - 1] + CountOf(l, i - 1)]
  <2>. DEFINE r == [i \in 1..MaxBits |-> IF i = 1 THEN 0 ELSE g[i - 1] + CountOf(l, i - 1)]
  <2>1. \A i \in 1..MaxBits : g[i] = r[i]
    <3>. SUFFICES ASSUME NEW i \in 1..MaxBits PROVE g[i] = r[i]
      OBVIOUS
    <3>1. CASE i = 1
      BY <3>1, <1>2
    <3>2. CASE i # 1
      <4>1. i - 1 \in 1..MaxBits
        BY <1>1, <3>2
      <4>. QED
        BY <4>1, <3>2, <1>3
    <3>. QED
      BY <3>1, <3>2
  <2>2. g = [i \in 1..MaxBits |-> g[i]]
    OBVIOUS
  <2>. HIDE DEF g
  <2>. QED
    BY <2>1, <2>2
<1>6. offs = [i \in 1..MaxBits |-> IF i = 1 THEN 0 ELSE offs[i - 1] + CountOf(l, i - 1)]
  <2>. HIDE DEF g
  <2>. QED
    BY <1>5, Zenon
<1>. HIDE DEF offs, g
<1>. DEFINE S == {i \in 0..MaxBits : i = 0 \/ offs[i] = c(i)}
<1>7. \A i \in 0..MaxBits : i # MaxBits /\ i \in S => i + 1 \in S
  <2>. SUFFICES ASSUME NEW i \in 0..MaxBits, i # MaxBits, i \in S PROVE i + 1 \in S
    OBVIOUS
  <2>. PICK j : j = i + 1
    OBVIOUS
  <2>1. j \in 1..MaxBits /\ j - 1 = i /\ j \in 0..MaxBits
    BY <1>1
  <2>2. offs[j] = IF j = 1 THEN 0 ELSE offs[i] + CountOf(l, i)
    BY <1>6, <2>1
  <2>3. j # 1 => c(j) = c(i) + CountOf(l, i) /\ offs[i] = c(i)
    BY <1>1, <1>3, <2>1
  <2>4. offs[j] = c(j)
    BY <1>2, <2>2, <2>3
  <2>. QED
    BY <2>1, <2>4
<1>8. 0 \in S
  BY <1>1
<1>. HIDE DEF S
<1>9. n \in S
  <2>1. \A i \in 0..MaxBits : i \in S
    BY <1>1, <1>7, <1>8, Stepwise
  <2>. QED
    BY <1>1, <2>1
<1>. QED
  BY <1>1, <1>4, <1>9 DEF S, c

\* symbol[] holds at that offset, and as many further as there are codes of a length,
\* symbols with codes of that length.
LEMMA SymbolFound ==
  ASSUME NEW k \in Nat, NEW l \in [0..k - 1 -> Nat], NEW n \in 1..MaxBits,
         NEW r \in Nat, r < CountOf(l, n)
  PROVE  SymbolAt(l, Cardinality(Shorter(l, n)) + r) \in 0..k - 1
<1>. DEFINE A == {s \in Symbols(l) : l[s] = n}
            i == Cardinality(Shorter(l, n)) + r
            At(s) == l[s] # 0 /\ i = Offset(l)[l[s]] + Cardinality({t \in Symbols(l) : t < s /\ l[t] = l[s]})
<1>1. Symbols(l) = 0..k - 1 /\ n # 0
  BY FormatAssumption DEF Symbols
<1>2. A \subseteq 0..k - 1 /\ r < Cardinality(A)
  BY <1>1 DEF CountOf
<1>3. PICK s \in A : Rank(A, s) = r
  <2>. HIDE DEF A
  <2>. QED
    BY <1>2, RankExists, Zenon
<1>4. {t \in A : t < s} = {t \in Symbols(l) : t < s /\ l[t] = l[s]} /\ s \in Symbols(l) /\ l[s] = n
  OBVIOUS
<1>5. Offset(l)[l[s]] = Cardinality(Shorter(l, n))
  BY <1>4, OffsetIs
<1>6. At(s)
  BY <1>1, <1>3, <1>4, <1>5 DEF Rank
<1>7. SymbolAt(l, i) = CHOOSE x \in Symbols(l) : At(x)
  BY DEF SymbolAt
<1>. HIDE DEF At, i, A
<1>8. SymbolAt(l, i) \in Symbols(l)
  BY <1>4, <1>6, <1>7
<1>. QED
  BY <1>1, <1>8 DEF i

\* The constants that are numbers.
LEMMA Sizes ==
  /\ MaxBits \in Nat /\ MaxBits # 0 /\ Literals \in Nat /\ MaxDCodes \in Nat /\ MaxDCodes # 0 /\ FixLCodes \in Nat
  /\ FixedDistance \in Nat /\ NlenBits \in Nat /\ NdistBits \in Nat /\ NcodeBits \in Nat /\ ClBits \in Nat
  /\ MinCl \in Nat /\ OutLen \in Nat /\ ByteBits <= MaxBits + 1
BY FormatAssumption

\* Each power is twice the one before.
LEMMA PowerOfTwoIs ==
  /\ PowerOfTwo[0] = 1
  /\ \A n \in 0..MaxBits : PowerOfTwo[n] \in Nat \ {0}
  /\ \A n \in 0..MaxBits : n # 0 => PowerOfTwo[n] = 2 * PowerOfTwo[n - 1]
<1>. DEFINE F == [p \in (1..MaxBits) \X Nat |-> 2 * p[2]]
<1>1. MaxBits \in Nat /\ F \in [(1..MaxBits) \X Nat -> Nat]
  BY Sizes
<1>2. PICK f : Recursive(f, MaxBits, Nat, 1, F)
  <2>. HIDE DEF F
  <2>. QED
    BY <1>1, Recursion
<1>3. f \in [0..MaxBits -> Nat] /\ f[0] = 1 /\ \A i \in 1..MaxBits : f[i] = 2 * f[i - 1]
  <2>1. f \in [0..MaxBits -> Nat] /\ f[0] = 1 /\ \A i \in 1..MaxBits : f[i] = F[<<i, f[i - 1]>>]
    BY <1>2 DEF Recursive
  <2>2. \A i \in 1..MaxBits : f[i - 1] \in Nat
    BY <1>1, <2>1
  <2>. QED
    BY <2>1, <2>2
<1>4. f = [n \in 0..MaxBits |-> IF n = 0 THEN 1 ELSE 2 * f[n - 1]]
  <2>1. \A n \in 0..MaxBits : n # 0 => n \in 1..MaxBits
    BY <1>1
  <2>2. \A n \in 0..MaxBits : f[n] = IF n = 0 THEN 1 ELSE 2 * f[n - 1]
    BY <1>3, <2>1
  <2>3. f = [n \in 0..MaxBits |-> f[n]]
    BY <1>3
  <2>. QED
    BY <2>2, <2>3
<1>5. PowerOfTwo = [n \in 0..MaxBits |-> IF n = 0 THEN 1 ELSE 2 * PowerOfTwo[n - 1]]
  BY <1>4, Zenon DEF PowerOfTwo
<1>. DEFINE S == {n \in 0..MaxBits : PowerOfTwo[n] \in Nat \ {0}}
<1>6. 0 \in S
  BY <1>1, <1>5
<1>7. \A i \in 0..MaxBits : i # MaxBits /\ i \in S => i + 1 \in S
  <2>. SUFFICES ASSUME NEW i \in 0..MaxBits, i # MaxBits, i \in S PROVE i + 1 \in S
    OBVIOUS
  <2>1. i + 1 \in 0..MaxBits /\ i + 1 # 0 /\ i + 1 - 1 = i /\ PowerOfTwo[i] \in Nat \ {0}
    BY <1>1
  <2>2. PowerOfTwo[i + 1] = 2 * PowerOfTwo[i]
    BY <1>5, <2>1
  <2>. QED
    BY <2>1, <2>2
<1>8. \A n \in 0..MaxBits : n \in S
  <2>. HIDE DEF S
  <2>. QED
    BY <1>1, <1>6, <1>7, Stepwise
<1>. QED
  BY <1>1, <1>5, <1>8


\* What one symbol takes of the codes of n bits.
Share(l, n, s) == IF l[s] \in 1..n - 1 THEN PowerOfTwo[n - l[s]] ELSE 0

\* The codes taken by the first i symbols, for each i.
Taken(taken, l, k, n) ==
  taken \in [0..k -> Nat] /\ taken[0] = 0 /\ \A i \in 1..k : taken[i] = taken[i - 1] + Share(l, n, i - 1)

LEMMA ShareIs ==
  ASSUME NEW k \in Nat, NEW l \in [0..k - 1 -> Nat], NEW n \in 1..MaxBits, NEW s \in 0..k - 1
  PROVE  /\ Share(l, n, s) \in Nat /\ Share(l, n + 1, s) \in Nat /\ Share(l, 1, s) = 0
         /\ Share(l, n + 1, s) = 2 * (Share(l, n, s) + (IF l[s] = n THEN 1 ELSE 0))
<1>1. l[s] \in Nat /\ n \in Nat /\ n # 0 /\ n <= MaxBits /\ MaxBits \in Nat
  BY Sizes
<1>2. CASE l[s] \in 1..n - 1
  <2>. PICK m : m = n - l[s]
    OBVIOUS
  <2>1. m \in 0..MaxBits /\ m + 1 \in 0..MaxBits /\ m + 1 # 0 /\ m + 1 - 1 = m /\ n + 1 - l[s] = m + 1
    BY <1>1, <1>2
  <2>2. PowerOfTwo[m + 1] = 2 * PowerOfTwo[m] /\ PowerOfTwo[m] \in Nat
    BY <2>1, PowerOfTwoIs
  <2>3. Share(l, n, s) = PowerOfTwo[m] /\ Share(l, n + 1, s) = PowerOfTwo[m + 1] /\ l[s] # n /\ Share(l, 1, s) = 0
    BY <1>1, <1>2, <2>1 DEF Share
  <2>. QED
    BY <2>2, <2>3
<1>3. CASE l[s] = n
  <2>1. n + 1 - l[s] = 1 /\ 1 \in 0..MaxBits
    BY <1>1, <1>3
  <2>2. PowerOfTwo[1] = 2 * PowerOfTwo[0] /\ PowerOfTwo[0] = 1
    <3>1. \A m \in 0..MaxBits : m = 1 => PowerOfTwo[m] = 2 * PowerOfTwo[0]
      BY PowerOfTwoIs
    <3>. QED
      BY <2>1, <3>1, PowerOfTwoIs
  <2>3. Share(l, n, s) = 0 /\ Share(l, n + 1, s) = PowerOfTwo[1] /\ Share(l, 1, s) = 0
    BY <1>1, <1>3, <2>1 DEF Share
  <2>. QED
    BY <1>3, <2>2, <2>3
<1>4. CASE l[s] \notin 1..n - 1 /\ l[s] # n
  <2>1. Share(l, n, s) = 0 /\ Share(l, n + 1, s) = 0 /\ Share(l, 1, s) = 0
    BY <1>1, <1>4 DEF Share
  <2>. QED
    BY <1>4, <2>1
<1>. QED
  BY <1>2, <1>3, <1>4

\* FirstCode is what all symbols together take.
LEMMA FirstCodeIs ==
  ASSUME NEW k \in Nat, NEW l \in [0..k - 1 -> Nat], NEW n \in 1..MaxBits + 1
  PROVE  \E taken : Taken(taken, l, k, n) /\ FirstCode(l, n) = taken[k]
<1>. DEFINE share(s) == Share(l, n, s)
            F == [p \in (1..k) \X Nat |-> p[2] + share(p[1] - 1)]
            t == CHOOSE t : t = [i \in 0..k |-> IF i = 0 THEN 0 ELSE t[i - 1] + share(i - 1)]
<1>1. \A i \in 1..k : share(i - 1) \in Nat
  <2>. SUFFICES ASSUME NEW i \in 1..k PROVE share(i - 1) \in Nat
    OBVIOUS
  <2>1. i - 1 \in 0..k - 1
    OBVIOUS
  <2>. PICK s : s = i - 1
    OBVIOUS
  <2>2. CASE n \in 1..MaxBits
    BY <2>1, <2>2, ShareIs
  <2>3. CASE n = MaxBits + 1
    <3>1. MaxBits \in 1..MaxBits
      BY Sizes
    <3>2. Share(l, MaxBits + 1, s) \in Nat
      BY <2>1, <3>1, ShareIs
    <3>. QED
      BY <2>3, <3>2
  <2>. QED
    BY <2>2, <2>3, Sizes
<1>2. FirstCode(l, n) = t[k]
  <2>1. Cardinality(Symbols(l)) = k
    BY FS_Interval DEF Symbols
  <2>. QED
    BY <2>1 DEF FirstCode, Share
<1>. HIDE DEF share
<1>3. PICK f : Recursive(f, k, Nat, 0, F)
  <2>1. F \in [(1..k) \X Nat -> Nat]
    BY <1>1
  <2>. HIDE DEF F
  <2>. QED
    BY <2>1, Recursion
<1>4. f \in [0..k -> Nat] /\ f[0] = 0 /\ \A i \in 1..k : f[i] = f[i - 1] + share(i - 1)
  <2>1. f \in [0..k -> Nat] /\ f[0] = 0 /\ \A i \in 1..k : f[i] = F[<<i, f[i - 1]>>]
    BY <1>3 DEF Recursive
  <2>2. \A i \in 1..k : f[i - 1] \in Nat
    BY <2>1
  <2>. QED
    BY <2>1, <2>2
<1>5. f = [i \in 0..k |-> IF i = 0 THEN 0 ELSE f[i - 1] + share(i - 1)]
  <2>1. \A i \in 0..k : i # 0 => i \in 1..k
    OBVIOUS
  <2>2. \A i \in 0..k : f[i] = IF i = 0 THEN 0 ELSE f[i - 1] + share(i - 1)
    BY <1>4, <2>1
  <2>3. f = [i \in 0..k |-> f[i]]
    BY <1>4
  <2>. QED
    BY <2>2, <2>3
<1>6. t = [i \in 0..k |-> IF i = 0 THEN 0 ELSE t[i - 1] + share(i - 1)]
  BY <1>5, Zenon
<1>. HIDE DEF t
<1>. DEFINE S == {i \in 0..k : t[i] = f[i]}
<1>7. \A i \in 0..k : i \in S
  <2>1. 0 \in S
    BY <1>4, <1>6
  <2>2. ASSUME NEW i \in 0..k, i # k, i \in S PROVE i + 1 \in S
    <3>1. i + 1 \in 0..k /\ i + 1 # 0 /\ i + 1 \in 1..k /\ i + 1 - 1 = i /\ t[i] = f[i]
      BY <2>2
    <3>2. t[i + 1] = t[i] + share(i) /\ f[i + 1] = f[i] + share(i)
      BY <1>4, <1>6, <3>1
    <3>. QED
      BY <3>1, <3>2
  <2>. HIDE DEF S
  <2>. QED
    BY <2>1, <2>2, Stepwise
<1>8. t[k] = f[k]
  BY <1>7
<1>. QED
  BY <1>2, <1>4, <1>8 DEF Taken, share

\* How the rank grows from one number to the next.
LEMMA RankNext ==
  ASSUME NEW k \in Nat, NEW A, A \subseteq 0..k - 1, NEW s \in 0..k - 1
  PROVE  Rank(A, s) \in Nat /\ Rank(A, s + 1) = Rank(A, s) + (IF s \in A THEN 1 ELSE 0)
<1>. DEFINE B == {t \in A : t < s}
<1>1. IsFiniteSet(B) /\ Cardinality(B) \in Nat
  <2>1. B \subseteq 0..k - 1
    OBVIOUS
  <2>2. IsFiniteSet(0..k - 1)
    BY FS_Interval
  <2>. HIDE DEF B
  <2>. QED
    BY <2>1, <2>2, FS_Subset, FS_CardinalityType
<1>a. \A t \in A : t \in Int /\ (t < s + 1 <=> t < s \/ t = s) /\ ~(s < s)
  OBVIOUS
<1>2. CASE s \in A
  <2>1. {t \in A : t < s + 1} = B \cup {s} /\ s \notin B
    BY <1>2, <1>a
  <2>. HIDE DEF B
  <2>2. Cardinality(B \cup {s}) = Cardinality(B) + 1
    BY <1>1, <2>1, FS_AddElement
  <2>. QED
    BY <1>1, <1>2, <2>1, <2>2 DEF Rank, B
<1>3. CASE s \notin A
  <2>1. {t \in A : t < s + 1} = B
    BY <1>3, <1>a
  <2>. QED
    BY <1>1, <1>3, <2>1 DEF Rank
<1>. QED
  BY <1>2, <1>3

\* The symbols with codes of n bits.
Long(l, n) == {s \in Symbols(l) : l[s] = n}

LEMMA LongCount ==
  ASSUME NEW k \in Nat, NEW l \in [0..k - 1 -> Nat], NEW n \in Nat
  PROVE  /\ Long(l, n) \subseteq 0..k - 1 /\ Rank(Long(l, n), 0) = 0 /\ Rank(Long(l, n), k) = CountOf(l, n)
         /\ \A s \in Symbols(l) : Cardinality({t \in Symbols(l) : t < s /\ l[t] = n}) = Rank(Long(l, n), s)
<1>. DEFINE A == Long(l, n)
<1>1. A \subseteq 0..k - 1
  BY DEF Long, Symbols
<1>2. {t \in A : t < 0} = {} /\ {t \in A : t < k} = A
  BY <1>1
<1>3. CountOf(l, n) = Cardinality(A)
  BY DEF CountOf, Long
<1>4. \A s \in Symbols(l) : {t \in Symbols(l) : t < s /\ l[t] = n} = {t \in A : t < s}
  BY DEF Long
<1>. QED
  BY <1>1, <1>2, <1>3, <1>4, FS_EmptySet DEF Rank

\* The codes of the next length begin behind the codes of this one, twice as far.
LEMMA FirstCodes ==
  ASSUME NEW k \in Nat, NEW l \in [0..k - 1 -> Nat]
  PROVE  /\ \A n \in 1..MaxBits + 1 : FirstCode(l, n) \in Nat
         /\ FirstCode(l, 1) = 0
         /\ \A n \in 1..MaxBits : FirstCode(l, n + 1) = 2 * (FirstCode(l, n) + CountOf(l, n))
<1>1. ASSUME NEW n \in 1..MaxBits + 1 PROVE FirstCode(l, n) \in Nat
  <2>1. PICK taken : Taken(taken, l, k, n) /\ FirstCode(l, n) = taken[k]
    BY FirstCodeIs
  <2>2. taken \in [0..k -> Nat] /\ k \in 0..k
    BY <2>1 DEF Taken
  <2>. QED
    BY <2>1, <2>2
<1>2. FirstCode(l, 1) = 0
  <2>1. 1 \in 1..MaxBits + 1 /\ MaxBits \in 1..MaxBits
    BY Sizes
  <2>2. PICK t : Taken(t, l, k, 1) /\ FirstCode(l, 1) = t[k]
    BY <2>1, FirstCodeIs
  <2>. DEFINE S == {i \in 0..k : t[i] = 0}
  <2>3. 0 \in S
    BY <2>2 DEF Taken
  <2>4. ASSUME NEW i \in 0..k, i # k, i \in S PROVE i + 1 \in S
    <3>1. i + 1 \in 1..k /\ i + 1 - 1 = i /\ i \in 0..k - 1 /\ t[i] = 0 /\ i + 1 \in 0..k
      BY <2>4
    <3>2. Share(l, 1, i) = 0
      BY <2>1, <3>1, ShareIs
    <3>3. t[i + 1] = t[i] + Share(l, 1, i)
      BY <2>2, <3>1 DEF Taken
    <3>. QED
      BY <3>1, <3>2, <3>3
  <2>5. \A i \in 0..k : i \in S
    <3>. HIDE DEF S
    <3>. QED
      BY <2>3, <2>4, Stepwise
  <2>. QED
    BY <2>2, <2>5
<1>3. ASSUME NEW n \in 1..MaxBits PROVE FirstCode(l, n + 1) = 2 * (FirstCode(l, n) + CountOf(l, n))
  <2>1. n \in Nat /\ n \in 1..MaxBits + 1 /\ n + 1 \in 1..MaxBits + 1
    BY Sizes
  <2>2. PICK t : Taken(t, l, k, n) /\ FirstCode(l, n) = t[k]
    BY <2>1, FirstCodeIs
  <2>. PICK m : m = n + 1
    OBVIOUS
  <2>3. PICK u : Taken(u, l, k, m) /\ FirstCode(l, m) = u[k]
    BY <2>1, FirstCodeIs
  <2>. DEFINE r(i) == Rank(Long(l, n), i)
              S == {i \in 0..k : r(i) \in Nat /\ u[i] = 2 * (t[i] + r(i))}
  <2>4. 0 \in S
    <3>1. r(0) = 0
      BY <2>1, LongCount
    <3>2. t[0] = 0 /\ u[0] = 0
      BY <2>2, <2>3 DEF Taken
    <3>. HIDE DEF r
    <3>. QED
      BY <3>1, <3>2
  <2>5. ASSUME NEW i \in 0..k, i # k, i \in S PROVE i + 1 \in S
    <3>1. i + 1 \in 1..k /\ i + 1 - 1 = i /\ i \in 0..k - 1 /\ i + 1 \in 0..k
      BY <2>5
    <3>2. r(i) \in Nat /\ u[i] = 2 * (t[i] + r(i)) /\ t[i] \in Nat
      BY <2>2, <2>5 DEF Taken
    <3>3. t[i + 1] = t[i] + Share(l, n, i) /\ u[i + 1] = u[i] + Share(l, m, i)
      BY <2>2, <2>3, <3>1 DEF Taken
    <3>4. Share(l, m, i) = 2 * (Share(l, n, i) + (IF l[i] = n THEN 1 ELSE 0)) /\ Share(l, n, i) \in Nat
      BY <3>1, ShareIs
    <3>5. r(i + 1) = r(i) + (IF l[i] = n THEN 1 ELSE 0)
      <4>1. Long(l, n) \subseteq 0..k - 1
        BY <2>1, LongCount
      <4>2. i \in Long(l, n) <=> l[i] = n
        BY <3>1 DEF Long, Symbols
      <4>. QED
        BY <3>1, <4>1, <4>2, RankNext
    <3>. HIDE DEF r
    <3>6. PICK x \in Nat, y \in Nat, share \in Nat, one \in Nat :
            x = t[i] /\ y = r(i) /\ share = Share(l, n, i) /\ one = (IF l[i] = n THEN 1 ELSE 0)
      BY <3>2, <3>4
    <3>7. t[i + 1] = x + share /\ u[i + 1] = 2 * (x + y) + 2 * (share + one) /\ r(i + 1) = y + one
      BY <3>2, <3>3, <3>4, <3>5, <3>6
    <3>8. 2 * (x + y) + 2 * (share + one) = 2 * ((x + share) + (y + one)) /\ y + one \in Nat
      OBVIOUS
    <3>9. r(i + 1) \in Nat /\ u[i + 1] = 2 * (t[i + 1] + r(i + 1))
      BY <3>7, <3>8
    <3>. QED
      BY <3>1, <3>9
  <2>6. \A i \in 0..k : i \in S
    <3>. HIDE DEF S
    <3>. QED
      BY <2>4, <2>5, Stepwise
  <2>7. k \in S
    BY <2>6
  <2>. QED
    BY <2>1, <2>2, <2>3, <2>7, LongCount
<1>. QED
  BY <1>1, <1>2, <1>3


\* A number that precedes another of the set comes before it.
LEMMA RankLess ==
  ASSUME NEW k \in Nat, NEW A, A \subseteq 0..k - 1, NEW s \in A, NEW t \in 0..k, s < t
  PROVE  Rank(A, s) \in Nat /\ Rank(A, t) \in Nat /\ Rank(A, s) < Rank(A, t)
<1>. DEFINE B == {x \in A : x < s}
            C == {x \in A : x < t}
<1>1. IsFiniteSet(A)
  <2>1. IsFiniteSet(0..k - 1)
    BY FS_Interval
  <2>. QED
    BY <2>1, FS_Subset
<1>2. B \subseteq A /\ C \subseteq A
  OBVIOUS
<1>3. B \cup {s} \subseteq C /\ s \notin B
  <2>1. \A x \in A : x \in Int /\ (x < s => x < t) /\ ~(s < s)
    OBVIOUS
  <2>. QED
    BY <2>1
<1>. HIDE DEF B, C
<1>4. IsFiniteSet(B) /\ IsFiniteSet(C)
  BY <1>1, <1>2, FS_Subset
<1>5. Cardinality(B) \in Nat /\ Cardinality(C) \in Nat /\ Cardinality(B \cup {s}) = Cardinality(B) + 1
  BY <1>3, <1>4, FS_CardinalityType, FS_AddElement
<1>6. Cardinality(B \cup {s}) <= Cardinality(C)
  BY <1>3, <1>4, FS_Subset
<1>. QED
  BY <1>5, <1>6 DEF Rank, B, C

\* The code of a symbol is one of those of its length.
LEMMA CanonicalIs ==
  ASSUME NEW k \in Nat, NEW l \in [0..k - 1 -> Nat], NEW n \in 1..MaxBits, NEW s \in 0..k - 1, l[s] = n
  PROVE  /\ Rank(Long(l, n), s) \in Nat /\ Canonical(l, s) = FirstCode(l, n) + Rank(Long(l, n), s)
         /\ Canonical(l, s) \in Nat /\ Canonical(l, s) < FirstCode(l, n) + CountOf(l, n)
<1>1. n \in Nat /\ s \in Symbols(l) /\ s < k /\ k \in 0..k /\ n \in 1..MaxBits + 1
  BY Sizes DEF Symbols
<1>2. Long(l, n) \subseteq 0..k - 1 /\ Rank(Long(l, n), k) = CountOf(l, n) /\ s \in Long(l, n)
  BY <1>1, LongCount DEF Long
<1>3. /\ Rank(Long(l, n), s) \in Nat /\ CountOf(l, n) \in Nat
      /\ Rank(Long(l, n), s) < CountOf(l, n)
  BY <1>1, <1>2, RankLess
<1>4. Canonical(l, s) = FirstCode(l, n) + Rank(Long(l, n), s)
  <2>1. Cardinality({t \in Symbols(l) : t < s /\ l[t] = n}) = Rank(Long(l, n), s)
    BY <1>1, LongCount
  <2>. QED
    BY <2>1 DEF Canonical
<1>5. FirstCode(l, n) \in Nat
  BY <1>1, FirstCodes
<1>. QED
  BY <1>3, <1>4, <1>5

\* The codes of a length reach as far as the first of any greater length, doubled for
\* each bit more.
LEMMA FirstCodeGrows ==
  ASSUME NEW k \in Nat, NEW l \in [0..k - 1 -> Nat], NEW m \in 1..MaxBits, NEW n \in m + 1..MaxBits + 1
  PROVE  2 * (PowerOfTwo[n - 1 - m] * (FirstCode(l, m) + CountOf(l, m))) <= FirstCode(l, n)
<1>. DEFINE z == FirstCode(l, m) + CountOf(l, m)
            top == MaxBits - m
            S == {j \in 0..top : 2 * (PowerOfTwo[j] * z) <= FirstCode(l, m + 1 + j)}
<1>1. m \in Nat /\ MaxBits \in Nat /\ m <= MaxBits /\ m # 0 /\ n \in Nat /\ m + 1 <= n /\ n <= MaxBits + 1
  BY Sizes
<1>2. z \in Nat
  <2>1. m \in 1..MaxBits + 1
    BY <1>1
  <2>2. FirstCode(l, m) \in Nat /\ CountOf(l, m) \in Nat
    BY <1>1, <2>1, FirstCodes, Shorters
  <2>. QED
    BY <2>2
<1>3. top \in Nat /\ n - 1 - m \in 0..top
  BY <1>1
<1>4. 0 \in S
  <2>1. FirstCode(l, m + 1) = 2 * z
    BY FirstCodes
  <2>2. PowerOfTwo[0] = 1 /\ m + 1 + 0 = m + 1
    BY <1>1, PowerOfTwoIs
  <2>. HIDE DEF z
  <2>3. 2 * (1 * z) <= 2 * z
    BY <1>2
  <2>. QED
    BY <1>3, <2>1, <2>2, <2>3
<1>5. ASSUME NEW j \in 0..top, j # top, j \in S PROVE j + 1 \in S
  <2>a. PICK i : i = j + 1
    OBVIOUS
  <2>b. PICK q : q = m + 1 + j
    OBVIOUS
  <2>1. i \in 0..MaxBits /\ i # 0 /\ i - 1 = j /\ j \in 0..MaxBits /\ q \in 1..MaxBits /\ q + 1 = m + 1 + i /\ i \in 0..top
        /\ q \in 1..MaxBits + 1 /\ q \in Nat
    BY <1>1, <1>5, <2>a, <2>b
  <2>2. PowerOfTwo[i] = 2 * PowerOfTwo[j] /\ PowerOfTwo[j] \in Nat
    BY <2>1, PowerOfTwoIs
  <2>3. FirstCode(l, q + 1) = 2 * (FirstCode(l, q) + CountOf(l, q)) /\ FirstCode(l, q) \in Nat /\ CountOf(l, q) \in Nat
    BY <2>1, FirstCodes, Shorters
  <2>4. 2 * (PowerOfTwo[j] * z) <= FirstCode(l, q)
    BY <1>5, <2>b
  <2>. HIDE DEF z
  <2>5. PICK p \in Nat, f \in Nat, c \in Nat : p = PowerOfTwo[j] /\ f = FirstCode(l, q) /\ c = CountOf(l, q)
    BY <2>2, <2>3
  <2>6. PICK y \in Nat : y = p * z
    BY <1>2
  <2>7. 2 * y <= f
    BY <2>4, <2>5, <2>6
  <2>8. (2 * p) * z = 2 * y
    BY <1>2, <2>6
  <2>9. 2 * ((2 * p) * z) <= 2 * (f + c)
    BY <2>7, <2>8
  <2>. QED
    BY <2>1, <2>2, <2>3, <2>5, <2>9, <2>a
<1>6. \A j \in 0..top : j \in S
  <2>. HIDE DEF S, top
  <2>. QED
    BY <1>3, <1>4, <1>5, Stepwise
<1>7. n - 1 - m \in S /\ m + 1 + (n - 1 - m) = n
  BY <1>1, <1>3, <1>6
<1>. QED
  BY <1>7

\* A number that is not less than a multiple is not less divided.
LEMMA Divided ==
  ASSUME NEW p \in Nat \ {0}, NEW z \in Nat, NEW b \in Nat, p * z <= b
  PROVE  b \div p \in Nat /\ b \div p >= z
<1>. DEFINE q == b \div p
<1>1. q \in Nat /\ b < p * (q + 1)
  <2>1. q \in Nat /\ b < p * q + p
    OBVIOUS
  <2>2. p * q + p = p * (q + 1)
    BY <2>1
  <2>. QED
    BY <2>1, <2>2
<1>. HIDE DEF q
<1>2. ASSUME q < z PROVE FALSE
  <2>1. q + 1 <= z
    BY <1>1, <1>2
  <2>2. p * (q + 1) <= p * z
    BY <1>1, <2>1
  <2>. QED
    BY <1>1, <2>2
<1>. QED
  BY <1>1, <1>2 DEF q


\* There are no fewer symbols with codes shorter than a greater length.
LEMMA ShorterGrows ==
  ASSUME NEW k \in Nat, NEW l \in [0..k - 1 -> Nat], NEW m \in Nat, NEW n \in Nat, m < n, m # 0
  PROVE  Cardinality(Shorter(l, m)) + CountOf(l, m) <= Cardinality(Shorter(l, n))
<1>1. Shorter(l, m + 1) \subseteq Shorter(l, n) /\ Shorter(l, n) \subseteq 0..k - 1
  <2>1. \A s \in Symbols(l) : l[s] \in 1..m + 1 - 1 => l[s] \in 1..n - 1
    OBVIOUS
  <2>. QED
    BY <2>1 DEF Shorter, Symbols
<1>2. IsFiniteSet(Shorter(l, n))
  <2>1. IsFiniteSet(0..k - 1)
    BY FS_Interval
  <2>. QED
    BY <1>1, <2>1, FS_Subset
<1>3. Cardinality(Shorter(l, m + 1)) <= Cardinality(Shorter(l, n))
  BY <1>1, <1>2, FS_Subset
<1>. QED
  BY <1>3, Shorters

\* symbol[] has, at the offset of a length and a symbol's rank in it, that symbol.
LEMMA SymbolAtIs ==
  ASSUME NEW k \in Nat, NEW l \in [0..k - 1 -> 0..MaxBits], NEW n \in 1..MaxBits,
         NEW s \in 0..k - 1, l[s] = n
  PROVE  SymbolAt(l, Cardinality(Shorter(l, n)) + Rank(Long(l, n), s)) = s
<1>. DEFINE i == Cardinality(Shorter(l, n)) + Rank(Long(l, n), s)
            At(x) == l[x] # 0 /\ i = Offset(l)[l[x]] + Cardinality({t \in Symbols(l) : t < x /\ l[t] = l[x]})
<1>1. Symbols(l) = 0..k - 1 /\ n # 0 /\ n \in Nat /\ l \in [0..k - 1 -> Nat] /\ MaxBits \in Nat
  BY Sizes DEF Symbols
<1>2. \A m \in 1..MaxBits : m \in Nat /\ m # 0
  BY <1>1
<1>3. \A m \in 1..MaxBits : Offset(l)[m] = Cardinality(Shorter(l, m))
  BY <1>1, OffsetIs
<1>4. \A m \in 1..MaxBits : Cardinality(Shorter(l, m)) \in Nat /\ CountOf(l, m) \in Nat
  BY <1>1, <1>2, Shorters
<1>5. ASSUME NEW x \in 0..k - 1, l[x] # 0
      PROVE  /\ l[x] \in 1..MaxBits /\ x \in Long(l, l[x]) /\ Rank(Long(l, l[x]), x) \in Nat
             /\ Rank(Long(l, l[x]), x) < CountOf(l, l[x])
             /\ At(x) <=> i = Cardinality(Shorter(l, l[x])) + Rank(Long(l, l[x]), x)
  <2>a. PICK m : m = l[x]
    OBVIOUS
  <2>1. m \in 1..MaxBits /\ m \in Nat /\ x \in Symbols(l) /\ x < k /\ k \in 0..k
    BY <1>1, <1>5, <2>a
  <2>2. Long(l, m) \subseteq 0..k - 1 /\ Rank(Long(l, m), k) = CountOf(l, m) /\ x \in Long(l, m)
    BY <1>1, <2>1, <2>a, LongCount DEF Long
  <2>3. Rank(Long(l, m), x) \in Nat /\ Rank(Long(l, m), x) < CountOf(l, m)
    BY <2>1, <2>2, RankLess
  <2>4. Cardinality({t \in Symbols(l) : t < x /\ l[t] = m}) = Rank(Long(l, m), x)
    <3>. HIDE DEF At, i
    <3>1. \A y \in Symbols(l) : Cardinality({t \in Symbols(l) : t < y /\ l[t] = m}) = Rank(Long(l, m), y)
      BY <1>1, <2>1, LongCount
    <3>. QED
      BY <2>1, <3>1
  <2>5. Offset(l)[m] = Cardinality(Shorter(l, m))
    BY <1>3, <2>1
  <2>. HIDE DEF i
  <2>. QED
    BY <1>5, <2>1, <2>2, <2>3, <2>4, <2>5, <2>a
<1>6. At(s)
  BY <1>1, <1>5
<1>7. ASSUME NEW x \in 0..k - 1, At(x) PROVE x = s
  <2>a. PICK m : m = l[x]
    OBVIOUS
  <2>1. /\ m \in 1..MaxBits /\ m \in Nat /\ m # 0 /\ x \in Long(l, m) /\ Rank(Long(l, m), x) \in Nat
        /\ Rank(Long(l, m), x) < CountOf(l, m) /\ i = Cardinality(Shorter(l, m)) + Rank(Long(l, m), x)
    <3>. HIDE DEF i
    <3>. QED
      BY <1>2, <1>5, <1>7, <2>a
  <2>2. s \in Long(l, n) /\ Rank(Long(l, n), s) \in Nat /\ Rank(Long(l, n), s) < CountOf(l, n)
    BY <1>1, <1>5
  <2>3. /\ Cardinality(Shorter(l, m)) \in Nat /\ CountOf(l, m) \in Nat
        /\ Cardinality(Shorter(l, n)) \in Nat /\ CountOf(l, n) \in Nat
    BY <1>4, <2>1
  <2>4. ~(m < n)
    <3>1. m < n => Cardinality(Shorter(l, m)) + CountOf(l, m) <= Cardinality(Shorter(l, n))
      BY <1>1, <2>1, ShorterGrows
    <3>. QED
      BY <2>1, <2>2, <2>3, <3>1
  <2>5. ~(n < m)
    <3>1. n < m => Cardinality(Shorter(l, n)) + CountOf(l, n) <= Cardinality(Shorter(l, m))
      BY <1>1, <2>1, ShorterGrows
    <3>. QED
      BY <2>1, <2>2, <2>3, <3>1
  <2>6. m = n
    BY <1>1, <2>1, <2>4, <2>5
  <2>7. x \in Long(l, n) /\ Rank(Long(l, n), x) = Rank(Long(l, n), s)
    BY <2>1, <2>2, <2>3, <2>6
  <2>8. Long(l, n) \subseteq 0..k - 1 /\ x \in 0..k /\ s \in 0..k
    <3>. HIDE DEF At, i
    <3>1. Long(l, n) \subseteq 0..k - 1
      BY <1>1, LongCount
    <3>2. x \in 0..k /\ s \in 0..k
      OBVIOUS
    <3>. QED
      BY <3>1, <3>2
  <2>9. ~(x < s) /\ ~(s < x)
    BY <2>2, <2>7, <2>8, RankLess
  <2>. QED
    BY <2>8, <2>9
<1>8. SymbolAt(l, i) = CHOOSE x \in Symbols(l) : At(x)
  BY DEF SymbolAt
<1>. HIDE DEF At, i
<1>9. SymbolAt(l, i) = s
  BY <1>1, <1>6, <1>7, <1>8
<1>. QED
  BY <1>9 DEF i

\* Bits that are not before the first code of a length have passed every shorter code.
LEMMA ShorterPassed ==
  ASSUME NEW k \in Nat, NEW l \in [0..k - 1 -> Nat], NEW n \in 1..MaxBits + 1,
         NEW code \in Nat, FirstCode(l, n) <= code, NEW s \in 0..k - 1, l[s] \in 1..n - 1
  PROVE  /\ Canonical(l, s) # (code \div 2) \div PowerOfTwo[n - 1 - l[s]]
         /\ n <= MaxBits => Canonical(l, s) # code \div PowerOfTwo[n - l[s]]
<1>a. PICK m : m = l[s]
  OBVIOUS
<1>b. PICK j : j = n - 1 - m
  OBVIOUS
<1>1. /\ m \in 1..MaxBits /\ m \in 1..MaxBits + 1 /\ n \in m + 1..MaxBits + 1 /\ m \in Nat /\ m # 0
      /\ j \in 0..MaxBits /\ (n <= MaxBits => j + 1 \in 0..MaxBits /\ j + 1 # 0 /\ n - m = j + 1 /\ j + 1 - 1 = j)
  <2>1. n \in Nat /\ n <= MaxBits + 1 /\ MaxBits \in Nat /\ m \in Nat /\ m # 0 /\ m <= n - 1
    BY <1>a, Sizes
  <2>. QED
    BY <1>b, <2>1
<1>2. PowerOfTwo[j] \in Nat \ {0} /\ (n <= MaxBits => PowerOfTwo[j + 1] = 2 * PowerOfTwo[j])
  BY <1>1, PowerOfTwoIs
<1>3. FirstCode(l, m) \in Nat /\ CountOf(l, m) \in Nat
  BY <1>1, FirstCodes, Shorters
<1>4. PICK z \in Nat : z = FirstCode(l, m) + CountOf(l, m)
  BY <1>3
<1>5. PICK p \in Nat \ {0} : p = PowerOfTwo[j]
  BY <1>2
<1>6. Canonical(l, s) \in Nat /\ Canonical(l, s) < z
  BY <1>1, <1>4, <1>a, CanonicalIs
<1>7. 2 * (p * z) <= code
  <2>1. 2 * (PowerOfTwo[n - 1 - m] * (FirstCode(l, m) + CountOf(l, m))) <= FirstCode(l, n)
    BY <1>1, FirstCodeGrows
  <2>2. PICK y \in Nat : y = p * z
    OBVIOUS
  <2>3. FirstCode(l, n) \in Nat
    BY FirstCodes
  <2>4. 2 * y <= FirstCode(l, n)
    BY <2>1, <2>2, <1>4, <1>5, <1>b
  <2>5. 2 * y <= code
    BY <2>3, <2>4
  <2>. QED
    BY <2>2, <2>5
<1>8. (code \div 2) \div p >= z /\ (code \div 2) \div p \in Nat
  <2>1. PICK y \in Nat : y = p * z
    OBVIOUS
  <2>2. code \div 2 \in Nat /\ y <= code \div 2
    BY <1>7, <2>1
  <2>3. PICK half \in Nat : half = code \div 2
    BY <2>2
  <2>4. p * z <= half
    BY <2>1, <2>2, <2>3
  <2>5. half \div p >= z /\ half \div p \in Nat
    BY <2>4, Divided
  <2>. QED
    BY <2>3, <2>5
<1>9. code \div (2 * p) >= z /\ code \div (2 * p) \in Nat
  <2>1. PICK q \in Nat \ {0} : q = 2 * p
    OBVIOUS
  <2>2. q * z <= code
    BY <1>7, <2>1
  <2>3. code \div q >= z /\ code \div q \in Nat
    BY <2>2, Divided
  <2>. QED
    BY <2>1, <2>3
<1>10. Canonical(l, s) # (code \div 2) \div PowerOfTwo[n - 1 - l[s]]
  BY <1>5, <1>6, <1>8, <1>a, <1>b
<1>11. ASSUME n <= MaxBits PROVE Canonical(l, s) # code \div PowerOfTwo[n - l[s]]
  <2>1. PowerOfTwo[n - l[s]] = 2 * p
    BY <1>1, <1>2, <1>5, <1>11, <1>a
  <2>. QED
    BY <1>6, <1>9, <2>1
<1>. QED
  BY <1>10, <1>11

\* No symbol is named before the bit that is read now, and then the one the decoder finds.
LEMMA NamedIs ==
  ASSUME NEW k \in Nat, NEW l \in [0..k - 1 -> 0..MaxBits], NEW n \in 1..MaxBits + 1,
         NEW code \in Nat, FirstCode(l, n) <= code
  PROVE  /\ Named(l, code \div 2, n - 1) = {}
         /\ n <= MaxBits =>
              Named(l, code, n) =
                IF code - CountOf(l, n) < FirstCode(l, n)
                THEN {SymbolAt(l, Cardinality(Shorter(l, n)) + code - FirstCode(l, n))} ELSE {}
<1>1. l \in [0..k - 1 -> Nat] /\ Symbols(l) = 0..k - 1 /\ n \in Nat /\ n # 0 /\ MaxBits \in Nat
  BY Sizes DEF Symbols
<1>2. Named(l, code \div 2, n - 1) = {}
  <2>1. \A s \in 0..k - 1 : l[s] \in 1..n - 1 => Canonical(l, s) # (code \div 2) \div PowerOfTwo[n - 1 - l[s]]
    BY <1>1, ShorterPassed
  <2>. QED
    BY <1>1, <2>1 DEF Named
<1>3. ASSUME n <= MaxBits
      PROVE  Named(l, code, n) =
               IF code - CountOf(l, n) < FirstCode(l, n)
               THEN {SymbolAt(l, Cardinality(Shorter(l, n)) + code - FirstCode(l, n))} ELSE {}
  <2>1. n \in 1..MaxBits /\ n \in 1..MaxBits + 1
    BY <1>1, <1>3
  <2>2. FirstCode(l, n) \in Nat /\ CountOf(l, n) \in Nat /\ Cardinality(Shorter(l, n)) \in Nat
    BY <1>1, <2>1, FirstCodes, Shorters
  <2>3. PICK r \in Nat : r = code - FirstCode(l, n)
    BY <2>2
  <2>4. \A s \in 0..k - 1 :
          s \in Named(l, code, n) <=> l[s] = n /\ Rank(Long(l, n), s) = r
    <3>. SUFFICES ASSUME NEW s \in 0..k - 1
                  PROVE  s \in Named(l, code, n) <=> l[s] = n /\ Rank(Long(l, n), s) = r
      OBVIOUS
    <3>1. s \in Named(l, code, n) <=> l[s] \in 1..n /\ Canonical(l, s) = code \div PowerOfTwo[n - l[s]]
      BY <1>1 DEF Named
    <3>2. CASE l[s] \in 1..n - 1
      <4>1. Canonical(l, s) # code \div PowerOfTwo[n - l[s]]
        BY <1>1, <1>3, <3>2, ShorterPassed
      <4>2. l[s] # n
        BY <1>1, <3>2
      <4>. QED
        BY <3>1, <4>1, <4>2
    <3>3. CASE l[s] = n
      <4>1. PowerOfTwo[n - l[s]] = 1
        <5>1. n - l[s] = 0
          BY <1>1, <3>3
        <5>. QED
          BY <5>1, PowerOfTwoIs
      <4>2. code \div 1 = code
        OBVIOUS
      <4>3. Canonical(l, s) = FirstCode(l, n) + Rank(Long(l, n), s) /\ Rank(Long(l, n), s) \in Nat
        BY <1>1, <2>1, <3>3, CanonicalIs
      <4>4. l[s] \in 1..n
        BY <1>1, <3>3
      <4>. QED
        BY <2>2, <2>3, <3>1, <3>3, <4>1, <4>2, <4>3, <4>4
    <3>4. CASE l[s] \notin 1..n
      <4>1. l[s] # n
        BY <1>1, <3>4
      <4>. QED
        BY <3>1, <3>4, <4>1
    <3>5. l[s] \in 1..n - 1 \/ l[s] = n \/ l[s] \notin 1..n
      BY <1>1
    <3>. QED
      BY <3>2, <3>3, <3>4, <3>5
  <2>5. Named(l, code, n) \subseteq 0..k - 1
    BY <1>1 DEF Named
  <2>6. CASE r < CountOf(l, n)
    <3>1. PICK s \in 0..k - 1 : l[s] = n /\ Rank(Long(l, n), s) = r
      <4>1. Long(l, n) \subseteq 0..k - 1 /\ CountOf(l, n) = Cardinality(Long(l, n))
        BY <1>1, LongCount DEF CountOf, Long
      <4>2. \E s \in Long(l, n) : Rank(Long(l, n), s) = r
        BY <2>6, <4>1, RankExists
      <4>. QED
        BY <4>1, <4>2 DEF Long
    <3>2. SymbolAt(l, Cardinality(Shorter(l, n)) + r) = s
      BY <2>1, <3>1, SymbolAtIs
    <3>3. Named(l, code, n) = {s}
      <4>1. ASSUME NEW t \in 0..k - 1, l[t] = n, Rank(Long(l, n), t) = r PROVE t = s
        <5>1. SymbolAt(l, Cardinality(Shorter(l, n)) + r) = t
          BY <2>1, <4>1, SymbolAtIs
        <5>. QED
          BY <3>2, <5>1
      <4>. QED
        BY <2>4, <2>5, <3>1, <4>1
    <3>4. Cardinality(Shorter(l, n)) + code - FirstCode(l, n) = Cardinality(Shorter(l, n)) + r
      BY <2>2, <2>3
    <3>5. code - CountOf(l, n) < FirstCode(l, n)
      BY <2>2, <2>3, <2>6
    <3>. QED
      BY <3>2, <3>3, <3>4, <3>5
  <2>7. CASE ~(r < CountOf(l, n))
    <3>1. ASSUME NEW s \in 0..k - 1, l[s] = n, Rank(Long(l, n), s) = r PROVE FALSE
      <4>1. Canonical(l, s) = FirstCode(l, n) + r /\ Canonical(l, s) < FirstCode(l, n) + CountOf(l, n)
        BY <1>1, <2>1, <3>1, CanonicalIs
      <4>. QED
        BY <2>2, <2>7, <4>1
    <3>2. Named(l, code, n) = {}
      BY <2>4, <2>5, <3>1
    <3>3. ~(code - CountOf(l, n) < FirstCode(l, n))
      BY <2>2, <2>3, <2>7
    <3>. QED
      BY <3>2, <3>3
  <2>. QED
    BY <2>6, <2>7
<1>. QED
  BY <1>2, <1>3

\* A later s keeps an earlier r at its front.
LEMMA PrefixIs ==
  ASSUME NEW S, NEW r \in Seq(S), NEW s \in Seq(S)
  PROVE  IsPrefix(r, s) <=> Len(r) <= Len(s) /\ \A i \in 1..Len(r) : s[i] = r[i]
<1>1. Len(r) \in Nat /\ Len(s) \in Nat
  BY LenProperties
<1>2. SubSeq(r, 1, Len(r)) = r
  BY SubSeqFull
<1>3. ASSUME Len(r) <= Len(s)
      PROVE  SubSeq(s, 1, Len(r)) = r <=> \A i \in 1..Len(r) : s[i] = r[i]
  <2>1. \A i \in 1..Len(r) : s[i] \in S
    BY <1>1, <1>3, ElementOfSeq
  <2>2. /\ SubSeq(s, 1, Len(r)) \in Seq(S) /\ Len(SubSeq(s, 1, Len(r))) = Len(r)
        /\ \A i \in 1..Len(r) : SubSeq(s, 1, Len(r))[i] = s[i]
    <3>. DEFINE m == Len(r)
    <3>0. m \in Nat /\ \A i \in 1..m : s[i] \in S
      BY <1>1, <2>1
    <3>. HIDE DEF m
    <3>1. SubSeq(s, 1, m) \in Seq(S) /\ Len(SubSeq(s, 1, m)) = m
          /\ \A i \in 1..m - 1 + 1 : SubSeq(s, 1, m)[i] = s[1 + i - 1]
      <4>1. Len(SubSeq(s, 1, m)) = IF 1 <= m THEN m - 1 + 1 ELSE 0
        BY <3>0, SubSeqProperties
      <4>. QED
        BY <3>0, <4>1, SubSeqProperties
    <3>2. \A i \in 1..m : i \in 1..m - 1 + 1 /\ 1 + i - 1 = i
      BY <3>0
    <3>. QED
      BY <3>1, <3>2 DEF m
  <2>. QED
    BY <2>2, SeqEqual
<1>. QED
  BY <1>2, <1>3 DEF IsPrefix

\* What is left when the front is cut off is a suffix.
LEMMA SuffixIs ==
  ASSUME NEW S, NEW r \in Seq(S), NEW s \in Seq(S)
  PROVE  IsSuffix(s, r \o s)
<1>. DEFINE n == Len(r)
            m == Len(s)
            t == r \o s
            back == [i \in 1..m |-> s[m - i + 1]]
            all == [i \in 1..n + m |-> t[n + m - i + 1]]
<1>1. n \in Nat /\ m \in Nat /\ t \in Seq(S) /\ Len(t) = n + m
  BY LenProperties, ConcatProperties
<1>2. \A i \in 1..m : s[i] \in S /\ t[n + i] = s[i]
  <2>. SUFFICES ASSUME NEW i \in 1..m PROVE s[i] \in S /\ t[n + i] = s[i]
    OBVIOUS
  <2>1. s[i] \in S
    BY ElementOfSeq
  <2>2. n + i \in 1..n + m /\ ~(n + i <= n) /\ n + i - n = i
    <3>1. n \in Nat /\ m \in Nat /\ i \in 1..m
      BY <1>1
    <3>. HIDE DEF n, m
    <3>. QED
      BY <3>1
  <2>3. t[n + i] = s[n + i - n]
    <3>. DEFINE j == n + i
    <3>1. j \in 1..n + m /\ ~(j <= n)
      BY <2>2
    <3>. HIDE DEF j
    <3>2. t[j] = IF j <= n THEN r[j] ELSE s[j - n]
      BY <3>1, ConcatProperties
    <3>. QED
      BY <3>1, <3>2 DEF j
  <2>. QED
    BY <2>1, <2>2, <2>3
<1>3. \A j \in 1..n + m : t[j] \in S
  BY <1>1, ElementOfSeq
<1>4. Reverse(s) = back /\ Reverse(t) = all
  BY <1>1 DEF Reverse
<1>. HIDE DEF n, m, t
<1>5. back \in Seq(S) /\ Len(back) = m /\ all \in Seq(S) /\ Len(all) = n + m
  <2>1. \A i \in 1..m : m - i + 1 \in 1..m
    BY <1>1
  <2>2. \A i \in 1..n + m : n + m - i + 1 \in 1..n + m
    BY <1>1
  <2>3. back \in [1..m -> S] /\ all \in [1..n + m -> S]
    BY <1>2, <1>3, <2>1, <2>2
  <2>4. n + m \in Nat
    BY <1>1
  <2>5. DOMAIN back = 1..m /\ DOMAIN all = 1..n + m
    OBVIOUS
  <2>. HIDE DEF back, all
  <2>6. back \in Seq(S) /\ all \in Seq(S)
    BY <1>1, <2>3, <2>4, IsASeq
  <2>. QED
    BY <1>1, <2>4, <2>5, <2>6, LenProperties
<1>6. \A i \in 1..m : all[i] = back[i]
  <2>. SUFFICES ASSUME NEW i \in 1..m PROVE all[i] = back[i]
    OBVIOUS
  <2>. PICK j : j = m - i + 1
    OBVIOUS
  <2>1. j \in 1..m /\ n + m - i + 1 = n + j /\ i \in 1..n + m
    BY <1>1
  <2>2. back[i] = s[j] /\ all[i] = t[n + j]
    BY <2>1
  <2>. QED
    BY <1>2, <2>1, <2>2
<1>. HIDE DEF back, all
<1>7. IsPrefix(back, all)
  BY <1>1, <1>5, <1>6, PrefixIs
<1>. QED
  BY <1>4, <1>7 DEF IsSuffix, t

\* Cutting n off the front.
LEMMA DropIs ==
  ASSUME NEW S, NEW s \in Seq(S), NEW n \in Nat, n <= Len(s)
  PROVE  /\ Take(s, n) \in Seq(S) /\ Len(Take(s, n)) = n /\ \A i \in 1..n : Take(s, n)[i] = s[i]
         /\ Drop(s, n) \in Seq(S) /\ Len(Drop(s, n)) = Len(s) - n
         /\ s = Take(s, n) \o Drop(s, n)
<1>1. Len(s) \in Nat /\ n \in 0..Len(s)
  BY LenProperties
<1>2. \A i \in 1..Len(s) : s[i] \in S
  BY ElementOfSeq
<1>3. \A i \in 1..n : s[i] \in S /\ i \in 1..n - 1 + 1 /\ 1 + i - 1 = i
  BY <1>1, <1>2
<1>4. Take(s, n) \in Seq(S) /\ Len(Take(s, n)) = n /\ \A i \in 1..n : Take(s, n)[i] = s[i]
  <2>1. Len(SubSeq(s, 1, n)) = IF 1 <= n THEN n - 1 + 1 ELSE 0
    BY <1>3, SubSeqProperties
  <2>. QED
    BY <1>3, <2>1, SubSeqProperties DEF Take
<1>5. Drop(s, n) \in Seq(S) /\ Len(Drop(s, n)) = Len(s) - n
  <2>. DEFINE m == n + 1
              l == Len(s)
  <2>1. m \in Int /\ l \in Int /\ (\A i \in m..l : s[i] \in S)
    BY <1>1, <1>2
  <2>. HIDE DEF m, l
  <2>2. SubSeq(s, m, l) \in Seq(S) /\ Len(SubSeq(s, m, l)) = IF m <= l THEN l - m + 1 ELSE 0
    BY <2>1, SubSeqProperties
  <2>. QED
    BY <1>1, <2>2 DEF Drop, m, l
<1>6. s = Take(s, n) \o Drop(s, n)
  <2>1. SubSeq(s, 1, n) \o SubSeq(s, n + 1, Len(s)) = SubSeq(s, 1, Len(s))
    <3>. DEFINE l == Len(s)
    <3>2. 1 \in 1..l + 1 /\ n \in 1 - 1..l /\ l \in n..l
      BY <1>1
    <3>. QED
      BY <3>2, ConcatAdjacentSubSeq
  <2>. QED
    BY <2>1, SubSeqFull DEF Take, Drop
<1>. QED
  BY <1>4, <1>5, <1>6

\* A byte is the sequence of its bits.
LEMMA ByteIs ==
  /\ ByteBits \in Nat /\ ByteBits # 0
  /\ \A b \in Byte : b \in Seq(Bit) /\ Len(b) = ByteBits /\ \A i \in 1..ByteBits : b[i] \in Bit
<1>1. ByteBits \in Nat /\ ByteBits # 0
  BY FormatAssumption
<1>2. ASSUME NEW b \in Byte PROVE b \in Seq(Bit) /\ Len(b) = ByteBits /\ \A i \in 1..ByteBits : b[i] \in Bit
  <2>1. b \in [1..ByteBits -> Bit]
    BY DEF Byte
  <2>2. b \in Seq(Bit)
    BY <1>1, <2>1, IsASeq
  <2>. QED
    BY <1>1, <2>1, <2>2, LenProperties
<1>. QED
  BY <1>1, <1>2

\* What is left of a number when multiples of b are taken from it.
LEMMA PartOfByte ==
  ASSUME NEW b \in Nat \ {0}, NEW r \in 0..b - 1, NEW k \in Int, NEW n \in Int, n + b * k = r
  PROVE  n % b = r
<1>. DEFINE q == n \div b
            p == n % b
<1>1. q \in Int /\ p \in 0..b - 1 /\ n = b * q + p
  BY Division
<1>. HIDE DEF q, p
<1>2. r - p = b * (q + k) /\ p - r = b * (-(q + k)) /\ r \in Int /\ p \in Int
  BY <1>1
<1>. DEFINE m == q + k
<1>3. m \in Int /\ -m \in Int
  BY <1>1
<1>. HIDE DEF m
<1>4. CASE r >= p
  <2>1. 0 <= b * m /\ b * m < b
    BY <1>1, <1>2, <1>4 DEF m
  <2>2. m = 0
    BY <1>3, <2>1, NoMultipleBelow
  <2>. QED
    BY <1>2, <2>2 DEF m, p
<1>5. CASE r < p
  <2>1. 0 <= b * (-m) /\ b * (-m) < b
    BY <1>1, <1>2, <1>5 DEF m
  <2>2. -m = 0
    BY <1>3, <2>1, NoMultipleBelow
  <2>3. p - r = b * 0
    BY <1>2, <2>2 DEF m
  <2>. QED
    BY <1>1, <1>2, <2>3 DEF p
<1>. QED
  BY <1>1, <1>2, <1>4, <1>5

\* A copy adds n bytes, each the one dist bytes before it.
LEMMA CopyIs ==
  ASSUME out \in Seq(Nat), NEW n \in Nat, NEW dist \in Nat \ {0}, dist <= Len(out)
  PROVE  LET c == CopyBack(dist, n) IN
         /\ c \in Seq(Nat) /\ Len(c) = Len(out) + n
         /\ \A i \in 1..Len(out) : c[i] = out[i]
         /\ \A i \in Len(out) + 1..Len(out) + n : c[i] = c[i - dist]
<1>. DEFINE F == [p \in (1..n) \X Seq(Nat) |->
                    IF Len(p[2]) = Len(out) + p[1] - 1 THEN Append(p[2], p[2][Len(out) + p[1] - dist]) ELSE p[2]]
            o == CHOOSE o : o = [i \in 0..n |-> IF i = 0 THEN out ELSE Append(o[i - 1], o[i - 1][Len(out) + i - dist])]
            Longer(i, s) == s \in Seq(Nat) /\ Len(s) = Len(out) + i
            Copied(i, s) == /\ Longer(i, s)
                            /\ \A j \in 1..Len(out) : s[j] = out[j]
                            /\ \A j \in Len(out) + 1..Len(out) + i : s[j] = s[j - dist]
<1>1. Len(out) \in Nat /\ 0 \in 0..n /\ n \in 0..n
  BY LenProperties
<1>2. \A i \in 1..n : i - 1 \in 0..n /\ i \in 0..n /\ i - 1 \in Nat /\ i # 0
  OBVIOUS
<1>3. ASSUME NEW i \in 1..n, NEW s, Longer(i - 1, s)
      PROVE  /\ Longer(i, Append(s, s[Len(out) + i - dist]))
             /\ Copied(i - 1, s) => Copied(i, Append(s, s[Len(out) + i - dist]))
  <2>. PICK x : x = s[Len(out) + i - dist]
    OBVIOUS
  <2>. PICK a : a = Append(s, x)
    OBVIOUS
  <2>. PICK m : m = Len(out)
    OBVIOUS
  <2>1. m \in Nat /\ s \in Seq(Nat) /\ Len(s) = m + i - 1 /\ dist <= m
    BY <1>1, <1>3
  <2>2. m + i - dist \in 1..Len(s) /\ x = s[m + i - dist] /\ x \in Nat
    <3>1. m + i - dist \in 1..Len(s)
      BY <2>1
    <3>. QED
      BY <2>1, <3>1, ElementOfSeq
  <2>3. a \in Seq(Nat) /\ Len(a) = m + i /\ (\A j \in 1..Len(s) : a[j] = s[j]) /\ a[Len(s) + 1] = x
    <3>1. Len(s) + 1 = m + i
      BY <2>1
    <3>. QED
      BY <2>1, <2>2, <3>1, AppendProperties
  <2>4. Longer(i, a)
    BY <2>3
  <2>5. ASSUME Copied(i - 1, s) PROVE Copied(i, a)
    <3>1. \A j \in 1..m : a[j] = out[j]
      BY <2>1, <2>3, <2>5
    <3>2. ASSUME NEW j \in m + 1..m + i PROVE a[j] = a[j - dist]
      <4>1. j - dist \in 1..Len(s) /\ a[j - dist] = s[j - dist]
        <5>1. j - dist \in 1..Len(s)
          BY <2>1
        <5>. QED
          BY <5>1, <2>3
      <4>2. CASE j = m + i
        <5>1. j = Len(s) + 1
          BY <2>1, <4>2
        <5>. QED
          BY <2>2, <2>3, <4>1, <4>2, <5>1
      <4>3. CASE j # m + i
        <5>1. j \in m + 1..m + (i - 1) /\ j \in 1..Len(s)
          BY <2>1, <4>3
        <5>. QED
          BY <2>3, <2>5, <4>1, <5>1
      <4>. QED
        BY <4>2, <4>3
    <3>. QED
      BY <2>4, <3>1, <3>2
  <2>. QED
    BY <2>4, <2>5
<1>4. PICK f : Recursive(f, n, Seq(Nat), out, F)
  <2>1. ASSUME NEW i \in 1..n, NEW s \in Seq(Nat)
        PROVE  (IF Len(s) = Len(out) + i - 1 THEN Append(s, s[Len(out) + i - dist]) ELSE s) \in Seq(Nat)
    <3>1. Len(s) = Len(out) + i - 1 => Longer(i - 1, s)
      BY <1>1
    <3>. HIDE DEF Copied
    <3>2. Longer(i - 1, s) => Append(s, s[Len(out) + i - dist]) \in Seq(Nat)
      BY <1>3
    <3>. QED
      BY <3>1, <3>2
  <2>2. F \in [(1..n) \X Seq(Nat) -> Seq(Nat)]
    BY <2>1
  <2>. DEFINE T == Seq(Nat)
  <2>3. F \in [(1..n) \X T -> T] /\ out \in T
    BY <2>2
  <2>. HIDE DEF F, T
  <2>4. \E f : Recursive(f, n, T, out, F)
    BY <2>3, Recursion
  <2>. QED
    BY <2>4 DEF T
<1>5. f \in [0..n -> Seq(Nat)] /\ f[0] = out /\ \A i \in 1..n : f[i] = F[<<i, f[i - 1]>>]
  BY <1>4 DEF Recursive
<1>6. \A i \in 1..n : Longer(i - 1, f[i - 1]) => f[i] = Append(f[i - 1], f[i - 1][Len(out) + i - dist])
  <2>. SUFFICES ASSUME NEW i \in 1..n, Longer(i - 1, f[i - 1])
                PROVE  f[i] = Append(f[i - 1], f[i - 1][Len(out) + i - dist])
    OBVIOUS
  <2>1. f[i - 1] \in Seq(Nat) /\ Len(f[i - 1]) = Len(out) + i - 1
    BY <1>1
  <2>. PICK s : s = f[i - 1]
    OBVIOUS
  <2>2. F[<<i, s>>] = Append(s, s[Len(out) + i - dist])
    BY <2>1
  <2>. HIDE DEF F, Copied, Longer
  <2>. QED
    BY <1>5, <2>2
<1>. HIDE DEF F, Copied
<1>. DEFINE Q == {i \in 0..n : Longer(i, f[i])}
<1>7. \A i \in 0..n : i \in Q
  <2>1. 0 \in Q
    BY <1>1, <1>5
  <2>2. ASSUME NEW i \in 0..n, i # n, i \in Q PROVE i + 1 \in Q
    <3>. PICK j : j = i + 1
      OBVIOUS
    <3>1. j \in 1..n /\ j - 1 = i /\ j \in 0..n
      BY <2>2
    <3>2. Longer(j - 1, f[j - 1])
      BY <2>2, <3>1
    <3>3. f[j] = Append(f[j - 1], f[j - 1][Len(out) + j - dist])
      BY <1>6, <3>1, <3>2
    <3>4. Longer(j, Append(f[j - 1], f[j - 1][Len(out) + j - dist]))
      BY <1>3, <3>1, <3>2
    <3>. HIDE DEF Longer
    <3>. QED
      BY <3>1, <3>3, <3>4
  <2>. HIDE DEF Q
  <2>. QED
    BY <2>1, <2>2, Stepwise
<1>. HIDE DEF Longer
<1>8. \A i \in 1..n : f[i] = Append(f[i - 1], f[i - 1][Len(out) + i - dist])
  BY <1>2, <1>6, <1>7
<1>9. f = [i \in 0..n |-> IF i = 0 THEN out ELSE Append(f[i - 1], f[i - 1][Len(out) + i - dist])]
  <2>1. f = [i \in 0..n |-> f[i]]
    BY <1>5
  <2>2. \A i \in 0..n : i # 0 => i \in 1..n
    OBVIOUS
  <2>3. \A i \in 0..n : f[i] = IF i = 0 THEN out ELSE Append(f[i - 1], f[i - 1][Len(out) + i - dist])
    BY <1>5, <1>8, <2>2
  <2>. QED
    BY <2>1, <2>3
<1>10. o = [i \in 0..n |-> IF i = 0 THEN out ELSE Append(o[i - 1], o[i - 1][Len(out) + i - dist])]
  BY <1>9, Zenon
<1>11. CopyBack(dist, n) = o[n]
  BY DEF CopyBack
<1>. HIDE DEF o, Q
<1>. DEFINE R == {i \in 0..n : Copied(i, o[i])}
<1>12. \A i \in 0..n : i \in R
  <2>1. 0 \in R
    <3>1. o[0] = out
      BY <1>1, <1>10
    <3>2. Copied(0, out)
      BY <1>1 DEF Copied, Longer
    <3>. QED
      BY <1>1, <3>1, <3>2
  <2>2. ASSUME NEW i \in 0..n, i # n, i \in R PROVE i + 1 \in R
    <3>. PICK j : j = i + 1
      OBVIOUS
    <3>1. j \in 1..n /\ j - 1 = i /\ j \in 0..n /\ j # 0
      BY <2>2
    <3>2. Copied(j - 1, o[j - 1]) /\ Longer(j - 1, o[j - 1])
      BY <2>2, <3>1 DEF Copied
    <3>3. o[j] = Append(o[j - 1], o[j - 1][Len(out) + j - dist])
      BY <1>10, <3>1
    <3>4. Copied(j, Append(o[j - 1], o[j - 1][Len(out) + j - dist]))
      BY <1>3, <3>1, <3>2
    <3>. QED
      BY <3>1, <3>3, <3>4
  <2>. HIDE DEF R
  <2>. QED
    BY <2>1, <2>2, Stepwise
<1>13. Copied(n, o[n])
  BY <1>1, <1>12
<1>. QED
  BY <1>11, <1>13 DEF Copied, Longer

\* Types of the buffers and of decode()'s locals.
Buffers ==
  /\ bitbuf \in Seq(Bit) /\ bitcnt \in Nat /\ win \in Seq(Byte)
  /\ out \in Seq(Nat) /\ Len(out) <= OutLen
  /\ d \in [len : 1..MaxBits + 1, code : Nat, first : Nat, index : Nat, left : Nat]

\* bits(): the count is right, and less than a byte more than is needed was taken.
Counted == ~Decoding /\ pc # "done" => bitcnt = Len(bitbuf) /\ Need \in Nat /\ bitcnt < ByteBits + Need

\* decode(): it holds at most a byte; the count it left behind is whole bytes and the bits
\* it has used away from the one it holds; what it may still look at is all of that byte
\* or as much as the longest code needs.
Partial ==
  Decoding =>
    /\ Len(bitbuf) <= ByteBits /\ d.left <= Len(bitbuf) /\ d.left + d.len <= MaxBits + 1
    /\ Len(bitbuf) = d.left \/ d.left + d.len = MaxBits + 1
    /\ \E k \in Int : bitcnt - d.len + 1 + ByteBits * k = Len(bitbuf)

\* decode() is past the symbols with shorter codes, and not before the first code of this
\* length, which is where the format has it.
Codes ==
  Decoding =>
    /\ d.index = Cardinality(Shorter(Table, d.len))
    /\ d.first = FirstCode(Table, d.len) /\ d.first <= d.code

\* What is read next and how much of it there is.
Fields ==
  /\ pc \in {"clengths", "copy"} => len \in Nat
  /\ pc = "copy" => bitbuf = <<>> /\ Len(out) + len <= OutLen
  /\ pc = "repeat" => len \in MaxBits + 1..MaxBits + 3
  /\ pc = "lextra" => len \in 1..Len(LengthBase)
  /\ pc = "dextra" => len \in 1..MaxDCodes
  /\ pc \in {"distance", "dextra"} => \E n \in Nat : lengths = <<n>>

\* The tables that decode() is given, and the lengths they are made of.
Tables ==
  /\ pc \in {"clengths", "codelength", "repeat"} => nlen \in Nat /\ nlen > Literals /\ ndist \in 1..MaxDCodes
  /\ pc \in {"codelength", "repeat"} =>
       LengthTable(lencode, MaxBits + 4) /\ lengths \in Seq(0..MaxBits) /\ Len(lengths) < nlen + ndist
  /\ pc = "repeat" /\ len = MaxBits + 1 => lengths # <<>>
  /\ pc \in {"symbol", "lextra", "distance", "dextra"} =>
       (\E k \in Nat : LengthTable(lencode, k)) /\ LengthTable(distcode, MaxDCodes)

PuffInv == Buffers /\ Counted /\ Partial /\ Codes /\ Fields /\ Tables

\* InflateTrue, part by part.
ReadInOrder == IsPrefix(Rest, Rest') \/ IsSuffix(Rest', Rest)
WellCounted == (~Decoding => bitcnt = Len(bitbuf)) /\ (pc = "stored" => Len(bitbuf) < ByteBits)
WrittenOnce ==
  /\ IsPrefix(out, out') /\ Len(out') <= OutLen
  /\ pc = "dextra" /\ out' # out =>
       \A i \in Len(out) + 1..Len(out') : out'[i] = out'[i - DistBase[len] - Field]

-----------------------------------------------------------------------------

\* What is still to be read is bits.
LEMMA RestTypes ==
  ASSUME bitbuf \in Seq(Bit), win \in Seq(Byte)
  PROVE  /\ win \in Seq(Seq(Bit)) /\ FlattenSeq(win) \in Seq(Bit) /\ Rest \in Seq(Bit)
<1>1. Byte \subseteq Seq(Bit)
  BY ByteIs
<1>2. win \in Seq(Seq(Bit))
  BY <1>1, SeqMonotonic
<1>3. FlattenSeq(win) \in Seq(Bit)
  BY <1>2, FlattenTypes
<1>. QED
  BY <1>2, <1>3, ConcatProperties DEF Rest

\* When bits leave the buffer, the rest is a suffix of what it was.
LEMMA RestDrops ==
  ASSUME Buffers, NEW b \in Seq(Bit), bitbuf' \in Seq(Bit), bitbuf = b \o bitbuf', win' = win
  PROVE  ReadInOrder
<1>1. FlattenSeq(win) \in Seq(Bit)
  BY RestTypes DEF Buffers
<1>. PICK unread : unread = FlattenSeq(win)
  OBVIOUS
<1>. PICK after : after = bitbuf'
  OBVIOUS
<1>2. (b \o after) \o unread = b \o (after \o unread)
  BY <1>1, ConcatAssociative
<1>3. IsSuffix(after \o unread, b \o (after \o unread))
  <2>1. after \o unread \in Seq(Bit)
    BY <1>1, ConcatProperties
  <2>. QED
    BY <2>1, SuffixIs
<1>4. Rest = b \o (after \o unread) /\ Rest' = after \o unread
  BY <1>2 DEF Rest
<1>. QED
  BY <1>3, <1>4 DEF ReadInOrder

\* Nothing is read and nothing written.
LEMMA RestStays ==
  ASSUME Buffers, Rest' = Rest
  PROVE  ReadInOrder
<1>1. Rest \in Seq(Bit)
  BY RestTypes DEF Buffers
<1>2. Len(Rest) \in Nat
  BY <1>1, LenProperties
<1>. HIDE DEF Rest
<1>3. IsPrefix(Rest, Rest)
  BY <1>1, <1>2, PrefixIs
<1>. QED
  BY <1>3 DEF ReadInOrder

LEMMA OutStays ==
  ASSUME Buffers, out' = out
  PROVE  WrittenOnce
<1>1. out \in Seq(Nat) /\ Len(out) \in Nat /\ Len(out) <= OutLen
  BY LenProperties DEF Buffers
<1>2. IsPrefix(out, out)
  BY <1>1, PrefixIs
<1>. QED
  BY <1>1, <1>2 DEF WrittenOnce

\* A part of the bits as a number.
LEMMA FieldIs ==
  ASSUME NEW b \in Seq(Bit), NEW m \in Nat, m # 0, NEW n \in Nat, n <= Len(b)
  PROVE  Value(SubSeq(b, m, n)) \in Nat
<1>1. Len(b) \in Nat /\ \A i \in 1..Len(b) : b[i] \in Bit
  BY LenProperties, ElementOfSeq
<1>2. \A i \in m..n : b[i] \in Bit
  BY <1>1
<1>. DEFINE part == SubSeq(b, m, n)
<1>3. part \in Seq(Bit)
  BY <1>2, SubSeqProperties
<1>. HIDE DEF part
<1>4. Value(part) \in Nat
  BY <1>3, ValueIs
<1>. QED
  BY <1>4 DEF part

\* bits(need) leaves less than a byte, correctly counted.
LEMMA BitsRead ==
  ASSUME PuffInv, NEW where \in {"block", "counts", "clengths", "repeat", "lextra", "dextra"}, Read(where)
  PROVE  /\ bitbuf' \in Seq(Bit) /\ bitcnt' \in Nat /\ bitcnt' = Len(bitbuf') /\ bitcnt' < ByteBits
         /\ win' = win /\ Need \in Nat /\ Need <= Len(bitbuf) /\ Field \in Nat
         /\ ReadInOrder
<1>1. pc # "done" /\ ~Decoding /\ pc = where
  BY DEF Read, Decoding
<1>2. bitcnt = Len(bitbuf) /\ Need \in Nat /\ bitcnt < ByteBits + Need /\ bitcnt \in Nat /\ bitbuf \in Seq(Bit)
  BY <1>1 DEF PuffInv, Buffers, Counted
<1>3. bitcnt >= Need /\ bitbuf' = Drop(bitbuf, Need) /\ bitcnt' = bitcnt - Need /\ win' = win
  BY DEF Read
<1>. PICK need : need = Need
  OBVIOUS
<1>4. /\ Take(bitbuf, need) \in Seq(Bit) /\ bitbuf' \in Seq(Bit) /\ Len(bitbuf') = Len(bitbuf) - need
      /\ bitbuf = Take(bitbuf, need) \o bitbuf'
  BY <1>2, <1>3, DropIs
<1>5. ReadInOrder
  BY <1>3, <1>4, RestDrops DEF PuffInv
<1>6. Field \in Nat
  <2>1. Value(Take(bitbuf, need)) \in Nat
    BY <1>4, ValueIs
  <2>. QED
    BY <2>1 DEF Field
<1>7. bitcnt' \in Nat /\ bitcnt' = Len(bitbuf') /\ bitcnt' < ByteBits
  BY <1>2, <1>3, <1>4, ByteIs
<1>. QED
  BY <1>2, <1>3, <1>4, <1>5, <1>6, <1>7

\* decode() leaves less than a byte, correctly counted.
LEMMA BitsDecoded ==
  ASSUME PuffInv, NEW where \in {"codelength", "symbol", "distance"}, Decoded(where)
  PROVE  /\ bitbuf' \in Seq(Bit) /\ bitcnt' \in Nat /\ bitcnt' = Len(bitbuf') /\ bitcnt' < ByteBits
         /\ win' = win /\ ReadInOrder
<1>1. Decoding /\ d.left > 0 /\ bitbuf' = Drop(bitbuf, 1) /\ bitcnt' = (bitcnt - d.len) % ByteBits /\ win' = win
  BY DEF Decoded, Decoding, BitcntAfter
<1>2. /\ d.left \in Nat /\ d.len \in Nat /\ bitbuf \in Seq(Bit) /\ bitcnt \in Nat /\ Len(bitbuf) \in Nat
      /\ Len(bitbuf) <= ByteBits /\ d.left <= Len(bitbuf)
  BY <1>1, LenProperties DEF PuffInv, Buffers, Partial
<1>3. PICK k \in Int : bitcnt - d.len + 1 + ByteBits * k = Len(bitbuf)
  BY <1>1 DEF PuffInv, Partial
<1>4. /\ Take(bitbuf, 1) \in Seq(Bit) /\ bitbuf' \in Seq(Bit) /\ Len(bitbuf') = Len(bitbuf) - 1
      /\ bitbuf = Take(bitbuf, 1) \o bitbuf'
  <2>1. \A m \in Nat : m <= Len(bitbuf) =>
          /\ Take(bitbuf, m) \in Seq(Bit) /\ Drop(bitbuf, m) \in Seq(Bit) /\ Len(Drop(bitbuf, m)) = Len(bitbuf) - m
          /\ bitbuf = Take(bitbuf, m) \o Drop(bitbuf, m)
    BY <1>2, DropIs
  <2>2. 1 \in Nat /\ 1 <= Len(bitbuf)
    BY <1>1, <1>2
  <2>. QED
    BY <1>1, <2>1, <2>2
<1>5. ReadInOrder
  BY <1>1, <1>4, RestDrops DEF PuffInv
<1>. DEFINE n == bitcnt - d.len
            r == Len(bitbuf) - 1
<1>6. n \in Int /\ r \in 0..ByteBits - 1 /\ n + ByteBits * k = r /\ ByteBits \in Nat \ {0}
  BY <1>1, <1>2, <1>3, ByteIs
<1>7. n % ByteBits = r
  <2>. HIDE DEF n, r
  <2>. QED
    BY <1>6, PartOfByte
<1>. QED
  BY <1>1, <1>2, <1>4, <1>5, <1>6, <1>7

\* A decoder that begins holds part of a byte and has used nothing.
LEMMA GotoKeeps ==
  ASSUME bitbuf' \in Seq(Bit), bitcnt' = Len(bitbuf'), bitcnt' \in Nat, bitcnt' < ByteBits,
         NEW next, Goto(next), Need' \in Nat, Tables'
  PROVE  /\ Counted' /\ Partial' /\ Codes'
         /\ d' \in [len : 1..MaxBits + 1, code : Nat, first : Nat, index : Nat, left : Nat]
<1>1. MaxBits \in Nat /\ MaxBits # 0 /\ ByteBits \in Nat /\ ByteBits <= MaxBits + 1
  BY Sizes, ByteIs
<1>2. pc' = next /\ d' = IF Decoding' THEN [len |-> 1, code |-> 0, first |-> 0, index |-> 0, left |-> bitcnt'] ELSE Idle
  BY DEF Goto, Decoding, Idle
<1>3. Counted'
  BY <1>1 DEF Counted
<1>4. Partial'
  <2>. SUFFICES ASSUME Decoding' PROVE Partial'
    BY DEF Partial
  <2>1. d'.len = 1 /\ d'.left = bitcnt'
    BY <1>2
  <2>2. bitcnt' - d'.len + 1 + ByteBits * 0 = Len(bitbuf')
    BY <1>1, <2>1
  <2>3. /\ Len(bitbuf') <= ByteBits /\ d'.left <= Len(bitbuf') /\ d'.left + d'.len <= MaxBits + 1
        /\ Len(bitbuf') = d'.left
    BY <1>1, <2>1
  <2>. QED
    BY <2>2, <2>3 DEF Partial
<1>5. Codes'
  <2>. SUFFICES ASSUME Decoding' PROVE Codes'
    BY DEF Codes
  <2>1. d'.len = 1 /\ d'.index = 0 /\ d'.first = 0 /\ d'.code = 0
    BY <1>2
  <2>. PICK table : table = Table'
    OBVIOUS
  <2>2. Shorter(table, 1) = {}
    BY DEF Shorter
  <2>3. Cardinality(Shorter(table, 1)) = 0
    BY <2>2, FS_EmptySet
  <2>4. \E k \in Nat : table \in [0..k - 1 -> Nat]
    <3>1. \E m \in Nat : LengthTable(table, m)
      <4>1. pc' \in {"codelength", "symbol"} => table = lencode' /\ \E m \in Nat : LengthTable(lencode', m)
        <5>1. MaxBits + 4 \in Nat
          BY <1>1
        <5>. QED
          BY <5>1 DEF Tables, Table
      <4>2. pc' = "distance" => table = distcode' /\ MaxDCodes \in Nat /\ LengthTable(distcode', MaxDCodes)
        BY Sizes DEF Tables, Table
      <4>. QED
        BY <4>1, <4>2 DEF Decoding
    <3>2. PICK m \in Nat : LengthTable(table, m)
      BY <3>1
    <3>3. PICK k \in 0..m : table \in [0..k - 1 -> 0..MaxBits]
      BY <3>2 DEF LengthTable
    <3>4. k \in Nat
      OBVIOUS
    <3>5. table \in [0..k - 1 -> Nat]
      BY <1>1, <3>3
    <3>. QED
      BY <3>4, <3>5
  <2>5. FirstCode(table, 1) = 0
    BY <2>4, FirstCodes
  <2>. QED
    BY <2>1, <2>3, <2>5 DEF Codes
<1>. QED
  BY <1>1, <1>2, <1>3, <1>4, <1>5 DEF Idle

\* Nothing is expected of a puff_stream() that has returned.
LEMMA ReturnKeeps ==
  ASSUME NEW e, Return(e)
  PROVE  /\ Counted' /\ Partial' /\ Codes' /\ Fields' /\ Tables'
         /\ d' \in [len : 1..MaxBits + 1, code : Nat, first : Nat, index : Nat, left : Nat]
<1>1. pc' = "done" /\ d' = Idle
  BY DEF Return
<1>2. ~Decoding'
  BY <1>1 DEF Decoding
<1>. QED
  BY <1>1, <1>2, Sizes DEF Counted, Partial, Codes, Fields, Tables, Idle

\* The table that decode() is given.
LEMMA TableIs ==
  ASSUME Tables, Decoding
  PROVE  /\ \E k \in Nat : Table \in [0..k - 1 -> 0..MaxBits]
         /\ pc = "codelength" => \E k \in 0..MaxBits + 4 : Table \in [0..k - 1 -> 0..MaxBits]
         /\ pc = "distance" => \E k \in 0..MaxDCodes : Table \in [0..k - 1 -> 0..MaxBits]
<1>1. CASE pc = "codelength"
  <2>1. Table = lencode /\ LengthTable(lencode, MaxBits + 4)
    BY <1>1 DEF Tables, Table
  <2>2. PICK k \in 0..MaxBits + 4 : Table \in [0..k - 1 -> 0..MaxBits]
    BY <2>1 DEF LengthTable
  <2>3. k \in Nat
    BY Sizes
  <2>. QED
    BY <1>1, <2>2, <2>3
<1>2. CASE pc = "symbol"
  <2>1. PICK m \in Nat : LengthTable(lencode, m)
    BY <1>2 DEF Tables
  <2>2. PICK k \in 0..m : lencode \in [0..k - 1 -> 0..MaxBits]
    BY <2>1 DEF LengthTable
  <2>3. k \in Nat /\ Table = lencode
    BY <1>2 DEF Table
  <2>. QED
    BY <1>2, <2>2, <2>3
<1>3. CASE pc = "distance"
  <2>1. Table = distcode /\ LengthTable(distcode, MaxDCodes)
    BY <1>3 DEF Tables, Table
  <2>2. PICK k \in 0..MaxDCodes : Table \in [0..k - 1 -> 0..MaxBits]
    BY <2>1 DEF LengthTable
  <2>3. k \in Nat
    BY Sizes
  <2>. QED
    BY <1>3, <2>2, <2>3
<1>. QED
  BY <1>1, <1>2, <1>3 DEF Decoding

\* The code read so far, and how many codes of its length there are.
LEMMA CodeTypes ==
  ASSUME Buffers, Partial, Decoding, d.left > 0, NEW k \in Nat, Table \in [0..k - 1 -> 0..MaxBits]
  PROVE  CodeNow \in Nat /\ CodeNow >= d.code /\ CountNow \in Nat /\ d.len \in 1..MaxBits
<1>1. d.left \in Nat /\ d.len \in 1..MaxBits + 1 /\ d.code \in Nat /\ d.left + d.len <= MaxBits + 1
  BY DEF Buffers, Partial
<1>2. d.len \in 1..MaxBits /\ d.len \in Nat
  BY <1>1, Sizes
<1>3. NextBit \in Bit
  <2>1. bitbuf # <<>> => 1 \in 1..Len(bitbuf)
    BY LenProperties, EmptySeq DEF Buffers
  <2>2. bitbuf # <<>> => bitbuf[1] \in Bit
    BY <2>1, ElementOfSeq DEF Buffers
  <2>. QED
    BY <2>2 DEF NextBit, Bit
<1>4. CountNow \in Nat
  <2>1. Table \in [0..k - 1 -> Nat]
    BY Sizes
  <2>. QED
    BY <1>2, <2>1, Shorters DEF CountNow
<1>. QED
  BY <1>1, <1>2, <1>3, <1>4 DEF CodeNow, Bit

\* A match names a symbol of the table.
LEMMA SymbolIs ==
  ASSUME Buffers, Partial, Codes, Decoding, d.left > 0, Matches, NEW k \in Nat, Table \in [0..k - 1 -> 0..MaxBits]
  PROVE  Symbol \in 0..k - 1
<1>1. CodeNow \in Nat /\ CodeNow >= d.code /\ CountNow \in Nat /\ d.len \in 1..MaxBits
  BY CodeTypes
<1>2. d.first \in Nat /\ d.first <= d.code /\ d.code \in Nat /\ d.index = Cardinality(Shorter(Table, d.len))
  BY DEF Buffers, Codes
<1>. PICK r : r = CodeNow - d.first
  OBVIOUS
<1>3. r \in Nat /\ r < CountOf(Table, d.len)
  BY <1>1, <1>2 DEF Matches, CountNow
<1>4. SymbolAt(Table, Cardinality(Shorter(Table, d.len)) + r) \in 0..k - 1
  <2>1. Table \in [0..k - 1 -> Nat]
    BY Sizes
  <2>. QED
    BY <1>1, <1>3, <2>1, SymbolFound
<1>5. d.index \in Nat /\ d.index + CodeNow - d.first = Cardinality(Shorter(Table, d.len)) + r
  BY <1>1, <1>2 DEF Buffers
<1>. QED
  BY <1>4, <1>5 DEF Symbol

\* More bytes arrive at the end of the window.
LEMMA RefillKeeps ==
  ASSUME PuffInv, Refill
  PROVE  PuffInv' /\ ReadInOrder /\ WrittenOnce
<1>1. PICK n \in Pieces : \E new \in [1..n -> Byte] : win' = win \o new
  BY DEF Refill
<1>2. PICK new \in [1..n -> Byte] : win' = win \o new
  BY <1>1
<1>3. UNCHANGED <<bitbuf, bitcnt, out, pc, err, last, lencode, distcode, lengths, nlen, ndist, len, d>>
  BY DEF Refill, tables
<1>4. n \in Nat
  BY FormatAssumption
<1>5. new \in Seq(Byte)
  BY <1>4, IsASeq
<1>6. win \in Seq(Byte) /\ bitbuf \in Seq(Bit)
  BY DEF PuffInv, Buffers
<1>7. win' \in Seq(Byte)
  BY <1>2, <1>5, <1>6, ConcatProperties
<1>8. PuffInv'
  <2>1. Buffers'
    BY <1>3, <1>7 DEF PuffInv, Buffers
  <2>2. Counted'
    BY <1>3 DEF PuffInv, Counted, Decoding, Need, Extra
  <2>3. Partial'
    BY <1>3 DEF PuffInv, Partial, Decoding
  <2>4. Codes'
    BY <1>3 DEF PuffInv, Codes, Decoding, Table
  <2>5. Fields' /\ Tables'
    BY <1>3 DEF PuffInv, Fields, Tables
  <2>. QED
    BY <2>1, <2>2, <2>3, <2>4, <2>5 DEF PuffInv
<1>9. ReadInOrder
  <2>1. Byte \subseteq Seq(Bit)
    BY ByteIs
  <2>2. win \in Seq(Seq(Bit)) /\ new \in Seq(Seq(Bit))
    BY <1>5, <1>6, <2>1, SeqMonotonic
  <2>. PICK more : more = FlattenSeq(new)
    OBVIOUS
  <2>. PICK unread : unread = FlattenSeq(win)
    OBVIOUS
  <2>3. more \in Seq(Bit) /\ unread \in Seq(Bit)
    BY <2>2, FlattenTypes
  <2>4. FlattenSeq(win \o new) = unread \o more
    BY <2>2, FlattenConcat
  <2>5. Rest' = bitbuf \o (unread \o more) /\ Rest = bitbuf \o unread
    BY <1>2, <1>3, <2>4 DEF Rest
  <2>6. bitbuf \o (unread \o more) = (bitbuf \o unread) \o more
    BY <1>6, <2>3, ConcatAssociative
  <2>. PICK all : all = bitbuf \o unread
    OBVIOUS
  <2>7. all \in Seq(Bit)
    BY <1>6, <2>3, ConcatProperties
  <2>8. IsPrefix(all, all \o more)
    <3>1. /\ all \o more \in Seq(Bit) /\ Len(all \o more) = Len(all) + Len(more)
          /\ \A i \in 1..Len(all) + Len(more) : (all \o more)[i] = IF i <= Len(all) THEN all[i] ELSE more[i - Len(all)]
      BY <2>3, <2>7, ConcatProperties
    <3>2. Len(all) \in Nat /\ Len(more) \in Nat
      BY <2>3, <2>7, LenProperties
    <3>3. \A i \in 1..Len(all) : (all \o more)[i] = all[i]
      BY <3>1, <3>2
    <3>4. Len(all) <= Len(all \o more)
      BY <3>1, <3>2
    <3>. QED
      BY <2>7, <3>1, <3>3, <3>4, PrefixIs
  <2>. QED
    BY <2>5, <2>6, <2>8 DEF ReadInOrder
<1>. QED
  BY <1>3, <1>8, <1>9, OutStays DEF PuffInv

\* Nothing arrives.
LEMMA StarveKeeps ==
  ASSUME PuffInv, Starve
  PROVE  PuffInv' /\ ReadInOrder /\ WrittenOnce
<1>1. UNCHANGED <<bitbuf, bitcnt, win, out>> /\ Return(2)
  BY DEF Starve, reader
<1>2. Rest' = Rest
  BY <1>1 DEF Rest
<1>. QED
  BY <1>1, <1>2, ReturnKeeps, RestStays, OutStays DEF PuffInv, Buffers

\* No symbol has the bits that were read.
LEMMA RunOutKeeps ==
  ASSUME PuffInv, RunOut
  PROVE  PuffInv' /\ ReadInOrder /\ WrittenOnce
<1>1. UNCHANGED <<bitbuf, bitcnt, win, out>> /\ Return(-10)
  BY DEF RunOut, reader
<1>2. Rest' = Rest
  BY <1>1 DEF Rest
<1>. QED
  BY <1>1, <1>2, ReturnKeeps, RestStays, OutStays DEF PuffInv, Buffers

\* The first byte of the window in front of the others, as bits.
LEMMA HeadByte ==
  ASSUME win \in Seq(Byte), win # <<>>
  PROVE  /\ Head(win) \in Byte /\ Head(win) \in Seq(Bit) /\ Len(Head(win)) = ByteBits
         /\ Tail(win) \in Seq(Byte) /\ FlattenSeq(Tail(win)) \in Seq(Bit)
         /\ FlattenSeq(win) = Head(win) \o FlattenSeq(Tail(win))
<1>1. Head(win) \in Byte /\ Tail(win) \in Seq(Byte) /\ win = <<Head(win)>> \o Tail(win)
  <2>1. Head(win) \in Byte /\ Tail(win) \in Seq(Byte)
    BY HeadTailProperties
  <2>2. Len(win) \in Nat /\ Len(win) # 0
    BY LenProperties, EmptySeq
  <2>3. 1 \in 1..Len(win) /\ Len(win) \in 1..Len(win)
    BY <2>2
  <2>4. SubSeq(win, 1, Len(win)) = <<win[1]>> \o SubSeq(win, 1 + 1, Len(win))
    BY <2>3, SubSeqRecursiveFirst
  <2>5. SubSeq(win, 1, Len(win)) = win /\ Tail(win) = SubSeq(win, 2, Len(win)) /\ Head(win) = win[1]
    BY SubSeqFull, TailIsSubSeq
  <2>. QED
    BY <2>1, <2>4, <2>5
<1>2. Head(win) \in Seq(Bit) /\ Len(Head(win)) = ByteBits
  BY <1>1, ByteIs
<1>. PICK one : one = <<Head(win)>>
  OBVIOUS
<1>. PICK unread : unread = Tail(win)
  OBVIOUS
<1>3. one \in Seq(Byte)
  BY <1>1
<1>4. one \in Seq(Seq(Bit)) /\ unread \in Seq(Seq(Bit))
  <2>1. Byte \subseteq Seq(Bit)
    BY ByteIs
  <2>. QED
    BY <1>1, <1>3, <2>1, SeqMonotonic
<1>5. FlattenSeq(win) = FlattenSeq(one) \o FlattenSeq(unread)
  BY <1>1, <1>4, FlattenConcat
<1>6. FlattenSeq(one) = Head(win)
  <2>1. <<>> \in Seq(Seq(Bit)) /\ one = Append(<<>>, Head(win))
    BY <1>2, EmptySeq
  <2>2. FlattenSeq(one) = FlattenSeq(<<>>) \o Head(win)
    BY <1>2, <2>1, FlattenAppend
  <2>3. FlattenSeq(<<>>) = <<>>
    BY DEF FlattenSeq
  <2>. QED
    BY <1>2, <2>2, <2>3, ConcatEmptySeq
<1>. QED
  BY <1>1, <1>2, <1>4, <1>5, <1>6, FlattenTypes

\* bits() takes a byte.
LEMMA LoadByteKeeps ==
  ASSUME PuffInv, LoadByte
  PROVE  PuffInv' /\ ReadInOrder /\ WrittenOnce
<1>1. /\ Reading /\ bitcnt < Need /\ win # <<>> /\ bitbuf' = bitbuf \o Head(win)
      /\ bitcnt' = bitcnt + ByteBits /\ win' = Tail(win)
      /\ UNCHANGED <<out, pc, err, last, lencode, distcode, lengths, nlen, ndist, len, d>>
  BY DEF LoadByte, tables
<1>2. ~Decoding /\ ~Decoding' /\ pc # "done"
  BY <1>1 DEF Reading, Decoding
<1>3. win \in Seq(Byte) /\ bitbuf \in Seq(Bit) /\ bitcnt \in Nat /\ bitcnt = Len(bitbuf) /\ Need \in Nat
  BY <1>2 DEF PuffInv, Buffers, Counted
<1>4. /\ Head(win) \in Seq(Bit) /\ Len(Head(win)) = ByteBits /\ Tail(win) \in Seq(Byte)
      /\ FlattenSeq(Tail(win)) \in Seq(Bit) /\ FlattenSeq(win) = Head(win) \o FlattenSeq(Tail(win))
  BY <1>1, <1>3, HeadByte
<1>a. PICK head : head = Head(win)
  OBVIOUS
<1>b. PICK unread : unread = FlattenSeq(Tail(win))
  OBVIOUS
<1>5. bitbuf' \in Seq(Bit) /\ Len(bitbuf') = bitcnt' /\ bitcnt' \in Nat
  <2>1. bitbuf \o head \in Seq(Bit) /\ Len(bitbuf \o head) = Len(bitbuf) + Len(head)
    BY <1>3, <1>4, <1>a, ConcatProperties
  <2>2. Len(head) = ByteBits /\ bitbuf' = bitbuf \o head
    BY <1>1, <1>4, <1>a
  <2>3. Len(bitbuf') = bitcnt + ByteBits
    BY <1>3, <2>1, <2>2
  <2>4. bitcnt + ByteBits \in Nat
    BY <1>3, ByteIs
  <2>. QED
    BY <1>1, <2>1, <2>2, <2>3, <2>4
<1>6. Need' = Need
  BY <1>1 DEF Need, Extra
<1>7. PuffInv'
  <2>1. Buffers'
    BY <1>1, <1>4, <1>5 DEF PuffInv, Buffers
  <2>2. Counted'
    BY <1>1, <1>3, <1>5, <1>6, ByteIs DEF Counted
  <2>3. Partial' /\ Codes'
    BY <1>2 DEF Partial, Codes
  <2>4. Fields' /\ Tables'
    BY <1>1, <1>2 DEF PuffInv, Fields, Tables, Decoding, Reading
  <2>. QED
    BY <2>1, <2>2, <2>3, <2>4 DEF PuffInv
<1>8. Rest' = Rest
  <2>1. Rest' = (bitbuf \o head) \o unread /\ Rest = bitbuf \o (head \o unread)
    BY <1>1, <1>4, <1>a, <1>b DEF Rest
  <2>2. head \in Seq(Bit) /\ unread \in Seq(Bit) /\ bitbuf \in Seq(Bit)
    BY <1>3, <1>4, <1>a, <1>b
  <2>3. (bitbuf \o head) \o unread = bitbuf \o (head \o unread)
    BY <2>2, ConcatAssociative
  <2>. QED
    BY <2>1, <2>3
<1>. QED
  BY <1>1, <1>7, <1>8, RestStays, OutStays DEF PuffInv

\* decode() takes a byte, all of the last one used.
LEMMA DecodeByteKeeps ==
  ASSUME PuffInv, DecodeByte
  PROVE  PuffInv' /\ ReadInOrder /\ WrittenOnce
<1>1. /\ Decoding /\ d.left = 0 /\ d.len <= MaxBits /\ win # <<>> /\ bitbuf' = Head(win) /\ win' = Tail(win)
      /\ d' = [d EXCEPT !.left = Min({ByteBits, MaxBits + 1 - d.len})]
      /\ UNCHANGED <<bitcnt, out, pc, err, last, lencode, distcode, lengths, nlen, ndist, len>>
  BY DEF DecodeByte, tables
<1>2. Decoding'
  BY <1>1 DEF Decoding
<1>3. /\ win \in Seq(Byte) /\ bitbuf \in Seq(Bit) /\ bitcnt \in Nat
      /\ d \in [len : 1..MaxBits + 1, code : Nat, first : Nat, index : Nat, left : Nat]
  BY DEF PuffInv, Buffers
<1>4. /\ Head(win) \in Seq(Bit) /\ Len(Head(win)) = ByteBits /\ Tail(win) \in Seq(Byte)
      /\ FlattenSeq(Tail(win)) \in Seq(Bit) /\ FlattenSeq(win) = Head(win) \o FlattenSeq(Tail(win))
  BY <1>1, <1>3, HeadByte
<1>. PICK room : room = MaxBits + 1 - d.len
  OBVIOUS
<1>. PICK left : left = Min({ByteBits, room})
  OBVIOUS
<1>5. room \in Nat /\ MaxBits \in Nat /\ ByteBits \in Nat /\ d.len \in Nat /\ room + d.len = MaxBits + 1
  <2>1. d.len \in 1..MaxBits + 1 /\ MaxBits \in Nat /\ ByteBits \in Nat
    BY <1>3, ByteIs, Sizes
  <2>. QED
    BY <1>1, <2>1
<1>6. left \in {ByteBits, room} /\ left <= ByteBits /\ left <= room
  BY <1>5, LeastIn
<1>7. d' = [d EXCEPT !.left = left] /\ left \in Nat
  BY <1>1, <1>5, <1>6
<1>8. d'.left = left /\ d'.len = d.len /\ d'.code = d.code /\ d'.first = d.first /\ d'.index = d.index
  BY <1>3, <1>7
<1>9. bitbuf = <<>>
  <2>1. Len(bitbuf) = 0
    BY <1>1, <1>3, <1>5 DEF PuffInv, Partial
  <2>. QED
    BY <1>3, <2>1, EmptySeq
<1>10. Partial'
  <2>1. PICK k \in Int : bitcnt - d.len + 1 + ByteBits * k = Len(bitbuf)
    BY <1>1 DEF PuffInv, Partial
  <2>2. Len(bitbuf) = 0
    BY <1>9
  <2>3. k + 1 \in Int /\ bitcnt' - d'.len + 1 + ByteBits * (k + 1) = Len(bitbuf')
    <3>0. PICK b : b = ByteBits * k
      OBVIOUS
    <3>1. ByteBits * (k + 1) = b + ByteBits /\ b \in Int /\ bitcnt - d.len + 1 + b = 0
      BY <1>5, <2>1, <2>2, <3>0
    <3>2. bitcnt' = bitcnt /\ d'.len = d.len /\ Len(bitbuf') = ByteBits
      BY <1>1, <1>4, <1>8
    <3>3. bitcnt - d.len + 1 + (b + ByteBits) = ByteBits
      <4>1. bitcnt \in Nat /\ d.len \in Nat /\ ByteBits \in Nat
        BY <1>3, <1>5
      <4>2. b \in Int /\ bitcnt - d.len + 1 + b = 0
        BY <3>1
      <4>. QED
        BY <4>1, <4>2
    <3>. QED
      BY <3>1, <3>2, <3>3
  <2>4. /\ Len(bitbuf') <= ByteBits /\ d'.left <= Len(bitbuf') /\ d'.left + d'.len <= MaxBits + 1
        /\ Len(bitbuf') = d'.left \/ d'.left + d'.len = MaxBits + 1
    BY <1>1, <1>4, <1>5, <1>6, <1>8
  <2>. QED
    BY <2>3, <2>4 DEF Partial
<1>11. PuffInv'
  <2>1. Buffers'
    BY <1>1, <1>3, <1>4, <1>7 DEF PuffInv, Buffers
  <2>2. Counted'
    BY <1>2 DEF Counted
  <2>3. Codes'
    BY <1>1, <1>8 DEF PuffInv, Codes, Decoding, Table
  <2>4. Fields' /\ Tables'
    BY <1>1, <1>2 DEF PuffInv, Fields, Tables, Decoding, Reading
  <2>. QED
    BY <1>10, <2>1, <2>2, <2>3, <2>4 DEF PuffInv
<1>12. Rest' = Rest
  <2>1. Rest = FlattenSeq(win)
    BY <1>1, <1>3, <1>9, RestTypes, ConcatEmptySeq DEF Rest
  <2>. QED
    BY <1>1, <1>4, <2>1 DEF Rest
<1>. QED
  BY <1>1, <1>11, <1>12, RestStays, OutStays DEF PuffInv

\* decode() goes on to codes one bit longer.
LEMMA DecodeBitKeeps ==
  ASSUME PuffInv, DecodeBit
  PROVE  PuffInv' /\ ReadInOrder /\ WrittenOnce
<1>1. /\ Decoding /\ d.left > 0 /\ ~Matches /\ bitbuf' = Drop(bitbuf, 1)
      /\ d' = [len |-> d.len + 1, code |-> 2 * CodeNow, first |-> 2 * (d.first + CountNow),
               index |-> d.index + CountNow, left |-> d.left - 1]
      /\ UNCHANGED <<bitcnt, win, out, pc, err, last, lencode, distcode, lengths, nlen, ndist, len>>
  BY DEF DecodeBit, tables
<1>2. Decoding' /\ Table' = Table
  BY <1>1 DEF Decoding, Table
<1>3. /\ bitbuf \in Seq(Bit) /\ Len(bitbuf) \in Nat /\ bitcnt \in Nat /\ MaxBits \in Nat
      /\ d.left \in Nat /\ d.len \in Nat /\ d.first \in Nat /\ d.index \in Nat /\ d.code \in Nat
  BY LenProperties, Sizes DEF PuffInv, Buffers
<1>b. PICK k \in Nat : Table \in [0..k - 1 -> 0..MaxBits]
  BY <1>1, TableIs DEF PuffInv
<1>4. Table \in [0..k - 1 -> Nat]
  BY <1>3, <1>b
<1>5. CodeNow \in Nat /\ CodeNow >= d.code /\ CountNow \in Nat /\ d.len \in 1..MaxBits
  BY <1>1, <1>b, CodeTypes DEF PuffInv
<1>6. /\ Take(bitbuf, 1) \in Seq(Bit) /\ bitbuf' \in Seq(Bit) /\ Len(bitbuf') = Len(bitbuf) - 1
      /\ bitbuf = Take(bitbuf, 1) \o bitbuf'
  <2>1. \A m \in Nat : m <= Len(bitbuf) =>
          /\ Take(bitbuf, m) \in Seq(Bit) /\ Drop(bitbuf, m) \in Seq(Bit) /\ Len(Drop(bitbuf, m)) = Len(bitbuf) - m
          /\ bitbuf = Take(bitbuf, m) \o Drop(bitbuf, m)
    BY <1>3, DropIs
  <2>2. 1 \in Nat /\ 1 <= Len(bitbuf)
    BY <1>1, <1>3 DEF PuffInv, Partial
  <2>. QED
    BY <1>1, <2>1, <2>2
<1>a. /\ d'.len = d.len + 1 /\ d'.code = 2 * CodeNow /\ d'.first = 2 * (d.first + CountNow)
      /\ d'.index = d.index + CountNow /\ d'.left = d.left - 1
  BY <1>1
<1>7. Buffers'
  <2>1. d.len + 1 \in 1..MaxBits + 1 /\ d.left - 1 \in Nat
    <3>1. MaxBits \in Nat /\ d.len \in 1..MaxBits /\ d.left \in Nat /\ d.left > 0
      BY <1>1, <1>3, <1>5
    <3>. QED
      BY <3>1
  <2>2. 2 * CodeNow \in Nat /\ 2 * (d.first + CountNow) \in Nat /\ d.index + CountNow \in Nat
    BY <1>3, <1>5
  <2>3. d' \in [len : 1..MaxBits + 1, code : Nat, first : Nat, index : Nat, left : Nat]
    BY <1>1, <2>1, <2>2
  <2>. QED
    BY <1>1, <1>6, <2>3 DEF PuffInv, Buffers
<1>8. Partial'
  <2>1. PICK j \in Int : bitcnt - d.len + 1 + ByteBits * j = Len(bitbuf)
    BY <1>1 DEF PuffInv, Partial
  <2>2. bitcnt' - d'.len + 1 + ByteBits * j = Len(bitbuf')
    <3>0. PICK b : b = ByteBits * j
      OBVIOUS
    <3>1. b \in Int /\ bitcnt - d.len + 1 + b = Len(bitbuf)
      BY <2>1, <3>0, ByteIs
    <3>. QED
      <4>1. bitcnt \in Nat /\ d.len \in Nat /\ Len(bitbuf) \in Nat /\ bitcnt' = bitcnt
        BY <1>1, <1>3
      <4>2. d'.len = d.len + 1 /\ Len(bitbuf') = Len(bitbuf) - 1
        BY <1>6, <1>a
      <4>3. bitcnt - (d.len + 1) + 1 + b = Len(bitbuf) - 1
        BY <3>1, <4>1
      <4>. QED
        BY <3>0, <4>1, <4>2, <4>3
  <2>3. /\ Len(bitbuf') <= ByteBits /\ d'.left <= Len(bitbuf') /\ d'.left + d'.len <= MaxBits + 1
        /\ Len(bitbuf') = d'.left \/ d'.left + d'.len = MaxBits + 1
    <3>1. /\ Len(bitbuf) <= ByteBits /\ d.left <= Len(bitbuf) /\ d.left + d.len <= MaxBits + 1
          /\ Len(bitbuf) = d.left \/ d.left + d.len = MaxBits + 1
      BY <1>1 DEF PuffInv, Partial
    <3>2. ByteBits \in Nat
      BY ByteIs
    <3>. PICK n : n = Len(bitbuf')
      OBVIOUS
    <3>3. n = Len(bitbuf) - 1 /\ n \in Int
      BY <1>3, <1>6
    <3>. QED
      BY <1>3, <1>a, <3>1, <3>2, <3>3
  <2>. QED
    BY <2>2, <2>3 DEF Partial
<1>9. Codes'
  <2>1. d'.first <= d'.code
    <3>1. d.first + CountNow <= CodeNow
      BY <1>1, <1>3, <1>5 DEF Matches
    <3>. QED
      BY <1>3, <1>5, <1>a, <3>1
  <2>. PICK n : n = d.len
    OBVIOUS
  <2>2. n \in Nat /\ n # 0 /\ d'.len = n + 1
    BY <1>1, <1>5
  <2>3. Cardinality(Shorter(Table, n + 1)) = Cardinality(Shorter(Table, n)) + CountOf(Table, n)
    BY <1>4, <2>2, Shorters
  <2>4. d.index = Cardinality(Shorter(Table, n)) /\ CountNow = CountOf(Table, n)
    BY <1>1 DEF PuffInv, Codes, CountNow
  <2>5. d'.index = Cardinality(Shorter(Table', d'.len))
    BY <1>1, <1>2, <2>2, <2>3, <2>4
  <2>6. FirstCode(Table, n + 1) = 2 * (FirstCode(Table, n) + CountOf(Table, n))
    BY <1>4, <1>5, FirstCodes
  <2>7. d'.first = FirstCode(Table', d'.len)
    <3>1. d.first = FirstCode(Table, n)
      BY <1>1 DEF PuffInv, Codes
    <3>. QED
      BY <1>2, <1>a, <2>2, <2>4, <2>6, <3>1
  <2>. QED
    BY <2>1, <2>5, <2>7 DEF Codes
<1>10. Counted' /\ Fields' /\ Tables'
  BY <1>1, <1>2 DEF PuffInv, Counted, Fields, Tables, Decoding
<1>11. ReadInOrder
  BY <1>1, <1>6, RestDrops DEF PuffInv
<1>. QED
  BY <1>1, <1>7, <1>8, <1>9, <1>10, <1>11, OutStays DEF PuffInv

\* On to the next step.
LEMMA Proceeds ==
  ASSUME PuffInv, bitbuf' \in Seq(Bit), bitcnt' \in Nat, bitcnt' = Len(bitbuf'), bitcnt' < ByteBits,
         win' \in Seq(Byte), out' \in Seq(Nat), Len(out') <= OutLen,
         NEW next, Goto(next), Need' \in Nat, Fields', Tables'
  PROVE  PuffInv'
<1>1. /\ Counted' /\ Partial' /\ Codes'
      /\ d' \in [len : 1..MaxBits + 1, code : Nat, first : Nat, index : Nat, left : Nat]
  BY GotoKeeps
<1>. QED
  BY <1>1 DEF PuffInv, Buffers

\* Out of puff_stream().
LEMMA Returns ==
  ASSUME PuffInv, bitbuf' \in Seq(Bit), bitcnt' \in Nat, win' \in Seq(Byte), out' \in Seq(Nat), Len(out') <= OutLen,
         NEW e, Return(e)
  PROVE  PuffInv'
<1>1. /\ Counted' /\ Partial' /\ Codes' /\ Fields' /\ Tables'
      /\ d' \in [len : 1..MaxBits + 1, code : Nat, first : Nat, index : Nat, left : Nat]
  BY ReturnKeeps
<1>. QED
  BY <1>1 DEF PuffInv, Buffers

\* The end of a block: what the next one begins with, or nothing.
LEMMA EndBlockKeeps ==
  ASSUME PuffInv, bitbuf' \in Seq(Bit), bitcnt' \in Nat, bitcnt' = Len(bitbuf'), bitcnt' < ByteBits,
         win' \in Seq(Byte), out' = out, EndBlock
  PROVE  PuffInv'
<1>1. out' \in Seq(Nat) /\ Len(out') <= OutLen
  BY DEF PuffInv, Buffers
<1>2. CASE last
  BY <1>1, <1>2, Returns DEF EndBlock
<1>3. CASE ~last
  <2>1. Goto("block") /\ pc' = "block"
    BY <1>3 DEF EndBlock, Goto
  <2>2. Need' \in Nat /\ Fields' /\ Tables'
    BY <2>1 DEF Need, Fields, Tables
  <2>. QED
    BY <1>1, <2>1, <2>2, Proceeds
<1>. QED
  BY <1>2, <1>3

\* The kind of block.
LEMMA BlockKeeps ==
  ASSUME PuffInv, Block
  PROVE  PuffInv' /\ ReadInOrder /\ WrittenOnce
<1>1. Read("block") /\ out' = out
  BY DEF Block
<1>2. /\ bitbuf' \in Seq(Bit) /\ bitcnt' \in Nat /\ bitcnt' = Len(bitbuf') /\ bitcnt' < ByteBits
      /\ win' = win /\ ReadInOrder
  BY <1>1, BitsRead
<1>3. win' \in Seq(Byte) /\ out' \in Seq(Nat) /\ Len(out') <= OutLen
  BY <1>1, <1>2 DEF PuffInv, Buffers
<1>4. CASE EnterStored
  <2>1. Goto("stored") /\ pc' = "stored"
    BY <1>4 DEF EnterStored, Goto
  <2>2. Need' \in Nat /\ Fields' /\ Tables'
    BY <2>1 DEF Need, Fields, Tables
  <2>. QED
    BY <1>1, <1>2, <1>3, <2>1, <2>2, Proceeds, OutStays DEF PuffInv
<1>5. CASE EnterFixed
  <2>1. /\ Goto("symbol") /\ pc' = "symbol" /\ lencode' = FixedLengths
        /\ distcode' = [s \in 0..MaxDCodes - 1 |-> FixedDistance]
    BY <1>5 DEF EnterFixed, Goto
  <2>2. LengthTable(lencode', FixLCodes) /\ FixLCodes \in Nat
    <3>1. FixedLengths \in [0..FixLCodes - 1 -> 0..MaxBits]
      BY FormatAssumption
    <3>2. FixLCodes \in 0..FixLCodes /\ FixLCodes \in Nat
      BY Sizes
    <3>. QED
      BY <2>1, <3>1, <3>2 DEF LengthTable
  <2>3. LengthTable(distcode', MaxDCodes)
    <3>1. MaxDCodes \in 0..MaxDCodes /\ FixedDistance \in 0..MaxBits
      BY Sizes, FormatAssumption
    <3>. QED
      BY <2>1, <3>1 DEF LengthTable
  <2>4. Need' \in Nat /\ Fields' /\ Tables'
    BY <2>1, <2>2, <2>3 DEF Need, Fields, Tables
  <2>. QED
    BY <1>1, <1>2, <1>3, <2>1, <2>4, Proceeds, OutStays DEF PuffInv
<1>6. CASE Goto("counts")
  <2>1. pc' = "counts"
    BY <1>6 DEF Goto
  <2>2. Need' \in Nat
    BY <2>1, Sizes DEF Need
  <2>3. Fields' /\ Tables'
    BY <2>1 DEF Fields, Tables
  <2>. QED
    BY <1>1, <1>2, <1>3, <1>6, <2>2, <2>3, Proceeds, OutStays DEF PuffInv
<1>7. CASE Return(-1)
  BY <1>1, <1>2, <1>3, <1>7, Returns, OutStays DEF PuffInv
<1>. QED
  BY <1>4, <1>5, <1>6, <1>7 DEF Block

\* Bytes leave the window and the bit buffer is empty.
LEMMA BytesLeave ==
  ASSUME PuffInv, NEW n \in Nat, n <= Len(win), win' = Drop(win, n), bitbuf' = <<>>
  PROVE  win' \in Seq(Byte) /\ ReadInOrder
<1>1. win \in Seq(Byte) /\ bitbuf \in Seq(Bit)
  BY DEF PuffInv, Buffers
<1>2. /\ Take(win, n) \in Seq(Byte)
      /\ win' \in Seq(Byte) /\ win = Take(win, n) \o win'
  BY <1>1, DropIs
<1>3. Take(win, n) \in Seq(Seq(Bit)) /\ win' \in Seq(Seq(Bit))
  <2>1. Byte \subseteq Seq(Bit)
    BY ByteIs
  <2>. QED
    BY <1>2, <2>1, SeqMonotonic
<1>a. PICK taken : taken = FlattenSeq(Take(win, n))
  OBVIOUS
<1>b. PICK unread : unread = FlattenSeq(win')
  OBVIOUS
<1>4. taken \in Seq(Bit) /\ unread \in Seq(Bit)
  BY <1>3, <1>a, <1>b, FlattenTypes
<1>5. FlattenSeq(win) = taken \o unread
  BY <1>2, <1>3, <1>a, <1>b, FlattenConcat
<1>6. Rest = (bitbuf \o taken) \o unread
  BY <1>1, <1>4, <1>5, ConcatAssociative DEF Rest
<1>7. Rest' = unread
  BY <1>4, <1>b, ConcatEmptySeq DEF Rest
<1>8. IsSuffix(unread, (bitbuf \o taken) \o unread)
  <2>1. bitbuf \o taken \in Seq(Bit)
    BY <1>1, <1>4, ConcatProperties
  <2>. QED
    BY <1>4, <2>1, SuffixIs
<1>. QED
  BY <1>2, <1>6, <1>7, <1>8 DEF ReadInOrder

\* What is in the bit buffer is dropped, and the four bytes of the length.
LEMMA StoredLengthKeeps ==
  ASSUME PuffInv, StoredLength
  PROVE  PuffInv' /\ ReadInOrder /\ WrittenOnce
<1>1. /\ pc = "stored" /\ Len(win) >= 4 /\ bitbuf' = <<>> /\ bitcnt' = 0 /\ win' = Drop(win, 4) /\ out' = out
  BY DEF StoredLength
<1>2. win' \in Seq(Byte) /\ ReadInOrder
  <2>1. \A n \in Nat : n <= Len(win) /\ win' = Drop(win, n) => win' \in Seq(Byte) /\ ReadInOrder
    <3>. SUFFICES ASSUME NEW n \in Nat, n <= Len(win), win' = Drop(win, n) PROVE win' \in Seq(Byte) /\ ReadInOrder
      OBVIOUS
    <3>1. bitbuf' = <<>>
      BY <1>1
    <3>. QED
      BY <3>1, BytesLeave
  <2>2. 4 \in Nat /\ 4 <= Len(win)
    BY <1>1, LenProperties DEF PuffInv, Buffers
  <2>. QED
    BY <1>1, <2>1, <2>2
<1>3. out' \in Seq(Nat) /\ Len(out') <= OutLen /\ bitbuf' \in Seq(Bit) /\ bitcnt' = Len(bitbuf') /\ bitcnt' < ByteBits
      /\ bitcnt' \in Nat
  BY <1>1, EmptySeq, ByteIs DEF PuffInv, Buffers
<1>. DEFINE width == Value(win[1] \o win[2])
<1>4. width \in Nat
  <2>1. win \in Seq(Byte) /\ 1 \in 1..Len(win) /\ 2 \in 1..Len(win)
    BY <1>1, LenProperties DEF PuffInv, Buffers
  <2>2. win[1] \in Seq(Bit) /\ win[2] \in Seq(Bit)
    <3>1. win[1] \in Byte /\ win[2] \in Byte
      BY <2>1, ElementOfSeq
    <3>. QED
      BY <3>1, ByteIs
  <2>a. PICK both : both = win[1] \o win[2]
    OBVIOUS
  <2>3. both \in Seq(Bit)
    BY <2>2, <2>a, ConcatProperties
  <2>4. Value(both) \in Nat
    BY <2>3, ValueIs
  <2>. QED
    BY <2>4, <2>a
<1>5. \/ \E e : Return(e)
      \/ Len(out) + width <= OutLen /\ Goto("copy") /\ len' = width
  <2>. HIDE DEF width
  <2>1. Return(-2) \/ Return(1) \/ (Len(out) + width <= OutLen /\ Goto("copy") /\ len' = width)
    BY DEF StoredLength, width
  <2>. QED
    BY <2>1
<1>. HIDE DEF width
<1>6. CASE \E e : Return(e)
  BY <1>1, <1>2, <1>3, <1>6, Returns, OutStays DEF PuffInv
<1>7. CASE Len(out) + width <= OutLen /\ Goto("copy") /\ len' = width
  <2>1. pc' = "copy" /\ bitbuf' = <<>> /\ len' \in Nat /\ Len(out') + len' <= OutLen
    BY <1>1, <1>4, <1>7 DEF Goto
  <2>2. Need' \in Nat /\ Fields' /\ Tables'
    BY <2>1 DEF Need, Fields, Tables
  <2>. QED
    BY <1>1, <1>2, <1>3, <1>7, <2>2, Proceeds, OutStays DEF PuffInv
<1>. QED
  BY <1>5, <1>6, <1>7

\* As many bytes as there are and as are wanted are copied.
LEMMA StoredCopyKeeps ==
  ASSUME PuffInv, StoredCopy
  PROVE  PuffInv' /\ ReadInOrder /\ WrittenOnce
<1>a. PICK n : n = Min({Len(win), len})
  OBVIOUS
<1>b. PICK added : added = [i \in 1..n |-> Value(win[i])]
  OBVIOUS
<1>1. /\ pc = "copy" /\ win # <<>> /\ out' = out \o added /\ win' = Drop(win, n) /\ len' = len - n
      /\ UNCHANGED <<bitbuf, bitcnt, pc, err, last, lencode, distcode, lengths, nlen, ndist, d>>
  BY <1>a, <1>b DEF StoredCopy, tables
<1>2. /\ win \in Seq(Byte) /\ Len(win) \in Nat /\ len \in Nat /\ out \in Seq(Nat) /\ Len(out) \in Nat
      /\ Len(out) + len <= OutLen /\ OutLen \in Nat
  BY <1>1, LenProperties, Sizes DEF PuffInv, Buffers, Fields
<1>3. n \in Nat /\ n <= Len(win) /\ n <= len
  <2>1. n \in {Len(win), len} /\ n <= Len(win) /\ n <= len
    BY <1>2, <1>a, LeastIn
  <2>. QED
    BY <1>2, <2>1
<1>4. added \in Seq(Nat) /\ Len(added) = n
  <2>1. \A i \in 1..n : win[i] \in Seq(Bit)
    <3>. SUFFICES ASSUME NEW i \in 1..n PROVE win[i] \in Seq(Bit)
      OBVIOUS
    <3>1. i \in 1..Len(win)
      BY <1>2, <1>3
    <3>2. win[i] \in Byte
      BY <1>2, <3>1, ElementOfSeq
    <3>. QED
      BY <3>2, ByteIs
  <2>2. \A i \in 1..n : Value(win[i]) \in Nat
    BY <2>1, ValueIs
  <2>3. added \in [1..n -> Nat]
    BY <1>b, <2>2
  <2>. QED
    BY <1>3, <2>3, IsASeq, LenProperties
<1>5. /\ out' \in Seq(Nat) /\ Len(out') = Len(out) + n
      /\ \A i \in 1..Len(out) + n : out'[i] = IF i <= Len(out) THEN out[i] ELSE added[i - Len(out)]
  BY <1>1, <1>2, <1>4, ConcatProperties
<1>6. len' \in Nat /\ Len(out') + len' <= OutLen /\ Len(out') <= OutLen
  BY <1>1, <1>2, <1>3, <1>5
<1>7. ~Decoding /\ ~Decoding' /\ Need = 0 /\ Need' = 0
  BY <1>1 DEF Decoding, Need
<1>8. bitbuf \in Seq(Bit) /\ bitcnt \in Nat /\ bitcnt = Len(bitbuf) /\ bitcnt < ByteBits
  BY <1>1, <1>7, ByteIs DEF PuffInv, Buffers, Counted
<1>9. win' \in Seq(Byte) /\ ReadInOrder
  <2>1. bitbuf' = <<>>
    BY <1>1 DEF PuffInv, Fields
  <2>. QED
    BY <1>1, <1>3, <2>1, BytesLeave
<1>10. PuffInv'
  <2>1. Buffers'
    BY <1>1, <1>5, <1>6, <1>8, <1>9 DEF PuffInv, Buffers
  <2>2. Counted'
    BY <1>1, <1>7, <1>8, ByteIs DEF Counted
  <2>3. Partial' /\ Codes'
    BY <1>7 DEF Partial, Codes
  <2>4. Fields'
    <3>1. bitbuf' = <<>>
      BY <1>1 DEF PuffInv, Fields
    <3>. QED
      BY <1>1, <1>6, <3>1 DEF Fields
  <2>5. Tables'
    BY <1>1 DEF Tables
  <2>. QED
    BY <2>1, <2>2, <2>3, <2>4, <2>5 DEF PuffInv
<1>11. WrittenOnce
  <2>1. \A i \in 1..Len(out) : out'[i] = out[i]
    <3>. SUFFICES ASSUME NEW i \in 1..Len(out) PROVE out'[i] = out[i]
      OBVIOUS
    <3>1. i \in 1..Len(out) + n /\ i <= Len(out)
      BY <1>2, <1>3
    <3>. QED
      BY <1>5, <3>1
  <2>2. IsPrefix(out, out')
    <3>1. Len(out) <= Len(out')
      BY <1>2, <1>3, <1>5
    <3>. QED
      BY <1>2, <1>5, <2>1, <3>1, PrefixIs
  <2>. QED
    BY <1>1, <1>6, <2>2 DEF WrittenOnce
<1>. QED
  BY <1>9, <1>10, <1>11

\* All of it is copied.
LEMMA StoredEndKeeps ==
  ASSUME PuffInv, StoredEnd
  PROVE  PuffInv' /\ ReadInOrder /\ WrittenOnce
<1>1. pc = "copy" /\ EndBlock /\ UNCHANGED <<bitbuf, bitcnt, win, out, last, len>>
  BY DEF StoredEnd, reader
<1>2. ~Decoding /\ Need = 0
  BY <1>1 DEF Decoding, Need
<1>3. bitbuf \in Seq(Bit) /\ bitcnt \in Nat /\ bitcnt = Len(bitbuf) /\ bitcnt < ByteBits /\ win \in Seq(Byte)
  BY <1>1, <1>2, ByteIs DEF PuffInv, Buffers, Counted
<1>4. PuffInv'
  BY <1>1, <1>3, EndBlockKeeps
<1>5. Rest' = Rest
  BY <1>1 DEF Rest
<1>. QED
  BY <1>1, <1>4, <1>5, RestStays, OutStays DEF PuffInv

\* How many lengths are to come.
LEMMA CountsKeeps ==
  ASSUME PuffInv, Counts
  PROVE  PuffInv' /\ ReadInOrder /\ WrittenOnce
<1>. DEFINE part(from, width) == Value(SubSeq(bitbuf, from + 1, from + width))
<1>1. Read("counts") /\ out' = out /\ pc = "counts"
  BY DEF Counts, Read
<1>2. /\ bitbuf' \in Seq(Bit) /\ bitcnt' \in Nat /\ bitcnt' = Len(bitbuf') /\ bitcnt' < ByteBits
      /\ win' = win /\ Need <= Len(bitbuf) /\ ReadInOrder
  BY <1>1, BitsRead
<1>3. win' \in Seq(Byte) /\ out' \in Seq(Nat) /\ Len(out') <= OutLen /\ bitbuf \in Seq(Bit) /\ Len(bitbuf) \in Nat
  BY <1>1, <1>2, LenProperties DEF PuffInv, Buffers
<1>4. /\ NlenBits \in Nat /\ NdistBits \in Nat /\ NcodeBits \in Nat /\ ClBits \in Nat /\ MinCl \in Nat
      /\ Literals \in Nat /\ MaxDCodes \in Nat
      /\ NlenBits + NdistBits + NcodeBits <= Len(bitbuf)
  BY <1>1, <1>2, Sizes DEF Need
<1>5. ASSUME NEW from \in Nat, NEW width \in Nat, from + width <= Len(bitbuf) PROVE part(from, width) \in Nat
  <2>. PICK m : m = from + 1
    OBVIOUS
  <2>. PICK n : n = from + width
    OBVIOUS
  <2>1. m \in Nat /\ m # 0 /\ n \in Nat /\ n <= Len(bitbuf)
    BY <1>5
  <2>2. Value(SubSeq(bitbuf, m, n)) \in Nat
    BY <1>3, <2>1, FieldIs
  <2>. QED
    BY <2>2
<1>6. part(0, NlenBits) \in Nat /\ part(NlenBits, NdistBits) \in Nat /\ part(NlenBits + NdistBits, NcodeBits) \in Nat
  <2>1. /\ 0 \in Nat /\ 0 + NlenBits <= Len(bitbuf) /\ NlenBits + NdistBits <= Len(bitbuf)
        /\ NlenBits + NdistBits \in Nat
    BY <1>3, <1>4
  <2>. HIDE DEF part
  <2>. QED
    BY <1>4, <1>5, <2>1
<1>a. PICK newLen : newLen = part(0, NlenBits) + Literals + 1
  OBVIOUS
<1>b. PICK newDist : newDist = part(NlenBits, NdistBits) + 1
  OBVIOUS
<1>c. PICK newCode : newCode = part(NlenBits + NdistBits, NcodeBits) + MinCl
  OBVIOUS
<1>7. newLen \in Nat /\ newLen > Literals /\ newDist \in Nat /\ newDist # 0 /\ newCode \in Nat
  <2>. HIDE DEF part
  <2>. QED
    BY <1>4, <1>6, <1>a, <1>b, <1>c
<1>8. /\ nlen' = newLen /\ ndist' = newDist /\ len' = newCode
      /\ IF newLen > MaxLCodes \/ newDist > MaxDCodes THEN Return(-3) ELSE Goto("clengths")
  BY <1>a, <1>b, <1>c DEF Counts
<1>9. CASE newLen > MaxLCodes \/ newDist > MaxDCodes
  BY <1>1, <1>2, <1>3, <1>8, <1>9, Returns, OutStays DEF PuffInv
<1>10. CASE ~(newLen > MaxLCodes \/ newDist > MaxDCodes)
  <2>1. Goto("clengths") /\ pc' = "clengths"
    BY <1>8, <1>10 DEF Goto
  <2>2. newDist \in 1..MaxDCodes
    BY <1>4, <1>7, <1>10
  <2>3. Need' \in Nat
    <3>1. newCode * ClBits \in Nat
      BY <1>4, <1>7
    <3>. QED
      BY <1>8, <2>1, <3>1 DEF Need
  <2>4. Fields' /\ Tables'
    BY <1>7, <1>8, <2>1, <2>2 DEF Fields, Tables
  <2>. QED
    BY <1>1, <1>2, <1>3, <2>1, <2>3, <2>4, Proceeds, OutStays DEF PuffInv
<1>. QED
  BY <1>9, <1>10

\* The code the lengths are written in.
LEMMA CodeLengthCodeKeeps ==
  ASSUME PuffInv, CodeLengthCode
  PROVE  PuffInv' /\ ReadInOrder /\ WrittenOnce
<1>. DEFINE where(s) == CHOOSE i \in ClSymbols : Order[i] = s
            part(i) == Value(SubSeq(bitbuf, i * ClBits + 1, (i + 1) * ClBits))
            code == [s \in ClSymbols |-> IF where(s) < len THEN part(where(s)) ELSE 0]
<1>1. /\ Read("clengths") /\ pc = "clengths" /\ out' = out /\ lencode' = code /\ lengths' = <<>> /\ len' = 0
      /\ UNCHANGED <<nlen, ndist>> /\ ((\E e : Return(e)) \/ Goto("codelength"))
  <2>1. /\ Read("clengths") /\ pc = "clengths" /\ out' = out /\ lencode' = code /\ lengths' = <<>> /\ len' = 0
        /\ UNCHANGED <<nlen, ndist>>
    BY DEF CodeLengthCode, Read
  <2>2. Return(-4) \/ Goto("codelength")
    BY DEF CodeLengthCode
  <2>. HIDE DEF code
  <2>. QED
    BY <2>1, <2>2
<1>2. /\ bitbuf' \in Seq(Bit) /\ bitcnt' \in Nat /\ bitcnt' = Len(bitbuf') /\ bitcnt' < ByteBits
      /\ win' = win /\ Need <= Len(bitbuf) /\ ReadInOrder
  BY <1>1, BitsRead
<1>3. win' \in Seq(Byte) /\ out' \in Seq(Nat) /\ Len(out') <= OutLen /\ bitbuf \in Seq(Bit) /\ Len(bitbuf) \in Nat
  BY <1>1, <1>2, LenProperties DEF PuffInv, Buffers
<1>4. len \in Nat /\ ClBits \in Nat /\ len * ClBits <= Len(bitbuf) /\ MaxBits \in Nat
  BY <1>1, <1>2, Sizes DEF PuffInv, Fields, Need
<1>5. ClSymbols = 0..MaxBits + 3 /\ \A s \in ClSymbols : where(s) \in ClSymbols
  <2>1. ClSymbols = 0..MaxBits + 3
    BY FormatAssumption DEF ClSymbols
  <2>2. \A s \in 0..MaxBits + 3 : \E i \in 0..MaxBits + 3 : Order[i] = s
    BY FormatAssumption
  <2>. QED
    BY <2>1, <2>2
<1>6. ASSUME NEW i \in ClSymbols, i < len PROVE part(i) \in 0..MaxBits
  <2>a. PICK m : m = i * ClBits + 1
    OBVIOUS
  <2>b. PICK n : n = (i + 1) * ClBits
    OBVIOUS
  <2>1. i \in Nat
    BY <1>4, <1>5, <1>6
  <2>2. i * ClBits \in Nat /\ (i + 1) * ClBits \in Nat /\ (i + 1) * ClBits <= len * ClBits
    BY <1>4, <1>6, <2>1
  <2>3. m \in Nat /\ m # 0 /\ n \in Nat /\ n <= Len(bitbuf)
    BY <1>3, <1>4, <2>2, <2>a, <2>b
  <2>4. Value(SubSeq(bitbuf, m, n)) \in Nat
    BY <1>3, <2>3, FieldIs
  <2>5. n = m + ClBits - 1
    BY <1>4, <2>1, <2>2, <2>a, <2>b
  <2>6. SubSeq(bitbuf, m, n) \in [1..ClBits -> Bit]
    <3>1. \A j \in m..n : j \in 1..Len(bitbuf)
      BY <1>3, <2>3
    <3>2. \A j \in m..n : bitbuf[j] \in Bit
      BY <1>3, <3>1, ElementOfSeq
    <3>3. SubSeq(bitbuf, m, n) \in Seq(Bit) /\ Len(SubSeq(bitbuf, m, n)) = IF m <= n THEN n - m + 1 ELSE 0
      BY <2>3, <3>2, SubSeqProperties
    <3>4. Len(SubSeq(bitbuf, m, n)) = ClBits
      BY <1>4, <2>3, <2>5, <3>3
    <3>. QED
      BY <3>3, <3>4, LenProperties
  <2>7. Value(SubSeq(bitbuf, m, n)) <= MaxBits
    BY <2>6, CodeLengthAssumption
  <2>. QED
    BY <1>4, <2>4, <2>7, <2>a, <2>b
<1>. HIDE DEF where, part
<1>7. code \in [0..MaxBits + 3 -> 0..MaxBits]
  BY <1>4, <1>5, <1>6
<1>. HIDE DEF code
<1>8. LengthTable(lencode', MaxBits + 4)
  <2>1. MaxBits + 4 \in 0..MaxBits + 4 /\ MaxBits + 4 - 1 = MaxBits + 3
    BY <1>4
  <2>a. PICK k : k = MaxBits + 4
    OBVIOUS
  <2>b. k - 1 = MaxBits + 3 /\ k \in 0..MaxBits + 4
    BY <1>4, <2>1, <2>a
  <2>2. lencode' \in [0..k - 1 -> 0..MaxBits] /\ k \in 0..MaxBits + 4
    BY <1>1, <1>7, <2>b
  <2>. QED
    BY <2>2 DEF LengthTable
<1>9. CASE \E e : Return(e)
  BY <1>1, <1>2, <1>3, <1>9, Returns, OutStays DEF PuffInv
<1>10. CASE Goto("codelength")
  <2>1. pc' = "codelength"
    BY <1>10 DEF Goto
  <2>2. nlen' \in Nat /\ nlen' > Literals /\ ndist' \in 1..MaxDCodes
    <3>1. nlen' = nlen /\ ndist' = ndist /\ pc = "clengths"
      BY <1>1
    <3>. QED
      BY <3>1 DEF PuffInv, Tables
  <2>3. lengths' \in Seq(0..MaxBits) /\ Len(lengths') < nlen' + ndist'
    <3>1. MaxDCodes \in Nat /\ Len(<<>>) = 0
      BY Sizes
    <3>a. PICK n : n = ndist'
      OBVIOUS
    <3>b. PICK m : m = nlen'
      OBVIOUS
    <3>2. m + n > 0
      <4>1. m \in Nat /\ n \in 1..MaxDCodes /\ MaxDCodes \in Nat
        BY <2>2, <3>1, <3>a, <3>b
      <4>. QED
        BY <4>1
    <3>. QED
      BY <1>1, <3>1, <3>2, <3>a, <3>b, EmptySeq
  <2>4. Need' \in Nat /\ Fields'
    BY <2>1 DEF Need, Fields
  <2>5. Tables'
    BY <1>8, <2>1, <2>2, <2>3 DEF Tables
  <2>. QED
    BY <1>1, <1>2, <1>3, <1>10, <2>4, <2>5, Proceeds, OutStays DEF PuffInv
<1>. QED
  BY <1>1, <1>9, <1>10

\* With all lengths known the two tables are made, or refused; else reading goes on.
LEMMA LengthsKeep ==
  ASSUME PuffInv, pc \in {"codelength", "repeat"},
         bitbuf' \in Seq(Bit), bitcnt' \in Nat, bitcnt' = Len(bitbuf'), bitcnt' < ByteBits, win' = win, out' = out,
         NEW all \in Seq(0..MaxBits), Lengths(all)
  PROVE  PuffInv'
<1>1. win' \in Seq(Byte) /\ out' \in Seq(Nat) /\ Len(out') <= OutLen
  BY DEF PuffInv, Buffers
<1>2. /\ nlen \in Nat /\ nlen > Literals /\ ndist \in 1..MaxDCodes /\ LengthTable(lencode, MaxBits + 4)
      /\ Len(all) \in Nat /\ MaxDCodes \in Nat
  BY LenProperties, Sizes DEF PuffInv, Tables
<1>3. CASE Len(all) < nlen + ndist
  <2>1. lengths' = all /\ Goto("codelength") /\ UNCHANGED <<lencode, distcode, nlen, ndist>> /\ pc' = "codelength"
    BY <1>3 DEF Lengths, Goto
  <2>2. Need' \in Nat /\ Fields' /\ Tables'
    BY <1>2, <1>3, <2>1 DEF Need, Fields, Tables
  <2>. QED
    BY <1>1, <2>1, <2>2, Proceeds
<1>4. CASE ~(Len(all) < nlen + ndist)
  <2>1. Finish(all)
    BY <1>4 DEF Lengths
  <2>2. \/ \E e : Return(e)
        \/ Goto("symbol") /\ lencode' = LitLengths(all) /\ distcode' = DistLengths(all)
    <3>1. \/ Return(-9) \/ Return(-7) \/ Return(-8)
          \/ Goto("symbol") /\ lencode' = LitLengths(all) /\ distcode' = DistLengths(all)
      BY <2>1 DEF Finish
    <3>. QED
      BY <3>1
  <2>3. CASE \E e : Return(e)
    BY <1>1, <2>3, Returns
  <2>4. CASE Goto("symbol") /\ lencode' = LitLengths(all) /\ distcode' = DistLengths(all)
    <3>1. LitLengths(all) \in [0..nlen - 1 -> 0..MaxBits] /\ DistLengths(all) \in [0..ndist - 1 -> 0..MaxBits]
      <4>1. \A s \in 0..nlen - 1 : s + 1 \in 1..Len(all)
        BY <1>2, <1>4
      <4>2. \A s \in 0..ndist - 1 : nlen + s + 1 \in 1..Len(all)
        BY <1>2, <1>4
      <4>3. \A i \in 1..Len(all) : all[i] \in 0..MaxBits
        BY ElementOfSeq
      <4>. QED
        BY <4>1, <4>2, <4>3 DEF LitLengths, DistLengths
    <3>2. LengthTable(lencode', nlen) /\ LengthTable(distcode', MaxDCodes)
      <4>1. nlen \in 0..nlen /\ ndist \in 0..MaxDCodes
        BY <1>2
      <4>. QED
        BY <2>4, <3>1, <4>1 DEF LengthTable
    <3>3. pc' = "symbol"
      BY <2>4 DEF Goto
    <3>4. Need' \in Nat /\ Fields' /\ Tables'
      BY <1>2, <3>2, <3>3 DEF Need, Fields, Tables
    <3>. QED
      BY <1>1, <2>4, <3>4, Proceeds
  <2>. QED
    BY <2>2, <2>3, <2>4
<1>. QED
  BY <1>3, <1>4

\* A length, or an instruction to repeat one.
LEMMA CodeLengthKeeps ==
  ASSUME PuffInv, CodeLength
  PROVE  PuffInv' /\ ReadInOrder /\ WrittenOnce
<1>1. Decoded("codelength") /\ pc = "codelength" /\ d.left > 0 /\ Matches /\ out' = out
  BY DEF CodeLength, Decoded
<1>2. /\ bitbuf' \in Seq(Bit) /\ bitcnt' \in Nat /\ bitcnt' = Len(bitbuf') /\ bitcnt' < ByteBits
      /\ win' = win /\ ReadInOrder
  BY <1>1, BitsDecoded
<1>3. win' \in Seq(Byte) /\ out' \in Seq(Nat) /\ Len(out') <= OutLen
  BY <1>1, <1>2 DEF PuffInv, Buffers
<1>a. PICK symbol : symbol = Symbol
  OBVIOUS
<1>4. symbol \in Nat /\ symbol <= MaxBits + 3
  <2>1. Decoding
    BY <1>1 DEF Decoding
  <2>2. PICK k \in 0..MaxBits + 4 : Table \in [0..k - 1 -> 0..MaxBits]
    BY <1>1, <2>1, TableIs DEF PuffInv
  <2>3. k \in Nat /\ MaxBits \in Nat
    BY Sizes
  <2>4. symbol \in 0..k - 1
    BY <1>1, <1>a, <2>1, <2>2, <2>3, SymbolIs DEF PuffInv
  <2>. QED
    BY <2>2, <2>3, <2>4
<1>5. \/ symbol <= MaxBits /\ Lengths(Append(lengths, symbol))
      \/ \E e : Return(e)
      \/ symbol > MaxBits /\ (symbol = MaxBits + 1 => lengths # <<>>) /\ Goto("repeat") /\ len' = symbol /\ UNCHANGED tables
  <2>1. \/ symbol <= MaxBits /\ Lengths(Append(lengths, symbol))
        \/ Return(-5)
        \/ symbol > MaxBits /\ (symbol = MaxBits + 1 => lengths # <<>>) /\ Goto("repeat") /\ len' = symbol /\ UNCHANGED tables
    BY <1>a DEF CodeLength
  <2>. QED
    BY <2>1
<1>6. CASE symbol <= MaxBits /\ Lengths(Append(lengths, symbol))
  <2>a. PICK all : all = Append(lengths, symbol)
    OBVIOUS
  <2>1. lengths \in Seq(0..MaxBits) /\ symbol \in 0..MaxBits
    BY <1>1, <1>4, <1>6, Sizes DEF PuffInv, Tables
  <2>2. all \in Seq(0..MaxBits)
    BY <2>1, <2>a, AppendProperties
  <2>3. Lengths(all)
    BY <1>6, <2>a
  <2>4. PuffInv'
    BY <1>1, <1>2, <2>2, <2>3, LengthsKeep
  <2>. QED
    BY <1>1, <1>2, <2>4, OutStays DEF PuffInv
<1>7. CASE \E e : Return(e)
  BY <1>1, <1>2, <1>3, <1>7, Returns, OutStays DEF PuffInv
<1>8. CASE symbol > MaxBits /\ (symbol = MaxBits + 1 => lengths # <<>>) /\ Goto("repeat") /\ len' = symbol /\ UNCHANGED tables
  <2>1. Goto("repeat") /\ pc' = "repeat" /\ len' = symbol /\ UNCHANGED <<lencode, distcode, lengths, nlen, ndist>>
    BY <1>8 DEF Goto, tables
  <2>2. len' \in MaxBits + 1..MaxBits + 3
    BY <1>4, <1>8, <2>1, Sizes
  <2>3. Need' \in Nat
    <3>1. Repeat[symbol].extra \in Nat
      BY <2>1, <2>2, FormatAssumption
    <3>. QED
      BY <2>1, <3>1 DEF Need, Extra
  <2>4. Fields'
    BY <2>1, <2>2 DEF Fields
  <2>5. Tables'
    BY <1>1, <1>8, <2>1 DEF PuffInv, Tables
  <2>. QED
    BY <1>1, <1>2, <1>3, <2>1, <2>3, <2>4, <2>5, Proceeds, OutStays DEF PuffInv
<1>. QED
  BY <1>5, <1>6, <1>7, <1>8

\* The last length, or none, several times.
LEMMA RepeatLengthKeeps ==
  ASSUME PuffInv, RepeatLength
  PROVE  PuffInv' /\ ReadInOrder /\ WrittenOnce
<1>a. PICK times : times = Repeat[len].least + Field
  OBVIOUS
<1>b. PICK value : value = IF len = MaxBits + 1 THEN Last(lengths) ELSE 0
  OBVIOUS
<1>c. PICK run : run = [i \in 1..times |-> value]
  OBVIOUS
<1>1. Read("repeat") /\ pc = "repeat" /\ out' = out /\ (Return(-6) \/ Lengths(lengths \o run))
  BY <1>a, <1>b, <1>c DEF RepeatLength, Read
<1>2. /\ bitbuf' \in Seq(Bit) /\ bitcnt' \in Nat /\ bitcnt' = Len(bitbuf') /\ bitcnt' < ByteBits
      /\ win' = win /\ Field \in Nat /\ ReadInOrder
  BY <1>1, BitsRead
<1>3. win' \in Seq(Byte) /\ out' \in Seq(Nat) /\ Len(out') <= OutLen
  BY <1>1, <1>2 DEF PuffInv, Buffers
<1>4. times \in Nat
  <2>1. len \in MaxBits + 1..MaxBits + 3
    BY <1>1 DEF PuffInv, Fields
  <2>2. Repeat[len].least \in Nat
    BY <2>1, FormatAssumption
  <2>. QED
    BY <1>2, <1>a, <2>2
<1>5. value \in 0..MaxBits /\ lengths \in Seq(0..MaxBits)
  <2>1. lengths \in Seq(0..MaxBits) /\ (len = MaxBits + 1 => lengths # <<>>)
    BY <1>1 DEF PuffInv, Tables
  <2>2. lengths # <<>> => Len(lengths) \in 1..Len(lengths)
    BY <2>1, LenProperties, EmptySeq
  <2>3. lengths # <<>> => Last(lengths) \in 0..MaxBits
    BY <2>1, <2>2, ElementOfSeq DEF Last
  <2>. QED
    BY <1>b, <2>1, <2>3, Sizes
<1>6. lengths \o run \in Seq(0..MaxBits)
  <2>1. run \in [1..times -> 0..MaxBits]
    BY <1>5, <1>c
  <2>. DEFINE T == 0..MaxBits
  <2>2. run \in Seq(T)
    <3>1. run \in [1..times -> T]
      BY <2>1
    <3>. HIDE DEF T
    <3>. QED
      BY <1>4, <3>1, IsASeq
  <2>. QED
    BY <1>5, <2>2, ConcatProperties
<1>7. CASE Return(-6)
  BY <1>1, <1>2, <1>3, <1>7, Returns, OutStays DEF PuffInv
<1>8. CASE Lengths(lengths \o run)
  <2>1. PuffInv'
    BY <1>1, <1>2, <1>6, <1>8, LengthsKeep
  <2>. QED
    BY <1>1, <1>2, <2>1, OutStays DEF PuffInv
<1>. QED
  BY <1>1, <1>7, <1>8

\* What a match of the literal/length code leaves.
LEMMA SymbolDecoded ==
  ASSUME PuffInv, Decoded("symbol")
  PROVE  /\ bitbuf' \in Seq(Bit) /\ bitcnt' \in Nat /\ bitcnt' = Len(bitbuf') /\ bitcnt' < ByteBits
         /\ win' = win /\ win' \in Seq(Byte) /\ ReadInOrder /\ Symbol \in Nat
         /\ pc = "symbol" /\ (\E k \in Nat : LengthTable(lencode, k)) /\ LengthTable(distcode, MaxDCodes)
<1>1. pc = "symbol" /\ d.left > 0 /\ Matches
  BY DEF Decoded
<1>2. /\ bitbuf' \in Seq(Bit) /\ bitcnt' \in Nat /\ bitcnt' = Len(bitbuf') /\ bitcnt' < ByteBits
      /\ win' = win /\ ReadInOrder
  BY BitsDecoded
<1>3. Symbol \in Nat
  <2>1. Decoding
    BY <1>1 DEF Decoding
  <2>2. PICK k \in Nat : Table \in [0..k - 1 -> 0..MaxBits]
    BY <2>1, TableIs DEF PuffInv
  <2>3. Symbol \in 0..k - 1
    BY <1>1, <2>1, <2>2, SymbolIs DEF PuffInv
  <2>. QED
    BY <2>2, <2>3
<1>. QED
  BY <1>1, <1>2, <1>3 DEF PuffInv, Buffers, Tables

\* One byte is written, or there is no room for it.
LEMMA LiteralKeeps ==
  ASSUME PuffInv, Literal
  PROVE  PuffInv' /\ ReadInOrder /\ WrittenOnce
<1>a. PICK symbol : symbol = Symbol
  OBVIOUS
<1>1. /\ Decoded("symbol") /\ UNCHANGED <<lencode, distcode, lengths, nlen, ndist, len>>
      /\ IF Len(out) = OutLen THEN Return(1) /\ out' = out ELSE Goto("symbol") /\ out' = Append(out, symbol)
  BY <1>a DEF Literal, tables
<1>2. /\ bitbuf' \in Seq(Bit) /\ bitcnt' \in Nat /\ bitcnt' = Len(bitbuf') /\ bitcnt' < ByteBits
      /\ win' = win /\ win' \in Seq(Byte) /\ ReadInOrder /\ symbol \in Nat
      /\ pc = "symbol" /\ (\E k \in Nat : LengthTable(lencode, k)) /\ LengthTable(distcode, MaxDCodes)
  BY <1>1, <1>a, SymbolDecoded
<1>3. out \in Seq(Nat) /\ Len(out) \in Nat /\ Len(out) <= OutLen /\ OutLen \in Nat
  BY LenProperties, Sizes DEF PuffInv, Buffers
<1>4. CASE Len(out) = OutLen
  BY <1>1, <1>2, <1>3, <1>4, Returns, OutStays DEF PuffInv
<1>5. CASE Len(out) # OutLen
  <2>1. Goto("symbol") /\ pc' = "symbol" /\ out' = Append(out, symbol)
    BY <1>1, <1>5 DEF Goto
  <2>2. out' \in Seq(Nat) /\ Len(out') = Len(out) + 1 /\ \A i \in 1..Len(out) : out'[i] = out[i]
    BY <1>2, <1>3, <2>1, AppendProperties
  <2>3. Len(out') <= OutLen /\ Len(out) <= Len(out')
    BY <1>3, <1>5, <2>2
  <2>4. IsPrefix(out, out')
    BY <1>3, <2>2, <2>3, PrefixIs
  <2>5. WrittenOnce
    BY <1>2, <2>3, <2>4 DEF WrittenOnce
  <2>6. Need' \in Nat /\ Fields' /\ Tables'
    BY <1>1, <1>2, <2>1 DEF Need, Fields, Tables
  <2>7. PuffInv'
    BY <1>2, <2>1, <2>2, <2>3, <2>6, Proceeds
  <2>. QED
    BY <1>2, <2>5, <2>7
<1>. QED
  BY <1>4, <1>5

\* The symbol that ends a block.
LEMMA EndOfBlockKeeps ==
  ASSUME PuffInv, EndOfBlock
  PROVE  PuffInv' /\ ReadInOrder /\ WrittenOnce
<1>1. Decoded("symbol") /\ EndBlock /\ out' = out
  BY DEF EndOfBlock
<1>2. /\ bitbuf' \in Seq(Bit) /\ bitcnt' \in Nat /\ bitcnt' = Len(bitbuf') /\ bitcnt' < ByteBits
      /\ win' \in Seq(Byte) /\ ReadInOrder
  BY <1>1, SymbolDecoded
<1>3. PuffInv'
  BY <1>1, <1>2, EndBlockKeeps
<1>. QED
  BY <1>1, <1>2, <1>3, OutStays DEF PuffInv

\* A symbol that begins a copy.
LEMMA CopyLengthKeeps ==
  ASSUME PuffInv, CopyLength
  PROVE  PuffInv' /\ ReadInOrder /\ WrittenOnce
<1>a. PICK where : where = Symbol - Literals
  OBVIOUS
<1>1. /\ Decoded("symbol") /\ Symbol > Literals /\ out' = out /\ UNCHANGED <<lencode, distcode, lengths, nlen, ndist>>
      /\ IF where > Len(LengthBase) THEN Return(-10) ELSE Goto("lextra") /\ len' = where
  BY <1>a DEF CopyLength, tables
<1>2. /\ bitbuf' \in Seq(Bit) /\ bitcnt' \in Nat /\ bitcnt' = Len(bitbuf') /\ bitcnt' < ByteBits
      /\ win' \in Seq(Byte) /\ ReadInOrder /\ Symbol \in Nat
      /\ pc = "symbol" /\ (\E k \in Nat : LengthTable(lencode, k)) /\ LengthTable(distcode, MaxDCodes)
  BY <1>1, SymbolDecoded
<1>3. out' \in Seq(Nat) /\ Len(out') <= OutLen
  BY <1>1 DEF PuffInv, Buffers
<1>4. CASE where > Len(LengthBase)
  BY <1>1, <1>2, <1>3, <1>4, Returns, OutStays DEF PuffInv
<1>5. CASE ~(where > Len(LengthBase))
  <2>1. Goto("lextra") /\ pc' = "lextra" /\ len' = where
    BY <1>1, <1>5 DEF Goto
  <2>2. /\ LengthBase \in Seq(Nat) /\ Len(LengthBase) \in Nat /\ LengthExtra \in Seq(Nat)
        /\ Len(LengthExtra) = Len(LengthBase)
    BY FormatAssumption, LenProperties
  <2>3. where \in 1..Len(LengthBase)
    BY <1>1, <1>2, <1>5, <1>a, <2>2, Sizes
  <2>4. Need' \in Nat
    <3>1. LengthExtra[where] \in Nat
      BY <2>2, <2>3, ElementOfSeq
    <3>. QED
      BY <2>1, <3>1 DEF Need
  <2>5. Fields' /\ Tables'
    BY <1>1, <1>2, <2>1, <2>3 DEF Fields, Tables
  <2>. QED
    BY <1>1, <1>2, <1>3, <2>1, <2>4, <2>5, Proceeds, OutStays DEF PuffInv
<1>. QED
  BY <1>4, <1>5

\* How much to copy.
LEMMA CopyLengthExtraKeeps ==
  ASSUME PuffInv, CopyLengthExtra
  PROVE  PuffInv' /\ ReadInOrder /\ WrittenOnce
<1>1. /\ Read("lextra") /\ pc = "lextra" /\ lengths' = <<LengthBase[len] + Field>> /\ Goto("distance")
      /\ pc' = "distance" /\ UNCHANGED <<out, lencode, distcode>>
  BY DEF CopyLengthExtra, Read, Goto
<1>2. /\ bitbuf' \in Seq(Bit) /\ bitcnt' \in Nat /\ bitcnt' = Len(bitbuf') /\ bitcnt' < ByteBits
      /\ win' = win /\ Field \in Nat /\ ReadInOrder
  BY <1>1, BitsRead
<1>3. win' \in Seq(Byte) /\ out' \in Seq(Nat) /\ Len(out') <= OutLen
  BY <1>1, <1>2 DEF PuffInv, Buffers
<1>4. \E n \in Nat : lengths' = <<n>>
  <2>1. len \in 1..Len(LengthBase) /\ LengthBase \in Seq(Nat)
    BY <1>1, FormatAssumption DEF PuffInv, Fields
  <2>2. LengthBase[len] \in Nat
    BY <2>1, ElementOfSeq
  <2>3. LengthBase[len] + Field \in Nat
    BY <1>2, <2>2
  <2>. QED
    BY <1>1, <2>3
<1>5. Need' \in Nat /\ Fields' /\ Tables'
  BY <1>1, <1>4 DEF PuffInv, Need, Fields, Tables
<1>. QED
  BY <1>1, <1>2, <1>3, <1>5, Proceeds, OutStays DEF PuffInv

\* From how far back.
LEMMA CopyDistanceKeeps ==
  ASSUME PuffInv, CopyDistance
  PROVE  PuffInv' /\ ReadInOrder /\ WrittenOnce
<1>a. PICK where : where = Symbol + 1
  OBVIOUS
<1>1. /\ Decoded("distance") /\ pc = "distance" /\ d.left > 0 /\ Matches /\ Goto("dextra") /\ pc' = "dextra" /\ len' = where
      /\ UNCHANGED <<out, lencode, distcode, lengths, nlen, ndist>>
  BY <1>a DEF CopyDistance, Decoded, Goto, tables
<1>2. /\ bitbuf' \in Seq(Bit) /\ bitcnt' \in Nat /\ bitcnt' = Len(bitbuf') /\ bitcnt' < ByteBits
      /\ win' = win /\ ReadInOrder
  BY <1>1, BitsDecoded
<1>3. win' \in Seq(Byte) /\ out' \in Seq(Nat) /\ Len(out') <= OutLen
  BY <1>1, <1>2 DEF PuffInv, Buffers
<1>4. where \in 1..MaxDCodes
  <2>1. Decoding
    BY <1>1 DEF Decoding
  <2>2. PICK k \in 0..MaxDCodes : Table \in [0..k - 1 -> 0..MaxBits]
    BY <1>1, <2>1, TableIs DEF PuffInv
  <2>3. k \in Nat /\ MaxDCodes \in Nat
    BY Sizes
  <2>4. Symbol \in 0..k - 1
    BY <1>1, <2>1, <2>2, <2>3, SymbolIs DEF PuffInv
  <2>. QED
    BY <1>a, <2>2, <2>3, <2>4
<1>5. Need' \in Nat
  <2>1. DistExtra \in Seq(Nat) /\ Len(DistExtra) = MaxDCodes
    BY FormatAssumption
  <2>2. DistExtra[where] \in Nat
    BY <1>4, <2>1, ElementOfSeq
  <2>. QED
    BY <1>1, <2>2 DEF Need
<1>6. Fields' /\ Tables'
  BY <1>1, <1>4 DEF PuffInv, Fields, Tables
<1>. QED
  BY <1>1, <1>2, <1>3, <1>5, <1>6, Proceeds, OutStays DEF PuffInv

\* The copy itself.
LEMMA CopyKeeps ==
  ASSUME PuffInv, Copy
  PROVE  PuffInv' /\ ReadInOrder /\ WrittenOnce
<1>a. PICK dist : dist = DistBase[len] + Field
  OBVIOUS
<1>1. /\ Read("dextra") /\ pc = "dextra" /\ UNCHANGED <<lencode, distcode>>
      /\ IF dist > Len(out) THEN Return(-11) /\ out' = out
         ELSE IF Len(out) + lengths[1] > OutLen THEN Return(1) /\ out' = out
         ELSE Goto("symbol") /\ out' = CopyBack(dist, lengths[1])
  BY <1>a DEF Copy, Read
<1>2. /\ bitbuf' \in Seq(Bit) /\ bitcnt' \in Nat /\ bitcnt' = Len(bitbuf') /\ bitcnt' < ByteBits
      /\ win' = win /\ Field \in Nat /\ ReadInOrder
  BY <1>1, BitsRead
<1>3. win' \in Seq(Byte) /\ out \in Seq(Nat) /\ Len(out) <= OutLen /\ Len(out) \in Nat
  BY <1>2, LenProperties DEF PuffInv, Buffers
<1>4. dist \in Nat \ {0}
  <2>1. len \in 1..MaxDCodes /\ DistBase \in Seq(Nat \ {0}) /\ Len(DistBase) = MaxDCodes
    BY <1>1, FormatAssumption DEF PuffInv, Fields
  <2>2. DistBase[len] \in Nat \ {0}
    BY <2>1, ElementOfSeq
  <2>. QED
    BY <1>2, <1>a, <2>2
<1>5. PICK n \in Nat : n = lengths[1]
  BY <1>1 DEF PuffInv, Fields
<1>6. CASE dist > Len(out) \/ Len(out) + n > OutLen
  <2>1. out' = out /\ \E e : Return(e)
    <3>1. out' = out /\ (Return(-11) \/ Return(1))
      BY <1>1, <1>5, <1>6
    <3>. QED
      BY <3>1
  <2>. QED
    BY <1>2, <1>3, <2>1, Returns, OutStays DEF PuffInv
<1>7. CASE ~(dist > Len(out) \/ Len(out) + n > OutLen)
  <2>1. Goto("symbol") /\ out' = CopyBack(dist, n) /\ pc' = "symbol"
    BY <1>1, <1>5, <1>7 DEF Goto
  <2>2. dist <= Len(out) /\ Len(out) + n <= OutLen
    BY <1>3, <1>4, <1>5, <1>7, Sizes
  <2>3. /\ out' \in Seq(Nat) /\ Len(out') = Len(out) + n
        /\ \A i \in 1..Len(out) : out'[i] = out[i]
        /\ \A i \in Len(out) + 1..Len(out) + n : out'[i] = out'[i - dist]
    BY <1>3, <1>4, <2>1, <2>2, CopyIs
  <2>4. IsPrefix(out, out') /\ Len(out') <= OutLen
    <3>1. Len(out) <= Len(out') /\ Len(out') <= OutLen
      BY <1>3, <2>2, <2>3
    <3>. QED
      BY <1>3, <2>3, <3>1, PrefixIs
  <2>5. WrittenOnce
    <3>1. ASSUME NEW i \in Len(out) + 1..Len(out') PROVE out'[i] = out'[i - DistBase[len] - Field]
      <4>1. i - DistBase[len] - Field = i - dist
        <5>1. DistBase[len] \in Nat
          <6>1. len \in 1..MaxDCodes /\ DistBase \in Seq(Nat \ {0}) /\ Len(DistBase) = MaxDCodes
            BY <1>1, FormatAssumption DEF PuffInv, Fields
          <6>. QED
            BY <6>1, ElementOfSeq
        <5>2. i \in Int
          BY <1>3, <2>3
        <5>. QED
          BY <1>2, <1>a, <5>1, <5>2
      <4>. QED
        BY <2>3, <4>1
    <3>. QED
      BY <2>4, <3>1 DEF WrittenOnce
  <2>6. Need' \in Nat /\ Fields' /\ Tables'
    BY <1>1, <2>1 DEF PuffInv, Need, Fields, Tables
  <2>7. PuffInv'
    BY <1>2, <1>3, <2>1, <2>3, <2>4, <2>6, Proceeds
  <2>. QED
    BY <1>2, <2>5, <2>7
<1>. QED
  BY <1>6, <1>7

-----------------------------------------------------------------------------

LEMMA PuffInitial == PuffInit => PuffInv
<1>. SUFFICES ASSUME PuffInit PROVE PuffInv
  OBVIOUS
<1>1. ~Decoding /\ Need = 3
  BY DEF PuffInit, Decoding, Need
<1>2. Buffers
  BY EmptySeq, Sizes DEF PuffInit, Buffers, Idle
<1>3. Counted
  BY <1>1, ByteIs DEF PuffInit, Counted
<1>. QED
  BY <1>1, <1>2, <1>3 DEF PuffInit, PuffInv, Partial, Codes, Fields, Tables

\* What decode() is at is what the format's code says of the bits it has read.
LEMMA PuffInvDecodes == PuffInv => DecodesCanonical
<1>. SUFFICES ASSUME PuffInv, Decoding
              PROVE  /\ Named(Table, d.code \div 2, d.len - 1) = {}
                     /\ d.left > 0 => Named(Table, CodeNow, d.len) = IF Matches THEN {Symbol} ELSE {}
  BY DEF DecodesCanonical
<1>1. /\ d.index = Cardinality(Shorter(Table, d.len)) /\ d.first = FirstCode(Table, d.len) /\ d.first <= d.code
      /\ d.first \in Nat /\ d.code \in Nat /\ d.len \in 1..MaxBits + 1
  BY DEF PuffInv, Codes, Buffers
<1>2. PICK k \in Nat : Table \in [0..k - 1 -> 0..MaxBits]
  BY TableIs DEF PuffInv
<1>3. Named(Table, d.code \div 2, d.len - 1) = {}
  BY <1>1, <1>2, NamedIs
<1>4. ASSUME d.left > 0 PROVE Named(Table, CodeNow, d.len) = IF Matches THEN {Symbol} ELSE {}
  <2>1. CodeNow \in Nat /\ CodeNow >= d.code /\ d.len \in 1..MaxBits
    BY <1>2, <1>4, CodeTypes DEF PuffInv
  <2>2. FirstCode(Table, d.len) <= CodeNow /\ d.len <= MaxBits
    BY <1>1, <2>1, Sizes
  <2>3. Named(Table, CodeNow, d.len) =
          IF CodeNow - CountOf(Table, d.len) < FirstCode(Table, d.len)
          THEN {SymbolAt(Table, Cardinality(Shorter(Table, d.len)) + CodeNow - FirstCode(Table, d.len))} ELSE {}
    BY <1>1, <1>2, <2>1, <2>2, NamedIs
  <2>. QED
    BY <1>1, <2>3 DEF Matches, CountNow, Symbol
<1>. QED
  BY <1>3, <1>4

\* Nothing changes in a step that changes nothing.
LEMMA PuffStill == PuffInv /\ UNCHANGED puffVars => PuffInv'
<1>1. UNCHANGED puffVars => UNCHANGED <<bitbuf, bitcnt, win, out, pc, lencode, distcode, lengths, nlen, ndist, len, d>>
  BY DEF puffVars, reader, tables
<1>. QED
  BY <1>1 DEF PuffInv, Buffers, Counted, Partial, Codes, Fields, Tables, Decoding, Need, Extra, Table

\* One step: the invariant is kept, the bits are used in order, what is written stays.
LEMMA PuffStep ==
  ASSUME PuffInv, PuffNext
  PROVE  PuffInv' /\ (puffVars' # puffVars => ReadInOrder /\ WellCounted /\ WrittenOnce)
<1>1. CASE Returned
  <2>1. puffVars' = puffVars
    BY <1>1 DEF Returned
  <2>. QED
    BY <2>1, PuffStill
<1>2. CASE PuffNext /\ ~Returned
  <2>1. PuffInv' /\ ReadInOrder /\ WrittenOnce
    <3>1. CASE Refill \/ Starve \/ LoadByte \/ DecodeByte \/ DecodeBit \/ RunOut
      BY <3>1, RefillKeeps, StarveKeeps, LoadByteKeeps, DecodeByteKeeps, DecodeBitKeeps, RunOutKeeps
    <3>2. CASE Block \/ StoredLength \/ StoredCopy \/ StoredEnd \/ Counts \/ CodeLengthCode \/ CodeLength \/ RepeatLength
      BY <3>2, BlockKeeps, StoredLengthKeeps, StoredCopyKeeps, StoredEndKeeps, CountsKeeps, CodeLengthCodeKeeps,
         CodeLengthKeeps, RepeatLengthKeeps
    <3>3. CASE Literal \/ EndOfBlock \/ CopyLength \/ CopyLengthExtra \/ CopyDistance \/ Copy
      BY <3>3, LiteralKeeps, EndOfBlockKeeps, CopyLengthKeeps, CopyLengthExtraKeeps, CopyDistanceKeeps, CopyKeeps
    <3>. QED
      BY <1>2, <3>1, <3>2, <3>3 DEF PuffNext, Interpret
  <2>2. pc # "done"
    BY <1>2 DEF PuffNext, Interpret, Refill, Starve, LoadByte, DecodeByte, DecodeBit, RunOut, WantsInput, WantsByte,
       Reading, Decoding, Block, StoredLength, StoredCopy, StoredEnd, Counts, CodeLengthCode, CodeLength, RepeatLength,
       Literal, EndOfBlock, CopyLength, CopyLengthExtra, CopyDistance, Copy, Read, Decoded
  <2>3. WellCounted
    <3>1. ~Decoding => bitcnt = Len(bitbuf) /\ bitcnt < ByteBits + Need
      BY <2>2 DEF PuffInv, Counted
    <3>2. pc = "stored" => ~Decoding /\ Need = 0
      BY DEF Decoding, Need
    <3>. QED
      BY <3>1, <3>2, ByteIs DEF WellCounted
  <2>. QED
    BY <2>1, <2>3
<1>. QED
  BY <1>1, <1>2

\* Each bit is used once and in order, however the card cuts its answers, and what is written
\* is neither rewritten nor beyond the buffer, for every format of codes and every stream.
THEOREM StreamsUnpacked == PuffSpec => InflateTrue
<1>1. PuffInit => PuffInv
  BY PuffInitial
<1>2. PuffInv /\ [PuffNext]_puffVars => PuffInv'
  BY PuffStep, PuffStill
<1>3. PuffInv /\ [PuffNext]_puffVars => [ReadInOrder /\ WellCounted /\ WrittenOnce]_puffVars
  BY PuffStep
<1>4. [][ReadInOrder /\ WellCounted /\ WrittenOnce]_puffVars => InflateTrue
  <2>1. [ReadInOrder /\ WellCounted /\ WrittenOnce]_puffVars =>
          [/\ IsPrefix(Rest, Rest') \/ IsSuffix(Rest', Rest)
           /\ ~Decoding => bitcnt = Len(bitbuf)
           /\ pc = "stored" => Len(bitbuf) < ByteBits
           /\ IsPrefix(out, out') /\ Len(out') <= OutLen
           /\ pc = "dextra" /\ out' # out =>
                \A i \in Len(out) + 1..Len(out') : out'[i] = out'[i - DistBase[len] - Field]]_puffVars
    BY DEF ReadInOrder, WellCounted, WrittenOnce
  <2>. QED
    BY <2>1, PTL DEF InflateTrue
<1>. QED
  BY <1>1, <1>2, <1>3, <1>4, PTL DEF PuffSpec

\* The decoder finds the symbol that the format's code names, at the first bit at which it
\* names one, and then only, for every table of lengths (decode() and construct(),
\* puff.c:304 and :380).
THEOREM CodesDecoded == PuffSpec => []DecodesCanonical
<1>1. PuffInit => PuffInv
  BY PuffInitial
<1>2. PuffInv /\ [PuffNext]_puffVars => PuffInv'
  BY PuffStep, PuffStill
<1>3. PuffInv => DecodesCanonical
  BY PuffInvDecodes
<1>. QED
  BY <1>1, <1>2, <1>3, PTL DEF PuffSpec

================================================================================
