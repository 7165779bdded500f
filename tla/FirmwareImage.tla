---------------------------- MODULE FirmwareImage ----------------------------
(***************************************************************************)
(* Is the file on the card a firmware image?  inspect() of                 *)
(* src/core/SdUpdate.cpp, which the update screen asks before it offers    *)
(* the file and flash() asks again before it writes it.                    *)
(*                                                                         *)
(* The file is arbitrary: what each read brings is chosen when it is made, *)
(* and any read may fail.  A byte counts only by its parity for the        *)
(* checksum and by being hashed or not.  Lengths are those of the code in  *)
(* a smaller unit; what they are added in wraps at Wrap, like size_t.      *)
(***************************************************************************)
EXTENDS Integers, FiniteSetsExt

CONSTANTS
  MinBytes, Limit,   \* kMinBytes and the size of the slot
  Header, SegHeader, Trailer, Align,  \* kHeader, kSegHeader, kShaTrailer and 16
  MaxSegments,
  ImageChunk,        \* kChunk
  Wrap,              \* 2^32, one more than the longest segment a file can claim
  MaxFile            \* bound: the largest file on the card

ASSUME ImageAssumption ==
  /\ Wrap \in Nat
  /\ {MinBytes, Limit, Header, SegHeader, Trailer, Align, ImageChunk} \subseteq 1..Wrap - 1
  /\ MinBytes >= Header + SegHeader /\ MaxFile \in Limit..Wrap - 1
  /\ MaxSegments \in Nat \ {0}

VARIABLES
  check,      \* where inspect() is, or what it returned
  size,       \* out.size
  cursor,     \* how far the file has been read
  pos,        \* how far the code thinks it has
  remaining,  \* local of feed()
  segments,   \* still to come
  hashAppended,
  xorAccum,
  hashed,     \* bytes given to the hash
  chipId      \* runningChipId(): cached, once it has been read or could not be

walked == <<size, cursor, pos, remaining, segments, hashAppended, xorAccum, hashed>>
imageVars == <<check, walked, chipId>>

Answers == {"not found", "not opened", "too small", "too large", "not read",
            "not an image", "wrong device", "invalid", "ok"}

Answer(a) == check' = a

\* readExact() brings n bytes, all of them hashed.
ReadExact(n) ==
  /\ cursor + n <= size
  /\ cursor' = cursor + n
  /\ hashed' = hashed + n

\* It does not when the file ends before them; the card may fail at any read.
ReadFails(a) ==
  /\ Answer(a)
  /\ UNCHANGED <<walked, chipId>>

\* The file is opened and its size looked at.
Inspect ==
  /\ check \in Answers \cup {"idle"}
  /\ cursor' = 0 /\ hashed' = 0 /\ pos' = 0 /\ remaining' = 0
  /\ segments' = 0 /\ hashAppended' = FALSE /\ xorAccum' = 0
  /\ \/ /\ \E a \in {"not found", "not opened"} : Answer(a)
        /\ size' = 0
     \/ \E bytes \in 0..MaxFile :
          /\ size' = bytes
          /\ \/ bytes < MinBytes /\ Answer("too small")
             \/ bytes >= MinBytes /\ bytes > Limit /\ Answer("too large")
             \/ bytes \in MinBytes..Limit /\ Answer("header")
  /\ UNCHANGED chipId

\* The header: the chip is compared only when this device's could be read.
ReadHeader ==
  /\ check = "header"
  /\ ReadExact(Header)
  /\ pos' = Header
  /\ \E magic, sameChip \in BOOLEAN, n \in 0..MaxSegments + 1, appended \in BOOLEAN :
       /\ chipId' \in IF magic /\ chipId = "not read" THEN {"known", "unknown"} ELSE {chipId}
       /\ \/ ~magic /\ Answer("not an image") /\ UNCHANGED <<segments, hashAppended>>
          \/ /\ magic /\ chipId' = "known" /\ ~sameChip
             /\ Answer("wrong device")
             /\ UNCHANGED <<segments, hashAppended>>
          \/ /\ magic /\ (chipId' = "known" => sameChip) /\ n \notin 1..MaxSegments
             /\ Answer("invalid")
             /\ UNCHANGED <<segments, hashAppended>>
          \/ /\ magic /\ (chipId' = "known" => sameChip) /\ n \in 1..MaxSegments
             /\ Answer("segment")
             /\ segments' = n /\ hashAppended' = appended
  /\ UNCHANGED <<size, remaining, xorAccum>>

\* A segment's header: its length is taken from the file and the sum may wrap.
ReadSegmentHeader ==
  /\ check = "segment" /\ segments > 0
  /\ pos + SegHeader <= size
  /\ ReadExact(SegHeader)
  /\ pos' = pos + SegHeader
  /\ \E dataLen \in 0..Wrap - 1 :
       /\ remaining' = dataLen
       /\ Answer(IF (pos' + dataLen) % Wrap > size THEN "invalid" ELSE "data")
  /\ UNCHANGED <<size, segments, hashAppended, xorAccum, chipId>>

NoRoomForHeader ==
  /\ check = "segment" /\ segments > 0
  /\ pos + SegHeader > size
  /\ Answer("invalid")
  /\ UNCHANGED <<walked, chipId>>

Want == Min({remaining, ImageChunk})

\* Mutant: what could not be read is skipped.
SkipUnread ==
  /\ check = "data" /\ remaining > 0
  /\ cursor' = Min({cursor + Want, size}) /\ hashed' = cursor'
  /\ remaining' = remaining - Want
  /\ pos' = (pos + Want) % Wrap
  /\ \E parity \in 0..1 : xorAccum' = (xorAccum + parity) % 2
  /\ UNCHANGED <<check, size, segments, hashAppended, chipId>>

\* One turn of the loop of feed(); the position moves with it, and is looked at after the last.
Feed ==
  /\ check = "data" /\ remaining > 0
  /\ ReadExact(Want)
  /\ remaining' = remaining - Want
  /\ pos' = (pos + Want) % Wrap
  /\ \E parity \in 0..1 : xorAccum' = (xorAccum + parity) % 2
  /\ UNCHANGED <<check, size, segments, hashAppended, chipId>>

NextSegment ==
  /\ check = "data" /\ remaining = 0
  /\ Answer("segment")
  /\ segments' = segments - 1
  /\ UNCHANGED <<size, cursor, pos, remaining, hashAppended, xorAccum, hashed, chipId>>

PadEnd == ((pos + Align) \div Align) * Align
Expected == PadEnd + (IF hashAppended THEN Trailer ELSE 0)

\* All segments read: the size must be right to the byte, and the last pad byte the checksum.
ReadPadding ==
  /\ check = "segment" /\ segments = 0
  /\ Expected = size
  /\ ReadExact(PadEnd - pos)
  /\ pos' = PadEnd
  /\ \E checksum \in 0..1 :
       Answer(IF checksum # xorAccum THEN "invalid" ELSE IF hashAppended THEN "hash" ELSE "ok")
  /\ UNCHANGED <<size, remaining, segments, hashAppended, xorAccum, chipId>>

WrongSize ==
  /\ check = "segment" /\ segments = 0
  /\ Expected # size
  /\ Answer("invalid")
  /\ UNCHANGED <<walked, chipId>>

\* The hash at the end is not hashed itself.
ReadHash ==
  /\ check = "hash"
  /\ cursor + Trailer <= size
  /\ cursor' = cursor + Trailer
  /\ \E same \in BOOLEAN : Answer(IF same THEN "ok" ELSE "invalid")
  /\ UNCHANGED <<size, pos, remaining, segments, hashAppended, xorAccum, hashed, chipId>>

\* A read that the card fails, or the end of the file cuts short.
ReadFailure ==
  \/ check = "header" /\ ReadFails("not read")
  \/ check = "segment" /\ segments > 0 /\ pos + SegHeader <= size /\ ReadFails("not read")
  \/ check = "data" /\ remaining > 0 /\ ReadFails("not read")
  \/ check = "segment" /\ segments = 0 /\ Expected = size /\ ReadFails("invalid")
  \/ check = "hash" /\ ReadFails("invalid")

ImageInit ==
  /\ check = "idle" /\ chipId = "not read"
  /\ size = 0 /\ cursor = 0 /\ pos = 0 /\ remaining = 0 /\ segments = 0
  /\ hashAppended = FALSE /\ xorAccum = 0 /\ hashed = 0

ImageNext ==
  \/ Inspect \/ ReadHeader \/ ReadSegmentHeader \/ NoRoomForHeader
  \/ Feed \/ NextSegment \/ ReadPadding \/ WrongSize \/ ReadHash \/ ReadFailure

ImageSpec == ImageInit /\ [][ImageNext]_imageVars

-----------------------------------------------------------------------------

\* A segment may claim any 32-bit length and the sum of lengths may wrap past the check
\* against the file's size; but the position never parts from what has been read, so an
\* image is accepted only when it was read to its last byte, the padding is one to
\* sixteen bytes up to a multiple of sixteen, and the hash covers all that precedes it.
\* (inspect(), SdUpdate.cpp:223-292, and the bounds check at :242.)
ImageExact ==
  /\ check \in {"segment", "data", "hash"} => pos = cursor /\ hashed = cursor /\ cursor <= size
  /\ check = "ok" =>
       /\ cursor = size
       /\ hashed = IF hashAppended THEN size - Trailer ELSE size
       /\ pos = hashed /\ pos % Align = 0

=============================================================================
