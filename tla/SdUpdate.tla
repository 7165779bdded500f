------------------------------ MODULE SdUpdate ------------------------------
(***************************************************************************)
(* Flashing a firmware image from the SD card: flash() and switchBoot() of *)
(* src/core/SdUpdate.cpp, with the boot loader and the start-up code that  *)
(* read what they leave in flash (external).                               *)
(*                                                                         *)
(* Flash memory survives; every erase and write may fail and leave part of *)
(* its range undone, and the power may go at any moment, inside them too.  *)
(* A reported failure leaves the user free to try again with any image.    *)
(* An image is a member of a set with a size; inspect() is taken to accept *)
(* exactly the images that are whole.  Sizes are in units of the model.    *)
(***************************************************************************)
EXTENDS Integers

CONSTANTS
  Images,   \* complete firmware images the user may put on the card
  Size,     \* their sizes
  Part,     \* size of an OTA slot
  Sector,   \* SPI_FLASH_SEC_SIZE
  Blk,      \* kBlk: erased at a time
  Chunk,    \* kChunk: copied at a time
  Erased, Junk,  \* contents of flash that belong to no image
  Blank,    \* an otadata entry that is erased or fails its checksum
  NoImage,
  MaxSeq    \* bound: updates are begun only below it

ASSUME SdUpdateAssumption ==
  /\ Blk \in Nat /\ MaxSeq \in Nat
  /\ Part \in Nat \ {0} /\ Sector \in Nat \ {0} /\ Chunk \in Nat \ {0}
  /\ \E n \in 1..Blk : Blk = n * Sector
  /\ \E n \in 1..Blk : Blk = n * Chunk
  /\ Size \in [Images -> 1..Part]
  /\ Erased \notin Images /\ Junk \notin Images /\ NoImage \notin Images
  /\ Erased # Junk

Slots == {0, 1}
Units == 0..Part - 1
Entries == [seq : Nat \ {0}, state : {"New", "Pending", "Valid", "Aborted"}]

ASSUME BlankAssumption == Blank \notin Entries

VARIABLES
  pc,        \* "off", "started", "idle", or where flash() is
  rollback,  \* the boot loader is built with application rollback
  slot,      \* the two OTA slots, unit by unit
  otadata,   \* the two entries that select one of them
  running,   \* the slot this boot runs from
  image, pos, erased,  \* locals of flash()
  next       \* locals of switchBoot(): the entry to write, and where

disk == <<slot, otadata>>
locals == <<image, pos, erased, next>>
vars == <<pc, rollback, disk, running, locals>>

Flashing == {"copy", "eraseEntry", "writeEntry"}

TypeOK ==
  /\ pc \in {"off", "started", "idle", "done"} \cup Flashing
  /\ rollback \in BOOLEAN
  /\ slot \in [Slots -> [Units -> Images \cup {Erased, Junk}]]
  /\ otadata \in [Slots -> Entries \cup {Blank}]
  /\ running \in Slots
  /\ image \in Images \cup {NoImage}
  /\ pos \in 0..Part
  /\ erased \in 0..Part
  /\ next \in [seq : Nat, target : Slots]

----------------------------------------------------------------------------
\* otadata: the usable entry with the highest sequence number selects a slot, and
\* slot 0 is the default.

Usable(e) == e # Blank /\ e.state # "Aborted"

Newest(ota) == {k \in Slots : Usable(ota[k]) /\ \A l \in Slots : Usable(ota[l]) => ota[l].seq <= ota[k].seq}

NoneActive(ota) == Newest(ota) = {}

ActiveIdx(ota) == IF 0 \in Newest(ota) THEN 0 ELSE 1

ActiveSeq(ota) == IF NoneActive(ota) THEN 0 ELSE ota[ActiveIdx(ota)].seq

Selected(ota) == IF NoneActive(ota) THEN 0 ELSE (ActiveSeq(ota) - 1) % 2

Holds(s, i) == \A u \in 0..Size[i] - 1 : slot[s][u] = i

Whole(s) == \E i \in Images : Holds(s, i)

Filled(content) == [u \in Units |-> content]

Init ==
  /\ pc = "off"
  /\ rollback \in BOOLEAN
  /\ slot \in [Slots -> {Filled(i) : i \in Images} \cup {Filled(Erased)}]
  /\ otadata \in [Slots -> [seq : 1..2, state : {"Valid"}] \cup {Blank}]
  /\ Whole(Selected(otadata))
  /\ running = Selected(otadata)
  /\ image = NoImage
  /\ pos = 0
  /\ erased = 0
  /\ next = [seq |-> 0, target |-> 0]

----------------------------------------------------------------------------
\* The boot loader and initArduino().  With rollback a new image is on trial until
\* it confirms itself, and a reset before that rejects it.

Marked(ota, from, to) ==
  [k \in Slots |-> IF ota[k] # Blank /\ ota[k].state = from THEN [ota[k] EXCEPT !.state = to] ELSE ota[k]]

Boot ==
  LET rejected == Marked(otadata, "Pending", "Aborted")
  IN
  /\ pc = "off"
  /\ pc' = "started"
  /\ otadata' = IF rollback THEN Marked(rejected, "New", "Pending") ELSE otadata
  /\ running' = Selected(otadata')
  /\ UNCHANGED <<rollback, slot, locals>>

MarkValid ==
  /\ pc = "started"
  /\ pc' = "idle"
  /\ otadata' = Marked(otadata, "Pending", "Valid")
  /\ UNCHANGED <<rollback, slot, running, locals>>

PowerLost ==
  /\ pc # "off"
  /\ pc' = "off"
  /\ UNCHANGED <<rollback, disk, running, locals>>

----------------------------------------------------------------------------
\* flash(), after inspect() has accepted the image.

Dest == 1 - running  \* nextSlot()

Flash(i) ==
  /\ pc = "idle"
  /\ ActiveSeq(otadata) + 2 <= MaxSeq
  /\ pc' = "copy"
  /\ image' = i
  /\ pos' = 0
  /\ erased' = 0
  /\ UNCHANGED <<rollback, disk, running, next>>

Fails == pc' = "idle"
CutOff == pc' = "off"

\* A range of the slot takes a new content, all of it or, when the operation fails
\* or the power goes, an unknown part of it.
Put(from, to, content) ==
  slot' = [slot EXCEPT ![Dest] = [u \in Units |-> IF u \in from..to - 1 THEN content ELSE @[u]]]

Min2(a, b) == IF a < b THEN a ELSE b

RoundUp(n, unit) == ((n + unit - 1) \div unit) * unit

EraseLen == Min2(RoundUp(Min2(Part - pos, Blk), Sector), Part - pos)

\* Mutant: the block that starts where the last one ended is not erased.
NeedsEraseLate == pos > erased \/ erased = 0

NeedsErase == pos >= erased

EraseRange ==
  /\ pc = "copy" /\ pos < Size[image] /\ NeedsErase
  /\ \/ /\ Put(pos, pos + EraseLen, Erased)
        /\ erased' = pos + EraseLen
        /\ UNCHANGED pc
     \/ /\ Fails \/ CutOff
        /\ Put(pos, pos + EraseLen, Junk)
        /\ UNCHANGED erased
  /\ UNCHANGED <<rollback, otadata, running, image, pos, next>>

Want == Min2(Size[image] - pos, Chunk)

\* Mutant: a short read starts the copy over.
CopyChunkStartsOver ==
  /\ pc = "copy" /\ pos < Size[image] /\ ~NeedsErase
  /\ \/ Put(pos, pos + Want, image) /\ pos' = pos + Want /\ UNCHANGED erased
     \/ UNCHANGED slot /\ pos' = 0 /\ erased' = 0
  /\ UNCHANGED <<pc, rollback, otadata, running, image, next>>

CopyChunk ==
  /\ pc = "copy" /\ pos < Size[image] /\ ~NeedsErase
  /\ \/ /\ Put(pos, pos + Want, image)
        /\ pos' = pos + Want
        /\ UNCHANGED pc
     \/ /\ Fails  \* a short read from the card
        /\ UNCHANGED <<slot, pos>>
     \/ /\ Fails \/ CutOff
        /\ Put(pos, pos + Want, Junk)
        /\ UNCHANGED pos
  /\ UNCHANGED <<rollback, otadata, running, image, erased, next>>

\* switchBoot() reads the entries; its own loop steps the number until it selects
\* the slot just written.

\* Mutant: the number is only incremented.
NextSeqByOne(active) == active + 1

NextSeq(active) == IF active % 2 = Dest THEN active + 1 ELSE active + 2

Target(ota) == IF ~NoneActive(ota) /\ ActiveIdx(ota) = 0 THEN 1 ELSE 0

\* Mutant: the copy loop ends with the last chunk still to go.
SwitchBootEarly ==
  /\ pc = "copy" /\ pos + Chunk >= Size[image]
  /\ pc' = "eraseEntry"
  /\ next' = [seq |-> NextSeq(ActiveSeq(otadata)), target |-> Target(otadata)]
  /\ UNCHANGED <<rollback, disk, running, image, pos, erased>>

SwitchBoot ==
  /\ pc = "copy" /\ pos >= Size[image]
  /\ \/ pc' = "eraseEntry" /\ next' = [seq |-> NextSeq(ActiveSeq(otadata)), target |-> Target(otadata)]
     \/ Fails /\ UNCHANGED next
  /\ UNCHANGED <<rollback, disk, running, image, pos, erased>>

EraseEntry ==
  /\ pc = "eraseEntry"
  /\ \/ pc' = "writeEntry" /\ otadata' = [otadata EXCEPT ![next.target] = Blank]
     \/ (Fails \/ CutOff) /\ otadata' \in {otadata, [otadata EXCEPT ![next.target] = Blank]}
  /\ UNCHANGED <<rollback, slot, running, locals>>

WriteEntry ==
  /\ pc = "writeEntry"
  /\ \/ /\ pc' = "done"
        /\ otadata' = [otadata EXCEPT ![next.target] = [seq |-> next.seq, state |-> "New"]]
     \/ /\ Fails \/ CutOff
        /\ UNCHANGED otadata
  /\ UNCHANGED <<rollback, slot, running, locals>>

\* UpdateScreen shows the outcome and restarts.
Restart ==
  /\ pc = "done"
  /\ pc' = "off"
  /\ UNCHANGED <<rollback, disk, running, locals>>

Working == EraseRange \/ CopyChunk \/ SwitchBoot \/ EraseEntry \/ WriteEntry

Next ==
  \/ Boot \/ MarkValid \/ PowerLost
  \/ \E i \in Images : Flash(i)
  \/ Working
  \/ Restart

\* flash() runs to its end unless the power goes.
Spec == Init /\ [][Next]_vars /\ WF_vars(Working)

----------------------------------------------------------------------------
\* Properties

\* Whatever failed or was cut off, the slot that otadata selects holds a complete
\* image: the device cannot be left without firmware to boot.
Bootable == Whole(Selected(otadata))

\* NOR flash can only be written where it has been erased: every chunk is copied
\* onto erased units of the slot, at block boundaries and at the slot's end too.
WritesErased ==
  pc = "copy" /\ pos < Size[image] /\ ~NeedsErase =>
    \A u \in pos..pos + Want - 1 : u \in Units /\ slot[Dest][u] = Erased

\* flash() ends.
FlashEnds == pc \in Flashing ~> pc \notin Flashing

\* The update is atomic: refinement of AtomicUpdate.
ImageIn(s) == CHOOSE i \in Images : Holds(s, i)

OnTrial ==
  /\ rollback
  /\ ~NoneActive(otadata)
  /\ otadata[ActiveIdx(otadata)].state \in {"New", "Pending"}

Promise == INSTANCE AtomicUpdate WITH
  boots <- ImageIn(Selected(otadata)),
  former <- IF OnTrial THEN ImageIn(1 - Selected(otadata)) ELSE NoImage,
  phase <- IF pc \in Flashing THEN "updating" ELSE IF pc = "done" THEN "done" ELSE "idle",
  wanted <- IF pc \in Flashing THEN image ELSE NoImage

Atomic == Promise!Spec

=============================================================================
