--------------------------- MODULE SdUpdateProofs ---------------------------
(***************************************************************************)
(* Proofs about SdUpdate, for every size of image, slot, block and chunk:  *)
(* what is written has been erased, the device always has a complete image *)
(* to boot, and the update is atomic.                                      *)
(***************************************************************************)
EXTENDS SdUpdate, TLAPS

----------------------------------------------------------------------------
\* Rounding up, as in the computation of eraseLen.

\* Rounding up never rounds down.
LEMMA RoundUpBound ==
  ASSUME NEW n \in Nat, NEW unit \in Nat \ {0}
  PROVE  RoundUp(n, unit) \in Nat /\ RoundUp(n, unit) >= n
<1> DEFINE q == (n + unit - 1) \div unit
<1>1. q \in Nat OBVIOUS
<1>2. q * unit > n + unit - 1 - unit
  <2>1. n + unit - 1 = unit * q + ((n + unit - 1) % unit) OBVIOUS
  <2>2. (n + unit - 1) % unit < unit OBVIOUS
  <2>3. QED BY <2>1, <2>2, <1>1
<1>3. QED BY <1>1, <1>2 DEF RoundUp

\* A multiple is already round.
LEMMA RoundUpMultiple ==
  ASSUME NEW k \in Nat, NEW unit \in Nat \ {0}
  PROVE  RoundUp(k * unit, unit) = k * unit
<1>1. (k * unit + unit - 1) \div unit = k
  OBVIOUS
<1>2. QED BY <1>1 DEF RoundUp

\* A chunk that starts below a multiple of its length ends at most there.
LEMMA ChunkFits ==
  ASSUME NEW j \in Nat, NEW k \in Nat, NEW unit \in Nat \ {0}, k * unit < j * unit
  PROVE  k * unit + unit <= j * unit
<1>1. k < j
  <2>1. SUFFICES ASSUME j <= k PROVE FALSE OBVIOUS
  <2>2. j * unit <= k * unit BY <2>1
  <2>3. QED BY <2>2
<1>2. k + 1 <= j BY <1>1
<1>3. (k + 1) * unit <= j * unit BY <1>2
<1>4. QED BY <1>3

----------------------------------------------------------------------------
\* Which slot otadata selects.

OtaType(ota) == ota \in [Slots -> Entries \cup {Blank}]

\* A usable entry has a sequence number.
LEMMA EntryFacts ==
  ASSUME NEW ota, OtaType(ota), NEW k \in Slots, Usable(ota[k])
  PROVE  ota[k] \in Entries /\ ota[k].seq \in Nat \ {0}
BY DEF OtaType, Usable, Entries

\* The choice depends only on which entries are usable and on their numbers.
LEMMA SameChoice ==
  ASSUME NEW a, NEW b,
         \A k \in Slots : Usable(a[k]) <=> Usable(b[k]),
         \A k \in Slots : Usable(a[k]) => a[k].seq = b[k].seq
  PROVE  /\ NoneActive(a) <=> NoneActive(b)
         /\ ActiveIdx(a) = ActiveIdx(b)
         /\ ActiveSeq(a) = ActiveSeq(b)
         /\ Selected(a) = Selected(b)
         /\ Target(a) = Target(b)
<1>1. Newest(a) = Newest(b) BY DEF Newest
<1>2. /\ NoneActive(a) <=> NoneActive(b)
      /\ ActiveIdx(a) = ActiveIdx(b)
  BY <1>1 DEF NoneActive, ActiveIdx
<1>3. ActiveSeq(a) = ActiveSeq(b)
  <2>1. CASE NoneActive(a) BY <2>1, <1>2 DEF ActiveSeq
  <2>2. CASE ~NoneActive(a)
    <3>1. ActiveIdx(a) \in Newest(a) BY <2>2 DEF NoneActive, ActiveIdx, Newest, Slots
    <3>2. ActiveIdx(a) \in Slots /\ Usable(a[ActiveIdx(a)]) BY <3>1 DEF Newest
    <3>3. QED BY <2>2, <3>2, <1>2 DEF ActiveSeq
  <2>3. QED BY <2>1, <2>2
<1>4. QED BY <1>2, <1>3 DEF Selected, Target

\* One usable entry with the highest number decides alone.
LEMMA ChoiceIs ==
  ASSUME NEW ota, OtaType(ota), NEW k \in Slots, Usable(ota[k]),
         Usable(ota[1 - k]) => ota[1 - k].seq < ota[k].seq
  PROVE  /\ ~NoneActive(ota)
         /\ ActiveIdx(ota) = k
         /\ ActiveSeq(ota) = ota[k].seq
         /\ Selected(ota) = (ota[k].seq - 1) % 2
<1>1. 1 - k \in Slots BY DEF Slots
<1>2. \A l \in Slots : l = k \/ l = 1 - k BY DEF Slots
<1>3. \A l \in Slots : Usable(ota[l]) => ota[l].seq \in Nat BY EntryFacts
<1>4. Newest(ota) = {k} BY <1>1, <1>2, <1>3 DEF Newest
<1>5. ~NoneActive(ota) /\ ActiveIdx(ota) = k BY <1>4 DEF NoneActive, ActiveIdx, Slots
<1>6. QED BY <1>5 DEF ActiveSeq, Selected

\* What otadata selects is a slot, and its number a number.
LEMMA SelectedType ==
  ASSUME NEW ota, OtaType(ota)
  PROVE  Selected(ota) \in Slots /\ ActiveSeq(ota) \in Nat /\ Target(ota) \in Slots
<1>1. CASE NoneActive(ota) BY <1>1 DEF Selected, ActiveSeq, Slots, Target
<1>2. CASE ~NoneActive(ota)
  <2>1. ActiveIdx(ota) \in Newest(ota) BY <1>2 DEF NoneActive, ActiveIdx, Newest, Slots
  <2>2. ota[ActiveIdx(ota)].seq \in Nat \ {0} BY <2>1, EntryFacts DEF Newest
  <2>3. QED BY <1>2, <2>2 DEF Selected, ActiveSeq, Slots, Target
<1>3. QED BY <1>1, <1>2

\* The entry that switchBoot() replaces is not the one in use: making it useless
\* changes nothing.
LEMMA TargetUnused ==
  ASSUME NEW ota, OtaType(ota), NEW e \in Entries \cup {Blank}, ~Usable(e)
  PROVE  LET new == [ota EXCEPT ![Target(ota)] = e] IN
         /\ OtaType(new)
         /\ ActiveSeq(new) = ActiveSeq(ota)
         /\ Selected(new) = Selected(ota)
         /\ Target(new) = Target(ota)
<1> DEFINE t == Target(ota)
           new == [ota EXCEPT ![t] = e]
<1>1. t \in Slots BY SelectedType
<1>2. OtaType(new) BY <1>1 DEF OtaType
<1>3. CASE Usable(ota[t]) /\ ~NoneActive(ota)
  <2>1. ActiveIdx(ota) \in Newest(ota) BY <1>3 DEF NoneActive, ActiveIdx, Newest, Slots
  <2>2. t = 1 - ActiveIdx(ota) /\ ActiveIdx(ota) \in Slots /\ ActiveIdx(ota) # t
    BY <1>3, <2>1 DEF Target, Newest, Slots
  <2>3. Usable(ota[ActiveIdx(ota)]) /\ new[ActiveIdx(ota)] = ota[ActiveIdx(ota)]
    BY <2>1, <2>2 DEF Newest, OtaType
  <2>4. new[t] = e BY <1>1 DEF OtaType
  <2>5. 1 - ActiveIdx(ota) = t BY <2>2
  <2>6. /\ ~NoneActive(new)
        /\ ActiveIdx(new) = ActiveIdx(ota)
        /\ ActiveSeq(new) = new[ActiveIdx(ota)].seq
        /\ Selected(new) = (new[ActiveIdx(ota)].seq - 1) % 2
    <3> HIDE DEF new, t
    <3>1. QED BY <1>2, <2>2, <2>3, <2>4, <2>5, ChoiceIs
  <2>7. QED BY <1>2, <1>3, <2>3, <2>6 DEF ActiveSeq, Selected, Target
<1>4. CASE ~Usable(ota[t]) \/ NoneActive(ota)
  <2>1. ~Usable(ota[t])
    <3>1. SUFFICES ASSUME NoneActive(ota) PROVE ~Usable(ota[t]) BY <1>4
    <3>2. \A k \in Slots : Usable(ota[k]) => ota[k].seq \in Nat BY EntryFacts
    <3>3. QED BY <3>1, <3>2, <1>1 DEF NoneActive, Newest, Slots
  <2>2. \A k \in Slots : Usable(new[k]) <=> Usable(ota[k])
    BY <2>1, <1>1 DEF OtaType
  <2>3. \A k \in Slots : Usable(new[k]) => new[k].seq = ota[k].seq
    BY <2>1, <1>1 DEF OtaType
  <2> HIDE DEF new, t
  <2>4. /\ ActiveSeq(new) = ActiveSeq(ota)
        /\ Selected(new) = Selected(ota)
        /\ Target(new) = Target(ota)
    BY <2>2, <2>3, SameChoice
  <2>5. QED BY <1>2, <2>4 DEF new, t
<1>5. QED BY <1>3, <1>4

\* A newer entry written there is selected.
LEMMA NewerSelected ==
  ASSUME NEW ota, OtaType(ota), NEW n \in Nat, n > ActiveSeq(ota)
  PROVE  LET new == [ota EXCEPT ![Target(ota)] = [seq |-> n, state |-> "New"]] IN
         /\ OtaType(new)
         /\ ~NoneActive(new)
         /\ ActiveIdx(new) = Target(ota)
         /\ Selected(new) = (n - 1) % 2
<1> DEFINE t == Target(ota)
           e == [seq |-> n, state |-> "New"]
           new == [ota EXCEPT ![t] = e]
<1>1. t \in Slots /\ ActiveSeq(ota) \in Nat BY SelectedType
<1>2. e \in Entries BY <1>1 DEF Entries
<1>3. Usable(e) BY <1>2, BlankAssumption DEF Usable
<1>4. OtaType(new) BY <1>1, <1>2 DEF OtaType
<1>5. new[t] = e /\ new[1 - t] = ota[1 - t] /\ 1 - t \in Slots /\ t # 1 - t
  BY <1>1 DEF OtaType, Slots
<1>6. Usable(ota[1 - t]) => ota[1 - t].seq < n
  <2>1. SUFFICES ASSUME Usable(ota[1 - t]) PROVE ota[1 - t].seq < n OBVIOUS
  <2>2. ota[1 - t].seq \in Nat BY <2>1, <1>5, EntryFacts
  <2>3. \A k \in Slots : Usable(ota[k]) => ota[k].seq \in Nat BY EntryFacts
  <2>4. ~NoneActive(ota) BY <2>1, <2>3, <1>5 DEF NoneActive, Newest, Slots
  <2>5. ActiveIdx(ota) \in Newest(ota) BY <2>4 DEF NoneActive, ActiveIdx, Newest, Slots
  <2>6. ota[1 - t].seq <= ActiveSeq(ota) BY <2>1, <2>4, <2>5, <1>5 DEF ActiveSeq, Newest
  <2>7. QED BY <2>2, <2>6, <1>1
<1>7. e.seq = n OBVIOUS
<1> HIDE DEF new, e, t
<1>8. /\ ~NoneActive(new)
      /\ ActiveIdx(new) = t
      /\ Selected(new) = (new[t].seq - 1) % 2
  BY <1>1, <1>3, <1>4, <1>5, <1>6, <1>7, ChoiceIs
<1>9. QED BY <1>4, <1>5, <1>7, <1>8 DEF new, e, t

----------------------------------------------------------------------------
\* Copying.

\* pos and erased run through multiples of the chunk, up to the end of the image
\* and of the slot; behind pos lies the image, before it erased flash.
CopyInv ==
  pc = "copy" =>
    /\ image \in Images
    /\ pos <= Size[image] /\ pos <= erased
    /\ pos = Size[image] \/ \E k \in Nat : pos = k * Chunk
    /\ erased = Part \/ \E k \in Nat : erased = k * Chunk
    /\ \A u \in 0..pos - 1 : slot[Dest][u] = image
    /\ \A u \in pos..erased - 1 : slot[Dest][u] = Erased

CopiedInv ==
  pc \in {"eraseEntry", "writeEntry", "done"} => image \in Images /\ Holds(Dest, image)

\* What the arithmetic needs of the types.
Numbers ==
  /\ running \in Slots
  /\ pos \in 0..Part
  /\ erased \in 0..Part
  /\ slot \in [Slots -> [Units -> Images \cup {Erased, Junk}]]

\* An image is not empty and fits the slot.
LEMMA SizeType ==
  ASSUME NEW i \in Images
  PROVE  Size[i] \in Nat /\ 1 <= Size[i] /\ Size[i] <= Part
BY SdUpdateAssumption

\* The chunk about to be copied lies in the erased range and in the image.
LEMMA WantFits ==
  ASSUME Numbers, CopyInv, pc = "copy", pos < Size[image], ~NeedsErase
  PROVE  /\ Want \in Nat \ {0}
         /\ pos + Want <= erased
         /\ pos + Want <= Size[image]
         /\ pos + Want = Size[image] \/ \E k \in Nat : pos + Want = k * Chunk
<1> USE DEF Numbers
<1>1. Size[image] \in Nat /\ Size[image] <= Part BY SizeType DEF CopyInv
<1>2. Part \in Nat /\ Chunk \in Nat \ {0} BY SdUpdateAssumption
<1>3. pos \in Nat /\ erased \in Nat /\ pos < erased BY <1>2 DEF NeedsErase
<1>4. PICK k \in Nat : pos = k * Chunk BY <1>1, <1>3 DEF CopyInv
<1>5. Want \in Nat \ {0} /\ Want <= Chunk /\ pos + Want <= Size[image]
  BY <1>1, <1>2, <1>3 DEF Want, Min2
<1>6. pos + Want <= erased
  <2>1. CASE erased = Part BY <2>1, <1>1, <1>2, <1>3, <1>5
  <2>2. ASSUME NEW j \in Nat, erased = j * Chunk PROVE pos + Want <= erased
    <3>1. k * Chunk + Chunk <= j * Chunk BY <2>2, <1>2, <1>3, <1>4, ChunkFits
    <3>2. pos + Chunk <= erased BY <3>1, <2>2, <1>4
    <3>3. QED BY <3>2, <1>2, <1>3, <1>5
  <2>3. QED BY <2>1, <2>2 DEF CopyInv
<1>7. pos + Want = Size[image] \/ pos + Want = (k + 1) * Chunk
  <2>1. Want = Size[image] - pos \/ Want = Chunk BY DEF Want, Min2
  <2>2. CASE Want = Chunk
    <3>1. (k + 1) * Chunk = k * Chunk + Chunk BY <1>2
    <3>2. QED BY <2>2, <3>1, <1>4
  <2>3. QED BY <2>1, <2>2, <1>1, <1>3
<1>8. QED BY <1>5, <1>6, <1>7

\* The range about to be erased starts at pos and ends at a chunk or at the slot.
LEMMA EraseFits ==
  ASSUME Numbers, CopyInv, pc = "copy", pos < Size[image], NeedsErase
  PROVE  /\ pos = erased
         /\ EraseLen \in Nat \ {0}
         /\ pos + EraseLen <= Part
         /\ pos + EraseLen = Part \/ \E k \in Nat : pos + EraseLen = k * Chunk
<1> USE DEF Numbers
<1>1. Size[image] \in Nat /\ Size[image] <= Part BY SizeType DEF CopyInv
<1>2. /\ Part \in Nat /\ Chunk \in Nat \ {0} /\ Sector \in Nat \ {0} /\ Blk \in Nat
      /\ \E n \in 1..Blk : Blk = n * Sector
      /\ \E n \in 1..Blk : Blk = n * Chunk
  BY SdUpdateAssumption
<1>3. pos \in Nat /\ erased \in Nat /\ pos = erased /\ pos < Part
  BY <1>1, <1>2 DEF NeedsErase, CopyInv
<1>4. PICK k \in Nat : pos = k * Chunk BY <1>1, <1>3 DEF CopyInv
<1>5. PICK m \in 1..Blk : Blk = m * Chunk BY <1>2
<1>6. CASE Part - pos < Blk
  <2>1. RoundUp(Part - pos, Sector) >= Part - pos /\ RoundUp(Part - pos, Sector) \in Nat
    BY <1>2, <1>3, RoundUpBound
  <2>2. EraseLen = Part - pos BY <1>2, <1>3, <1>6, <2>1 DEF EraseLen, Min2
  <2>3. pos + EraseLen = Part /\ EraseLen \in Nat \ {0} BY <1>2, <1>3, <2>2
  <2>4. pos + EraseLen <= Part BY <1>2, <2>3
  <2>5. QED BY <1>3, <2>3, <2>4, Zenon
<1>7. CASE ~(Part - pos < Blk)
  <2>1. RoundUp(Blk, Sector) = Blk BY <1>2, RoundUpMultiple
  <2>2. EraseLen = Blk BY <1>2, <1>3, <1>7, <2>1 DEF EraseLen, Min2
  <2>3. pos + Blk = (k + m) * Chunk
    <3>1. (k + m) * Chunk = k * Chunk + m * Chunk BY <1>2
    <3>2. QED BY <3>1, <1>4, <1>5
  <2>4. EraseLen \in Nat \ {0} /\ pos + EraseLen <= Part
    <3>1. Blk > 0 BY <1>2, <1>5
    <3>2. QED BY <3>1, <1>2, <1>3, <1>7, <2>2
  <2>5. \E j \in Nat : pos + EraseLen = j * Chunk
    <3>1. k + m \in Nat BY <1>2, <1>5
    <3>2. pos + EraseLen = (k + m) * Chunk BY <2>2, <2>3
    <3>3. QED BY <3>1, <3>2, Zenon
  <2>6. QED BY <1>3, <2>4, <2>5, Zenon
<1>8. QED BY <1>6, <1>7

\* An erase or a write touches its range of the slot being updated, nothing else.
PutResult(from, to, content) ==
  /\ slot' \in [Slots -> [Units -> Images \cup {Erased, Junk}]]
  /\ slot'[running] = slot[running]
  /\ \A u \in Units : slot'[Dest][u] = IF u \in from..to - 1 THEN content ELSE slot[Dest][u]

\* The units outside the range, and the other slot, keep their content.
LEMMA PutEffect ==
  ASSUME Numbers, NEW from \in Nat, NEW to \in Nat, to <= Part,
         NEW content \in Images \cup {Erased, Junk}, Put(from, to, content)
  PROVE  PutResult(from, to, content)
<1>1. Dest \in Slots /\ Dest # running /\ running \in Slots BY DEF Numbers, Dest, Slots
<1>2. slot \in [Slots -> [Units -> Images \cup {Erased, Junk}]] BY DEF Numbers
<1> DEFINE new == [u \in Units |-> IF u \in from..to - 1 THEN content ELSE slot[Dest][u]]
<1>3. slot' = [slot EXCEPT ![Dest] = new] BY DEF Put
<1>4. new \in [Units -> Images \cup {Erased, Junk}] BY <1>1, <1>2
<1>5. slot'[Dest] = new BY <1>1, <1>2, <1>3
<1>6. QED BY <1>1, <1>2, <1>3, <1>4, <1>5 DEF PutResult

\* The part of it that a failed operation needs.
LEMMA PutKeeps ==
  ASSUME Numbers, NEW from \in Nat, NEW to \in Nat, to <= Part,
         NEW content \in Images \cup {Erased, Junk}, Put(from, to, content)
  PROVE  /\ slot' \in [Slots -> [Units -> Images \cup {Erased, Junk}]]
         /\ slot'[running] = slot[running]
BY PutEffect DEF PutResult

\* EraseRange keeps the copy in order.
LEMMA EraseStep ==
  ASSUME Numbers, CopyInv, EraseRange
  PROVE  Numbers' /\ CopyInv' /\ CopiedInv' /\ slot'[running] = slot[running]
<1> DEFINE len == EraseLen
<1>1. /\ pc = "copy" /\ pos < Size[image] /\ NeedsErase
      /\ UNCHANGED <<otadata, running, image, pos>>
  BY DEF EraseRange
<1>2. /\ pos = erased /\ len \in Nat \ {0} /\ pos + len <= Part
      /\ pos + len = Part \/ \E k \in Nat : pos + len = k * Chunk
  BY <1>1, EraseFits
<1>3. pos \in Nat /\ pos + len \in Nat /\ Part \in Nat /\ Size[image] <= Part /\ Size[image] \in Nat
  BY <1>1, <1>2, SdUpdateAssumption, SizeType DEF Numbers, CopyInv
<1>4. Dest' = Dest BY <1>1 DEF Dest
<1> HIDE DEF len
<1>5. CASE Put(pos, pos + len, Erased) /\ erased' = pos + len /\ pc' = pc
  <2>1. PutResult(pos, pos + len, Erased)
    <3>1. Erased \in Images \cup {Erased, Junk} /\ pos + len <= Part BY <1>2
    <3>2. Put(pos, pos + len, Erased) BY <1>5
    <3>3. QED BY <1>3, <3>1, <3>2, PutEffect
  <2>2. Numbers' BY <1>1, <1>2, <1>3, <1>5, <2>1 DEF Numbers, PutResult
  <2>3. \A u \in 0..pos - 1 : slot'[Dest][u] = image
    BY <1>1, <1>2, <1>3, <2>1 DEF CopyInv, Units, PutResult
  <2>4. \A u \in pos..pos + len - 1 : slot'[Dest][u] = Erased
    BY <1>2, <1>3, <2>1 DEF Units, PutResult
  <2>5. CopyInv' BY <1>1, <1>2, <1>3, <1>4, <1>5, <2>3, <2>4 DEF CopyInv
  <2>6. QED BY <1>1, <1>5, <2>1, <2>2, <2>5 DEF CopiedInv, PutResult
<1>6. CASE Put(pos, pos + len, Junk) /\ erased' = erased /\ pc' \in {"idle", "off"}
  <2>1. /\ slot' \in [Slots -> [Units -> Images \cup {Erased, Junk}]]
        /\ slot'[running] = slot[running]
    <3>1. Junk \in Images \cup {Erased, Junk} /\ pos + len <= Part BY <1>2
    <3>2. Put(pos, pos + len, Junk) BY <1>6
    <3>3. QED BY <1>3, <3>1, <3>2, PutKeeps
  <2>2. QED BY <1>1, <1>6, <2>1 DEF Numbers, CopyInv, CopiedInv
<1>7. QED BY <1>5, <1>6 DEF EraseRange, Fails, CutOff, len

\* CopyChunk keeps the copy in order.
LEMMA CopyStep ==
  ASSUME Numbers, CopyInv, CopyChunk
  PROVE  Numbers' /\ CopyInv' /\ CopiedInv' /\ slot'[running] = slot[running]
<1> DEFINE len == Want
<1>1. /\ pc = "copy" /\ pos < Size[image] /\ ~NeedsErase
      /\ UNCHANGED <<otadata, running, image, erased>>
  BY DEF CopyChunk
<1>2. /\ len \in Nat \ {0} /\ pos + len <= erased /\ pos + len <= Size[image]
      /\ pos + len = Size[image] \/ \E k \in Nat : pos + len = k * Chunk
  BY <1>1, WantFits
<1>3. /\ pos \in Nat /\ pos + len \in Nat /\ Part \in Nat /\ erased \in Nat /\ erased <= Part
      /\ Size[image] <= Part /\ Size[image] \in Nat /\ image \in Images
  BY <1>1, <1>2, SdUpdateAssumption, SizeType DEF Numbers, CopyInv
<1>4. Dest' = Dest BY <1>1 DEF Dest
<1> HIDE DEF len
<1>5. CASE Put(pos, pos + len, image) /\ pos' = pos + len /\ pc' = pc
  <2>1. PutResult(pos, pos + len, image)
    <3>1. image \in Images \cup {Erased, Junk} /\ pos + len <= Part BY <1>2, <1>3
    <3>2. Put(pos, pos + len, image) BY <1>5
    <3>3. QED BY <1>3, <3>1, <3>2, PutEffect
  <2>2. Numbers' BY <1>1, <1>2, <1>3, <1>5, <2>1 DEF Numbers, PutResult
  <2>3. \A u \in 0..pos + len - 1 : slot'[Dest][u] = image
    BY <1>1, <1>2, <1>3, <2>1 DEF CopyInv, Units, PutResult
  <2>4. \A u \in pos + len..erased - 1 : slot'[Dest][u] = Erased
    BY <1>1, <1>2, <1>3, <2>1 DEF CopyInv, Units, PutResult
  <2>5. CopyInv' BY <1>1, <1>2, <1>3, <1>4, <1>5, <2>3, <2>4 DEF CopyInv
  <2>6. QED BY <1>1, <1>5, <2>1, <2>2, <2>5 DEF CopiedInv, PutResult
<1>6. CASE slot' = slot /\ pos' = pos /\ pc' = "idle"
  BY <1>1, <1>6 DEF Numbers, CopyInv, CopiedInv
<1>7. CASE Put(pos, pos + len, Junk) /\ pos' = pos /\ pc' \in {"idle", "off"}
  <2>1. /\ slot' \in [Slots -> [Units -> Images \cup {Erased, Junk}]]
        /\ slot'[running] = slot[running]
    <3>1. Junk \in Images \cup {Erased, Junk} /\ pos + len <= Part BY <1>2, <1>3
    <3>2. Put(pos, pos + len, Junk) BY <1>7
    <3>3. QED BY <1>3, <3>1, <3>2, PutKeeps
  <2>2. QED BY <1>1, <1>7, <2>1 DEF Numbers, CopyInv, CopiedInv
<1>8. QED BY <1>5, <1>6, <1>7 DEF CopyChunk, Fails, CutOff, len

----------------------------------------------------------------------------
\* The other actions, and what is written has been erased.

UpdateInv == Numbers /\ CopyInv /\ CopiedInv

\* Nothing is being copied at first.
LEMMA UpdateInitial == Init => UpdateInv
<1> SUFFICES ASSUME Init PROVE UpdateInv OBVIOUS
<1>1. Part \in Nat /\ OtaType(otadata)
  BY SdUpdateAssumption DEF Init, OtaType, Entries
<1>2. Numbers
  <2>1. running \in Slots BY <1>1, SelectedType DEF Init
  <2>2. slot \in [Slots -> [Units -> Images \cup {Erased, Junk}]] BY DEF Init, Filled
  <2>3. pos \in 0..Part /\ erased \in 0..Part BY <1>1 DEF Init
  <2>4. QED BY <2>1, <2>2, <2>3 DEF Numbers
<1>3. QED BY <1>2 DEF Init, UpdateInv, CopyInv, CopiedInv

\* Every step but Boot keeps to the slot that is being updated.
LEMMA UpdateStep ==
  ASSUME UpdateInv, OtaType(otadata)', [Next]_vars
  PROVE  UpdateInv' /\ (slot' = slot \/ (pc = "copy" /\ slot'[running] = slot[running]))
<1> USE DEF UpdateInv
<1>1. CASE Boot
  <2>1. running' \in Slots BY <1>1, SelectedType DEF Boot, OtaType
  <2>2. QED BY <1>1, <2>1 DEF Boot, locals, Numbers, CopyInv, CopiedInv
<1>2. CASE MarkValid \/ PowerLost
  BY <1>2 DEF MarkValid, PowerLost, disk, locals, Numbers, CopyInv, CopiedInv
<1>3. ASSUME NEW i \in Images, Flash(i) PROVE UpdateInv' /\ slot' = slot
  <2>1. /\ pc' = "copy" /\ image' = i /\ pos' = 0 /\ erased' = 0
        /\ slot' = slot /\ running' = running
    BY <1>3 DEF Flash, disk
  <2>2. Part \in Nat /\ Chunk \in Nat /\ Size[i] \in Nat BY SizeType, SdUpdateAssumption
  <2>3. 0 = 0 * Chunk BY <2>2
  <2>4. Numbers' BY <2>1, <2>2 DEF Numbers
  <2>5. CopyInv' BY <2>1, <2>2, <2>3 DEF CopyInv
  <2>6. QED BY <2>1, <2>4, <2>5 DEF CopiedInv
<1>4. CASE EraseRange BY <1>4, EraseStep DEF EraseRange
<1>5. CASE CopyChunk BY <1>5, CopyStep DEF CopyChunk
<1>6. CASE SwitchBoot
  <2>1. /\ pc = "copy" /\ pos >= Size[image] /\ pc' \in {"eraseEntry", "idle"}
        /\ UNCHANGED <<slot, running, image, pos, erased>>
    BY <1>6 DEF SwitchBoot, Fails, disk
  <2>2. image \in Images /\ pos \in Nat /\ Size[image] \in Nat /\ pos = Size[image]
    <3>1. image \in Images /\ pos <= Size[image] BY <2>1 DEF CopyInv
    <3>2. pos \in Nat BY SdUpdateAssumption DEF Numbers
    <3>3. Size[image] \in Nat BY <3>1, SizeType
    <3>4. pos = Size[image] BY <2>1, <3>1, <3>2, <3>3
    <3>5. QED BY <3>1, <3>2, <3>3, <3>4
  <2>3. Holds(Dest, image) BY <2>1, <2>2 DEF CopyInv, Holds
  <2>4. QED BY <2>1, <2>2, <2>3 DEF Numbers, CopyInv, CopiedInv, Holds, Dest
<1>7. CASE EraseEntry \/ WriteEntry
  <2>1. /\ pc \in {"eraseEntry", "writeEntry"}
        /\ pc' \in {"writeEntry", "done", "idle", "off"}
        /\ UNCHANGED <<slot, running, image, pos, erased>>
    BY <1>7 DEF EraseEntry, WriteEntry, Fails, CutOff, locals
  <2>2. QED BY <2>1 DEF Numbers, CopyInv, CopiedInv, Holds, Dest
<1>8. CASE Restart BY <1>8 DEF Restart, disk, locals, Numbers, CopyInv, CopiedInv
<1>9. CASE UNCHANGED vars
  BY <1>9 DEF vars, disk, locals, Numbers, CopyInv, CopiedInv, Holds, Dest, NeedsErase
<1>10. QED BY <1>1, <1>2, <1>3, <1>4, <1>5, <1>6, <1>7, <1>8, <1>9 DEF Next, Working

----------------------------------------------------------------------------
\* Types.

\* Changing the state of entries changes neither which are blank nor their numbers.
LEMMA MarkedEffect ==
  ASSUME NEW ota, OtaType(ota), NEW from \in {"New", "Pending", "Valid", "Aborted"},
         NEW to \in {"New", "Pending", "Valid", "Aborted"}
  PROVE  /\ OtaType(Marked(ota, from, to))
         /\ \A k \in Slots :
              /\ Marked(ota, from, to)[k] = Blank <=> ota[k] = Blank
              /\ ota[k] # Blank =>
                   /\ ota[k].state \in {"New", "Pending", "Valid", "Aborted"}
                   /\ Marked(ota, from, to)[k].seq = ota[k].seq
                   /\ Marked(ota, from, to)[k].state = IF ota[k].state = from THEN to ELSE ota[k].state
<1> DEFINE new == Marked(ota, from, to)
<1>1. ASSUME NEW k \in Slots, ota[k] # Blank
      PROVE  /\ new[k] \in Entries
             /\ ota[k].state \in {"New", "Pending", "Valid", "Aborted"}
             /\ new[k].seq = ota[k].seq
             /\ new[k].state = IF ota[k].state = from THEN to ELSE ota[k].state
  <2>1. ota[k] \in Entries BY <1>1 DEF OtaType
  <2>2. new[k] = IF ota[k].state = from THEN [ota[k] EXCEPT !.state = to] ELSE ota[k]
    BY <1>1 DEF Marked
  <2>3. QED BY <2>1, <2>2 DEF Entries
<1>2. \A k \in Slots : ota[k] = Blank => new[k] = Blank BY DEF Marked
<1>3. \A k \in Slots : new[k] = Blank => ota[k] = Blank BY <1>1, BlankAssumption
<1>4. OtaType(new)
  <2>1. new = [k \in Slots |-> new[k]] BY DEF Marked
  <2>2. \A k \in Slots : new[k] \in Entries \cup {Blank} BY <1>1, <1>2
  <2>3. QED BY <2>1, <2>2 DEF OtaType
<1>5. QED BY <1>1, <1>2, <1>3, <1>4

\* The number that switchBoot() writes is new, and selects the slot just written.
LEMMA NextSeqFacts ==
  ASSUME running \in Slots, NEW a \in Nat
  PROVE  NextSeq(a) \in Nat /\ NextSeq(a) > a /\ (NextSeq(a) - 1) % 2 = Dest
BY DEF NextSeq, Dest, Slots

\* The state of flash() between reading the entries and replacing one.
NextInv ==
  /\ pc \in Flashing \cup {"idle", "started"} => running = Selected(otadata)
  /\ pc \in {"eraseEntry", "writeEntry"} =>
       next.target = Target(otadata) /\ next.seq = NextSeq(ActiveSeq(otadata))

\* The device starts in a well-typed state.
LEMMA TypeInitial == Init => TypeOK /\ NextInv
<1> SUFFICES ASSUME Init PROVE TypeOK /\ NextInv OBVIOUS
<1>1. OtaType(otadata) BY DEF Init, OtaType, Entries
<1>2. Numbers BY UpdateInitial DEF UpdateInv
<1>3. next \in [seq : Nat, target : Slots] BY DEF Init, Slots
<1>4. /\ pc = "off" /\ rollback \in BOOLEAN /\ image = NoImage BY DEF Init
<1>5. QED BY <1>1, <1>2, <1>3, <1>4 DEF TypeOK, OtaType, Numbers, NextInv, Flashing

\* Every step keeps otadata well-formed and the locals of switchBoot() true of it.
LEMMA OtaStep ==
  ASSUME TypeOK, NextInv, [Next]_vars
  PROVE  OtaType(otadata)' /\ NextInv'
<1>1. OtaType(otadata) BY DEF TypeOK, OtaType
<1>2. running \in Slots BY DEF TypeOK
<1>3. Selected(otadata) \in Slots /\ ActiveSeq(otadata) \in Nat /\ Target(otadata) \in Slots
  BY <1>1, SelectedType
<1>4. CASE Boot
  <2>1. pc' = "started" /\ running' = Selected(otadata') BY <1>4 DEF Boot
  <2>2. OtaType(otadata') BY <1>1, <1>4, MarkedEffect DEF Boot
  <2>3. QED BY <2>1, <2>2 DEF NextInv, OtaType, Flashing
<1>5. CASE MarkValid
  <2>1. /\ pc = "started" /\ pc' = "idle" /\ running' = running
        /\ otadata' = Marked(otadata, "Pending", "Valid")
    BY <1>5 DEF MarkValid
  <2>2. OtaType(otadata') BY <1>1, <2>1, MarkedEffect
  <2>3. Selected(otadata') = Selected(otadata)
    <3>1. \A k \in Slots : Usable(otadata'[k]) <=> Usable(otadata[k])
      BY <1>1, <2>1, MarkedEffect DEF Usable
    <3>2. \A k \in Slots : Usable(otadata'[k]) => otadata'[k].seq = otadata[k].seq
      BY <1>1, <2>1, MarkedEffect DEF Usable
    <3>3. QED BY <3>1, <3>2, SameChoice
  <2>4. QED BY <2>1, <2>2, <2>3 DEF NextInv, OtaType
<1>6. CASE PowerLost \/ Restart
  BY <1>1, <1>6 DEF PowerLost, Restart, disk, NextInv, Flashing, OtaType
<1>7. CASE (\E i \in Images : Flash(i)) \/ EraseRange \/ CopyChunk
  <2>1. /\ pc \in {"idle", "copy"} /\ pc' \in {"copy", "idle", "off"}
        /\ otadata' = otadata /\ running' = running
    BY <1>7 DEF Flash, EraseRange, CopyChunk, disk, Fails, CutOff
  <2>2. QED BY <1>1, <2>1 DEF NextInv, Flashing, OtaType
<1>8. CASE SwitchBoot
  <2>1. pc = "copy" /\ otadata' = otadata /\ running' = running BY <1>8 DEF SwitchBoot, disk
  <2>2. CASE pc' = "eraseEntry" /\ next' = [seq |-> NextSeq(ActiveSeq(otadata)), target |-> Target(otadata)]
    BY <1>1, <2>1, <2>2 DEF NextInv, Flashing, OtaType, NextSeq, Dest
  <2>3. CASE pc' = "idle" BY <1>1, <2>1, <2>3 DEF NextInv, Flashing, OtaType
  <2>4. QED BY <1>8, <2>2, <2>3 DEF SwitchBoot, Fails
<1>9. CASE EraseEntry
  <2>1. /\ pc = "eraseEntry" /\ pc' \in {"writeEntry", "idle", "off"}
        /\ running' = running /\ next' = next
        /\ otadata' \in {otadata, [otadata EXCEPT ![next.target] = Blank]}
        /\ next.target = Target(otadata) /\ next.seq = NextSeq(ActiveSeq(otadata))
        /\ running = Selected(otadata)
    BY <1>9 DEF EraseEntry, locals, Fails, CutOff, NextInv, Flashing
  <2>2. /\ OtaType(otadata') /\ Selected(otadata') = Selected(otadata)
        /\ ActiveSeq(otadata') = ActiveSeq(otadata) /\ Target(otadata') = Target(otadata)
    <3>1. CASE otadata' = otadata BY <1>1, <3>1
    <3>2. CASE otadata' = [otadata EXCEPT ![Target(otadata)] = Blank]
      <4>1. ~Usable(Blank) /\ Blank \in Entries \cup {Blank} BY DEF Usable
      <4>2. QED BY <1>1, <3>2, <4>1, TargetUnused
    <3>3. QED BY <2>1, <3>1, <3>2
  <2>3. QED BY <2>1, <2>2 DEF NextInv, OtaType, NextSeq, Dest, Flashing
<1>10. CASE WriteEntry
  <2>1. /\ pc = "writeEntry" /\ pc' \in {"done", "idle", "off"} /\ running' = running
        /\ next.target = Target(otadata) /\ next.seq = NextSeq(ActiveSeq(otadata))
        /\ running = Selected(otadata)
    BY <1>10 DEF WriteEntry, locals, Fails, CutOff, NextInv, Flashing
  <2>2. CASE pc' = "done" /\ otadata' = [otadata EXCEPT ![next.target] = [seq |-> next.seq, state |-> "New"]]
    <3>1. next.seq \in Nat /\ next.seq > ActiveSeq(otadata) BY <1>2, <1>3, <2>1, NextSeqFacts
    <3>2. OtaType(otadata') BY <1>1, <2>1, <2>2, <3>1, NewerSelected
    <3>3. QED BY <2>2, <3>2 DEF NextInv, OtaType, Flashing
  <2>3. CASE pc' \in {"idle", "off"} /\ otadata' = otadata
    BY <1>1, <2>1, <2>3 DEF NextInv, OtaType, Flashing
  <2>4. QED BY <1>10, <2>2, <2>3 DEF WriteEntry, Fails, CutOff
<1>11. CASE UNCHANGED vars
  BY <1>1, <1>11 DEF vars, disk, locals, NextInv, OtaType, NextSeq, Dest
<1>12. QED BY <1>4, <1>5, <1>6, <1>7, <1>8, <1>9, <1>10, <1>11 DEF Next, Working

IInv == TypeOK /\ NextInv /\ UpdateInv

\* The invariant holds at first.
LEMMA IInitial == Init => IInv
BY TypeInitial, UpdateInitial DEF IInv

\* Every step keeps the invariant.
LEMMA IStep ==
  ASSUME IInv, [Next]_vars
  PROVE  IInv' /\ (slot' = slot \/ (pc = "copy" /\ slot'[running] = slot[running]))
<1>1. OtaType(otadata)' /\ NextInv' BY OtaStep DEF IInv
<1>2. UpdateInv' /\ (slot' = slot \/ (pc = "copy" /\ slot'[running] = slot[running]))
  BY <1>1, UpdateStep DEF IInv
<1>3. pc' \in {"off", "started", "idle", "done"} \cup Flashing
  BY DEF IInv, TypeOK, Next, vars, Boot, MarkValid, PowerLost, Flash, Working, EraseRange,
         CopyChunk, SwitchBoot, EraseEntry, WriteEntry, Restart, Fails, CutOff, Flashing
<1>4. rollback' \in BOOLEAN /\ rollback' = rollback
  <2>1. rollback' = rollback
    BY DEF Next, vars, Boot, MarkValid, PowerLost, Flash, Working, EraseRange,
           CopyChunk, SwitchBoot, EraseEntry, WriteEntry, Restart
  <2>2. rollback \in BOOLEAN BY DEF IInv, TypeOK
  <2>3. QED BY <2>1, <2>2, Zenon
<1>5. image' \in Images \cup {NoImage}
  <2>1. image' = image \/ image' \in Images
    BY DEF Next, vars, Boot, MarkValid, PowerLost, Flash, Working, EraseRange,
           CopyChunk, SwitchBoot, EraseEntry, WriteEntry, Restart, locals
  <2>2. QED BY <2>1 DEF IInv, TypeOK
<1>6. next' \in [seq : Nat, target : Slots]
  <2>1. ActiveSeq(otadata) \in Nat /\ Target(otadata) \in Slots /\ running \in Slots
    BY SelectedType DEF IInv, TypeOK, OtaType
  <2>2. NextSeq(ActiveSeq(otadata)) \in Nat BY <2>1, NextSeqFacts
  <2>3. next' = next \/ next' = [seq |-> NextSeq(ActiveSeq(otadata)), target |-> Target(otadata)]
    BY DEF Next, vars, Boot, MarkValid, PowerLost, Flash, Working, EraseRange,
           CopyChunk, SwitchBoot, EraseEntry, WriteEntry, Restart, locals
  <2>4. next \in [seq : Nat, target : Slots] BY DEF IInv, TypeOK
  <2>5. QED BY <2>1, <2>2, <2>3, <2>4
<1>7. TypeOK' BY <1>1, <1>2, <1>3, <1>4, <1>5, <1>6 DEF TypeOK, UpdateInv, Numbers, OtaType
<1>8. QED BY <1>1, <1>2, <1>7 DEF IInv

\* Every variable of flash(), of the flash memory and of the boot loader keeps its
\* type; in particular the offsets of flash() stay within the slot.
THEOREM TypeCorrect == Spec => []TypeOK
<1>1. IInv /\ [Next]_vars => IInv' BY IStep
<1>2. IInv => TypeOK BY DEF IInv
<1>3. QED BY IInitial, <1>1, <1>2, PTL DEF Spec

\* flash() writes only where it has erased, whatever the sizes of the image, of the
\* slot, of the erase block and of the chunk.
THEOREM ErasedFirst == Spec => []WritesErased
<1>1. IInv /\ [Next]_vars => IInv' BY IStep
<1>2. IInv => WritesErased
  <2>1. SUFFICES ASSUME IInv, pc = "copy", pos < Size[image], ~NeedsErase,
                        NEW u \in pos..pos + Want - 1
                 PROVE  u \in Units /\ slot[Dest][u] = Erased
    BY DEF WritesErased
  <2>2. Want \in Nat \ {0} /\ pos + Want <= erased BY <2>1, WantFits DEF IInv, UpdateInv
  <2>3. pos \in Nat /\ erased \in Nat /\ erased <= Part /\ Part \in Nat
    BY <2>1, SdUpdateAssumption DEF IInv, UpdateInv, Numbers
  <2>4. u \in pos..erased - 1 /\ u \in Units BY <2>1, <2>2, <2>3 DEF Units
  <2>5. QED BY <2>1, <2>4 DEF IInv, UpdateInv, CopyInv
<1>3. QED BY IInitial, <1>1, <1>2, PTL DEF Spec

----------------------------------------------------------------------------
\* Rollback, and the image that boots.

HasState(ota, state) == \E k \in Slots : ota[k] # Blank /\ ota[k].state = state

\* What otadata becomes if the images on trial are rejected.
Untried(ota) == Marked(Marked(ota, "Pending", "Aborted"), "New", "Aborted")

\* With rollback, an image on trial is the one selected, and the other slot holds
\* the image to go back to.
TrialInv ==
  rollback /\ (HasState(otadata, "New") \/ HasState(otadata, "Pending")) =>
    /\ ~(HasState(otadata, "New") /\ HasState(otadata, "Pending"))
    /\ OnTrial
    /\ Selected(Untried(otadata)) = 1 - Selected(otadata)
    /\ Whole(1 - Selected(otadata))
    /\ pc \in {"off", "started", "done"}
    /\ pc = "started" => ~HasState(otadata, "New")

BootInv == IInv /\ TrialInv /\ Bootable

\* Entries that agree on what is blank, on their numbers and on which are rejected
\* make the same choice.
LEMMA AgreeSelected ==
  ASSUME NEW a, NEW b,
         \A k \in Slots : a[k] = Blank <=> b[k] = Blank,
         \A k \in Slots : a[k] # Blank =>
           /\ a[k].seq = b[k].seq
           /\ a[k].state = "Aborted" <=> b[k].state = "Aborted"
  PROVE  /\ Selected(a) = Selected(b)
         /\ NoneActive(a) <=> NoneActive(b)
         /\ ActiveIdx(a) = ActiveIdx(b)
<1>1. \A k \in Slots : Usable(a[k]) <=> Usable(b[k]) BY DEF Usable
<1>2. \A k \in Slots : Usable(a[k]) => a[k].seq = b[k].seq BY DEF Usable
<1>3. QED BY <1>1, <1>2, SameChoice

\* Untried rejects the images on trial and nothing else.
LEMMA UntriedEffect ==
  ASSUME NEW ota, OtaType(ota)
  PROVE  /\ OtaType(Untried(ota))
         /\ \A k \in Slots :
              /\ Untried(ota)[k] = Blank <=> ota[k] = Blank
              /\ ota[k] # Blank =>
                   /\ Untried(ota)[k].seq = ota[k].seq
                   /\ Untried(ota)[k].state =
                        IF ota[k].state \in {"New", "Pending"} THEN "Aborted" ELSE ota[k].state
<1> DEFINE mid == Marked(ota, "Pending", "Aborted")
<1>1. /\ OtaType(mid)
      /\ \A k \in Slots :
           /\ mid[k] = Blank <=> ota[k] = Blank
           /\ ota[k] # Blank =>
                /\ mid[k].seq = ota[k].seq
                /\ mid[k].state = IF ota[k].state = "Pending" THEN "Aborted" ELSE ota[k].state
  BY MarkedEffect
<1>2. Untried(ota) = Marked(mid, "New", "Aborted") BY DEF Untried
<1> HIDE DEF mid
<1>3. /\ OtaType(Untried(ota))
      /\ \A k \in Slots :
           /\ Untried(ota)[k] = Blank <=> mid[k] = Blank
           /\ mid[k] # Blank =>
                /\ Untried(ota)[k].seq = mid[k].seq
                /\ Untried(ota)[k].state = IF mid[k].state = "New" THEN "Aborted" ELSE mid[k].state
  BY <1>1, <1>2, MarkedEffect
<1>4. QED BY <1>1, <1>3

Trial(ota) == HasState(ota, "New") \/ HasState(ota, "Pending")

\* OnTrial is about an entry that is there.
LEMMA OnTrialHas ==
  ASSUME OnTrial
  PROVE  rollback /\ Trial(otadata)
<1>1. rollback /\ ~NoneActive(otadata) /\ otadata[ActiveIdx(otadata)].state \in {"New", "Pending"}
  BY DEF OnTrial
<1>2. ActiveIdx(otadata) \in Newest(otadata) BY <1>1 DEF NoneActive, ActiveIdx, Newest, Slots
<1>3. ActiveIdx(otadata) \in Slots /\ otadata[ActiveIdx(otadata)] # Blank
  BY <1>2 DEF Newest, Usable
<1>4. QED BY <1>1, <1>3 DEF Trial, HasState

\* A start either keeps the image that boots, or rejects the one on trial.
LEMMA BootOutcome ==
  ASSUME BootInv, Boot
  PROVE  /\ TrialInv'
         /\ \/ Selected(otadata') = Selected(otadata) /\ (OnTrial' <=> OnTrial)
            \/ /\ OnTrial /\ ~OnTrial'
               /\ Selected(otadata') = 1 - Selected(otadata)
               /\ Whole(1 - Selected(otadata))
<1>1. OtaType(otadata) BY DEF BootInv, IInv, TypeOK, OtaType
<1>2. pc' = "started" /\ slot' = slot /\ rollback' = rollback BY DEF Boot
<1>3. CASE ~rollback
  <2>1. otadata' = otadata BY <1>3 DEF Boot
  <2>2. QED BY <1>2, <1>3, <2>1 DEF TrialInv, OnTrial
<1>4. CASE rollback
  <2> DEFINE rejected == Marked(otadata, "Pending", "Aborted")
             new == Marked(rejected, "New", "Pending")
  <2>1. otadata' = new BY <1>4 DEF Boot
  <2>2. /\ OtaType(rejected)
        /\ \A k \in Slots :
             /\ rejected[k] = Blank <=> otadata[k] = Blank
             /\ otadata[k] # Blank =>
                  /\ rejected[k].seq = otadata[k].seq
                  /\ rejected[k].state = IF otadata[k].state = "Pending" THEN "Aborted" ELSE otadata[k].state
    BY <1>1, MarkedEffect
  <2>3. /\ OtaType(new)
        /\ \A k \in Slots :
             /\ new[k] = Blank <=> otadata[k] = Blank
             /\ otadata[k] # Blank =>
                  /\ new[k].seq = otadata[k].seq
                  /\ new[k].state = IF otadata[k].state = "Pending" THEN "Aborted"
                                    ELSE IF otadata[k].state = "New" THEN "Pending"
                                    ELSE otadata[k].state
    <3> HIDE DEF rejected
    <3>1. /\ OtaType(new)
          /\ \A k \in Slots :
               /\ new[k] = Blank <=> rejected[k] = Blank
               /\ rejected[k] # Blank =>
                    /\ new[k].seq = rejected[k].seq
                    /\ new[k].state = IF rejected[k].state = "New" THEN "Pending" ELSE rejected[k].state
      BY <2>2, MarkedEffect
    <3>2. QED BY <2>2, <3>1
  <2> HIDE DEF new, rejected
  <2>4. ~HasState(new, "New") BY <2>3 DEF HasState
  <2>5. CASE HasState(otadata, "Pending")
    <3>1. /\ ~HasState(otadata, "New") /\ OnTrial
          /\ Selected(Untried(otadata)) = 1 - Selected(otadata)
          /\ Whole(1 - Selected(otadata))
      BY <1>4, <2>5 DEF BootInv, TrialInv
    <3>2. \A k \in Slots : otadata[k] # Blank => otadata[k].state # "New" BY <3>1 DEF HasState
    <3>3. Selected(new) = Selected(Untried(otadata))
      BY <1>1, <2>3, <3>2, UntriedEffect, AgreeSelected
    <3>4. ~HasState(new, "Pending") BY <2>3, <3>2 DEF HasState
    <3>5. TrialInv' BY <2>1, <2>4, <3>4 DEF TrialInv
    <3>6. ~OnTrial'
      <4>1. ~Trial(otadata)' BY <2>1, <2>4, <3>4 DEF Trial
      <4>2. OnTrial' => Trial(otadata)' BY OnTrialHas, PTL
      <4>3. QED BY <4>1, <4>2
    <3>7. QED BY <2>1, <3>1, <3>3, <3>5, <3>6
  <2>6. CASE ~HasState(otadata, "Pending")
    <3>1. \A k \in Slots : otadata[k] # Blank => otadata[k].state # "Pending"
      BY <2>6 DEF HasState
    <3>2. /\ Selected(new) = Selected(otadata)
          /\ NoneActive(new) <=> NoneActive(otadata)
          /\ ActiveIdx(new) = ActiveIdx(otadata)
      BY <2>3, <3>1, AgreeSelected
    <3>3. Selected(Untried(new)) = Selected(Untried(otadata))
      <4>1. \A k \in Slots :
              /\ Untried(new)[k] = Blank <=> Untried(otadata)[k] = Blank
              /\ Untried(new)[k] # Blank =>
                   /\ Untried(new)[k].seq = Untried(otadata)[k].seq
                   /\ Untried(new)[k].state = "Aborted" <=> Untried(otadata)[k].state = "Aborted"
        BY <1>1, <2>3, <3>1, UntriedEffect
      <4>2. QED BY <4>1, AgreeSelected
    <3>4. ASSUME ~NoneActive(otadata)
          PROVE  (new[ActiveIdx(new)].state \in {"New", "Pending"})
                 <=> (otadata[ActiveIdx(otadata)].state \in {"New", "Pending"})
      <4>1. ActiveIdx(otadata) \in Newest(otadata) BY <3>4 DEF NoneActive, ActiveIdx, Newest, Slots
      <4>2. ActiveIdx(otadata) \in Slots /\ otadata[ActiveIdx(otadata)] # Blank
        BY <4>1 DEF Newest, Usable
      <4>3. QED BY <2>3, <3>1, <3>2, <4>2
    <3>5. OnTrial' <=> OnTrial BY <1>2, <1>4, <2>1, <3>2, <3>4 DEF OnTrial
    <3>6. HasState(new, "Pending") => HasState(otadata, "New") BY <2>3, <3>1 DEF HasState
    <3>7. Whole(1 - Selected(otadata))' <=> Whole(1 - Selected(new))
      BY <1>2, <2>1 DEF Whole, Holds
    <3>8. TrialInv'
      BY <1>2, <1>4, <2>1, <2>4, <3>2, <3>3, <3>5, <3>6, <3>7 DEF TrialInv, BootInv
    <3>9. QED BY <2>1, <3>2, <3>5, <3>8
  <2>7. QED BY <2>5, <2>6
<1>5. QED BY <1>3, <1>4

\* An image that confirms itself changes nothing but what a reset would do.
LEMMA MarkValidOutcome ==
  ASSUME BootInv, MarkValid
  PROVE  /\ TrialInv'
         /\ Selected(otadata') = Selected(otadata)
         /\ ~OnTrial'
<1>1. OtaType(otadata) BY DEF BootInv, IInv, TypeOK, OtaType
<1>2. /\ pc = "started" /\ pc' = "idle" /\ slot' = slot /\ rollback' = rollback
      /\ otadata' = Marked(otadata, "Pending", "Valid")
  BY DEF MarkValid
<1>3. /\ OtaType(otadata')
      /\ \A k \in Slots :
           /\ otadata'[k] = Blank <=> otadata[k] = Blank
           /\ otadata[k] # Blank =>
                /\ otadata'[k].seq = otadata[k].seq
                /\ otadata'[k].state = IF otadata[k].state = "Pending" THEN "Valid" ELSE otadata[k].state
  BY <1>1, <1>2, MarkedEffect
<1>4. Selected(otadata') = Selected(otadata) BY <1>3, AgreeSelected
<1>5. rollback => ~HasState(otadata, "New") BY <1>2 DEF BootInv, TrialInv
<1>6. ~HasState(otadata, "New") => ~Trial(otadata') BY <1>3 DEF Trial, HasState
<1>7. TrialInv' BY <1>2, <1>5, <1>6 DEF TrialInv, Trial
<1>8. ~OnTrial'
  <2>1. OnTrial' => rollback' /\ Trial(otadata)' BY OnTrialHas, PTL
  <2>2. QED BY <2>1, <1>2, <1>5, <1>6
<1>9. QED BY <1>4, <1>7, <1>8

\* While flash() runs nothing is on trial.
LEMMA NotOnTrial ==
  ASSUME BootInv, pc \in Flashing \cup {"idle"}
  PROVE  ~OnTrial /\ (rollback => ~Trial(otadata))
<1>1. rollback => ~Trial(otadata) BY DEF BootInv, TrialInv, Trial, Flashing
<1>2. QED BY <1>1, OnTrialHas

\* Erasing the entry that is not in use changes nothing.
LEMMA EraseEntryOutcome ==
  ASSUME BootInv, EraseEntry
  PROVE  /\ TrialInv'
         /\ Selected(otadata') = Selected(otadata)
         /\ ~OnTrial'
<1>1. OtaType(otadata) BY DEF BootInv, IInv, TypeOK, OtaType
<1>2. pc = "eraseEntry" /\ pc \in Flashing /\ slot' = slot /\ rollback' = rollback
  BY DEF EraseEntry, Flashing
<1>3. otadata' = otadata \/ otadata' = [otadata EXCEPT ![Target(otadata)] = Blank]
  BY <1>2 DEF EraseEntry, BootInv, IInv, NextInv
<1>4. Target(otadata) \in Slots BY <1>1, SelectedType
<1>5. Selected(otadata') = Selected(otadata)
  <2>1. ~Usable(Blank) /\ Blank \in Entries \cup {Blank} BY DEF Usable
  <2>2. QED BY <1>1, <1>3, <2>1, TargetUnused
<1>6. rollback => ~Trial(otadata) BY <1>2, NotOnTrial
<1>7. \A k \in Slots : otadata'[k] = Blank \/ otadata'[k] = otadata[k]
  BY <1>1, <1>3, <1>4 DEF OtaType
<1>8. rollback => ~Trial(otadata') BY <1>6, <1>7 DEF Trial, HasState
<1>9. TrialInv' BY <1>2, <1>8 DEF TrialInv, Trial
<1>10. ~OnTrial'
  <2>1. OnTrial' => rollback' /\ Trial(otadata)' BY OnTrialHas, PTL
  <2>2. QED BY <2>1, <1>2, <1>8
<1>11. QED BY <1>5, <1>9, <1>10

\* The commit: the new entry selects the slot just written, and the old slot is the
\* one to go back to.
LEMMA CommitOutcome ==
  ASSUME BootInv, WriteEntry, pc' = "done"
  PROVE  /\ TrialInv'
         /\ Selected(otadata) = running
         /\ Selected(otadata') = Dest
         /\ image \in Images /\ Holds(Dest, image)
<1>1. OtaType(otadata) /\ running \in Slots BY DEF BootInv, IInv, TypeOK, OtaType
<1>2. /\ pc = "writeEntry" /\ pc \in Flashing
      /\ slot' = slot /\ rollback' = rollback
      /\ otadata' = [otadata EXCEPT ![next.target] = [seq |-> next.seq, state |-> "New"]]
  BY DEF WriteEntry, Flashing, Fails, CutOff
<1>3. /\ running = Selected(otadata)
      /\ next.target = Target(otadata) /\ next.seq = NextSeq(ActiveSeq(otadata))
  BY <1>2 DEF BootInv, IInv, NextInv, Flashing
<1>4. image \in Images /\ Holds(Dest, image) BY <1>2 DEF BootInv, IInv, UpdateInv, CopiedInv
<1> DEFINE t == Target(otadata)
           n == NextSeq(ActiveSeq(otadata))
<1>5. t \in Slots /\ ActiveSeq(otadata) \in Nat BY <1>1, SelectedType
<1>6. n \in Nat /\ n > ActiveSeq(otadata) /\ (n - 1) % 2 = Dest BY <1>1, <1>5, NextSeqFacts
<1>7. otadata' = [otadata EXCEPT ![t] = [seq |-> n, state |-> "New"]] BY <1>2, <1>3
<1> HIDE DEF n
<1>8. /\ OtaType(otadata') /\ ~NoneActive(otadata')
      /\ ActiveIdx(otadata') = t /\ Selected(otadata') = Dest
  BY <1>1, <1>6, <1>7, NewerSelected
<1> HIDE DEF t
<1>9. /\ otadata'[t] = [seq |-> n, state |-> "New"]
      /\ \A k \in Slots : k # t => otadata'[k] = otadata[k]
  BY <1>1, <1>5, <1>7 DEF OtaType
<1>10. TrialInv'
  <2>1. SUFFICES ASSUME rollback
                 PROVE  /\ ~HasState(otadata', "Pending")
                        /\ OnTrial'
                        /\ Selected(Untried(otadata')) = 1 - Selected(otadata')
                        /\ Whole(1 - Selected(otadata))'
    BY <1>2 DEF TrialInv
  <2>2. \A k \in Slots : otadata[k] # Blank => otadata[k].state \notin {"New", "Pending"}
    BY <1>2, <2>1, NotOnTrial DEF Trial, HasState
  <2>3. ~HasState(otadata', "Pending") BY <1>9, <2>2 DEF HasState
  <2>4. OnTrial'
    <3>1. otadata'[t].state = "New" BY <1>9
    <3>2. rollback' BY <1>2, <2>1
    <3>3. QED BY <1>8, <3>1, <3>2 DEF OnTrial
  <2>5. Selected(Untried(otadata')) = running
    <3> DEFINE e == [seq |-> n, state |-> "Aborted"]
               old == [otadata EXCEPT ![t] = e]
    <3>1. n \in Nat \ {0} BY <1>5, <1>6
    <3>2. e \in Entries /\ ~Usable(e) BY <3>1 DEF Entries, Usable
    <3>3. Selected(old) = running BY <1>1, <1>3, <3>2, TargetUnused DEF t
    <3>4. old[t] = e /\ \A k \in Slots : k # t => old[k] = otadata[k]
      BY <1>1, <1>5 DEF OtaType
    <3>5. e # Blank /\ e.seq = n /\ e.state = "Aborted" BY <3>2, BlankAssumption
    <3>6. [seq |-> n, state |-> "New"] \in Entries BY <3>1 DEF Entries
    <3>7. otadata'[t] # Blank /\ otadata'[t].seq = n /\ otadata'[t].state = "New"
      BY <1>9, <3>6, BlankAssumption
    <3> HIDE DEF e, old
    <3>8. \A k \in Slots :
            /\ Untried(otadata')[k] = Blank <=> old[k] = Blank
            /\ Untried(otadata')[k] # Blank =>
                 /\ Untried(otadata')[k].seq = old[k].seq
                 /\ Untried(otadata')[k].state = "Aborted" <=> old[k].state = "Aborted"
      BY <1>8, <1>9, <2>2, <3>4, <3>5, <3>7, UntriedEffect
    <3>9. QED BY <3>3, <3>8, AgreeSelected
  <2>6. 1 - Dest = running BY <1>1 DEF Dest, Slots
  <2>7. Whole(running) BY <1>3 DEF BootInv, Bootable
  <2>8. Whole(1 - Selected(otadata))'
    BY <1>2, <1>8, <2>6, <2>7 DEF Whole, Holds
  <2>9. QED BY <1>8, <2>3, <2>4, <2>5, <2>6, <2>8
<1>11. QED BY <1>3, <1>4, <1>8, <1>10

\* No other step touches otadata, or the slot that it selects.
LEMMA QuietOutcome ==
  ASSUME BootInv, [Next]_vars, otadata' = otadata, ~Boot, ~MarkValid, ~EraseEntry
  PROVE  /\ TrialInv'
         /\ slot'[Selected(otadata)] = slot[Selected(otadata)]
         /\ OnTrial' <=> OnTrial
         /\ OnTrial => slot' = slot
<1>1. rollback' = rollback
  BY DEF Next, vars, Boot, MarkValid, PowerLost, Flash, Working, EraseRange,
         CopyChunk, SwitchBoot, EraseEntry, WriteEntry, Restart
<1>2. slot' = slot \/ (pc = "copy" /\ slot'[running] = slot[running]) BY IStep DEF BootInv
<1>3. pc = "copy" => running = Selected(otadata) /\ ~OnTrial /\ (rollback => ~Trial(otadata))
  BY NotOnTrial DEF BootInv, IInv, NextInv, Flashing
<1>4. pc' = pc \/ pc' = "off" \/ pc \in Flashing \cup {"idle"}
  BY DEF Next, vars, PowerLost, Flash, Working, EraseRange, CopyChunk, SwitchBoot,
         EraseEntry, WriteEntry, Restart, Flashing
<1>5. OnTrial' <=> OnTrial BY <1>1 DEF OnTrial
<1>6. TrialInv'
  <2>1. CASE rollback => ~Trial(otadata) BY <1>1, <2>1 DEF TrialInv, Trial
  <2>2. CASE rollback /\ Trial(otadata)
    <3>1. slot' = slot BY <1>2, <1>3, <2>2
    <3>2. pc' = pc \/ pc' = "off" BY <1>4, <2>2, NotOnTrial
    <3>3. Whole(1 - Selected(otadata))' <=> Whole(1 - Selected(otadata))
      BY <3>1 DEF Whole, Holds
    <3>4. QED BY <1>1, <1>5, <2>2, <3>2, <3>3 DEF BootInv, TrialInv, Trial
  <2>3. QED BY <2>1, <2>2
<1>7. QED BY <1>2, <1>3, <1>5, <1>6

\* Every step keeps a complete image selected.
LEMMA BootStep == BootInv /\ [Next]_vars => BootInv'
<1> SUFFICES ASSUME BootInv, [Next]_vars PROVE TrialInv' /\ Bootable'
  BY IStep DEF BootInv
<1>1. Whole(Selected(otadata)) BY DEF BootInv, Bootable
<1>2. CASE Boot
  <2>1. TrialInv' /\ Whole(Selected(otadata')) BY <1>1, <1>2, BootOutcome
  <2>2. QED BY <1>2, <2>1 DEF Boot, Bootable, Whole, Holds
<1>3. CASE MarkValid
  BY <1>1, <1>3, MarkValidOutcome DEF MarkValid, Bootable, Whole, Holds
<1>4. CASE EraseEntry
  BY <1>1, <1>4, EraseEntryOutcome DEF EraseEntry, Bootable, Whole, Holds
<1>5. CASE WriteEntry /\ pc' = "done"
  <2>1. TrialInv' /\ Whole(Selected(otadata')) BY <1>5, CommitOutcome DEF Whole
  <2>2. QED BY <1>5, <2>1 DEF WriteEntry, Bootable, Whole, Holds
<1>6. CASE otadata' = otadata /\ ~Boot /\ ~MarkValid /\ ~EraseEntry
  <2>1. TrialInv' /\ slot'[Selected(otadata)] = slot[Selected(otadata)] BY <1>6, QuietOutcome
  <2>2. QED BY <1>1, <1>6, <2>1 DEF Bootable, Whole, Holds
<1>7. QED
  BY <1>2, <1>3, <1>4, <1>5, <1>6
  DEF Next, vars, disk, PowerLost, Flash, Working, EraseRange, CopyChunk, SwitchBoot, WriteEntry, Restart

\* A complete image is selected at first.
LEMMA BootInitial == Init => BootInv
<1> SUFFICES ASSUME Init PROVE TrialInv /\ Bootable BY IInitial DEF BootInv
<1>1. \A k \in Slots : otadata[k] # Blank => otadata[k].state = "Valid" BY DEF Init
<1>2. ~Trial(otadata) BY <1>1 DEF Trial, HasState
<1>3. Bootable BY DEF Init, Bootable
<1>4. QED BY <1>2, <1>3 DEF TrialInv, Trial

\* Whatever fails and whenever the power goes, a complete image can be booted, with
\* or without rollback in the boot loader.
THEOREM AlwaysBootable == Spec => []Bootable
<1>1. BootInv /\ [Next]_vars => BootInv' BY BootStep
<1>2. BootInv => Bootable BY DEF BootInv
<1>3. QED BY BootInitial, <1>1, <1>2, PTL DEF Spec

----------------------------------------------------------------------------
\* The update is atomic.

\* A unit cannot belong to two images, so what a slot holds is one image.
LEMMA OneImage ==
  ASSUME NEW content, NEW i \in Images, \A u \in 0..Size[i] - 1 : content[u] = i
  PROVE  (CHOOSE j \in Images : \A u \in 0..Size[j] - 1 : content[u] = j) = i
<1> DEFINE j == CHOOSE j \in Images : \A u \in 0..Size[j] - 1 : content[u] = j
<1>1. j \in Images /\ \A u \in 0..Size[j] - 1 : content[u] = j OBVIOUS
<1> HIDE DEF j
<1>2. 0 \in 0..Size[i] - 1 /\ 0 \in 0..Size[j] - 1 BY <1>1, SizeType
<1>3. content[0] = i BY <1>2
<1>4. content[0] = j BY <1>1, <1>2
<1>5. j = i BY <1>3, <1>4
<1>6. QED BY <1>5 DEF j

\* The image in a slot that holds one.
LEMMA ImageFacts ==
  ASSUME NEW s, Whole(s)
  PROVE  /\ ImageIn(s) \in Images /\ ImageIn(s) # NoImage
         /\ \A u \in 0..Size[ImageIn(s)] - 1 : slot[s][u] = ImageIn(s)
<1>1. PICK i \in Images : Holds(s, i) BY DEF Whole
<1>2. ImageIn(s) = i BY <1>1, OneImage DEF ImageIn, Holds
<1>3. QED BY <1>1, <1>2, SdUpdateAssumption DEF Holds

NowBoots == ImageIn(Selected(otadata))
NowFormer == IF OnTrial THEN ImageIn(1 - Selected(otadata)) ELSE NoImage
NowPhase == IF pc \in Flashing THEN "updating" ELSE IF pc = "done" THEN "done" ELSE "idle"
NowWanted == IF pc \in Flashing THEN image ELSE NoImage

\* What boots after a step.
LEMMA BootsIs ==
  ASSUME NEW i \in Images, \A u \in 0..Size[i] - 1 : slot'[Selected(otadata')][u] = i
  PROVE  NowBoots' = i
BY OneImage DEF NowBoots, ImageIn, Holds

\* What can be gone back to after a step.
LEMMA FormerIs ==
  ASSUME NEW i \in Images, OnTrial', \A u \in 0..Size[i] - 1 : slot'[1 - Selected(otadata')][u] = i
  PROVE  NowFormer' = i
<1>1. (CHOOSE j \in Images : \A u \in 0..Size[j] - 1 : slot'[1 - Selected(otadata')][u] = j) = i
  BY OneImage
<1>2. QED BY <1>1 DEF NowFormer, ImageIn, Holds

\* What is selected, and what is kept to fall back to, is a whole image.
LEMMA NowFacts ==
  ASSUME BootInv
  PROVE  /\ NowBoots \in Images
         /\ \A u \in 0..Size[NowBoots] - 1 : slot[Selected(otadata)][u] = NowBoots
         /\ OnTrial =>
              /\ NowFormer \in Images /\ NowFormer # NoImage
              /\ \A u \in 0..Size[NowFormer] - 1 : slot[1 - Selected(otadata)][u] = NowFormer
<1>1. Whole(Selected(otadata)) BY DEF BootInv, Bootable
<1>2. OnTrial => Whole(1 - Selected(otadata)) BY OnTrialHas DEF BootInv, TrialInv, Trial
<1>3. OnTrial => NowFormer = ImageIn(1 - Selected(otadata)) BY DEF NowFormer
<1>4. QED BY <1>1, <1>2, <1>3, ImageFacts DEF NowBoots

\* Nothing to go back to without a trial.
LEMMA NothingKept == ASSUME ~OnTrial PROVE NowFormer = NoImage
BY DEF NowFormer

\* The steps of AtomicUpdate, in these terms.
LEMMA PromiseSteps ==
  /\ \A i \in Images :
       /\ NowPhase = "idle" /\ NowPhase' = "updating" /\ NowWanted' = i
       /\ NowBoots' = NowBoots /\ NowFormer' = NowFormer
       => Promise!Next
  /\ /\ NowPhase = "updating" /\ NowPhase' = "done" /\ NowWanted' = NoImage
     /\ NowBoots' = NowWanted /\ NowFormer' \in {NowBoots, NoImage}
     => Promise!Next
  /\ /\ NowPhase = "updating" /\ NowPhase' = "idle" /\ NowWanted' = NoImage
     /\ NowBoots' = NowBoots /\ NowFormer' = NowFormer
     => Promise!Next
  /\ /\ NowPhase = "done" /\ NowPhase' = "idle" /\ NowWanted' = NowWanted
     /\ NowBoots' = NowBoots /\ NowFormer' = NowFormer
     => Promise!Next
  /\ /\ NowPhase = "idle" /\ NowPhase' = NowPhase /\ NowWanted' = NowWanted
     /\ NowFormer # NoImage /\ NowFormer' = NoImage
     /\ NowBoots' = NowBoots \/ NowBoots' = NowFormer
     => Promise!Next
  /\ /\ NowPhase' = NowPhase /\ NowWanted' = NowWanted
     /\ NowBoots' = NowBoots /\ NowFormer' = NowFormer
     => UNCHANGED Promise!vars
BY DEF Promise!Next, Promise!Begin, Promise!Commit, Promise!GiveUp, Promise!Restart,
       Promise!Confirm, Promise!RollBack, Promise!vars, NowBoots, NowFormer, NowPhase, NowWanted

\* Every step is a step of AtomicUpdate or changes nothing it can see.
LEMMA PromiseStep == BootInv /\ [Next]_vars => [Promise!Next]_(Promise!vars)
<1> SUFFICES ASSUME BootInv, [Next]_vars
             PROVE  Promise!Next \/ UNCHANGED Promise!vars
  OBVIOUS
<1>1. /\ NowBoots \in Images
      /\ \A u \in 0..Size[NowBoots] - 1 : slot[Selected(otadata)][u] = NowBoots
      /\ OnTrial =>
           /\ NowFormer \in Images /\ NowFormer # NoImage
           /\ \A u \in 0..Size[NowFormer] - 1 : slot[1 - Selected(otadata)][u] = NowFormer
  BY NowFacts
<1>2. ~OnTrial => NowFormer = NoImage BY NothingKept
<1>3. ~OnTrial' => NowFormer' = NoImage BY DEF NowFormer
<1>4. CASE Boot
  <2>1. NowPhase = "idle" /\ NowPhase' = "idle" /\ NowWanted' = NowWanted /\ slot' = slot
    BY <1>4 DEF Boot, NowPhase, NowWanted, Flashing
  <2>2. CASE Selected(otadata') = Selected(otadata) /\ (OnTrial' <=> OnTrial)
    <3>1. NowBoots' = NowBoots BY <1>1, <2>1, <2>2, BootsIs
    <3>2. NowFormer' = NowFormer
      <4>1. CASE OnTrial BY <1>1, <2>1, <2>2, <4>1, FormerIs
      <4>2. CASE ~OnTrial BY <1>2, <1>3, <2>2, <4>2
      <4>3. QED BY <4>1, <4>2
    <3>3. QED BY <2>1, <3>1, <3>2, PromiseSteps
  <2>3. CASE OnTrial /\ ~OnTrial' /\ Selected(otadata') = 1 - Selected(otadata)
    <3>1. NowBoots' = NowFormer BY <1>1, <2>1, <2>3, BootsIs
    <3>2. NowFormer # NoImage /\ NowFormer' = NoImage BY <1>1, <1>3, <2>3
    <3>3. QED BY <2>1, <3>1, <3>2, PromiseSteps
  <2>4. QED BY <1>4, <2>2, <2>3, BootOutcome
<1>5. CASE MarkValid
  <2>1. NowPhase = "idle" /\ NowPhase' = NowPhase /\ NowWanted' = NowWanted /\ slot' = slot
    BY <1>5 DEF MarkValid, NowPhase, NowWanted, Flashing
  <2>2. Selected(otadata') = Selected(otadata) /\ ~OnTrial' BY <1>5, MarkValidOutcome
  <2>3. NowBoots' = NowBoots BY <1>1, <2>1, <2>2, BootsIs
  <2>4. NowFormer' = NoImage BY <1>3, <2>2
  <2>5. CASE NowFormer # NoImage BY <2>1, <2>3, <2>4, <2>5, PromiseSteps
  <2>6. CASE NowFormer = NoImage BY <2>1, <2>3, <2>4, <2>6, PromiseSteps
  <2>7. QED BY <2>5, <2>6
<1>6. CASE EraseEntry
  <2>1. /\ NowPhase = "updating" /\ slot' = slot
        /\ \/ NowPhase' = "updating" /\ NowWanted' = NowWanted
           \/ NowPhase' = "idle" /\ NowWanted' = NoImage
    BY <1>6 DEF EraseEntry, NowPhase, NowWanted, Flashing, Fails, CutOff, locals
  <2>2. Selected(otadata') = Selected(otadata) /\ ~OnTrial' BY <1>6, EraseEntryOutcome
  <2>3. ~OnTrial BY <1>6, NotOnTrial DEF EraseEntry, Flashing
  <2>4. NowBoots' = NowBoots BY <1>1, <2>1, <2>2, BootsIs
  <2>5. NowFormer' = NowFormer BY <1>2, <1>3, <2>2, <2>3
  <2>6. QED BY <2>1, <2>4, <2>5, PromiseSteps
<1>7. CASE WriteEntry /\ pc' = "done"
  <2>1. /\ NowPhase = "updating" /\ NowWanted = image /\ slot' = slot
        /\ NowPhase' = "done" /\ NowWanted' = NoImage
    BY <1>7 DEF WriteEntry, NowPhase, NowWanted, Flashing
  <2>2. /\ Selected(otadata) = running /\ Selected(otadata') = Dest
        /\ image \in Images /\ Holds(Dest, image)
    BY <1>7, CommitOutcome
  <2>3. NowBoots' = image BY <2>1, <2>2, BootsIs DEF Holds
  <2>4. 1 - Dest = running BY DEF Dest, BootInv, IInv, TypeOK, Slots
  <2>5. OnTrial' => NowFormer' = NowBoots BY <1>1, <2>1, <2>2, <2>4, FormerIs
  <2>6. NowFormer' \in {NowBoots, NoImage} BY <1>3, <2>5
  <2>7. QED BY <2>1, <2>3, <2>6, PromiseSteps
<1>8. CASE otadata' = otadata /\ ~Boot /\ ~MarkValid /\ ~EraseEntry /\ ~(WriteEntry /\ pc' = "done")
  <2>1. /\ slot'[Selected(otadata)] = slot[Selected(otadata)]
        /\ OnTrial' <=> OnTrial
        /\ OnTrial => slot' = slot
    BY <1>8, QuietOutcome
  <2>2. NowBoots' = NowBoots BY <1>1, <1>8, <2>1, BootsIs
  <2>3. NowFormer' = NowFormer
    <3>1. CASE OnTrial BY <1>1, <1>8, <2>1, <3>1, FormerIs
    <3>2. CASE ~OnTrial BY <1>2, <1>3, <2>1, <3>2
    <3>3. QED BY <3>1, <3>2
  <2>4. \/ NowPhase' = NowPhase /\ NowWanted' = NowWanted
        \/ NowPhase = "idle" /\ NowPhase' = "updating" /\ \E i \in Images : NowWanted' = i
        \/ NowPhase = "updating" /\ NowPhase' = "idle" /\ NowWanted' = NoImage
        \/ NowPhase = "done" /\ NowPhase' = "idle" /\ NowWanted' = NowWanted
    <3>1. CASE \E i \in Images : Flash(i) BY <3>1 DEF Flash, NowPhase, NowWanted, Flashing
    <3>2. CASE PowerLost \/ Restart \/ UNCHANGED vars
      BY <3>2 DEF PowerLost, Restart, NowPhase, NowWanted, Flashing, locals, vars, IInv, BootInv, TypeOK
    <3>3. CASE EraseRange \/ CopyChunk \/ SwitchBoot \/ WriteEntry
      BY <1>8, <3>3 DEF EraseRange, CopyChunk, SwitchBoot, WriteEntry, Fails, CutOff,
                        NowPhase, NowWanted, Flashing, locals
    <3>4. QED BY <1>8, <3>1, <3>2, <3>3 DEF Next, Working
  <2>5. QED BY <2>2, <2>3, <2>4, PromiseSteps
<1>9. QED
  BY <1>4, <1>5, <1>6, <1>7, <1>8
  DEF Next, vars, disk, PowerLost, Flash, Working, EraseRange, CopyChunk, SwitchBoot, WriteEntry, Restart

\* The initial states map to initial states.
LEMMA PromiseInitial == Init => Promise!Init
<1> SUFFICES ASSUME Init PROVE Promise!Init OBVIOUS
<1>1. BootInv BY BootInitial
<1>2. NowBoots \in Images BY <1>1, NowFacts
<1>3. \A k \in Slots : otadata[k] # Blank => otadata[k].state = "Valid" BY DEF Init
<1>4. ~OnTrial BY <1>3, OnTrialHas DEF Trial, HasState
<1>5. pc = "off" BY DEF Init
<1>6. QED BY <1>2, <1>4, <1>5 DEF Promise!Init, NowBoots, Flashing

\* The device runs the old image until flash() commits to the new one, and never
\* anything between the two; an image that is not confirmed gives way to the old one.
THEOREM UpdateAtomic == Spec => Atomic
<1>1. BootInv /\ [Next]_vars => BootInv' BY BootStep
<1>2. QED BY BootInitial, <1>1, PromiseInitial, PromiseStep, PTL DEF Spec, Atomic, Promise!Spec

=============================================================================
