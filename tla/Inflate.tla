------------------------------- MODULE Inflate -------------------------------
(***************************************************************************)
(* How a compressed page is unpacked, puff_stream() in lib/Xtch/puff.c:    *)
(* the window of compressed bytes that a callback refills from the card,   *)
(* the bit buffer, the canonical Huffman codes and the three block types.  *)
(*                                                                         *)
(* The stream is arbitrary: what the card answers is chosen when the       *)
(* window is refilled, in pieces of any size, and may end at any point.    *)
(* The format's fixed numbers (eight bits to a byte, codes of at most 15   *)
(* bits, 286 symbols, ...) are constants, so that short streams reach      *)
(* every branch.  A byte is its sequence of bits, least significant first; *)
(* fields that are read one after the other with nothing decided in        *)
(* between are read as one.                                                *)
(***************************************************************************)
EXTENDS Integers, Sequences, SequencesExt, FiniteSetsExt

CONSTANTS
  ByteBits,      \* 8
  MaxBits,       \* MAXBITS
  Literals,      \* 256, also the end-of-block symbol
  MaxLCodes, MaxDCodes, FixLCodes,
  FixedLengths,  \* lengths of the fixed literal/length code, by symbol
  FixedDistance, \* length of every fixed distance code
  LengthBase, LengthExtra, DistBase, DistExtra,  \* lens, lext, dists, dext
  NlenBits, NdistBits, NcodeBits, ClBits,        \* 5, 5, 4 and 3
  MinCl,         \* 4, code length code lengths always sent
  Order,         \* order[], the permutation of the code length symbols
  Repeat,        \* repeat instructions: symbol -> least run and extra bits
  Window,        \* size of inbuf
  OutLen,        \* *destlen
  Pieces         \* bound: how many bytes the card answers at a time

\* Tables as puff.c has them: a byte is never more than the longest code can still need
\* and one bit, every extra field has its base, order[] is a permutation, no distance is 0.
ASSUME FormatAssumption ==
  /\ {ByteBits, MaxBits, Literals, MaxLCodes, MaxDCodes} \subseteq Nat \ {0} /\ ByteBits <= MaxBits + 1
  /\ {FixLCodes, FixedDistance, NlenBits, NdistBits, NcodeBits, ClBits, MinCl} \subseteq Nat
  /\ FixedDistance <= MaxBits
  /\ Window \in Nat /\ Window >= 4 /\ OutLen \in Nat /\ Pieces \subseteq 1..Window
  /\ FixedLengths \in [0..FixLCodes - 1 -> 1..MaxBits]
  /\ LengthBase \in Seq(Nat) /\ LengthExtra \in Seq(Nat) /\ Len(LengthExtra) = Len(LengthBase)
  /\ DistBase \in Seq(Nat \ {0}) /\ DistExtra \in Seq(Nat)
  /\ Len(DistBase) = MaxDCodes /\ Len(DistExtra) = MaxDCodes
  /\ Order \in [0..MaxBits + 3 -> 0..MaxBits + 3] /\ \A s \in 0..MaxBits + 3 : \E i \in 0..MaxBits + 3 : Order[i] = s
  /\ DOMAIN Repeat = MaxBits + 1..MaxBits + 3
  /\ \A s \in DOMAIN Repeat : Repeat[s].least \in Nat /\ Repeat[s].extra \in Nat

VARIABLES
  bitbuf, bitcnt,  \* bits taken from the window and not used; how many the code thinks
  win,             \* in[incnt .. inlen - 1]
  out,             \* out[0 .. outcnt - 1]
  pc,              \* the read or decode that comes next, or "done"
  err,             \* what puff_stream returns
  last,
  lencode, distcode,  \* lengths the two tables were constructed from
  lengths, nlen, ndist, len,  \* locals, empty or 0 when no longer read
  d                \* locals of decode()

reader == <<bitbuf, bitcnt, win>>
tables == <<lencode, distcode, lengths, nlen, ndist>>
puffVars == <<reader, out, pc, err, last, tables, len, d>>

Bit == 0..1
Byte == [1..ByteBits -> Bit]

\* The number a sequence of bits, least significant first, stands for.
Value(b) == LET v[i \in 0..Len(b)] == IF i = 0 THEN 0 ELSE 2 * v[i - 1] + b[Len(b) + 1 - i]
            IN  v[Len(b)]

\* The length of a code length's code is itself the length of a code.
ASSUME CodeLengthAssumption == \A b \in [1..ClBits -> Bit] : Value(b) <= MaxBits

Take(b, n) == SubSeq(b, 1, n)
Drop(b, n) == SubSeq(b, n + 1, Len(b))

-----------------------------------------------------------------------------
(* Canonical codes                                                         *)

Symbols(l) == DOMAIN l

\* h->count[]
CountOf(l, n) == Cardinality({s \in Symbols(l) : l[s] = n})

\* left after each length: how many codes of that length are still free
LeftAt(l) == LET left[n \in 0..MaxBits] == IF n = 0 THEN 1 ELSE 2 * left[n - 1] - CountOf(l, n)
             IN  left

\* What construct() returns: 0 complete or no codes, < 0 over-subscribed, > 0 incomplete.
Construct(l) ==
  LET left == LeftAt(l)
      over == {n \in 1..MaxBits : left[n] < 0}
  IN  IF CountOf(l, 0) = Cardinality(Symbols(l)) THEN 0
      ELSE IF over # {} THEN left[Min(over)]
      ELSE left[MaxBits]

\* offs[]: where in symbol[] the symbols of each length begin
Offset(l) == LET offs[n \in 1..MaxBits] == IF n = 1 THEN 0 ELSE offs[n - 1] + CountOf(l, n - 1)
             IN  offs

\* h->symbol[]: by length, and by symbol within a length.
SymbolAt(l, i) ==
  CHOOSE s \in Symbols(l) :
    /\ l[s] # 0
    /\ i = Offset(l)[l[s]] + Cardinality({t \in Symbols(l) : t < s /\ l[t] = l[s]})

\* An incomplete code is accepted when its only code has length one.
Usable(l) ==
  \/ Construct(l) = 0
  \/ Construct(l) > 0 /\ Cardinality(Symbols(l)) = CountOf(l, 0) + CountOf(l, 1)

-----------------------------------------------------------------------------
(* Bits                                                                    *)

Idle == [len |-> 1, code |-> 0, first |-> 0, index |-> 0, left |-> 0]

Decoding == pc \in {"codelength", "symbol", "distance"}

Extra == Repeat[len].extra   \* in pc "repeat", len holds the instruction

\* Bits the read that comes next needs.
Need ==
  IF pc = "block" THEN 3
  ELSE IF pc = "counts" THEN NlenBits + NdistBits + NcodeBits
  ELSE IF pc = "clengths" THEN len * ClBits
  ELSE IF pc = "repeat" THEN Extra
  ELSE IF pc = "lextra" THEN LengthExtra[len]
  ELSE IF pc = "dextra" THEN DistExtra[len]
  ELSE 0

Reading == pc \in {"block", "counts", "clengths", "repeat", "lextra", "dextra"}

WantsByte == \/ Reading /\ bitcnt < Need
             \/ Decoding /\ d.left = 0 /\ d.len <= MaxBits

WantsInput == \/ WantsByte /\ win = <<>>
              \/ pc = "stored" /\ Len(win) < 4
              \/ pc = "copy" /\ len > 0 /\ win = <<>>

\* refill_in() with bytes arriving: the unread ones slide to the front of inbuf.
Refill ==
  /\ WantsInput
  /\ \E n \in Pieces :
       /\ Len(win) + n <= Window
       /\ \E new \in [1..n -> Byte] : win' = win \o new
  /\ UNCHANGED <<bitbuf, bitcnt, out, pc, err, last, tables, len, d>>

Return(e) == pc' = "done" /\ err' = e /\ d' = Idle

\* refill_in() with nothing: longjmp from bits() and decode(), return from stored().
Starve ==
  /\ WantsInput
  /\ Return(2)
  /\ UNCHANGED <<reader, out, last, tables, len>>

\* The loop of bits(): eight more bits at the top of the buffer.
LoadByte ==
  /\ Reading /\ bitcnt < Need /\ win # <<>>
  /\ bitbuf' = bitbuf \o Head(win)
  /\ bitcnt' = bitcnt + ByteBits
  /\ win' = Tail(win)
  /\ UNCHANGED <<out, pc, err, last, tables, len, d>>

\* The end of bits(need): the bits wanted leave the buffer.
Read(at) ==
  /\ pc = at /\ bitcnt >= Need
  /\ bitbuf' = Drop(bitbuf, Need)
  /\ bitcnt' = bitcnt - Need
  /\ UNCHANGED win

Field == Value(Take(bitbuf, Need))

\* On to the next step; decode() starts from the bit buffer as it is.
Goto(next) ==
  /\ pc' = next
  /\ d' = IF next \in {"codelength", "symbol", "distance"} THEN [Idle EXCEPT !.left = bitcnt'] ELSE Idle
  /\ UNCHANGED err

-----------------------------------------------------------------------------
(* decode()                                                                *)

Table == IF pc = "distance" THEN distcode ELSE lencode

\* Another byte: no more of it is looked at than the longest code can need.
DecodeByte ==
  /\ Decoding /\ d.left = 0 /\ d.len <= MaxBits /\ win # <<>>
  /\ bitbuf' = Head(win)
  /\ win' = Tail(win)
  /\ d' = [d EXCEPT !.left = Min({ByteBits, MaxBits + 1 - d.len})]
  /\ UNCHANGED <<bitcnt, out, pc, err, last, tables, len>>

NextBit == IF bitbuf = <<>> THEN 0 ELSE bitbuf[1]
CodeNow == d.code + NextBit
CountNow == CountOf(Table, d.len)
Matches == CodeNow - CountNow < d.first
Symbol == SymbolAt(Table, d.index + CodeNow - d.first)

\* Mutant: index is not carried past the codes of this length.
ForgetIndex ==
  /\ Decoding /\ d.left > 0 /\ ~Matches
  /\ bitbuf' = Drop(bitbuf, 1)
  /\ d' = [d EXCEPT !.len = @ + 1, !.code = 2 * CodeNow, !.first = 2 * (@ + CountNow), !.left = @ - 1]
  /\ UNCHANGED <<bitcnt, win, out, pc, err, last, tables, len>>

DecodeBit ==
  /\ Decoding /\ d.left > 0 /\ ~Matches
  /\ bitbuf' = Drop(bitbuf, 1)
  /\ d' = [len |-> d.len + 1, code |-> 2 * CodeNow, first |-> 2 * (d.first + CountNow),
           index |-> d.index + CountNow, left |-> d.left - 1]
  /\ UNCHANGED <<bitcnt, win, out, pc, err, last, tables, len>>

\* Every bit of the longest code read and no symbol.
RunOut ==
  /\ Decoding /\ d.left = 0 /\ d.len > MaxBits
  /\ Return(-10)
  /\ UNCHANGED <<reader, out, last, tables, len>>

BitcntAfter == (bitcnt - d.len) % ByteBits

\* A symbol: the rest of the bits stay in the buffer.
Decoded(at) ==
  /\ pc = at /\ d.left > 0 /\ Matches
  /\ bitbuf' = Drop(bitbuf, 1)
  /\ bitcnt' = BitcntAfter
  /\ UNCHANGED win

-----------------------------------------------------------------------------
(* Blocks                                                                  *)

\* The end of a block: the next one, or the end of the stream.
EndBlock ==
  /\ IF last THEN Return(0) ELSE Goto("block")
  /\ lencode' = <<>> /\ distcode' = <<>>
  /\ UNCHANGED <<lengths, nlen, ndist>>

EnterStored == Goto("stored") /\ UNCHANGED tables

\* fixed(): the same two tables every time.
EnterFixed ==
  /\ Goto("symbol")
  /\ lencode' = FixedLengths
  /\ distcode' = [s \in 0..MaxDCodes - 1 |-> FixedDistance]
  /\ UNCHANGED <<lengths, nlen, ndist>>

\* The loop of puff_stream(): three bits tell the kind of block.
Block ==
  LET kind == Value(SubSeq(bitbuf, 2, 3)) IN
  /\ Read("block")
  /\ last' = (bitbuf[1] = 1)
  /\ \/ kind = 0 /\ EnterStored
     \/ kind = 1 /\ EnterFixed
     \/ kind = 2 /\ Goto("counts") /\ UNCHANGED tables
     \/ kind = 3 /\ Return(-1) /\ UNCHANGED tables
  /\ UNCHANGED <<out, len>>

\* stored(): whatever is left in the bit buffer is dropped, then length and complement.
StoredLength ==
  LET size == Value(win[1] \o win[2])
      complement == \A i \in 1..ByteBits : win[3][i] = 1 - win[1][i] /\ win[4][i] = 1 - win[2][i]
  IN
  /\ pc = "stored" /\ Len(win) >= 4
  /\ bitbuf' = <<>> /\ bitcnt' = 0
  /\ win' = Drop(win, 4)
  /\ \/ ~complement /\ Return(-2) /\ UNCHANGED len
     \/ complement /\ Len(out) + size > OutLen /\ Return(1) /\ UNCHANGED len
     \/ complement /\ Len(out) + size <= OutLen /\ Goto("copy") /\ len' = size
  /\ UNCHANGED <<out, last, tables>>

\* As much as the window holds.
StoredCopy ==
  LET n == Min({Len(win), len}) IN
  /\ pc = "copy" /\ len > 0 /\ win # <<>>
  /\ out' = out \o [i \in 1..n |-> Value(win[i])]
  /\ win' = Drop(win, n)
  /\ len' = len - n
  /\ UNCHANGED <<bitbuf, bitcnt, pc, err, last, tables, d>>

StoredEnd ==
  /\ pc = "copy" /\ len = 0
  /\ EndBlock
  /\ UNCHANGED <<reader, out, last, len>>

-----------------------------------------------------------------------------
(* dynamic(): the codes are in the stream                                  *)

ClSymbols == DOMAIN Order

Counts ==
  LET n(from, size) == Value(SubSeq(bitbuf, from + 1, from + size))
      newLen == n(0, NlenBits) + Literals + 1
      newDist == n(NlenBits, NdistBits) + 1
  IN
  /\ Read("counts")
  /\ nlen' = newLen /\ ndist' = newDist
  /\ len' = n(NlenBits + NdistBits, NcodeBits) + MinCl
  /\ IF newLen > MaxLCodes \/ newDist > MaxDCodes THEN Return(-3) ELSE Goto("clengths")
  /\ UNCHANGED <<out, last, lencode, distcode, lengths>>

\* Lengths of the code length code, in permuted order; the missing ones are zero.
CodeLengthCode ==
  LET code == [s \in ClSymbols |->
                 LET i == CHOOSE i \in ClSymbols : Order[i] = s
                 IN  IF i < len THEN Value(SubSeq(bitbuf, i * ClBits + 1, (i + 1) * ClBits)) ELSE 0]
  IN
  /\ Read("clengths")
  /\ lencode' = code
  /\ lengths' = <<>>
  /\ IF Construct(code) # 0 THEN Return(-4) ELSE Goto("codelength")
  /\ len' = 0
  /\ UNCHANGED <<out, last, distcode, nlen, ndist>>

LitLengths(all) == [s \in 0..nlen - 1 |-> all[s + 1]]
DistLengths(all) == [s \in 0..ndist - 1 |-> all[nlen + s + 1]]

\* All lengths read: the two codes must be usable, and a block must be able to end.
Finish(all) ==
  /\ lengths' = <<>> /\ nlen' = 0 /\ ndist' = 0
  /\ \/ all[Literals + 1] = 0 /\ Return(-9) /\ UNCHANGED <<lencode, distcode>>
     \/ /\ all[Literals + 1] # 0 /\ ~Usable(LitLengths(all))
        /\ Return(-7)
        /\ UNCHANGED <<lencode, distcode>>
     \/ /\ all[Literals + 1] # 0 /\ Usable(LitLengths(all)) /\ ~Usable(DistLengths(all))
        /\ Return(-8)
        /\ UNCHANGED <<lencode, distcode>>
     \/ /\ all[Literals + 1] # 0 /\ Usable(LitLengths(all)) /\ Usable(DistLengths(all))
        /\ Goto("symbol")
        /\ lencode' = LitLengths(all) /\ distcode' = DistLengths(all)

\* More lengths are known: read on, or build the codes.
Lengths(all) ==
  IF Len(all) < nlen + ndist
  THEN lengths' = all /\ Goto("codelength") /\ UNCHANGED <<lencode, distcode, nlen, ndist>>
  ELSE Finish(all)

CodeLength ==
  /\ Decoded("codelength")
  /\ \/ Symbol <= MaxBits /\ Lengths(Append(lengths, Symbol)) /\ UNCHANGED len
     \/ /\ Symbol = MaxBits + 1 /\ lengths = <<>>
        /\ Return(-5)
        /\ UNCHANGED <<tables, len>>
     \/ /\ Symbol > MaxBits /\ (Symbol = MaxBits + 1 => lengths # <<>>)
        /\ Goto("repeat") /\ len' = Symbol
        /\ UNCHANGED tables
  /\ UNCHANGED <<out, last>>

\* The last length, or zero, several times over.
RepeatLength ==
  LET times == Repeat[len].least + Field
      value == IF len = MaxBits + 1 THEN Last(lengths) ELSE 0
  IN
  /\ Read("repeat")
  /\ IF Len(lengths) + times > nlen + ndist
     THEN Return(-6) /\ UNCHANGED tables
     ELSE Lengths(lengths \o [i \in 1..times |-> value])
  /\ len' = 0
  /\ UNCHANGED <<out, last>>

-----------------------------------------------------------------------------
(* codes(): literals and copies until the end of the block                 *)

Literal ==
  /\ Decoded("symbol") /\ Symbol < Literals
  /\ IF Len(out) = OutLen
     THEN Return(1) /\ UNCHANGED out
     ELSE Goto("symbol") /\ out' = Append(out, Symbol)
  /\ UNCHANGED <<last, tables, len>>

EndOfBlock ==
  /\ Decoded("symbol") /\ Symbol = Literals
  /\ EndBlock
  /\ UNCHANGED <<out, last, len>>

CopyLength ==
  /\ Decoded("symbol") /\ Symbol > Literals
  /\ IF Symbol - Literals > Len(LengthBase)
     THEN Return(-10) /\ UNCHANGED len
     ELSE Goto("lextra") /\ len' = Symbol - Literals
  /\ UNCHANGED <<out, last, tables>>

\* From here on lengths[] is not in use: it keeps the length to copy.
CopyLengthExtra ==
  /\ Read("lextra")
  /\ lengths' = <<LengthBase[len] + Field>>
  /\ Goto("distance")
  /\ len' = 0
  /\ UNCHANGED <<out, last, lencode, distcode, nlen, ndist>>

CopyDistance ==
  /\ Decoded("distance")
  /\ Goto("dextra") /\ len' = Symbol + 1
  /\ UNCHANGED <<out, last, tables>>

\* Mutant: the bytes to copy are taken before any is written,
\* so those a copy is to repeat are still whatever the buffer held.
CopyBlock(dist, n) ==
  out \o [i \in 1..n |-> IF i <= dist THEN out[Len(out) + i - dist] ELSE 2 ^ ByteBits - 1]

\* One byte at a time, so that a copy may run into what it has just written.
CopyBack(dist, n) ==
  LET o[i \in 0..n] == IF i = 0 THEN out ELSE Append(o[i - 1], o[i - 1][Len(out) + i - dist])
  IN  o[n]

Copy ==
  LET dist == DistBase[len] + Field IN
  /\ Read("dextra")
  /\ lengths' = <<>>
  /\ IF dist > Len(out) THEN Return(-11) /\ UNCHANGED out
     ELSE IF Len(out) + lengths[1] > OutLen THEN Return(1) /\ UNCHANGED out
     ELSE Goto("symbol") /\ out' = CopyBack(dist, lengths[1])
  /\ len' = 0
  /\ UNCHANGED <<last, lencode, distcode, nlen, ndist>>

-----------------------------------------------------------------------------

PuffInit ==
  /\ bitbuf = <<>> /\ bitcnt = 0 /\ win = <<>>
  /\ out = <<>> /\ pc = "block" /\ err = 0 /\ last = FALSE
  /\ lencode = <<>> /\ distcode = <<>> /\ lengths = <<>>
  /\ nlen = 0 /\ ndist = 0 /\ len = 0 /\ d = Idle

\* codes() and the blocks; the rest of the file is the reader below them.
Interpret ==
  \/ Block \/ StoredLength \/ StoredCopy \/ StoredEnd
  \/ Counts \/ CodeLengthCode \/ CodeLength \/ RepeatLength
  \/ Literal \/ EndOfBlock \/ CopyLength \/ CopyLengthExtra \/ CopyDistance \/ Copy

\* puff_stream() has returned.
Returned == pc = "done" /\ UNCHANGED puffVars

PuffNext == Returned \/ Refill \/ Starve \/ LoadByte \/ DecodeByte \/ DecodeBit \/ RunOut \/ Interpret

PuffSpec == PuffInit /\ [][PuffNext]_puffVars

-----------------------------------------------------------------------------
(* Properties                                                              *)

\* 2^n, for every n up to the longest code.
PowerOfTwo[n \in 0..MaxBits] == IF n = 0 THEN 1 ELSE 2 * PowerOfTwo[n - 1]

\* Where the format has the codes of n bits begin: each symbol with a shorter code has
\* taken all those that begin with it.
FirstCode(l, n) ==
  LET taken[i \in 0..Cardinality(Symbols(l))] ==
        IF i = 0 THEN 0 ELSE taken[i - 1] + (IF l[i - 1] \in 1..n - 1 THEN PowerOfTwo[n - l[i - 1]] ELSE 0)
  IN  taken[Cardinality(Symbols(l))]

\* The code the format assigns to symbol s: codes of one length are consecutive.
Canonical(l, s) == FirstCode(l, l[s]) + Cardinality({t \in Symbols(l) : t < s /\ l[t] = l[s]})

\* The symbols whose codes are, or begin, the n bits read so far.
Named(l, bits, n) == {s \in Symbols(l) : l[s] \in 1..n /\ Canonical(l, s) = bits \div PowerOfTwo[n - l[s]]}

\* The counting decoder agrees with the code it was given lengths for: it stops at the
\* first bit at which some symbol is named, with that symbol, and only then; the codes
\* dynamic() lets through name no two.  (decode() and construct(), puff.c:304 and :380.)
DecodesCanonical ==
  Decoding =>
    /\ Named(Table, d.code \div 2, d.len - 1) = {}
    /\ d.left > 0 =>
         Named(Table, CodeNow, d.len) = IF Matches THEN {Symbol} ELSE {}

Rest == bitbuf \o FlattenSeq(win)

\* However the card's answers are cut, the bits are used in their order and once each:
\* what is unread only grows at its end and shrinks at its front, the count of buffered
\* bits is right whenever bits() or stored() relies on it, and stored() drops less
\* than a byte.  What has been written is never rewritten or read from before its
\* beginning, the buffer never overflows, and a copy repeats what lies its distance back,
\* also where it overlaps itself.  (refill_in(), bits(), decode() and codes(),
\* puff.c:129, :161, :331 and :505-543.)
InflateTrue ==
  [][/\ IsPrefix(Rest, Rest') \/ IsSuffix(Rest', Rest)
     /\ ~Decoding => bitcnt = Len(bitbuf)
     /\ pc = "stored" => Len(bitbuf) < ByteBits
     /\ IsPrefix(out, out') /\ Len(out') <= OutLen
     /\ pc = "dextra" /\ out' # out =>
          \A i \in Len(out) + 1..Len(out') : out'[i] = out'[i - DistBase[len] - Field]]_puffVars

=============================================================================
