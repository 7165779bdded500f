-------------------------------- MODULE Utf8 --------------------------------
(***************************************************************************)
(* Reading text, lib/Utf8/Utf8.cpp: utf8NextCodepoint() and the helpers it *)
(* and the fonts need.  Text comes from a book's chapter table, from file  *)
(* names and from network names, so it may be any bytes up to a zero.      *)
(*                                                                         *)
(* Bytes are numbers; a shift is a multiplication or division by a power   *)
(* of two, and a mask the remainder it leaves.                             *)
(***************************************************************************)
EXTENDS Integers, Sequences

CONSTANTS
  ByteValues,  \* bound: the bytes tried, those at the edges of the format
  TextLen      \* bound: the longest text tried

ASSUME Utf8Assumption == ByteValues \subseteq 1..255 /\ TextLen \in Nat

VARIABLES
  bytes,    \* the text, without its zero
  at,       \* how much of it has been read
  decoded   \* the codepoint read last, how many bytes it took, and where it began

utf8Vars == <<bytes, at, decoded>>

Replacement == 65533  \* REPLACEMENT_GLYPH

\* The byte i places after the cursor; zero at the end.
Ahead(i) == IF at + i < Len(bytes) THEN bytes[at + i + 1] ELSE 0

\* utf8CodepointLen()
CodepointLen(c) ==
  IF c < 128 THEN 1
  ELSE IF c \div 32 = 6 THEN 2
  ELSE IF c \div 16 = 14 THEN 3
  ELSE IF c \div 8 = 30 THEN 4
  ELSE 1

Continuation(c) == c \div 64 = 2

\* The header bits masked off, six more bits from each continuation byte.
Assembled(n) ==
  LET cp[i \in 1..n] == IF i = 1 THEN Ahead(0) % 2^(7 - n) ELSE cp[i - 1] * 64 + (Ahead(i - 1) % 64)
  IN  cp[n]

Rejected(n, cp) ==
  \/ (n = 2 /\ cp < 128) \/ (n = 3 /\ cp < 2048) \/ (n = 4 /\ cp < 65536)
  \/ 55296 <= cp /\ cp <= 57343
  \/ cp > 1114111

\* Mutant: the byte that broke the sequence is skipped with it.
SkipBroken(n) ==
  LET broken == {i \in 1..n - 1 : ~Continuation(Ahead(i))}
      first == CHOOSE i \in broken : \A j \in broken : i <= j
  IN  [cp |-> Replacement, took |-> first + 1, from |-> at]

\* A missing or invalid continuation byte: what came before it is skipped.
Broken(n) ==
  LET broken == {i \in 1..n - 1 : ~Continuation(Ahead(i))}
      first == CHOOSE i \in broken : \A j \in broken : i <= j
  IN  [cp |-> Replacement, took |-> first, from |-> at]

\* utf8NextCodepoint()
NextCodepoint ==
  LET n == CodepointLen(Ahead(0)) IN
  /\ at < Len(bytes)
  /\ decoded' =
       IF n = 1 /\ Ahead(0) >= 128 THEN [cp |-> Replacement, took |-> 1, from |-> at]
       ELSE IF n = 1 THEN [cp |-> Ahead(0), took |-> 1, from |-> at]
       ELSE IF \E i \in 1..n - 1 : ~Continuation(Ahead(i)) THEN Broken(n)
       ELSE IF Rejected(n, Assembled(n)) THEN [cp |-> Replacement, took |-> 1, from |-> at]
       ELSE [cp |-> Assembled(n), took |-> n, from |-> at]
  /\ at' = at + decoded'.took
  /\ UNCHANGED bytes

\* Another text is read; and at the end of one, zero is.
ReadText ==
  /\ at = Len(bytes)
  /\ \E n \in 0..TextLen : bytes' \in [1..n -> ByteValues]
  /\ at' = 0
  /\ decoded' = [cp |-> 0, took |-> 0, from |-> 0]

Utf8Init ==
  /\ bytes = <<>> /\ at = 0
  /\ decoded = [cp |-> 0, took |-> 0, from |-> 0]

Utf8Next == (bytes = <<>> /\ ReadText) \/ NextCodepoint

Utf8Spec == Utf8Init /\ [][Utf8Next]_utf8Vars

-----------------------------------------------------------------------------

\* The byte sequences the format allows, and what they stand for, from its definition by
\* ranges of scalar values.
IsScalar(cp) == cp >= 0 /\ cp <= 1114111 /\ ~(55296 <= cp /\ cp <= 57343)

Encoding(cp) ==
  IF cp < 128 THEN <<cp>>
  ELSE IF cp < 2048 THEN <<192 + cp \div 64, 128 + (cp % 64)>>
  ELSE IF cp < 65536 THEN <<224 + cp \div 4096, 128 + ((cp \div 64) % 64), 128 + (cp % 64)>>
  ELSE <<240 + cp \div 262144, 128 + ((cp \div 4096) % 64), 128 + ((cp \div 64) % 64), 128 + (cp % 64)>>

\* A sequence of bytes that some scalar value is encoded as: read without trusting it,
\* then encoded again.
WellFormed(b) ==
  LET payload(i) == b[i] % 64
      cp == IF Len(b) = 1 THEN b[1]
            ELSE IF Len(b) = 2 THEN (b[1] % 32) * 64 + payload(2)
            ELSE IF Len(b) = 3 THEN (b[1] % 16) * 4096 + payload(2) * 64 + payload(3)
            ELSE (b[1] % 8) * 262144 + payload(2) * 4096 + payload(3) * 64 + payload(4)
  IN  IsScalar(cp) /\ Encoding(cp) = b

Piece(i, n) == SubSeq(bytes, i + 1, i + n)

\* Where a character begins, wherever the reader may have come from.
BeginsAt(i) == {n \in 1..4 : i + n <= Len(bytes) /\ WellFormed(Piece(i, n))}

\* Any bytes are read to their end and never past it; a well-formed character is read as
\* itself and whole, whatever garbage comes before it, and anything else as U+FFFD, in
\* steps that swallow the beginning of no character.  (utf8NextCodepoint(), Utf8.cpp:76.)
ReadsEveryCharacter ==
  /\ at <= Len(bytes)
  /\ decoded.took > 0 =>
       LET from == decoded.from IN
       /\ BeginsAt(from) # {} =>
            decoded.took \in BeginsAt(from) /\ Encoding(decoded.cp) = Piece(from, decoded.took)
       /\ BeginsAt(from) = {} =>
            /\ decoded.cp = Replacement
            /\ \A i \in from + 1..at - 1 : BeginsAt(i) = {}

=============================================================================
