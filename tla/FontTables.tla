------------------------------ MODULE FontTables ------------------------------
(***************************************************************************)
(* Looking a character up in a built-in font: getGlyph() and getLigature() *)
(* of lib/EpdFont/EpdFont.cpp, with the interval and ligature tables of    *)
(* the two fonts in builtinFonts/ as they are.  The search is the standard *)
(* library's, one comparison at a time; what it finds is only as good as   *)
(* the order of the tables and the counts kept beside them.                *)
(***************************************************************************)
EXTENDS Integers, Sequences

CONSTANT ExtraCodepoints  \* bound: tried besides those around the ends of each interval

ASSUME FontTablesAssumption == ExtraCodepoints \subseteq Nat

VARIABLES
  font,     \* "bold" or "medium"
  query,    \* what is looked up: a codepoint, or a pair of them
  wanted,   \* what was asked first
  start, count,  \* the range the search is left with
  answer    \* what was found, or that there is nothing

fontVars == <<font, query, wanted, start, count, answer>>

\* First and last codepoint, and the index of the first one's glyph.
BoldIntervals ==
  <<<<\h0, \h0, \h0>>, <<\h8, \h9, \h1>>, <<\hD, \hD, \h3>>, <<\h1D, \h1D, \h4>>, <<\h20, \h7E, \h5>>,
    <<\hA0, \h17F, \h64>>, <<\h1A0, \h1A1, \h144>>, <<\h1AF, \h1B0, \h146>>, <<\h1C4, \h21F, \h148>>,
    <<\h300, \h304, \h1A4>>, <<\h306, \h308, \h1A9>>, <<\h30A, \h30C, \h1AC>>, <<\h311, \h312, \h1AF>>,
    <<\h326, \h328, \h1B1>>, <<\h34F, \h34F, \h1B4>>, <<\h400, \h45F, \h1B5>>, <<\h462, \h463, \h215>>,
    <<\h472, \h475, \h217>>, <<\h48A, \h4F9, \h21B>>, <<\h5D0, \h5EA, \h28B>>, <<\h60C, \h60C, \h2A6>>,
    <<\h61B, \h61B, \h2A7>>, <<\h61F, \h61F, \h2A8>>, <<\h621, \h621, \h2A9>>, <<\h640, \h640, \h2AA>>,
    <<\h660, \h669, \h2AB>>, <<\h6BA, \h6BA, \h2B5>>, <<\h6D4, \h6D4, \h2B6>>, <<\h6F0, \h6F9, \h2B7>>,
    <<\h1EA0, \h1EF9, \h2C1>>, <<\h2009, \h2009, \h31B>>, <<\h200B, \h2011, \h31C>>, <<\h2013, \h2015, \h323>>,
    <<\h2018, \h201A, \h326>>, <<\h201C, \h201E, \h329>>, <<\h2020, \h2022, \h32C>>, <<\h2026, \h2026, \h32F>>,
    <<\h202F, \h2030, \h330>>, <<\h2039, \h203A, \h332>>, <<\h2044, \h2044, \h334>>, <<\h204F, \h204F, \h335>>,
    <<\h2070, \h2070, \h336>>, <<\h2074, \h2079, \h337>>, <<\h2080, \h2089, \h33D>>, <<\h20AA, \h20AA, \h347>>,
    <<\h20AC, \h20AC, \h348>>, <<\h20AE, \h20AE, \h349>>, <<\h20B4, \h20B4, \h34A>>, <<\h20B9, \h20B9, \h34B>>,
    <<\h2202, \h2202, \h34C>>, <<\h2206, \h2206, \h34D>>, <<\h220F, \h220F, \h34E>>, <<\h2211, \h2212, \h34F>>,
    <<\h2215, \h2215, \h351>>, <<\h2219, \h221A, \h352>>, <<\h221E, \h221E, \h354>>, <<\h222B, \h222B, \h355>>,
    <<\h2248, \h2248, \h356>>, <<\h2260, \h2260, \h357>>, <<\h2264, \h2265, \h358>>, <<\hFB00, \hFB04, \h35A>>,
    <<\hFB56, \hFB59, \h35F>>, <<\hFB66, \hFB69, \h363>>, <<\hFB7A, \hFB7D, \h367>>, <<\hFB88, \hFB95, \h36B>>,
    <<\hFB9E, \hFB9F, \h379>>, <<\hFBA6, \hFBB1, \h37B>>, <<\hFBFC, \hFBFF, \h387>>, <<\hFE80, \hFEFC, \h38B>>>>

\* Both fonts have the same characters in the same order.
MediumIntervals == BoldIntervals

Intervals == IF font = "bold" THEN BoldIntervals ELSE MediumIntervals
Interval(i) == [first |-> Intervals[i][1], last |-> Intervals[i][2], offset |-> Intervals[i][3]]

BoldLigatures ==
  << <<\h66, \h66, \hFB00>>, <<\h66, \h69, \hFB01>>, <<\h66, \h6C, \hFB02>>,
     <<\hFB00, \h69, \hFB03>>, <<\hFB00, \h6C, \hFB04>> >>
MediumLigatures == BoldLigatures

LigaturePairs == IF font = "bold" THEN BoldLigatures ELSE MediumLigatures
LigaturePair(i) ==
  [left |-> LigaturePairs[i][1], right |-> LigaturePairs[i][2], ligatureCp |-> LigaturePairs[i][3]]

\* The counts each font states, and the glyphs it lists.
BoldFont == [intervalCount |-> 69, ligaturePairCount |-> 5, glyphs |-> 1032]
MediumFont == [intervalCount |-> 69, ligaturePairCount |-> 5, glyphs |-> 1032]
Data == IF font = "bold" THEN BoldFont ELSE MediumFont

ReplacementGlyph == \hFFFD

\* Marks are drawn over the character before them, by default centred and clear of it.
IsCombiningMark(cp) ==
  cp \in (\h300..\h36F) \cup (\h1DC0..\h1DFF) \cup (\h20D0..\h20FF) \cup (\hFE20..\hFE2F)
AnchorFor(cp) ==
  IF cp \in {\h5BC, \h5BA} THEN "CenterNative"
  ELSE IF cp = \h5C1 THEN "RightNative"
  ELSE IF cp \in {\h5B9, \h5C2} THEN "LeftNative"
  ELSE "CenterRaised"

\* No font has these.
Absent == {ReplacementGlyph, \h5B9, \h5BA, \h5BC, \h5C1, \h5C2}

\* What the search relies on, and nothing in the source checks: as many rows as the font
\* says, in order and apart, of glyphs the font lists; no replacement character, and no
\* mark that has a place of its own.
IntervalsSound(rows, data) ==
  /\ rows \in Seq(Nat \X Nat \X Nat) /\ Len(rows) = data.intervalCount
  /\ \A i \in DOMAIN rows :
       /\ rows[i][1] <= rows[i][2] /\ rows[i][3] + rows[i][2] - rows[i][1] < data.glyphs
       /\ \A cp \in Absent : cp < rows[i][1] \/ rows[i][2] < cp
  /\ \A i, j \in DOMAIN rows : i < j =>
       rows[i][2] < rows[j][1] /\ rows[i][3] + rows[i][2] - rows[i][1] < rows[j][3]

\* The same of its ligatures, which are characters of the font and no marks.
LigaturesSound(rows, data, intervals) ==
  /\ rows \in Seq(Nat \X Nat \X Nat) /\ Len(rows) = data.ligaturePairCount
  /\ \A i, j \in DOMAIN rows : i < j =>
       rows[i][1] < rows[j][1] \/ (rows[i][1] = rows[j][1] /\ rows[i][2] < rows[j][2])
  /\ \A i \in DOMAIN rows :
       /\ ~\E k \in 1..3 : IsCombiningMark(rows[i][k])
       /\ \E k \in DOMAIN intervals : intervals[k][1] <= rows[i][3] /\ rows[i][3] <= intervals[k][2]

ASSUME FontTablesSound ==
  /\ IntervalsSound(BoldIntervals, BoldFont) /\ LigaturesSound(BoldLigatures, BoldFont, BoldIntervals)
  /\ IntervalsSound(MediumIntervals, MediumFont) /\ LigaturesSound(MediumLigatures, MediumFont, MediumIntervals)

Glyph(cp) == [kind |-> "glyph", left |-> cp, right |-> 0]
Pair(left, right) == [kind |-> "pair", left |-> left, right |-> right]
Unasked == [kind |-> "unasked", at |-> 0]
Searching == [kind |-> "searching", at |-> 0]
NotFound == [kind |-> "none", at |-> 0]
Found(at) == [kind |-> "found", at |-> at]

-----------------------------------------------------------------------------
(* The search                                                              *)

\* The order of the packed pairs, 16 bits each.
Less(pair, left, right) == pair.left < left \/ (pair.left = left /\ pair.right < right)

\* Mutant: the interval that begins with the codepoint is left behind.
BeforeFirst(i) == IF query.kind = "glyph" THEN Interval(i).first < query.left
                  ELSE Less(LigaturePair(i), query.left, query.right)

\* upper_bound of a codepoint, lower_bound of a pair: the part of the table before the
\* position that is sought.
Before(i) == IF query.kind = "glyph" THEN Interval(i).first <= query.left
             ELSE Less(LigaturePair(i), query.left, query.right)

BeginSearch(q) ==
  /\ query' = q /\ start' = 1
  /\ count' = IF q.kind = "glyph" THEN Data.intervalCount ELSE Data.ligaturePairCount

\* A pair beyond 16 bits is not looked up.
LookUp ==
  /\ answer = Unasked
  /\ wanted.kind = "pair" => wanted.left <= \hFFFF /\ wanted.right <= \hFFFF
  /\ BeginSearch(wanted) /\ answer' = Searching
  /\ UNCHANGED <<font, wanted>>

\* One step of the library's search halves what is left.
Halve ==
  /\ answer = Searching /\ count > 0
  /\ LET half == count \div 2
     IN IF Before(start + half)
        THEN start' = start + half + 1 /\ count' = count - half - 1
        ELSE count' = half /\ UNCHANGED start
  /\ UNCHANGED <<font, query, wanted, answer>>

\* The interval before that position is the only one that may hold the codepoint.
\* Else the replacement is looked up, and if there is none either, there is no glyph.
GetGlyph ==
  /\ answer = Searching /\ count = 0 /\ query.kind = "glyph"
  /\ \/ /\ start > 1 /\ query.left <= Interval(start - 1).last
        /\ answer' = Found(Interval(start - 1).offset + query.left - Interval(start - 1).first)
        /\ UNCHANGED <<query, start, count>>
     \/ /\ start > 1 => query.left > Interval(start - 1).last
        /\ IF query.left # ReplacementGlyph
           THEN BeginSearch(Glyph(ReplacementGlyph)) /\ UNCHANGED answer
           ELSE answer' = NotFound /\ UNCHANGED <<query, start, count>>
  /\ UNCHANGED <<font, wanted>>

GetLigature ==
  /\ answer = Searching /\ count = 0 /\ query.kind = "pair"
  /\ answer' = IF start <= Data.ligaturePairCount
                  /\ LigaturePair(start).left = query.left /\ LigaturePair(start).right = query.right
               THEN Found(LigaturePair(start).ligatureCp) ELSE NotFound
  /\ UNCHANGED <<font, query, wanted, start, count>>

-----------------------------------------------------------------------------

Ends == UNION {{r[1] - 1, r[1], r[2], r[2] + 1} : r \in {BoldIntervals[i] : i \in DOMAIN BoldIntervals}}
PairEnds == (UNION {{r[1], r[2], r[3]} : r \in {BoldLigatures[i] : i \in DOMAIN BoldLigatures}}) \cup ExtraCodepoints

FontInit ==
  /\ font \in {"bold", "medium"}
  /\ wanted \in {Glyph(cp) : cp \in (Ends \ {-1}) \cup ExtraCodepoints}
                  \cup {Pair(left, right) : left \in PairEnds, right \in PairEnds}
  /\ query = Glyph(0) /\ start = 1 /\ count = 0 /\ answer = Unasked

FontNext == LookUp \/ Halve \/ GetGlyph \/ GetLigature

FontSpec == FontInit /\ [][FontNext]_fontVars

-----------------------------------------------------------------------------
(* Property                                                                *)

Holding(cp) == {i \in DOMAIN Intervals : Interval(i).first <= cp /\ cp <= Interval(i).last}
Using(at) == {i \in DOMAIN Intervals :
                Interval(i).offset <= at /\ at <= Interval(i).offset + Interval(i).last - Interval(i).first}
PairsListed(pair) == {i \in DOMAIN LigaturePairs : LigaturePair(i).left = pair.left /\ LigaturePair(i).right = pair.right}

\* A search never reads beyond its table.  A glyph is found exactly for the characters
\* of the font: it is one of the font's glyphs and no other character's.  A pair is
\* replaced exactly if it is listed, and by a character the font has a glyph for.
\* The marks the fonts have all go where a mark goes by default, and no ligature
\* is made with one.
LookupsExact ==
  /\ answer = Searching /\ count > 0 =>
       start + count - 1 <= Len(IF query.kind = "glyph" THEN Intervals ELSE LigaturePairs)
  /\ wanted.kind = "glyph" =>
       /\ answer.kind = "found" =>
            /\ answer.at \in {Interval(i).offset + wanted.left - Interval(i).first : i \in Holding(wanted.left)}
            /\ AnchorFor(wanted.left) = "CenterRaised"
            /\ Using(answer.at) = Holding(wanted.left) /\ answer.at < Data.glyphs
       /\ answer.kind = "none" => Holding(wanted.left) = {}
  /\ wanted.kind = "pair" =>
       /\ answer.kind = "found" =>
            /\ \E i \in PairsListed(wanted) : answer.at = LigaturePair(i).ligatureCp /\ Holding(answer.at) # {}
            /\ ~\E cp \in {wanted.left, wanted.right, answer.at} : IsCombiningMark(cp)
       /\ answer.kind = "none" => PairsListed(wanted) = {}
=============================================================================
