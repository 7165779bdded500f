----------------------------- MODULE TextLayout -----------------------------
(***************************************************************************)
(* A line of text is measured by one loop and drawn by another:            *)
(* getTextBounds() of lib/EpdFont/EpdFont.cpp and drawText() of            *)
(* lib/Gfx/Gfx.cpp, as drawCenteredText() calls them.  Both walk the same  *)
(* codepoints with ligatures, kerning and snapping to whole pixels, but    *)
(* they differ on combining marks and on characters the font has not.      *)
(*                                                                         *)
(* A font is its glyphs, its kerning by class and its ligatures; the text  *)
(* is any sequence of codepoints (module Utf8 reads them from bytes).      *)
(***************************************************************************)
EXTENDS Integers, Sequences, FiniteSetsExt

CONSTANTS
  Glyphs,       \* glyph of each codepoint in the font
  LeftClass, RightClass, KernMatrix,  \* kerning, in sixteenths of a pixel
  Ligatures,    \* codepoint of each pair that has one
  Marks,        \* combining marks
  Codepoints,   \* bound: the codepoints tried
  TextLength,   \* bound: the longest text
  LogicalWidth

\* What holds of the fonts that are built in: only what has a glyph is kerned, and there
\* is none for U+FFFD, so a character without a glyph is left out.  The glyph of 0, which
\* ends a text, is never asked for.
ASSUME FontAssumption ==
  /\ 0 \notin DOMAIN Glyphs
  /\ \A cp \in DOMAIN Glyphs : Glyphs[cp] \in [advance : Nat, width : Nat, left : Int, top : Int, height : Nat]
  /\ \A l \in DOMAIN LeftClass, r \in DOMAIN RightClass : KernMatrix[<<LeftClass[l], RightClass[r]>>] \in Int
  /\ LogicalWidth \in Nat
  /\ DOMAIN LeftClass \subseteq DOMAIN Glyphs
  /\ DOMAIN RightClass \subseteq DOMAIN Glyphs
  /\ Marks \intersect UNION {{p[1], p[2]} : p \in DOMAIN Ligatures} = {}

VARIABLES
  text,
  walk,      \* "none", "measure" or "draw"
  rest,      \* what the loop has still to read
  x0,        \* where the line is drawn: 0 while it is measured
  penX,      \* lastBaseX, or cursorX
  prevCp, prevAdvance,
  lastBase,  \* metrics of the base a mark would sit on
  bounds,    \* minX, maxX, minY and maxY
  ink        \* boxes of the bitmaps drawn, left, right, bottom and top

textVars == <<text, walk, rest, x0, penX, prevCp, prevAdvance, lastBase, bounds, ink>>

None == 0  \* prevCp of a line's first character
NoBase == [left |-> 0, width |-> 0, top |-> 0]

\* fp4::toPixel()
ToPixel(fp) == (fp + 8) \div 16

HasGlyph(cp) == cp \in DOMAIN Glyphs

Kerning(l, r) ==
  IF l \in DOMAIN LeftClass /\ r \in DOMAIN RightClass
  THEN KernMatrix[<<LeftClass[l], RightClass[r]>>] ELSE 0

\* applyLigatures(): the longest run of pairs that each have a ligature.
Ligated(cp, more) ==
  LET joined[n \in 0..Len(more)] ==
        IF n = 0 THEN cp
        ELSE IF <<joined[n - 1], more[n]>> \in DOMAIN Ligatures THEN Ligatures[<<joined[n - 1], more[n]>>]
        ELSE None
      n == Max({i \in 0..Len(more) : joined[i] # None})
  IN  [cp |-> joined[n], rest |-> SubSeq(more, n + 1, Len(more))]

ResetPen(x) ==
  /\ rest' = text' /\ x0' = x /\ penX' = x
  /\ prevCp' = None /\ prevAdvance' = 0 /\ lastBase' = NoBase

\* drawCenteredText(): first the width ...
StartMeasure ==
  /\ walk = "none"
  /\ \E n \in 1..TextLength : text' \in [1..n -> Codepoints]
  /\ walk' = "measure"
  /\ ResetPen(0)
  /\ bounds' = [minX |-> 0, maxX |-> 0, minY |-> 0, maxY |-> 0]
  /\ ink' = {}

TextWidth == bounds.maxX - bounds.minX

\* C++ division rounds towards zero.
Half(n) == IF n < 0 THEN -((-n) \div 2) ELSE n \div 2

\* ... then the text, from where that centres it.
StartDraw ==
  /\ walk = "measure" /\ rest = <<>>
  /\ text' = text
  /\ walk' = "draw"
  /\ ResetPen(Half(LogicalWidth - TextWidth))
  /\ UNCHANGED <<bounds, ink>>

Extend(left, right, bottom, top) ==
  bounds' = [minX |-> Min({bounds.minX, left}), maxX |-> Max({bounds.maxX, right}),
             minY |-> Min({bounds.minY, bottom}), maxY |-> Max({bounds.maxY, top})]

\* A mark is centred over its base and raised clear of it; it does not move the pen.
MeasureMark ==
  LET g == Glyphs[Head(rest)]
      bottom == g.top - g.height
      raise == IF bottom > 0 /\ bottom - lastBase.top < 1 THEN 1 - (bottom - lastBase.top) ELSE 0
      x == penX + lastBase.left + (lastBase.width \div 2) - (g.width \div 2) - g.left
  IN
  /\ walk = "measure" /\ rest # <<>> /\ Head(rest) \in Marks
  /\ IF HasGlyph(Head(rest))
     THEN Extend(x + g.left, x + g.left + g.width, bottom - raise, g.top - raise)
     ELSE UNCHANGED bounds
  /\ rest' = Tail(rest)
  /\ UNCHANGED <<text, walk, x0, penX, prevCp, prevAdvance, lastBase, ink>>

Next1 == Ligated(Head(rest), Tail(rest))

\* Mutant: advance and kerning are snapped to pixels one by one.
SnapTwice(l, r) == ToPixel(prevAdvance) + ToPixel(Kerning(l, r))

\* Previous advance and kerning are snapped to pixels together.
MeasuredStep(l, r) == ToPixel(prevAdvance + Kerning(l, r))

MeasureCharacter ==
  LET cp == Next1.cp
      g == Glyphs[cp]
      x == IF prevCp # None THEN penX + MeasuredStep(prevCp, cp) ELSE penX
  IN
  /\ walk = "measure" /\ rest # <<>> /\ Head(rest) \notin Marks
  /\ rest' = Next1.rest
  /\ IF HasGlyph(cp)
     THEN /\ Extend(x + g.left, x + g.left + g.width, g.top - g.height, g.top)
          /\ penX' = x /\ prevCp' = cp /\ prevAdvance' = g.advance
          /\ lastBase' = [left |-> g.left, width |-> g.width, top |-> g.top]
     ELSE /\ penX' = penX + ToPixel(prevAdvance)
          /\ prevCp' = None /\ prevAdvance' = 0 /\ lastBase' = NoBase
          /\ UNCHANGED bounds
  /\ UNCHANGED <<text, walk, x0, ink>>

\* drawText() leaves marks out altogether.
SkipMark ==
  /\ walk = "draw" /\ rest # <<>> /\ Head(rest) \in Marks
  /\ rest' = Tail(rest)
  /\ UNCHANGED <<text, walk, x0, penX, prevCp, prevAdvance, lastBase, bounds, ink>>

DrawCharacter ==
  LET cp == Next1.cp
      g == Glyphs[cp]
      x == IF prevCp # None THEN penX + ToPixel(prevAdvance + Kerning(prevCp, cp)) ELSE penX
  IN
  /\ walk = "draw" /\ rest # <<>> /\ Head(rest) \notin Marks
  /\ rest' = Next1.rest
  /\ penX' = x /\ prevCp' = cp
  /\ IF HasGlyph(cp)
     THEN /\ prevAdvance' = g.advance
          /\ ink' = IF g.width > 0 /\ g.height > 0
                    THEN ink \cup {[left |-> x + g.left, right |-> x + g.left + g.width,
                                    bottom |-> g.top - g.height, top |-> g.top]}
                    ELSE ink
     ELSE prevAdvance' = 0 /\ ink' = ink
  /\ UNCHANGED <<text, walk, x0, lastBase, bounds>>

Written == walk = "draw" /\ rest = <<>> /\ UNCHANGED textVars

TextInit ==
  /\ text = <<>> /\ walk = "none" /\ rest = <<>> /\ x0 = 0 /\ penX = 0
  /\ prevCp = None /\ prevAdvance = 0 /\ lastBase = NoBase
  /\ bounds = [minX |-> 0, maxX |-> 0, minY |-> 0, maxY |-> 0] /\ ink = {}

TextNext ==
  \/ StartMeasure \/ MeasureMark \/ MeasureCharacter
  \/ StartDraw \/ SkipMark \/ DrawCharacter \/ Written

TextSpec == TextInit /\ [][TextNext]_textVars

-----------------------------------------------------------------------------

\* What is drawn stays in the box that was measured: no bitmap of a line reaches out of
\* its measured bounds on any side, with marks, ligatures, kerning and characters the
\* font has not, although the two loops treat them differently; so a line that fits the
\* screen and does not begin left of its start is drawn on the screen.
\* (getTextBounds(), EpdFont.cpp:25-72, and drawText(), Gfx.cpp:111-149.)
InkMeasured ==
  walk = "draw" =>
    \A box \in ink :
      /\ x0 + bounds.minX <= box.left /\ box.right <= x0 + bounds.maxX
      /\ bounds.minY <= box.bottom /\ box.top <= bounds.maxY
      /\ bounds.minX = 0 /\ TextWidth <= LogicalWidth => box.left >= 0 /\ box.right <= LogicalWidth

=============================================================================
