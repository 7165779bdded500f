------------------------------ MODULE PageImage ------------------------------
(***************************************************************************)
(* How a decoded page reaches the panel: the painting in drawPage() of     *)
(* lib/Xtch/Xtch.cpp and what it uses of lib/Gfx/Gfx.cpp.                  *)
(*                                                                         *)
(* A page is two bit planes, column after column from the right, each      *)
(* column in whole bytes.  It is painted four times into the one frame     *)
(* buffer: for the black and white base, for the two gray passes, and for  *)
(* the base again; a page of the screen's size is copied byte by byte, any *)
(* other pixel by pixel.  Module Reader has the refreshes and when they    *)
(* run; here the question is what is in the frame when it is sent.         *)
(***************************************************************************)
EXTENDS Integers

CONSTANTS
  BitsPerByte,  \* 8
  Screens,      \* the panels, by their portrait width and height
  PageSizes,    \* <<width, height>> of the pages tried
  PlaneBits     \* bound: pages with more bits in a plane are not tried

ASSUME PageImageAssumption ==
  /\ BitsPerByte \in Nat \ {0}
  /\ Screens \subseteq Nat \X Nat /\ \A s \in Screens : s[2] % BitsPerByte = 0
  /\ PageSizes \subseteq Nat \X Nat

VARIABLES
  screen, page,  \* their sizes
  plane,         \* the two planes of the page, by column as stored and row
  frame,         \* the frame buffer, by panel row and column: 1 is white
  pass,          \* the painting that comes next
  base, lsb, msb \* what was in the frame when it was displayed or copied

imageFrames == <<base, lsb, msb>>
pageVars == <<screen, page, plane, frame, pass, imageFrames>>

W == screen[1]  \* panelHeight
H == screen[2]  \* panelWidth

ColBytes(h) == (h + BitsPerByte - 1) \div BitsPerByte
Stored(p) == (0..p[1] - 1) \X (0..ColBytes(p[2]) * BitsPerByte - 1)
Panel == (0..W - 1) \X (0..H - 1)

ox == (W - page[1]) \div 2
oy == (H - page[2]) \div 2

FullFrame ==
  /\ ox = 0 /\ oy = 0 /\ page = screen
  /\ page[2] % BitsPerByte = 0
  /\ ColBytes(page[2]) = H \div BitsPerByte

\* Ones in both planes, in one, ...: the gray level.
Level(cell) == 2 * plane[1][cell] + plane[2][cell]

\* blitFullFrame(): columns are stored as the panel has its rows.
Blit(op) ==
  [cell \in Panel |->
     LET p1 == plane[1][cell]
         p2 == plane[2][cell]
     IN  IF op = "ink" THEN 1 - (p1 + p2 - p1 * p2)
         ELSE IF op = "lsb" THEN (1 - p1) * p2
         ELSE (p1 + p2) % 2]

Kept(op) == IF op = "ink" THEN 1..3 ELSE IF op = "lsb" THEN {1} ELSE {1, 2}

\* Mutant: the columns of the page are taken from the left.
MirroredCell(cell) == <<W - 1 - cell[1] - ox, cell[2] - oy>>

\* Where the pixel painted at a panel row and column is stored: toPanel() backwards.
PixelCell(cell) ==
  LET x == W - 1 - cell[1] - ox
  IN  <<page[1] - 1 - x, cell[2] - oy>>

\* The loop over the page's pixels, on a frame that was cleared.
Pixels(op) ==
  LET bit(kept) == IF op = "ink" THEN (IF kept THEN 0 ELSE 1) ELSE (IF kept THEN 1 ELSE 0)
  IN  [cell \in Panel |->
         LET from == PixelCell(cell)
         IN  bit(/\ from[1] \in 0..page[1] - 1 /\ from[2] \in 0..page[2] - 1
                 /\ Level(from) \in Kept(op))]

Paint(op) == frame' = IF FullFrame THEN Blit(op) ELSE Pixels(op)

\* A page that was decoded and is no larger than the screen.
Decode(s, p) ==
  /\ pass = "load"
  /\ p[1] <= s[1] /\ p[2] <= s[2]
  /\ screen' = s /\ page' = p
  /\ plane' \in [1..2 -> [Stored(p) -> 0..1]]
  /\ pass' = "ink"
  /\ UNCHANGED <<frame, imageFrames>>

\* Any larger one is refused.
TooLarge(s, p) ==
  /\ pass = "load"
  /\ p[1] > s[1] \/ p[2] > s[2]
  /\ pass' = "refused"
  /\ UNCHANGED <<screen, page, plane, frame, imageFrames>>

PaintInk ==
  /\ pass = "ink"
  /\ Paint("ink") /\ base' = frame'
  /\ pass' = "lsb"
  /\ UNCHANGED <<screen, page, plane, lsb, msb>>

PaintLsb ==
  /\ pass = "lsb"
  /\ Paint("lsb") /\ lsb' = frame'
  /\ pass' = "msb"
  /\ UNCHANGED <<screen, page, plane, base, msb>>

PaintMsb ==
  /\ pass = "msb"
  /\ Paint("msb") /\ msb' = frame'
  /\ pass' = "rebuild"
  /\ UNCHANGED <<screen, page, plane, base, lsb>>

\* The base again, for what is drawn next on top of it.
RebuildInk ==
  /\ pass = "rebuild"
  /\ Paint("ink")
  /\ pass' = "drawn"
  /\ UNCHANGED <<screen, page, plane, imageFrames>>

Drawn == pass \in {"drawn", "refused"} /\ UNCHANGED pageVars

PageInit ==
  /\ pass = "load" /\ screen = <<1, BitsPerByte>> /\ page = <<1, 1>>
  /\ plane = <<>> /\ frame = <<>>
  /\ base = <<>> /\ lsb = <<>> /\ msb = <<>>

PageNext ==
  \/ \E s \in Screens, p \in PageSizes :
       \/ p[1] * ColBytes(p[2]) * BitsPerByte <= PlaneBits /\ Decode(s, p)
       \/ TooLarge(s, p)
  \/ PaintInk \/ PaintLsb \/ PaintMsb \/ RebuildInk \/ Drawn

PageSpec == PageInit /\ [][PageNext]_pageVars

-----------------------------------------------------------------------------

\* What the panel is given for a pixel: base, low and high gray bit.
Gray(level) ==
  <<<<1, 0, 0>>, <<0, 1, 1>>, <<0, 0, 1>>, <<0, 0, 0>>>>[level + 1]

\* Level of the pixel at logical x, y: that of the page's pixel there, if it is centred
\* on the screen, and white around it.
LevelAt(x, y) ==
  IF x - ox \in 0..page[1] - 1 /\ y - oy \in 0..page[2] - 1
  THEN Level(<<page[1] - 1 - (x - ox), y - oy>>)
  ELSE 0

\* Whichever way a page is painted, the three frames the panel gets tell its four levels
\* apart in every pixel, the page is centred and upright with white around it, and the
\* frame is left as the base that is shown.  (drawPage(), Xtch.cpp:690-746, and
\* blitFullFrame(), Xtch.cpp:598.)
PaintsAgree ==
  pass = "drawn" =>
    /\ frame = base
    /\ \A x \in 0..W - 1, y \in 0..H - 1 :
         LET cell == <<W - 1 - x, y>>
         IN  <<base[cell], lsb[cell], msb[cell]>> = Gray(LevelAt(x, y))

=============================================================================
