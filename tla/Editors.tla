------------------------------- MODULE Editors -------------------------------
(***************************************************************************)
(* The two on-screen editors: the keyboard for a network's password,       *)
(* src/screens/KeyboardScreen.cpp, and the page number of                  *)
(* src/screens/PageJumpScreen.cpp.  Both move a cursor over rows of keys   *)
(* of different lengths, and draw only when loop() asked for it.           *)
(*                                                                         *)
(* A character is the key that types it: its row, its column and, where    *)
(* they matter, the state of the shift and symbols keys.                   *)
(***************************************************************************)
EXTENDS Integers, Sequences, SequencesExt

CONSTANTS
  LetterRows, SymbolRows, \* the lengths of rows 0 to 3 in either mode, of 10 keys at most
  MaxText,                \* maxLength, which the field has room for
  PageCounts              \* of the books

ASSUME EditorAssumption ==
  /\ LetterRows \in Seq(1..10) /\ Len(LetterRows) = 4
  /\ SymbolRows \in Seq(1..10) /\ Len(SymbolRows) = 4
  /\ LetterRows[1] = SymbolRows[1]
  /\ MaxText \in Nat
  /\ PageCounts \subseteq Nat \ {0}

VARIABLES
  editor,       \* "keyboard", "pageJump", or "closed"
  selRow, selCol, shifted, symbolsMode,
  typed,         \* the password, or the digits
  pageCount, maxDigits,
  updateRequested,
  drawn,        \* what the last render() drew
  outcome       \* handed to the screen below

selection == <<selRow, selCol>>
modes == <<shifted, symbolsMode>>
pages == <<pageCount, maxDigits>>
editorVars == <<editor, selection, modes, typed, pages, updateRequested, drawn, outcome>>

SpecialRow == IF editor = "keyboard" THEN 4 ELSE 1
GridRows == SpecialRow + 1

rowLength(row) ==
  IF editor = "pageJump" THEN IF row = 0 THEN 10 ELSE 2
  ELSE IF row = SpecialRow THEN 5
  ELSE IF symbolsMode THEN SymbolRows[row + 1] ELSE LetterRows[row + 1]

\* charAt(): only the letters change with shift, only rows 1 to 3 with symbols.
charAt(row, col) ==
  [row |-> row, col |-> col,
   symbols |-> symbolsMode /\ row > 0,
   upper |-> shifted /\ ~symbolsMode /\ row > 0]

Space == [row |-> 4, col |-> 2, symbols |-> FALSE, upper |-> FALSE]

\* kDigits is "1234567890".
DigitAt(col) == (col + 1) % 10

\* The cells of render(): the label of each, and whether it is the one drawn inverted.
Cells ==
  {[row |-> row, col |-> col, selected |-> row = selRow /\ col = selCol,
    label |-> IF editor = "pageJump" THEN <<>> ELSE IF row = SpecialRow THEN <<shifted, symbolsMode>> ELSE <<charAt(row, col)>>]
     : row \in 0..GridRows - 1, col \in 0..9}

OnGrid(cell) == cell.col < rowLength(cell.row)

\* The text is drawn as it is: the only keyboard there is has passwordMode off, and
\* its field takes 79 characters where there may be 63.
View == [field |-> typed, keys |-> {cell \in Cells : OnGrid(cell)}]

-----------------------------------------------------------------------------
Listening == editor # "closed" /\ ~updateRequested

Touched == updateRequested' = TRUE
Quiet == UNCHANGED updateRequested

\* Mutant: the cursor keeps its column.
KeptCol(col, row) == col

\* The column after a move to a row that may be shorter.
ClampedCol(col, row) == IF col < rowLength(row) THEN col ELSE rowLength(row) - 1

Vertical ==
  /\ Listening
  /\ \E step \in {1, GridRows - 1} :
       /\ selRow' = (selRow + step) % GridRows
       /\ selCol' = ClampedCol(selCol, selRow')
  /\ Touched
  /\ UNCHANGED <<editor, modes, typed, pages, drawn, outcome>>

Horizontal ==
  /\ Listening
  /\ \E step \in {1, rowLength(selRow) - 1} : selCol' = (selCol + step) % rowLength(selRow)
  /\ selRow' = selRow
  /\ Touched
  /\ UNCHANGED <<editor, modes, typed, pages, drawn, outcome>>

\* Neither the keyboard nor the page number redraws when a full text takes no more.
TextLimit == IF editor = "keyboard" THEN MaxText ELSE maxDigits
Type(key) ==
  /\ IF Len(typed) < TextLimit THEN typed' = Append(typed, key) /\ Touched ELSE UNCHANGED typed /\ Quiet
  /\ UNCHANGED modes

Erase ==
  /\ typed' = IF typed = <<>> THEN typed ELSE Front(typed)
  /\ UNCHANGED modes

\* activateKey() of the keyboard's last row: the screen is drawn again even if
\* the text could not change.
SpecialKey ==
  /\ selRow = SpecialRow
  /\ \/ selCol = 0 /\ shifted' = ~shifted /\ UNCHANGED <<symbolsMode, typed>>
     \/ selCol = 1 /\ symbolsMode' = ~symbolsMode /\ UNCHANGED <<shifted, typed>>
     \/ /\ selCol = 2 /\ UNCHANGED modes
        /\ typed' = IF Len(typed) < MaxText THEN Append(typed, Space) ELSE typed
     \/ selCol = 3 /\ Erase
  /\ Touched

KeyboardConfirm ==
  /\ Listening /\ editor = "keyboard"
  /\ \/ selRow # SpecialRow /\ Type(charAt(selRow, selCol))
     \/ SpecialKey
  /\ UNCHANGED <<editor, selection, pages, drawn, outcome>>

PageJumpConfirm ==
  /\ Listening /\ editor = "pageJump"
  /\ \/ selRow = 0 /\ Type(DigitAt(selCol))
     \/ selRow = SpecialRow /\ selCol = 0 /\ Erase /\ (IF typed # <<>> THEN Touched ELSE Quiet)
  /\ UNCHANGED <<editor, selection, pages, drawn, outcome>>

Leave(result) ==
  /\ editor' = "closed" /\ outcome' = result
  /\ UNCHANGED <<selection, modes, typed, pages, updateRequested, drawn>>

\* "Done": parent.onPasswordEntered(text)
Done == Listening /\ editor = "keyboard" /\ selection = <<SpecialRow, 4>> /\ Leave(<<"entered", typed>>)

\* "Go": strtol(), clamped to the pages of the book; nothing typed, no jump.
Number(digits) == FoldLeft(LAMBDA value, digit : 10 * value + digit, 0, digits)
Clamped(value) == IF value \in 1..pageCount THEN value ELSE IF value < 1 THEN 1 ELSE pageCount
Go ==
  /\ Listening /\ editor = "pageJump" /\ selection = <<SpecialRow, 1>>
  /\ Leave(IF typed = <<>> THEN <<"none">> ELSE <<"page", Clamped(Number(typed)) - 1>>)

Cancel == Listening /\ Leave(<<"none">>)

\* ScreenManager renders after the loop() that asked for it.
Render ==
  /\ editor # "closed" /\ updateRequested
  /\ drawn' = View /\ updateRequested' = FALSE
  /\ UNCHANGED <<editor, selection, modes, typed, pages, outcome>>

DigitsOf(n) == IF n < 10 THEN 1 ELSE IF n < 100 THEN 2 ELSE IF n < 1000 THEN 3 ELSE IF n < 10000 THEN 4 ELSE 5

EditorInit ==
  /\ \/ editor = "keyboard" /\ selRow = 1 /\ pageCount = 1
     \/ editor = "pageJump" /\ selRow = 0 /\ pageCount \in PageCounts
  /\ selCol = 0
  /\ maxDigits = DigitsOf(pageCount)
  /\ shifted = FALSE /\ symbolsMode = FALSE
  /\ typed = <<>>
  /\ updateRequested = TRUE /\ drawn = [field |-> <<>>, keys |-> {}]
  /\ outcome = <<"none">>

EditorNext ==
  \/ Vertical \/ Horizontal \/ KeyboardConfirm \/ PageJumpConfirm
  \/ Done \/ Go \/ Cancel \/ Render

EditorSpec == EditorInit /\ [][EditorNext]_editorVars

-----------------------------------------------------------------------------
(* Property                                                                *)

\* Whenever the editor waits for a key, the panel shows the text as it is and
\* exactly one key inverted, which is the one Confirm activates, in the mode the
\* panel says; and a page handed to the reader is one of the book.
KeysAsShown ==
  /\ Listening =>
       /\ drawn = View
       /\ \E key \in drawn.keys : key.selected /\ <<key.row, key.col>> = selection
  /\ outcome[1] = "page" => outcome[2] \in 0..pageCount - 1
=============================================================================
