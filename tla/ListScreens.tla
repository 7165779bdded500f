------------------------------ MODULE ListScreens ------------------------------
(***************************************************************************)
(* The screens that are a list of rows: the home menu, the books and the   *)
(* firmware images of the card, the chapters of a book and the Wi-Fi       *)
(* networks (src/screens, src/core/UiList.h).  Each keeps an index and,    *)
(* but for the menu, a window of rows, and draws only when it asked for    *)
(* it.  Where the screens come from and go to is Navigation's, how a       *)
(* network is joined is Wifi's: here a screen above this one is "away".    *)
(***************************************************************************)
EXTENDS Integers, Sequences, SequencesExt, FiniteSetsExt

CONSTANTS
  Card,            \* the folders: what each path lists, [name, kind, hidden]
  ChapterLists,    \* of books: sequences of [first, last] pages
  LastPage,        \* of those books
  Scans,           \* what a scan may find: sequences of [name, kind]
  Width, Height, LineHeight, \* of the panel and of a line of text, in pixels
  MaxQueue         \* bound: page taps queued during a refresh

\* A panel has room for the whole menu, and so for one row of every other list.
ASSUME ListAssumption ==
  /\ <<>> \in DOMAIN Card
  /\ \A path \in DOMAIN Card : IsFiniteSet(Card[path])
  /\ ChapterLists \subseteq Seq([first : Int, last : Int])
  /\ Scans \subseteq Seq([kind : {"open", "locked"}, name : Nat])
  /\ {Width, Height, LineHeight, MaxQueue, LastPage} \subseteq Nat
  /\ Height >= 144 + 4 * (LineHeight + 10)

VARIABLES
  listScreen,  \* "home", "books", "firmware", "chapters", "networks" or "closed"
  state,       \* WifiListScreen::State, "List" for the other screens
  place,       \* the folder: a path
  entries,     \* the rows
  listIndex, window,
  navigation,  \* the page taps not yet consumed
  away,        \* a screen is above this one
  redraw,      \* requestUpdate()
  display      \* what the last render() drew: the text, or the rows

cursorVars == <<listIndex, window>>
listVars == <<listScreen, state, place, entries, cursorVars, navigation, away, redraw, display>>

ListRow(kind, name) == [kind |-> kind, name |-> name]

-----------------------------------------------------------------------------
(* core/UiList.h                                                           *)

wrapIndex(index, delta, count) == IF count <= 0 THEN 0 ELSE (index + delta) % count

\* Mutant: the window stays while the index is one row below it.
LateWindow(index, rows) ==
  IF rows <= 0 THEN 0
  ELSE IF index < window THEN index
  ELSE IF index > window + rows THEN index - rows + 1
  ELSE window

followWindow(index, rows) ==
  IF rows <= 0 THEN 0
  ELSE IF index < window THEN index
  ELSE IF index >= window + rows THEN index - rows + 1
  ELSE window

-----------------------------------------------------------------------------
(* The rows                                                                *)

Menu(hasContinue) ==
  (IF hasContinue THEN <<ListRow("item", "Continue")>> ELSE <<>>)
    \o <<ListRow("item", "Browse"), ListRow("item", "Transfer"), ListRow("item", "Settings")>>

\* load(): dot files and other kinds are left out, and the rows are sorted.
Wanted(entry) ==
  /\ ~entry.hidden
  /\ entry.kind \in {"folder", IF listScreen = "firmware" THEN "bin" ELSE "xtch"}
Listing(path) ==
  LET rows == {ListRow(entry.kind, entry.name) : entry \in {e \in Card[path] : Wanted(e)}}
      Ahead(row) == {other \in rows : other.name < row.name}
  IN [i \in 1..Cardinality(rows) |-> CHOOSE row \in rows : Cardinality(Ahead(row)) = i - 1]

\* Row 0 is the page number, then the chapters.
ChapterRows(list) == <<ListRow("goto", 0)>> \o [i \in 1..Len(list) |-> ListRow("chapter", i)]
ChapterOf(list, page) ==
  LET holding == {i \in 1..Len(list) : list[i].first <= page /\ page <= list[i].last}
  IN IF holding = {} THEN 0 ELSE Min(holding)

Top == IF listScreen = "home" THEN 120 ELSE IF listScreen = "networks" THEN 64 ELSE 40
Bottom == IF listScreen = "firmware" THEN 52 ELSE 24
RowHeight == LineHeight + (IF listScreen = "home" THEN 10 ELSE 8)
VisibleRows == IF listScreen = "home" THEN Len(entries) ELSE (Height - Top - Bottom) \div RowHeight

\* Gfx::fillRect(): what of the rectangle is on the panel.
FillRect(x, y, w, h) ==
  LET left == Max({x, 0})
      top == Max({y, 0})
  IN [x |-> left, y |-> top, w |-> Min({x + w, Width}) - left, h |-> Min({y + h, Height}) - top]

\* drawMenuRow() and drawRow(): the selected row is a filled box.
RowBox(y) ==
  IF listScreen = "home" THEN FillRect(24, y - 4, Width - 48, RowHeight)
  ELSE FillRect(8, y - 2, Width - 16, RowHeight)

\* What Confirm opens; the menu counts its items from Browse.
Target ==
  IF listScreen # "home" THEN entries[listIndex + 1]
  ELSE LET hasContinue == Len(entries) = 4
           i == listIndex - (IF hasContinue THEN 1 ELSE 0)
       IN ListRow("item", IF hasContinue /\ listIndex = 0 THEN "Continue"
                      ELSE IF i = 0 THEN "Browse" ELSE IF i = 1 THEN "Transfer" ELSE "Settings")

-----------------------------------------------------------------------------
Active == listScreen # "closed" /\ ~away /\ ~redraw
ListWaits == Active /\ state \in {"List", "NetworkList"}
Asked == redraw' = TRUE

Close == listScreen' = "closed" /\ UNCHANGED <<state, place, entries, cursorVars, navigation, away, redraw, display>>

\* A page tap during a refresh is counted.
Tap ==
  /\ listScreen # "closed" /\ ~away
  /\ \E delta \in {1, -1} : navigation' = navigation + delta /\ navigation' \in -MaxQueue..MaxQueue
  /\ UNCHANGED <<listScreen, state, place, entries, cursorVars, away, redraw, display>>

\* loop(): the taps are consumed, and move the index if there are rows.
Move ==
  /\ ListWaits /\ navigation # 0
  /\ navigation' = 0
  /\ IF entries = <<>> THEN UNCHANGED <<listIndex, redraw>>
     ELSE listIndex' = wrapIndex(listIndex, navigation, Len(entries)) /\ Asked
  /\ UNCHANGED <<listScreen, state, place, entries, window, away, display>>

\* load(), of a folder that can be opened or of one that cannot: then the
\* window stays as it was.
LoadFolder(path, index) ==
  /\ place' = path
  /\ \/ /\ path \in DOMAIN Card /\ entries' = Listing(path)
        /\ listIndex' = IF index >= Len(entries') THEN 0 ELSE index
        /\ window' = 0
     \/ entries' = <<>> /\ listIndex' = index /\ UNCHANGED window
  /\ Asked

InFolders == listScreen \in {"books", "firmware"}

\* goUp(): the taps that wait are not consumed before it.
GoUp ==
  /\ ListWaits /\ InFolders
  /\ \/ place = <<>> /\ Close
     \/ /\ place # <<>> /\ LoadFolder(Front(place), 0)
        /\ UNCHANGED <<listScreen, state, navigation, away, display>>

Chosen == ListWaits /\ navigation = 0 /\ entries # <<>>

OpenFolder ==
  /\ Chosen /\ InFolders /\ Target.kind = "folder"
  /\ LoadFolder(Append(place, Target.name), 0)
  /\ UNCHANGED <<listScreen, state, navigation, away, display>>

\* A book or an image has its own screen, on top of the listing.
OpenFile ==
  /\ Chosen /\ InFolders /\ Target.kind # "folder"
  /\ away' = TRUE
  /\ UNCHANGED <<listScreen, state, place, entries, cursorVars, navigation, redraw, display>>

\* The menu's entries go to other screens, and so does "Go to page".
GoOn ==
  /\ Chosen
  /\ listScreen = "home" \/ Target.kind = "goto"
  /\ away' = TRUE
  /\ UNCHANGED <<listScreen, state, place, entries, cursorVars, navigation, redraw, display>>

\* The chapter list closes after a jump, and so do all but the menu with Back.
JumpToChapter == Chosen /\ listScreen = "chapters" /\ Target.kind = "chapter" /\ Close
Back == Active /\ (listScreen = "chapters" \/ (listScreen = "networks" /\ state # "Failed")) /\ Close

\* Back on this screen: the taps are dropped, the menu counts its rows anew
\* (there may be a book to continue, or none any more), and it is drawn again.
Resume ==
  /\ away /\ away' = FALSE
  /\ navigation' = 0
  /\ IF listScreen = "home"
     THEN \E hasContinue \in BOOLEAN :
            /\ entries' = Menu(hasContinue)
            /\ listIndex' = IF listIndex >= Len(entries') THEN 0 ELSE listIndex
     ELSE UNCHANGED <<entries, listIndex>>
  /\ Asked
  /\ UNCHANGED <<listScreen, state, place, window, display>>

-----------------------------------------------------------------------------
(* WifiListScreen: the list comes and goes with the state                  *)

ToState(next) ==
  /\ state' = next /\ Asked
  /\ UNCHANGED <<listScreen, place, away, navigation, display>>

ScanComplete ==
  /\ Active /\ state = "Scanning"
  /\ \E found \in Scans : entries' = found
  /\ listIndex' = 0 /\ window' = 0
  /\ ToState("NetworkList")

\* An open network, or one whose password is known, is joined at once.
SelectNetwork ==
  /\ Chosen /\ listScreen = "networks"
  /\ ToState("Connecting") /\ UNCHANGED <<entries, cursorVars>>

AskPassword ==
  /\ Chosen /\ listScreen = "networks" /\ Target.kind = "locked"
  /\ away' = TRUE
  /\ UNCHANGED <<listScreen, state, place, entries, cursorVars, navigation, redraw, display>>

\* onPasswordEntered() and onPasswordCancelled(), called by the keyboard above.
PasswordEntered ==
  /\ away /\ state = "NetworkList"
  /\ ToState("Connecting") /\ UNCHANGED <<entries, cursorVars>>

\* pollConnect(): the transfer screen opens over a state that stays "Connecting".
ConnectFailed ==
  /\ Active /\ state = "Connecting"
  /\ ToState("Failed") /\ UNCHANGED <<entries, cursorVars>>
Connected ==
  /\ Active /\ state = "Connecting"
  /\ away' = TRUE
  /\ UNCHANGED <<listScreen, state, place, entries, cursorVars, navigation, redraw, display>>
TryAgain ==
  /\ Active /\ state = "Failed"
  /\ ToState("NetworkList") /\ UNCHANGED <<entries, cursorVars>>

-----------------------------------------------------------------------------
(* render()                                                                *)

Drawing(screens) ==
  /\ listScreen \in screens /\ ~away /\ redraw
  /\ redraw' = FALSE
  /\ UNCHANGED <<listScreen, state, place, entries, listIndex, navigation, away>>

\* Each row of the window, the selected one in its box.
DrawRows ==
  display' = [i \in window' + 1..Min({window' + VisibleRows, Len(entries)}) |->
                [row |-> entries[i],
                 boxes |-> IF i = listIndex + 1 THEN {RowBox(Top + (i - 1 - window') * RowHeight)} ELSE {}]]
DrawText == display' = <<>>

DrawMenu == Drawing({"home"}) /\ UNCHANGED window /\ DrawRows

DrawFolder ==
  /\ Drawing({"books", "firmware"})
  /\ window' = followWindow(listIndex, VisibleRows)
  /\ IF entries = <<>> THEN DrawText ELSE DrawRows

DrawChapters ==
  /\ Drawing({"chapters"})
  /\ window' = followWindow(listIndex, VisibleRows) /\ DrawRows

\* Only a list with networks in it has a window to follow.
DrawNetworks ==
  /\ Drawing({"networks"})
  /\ IF state = "NetworkList" /\ entries # <<>>
     THEN window' = followWindow(listIndex, VisibleRows) /\ DrawRows
     ELSE UNCHANGED window /\ DrawText

ListInit ==
  /\ listScreen \in {"home", "books", "firmware", "chapters", "networks"}
  /\ state = IF listScreen = "networks" THEN "Scanning" ELSE "List"
  /\ place = <<>>
  /\ \/ listScreen = "home" /\ listIndex = 0 /\ \E hasContinue \in BOOLEAN : entries = Menu(hasContinue)
     \/ InFolders /\ listIndex = 0 /\ entries \in {<<>>, Listing(<<>>)}
     \/ listScreen = "chapters" /\ \E list \in ChapterLists, page \in 0..LastPage :
          entries = ChapterRows(list) /\ listIndex = ChapterOf(list, page)
     \/ listScreen = "networks" /\ listIndex = 0 /\ entries = <<>>
  /\ window = 0 /\ navigation = 0
  /\ away = FALSE /\ redraw = TRUE /\ display = <<>>

ListNext ==
  \/ Tap \/ Move \/ GoUp \/ OpenFolder \/ OpenFile \/ GoOn \/ JumpToChapter \/ Back \/ Resume
  \/ ScanComplete \/ SelectNetwork \/ AskPassword \/ PasswordEntered
  \/ ConnectFailed \/ Connected \/ TryAgain
  \/ DrawMenu \/ DrawFolder \/ DrawChapters \/ DrawNetworks

ListSpec == ListInit /\ [][ListNext]_listVars

-----------------------------------------------------------------------------
(* Property                                                                *)

\* Whenever a list waits for a key, the panel shows as many of its rows as fit,
\* in order, and exactly one of them inverted: the one that Confirm opens, whole
\* and clear of the line at the bottom.  The index and the window are kept over
\* other screens, new folders, folders that cannot be opened, new scans and a menu
\* that lost or gained its first item.
RowsAsShown ==
  ListWaits =>
    LET inverted == {i \in DOMAIN display : display[i].boxes # {}}
    IN IF entries = <<>> THEN display = <<>>
       ELSE /\ Cardinality(DOMAIN display) = Min({VisibleRows, Len(entries)})
            /\ \A i \in DOMAIN display : display[i].row = entries[i]
            /\ Cardinality(inverted) = 1
            /\ {display[i].row : i \in inverted} = {Target}
            /\ \A i \in inverted : \A box \in display[i].boxes :
                 box.h = RowHeight /\ box.y + box.h <= Height - Bottom
=============================================================================
