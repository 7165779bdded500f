------------------------------- MODULE MCStored -------------------------------
(***************************************************************************)
(* The parts that run to their end on their own, one machine for each,     *)
(* checked in one run: a behaviour picks one of them and leaves the others *)
(* as they start.                                                          *)
(***************************************************************************)
EXTENDS Inflate, FirmwareImage, PageImage, ChapterTable, Utf8, TextLayout, CrashReport, SettingsStore, FilePage, Editors, ListScreens, FontTables

VARIABLE machine

-----------------------------------------------------------------------------
(* Inflate: codes of at most 2 bits over 4 symbols, bytes of 2 bits        *)

MCFixedLengths == [s \in 0..3 |-> 2]
MCOrder == [i \in 0..5 |-> <<3, 4, 5, 0, 2, 1>>[i + 1]]
MCRepeat == [s \in 3..5 |-> [least |-> IF s = 5 THEN 4 ELSE 2, extra |-> 1]]
MCLengthBase == <<2>>
MCLengthExtra == <<1>>
MCDistBase == <<1>>
MCDistExtra == <<1>>

(* PageImage: bytes of 2 pixels                                            *)

MCScreens == {<<2, 2>>, <<3, 2>>, <<1, 4>>, <<2, 4>>}
MCPageSizes == (1..3) \X (1..4)

(* TextLayout: glyphs shaped like those of V A f i l, their ligatures and  *)
(* a mark of the built-in font, and a codepoint it has no glyph for        *)

MCGlyph(advance, width, left, top, height) ==
  [advance |-> advance, width |-> width, left |-> left, top |-> top, height |-> height]
MCGlyphs == <<MCGlyph(117, 7, 0, 8, 8), MCGlyph(72, 5, -1, 11, 11), MCGlyph(56, 2, 1, 10, 10), MCGlyph(140, 9, -1, 11, 11),
              MCGlyph(130, 8, -1, 11, 11), MCGlyph(200, 12, -1, 11, 11), MCGlyph(0, 4, -5, 12, 2)>>
MCLeftClass == [c \in {1, 2} |-> c]
MCRightClass == [c \in {1, 3} |-> IF c = 1 THEN 1 ELSE 2]
MCKernMatrix == [p \in (1..2) \X (1..2) |-> IF p = <<1, 1>> THEN -10 ELSE IF p = <<2, 1>> THEN -9 ELSE IF p = <<1, 2>> THEN 20 ELSE 0]
MCLigatures == [p \in {<<2, 2>>, <<2, 3>>, <<4, 3>>} |-> IF p = <<2, 2>> THEN 4 ELSE IF p = <<2, 3>> THEN 5 ELSE 6]

(* CrashReport                                                             *)

MCGarbage == -1

(* SettingsStore                                                           *)

MCBooks == {<<1, 1>>, <<1, 2>>}
MCForeignHeads ==
  {[version |-> v, light |-> l, refresh |-> 0, night |-> TRUE, tilt |-> FALSE] : v \in 3..5, l \in {7, 45}}

(* FilePage: a file, a folder and a hidden file                            *)

MCFirstTree == [p \in {<<>>, <<"b">>, <<"d">>, <<".h">>} |-> IF p \in {<<>>, <<"d">>} THEN "dir" ELSE "file"]

(* Editors                                                                 *)

MCLetterRows == <<2, 2, 2, 1>>
MCSymbolRows == <<2, 2, 1, 2>>

(* ListScreens: a card with more books than fit the panel and a folder in  *)
(* a folder, a book with chapters that overlap and leave a gap, on the     *)
(* X4's panel, which has room for 19 rows                                  *)

MCEntry(kind, name, hidden) == [kind |-> kind, name |-> name, hidden |-> hidden]
MCCard ==
  [p \in {<<>>, <<2>>, <<2, 1>>} |->
     IF p = <<>> THEN {MCEntry("folder", 2, FALSE), MCEntry("xtch", 3, TRUE), MCEntry("bin", 5, FALSE)}
                      \cup {MCEntry("xtch", n, FALSE) : n \in {1} \cup 10..29}
     ELSE IF p = <<2>> THEN {MCEntry("folder", 1, FALSE), MCEntry("bin", 2, FALSE), MCEntry("xtch", 8, FALSE)}
     ELSE {}]
MCChapter(from, to) == [first |-> from, last |-> to]
MCChapterLists ==
  {<<>>, <<MCChapter(0, 1)>>, [i \in 1..21 |-> IF i = 1 THEN MCChapter(0, 1) ELSE MCChapter(i + 1, i + 2)]}
MCScans ==
  {<<>>, <<ListRow("open", 1)>>, [i \in 1..20 |-> ListRow(IF i < 18 THEN "open" ELSE "locked", i)]}

-----------------------------------------------------------------------------
storedVars == <<machine, puffVars, imageVars, pageVars, chapterVars, utf8Vars, textVars, crashVars, settingsVars, filePageVars, editorVars, listVars, fontVars>>

\* Machines with several first states start in one of them while another machine runs.
StoredInit ==
  /\ machine \in {"puff", "image", "page", "chapters", "utf8", "text", "crash", "settings", "files", "editors",
                  "lists", "fonts"}
  /\ PuffInit
  /\ ImageInit
  /\ PageInit
  /\ ChapterInit
  /\ Utf8Init
  /\ TextInit
  /\ CrashInit
  /\ machine # "crash" => logHead = 0
  /\ SettingsInit
  /\ machine # "settings" => file = <<>> /\ ~hasTilt
  /\ FilePageInit
  /\ EditorInit
  /\ machine # "editors" => editor = "keyboard"
  /\ ListInit
  /\ machine # "lists" => listScreen = "networks"
  /\ FontInit
  /\ machine # "fonts" => font = "bold" /\ wanted = Glyph(0)

StoredNext ==
  \/ machine = "puff" /\ PuffNext
     /\ UNCHANGED <<machine, imageVars, pageVars, chapterVars, utf8Vars, textVars, crashVars, settingsVars, filePageVars, editorVars, listVars, fontVars>>
  \/ machine = "image" /\ ImageNext
     /\ UNCHANGED <<machine, puffVars, pageVars, chapterVars, utf8Vars, textVars, crashVars, settingsVars, filePageVars, editorVars, listVars, fontVars>>
  \/ machine = "page" /\ PageNext
     /\ UNCHANGED <<machine, puffVars, imageVars, chapterVars, utf8Vars, textVars, crashVars, settingsVars, filePageVars, editorVars, listVars, fontVars>>
  \/ machine = "chapters" /\ ChapterNext
     /\ UNCHANGED <<machine, puffVars, imageVars, pageVars, utf8Vars, textVars, crashVars, settingsVars, filePageVars, editorVars, listVars, fontVars>>
  \/ machine = "utf8" /\ Utf8Next
     /\ UNCHANGED <<machine, puffVars, imageVars, pageVars, chapterVars, textVars, crashVars, settingsVars, filePageVars, editorVars, listVars, fontVars>>
  \/ machine = "text" /\ TextNext
     /\ UNCHANGED <<machine, puffVars, imageVars, pageVars, chapterVars, utf8Vars, crashVars, settingsVars, filePageVars, editorVars, listVars, fontVars>>
  \/ machine = "crash" /\ CrashNext
     /\ UNCHANGED <<machine, puffVars, imageVars, pageVars, chapterVars, utf8Vars, textVars, settingsVars, filePageVars, editorVars, listVars, fontVars>>
  \/ machine = "settings" /\ SettingsNext
     /\ UNCHANGED <<machine, puffVars, imageVars, pageVars, chapterVars, utf8Vars, textVars, crashVars, filePageVars, editorVars, listVars, fontVars>>
  \/ machine = "files" /\ FilePageNext
     /\ UNCHANGED <<machine, puffVars, imageVars, pageVars, chapterVars, utf8Vars, textVars, crashVars, settingsVars, editorVars, listVars, fontVars>>
  \/ machine = "editors" /\ EditorNext
     /\ UNCHANGED <<machine, puffVars, imageVars, pageVars, chapterVars, utf8Vars, textVars, crashVars, settingsVars, filePageVars, listVars, fontVars>>
  \/ machine = "lists" /\ ListNext
     /\ UNCHANGED <<machine, puffVars, imageVars, pageVars, chapterVars, utf8Vars, textVars, crashVars, settingsVars, filePageVars, editorVars, fontVars>>
  \/ machine = "fonts" /\ FontNext
     /\ UNCHANGED <<machine, puffVars, imageVars, pageVars, chapterVars, utf8Vars, textVars, crashVars, settingsVars, filePageVars, editorVars, listVars>>

StoredSpec == StoredInit /\ [][StoredNext]_storedVars
=============================================================================
