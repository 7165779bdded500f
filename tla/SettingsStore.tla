---------------------------- MODULE SettingsStore ----------------------------
(***************************************************************************)
(* The settings: what setup() of src/main.cpp reads at a start             *)
(* (core/Settings.cpp), where that start leads, what the settings screen   *)
(* and the reader change, and how each change is written back.             *)
(*                                                                         *)
(* A file is the sequence of the parts of the struct that are in it: the   *)
(* header with the small fields, the two halves of lastBookPath, and       *)
(* trueSleepMinutes, which is last.  A file cut inside its header reads    *)
(* like an empty one.  A path is a pair of halves; 0 is the empty half.    *)
(***************************************************************************)
EXTENDS Integers, Sequences, SequencesExt

CONSTANTS
  Books,        \* the paths of the books on the card
  ForeignHeads, \* the headers a file of another version may have
  MaxChanges    \* bound: changes of the settings in a behaviour

ASSUME StoreAssumption ==
  /\ Books \subseteq (Nat \ {0}) \X Nat
  /\ \A head \in ForeignHeads : DOMAIN head = {"version", "light", "refresh", "night", "tilt"}
  /\ MaxChanges \in Nat

VARIABLES
  settings,  \* the struct in memory
  inverted,  \* of the panel driver
  file,      \* the parts of settings.bin
  onScreen,    \* "off", "message", "home", "reader", "settings", "firmware"
  index,     \* of the settings screen
  saving,    \* where save() is: "no", "open", or "write"
  written,   \* the parts it has written
  hasTilt,   \* the board has a tilt sensor
  saved,     \* the parts last handed to a save() that opened the file
  complete,  \* the file holds the settings in memory
  toDraw,    \* the settings screen asked to be drawn
  told,      \* its rows as they were last drawn
  changes

memory == <<settings, inverted>>
card == <<file, saved, complete>>
panel == <<toDraw, told>>
settingsVars == <<memory, card, panel, onScreen, index, saving, written, hasTilt, changes>>

VERSION == 4
MinVersion == 3
NoBook == <<0, 0>>
Default == [light |-> 60, refresh |-> 5, night |-> FALSE, tilt |-> FALSE, book |-> NoBook, deep |-> 0]

LightMenu == {0, 30, 45, 60}
DeepMenu == {0, 10, 20, 30}

Parts(s) ==
  << [version |-> VERSION, light |-> s.light, refresh |-> s.refresh, night |-> s.night, tilt |-> s.tilt],
     s.book[1], s.book[2], s.deep >>

\* f.read() into a struct of defaults: a short file leaves the rest of it.
PartAt(parts, i) == IF i <= Len(parts) THEN parts[i] ELSE 0
ReadInto(parts) ==
  LET head == parts[1] IN
  [light |-> head.light, refresh |-> head.refresh, night |-> head.night, tilt |-> head.tilt,
   book |-> <<PartAt(parts, 2), PartAt(parts, 3)>>,
   deep |-> IF head.version < VERSION THEN 0 ELSE PartAt(parts, 4)]

Accepted(parts) == parts # <<>> /\ parts[1].version \in MinVersion..VERSION

Sanitised(s) == [s EXCEPT !.light = IF @ \in LightMenu THEN @ ELSE 60,
                          !.deep = IF @ \in DeepMenu THEN @ ELSE 10]

Loaded(parts) == IF Accepted(parts) THEN Sanitised(ReadInto(parts)) ELSE Default

-----------------------------------------------------------------------------
(* A start                                                                 *)

\* getWakeupReason()
WakeupReason(reset, cause, usb) ==
  IF \/ reset = "deepsleep" /\ cause = "gpio"
     \/ reset = "poweron" /\ cause = "undefined" /\ ~usb THEN "powerButton"
  ELSE IF reset = "unknown" /\ cause = "undefined" /\ usb THEN "afterFlash"
  ELSE IF reset = "poweron" /\ cause = "undefined" /\ usb THEN "afterUsbPower"
  ELSE "other"

WakeStates == {<<"deepsleep", "gpio">>, <<"poweron", "undefined">>, <<"unknown", "undefined">>, <<"panic", "undefined">>}

\* Where setup() leads with these settings.  A short press is always allowed, so
\* the check of its length never sends the device back to sleep.
FirstScreen(s, reason, upHeld) ==
  IF reason = "afterUsbPower" THEN "off"
  ELSE IF reason = "powerButton" /\ upHeld THEN "firmware"
  ELSE IF reason = "powerButton" /\ s.book # NoBook /\ s.book \in Books THEN "reader"
  ELSE "home"

\* Every start has the defaults in memory; a read error leaves them there.
Start ==
  /\ onScreen = "off"
  /\ \E wake \in WakeStates, usb, upHeld, readable \in BOOLEAN :
       LET s == IF readable THEN Loaded(file) ELSE Default
           first == FirstScreen(s, WakeupReason(wake[1], wake[2], usb), upHeld)
       IN
       /\ onScreen' = first
       /\ settings' = s
       /\ inverted' = (first # "off" /\ s.night)
       /\ complete' = readable
       /\ saving' = "no"
  /\ UNCHANGED <<file, saved, panel, index, written, hasTilt, changes>>

\* Storage.begin() fails: a message, and nothing is loaded or saved.
StartWithoutCard ==
  /\ onScreen = "off"
  /\ onScreen' = "message" /\ settings' = Default /\ inverted' = FALSE /\ saving' = "no"
  /\ complete' = FALSE
  /\ UNCHANGED <<file, saved, panel, index, written, hasTilt, changes>>

\* Deep sleep, a restart or a loss of power, in the middle of a save too.
TurnOff ==
  /\ onScreen # "off"
  /\ onScreen' = "off" /\ settings' = Default /\ inverted' = FALSE /\ saving' = "no" /\ index' = 0
  /\ complete' = FALSE /\ toDraw' = FALSE /\ told' = <<>>
  /\ UNCHANGED <<file, saved, written, hasTilt, changes>>

-----------------------------------------------------------------------------
(* save()                                                                  *)

Ready(where) == onScreen = where /\ saving = "no" /\ ~toDraw

Change(new) ==
  /\ changes < MaxChanges /\ changes' = changes + 1
  /\ settings' = new /\ saving' = "open"
  /\ complete' = FALSE

\* Mutant: the file is opened without truncating it.
KeepOld(old) == old

\* openFileForWrite() truncates the file.
Opened(old) == <<>>

SaveOpen ==
  /\ saving = "open"
  /\ \/ saving' = "write" /\ file' = Opened(file) /\ saved' = Parts(settings)
     \/ saving' = "no" /\ UNCHANGED <<file, saved>>
  /\ written' = 0
  /\ UNCHANGED <<memory, complete, panel, onScreen, index, hasTilt, changes>>

\* The write puts the next part in its place, or comes back short.
SaveWrite ==
  /\ saving = "write" /\ written < Len(saved)
  /\ \/ /\ written' = written + 1
        /\ file' = SubSeq(saved, 1, written + 1) \o SubSeq(file, written + 2, Len(file))
        /\ UNCHANGED saving
     \/ saving' = "no" /\ UNCHANGED <<file, written>>
  /\ UNCHANGED <<memory, saved, complete, panel, onScreen, index, hasTilt, changes>>

SaveDone ==
  /\ saving = "write" /\ written = Len(saved)
  /\ saving' = "no" /\ complete' = TRUE
  /\ UNCHANGED <<memory, file, saved, panel, onScreen, index, written, hasTilt, changes>>

-----------------------------------------------------------------------------
(* The screens that change them                                            *)

NextLight(l) == IF l = 0 THEN 30 ELSE IF l = 30 THEN 45 ELSE IF l = 45 THEN 60 ELSE 0
NextDeep(d) == IF d \in {0, 10, 20} THEN d + 10 ELSE 0
NextRefresh(r) == IF r = 1 THEN 5 ELSE IF r \in {5, 10, 15} THEN r + 5 ELSE 1

ItemCount == IF hasTilt THEN 7 ELSE 6
FirmwareIndex == IF hasTilt THEN 5 ELSE 4

\* HomeScreen, and the reader onEnter() of a book that opens.
GoToSettings ==
  /\ Ready("home")
  /\ onScreen' = "settings" /\ index' = 0 /\ toDraw' = TRUE
  /\ UNCHANGED <<memory, card, told, saving, written, hasTilt, changes>>

GoToReader(book) ==
  /\ \/ Ready("home")
     \/ Ready("reader") /\ book = settings.book
  /\ onScreen' = "reader"
  /\ Change([settings EXCEPT !.book = book])
  /\ UNCHANGED <<inverted, file, saved, panel, index, written, hasTilt>>

LeaveReader ==
  /\ Ready("reader")
  /\ onScreen' = "home"
  /\ UNCHANGED <<memory, card, panel, index, saving, written, hasTilt, changes>>

MoveIndex ==
  /\ Ready("settings")
  /\ \E delta \in {1, ItemCount - 1} : index' = (index + delta) % ItemCount
  /\ toDraw' = TRUE
  /\ UNCHANGED <<memory, card, told, onScreen, saving, written, hasTilt, changes>>

\* Confirm on a row that holds a setting.
Bumped ==
  IF index = 0 THEN [settings EXCEPT !.light = NextLight(@)]
  ELSE IF index = 1 THEN [settings EXCEPT !.deep = NextDeep(@)]
  ELSE IF index = 2 THEN [settings EXCEPT !.refresh = NextRefresh(@)]
  ELSE IF index = 3 THEN [settings EXCEPT !.night = ~@]
  ELSE [settings EXCEPT !.tilt = ~@]

Confirm ==
  /\ Ready("settings") /\ index < FirmwareIndex
  /\ Change(Bumped)
  /\ inverted' = IF index = 3 THEN ~settings.night ELSE inverted
  /\ toDraw' = TRUE
  /\ UNCHANGED <<file, saved, told, onScreen, index, written, hasTilt>>

\* Back, the row "Back" and the row of the firmware picker save once more; there may be no
\* memory for the picker.
LeaveSettings ==
  /\ Ready("settings")
  /\ \/ onScreen' = "home" /\ told' = <<>>
     \/ index = FirmwareIndex /\ onScreen' = "firmware" /\ told' = <<>>
     \/ index = FirmwareIndex /\ UNCHANGED <<onScreen, told>>
  /\ Change(settings)
  /\ UNCHANGED <<inverted, file, saved, toDraw, index, written, hasTilt>>

\* Back from the picker: the settings it was opened from are drawn again; the one setup()
\* opened has no screen below it.
LeaveFirmware ==
  /\ Ready("firmware")
  /\ \/ index = FirmwareIndex /\ onScreen' = "settings" /\ toDraw' = TRUE
     \/ index = 0 /\ onScreen' = "home" /\ UNCHANGED toDraw
  /\ UNCHANGED <<memory, card, told, index, saving, written, hasTilt, changes>>

\* render(), after the save: the values it reads are those in memory.  An interval
\* between refreshes that the menu does not offer is shown as 5.
RefreshLabel(s) == IF s.refresh \in {1, 10, 15, 20} THEN s.refresh ELSE 5
Labels(s) ==
  <<s.light, s.deep, RefreshLabel(s), s.night>>
    \o (IF hasTilt THEN <<s.tilt>> ELSE <<>>) \o <<"Update firmware", "Back">>
Rows(s) == [i \in 1..ItemCount |-> [label |-> Labels(s)[i], inverted |-> i = index + 1]]

DrawSettings ==
  /\ onScreen = "settings" /\ saving = "no" /\ toDraw
  /\ told' = Rows(settings) /\ toDraw' = FALSE
  /\ UNCHANGED <<memory, card, onScreen, index, saving, written, hasTilt, changes>>

-----------------------------------------------------------------------------
\* A file of this version or of another one, whole or cut, or none.
SettingsInit ==
  /\ \E head \in ForeignHeads, deep \in {0, 7}, book \in Books, length \in 0..4 :
       file = SubSeq(<<head, book[1], book[2], deep>>, 1, length)
  /\ saved = file /\ complete = FALSE
  /\ settings = Default /\ inverted = FALSE
  /\ onScreen = "off" /\ index = 0 /\ saving = "no" /\ written = 0
  /\ hasTilt \in BOOLEAN
  /\ toDraw = FALSE /\ told = <<>>
  /\ changes = 0

SettingsNext ==
  \/ Start \/ StartWithoutCard \/ TurnOff
  \/ SaveOpen \/ SaveWrite \/ SaveDone
  \/ GoToSettings \/ LeaveReader \/ MoveIndex \/ Confirm \/ LeaveSettings \/ LeaveFirmware \/ DrawSettings
  \/ \E book \in Books : GoToReader(book)

SettingsSpec == SettingsInit /\ [][SettingsNext]_settingsVars

-----------------------------------------------------------------------------
(* Property                                                                *)

\* What the file holds is the beginning of one save, never a mix of two,
\* wherever a save was cut off; and once a save or a load has gone through, the
\* next start loads exactly the settings in memory, whichever screen, row or
\* other version they came from: what the settings screen tells is what that
\* start will tell, and the row it shows inverted is the one Confirm changes.
RestartKeeps ==
  /\ IsPrefix(file, saved)
  /\ complete => Loaded(file) = settings
  /\ Ready("settings") => told = Rows(IF complete THEN Loaded(file) ELSE settings)
=============================================================================
