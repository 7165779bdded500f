# Lazahata in TLA+

Lazahata is the firmware of a small e-ink reader: C++ on an ESP32-C3 (boards X3 and X4), one Arduino
loop task, books and settings on an SD card, transfer of files over Wi-Fi, firmware updates from the
card. This directory holds TLA+ modules translated from its source, the TLC configurations that check
them on small instances, and theorems about them that TLAPS checks for every value of the constants.

Paths below are relative to the root of the repository.

    tlasany M.tla                              # parse
    tlc -workers 2 -config X.cfg M             # check a run of the table below
    tlapm InputProofs.tla                      # check the proofs of a module


## 1. The system

One task runs `loop()` of `src/main.cpp` for ever:

    gpio.update -> consumeWakeRelease -> maybeToggleTiltLock -> tilt update -> noteUserActivity
      -> maybeSleep -> ScreenManager::loop -> (idle delay)

    ScreenManager::loop:  applyPending -> current->loop() -> applyPending -> render if dirty

So there are no data races to find. What interleaves is this: a refresh of the panel blocks the loop
for up to seconds and meanwhile calls a busy-wait hook that samples the keys; requests to change the
screen are put in a slot and carried out later; the power may go at any moment; any allocation may
fail, because the heap is nearly full; any read, erase or write may fail or stop half way; and Wi-Fi
ends in a restart of the device, by design.

| Component | State | Operations | Talks to | What makes it correct |
|---|---|---|---|---|
| Screen stack, `src/core/ScreenManager.*`, `Screen.*` | current screen, covered screens, one pending request, dirty flag | push, pop(n), replace, applyPending, loop | every screen; Input (drops queued taps); Power (render lock) | the stack is the way the user came; no reference dangles; covered screens are not destroyed without `onExit`; applyPending ends |
| Screens, `src/screens/*` | per screen: state, cursor, directory; references to another screen | `onEnter`, `onExit`, `onResume`, `loop`, `render` | stack, Wi-Fi session, book | what changed is painted; Back leads home |
| Key input, `src/core/MappedInput.*` | four tap counters, two latches | update, busyWaitPoll, consume..Delta, resetPendingPageTaps | HalGPIO; refresh; screens | a key tapped in a refresh acts as if live, once, on its own screen |
| Power, `src/core/Power.*` | wake release pending, guard time, idle time, gyro lock | noteWakeHold, consumeWakeRelease, maybeToggleTiltLock, noteUserActivity, maybeSleep | keys, tilt sensor, CPU speed, screens | the waking press only wakes; the lock stops gestures; idleness ends in sleep |
| Tilt sensor, `lib/hal/HalTiltSensor.*` | awake, two events, activity flag, gesture detector | wake, deepSleep, update, consume events | Power, reader | one gesture, one event; none while locked |
| CPU speed, `lib/hal/HalPowerManager.*` | low-power flag, lock | setPowerSaving, Lock, startDeepSleep | Power, stack | never slow while painting or outside the reader |
| Firmware update, `src/core/SdUpdate.*` | two OTA slots, two otadata entries (flash) | inspect, flash, switchBoot | update screen, boot loader | always something to boot; the update is atomic |
| Wi-Fi session, `src/network/WifiSession.*` | none: owns the page buffer's absence | begin, end (restart) | Wi-Fi screens, book | radio and page buffer never share the heap |
| Wi-Fi station, `WifiManager.*` | scan, connect attempt, deadline | startScan, scanComplete, connect, pollConnect | driver | one attempt at a time, and an end to it |
| Credential store, `WifiCredentialStore.*` | five entries, next to evict, one file | load, save, find, addOrUpdate | card, Wi-Fi list | oldest goes first, over restarts too; what is saved has connected |
| File transfer, `FileTransferServer.*` | upload state | list, download, upload start/chunk/end/abort, mkdir, rename, move, delete | card, browser | success is said of whole files only; an upload touches its own file only |
| XTCH book, `lib/Xtch/Xtch.*` | page table window, cluster cache, page buffer | open, loadPageData, readChapters, drawPage, prefetch, cleanup | card, reader | what is cached belongs to the page asked for |
| Reader progress, `src/screens/ReaderScreen.*` | page, `progress` file | load, save, turn, jump | book, keys, tilt | the book reopens where it was left |
| Drawing a page, `drawPage` and `lib/Gfx` | one frame buffer | paint the base, two gray passes, the base again | book, panel | fast and slow path agree in every pixel |
| Inflate, `lib/Xtch/puff.c` | compressed window, bit buffer, codes, output | refill, bits, construct, decode, stored, fixed, dynamic | card, book | bits in order and once each; the code decoded is the code sent; nothing outside the buffer |
| Settings, `src/core/Settings.*`, `SettingsScreen.*` | one record, one file | load, save, the rows' Confirm | card, Power, `setup()` | what is shown is what the next start loads; a torn file is never a mix |
| Lists and editors, `src/screens/*`, `UiList.h` | index, window, rows; cursor, text, mode | tap, move, open, resume, scan; type, shift, done | input, stack | what is inverted is what Confirm takes |
| Crash report, `lib/hal/HalSystem.*`, `lib/Logging` | retained log ring and panic marker | addToLogRingBuffer, getLastLogs, begin, checkPanic | reset, card | the report is of this crash, once |
| File manager page, `html/FileManagerPage.h` | path, rows, requests under way (in the browser) | load, enter, mkdir, rename, move, delete, upload | file transfer server | a button acts on the file beside it |
| Text and fonts, `lib/Utf8`, `lib/EpdFont` | tables in flash | next codepoint, glyph, ligature, kerning, bounds | every screen | any bytes are read to their end; lookups are exact; what is drawn was measured |
| Clock, display, front light and card wrappers, build files | none that others depend on | - | - | not modelled |

The hard behaviours, with the line where each bites, are the `hazards` of `PROJECT.json`.


## 2. Modules

| Module | What it is | Code |
|---|---|---|
| `ScreenManager` | the stack, the request slot, the rounds of applyPending; constants and helpers only, no specification of its own | `src/core/ScreenManager.*`, `Screen.*`, `lib/Memory/Memory.h` |
| `Navigation` | extends it with the twelve classes of screen, `setup()`, sleep, restart, the Wi-Fi session and the page buffer: the specification | `src/main.cpp`, `src/screens/*`, `src/network/WifiSession.*` |
| `NavigationProofs` | eight theorems about it | |
| `Input` | releases, counters and latches between refreshes and ticks | `src/core/MappedInput.*` |
| `InputProofs` | three theorems | |
| `Power` | the calls of `loop()` one by one, with time | `src/core/Power.*`, `lib/hal/HalTiltSensor.*`, `HalPowerManager.*`, `src/main.cpp` |
| `PowerProofs` | four theorems | |
| `AtomicUpdate` | abstract: what an update promises | `src/core/SdUpdate.h` |
| `SdUpdate` | flash and switchBoot, operation by operation | `src/core/SdUpdate.cpp`, boot loader (external) |
| `SdUpdateProofs` | four theorems, the refinement among them | |
| `XtchBook` | an open book: window, clusters, page buffer, one load; operators only, no specification of its own | `lib/Xtch/Xtch.*` |
| `Reader` | extends it with the reader screen, its progress file, the deferred cleanup and the loss of power: the specification | `src/screens/ReaderScreen.*` |
| `ReaderProofs` | six theorems | |
| `FileTransfer` | uploads over the state kept from one to the next, with renames and deletions between them | `src/network/FileTransferServer.*`, `src/screens/FileTransferScreen.cpp` |
| `FileTransferProofs` | four theorems | |
| `BoundedFifo` | abstract: what the store of networks promises | `src/network/WifiCredentialStore.h` |
| `Wifi` | joining a network: list, keyboard, station, store and its file | `src/screens/WifiListScreen.*`, `src/network/WifiManager.*`, `WifiCredentialStore.*` |
| `WifiProofs` | four theorems, the refinement among them | |
| `FirmwareImage` | `inspect()` over any file, with sums that wrap | `src/core/SdUpdate.cpp` |
| `Inflate` | `puff_stream()` over any stream, cut into any pieces | `lib/Xtch/puff.c` |
| `PageImage` | what each pass of `drawPage()` leaves in the frame | `lib/Xtch/Xtch.cpp`, `lib/Gfx/Gfx.cpp` |
| `ChapterTable` | the header as `open()` believes it, and `readChapters()` | `lib/Xtch/Xtch.cpp`, `src/screens/ChapterSelectionScreen.cpp` |
| `Utf8` | reading characters out of any bytes | `lib/Utf8/Utf8.cpp` |
| `TextLayout` | measuring a line and drawing it | `lib/EpdFont/EpdFont.cpp`, `lib/Gfx/Gfx.cpp` |
| `FontTables` | looking up characters and ligatures in the two fonts' own tables | `lib/EpdFont/*` |
| `CrashReport` | retained memory over resets, and what the next start writes of it | `lib/hal/HalSystem.cpp`, `lib/Logging/*`, `src/main.cpp` |
| `SettingsStore` | the record, its file, the settings screen and where a start leads | `src/core/Settings.*`, `src/screens/SettingsScreen.cpp`, `src/main.cpp`, `lib/hal/HalGPIO.cpp` |
| `FilePage` | the browser's script against the server's requests | `src/network/html/FileManagerPage.h`, `src/network/FileTransferServer.cpp` |
| `Editors` | the keyboard and the page picker | `src/screens/KeyboardScreen.*`, `PageJumpScreen.cpp` |
| `ListScreens` | home menu, books, firmware, chapters, networks: index, window and drawn rows | `src/screens/*`, `src/core/UiList.h` |
| `StoredProofs` | fifteen theorems about the twelve modules from `FirmwareImage` to `ListScreens` | |
| `MCNavigation`, `MCSdUpdate`, `MCReader`, `MCStored` | model values and bounds for TLC | |

Definitions called `Mutant:` in a comment are wrong on purpose. None is used by a specification; each
replaces the definition after it to show that a property notices that bug.

`ScreenManager` and `Navigation`, `XtchBook` and `Reader`, and the two abstract modules with their detailed
ones are composed; the twelve modules from `FirmwareImage` to `ListScreens` have a specification each
and share no state, so `MCStored` checks them in one run: a behaviour picks one of them at its start.

### Navigation

A screen is a record: its class, an address, the address of the screen it keeps a C++ reference to,
the one field that decides what it does next, and (browser) how deep in the directory tree it is. An
address is free again once its object is destroyed, so a dangling reference could even meet a new
object of another class. `pc` walks through one call of `ScreenManager::loop`: `apply1`, `loop`,
`apply2`, `render`; each round of applyPending's while is a step (`PopToHome`, `PopThrough`,
`PopToParent`, `ApplyReplace`, `ApplyPush`), with `ExitRestarts` where `onExit` ends the Wi-Fi session
and does not return. There is one `..Loop` operator per class of screen, whose disjuncts are the
handler's branches. A key is chosen by the step that reads it, since in one tick a single handler
runs and acts on the first key it looks at.

Abstracted: what is drawn (only whether the panel shows what would be drawn now), cursors, names,
pages, typed text. Answers from outside - allocation, opening a book, inspecting an image, the scan,
the connection - are choices.

### Input

`released` is the last `gpio.update()`. `BusyWaitPoll` is a slice of a refresh, `Update` the tick's
own sample. A screen is reduced to how its handler reads the input: as a reader, as a list, or not at
all. `wake` is as much of `Power` as takes keys away: between `Update` and the handler `loop()` may return
early (`DropTick`), on the release of the waking press or on the power key, and what the update had drained into the
latches is then overwritten by the next one. The history variables `meant`, `owed`, `asked` and `released` hold what
the user asked for, to compare with what the counters and latches make of it.

### Power

A tick is cut at each call of `loop()`. Durations are small numbers that saturate where the code
compares no further. `setCpuFrequencyMhz()` may fail: `restoreFailed` remembers that the last attempt to restore the
speed did, after which the code leaves the CPU slow and asks again at the next key or drawing. Only `gpio.update()`, in the tick (`Update`) or in a refresh (`BusyWaitPoll`),
sees keys and lets time pass. Screens are reader, one that blocks sleep, or other.
`suppressNextPowerShortPress` is left out because nothing sets it - that is one of the findings.

### SdUpdate

Flash is contents unit by unit; every erase and write may fail, or be cut off by the power, and then
leaves junk. A failure that is reported lets the user start again with any image, and updates follow
one another. The boot loader and `initArduino` are outside the repository and modelled (external) as
ESP-IDF has them, with and without rollback. `inspect` is taken to accept exactly the whole images, which is
what `FirmwareImage` shows of it. A
failed write of an otadata entry is taken not to have completed it: an entry half written fails its
checksum, as `Blank` does.


### Reader

`pc` walks through a tick of the reader: `flush` and `keys` are `ReaderScreen::loop`, `truncate` and
`write` a save of the progress file, `lookup` to `paint` `drawPage`, with `load` and `read` the two
halves of `loadPageData`, and `prefetch` the end of `render`. A page is its number: the row of page `p` is
`p`, its cluster is `p`, and the data read at row `r` through cluster `c` is the pair of the book and `r` when
they agree and junk when not, so that a row or cluster of another page, or a buffer that was reused, shows
on the panel. Any read, seek, reopening or allocation may fail, and leaves what the code leaves. `dirty` is
`ScreenManager`'s flag as far as the reader sees it: a reader opened by `setup()` has one tick of keys before
it is drawn. `fault` remembers that the last use of the progress file failed. One path is modelled, at which
the book may be exchanged between visits; the object of a visit is new, the page buffer is static.

Abstracted: pixels (`PageImage`), compression (`Inflate`) and the header checks (a damaged page is one that
always fails), the list of chapters beyond the pages it can lead to (`ChapterTable`), the strength of a
refresh, the settings record that `onEnter` saves (`SettingsStore`), and the hash that names the progress file.

### FileTransfer

A body is a sequence of units, the `k`-th of the `n`-th upload being `<<n, k>>`, so that a unit in the wrong
file, place or order shows. `file`, `destPath`, `success`, `preallocatedSize` and `buffer` are `UploadState`, of
which there is one for all uploads: `Reset` is what `handleUploadStart` always resets, and the three starts
(no name, no file, opened) are its early returns. `WebServer` reads a body to its end or abortion before it
looks at another request, so `Chunk`, `End`, `Abort` and `SendUploadResponse` are not interleaved with
`Rename` and `Delete`; what interleaves is what earlier uploads left behind. A file is named by the upload that
created it; writing over a name makes a new file. What was written to a file not closed may be lost when
the device restarts (external: SdFat).

### Wifi

`pc` says which screen is current and, in `goToFileTransfer`, how far the save is: the file is truncated by
opening it (`Truncate`), then written (`Write`), then the transfer screen allocated (`OpenTransfer`). The driver
(external) works on the last attempt until told to disconnect, and may bring it up, lose it and bring it up
again. Network, encryption and which networks there are are chosen when the user selects, as the scan's list
plays no further part. Any restart (`WifiSession::end` or the power) loads the file again, or nothing if the
file is short or not readable. `Ordered` is the refinement mapping: with a free slot the entries are in the order
of the slots, without one they begin at `nextEvict`.


### FirmwareImage

One action for each read of `inspect()`, which may fail or come short, with what the file answers chosen when
it is read. `cursor` is where the file is, `pos` where the code believes it is; `Wrap` is the width of the sum in the
bounds check of a segment. A byte counts by its parity and by whether it was hashed.

### Inflate

A byte is its sequence of bits; the format's numbers are constants, so that a code of a few symbols reaches every
branch. What the callback brings is chosen at each refill, so a stream is any stream, cut anywhere. The machine
walks through `puff_stream()`: `Refill` and `Starve` are the callback, `DecodeBit` one turn of the counting
decoder, `Interpret` what a block does with a symbol or field. There are no history variables: `InflateTrue` compares
each step's state with the next, `DecodesCanonical` the decoder's locals with a definition of the code: `FirstCode` adds up, symbol by symbol, what the shorter codes take,
and has nothing of the decoder's count and index. The one-buffer entry `puff()` is not called by the firmware and left out.

### PageImage, ChapterTable

`PageImage` has the four paintings of a page and both ways to paint, with the rotation of `Gfx` to panel order, for
a page of any size on a screen of any size. In `ChapterTable` every offset of the header and every field of
an entry is arbitrary; `OpenBook` keeps what `open()` checks.

### Utf8, TextLayout, FontTables

`Utf8` walks over any bytes with a zero behind them; shifts and masks are arithmetic. `TextLayout` runs the loop of
`getTextBounds()` and then that of `drawText()` over the same codepoints, with advances in sixteenths of a pixel,
kerning classes and ligatures; its glyphs are shaped like some of the built-in font. `FontTables` has the interval
and ligature tables of `ubuntu_12_bold.h` and `ubuntu_12_medium.h` themselves and the library's binary search,
comparison by comparison.

### CrashReport

Retained memory keeps its contents through every reset but a loss of power. A log line and a crash are
numbers, so a report shows whose line, reason or stack it holds. Resets come at any moment after the first: panic (with
and without a reason), lock-up, watchdog (with and without a capture), restart, power. `TearLine` is a crash inside
`addToLogRingBuffer`. `CheckPanic` writes the whole report, or cannot open the file, or empties it and writes a part.
The history variable `owed` holds what was captured and is kept unreported, and a report is stored with what was owed
when it was written.

### SettingsStore

The file is the sequence of the struct's parts that are in it, so that a write cut short leaves a beginning.
`Start` is `setup()`: load, invert, and the first screen that the cause of the wake, the keys and the last
book lead to. From the rows the user may go to the firmware picker, for which there may be no memory, and back. `told` is what the settings screen draws of each row, `panel` what was drawn last.

### FilePage

The server serves requests and the browser gets answers in any order, as each goes over a connection of its own;
either may be lost. The page keeps a path and rows, and a row's buttons hold the path of the time the row was made.
The server may fail at any request: a change then leaves the card alone, and a list lacks what could not be read, all of
it if the folder did not open, with a status the page does not look at. `missing` remembers what the list shown lacked.

### Editors, ListScreens

Each handler of the two editors and the five lists, with the flag that asks for drawing: what is on the panel
is set by the drawing action alone. The lists are on a real card's scale: the X4's panel has room for 19 rows.


## 3. Runs

| Run | Shows | Bounds, and why they are enough | Distinct states |
|---|---|---|---|
| `navigation` | `Lineage`, `RefsAlive`, `ReplaceAtRoot`, `SessionOwnsHeap`, `PanelCurrent`, `JumpLandsOnReader` with any allocation free to fail | five addresses: the deepest column has five screens (Home, Browser, Reader, Chapters, PageJump), and none of them opens another; one directory level, as all are alike; symmetry on addresses (no liveness here) | 1 176 |
| `navigation_live` | `TickCompletes`, `BackLeadsHome` with enough memory | two directory levels, no symmetry | 99 202 |
| `input` | `ReaderTapsCountAlike`; `LatchExact`: every release of Confirm and Back has its one answer, unless the power key or the waking press took its tick | two taps a counter: one may be served and one left | 377 364 |
| `input_lists` | violated: `ListTapsCountAlike` | as above | - |
| `power` | `WakePressInert`, `SlowOnlyInReader`, `LockStopsGestures`, `IdleSleeps` | one unit each for the short press, the guard, power saving and the lock, two for sleep: every comparison can fall on either side, and the order is the code's (`SettingsScreen.cpp` offers 30 to 60 seconds to the lock, 10 to 30 minutes to sleep, and 0 for never) | 3 666 620 |
| `power_relock` | violated: `NoRelock` | as above | - |
| `sd_update` | `Bootable`, `WritesErased`, `FlashEnds`, refinement `Atomic` | slot of 6 units, sector 2, erase block 4, chunk 2: a second block shorter than the first, images that end inside a chunk (3) and at the end of the slot (6); sequence numbers to 5, so that each slot is written twice and over the remains of a failure | 112 532 |
| `reader` | `PanelShowsPage`, `CachesTrue`, `ProgressKept`, `GrayResynced` | a book of 4 pages over a window of 3 rows with 1 behind the page, so that windows begin at the front, inside and at the back of the table and are refilled both ways; a second edition of 2 pages, shorter than the window and than a saved page; 2 clusters remembered, so that the third evicts; steps of up to 2 pages, past both ends | 2 419 123 |
| `file_transfer` | `AnswerTrue`, `OthersKept` | three uploads: one leaves something behind, one inherits it, one comes after; bodies of up to 3 units over a buffer of 2, so that one ends inside, at the end of and beyond a buffer; two names, one of them protected | 5 958 866 |
| `file_transfer_exit` | violated: `ClosedOnExit` | as above | - |
| `wifi` | `SavedIsConnected`, `ConnectEnds`, refinement `StoreIsFifo` | three networks for two slots, so that each slot is evicted in turn and an evicted network comes back; two passwords, so that an update changes one; a deadline of one unit of time | 388 758 |

| `stored` | one or two properties of each of the twelve modules, below | below | 7 037 944 |

What `stored` shows, machine by machine:

| Module | Shows | Bounds, and why they are enough |
|---|---|---|
| `FirmwareImage` | `ImageExact`: accepted only when read to the last byte, padded and hashed whole | files to 22 units on a slot of 20, header 6, segment header 2, alignment 4, hash 4, chunk 3, at most two segments: files too short, too long, with one pad unit and with a full one; sums wrap at 32, so that a length can wrap past the check; the theorem has every other value |
| `Inflate` | `DecodesCanonical`: the counting decoder decodes the canonical code of the lengths it was given, for complete and incomplete codes. `InflateTrue`: every bit in order and once, a copy repeats what lies its distance back, the output is only appended to and never overflows | bytes of 2 bits in pieces of 1 or 2, codes of at most 2 bits over 4 symbols, output of 3: every block type, a copy that overlaps itself, a refill inside a code, an output that is full |
| `PageImage` | `PaintsAgree`: the three frames tell the four levels apart in every pixel, the page is centred, and the frame ends as the base | four screens, pages smaller, equal and larger in either direction, columns that do not fill their bytes |
| `ChapterTable` | `ChaptersSound`: chapters are page ranges of this book from entries that lie in their table | up to 3 pages, a file of 8 units and so two entries, offsets before, at and behind every boundary |
| `Utf8` | `ReadsEveryCharacter`: read to the end and not past it, well-formed characters whole | every text of up to 4 of 15 bytes, those at the edges of the format's ranges |
| `TextLayout` | `InkMeasured`: no ink outside the measured box | lines of up to 4 of 5 codepoints: kerned, with ligatures that chain, a mark, a missing glyph |
| `FontTables` | `LookupsExact`: found exactly if present, no search beyond its table | the real tables; around both ends of every interval, and 9 others |
| `CrashReport` | `ReportTrue`: a report is for a crash that has none yet, complete it has the newest stack and reason that are owed, and its lines were logged, and in that order | a ring of 3, 5 lines, 3 resets: a ring that wraps, a report that fails, a watchdog after it |
| `SettingsStore` | `RestartKeeps`: the file is a beginning of one save; after a save or load gone through, the next start loads what the screen told | 2 changes of any row from any file, earlier versions and foreign values among them; a record of 4 parts |
| `FilePage` | `PageTrue`: with everything answered and the newest list last, rows are the folder's but for what the server could not read, and buttons act on their own file | 4 requests on a tree of a file, a hidden file and a folder, two levels |
| `Editors` | `KeysAsShown`: the text typed is the text drawn, the one key inverted is the one Confirm takes; a page handed on is in the book | rows of 2, 2, 2, 1 and 2, 2, 1, 2 keys; a text of up to 2; books of 1 and 12 pages |
| `ListScreens` | `RowsAsShown`: as many rows as fit, in order, one inverted, the one Confirm opens | 22 rows at the root on a panel of 19, a folder in a folder, lists of 0, 1 and 20 and 21 entries; 2 queued taps |

The properties, and the code they are about, are stated in comments next to their definitions. Each module
proved about has a type invariant, `TypeOK` (`ImageTyped`, `RingTypes` and the like in `StoredProofs`), which the proofs show for every
value of the constants (`TypeCorrect`); the runs leave it out.

**Three runs end in a violation**, each of a sentence the repository says of itself:

* `power_relock`: `Power.cpp:19-20` says that after unlocking with the power key the release of that
  press is ignored. The flag for it, `suppressNextPowerShortPress`, is never set: the press clears the
  lock (`Power.cpp:133-135`) and its own release locks again (`Power.cpp:128-131`). A short press of the
  power key cannot unlock.
* `input_lists`: `MappedInput.h:32` describes one net delta out of live releases and taps drained from
  a refresh. On an X3, the upper side key moves a list up when it is released live
  (`MappedInput.cpp:113-116`), and down when tapped during a refresh (`MappedInput.cpp:55-57`). The
  reader, and lists on an X4, do agree: `ReaderTapsCountAlike`.
* `file_transfer_exit`: `.skills/hal-and-abstractions/SKILL.md:52-53` has local files closed by their destructor
  and "members closed in `onExit`". `upload.file` is closed neither by `handleUploadEnd`
  (`FileTransferServer.cpp:329-335`) nor by `stop` (`:150-165`), and `onExit` ends in `ESP.restart()`
  (`WifiSession.cpp:21`), after which no destructor runs: a file answered for may lose what was not synced.

**Deadlock** is checked in every run but `stored`, whose machines may come to their end: a page has been drawn, a text
read, a bound used up.

### Fairness

* Navigation: `WF_vars(Device)`. The loop task runs whenever the device is on, and a reset boots; the
  user's part (waking, keys, sleep) is not assumed to happen. A key that is not pressed is the step
  with key `None`.
* Power: weak fairness of the loop's own steps - `loop()` returns and is called again, a refresh ends
  because the driver's wait has an end - and strong fairness of "time passes at a sample", as samples
  come again and again and the clock does not stop. Waking is up to the user. `IdleSleeps` further assumes
  in its own premise that keys and gestures cease.
* SdUpdate: `WF_vars(Working)`: flash is a loop with no waiting, so it goes on unless the power goes.
* Wifi: weak fairness of time and of the poll that the list makes in every tick while it waits. The link
  coming up, the user and the power are not assumed.
* Input, Reader, FileTransfer and the modules of `stored`: none, they have no liveness properties. `InflateTrue` is a
  property of steps.


## 4. Proofs

For every value of the constants, from the named assumptions in the modules; TLC evaluates each of them on a run.
They are types, the distinctness of special values, and what the code's own tables and sizes have in common:

* `ManagerAssumption`, `NoScreenAssumption`, `InputAssumption`, `PowerAssumption`, `TransferAssumption`,
  `WifiAssumption`, `NoEntryAssumption`, `BlankAssumption`: types, special values, thresholds within the counted range.
* `SdUpdateAssumption`, `ImageAssumption`: a block is a whole number of sectors and of chunks, every image fits its slot.
* `BookAssumption`, `ReaderAssumption`: a window is longer than its lookbehind.
* `ChapterAssumption`, `StoreAssumption`, `Utf8Assumption`: sizes are numbers, an entry is not empty.
* `PageImageAssumption`: a portrait screen's columns are whole bytes, as the two panels' are (792 and 800 pixels).
* `CrashAssumption`: the log ring has at least two slots (the code's has 16), and garbage is no line.
* `EditorAssumption`: four rows of one to ten keys in either layout, whose first rows are as long, as in `KeyboardScreen.cpp`.
* `ListAssumption`: the root directory can be listed, and the panel has room for the home menu's four rows.
* `FontAssumption`: zero is no character, a kerned character has a glyph, a mark is in no ligature.
* `PageAssumption`: the card's paths are closed under going up, and the root is a folder.
* `FontTablesAssumption`, `FontTablesSound`: the rows of a font's tables are in order and within its glyphs, and what a
  ligature gives has a glyph. This is a fact of the two tables in the source, evaluated on both; no code checks it.
* `FormatAssumption`: `puff.c`'s tables as the format has them - `order[]` is a permutation, every extra field has its
  base, no distance is 0, a window holds a stored block's header, a byte is no longer than the longest code and one
  bit (8 and 15), nor is a fixed block's distance code longer (5).
* `CodeLengthAssumption`: nor is the code of a code length, whose length is a field of three bits (7).

No fairness is used.

**Navigation** (`IInv`, all its safety properties). None of the properties is inductive alone.
`Covered` says the stack is a path of screens each opened from the one below and each in the state it was
covered in, with its reference to the right screen; `Top` the same of the current one; `Waiting` what each
pending request implies of the current screen (a replacement only with an empty stack, two levels
only from a page picker, a push only of what the current class opens), which is what carries a property
through the round in which it is applied; `Session`, `Panel` and `Control` tie radio, buffer, panel and
`pc` to these. `Lineage`, `RefsAlive`, `ReplaceAtRoot`, `SessionOwnsHeap`, `PanelCurrent` and
`JumpLandsOnReader` follow. The proof covers any depth of directories and any set of failing classes.

**Input** (`IInv`). Its two properties with `TypeOK` and the parts of `LatchExact`: what is owed an answer is queued in
its counter (`Queued`), or latched for the handler of this tick (`Latched`), or was lost with a tick that the power key
or the waking press took (`LostByPower`). The heart is `StepIsBump`: what the hook adds to the counters for one frame
of edges is the step that frame would have been.

**Power**. `WakePressInert` needs `PressInv`: while the waking press lasts its release is still pending
and no release has been seen; when it is over but not dealt with, it is still pending, so that
`consumeWakeRelease` ends the tick before the lock is looked at. `SlowOnlyInReader` needs `SlowInv`: outside
the reader the CPU is slow only after an attempt to restore its speed that failed.
`LockStopsGestures` is an action property and follows from the steps alone. `TypeCorrect` rests on
`Conditions`, `Times`, `Places` and `Flags`, the parts in which the provers take it.

**SdUpdate**. `WritesErased`: `CopyInv` says that everything between the position and the end of what is
erased is erased, and both are on a chunk boundary or at the end of the image or slot. `Bootable`: `CopiedInv`
says that what has been copied is the image, so that the slot is whole when `switchBoot` begins, `NextInv`
that the entry to be written selects that slot and is the newest, that the entry it overwrites is not the
one in use, and that the running slot is the selected one as long as flash runs; `TrialInv` that with rollback
a trial entry exists only from the commit until the new firmware confirms itself, and that the slot it
would fall back to is then whole. `UpdateAtomic` maps every step to a step of `AtomicUpdate` or
a stutter: `WriteEntry` is its `Commit`, `Boot` its `RollBack`, `MarkValid` its `Confirm`.

**Reader** (`IInv`, all five properties). To the properties it adds `Places` (a book that is not open holds
nothing), `Loading` (what the row found, the target and the mark are at each step of a load), `MarkTrue` (the
mark says what is in the buffer: broken for one step if `loadPageData` did not clear it first),
`PanelTrue`, which carries `PanelShowsPage` through the prefetch, and `CleanupKnown`. `StartBounds` and
`RefillTrue` show that a refill for a page always brings its row, for every window and book length; `LookupTrue` and
`RememberTrue` that moving a slot to the front keeps every page once. `GrayResynced` follows because
whatever draws - a page, its gray passes, a message, the screen that follows the reader - finds no cleanup left to do;
only the white of deep sleep may come over it.

**FileTransfer** (`IInv`). `Whole` is the heart: while nothing has failed, what is written followed by what is
buffered is what has arrived, unit by unit; `ChunkKeeps` and `EndKeeps` carry it over the buffer, whatever its
size. A tail of reserved space is left only by a truncation that failed (`uncut`). `Owned` and `Distinct` say that a request with a name has open only the file of that name, and that
no file has two names: `OthersKept` follows, although the handle before was still open when it began.

**Wifi** (`IInv`). `Current`: from `connect` to the transfer screen the driver's attempt is the pair the list
remembers. `SavedIsConnected` follows, since one action alone writes a slot, and `AddTyped` says that it
changes no other slot. `StoreRefines` needs `StoreInv`: in the slots and in the file alike no network has two slots, and
the used slots are the first ones until all are used, the index staying 0 till then. `Places` says which slot is the
k-th oldest, with or without a free one; `UpdateMaps`, `FillMaps` and `EvictMaps` map the three branches of
`AddOrUpdate` to `Update`, and to `Insert` with and without dropping the head; a save or a truncated file is `Save`,
a restart `Restart`, and everything else a stutter.

**StoredProofs** has fifteen theorems in twelve sections, with one inductive invariant each; none of the properties is inductive alone.

*FirmwareImage* (`ImageInv`). `ImageReading` says that the position the code computes is where the file is, which is why
a length that wraps past the bounds check does no harm: the reads it then asks for fail at the end of the file, long
before the position could wrap (`FeedKeeps`). `RoundUp` is the arithmetic of the padding for every alignment,
`ImageHashing` and `AcceptedImage` what is left when only the hash is to come and when all has been read.

*ChapterTable* (`ChapterInv`). `NextTableIs` says that the table behind the chapters lies in the file, and is the page
table if the header's offset of that is behind them; so whole entries up to it (`WholeEntries`) stay in the file.

*PageImage* (`PageInv`). `Fitting` is that the page fits the screen, `GivenSoFar` which frames the panel was given.
`PaintTrue` shows pixel by pixel that a byte put together from eight pixels of a column is what painting them one by
one leaves, from `PixelLevel` and `TellsGray`, for every width of byte and every page.

*SettingsStore* (`SettingsInv`). `OneSave`: the file is a beginning of what one save wrote. `RoundTrip`: loading the
whole of it gives the record back; `Cuts` and `CutCut` are what a beginning of a beginning is. `InStep` ties the
rows on screen to the record.

*CrashReport* (`CrashInv`). `RingOrdered`: read from the head, the ring is in order - but for the oldest slot, which a crash may
have torn, and which the version line that a start logs overwrites before a report is written (`LogKeepsOrder`,
`TearKeepsOrder`). `ReportDue`: a captured panic has no report yet. `OwedKept`: what is owed is what
the memory still holds, so that a complete report has it.

*Editors* (`EditorInv`). `OnKey` keeps the cursor on a key through every change of row and mode, whatever the lengths of
the rows; `Fresh` says that a panel nothing was asked of shows what `render()` would draw, the text included.

*ListScreens* (`ListInv`). `WindowFull` and `OnRow` carry the window and the index over moves, queued taps, scans and
folders; `ListDrawn` says that a list that asked for no drawing is drawn as it is. `RowsFit` shows that the last row's
box ends on the panel, for every panel with room for the home menu.

*TextLayout* (`TextInv`). The two loops visit the same places. `MeasuringLine` has a set of places closed under one turn
of the loop (`After`), each with its glyph in the bounds; `DrawingLine` says that the pen is at one of them, seen from
where the line begins, although the drawing loop remembers a character that has no glyph and the measuring
loop does not (`Follows`).

*Utf8* (`Utf8Inv`). `Formed1` to `Formed4` show for each length that the code's masks and shifts accept exactly the
well-formed sequences and give their codepoint; `BeginsWhole` that a character begins exactly where the reader accepts
one, so that what is dropped on a fault holds the beginning of none. The text may be of any length and any bytes.

*FilePage* (`FilePageInv`). `NewestAsked`: the list asked for last is of the folder the page is in. `NewestTrue`: unless
something was lost or the answer to a change has not been looked at, that list, in its answer or as rows, is the
folder's as it now is, less what could not be read for it - however requests and answers overtake each other.

*FontTables* (`FontInv`). `Narrowing` is the binary search's invariant - all rows before the range are before the query,
none after it is -, `Asking` that the query is what was wanted or the replacement, where no interval holds the
wanted. `GlyphPosition` and `PairPosition` turn it into the answer. What the tables themselves must be is `FontTablesSound`,
which TLC evaluates on both of them in full.

*Inflate* (`PuffInv`). `Counted`: outside `decode()` the count of buffered bits is right, and less than a byte more
than is needed was taken, so that what a stored block drops is less than a byte. `Partial`: inside `decode()` the count
is stale, but off by whole bytes and what was used of the one byte held, so that the code's `& 7` mends it. `Codes`: the
index counts the symbols with shorter codes, so that a match names a symbol, for any lengths at all, also those of an
over-subscribed code (`RankExists`, `Shorters`, `OffsetIs`, `SymbolFound`). It also says that `first` is where the
format has the codes of this length begin (`FirstCodes`, from `ShareIs` and `FirstCodeIs`). Hence `DecodesCanonical`: no
shorter code is a beginning of the bits read (`FirstCodeGrows`, `ShorterPassed`), and the one symbol whose code they are
is the one found (`CanonicalIs`, `SymbolAtIs`, `NamedIs`); Kraft's inequality is not needed. `Fields` and `Tables` are what is read next
and what the tables are made of. `CopyIs` is the overlapping copy, `FlattenConcat` and `PartOfByte` what refilling and
dropping bits do to the bits unread. The recursive functions among the operators (`Value`, `LeftAt`, `Offset`, `PowerOfTwo`, `FirstCode`, the copy,
and the library's `FlattenSeq`) are reasoned about with two lemmas of this section: `Recursion`, that there is such a
function on `0..n`, and `Stepwise`, induction up to `n` over a set, by a least counterexample.

**Only model-checked**: liveness (`TickCompletes`, `BackLeadsHome`, `IdleSleeps`, `FlashEnds`, `ConnectEnds`), because
the prover handles neither `ENABLED` nor fairness; and the three violations. The library's induction theorems cannot be used, as they take an operator for a parameter; the inductions
above are over bounded ranges of numbers and go by sets.


## 5. Not modelled

* **Wrappers**: `HalStorage`, `HalDisplay`, `HalFrontlight`, `HalClock` pass calls on to drivers and keep no state that
  another part depends on. A refresh that blocks is in Input, Power and Reader; a card that fails is in
  every module that uses one.
* **Tilt gesture detector** (`HalTiltSensor::update`): thresholds over samples of a gyroscope. What it does to the events and flags is in
  Power; that a sample is a gesture is a matter of tuning that no sentence of the repository fixes.
* **Battery reading**: the smoothing of the percentage drawn, and the choice of gauge; and the mutex of
  `HalPowerManager`, which one task alone takes.
* **Fonts**: bitmaps, metrics and kerning classes of the glyphs are data, not behaviour; the drawing of one glyph and of
  boxes and lines; the helpers of `Utf8` that compose and truncate, which the firmware does not call.
* **XTCH metadata** (title, author), and which of the refresh modes a page gets.
* **File transfer**: downloads and mDNS keep no state; upload progress in the browser.
* **Board detection** and the verification of a wake by the power key.
* **Build and release**: build files. `partitions.csv` gives `SdUpdate` its two slots.
* **Composition** of Input with Navigation, and of Power with the reader's tilt events: `LockStopsGestures` states what one
  owes the other. That no tap counted for one screen is left for the next is a step of applyPending (`ApplyPending`
  in `Input`), which `ReaderTapsCountAlike` rests on.

**Seen while modelling**, allowed by the models and claimed by nothing in the repository:

* A gap in retained memory: an exception that comes before `HalSystem::begin()` of a cold start is reported with whatever
  power-on left as its reason, and an exception after a panic with that panic's reason. The stack is right.
* A lock-up captures nothing, so its report repeats the stack and reason of the last panic, even of one already reported.
* A report that cannot be written whole has by then replaced the earlier one.
* What `truncate()` returns at the end of an upload is not looked at: if it fails, success is answered for a file that keeps the
  rest of the space reserved for it.
* A Confirm or Back tapped in a refresh is lost if the tick it is drained in ends with the release of the waking press or
  with the power key.
* If the speed of the CPU cannot be restored, it stays slow until the next key or drawing tries again, on any screen.
* A failed read of the settings at a start leaves the defaults in memory, and the next change saves them over the good file.
* A failed read of the chapters hides them until the book is opened again.
* If the first reading of the chip's identity fails, `inspect()` does not compare it until the next start.
* The page shows an empty folder when the server answers a listing with an error, and says nothing of an operation refused;
  and an older listing that arrives late is shown under the newer path.
* The duration check in the verification of a wake by the power key is never reached.
* A refresh interval that the screen does not offer (from another version's file) is shown as 5 pages but used as it is.
* With no memory for the home screen after the last pop there is no current screen, and no key is looked at any more.
