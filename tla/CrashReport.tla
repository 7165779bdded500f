----------------------------- MODULE CrashReport -----------------------------
(***************************************************************************)
(* What survives a crash in RTC memory and how the next start writes it to *)
(* the card: lib/hal/HalSystem.cpp, the ring of log lines in               *)
(* lib/Logging/Logging.cpp, and the order setup() of src/main.cpp calls    *)
(* them in.                                                                *)
(*                                                                         *)
(* RTC memory keeps its contents through every reset but a loss of power,  *)
(* after which it holds anything.  Crashes are numbered, and so are log    *)
(* lines: a line, a captured reason or a stack is the number of what it is *)
(* about, and Garbage is what power-on left.                               *)
(***************************************************************************)
EXTENDS Integers, Sequences, SequencesExt

CONSTANTS
  MaxLogLines,  \* MAX_LOG_LINES
  Garbage,      \* a number no line and no crash has
  MaxLines, MaxResets  \* bounds

ASSUME CrashAssumption ==
  /\ MaxLogLines \in Nat \ {0, 1} /\ Garbage \in Int /\ Garbage < 0
  /\ {MaxLines, MaxResets} \subseteq Nat

VARIABLES
  boot,          \* where setup() is; "torn" is inside addToLogRingBuffer()
  resetReason,   \* of this start
  panicMessage, panicStack, panicCaptured,  \* 0 when cleared
  logMessages, logHead, logMagic,
  crashReport,   \* the file on the card, and what it was due for when written
  lines, resets, \* how many there have been
  unreported,    \* a crash since the last complete report or ordinary start
  owed           \* the stack and the reason captured since then and kept, 0 for none

panicMemory == <<panicMessage, panicStack, panicCaptured>>
logRing == <<logMessages, logHead, logMagic>>
crashVars == <<boot, resetReason, panicMemory, logRing, crashReport, lines, resets, unreported, owed>>
dueFor == <<unreported, owed>>

Slots == 0..MaxLogLines - 1
Empty == [i \in Slots |-> 0]

\* clearLastLogs()
ClearLogs == logMessages' = Empty /\ logHead' = 0 /\ logMagic' = TRUE

LogBad == ~logMagic \/ logHead \notin Slots

\* isRebootFromPanic()
RebootFromPanic ==
  \/ resetReason \in {"panic", "lockup"}
  \/ resetReason = "watchdog" /\ panicCaptured

-----------------------------------------------------------------------------
(* Logging                                                                 *)

\* addToLogRingBuffer(): a ring that cannot be trusted is cleared first.
Log ==
  LET ring == IF LogBad THEN Empty ELSE logMessages
      head == IF LogBad THEN 0 ELSE logHead
  IN
  /\ logMessages' = [ring EXCEPT ![head] = lines + 1]
  /\ logHead' = (head + 1) % MaxLogLines
  /\ logMagic' = TRUE
  /\ lines' = lines + 1

LogLine ==
  /\ boot \in {"early", "begun", "checked"} /\ lines < MaxLines
  /\ Log
  /\ UNCHANGED <<boot, resetReason, panicMemory, crashReport, resets, dueFor>>

\* A line was copied when a crash came, and the head did not move.
TearLine ==
  /\ boot = "checked" /\ lines < MaxLines /\ ~LogBad
  /\ logMessages' = [logMessages EXCEPT ![logHead] = lines + 1]
  /\ lines' = lines + 1
  /\ boot' = "torn"
  /\ UNCHANGED <<resetReason, panicMemory, logHead, logMagic, crashReport, resets, dueFor>>

\* getLastLogs(): the lines by their place from the oldest slot, leaving out the
\* slots that are empty.
FromOldest(i) == logMessages[(logHead + i) % MaxLogLines]
LastLogs == IF ~logMagic THEN <<>> ELSE [i \in {s \in Slots : FromOldest(s) # 0} |-> FromOldest(i)]

-----------------------------------------------------------------------------
(* setup()                                                                 *)

ClearPanic ==
  /\ panicCaptured' = FALSE /\ panicMessage' = 0 /\ panicStack' = 0
  /\ unreported' = FALSE /\ owed' = <<0, 0>>
  /\ ClearLogs

\* HalSystem::begin()
Begin ==
  /\ boot = "early"
  /\ boot' = "begun"
  /\ \/ ~RebootFromPanic /\ ClearPanic
     \/ RebootFromPanic /\ LogBad /\ ClearLogs /\ UNCHANGED <<panicMemory, dueFor>>
     \/ RebootFromPanic /\ ~LogBad /\ UNCHANGED <<panicMemory, logRing, dueFor>>
  /\ UNCHANGED <<resetReason, crashReport, lines, resets>>

\* The line with the version, before the card is tried; and there may be no card.
Announce ==
  /\ boot = "begun" /\ lines < MaxLines
  /\ Log
  /\ boot' \in {"mounted", "checked"}
  /\ UNCHANGED <<resetReason, panicMemory, crashReport, resets, dueFor>>

\* Mutant: the marker stays behind a report that was written.
KeepMarker == panicCaptured' = panicCaptured

Consume == panicCaptured' = FALSE

\* What a complete report says: getPanicInfo(true).
PanicInfo ==
  [reason |-> panicMessage, logs |-> LastLogs, stack |-> panicStack, whole |-> TRUE, due |-> unreported, owed |-> owed]

\* The part of it that a write which came short got onto the card; the stack is at its end.
CutInfo(reason, places) ==
  [PanicInfo EXCEPT !.reason = reason, !.logs = [i \in DOMAIN LastLogs \cap 0..places - 1 |-> LastLogs[i]],
                    !.stack = 0, !.whole = FALSE]

\* checkPanic(): opening the file empties it, and it may not open or take less than all
\* of the report.
CheckPanic ==
  /\ boot = "mounted"
  /\ boot' = "checked"
  /\ \/ ~RebootFromPanic /\ UNCHANGED <<panicCaptured, crashReport, dueFor>>
     \/ /\ RebootFromPanic
        /\ crashReport' = PanicInfo
        /\ Consume /\ unreported' = FALSE /\ owed' = <<0, 0>>
     \/ /\ RebootFromPanic
        /\ \/ crashReport' = CutInfo(0, 0)
           \/ \E places \in 0..MaxLogLines : crashReport' = CutInfo(panicMessage, places)
           \/ UNCHANGED crashReport
        /\ UNCHANGED <<panicCaptured, dueFor>>
  /\ UNCHANGED <<resetReason, panicMessage, panicStack, logRing, lines, resets>>

-----------------------------------------------------------------------------
(* Resets                                                                  *)

Reset(reason) ==
  /\ resets < MaxResets
  /\ resets' = resets + 1
  /\ resetReason' = reason
  /\ boot' = "early"
  /\ UNCHANGED <<crashReport, lines>>

\* __wrap_panic_abort() writes the reason, __wrap_panic_print_backtrace() the stack; an
\* exception has no reason, and leaves the one of an earlier panic where it was.
Panic ==
  /\ Reset("panic")
  /\ \/ panicMessage' = resets + 1 /\ owed' = <<resets + 1, resets + 1>>
     \/ panicMessage' = panicMessage /\ owed' = <<resets + 1, 0>>
  /\ panicStack' = resets + 1 /\ panicCaptured' = TRUE
  /\ unreported' = TRUE
  /\ UNCHANGED logRing

\* The processor hangs before either has run, and nothing is captured.
LockUp ==
  /\ Reset("lockup")
  /\ unreported' = TRUE
  /\ UNCHANGED <<panicMemory, logRing, owed>>

\* A watchdog that panics is captured like a panic; the last one just resets the chip.
Watchdog ==
  /\ Reset("watchdog")
  /\ \/ /\ panicStack' = resets + 1 /\ panicCaptured' = TRUE
        /\ unreported' = TRUE /\ owed' = <<resets + 1, 0>>
     \/ UNCHANGED <<panicStack, panicCaptured, dueFor>>
  /\ UNCHANGED <<panicMessage, logRing>>

\* Deep sleep, or a restart the program asked for.
Restart ==
  /\ boot = "checked"
  /\ Reset("software")
  /\ UNCHANGED <<panicMemory, logRing, dueFor>>

\* RTC memory holds anything, but not the two magic numbers.
PowerLoss ==
  /\ Reset("poweron")
  /\ panicMessage' = Garbage /\ panicStack' = Garbage /\ panicCaptured' = FALSE
  /\ logMessages' = [i \in Slots |-> Garbage] /\ logHead' \in {0, MaxLogLines} /\ logMagic' = FALSE
  /\ owed' = <<0, 0>>
  /\ UNCHANGED unreported

CrashInit ==
  /\ boot = "early" /\ resetReason = "poweron"
  /\ panicMessage = Garbage /\ panicStack = Garbage /\ panicCaptured = FALSE
  /\ logMessages = [i \in Slots |-> Garbage] /\ logHead \in {0, MaxLogLines} /\ logMagic = FALSE
  /\ crashReport = [reason |-> 0, logs |-> <<>>, stack |-> 0, whole |-> FALSE, due |-> TRUE, owed |-> <<0, 0>>]
  /\ lines = 0 /\ resets = 0 /\ unreported = FALSE /\ owed = <<0, 0>>

CrashNext ==
  \/ LogLine \/ TearLine \/ Begin \/ Announce \/ CheckPanic
  \/ Panic \/ LockUp \/ Watchdog \/ Restart \/ PowerLoss

CrashSpec == CrashInit /\ [][CrashNext]_crashVars

-----------------------------------------------------------------------------

\* A report is written, or begun, for a crash that has none yet: one that was written is not
\* written again when a watchdog resets the device later.  A report that is complete
\* has the newest stack, and the reason if it had one, that were captured and had not been
\* reported, however many starts could not write it or wrote part of it; they are
\* lost to nothing but a loss of power or an ordinary start.  The lines of any
\* report are lines that were logged, in their order, across resets, a ring that was never
\* initialised, and a crash in the middle of adding a line.
\* It says nothing of the stack when nothing is owed: a lock-up captures none, and its
\* report repeats what the last panic left, reported or not; and nothing of the reason
\* of a crash without one.
\* (checkPanic() and isRebootFromPanic(), HalSystem.cpp:105-123 and :165, getLastLogs(),
\* Logging.cpp:87-100.)
ReportTrue ==
  /\ crashReport.due
  /\ crashReport.whole =>
       /\ crashReport.owed[1] # 0 => crashReport.stack = crashReport.owed[1]
       /\ crashReport.owed[2] # 0 => crashReport.reason = crashReport.owed[2]
  /\ \A i \in DOMAIN crashReport.logs :
       /\ crashReport.logs[i] \in 1..lines
       /\ \A j \in DOMAIN crashReport.logs : i < j => crashReport.logs[i] < crashReport.logs[j]

=============================================================================
