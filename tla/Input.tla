------------------------------- MODULE Input -------------------------------
(***************************************************************************)
(* src/core/MappedInput.{h,cpp}: key releases reach a screen either live,  *)
(* as the edges of the tick's own gpio.update(), or through four counters  *)
(* that the busy-wait hook fills while an e-ink refresh blocks the loop    *)
(* and that the next ticks drain.                                          *)
(*                                                                         *)
(* The screen that drains them is reduced to how its loop() reads the      *)
(* input: a reader, a list, or a screen that never drains page taps (the   *)
(* keyboards, messages, the Wi-Fi list while it scans or connects).        *)
(* A tick may end between update() and the screen, when the power key is   *)
(* let go (power::consumeWakeRelease, maybeToggleTiltLock).  The history   *)
(* variables record what the user asked for.                               *)
(***************************************************************************)
EXTENDS Integers

CONSTANT MaxTaps  \* bound: refresh frames counted in one counter (2^16 - 1 in the code)

ASSUME InputAssumption == MaxTaps \in Nat

VARIABLES
  pc,                  \* where the main loop is
  edgeSides,           \* hasEdgeSideButtons(): both side keys of an X3 page forward
  screen,              \* how the current screen reads the input
  wake,                \* the release of the key press that woke the device: awaited, consumed by
                       \* this tick, or done with
  released,            \* keys released in this tick's gpio.update()
  pendingForwardTaps,
  pendingBackTaps,
  pendingConfirmTaps,
  pendingCancelTaps,
  confirmLatched,
  backLatched,
  meant,    \* history: net step of the page keys released in refreshes, not yet acted on
  owed,     \* history: of Confirm and Back, those released and not yet answered
  asked     \* history: those this tick has to answer; what is left of them at its end is lost

taps == <<pendingForwardTaps, pendingBackTaps, pendingConfirmTaps, pendingCancelTaps>>
latches == <<confirmLatched, backLatched>>
history == <<meant, owed, asked>>
vars == <<pc, edgeSides, screen, wake, released, taps, latches, history>>

Keys == {"Up", "Down", "Left", "Right", "Confirm", "Back", "Power"}

Screens == {"None", "Reader", "List", "Deaf"}

TypeOK ==
  /\ pc \in {"tick", "loop", "apply", "render", "refresh"}
  /\ edgeSides \in BOOLEAN
  /\ screen \in Screens
  /\ wake \in {"awaited", "consumed", "done"}
  /\ released \in SUBSET Keys
  /\ pendingForwardTaps \in 0..MaxTaps
  /\ pendingBackTaps \in 0..MaxTaps
  /\ pendingConfirmTaps \in 0..MaxTaps
  /\ pendingCancelTaps \in 0..MaxTaps
  /\ confirmLatched \in BOOLEAN
  /\ backLatched \in BOOLEAN
  /\ meant \in Int
  /\ owed \in SUBSET {"Confirm", "Back"}
  /\ asked \in SUBSET {"Confirm", "Back"}

Init ==
  /\ pc = "tick"
  /\ edgeSides \in BOOLEAN
  /\ screen = "None"
  /\ wake \in {"awaited", "done"}
  /\ released = {}
  /\ pendingForwardTaps = 0
  /\ pendingBackTaps = 0
  /\ pendingConfirmTaps = 0
  /\ pendingCancelTaps = 0
  /\ confirmLatched = FALSE
  /\ backLatched = FALSE
  /\ meant = 0
  /\ owed = {}
  /\ asked = {}

----------------------------------------------------------------------------
\* The net step of the page keys in one frame of edges: each direction counts
\* once, however many of its keys were released together.

Step(edges, forwardKeys, backKeys) ==
  (IF edges \cap forwardKeys # {} THEN 1 ELSE 0) - (IF edges \cap backKeys # {} THEN 1 ELSE 0)

\* consumeNavigationDelta and consumeReaderPageDelta, before the queued taps.
NavigationStep(edges) == Step(edges, {"Down", "Right"}, {"Up", "Left"})

ReaderStep(edges) ==
  IF edgeSides THEN Step(edges, {"Down", "Right", "Up"}, {"Left"})
               ELSE Step(edges, {"Down", "Right"}, {"Up", "Left"})

AskedStep(edges) == IF screen = "Reader" THEN ReaderStep(edges) ELSE NavigationStep(edges)

Bump(n, happened) == IF happened THEN n + 1 ELSE n

----------------------------------------------------------------------------
\* busyWaitPoll: one slice of a blocking refresh.  The next update() overwrites its
\* edges unread.

\* Mutant: an edge-side Up is queued as it acts in lists, on every screen.
BusyWaitPollUpIsBack(edges) ==
  /\ pc = "refresh"
  /\ pendingForwardTaps' = Bump(pendingForwardTaps, edges \cap {"Down", "Right"} # {})
  /\ pendingBackTaps' = Bump(pendingBackTaps, edges \cap {"Left", "Up"} # {})
  /\ pendingConfirmTaps' = Bump(pendingConfirmTaps, "Confirm" \in edges)
  /\ pendingCancelTaps' = Bump(pendingCancelTaps, "Back" \in edges)
  /\ \A n \in {pendingForwardTaps', pendingBackTaps', pendingConfirmTaps', pendingCancelTaps'} :
       n <= MaxTaps
  /\ meant' = meant + AskedStep(edges)
  /\ owed' = owed \cup (edges \cap {"Confirm", "Back"})
  /\ UNCHANGED <<pc, edgeSides, screen, wake, released, latches, asked>>

BusyWaitPoll(edges) ==
  /\ pc = "refresh"
  /\ pendingForwardTaps' =
       Bump(pendingForwardTaps, edges \cap {"Down", "Right"} # {} \/ (edgeSides /\ "Up" \in edges))
  /\ pendingBackTaps' =
       Bump(pendingBackTaps, "Left" \in edges \/ (~edgeSides /\ "Up" \in edges))
  /\ pendingConfirmTaps' = Bump(pendingConfirmTaps, "Confirm" \in edges)
  /\ pendingCancelTaps' = Bump(pendingCancelTaps, "Back" \in edges)
  /\ \A n \in {pendingForwardTaps', pendingBackTaps', pendingConfirmTaps', pendingCancelTaps'} :
       n <= MaxTaps
  /\ meant' = meant + AskedStep(edges)
  /\ owed' = owed \cup (edges \cap {"Confirm", "Back"})
  /\ UNCHANGED <<pc, edgeSides, screen, wake, released, latches, asked>>

RefreshEnds ==
  /\ pc = "refresh"
  /\ pc' = "tick"
  /\ UNCHANGED <<edgeSides, screen, wake, released, taps, latches, history>>

----------------------------------------------------------------------------
\* update(): fresh edges, and this tick's two latches.

AnswersOwed(edges) ==
  /\ asked' = owed \cup (edges \cap {"Confirm", "Back"})
  /\ owed' = owed \cap edges
  /\ wake' = IF wake = "consumed" THEN "done" ELSE wake

\* Mutant: the Confirm counter is looked at but not consumed.
UpdatePeeks(edges) ==
  /\ pc = "tick"
  /\ pc' = "loop"
  /\ released' = edges
  /\ confirmLatched' = ("Confirm" \in edges \/ pendingConfirmTaps > 0)
  /\ backLatched' = ("Back" \in edges \/ pendingCancelTaps > 0)
  /\ pendingCancelTaps' = IF "Back" \in edges THEN pendingCancelTaps ELSE 0
  /\ AnswersOwed(edges)
  /\ UNCHANGED <<edgeSides, screen, pendingForwardTaps, pendingBackTaps, pendingConfirmTaps, meant>>

\* All the taps queued for a key collapse into one latch, except that the ||
\* leaves them queued for the next tick when the key was also released live.
Update(edges) ==
  /\ pc = "tick"
  /\ pc' = "loop"
  /\ released' = edges
  /\ confirmLatched' = ("Confirm" \in edges \/ pendingConfirmTaps > 0)
  /\ backLatched' = ("Back" \in edges \/ pendingCancelTaps > 0)
  /\ pendingConfirmTaps' = IF "Confirm" \in edges THEN pendingConfirmTaps ELSE 0
  /\ pendingCancelTaps' = IF "Back" \in edges THEN pendingCancelTaps ELSE 0
  /\ AnswersOwed(edges)
  /\ UNCHANGED <<edgeSides, screen, pendingForwardTaps, pendingBackTaps, meant>>

\* main.cpp ends the tick before any screen runs: the release of the press that woke the
\* device, or of a short press of the power key, which toggles the lock.  What update()
\* drained into the latches goes with the tick.
DropTick ==
  /\ pc = "loop"
  /\ pc' = "tick"
  /\ \/ wake = "awaited" /\ wake' = "consumed"
     \/ wake # "awaited" /\ "Power" \in released /\ UNCHANGED wake
  /\ UNCHANGED <<edgeSides, screen, released, taps, latches, history>>

----------------------------------------------------------------------------
\* applyPending clears all four counters, then another screen takes over.  The
\* first screen enters before the handler runs, later ones after it.

\* Mutant: only the page taps are cleared, as the function's name says.
ResetPageTapsOnly ==
  /\ pendingForwardTaps' = 0
  /\ pendingBackTaps' = 0
  /\ UNCHANGED <<pendingConfirmTaps, pendingCancelTaps>>
  /\ meant' = 0
  /\ owed' = {}

ResetPendingPageTaps ==
  /\ pendingForwardTaps' = 0
  /\ pendingBackTaps' = 0
  /\ pendingConfirmTaps' = 0
  /\ pendingCancelTaps' = 0
  /\ meant' = 0
  /\ owed' = {}

TakeOver ==
  /\ ResetPendingPageTaps
  /\ screen' \in Screens \ {"None"}
  /\ UNCHANGED <<edgeSides, wake, released, latches, asked>>

FirstScreen == pc = "loop" /\ screen = "None" /\ TakeOver /\ UNCHANGED pc

ApplyPending == pc = "apply" /\ TakeOver /\ pc' = "render"

----------------------------------------------------------------------------
\* The handlers.

Delta(step) == step + pendingForwardTaps - pendingBackTaps

Consume ==
  /\ pendingForwardTaps' = 0
  /\ pendingBackTaps' = 0
  /\ meant' = 0
  /\ UNCHANGED <<pendingConfirmTaps, pendingCancelTaps, owed>>

Navigate == pc' = "apply"
Remain == pc' = "render"

KeepTaps == UNCHANGED <<taps, meant, owed>>

\* Back and Confirm leave the page taps queued: applyPending clears them when
\* the request was made, otherwise they page in a later tick.
ReaderLoop ==
  /\ screen = "Reader"
  /\ \/ backLatched /\ Navigate /\ KeepTaps
     \/ ~backLatched /\ confirmLatched /\ (Navigate \/ Remain) /\ KeepTaps
     \/ ~backLatched /\ ~confirmLatched /\ Remain /\ Consume

\* A list keeps its queued taps when it acts on Back (going up a directory stays
\* on the screen) and, for the Wi-Fi list, while it scans or connects.  Confirm
\* counts only when nothing moved the selection.
ListLoop ==
  /\ screen = "List"
  /\ \/ (Navigate \/ Remain) /\ KeepTaps
     \/ Remain /\ Consume
     \/ /\ Delta(NavigationStep(released)) = 0
        /\ confirmLatched
        /\ Navigate
        /\ Consume

DeafLoop == screen = "Deaf" /\ (Navigate \/ Remain) /\ KeepTaps

NoLoop == screen = "None" /\ Remain /\ KeepTaps

\* Nobody reads the edges of this tick after the screen's loop().
Handler ==
  /\ pc = "loop"
  /\ ReaderLoop \/ ListLoop \/ DeafLoop \/ NoLoop
  /\ asked' = {}
  /\ released' = {}
  /\ UNCHANGED <<edgeSides, screen, wake, latches>>

\* A screen that is dirty is painted, which blocks until the panel is ready.
Render ==
  /\ pc = "render"
  /\ pc' \in {"refresh", "tick"}
  /\ UNCHANGED <<edgeSides, screen, wake, released, taps, latches, history>>

Next ==
  \/ \E edges \in SUBSET Keys : BusyWaitPoll(edges) \/ Update(edges)
  \/ RefreshEnds
  \/ DropTick
  \/ FirstScreen
  \/ ApplyPending
  \/ Handler
  \/ Render

Spec == Init /\ [][Next]_vars

----------------------------------------------------------------------------
(***************************************************************************)
(* Properties                                                              *)
(***************************************************************************)

\* MappedInput.h:32, "Net list/page delta from this frame's release edges plus
\* taps drained during a blocking refresh", where the two mean the same: a page
\* key tapped during a refresh moves the screen as far, and the same way, as if
\* it were released live.  In a reader on either board, in a list on an X4.
ReaderTapsCountAlike ==
  screen = "Reader" \/ (screen = "List" /\ ~edgeSides) =>
    pendingForwardTaps - pendingBackTaps = meant

\* The same for lists on every board.
ListTapsCountAlike ==
  screen = "List" => pendingForwardTaps - pendingBackTaps = meant

\* What became of every Confirm and Back release, live or in a refresh, is known at any
\* time: it is queued, as long as no screen took over since; or latched for the screen
\* this tick runs, which is the only one to see it; or, if it is neither, it was drained
\* by a tick that the power key ended before the screen ran (main.cpp:144-149), and is
\* lost.  No other tick loses one, and none is answered twice or by another screen.
LatchExact ==
  /\ "Confirm" \in owed <=> pendingConfirmTaps > 0
  /\ "Back" \in owed <=> pendingCancelTaps > 0
  /\ pc = "loop" =>
       /\ confirmLatched <=> "Confirm" \in asked
       /\ backLatched <=> "Back" \in asked
  /\ pc # "loop" /\ asked # {} => wake = "consumed" \/ "Power" \in released

=============================================================================
