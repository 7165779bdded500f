----------------------------- MODULE Navigation -----------------------------
(***************************************************************************)
(* The screens of src/screens/ driven by the main loop of src/main.cpp     *)
(* over the stack of module ScreenManager: from power-on, through every    *)
(* handler that can open, close or redraw a screen, to deep sleep or the   *)
(* restart that ends a Wi-Fi visit.                                        *)
(*                                                                         *)
(* One call of ScreenManager::loop is cut into its phases, and each round  *)
(* of applyPending is a step.  Between two calls the device may go to      *)
(* sleep; a tick that main.cpp ends early (wake release, tilt lock)        *)
(* changes nothing here.  The latched keys of a tick are read only by the  *)
(* one handler that runs in it, so they are a choice made by that step:    *)
(* "Nav" is a non-zero list or page delta, and a handler that looks at     *)
(* several keys acts on the first only.                                    *)
(***************************************************************************)
EXTENDS ScreenManager

VARIABLES
  pc,       \* where the main loop is
  radio,    \* the Wi-Fi station is powered
  scratch,  \* XtchBook::pageBuffer is allocated
  shown     \* the panel shows what current->render() would draw now

vars == <<managerVars, pc, radio, scratch, shown>>

\* "sleep" and "restart" are the two ways of being off; "tick" is between two
\* calls of loop(), the rest are the phases of one call.
Phases == {"apply1", "loop", "apply2", "render"}
PCs == {"sleep", "restart", "tick"} \cup Phases
Running == pc \notin {"sleep", "restart"}

TypeOK ==
  /\ ManagerTypeOK
  /\ pc \in PCs
  /\ radio \in BOOLEAN
  /\ scratch \in BOOLEAN
  /\ shown \in BOOLEAN

\* Nothing in RAM survives, the panel keeps its last picture.
RamLost ==
  /\ current' = NoScreen
  /\ stack' = <<>>
  /\ pending' = NoScreen
  /\ pendingAction' = "None"
  /\ pendingPopLevels' = 1
  /\ dirty' = FALSE
  /\ radio' = FALSE
  /\ scratch' = FALSE
  /\ shown' = FALSE

Init ==
  /\ current = NoScreen
  /\ stack = <<>>
  /\ pending = NoScreen
  /\ pendingAction = "None"
  /\ pendingPopLevels = 1
  /\ dirty = FALSE
  /\ pc \in {"sleep", "restart"}
  /\ radio = FALSE
  /\ scratch = FALSE
  /\ shown = FALSE

----------------------------------------------------------------------------
\* setup().  Only a wake by the power button resumes the last book (pushed on
\* an empty stack) or opens the recovery picker; a wake by USB power goes back
\* to sleep.  The page buffer is reserved first and may not fit.

SetupDone ==
  /\ scratch' \in BOOLEAN
  /\ pc' = "tick"
  /\ UNCHANGED <<current, stack, dirty, radio, shown>>

WakeUp ==
  /\ pc = "sleep"
  /\ \/ \E kind \in {"Message", "Firmware", "Home"} : Replace(kind)
     \/ Push("Reader", NoId)
  /\ SetupDone

Reboot ==
  /\ pc = "restart"
  /\ \E kind \in {"Message", "Home"} : Replace(kind)
  /\ SetupDone

BlocksSleep(s) == s # NoScreen /\ s.kind \in {"WifiList", "FileTransfer", "Update", "Firmware"}

\* maybeSleep, on the power key or the idle timeout.
DeepSleep ==
  /\ pc = "tick"
  /\ ~BlocksSleep(current)
  /\ pc' = "sleep"
  /\ RamLost

StartTick ==
  /\ pc = "tick"
  /\ pc' = "apply1"
  /\ UNCHANGED <<managerVars, radio, scratch, shown>>

----------------------------------------------------------------------------
\* applyPending

Applying == pc \in {"apply1", "apply2"}

ExitRestarts ==
  /\ Applying
  /\ pendingAction \in {"Pop", "Replace"}
  /\ EndsSession(current)
  /\ pc' = "restart"
  /\ RamLost

\* onExit of every other screen leaves this state alone.
ExitReturns ==
  /\ Applying
  /\ ~EndsSession(current)
  /\ shown' = FALSE
  /\ UNCHANGED <<pc, radio, scratch>>

\* WifiListScreen::onEnter releases the page buffer and starts a scan.
EnterEffects ==
  /\ shown' = FALSE
  /\ IF pending.kind = "WifiList"
     THEN scratch' = FALSE /\ radio' = TRUE
     ELSE UNCHANGED <<scratch, radio>>
  /\ UNCHANGED pc

DoPop == ExitReturns /\ (PopToHome \/ PopThrough \/ PopToParent)

DoReplace == Applying /\ ~EndsSession(current) /\ ApplyReplace /\ EnterEffects

DoPush == Applying /\ ApplyPush /\ EnterEffects

ApplyDone ==
  /\ Applying
  /\ pendingAction = "None"
  /\ pc' = IF pc = "apply1" THEN "loop" ELSE "render"
  /\ UNCHANGED <<managerVars, radio, scratch, shown>>

----------------------------------------------------------------------------
\* The handlers: current->loop().

Keys == {"None", "Back", "Confirm", "Nav"}

Quiet == UNCHANGED <<current, dirty, shown>>

\* The screen changes what it draws and calls requestUpdate().
Redraw(s) ==
  /\ current' = s
  /\ shown' = FALSE
  /\ dirty' = TRUE

Stay(s) == Redraw(s) /\ UNCHANGED stack /\ NoRequest

Idle == Quiet /\ UNCHANGED stack /\ NoRequest

Leave(levels) == Quiet /\ UNCHANGED stack /\ Pop(levels)

Open(kind, ref) == Quiet /\ UNCHANGED stack /\ Push(kind, ref)

\* ReaderScreen::jumpToPage on the covered reader, then finish: a page out of
\* range is ignored, otherwise the reader asks for an update.
JumpAndLeave(levels) ==
  /\ dirty' \in {dirty, TRUE}
  /\ UNCHANGED <<current, shown, stack>>
  /\ Pop(levels)

\* Home has no handler for Back.
HomeLoop(key) ==
  \/ key = "Nav" /\ Stay(current)
  \/ key = "Confirm" /\ current.st = "Continue" /\ Open("Reader", NoId)
  \/ key = "Confirm" /\ \E kind \in {"Browser", "WifiList", "Settings"} : Open(kind, NoId)

\* Mutant: Back in the root directory stays there.
BrowserLoopStuckAtRoot(key) ==
  \/ key = "Back" /\ Stay([current EXCEPT !.dir = IF @ > 0 THEN @ - 1 ELSE 0])
  \/ key = "Nav" /\ Stay(current)
  \/ key = "Confirm" /\ current.dir < MaxDir /\ Stay([current EXCEPT !.dir = @ + 1])
  \/ key = "Confirm" /\ Open(IF current.kind = "Firmware" THEN "Update" ELSE "Reader", NoId)

BrowserLoop(key) ==
  \/ key = "Back" /\ current.dir = 0 /\ Leave(1)
  \/ key = "Back" /\ current.dir > 0 /\ Stay([current EXCEPT !.dir = @ - 1])
  \/ key = "Nav" /\ Stay(current)
  \/ key = "Confirm" /\ current.dir < MaxDir /\ Stay([current EXCEPT !.dir = @ + 1])
  \/ key = "Confirm" /\ Open(IF current.kind = "Firmware" THEN "Update" ELSE "Reader", NoId)

ReaderLoop(key) ==
  \/ current.st = "NotLoaded" /\ key \in {"Back", "Confirm"} /\ Leave(1)
  \/ current.st = "Loaded" /\ key = "Back" /\ Leave(1)
  \/ current.st = "Loaded" /\ key = "Confirm" /\ Open("Chapters", current.id)
  \/ current.st = "Loaded" /\ key = "Nav" /\ Stay(current)

\* Mutant: choosing a chapter pops two levels, as choosing a page does.
ChaptersLoopPopsTwo(key) ==
  \/ key = "Back" /\ Leave(1)
  \/ key = "Nav" /\ Stay(current)
  \/ key = "Confirm" /\ Open("PageJump", current.ref)
  \/ key = "Confirm" /\ JumpAndLeave(2)

ChaptersLoop(key) ==
  \/ key = "Back" /\ Leave(1)
  \/ key = "Nav" /\ Stay(current)
  \/ key = "Confirm" /\ Open("PageJump", current.ref)
  \/ key = "Confirm" /\ JumpAndLeave(1)

\* Go skips the chapter list and returns straight to the reader.
PageJumpLoop(key) ==
  \/ key = "Back" /\ Leave(1)
  \/ key \in {"Nav", "Confirm"} /\ Stay(current)
  \/ key = "Confirm" /\ JumpAndLeave(2)

\* Mutant: the picker is opened as the recovery one is, with goToFirmwareUpdate(true).
SettingsLoopAsRecovery(key) ==
  \/ key = "Back" /\ Leave(1)
  \/ key \in {"Nav", "Confirm"} /\ Stay(current)
  \/ key = "Confirm" /\ Quiet /\ UNCHANGED stack /\ Replace("Firmware")
  \/ key = "Confirm" /\ Leave(1)

SettingsLoop(key) ==
  \/ key = "Back" /\ Leave(1)
  \/ key \in {"Nav", "Confirm"} /\ Stay(current)
  \/ key = "Confirm" /\ Open("Firmware", NoId)
  \/ key = "Confirm" /\ Leave(1)

\* Confirm only changes the state: the next tick paints, flashes and restarts
\* (UpdateRestarts), or fails.
UpdateLoop(key) ==
  \/ current.st = "Confirm" /\ key = "Back" /\ Leave(1)
  \/ current.st = "Confirm" /\ key = "Confirm" /\ Stay([current EXCEPT !.st = "Updating"])
  \/ current.st = "Updating" /\ Stay([current EXCEPT !.st = "Failed"])
  \/ current.st = "Failed" /\ key \in {"Back", "Confirm"} /\ Leave(1)

\* A connection made: FileTransfer is pushed, or retried on the next tick.
WifiListLoop(key) ==
  \/ current.st # "Failed" /\ key = "Back" /\ Leave(1)
  \/ current.st = "Failed" /\ key \in {"Back", "Confirm"} /\ Stay([current EXCEPT !.st = "NetworkList"])
  \/ current.st = "Scanning" /\ key # "Back" /\ Stay([current EXCEPT !.st = "NetworkList"])
  \/ current.st = "NetworkList" /\ key = "Nav" /\ Stay(current)
  \/ current.st = "NetworkList" /\ key = "Confirm" /\ Stay([current EXCEPT !.st = "Connecting"])
  \/ current.st = "NetworkList" /\ key = "Confirm" /\ Open("Keyboard", current.id)
  \/ current.st = "Connecting" /\ key # "Back" /\ Stay([current EXCEPT !.st = "Failed"])
  \/ current.st = "Connecting" /\ key # "Back" /\ Open("FileTransfer", NoId)

\* Both ways out report to the covered list through the reference.
KeyboardLoop(key) ==
  \/ key \in {"Nav", "Confirm"} /\ Stay(current)
  \/ key = "Back" /\ SetState(current.ref, "NetworkList") /\ Quiet /\ Pop(1)
  \/ /\ key = "Confirm"
     /\ SetState(current.ref, "Connecting")
     /\ dirty' = TRUE
     /\ UNCHANGED <<current, shown>>
     /\ Pop(1)

FileTransferLoop(key) == key = "Back" /\ Leave(1)

\* Mutant: the message screen opens Home on top of itself.
MessageLoopPushesHome(key) ==
  key \in {"Back", "Confirm"} /\ Open("Home", NoId)

MessageLoop(key) ==
  key \in {"Back", "Confirm"} /\ Quiet /\ UNCHANGED stack /\ Replace("Home")

Handler(key) ==
  \/ current.kind = "Home"                    /\ HomeLoop(key)
  \/ current.kind \in {"Browser", "Firmware"} /\ BrowserLoop(key)
  \/ current.kind = "Reader"                  /\ ReaderLoop(key)
  \/ current.kind = "Chapters"                /\ ChaptersLoop(key)
  \/ current.kind = "PageJump"                /\ PageJumpLoop(key)
  \/ current.kind = "Settings"                /\ SettingsLoop(key)
  \/ current.kind = "Update"                  /\ UpdateLoop(key)
  \/ current.kind = "WifiList"                /\ WifiListLoop(key)
  \/ current.kind = "Keyboard"                /\ KeyboardLoop(key)
  \/ current.kind = "FileTransfer"            /\ FileTransferLoop(key)
  \/ current.kind = "Message"                 /\ MessageLoop(key)

\* Keys a screen may do nothing on: ones it does not look at, and those for
\* which there is no entry, page, digit or event to act on.  While Updating the
\* handler always acts.
Ignored(s) ==
  CASE s.kind = "Home"                        -> {"None", "Back"}
    [] s.kind \in {"Chapters", "Settings"}    -> {"None"}
    [] s.kind \in {"Reader", "Message"}       -> {"None", "Nav"}
    [] s.kind = "Update"                      -> IF s.st = "Updating" THEN {} ELSE {"None", "Nav"}
    [] s.kind = "WifiList" /\ s.st = "Failed" -> {"None", "Nav"}
    [] OTHER                                  -> {"None", "Nav", "Confirm"}

LoopPhase(key) ==
  /\ pc = "loop"
  /\ pc' = "apply2"
  /\ UNCHANGED <<radio, scratch>>
  /\ \/ current # NoScreen /\ Handler(key)
     \/ (current # NoScreen => key \in Ignored(current)) /\ Idle

\* The flash succeeded: "Update complete" is painted and the device restarts.
UpdateRestarts ==
  /\ pc = "loop"
  /\ current # NoScreen
  /\ current.kind = "Update" /\ current.st = "Updating"
  /\ pc' = "restart"
  /\ RamLost

----------------------------------------------------------------------------
\* The tail of ScreenManager::loop.  UpdateScreen::render paints nothing while
\* updating; drawPage allocates the page buffer if it is missing.

Paints(s) == ~(s.kind = "Update" /\ s.st = "Updating")

NeedsBuffer(s) == s.kind = "Reader" /\ s.st = "Loaded"

Render ==
  /\ pc = "render"
  /\ pc' = "tick"
  /\ IF dirty /\ current # NoScreen
     THEN /\ dirty' = FALSE
          /\ shown' = (shown \/ Paints(current))
          /\ IF NeedsBuffer(current) /\ ~scratch
             THEN scratch' \in BOOLEAN
             ELSE UNCHANGED scratch
     ELSE UNCHANGED <<dirty, shown, scratch>>
  /\ UNCHANGED <<current, stack, pending, pendingAction, pendingPopLevels, radio>>

----------------------------------------------------------------------------

Apply == ExitRestarts \/ DoPop \/ DoReplace \/ DoPush \/ ApplyDone

Device ==
  \/ Reboot
  \/ StartTick
  \/ Apply
  \/ \E key \in Keys : LoopPhase(key)
  \/ UpdateRestarts
  \/ Render

Next == Device \/ WakeUp \/ DeepSleep

\* The loop task runs whenever the device is on.
Spec == Init /\ [][Next]_vars /\ WF_vars(Device)

----------------------------------------------------------------------------
(***************************************************************************)
(* Properties                                                              *)
(***************************************************************************)

\* The screens from the bottom up, the current one last.
Column == IF current = NoScreen THEN stack ELSE Append(stack, current)

\* Screens that may lie at the bottom: what setup() and a Pop with nothing
\* underneath bring up.
Roots == {"Home", "Message", "Firmware", "Reader"}

\* A screen of class k is opened from one of class p.
Opens(p, k) ==
  \/ p = "Home"     /\ k \in {"Browser", "Reader", "WifiList", "Settings"}
  \/ p = "Browser"  /\ k = "Reader"
  \/ p = "Reader"   /\ k = "Chapters"
  \/ p = "Chapters" /\ k = "PageJump"
  \/ p = "Settings" /\ k = "Firmware"
  \/ p = "Firmware" /\ k = "Update"
  \/ p = "WifiList" /\ k \in {"Keyboard", "FileTransfer"}

\* Every screen was opened by the one it covers, however pushes, pops of one or
\* two levels, replacements and failed allocations are interleaved: Back always
\* uncovers the screen the user came from (ScreenManager::applyPending).
Lineage ==
  /\ current = NoScreen => stack = <<>>
  /\ \A i \in DOMAIN Column :
       IF i = 1 THEN Column[i].kind \in Roots
                ELSE Opens(Column[i - 1].kind, Column[i].kind)

\* The class of screen that a screen of this class refers to.
RefKind(kind) == IF kind = "Keyboard" THEN "WifiList" ELSE "Reader"

\* ChapterSelectionScreen, PageJumpScreen and KeyboardScreen keep a C++
\* reference to another screen: that object lives, and is of the class they expect,
\* as long as they do.
RefsAlive ==
  \A s \in Live : s.ref # NoId =>
    \E t \in Live \ {s} : t.id = s.ref /\ t.kind = RefKind(s.kind)

\* goHome, showMessage and the recovery picker clear the stack without onExit
\* (ScreenManager.cpp:64): they do so only when it is already empty, so no
\* covered reader loses its progress and no Wi-Fi visit is left open.
ReplaceAtRoot == pendingAction = "Replace" => stack = <<>>

\* WifiSession: the radio is on exactly while the Wi-Fi list is open, covered or
\* not, and the page buffer is never allocated beside it.
SessionOwnsHeap ==
  /\ radio <=> \E i \in DOMAIN Column : Column[i].kind = "WifiList"
  /\ radio => ~scratch

\* Whatever a tick changed is on the panel when it ends; only the screen that
\* is about to flash has not been painted yet (ScreenManager::loop).
PanelCurrent ==
  pc = "tick" /\ current # NoScreen => shown \/ ~Paints(current)

\* pop(2) skips exactly the chapter list: it lands on the reader whose page was
\* just set (PageJumpScreen::activateKey).
JumpLandsOnReader ==
  pendingAction = "Pop" /\ pendingPopLevels = 2 =>
    /\ Len(stack) >= 2
    /\ stack[Len(stack) - 1].kind = "Reader"
    /\ stack[Len(stack) - 1].id = current.ref

\* applyPending terminates and every tick ends, or ends in a restart.
TickCompletes == pc \in Phases ~> pc \notin Phases

AtHome == current # NoScreen /\ current.kind = "Home"

OnlyBack == pc = "loop" => LoopPhase("Back") \/ UpdateRestarts

\* README: "Back returns to home".  A user who from some point on only presses
\* Back gets to the home screen from anywhere, through a Wi-Fi visit, its
\* restart, a failed update or an SD card error (or the device is asleep).
BackLeadsHome ==
  <>[][OnlyBack]_vars => []<>(AtHome \/ pc = "sleep")

=============================================================================
