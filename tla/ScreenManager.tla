--------------------------- MODULE ScreenManager ---------------------------
(***************************************************************************)
(* The navigation stack of src/core/ScreenManager.{h,cpp} and the part of  *)
(* src/core/Screen.{h,cpp} that forwards to it: one current screen, the    *)
(* screens it covers, and a single-slot pending request that applyPending  *)
(* carries out.  Module Navigation adds the screens' own handlers and the  *)
(* main loop that drives both.                                             *)
(*                                                                         *)
(* A screen is the object behind a unique_ptr<Screen>: its class, an       *)
(* identity (its address, free for reuse once the object is destroyed),    *)
(* the identity of the screen it holds a reference to, and the fields that *)
(* decide what its handlers do next.  What is drawn is left out.           *)
(***************************************************************************)
EXTENDS Naturals, SequencesExt

CONSTANTS
  Ids,       \* addresses a screen object can have
  NoId,      \* the screen keeps no reference to another one
  NoScreen,  \* an empty unique_ptr<Screen>
  MaxDir,    \* bound: depth of the directory tree on the card
  MayFail    \* classes whose allocation may run out of memory

\* BrowserScreen has two modes that behave as two classes of screen.
Kinds == {"Home", "Browser", "Firmware", "Reader", "Chapters", "PageJump",
          "Settings", "Update", "WifiList", "Keyboard", "FileTransfer", "Message"}

ASSUME ManagerAssumption ==
  /\ NoId \notin Ids
  /\ MaxDir \in Nat
  /\ MayFail \subseteq Kinds

\* Home: whether the menu has its Continue row.  Reader: loaded.  WifiList,
\* Update: their State enum.  The other classes have no such field.
States == {"Continue", "NoContinue", "Loaded", "NotLoaded",
           "Scanning", "NetworkList", "Connecting", "Failed",
           "Confirm", "Updating", "None"}

Screen == [kind : Kinds, id : Ids, ref : Ids \cup {NoId}, st : States, dir : 0..MaxDir]

ASSUME NoScreenAssumption == NoScreen \notin Screen

VARIABLES
  current,           \* the screen that gets loop() and render()
  stack,             \* the covered screens, bottom first
  pending,           \* the screen a push or replace request carries
  pendingAction,     \* the request waiting for applyPending
  pendingPopLevels,  \* how many levels a Pop still has to go
  dirty              \* a render has been asked for

managerVars == <<current, stack, pending, pendingAction, pendingPopLevels, dirty>>

Actions == {"None", "Push", "Pop", "Replace"}

ManagerTypeOK ==
  /\ current \in Screen \cup {NoScreen}
  /\ stack \in Seq(Screen)
  /\ pending \in Screen \cup {NoScreen}
  /\ pendingAction \in Actions
  /\ pendingPopLevels \in 1..2
  /\ dirty \in BOOLEAN

----------------------------------------------------------------------------
\* Objects

Live == {stack[i] : i \in DOMAIN stack} \cup ({current, pending} \ {NoScreen})

Free(live) == Ids \ {s.id : s \in live}

\* The constructors: the initial value of the member that `st` stands for.
InitialState(kind) ==
  IF kind = "Home" THEN "NoContinue"
  ELSE IF kind = "Reader" THEN "NotLoaded"
  ELSE IF kind = "WifiList" THEN "Scanning"
  ELSE IF kind = "Update" THEN "Confirm"
  ELSE "None"

New(kind, id, ref) ==
  [kind |-> kind, id |-> id, ref |-> ref, st |-> InitialState(kind), dir |-> 0]

----------------------------------------------------------------------------
\* Requests: replace, push, pop.  Each overwrites the single slot.

NoRequest == UNCHANGED <<pending, pendingAction, pendingPopLevels>>

\* makeScreen logs and gives up when the allocation fails, and the request is
\* then never made.
OutOfMemory(kind, live) == kind \in MayFail \/ Free(live) = {}

Request(action, kind, ref) ==
  \/ /\ OutOfMemory(kind, Live)
     /\ NoRequest
  \/ \E id \in Free(Live) :
       /\ pending' = New(kind, id, ref)
       /\ pendingAction' = action
       /\ UNCHANGED pendingPopLevels

Replace(kind) == Request("Replace", kind, NoId)

Push(kind, ref) == Request("Push", kind, ref)

Pop(levels) ==
  /\ pendingAction' = "Pop"
  /\ pendingPopLevels' = IF levels > 1 THEN levels ELSE 1
  /\ UNCHANGED pending

\* A reference held by a covering screen is used: the object at that address
\* changes its state.
SetState(id, st) ==
  stack' = [i \in DOMAIN stack |->
              IF stack[i].id = id THEN [stack[i] EXCEPT !.st = st] ELSE stack[i]]

----------------------------------------------------------------------------
\* onEnter and onResume, as the set of screens they can turn the screen into.
\* refreshMenu looks for the last book on the card, ReaderScreen::onEnter opens
\* the book, UpdateScreen::onEnter inspects the image.

Become(s, states) == {[s EXCEPT !.st = st] : st \in states}

Resumed(s) ==
  IF s.kind = "Home" THEN Become(s, {"Continue", "NoContinue"}) ELSE {s}

Entered(s) ==
  IF s.kind = "Reader" THEN Become(s, {"Loaded", "NotLoaded"})
  ELSE IF s.kind = "Update" THEN Become(s, {"Confirm", "Failed"})
  ELSE Resumed(s)

\* Mutant: leaving the network list before a transfer does not restart.
EndsTransferOnly(s) == s # NoScreen /\ s.kind = "FileTransfer"

\* WifiListScreen and FileTransferScreen end their onExit in WifiSession::end,
\* which restarts the device and does not return.
EndsSession(s) == s # NoScreen /\ s.kind \in {"WifiList", "FileTransfer"}

----------------------------------------------------------------------------
\* One iteration of the loop in applyPending, by branch.  The branch in which
\* onExit restarts the device is Navigation!ExitRestarts.

\* Mutant: the action is not reset before Home is requested.
PopToHomeForever ==
  /\ pendingAction = "Pop"
  /\ stack = <<>>
  /\ current' = NoScreen
  /\ pendingPopLevels' = 1
  /\ UNCHANGED <<stack, pending, pendingAction, dirty>>

\* Pop with nothing underneath: the current screen is destroyed and Home is
\* requested, which the next iteration carries out (or, out of memory, not).
PopToHome ==
  /\ pendingAction = "Pop"
  /\ stack = <<>>
  /\ current' = NoScreen
  /\ pendingPopLevels' = 1
  /\ \/ /\ OutOfMemory("Home", {pending} \ {NoScreen})
        /\ pendingAction' = "None"
        /\ UNCHANGED pending
     \/ \E id \in Free({pending} \ {NoScreen}) :
          /\ pending' = New("Home", id, NoId)
          /\ pendingAction' = "Replace"
  /\ UNCHANGED <<stack, dirty>>

\* More levels to go: the uncovered screen is neither resumed nor drawn.
PopThrough ==
  /\ pendingAction = "Pop"
  /\ stack # <<>>
  /\ pendingPopLevels > 1
  /\ current' = Last(stack)
  /\ stack' = Front(stack)
  /\ pendingPopLevels' = pendingPopLevels - 1
  /\ UNCHANGED <<pending, pendingAction, dirty>>

\* Mutant: no render is asked for when a screen is uncovered.
PopToParentQuietly ==
  /\ pendingAction = "Pop"
  /\ stack # <<>>
  /\ pendingPopLevels = 1
  /\ current' \in Resumed(Last(stack))
  /\ stack' = Front(stack)
  /\ pendingAction' = "None"
  /\ pendingPopLevels' = 1
  /\ UNCHANGED <<pending, dirty>>

PopToParent ==
  /\ pendingAction = "Pop"
  /\ stack # <<>>
  /\ pendingPopLevels = 1
  /\ current' \in Resumed(Last(stack))
  /\ stack' = Front(stack)
  /\ pendingAction' = "None"
  /\ pendingPopLevels' = 1
  /\ dirty' = TRUE
  /\ UNCHANGED pending

\* stack.clear() destroys the covered screens without calling their onExit.
ApplyReplace ==
  /\ pendingAction = "Replace"
  /\ stack' = <<>>
  /\ current' \in Entered(pending)
  /\ pending' = NoScreen
  /\ pendingAction' = "None"
  /\ dirty' = TRUE
  /\ UNCHANGED pendingPopLevels

\* Mutant: the screen that opened the new one is destroyed, not covered.
ApplyPushDropsCurrent ==
  /\ pendingAction = "Push"
  /\ current' \in Entered(pending)
  /\ pending' = NoScreen
  /\ pendingAction' = "None"
  /\ dirty' = TRUE
  /\ UNCHANGED <<stack, pendingPopLevels>>

ApplyPush ==
  /\ pendingAction = "Push"
  /\ stack' = IF current = NoScreen THEN stack ELSE Append(stack, current)
  /\ current' \in Entered(pending)
  /\ pending' = NoScreen
  /\ pendingAction' = "None"
  /\ dirty' = TRUE
  /\ UNCHANGED pendingPopLevels

============================================================================
