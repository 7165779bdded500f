-------------------------- MODULE NavigationProofs --------------------------
(***************************************************************************)
(* Proofs about module Navigation, for any set of addresses, any directory *)
(* depth and any set of classes whose allocation may fail.                 *)
(*                                                                         *)
(* The safety invariants are not inductive: what a pop uncovers depends on *)
(* how the covered screens were opened, what a push adds on the request    *)
(* that waits for it, and what a tick leaves on the panel on the phase it  *)
(* is in.  IInv adds exactly these.                                        *)
(***************************************************************************)
EXTENDS Navigation, SequenceTheorems, TLAPS

\* Screen s was opened by screen p: its class fits, and so does its reference.
Fits(p, s) ==
  /\ Opens(p.kind, s.kind)
  /\ s.ref = IF s.kind \in {"Chapters", "Keyboard"} THEN p.id
             ELSE IF s.kind = "PageJump" THEN p.ref
             ELSE NoId

Root(s) == s.kind \in Roots /\ s.ref = NoId

Covered ==
  \A i \in 1..Len(stack) :
    IF i = 1 THEN Root(stack[i]) ELSE Fits(stack[i - 1], stack[i])

Top ==
  /\ current = NoScreen => stack = <<>>
  /\ current # NoScreen =>
       IF stack = <<>> THEN Root(current) ELSE Fits(stack[Len(stack)], current)

\* What a request waiting for applyPending may carry.
Waiting ==
  /\ pendingAction \in {"None", "Pop"} => pending = NoScreen
  /\ pendingAction = "Push" =>
       /\ pending # NoScreen
       /\ current = NoScreen => Root(pending)
       /\ current # NoScreen => Fits(current, pending)
  /\ pendingAction = "Replace" =>
       /\ pending # NoScreen
       /\ Root(pending)
       /\ stack = <<>>
       /\ ~EndsSession(current)
  /\ pendingAction = "Pop" => current # NoScreen
  /\ pendingPopLevels = 2 => pendingAction = "Pop" /\ current.kind = "PageJump"

WifiOpen ==
  \/ current # NoScreen /\ current.kind = "WifiList"
  \/ \E i \in 1..Len(stack) : stack[i].kind = "WifiList"

Session == (radio <=> WifiOpen) /\ (radio => ~scratch)

Panel ==
  current # NoScreen => shown \/ dirty \/ pendingAction = "Pop" \/ ~Paints(current)

Control ==
  /\ ~Running => current = NoScreen /\ pendingAction = "None"
  /\ pc \in {"loop", "render"} => pendingAction = "None"
  /\ pc = "tick" => current = NoScreen \/ (pendingAction = "None" /\ (shown \/ ~Paints(current)))

IInv == TypeOK /\ Covered /\ Top /\ Waiting /\ Session /\ Panel /\ Control

----------------------------------------------------------------------------
\* Facts about the operators

\* A new object is a screen, whatever it refers to.
LEMMA NewIsScreen ==
  ASSUME NEW kind \in Kinds, NEW id \in Ids, NEW ref \in Ids \cup {NoId}
  PROVE  /\ New(kind, id, ref) \in Screen
         /\ New(kind, id, ref) # NoScreen
         /\ New(kind, id, ref).kind = kind
         /\ New(kind, id, ref).ref = ref
<1>1. InitialState(kind) \in States
  BY DEF InitialState, States, Kinds
<1>2. 0 \in 0..MaxDir
  BY ManagerAssumption
<1>3. New(kind, id, ref) \in Screen
  BY <1>1, <1>2 DEF New, Screen
<1>. QED
  BY <1>3, NoScreenAssumption DEF New

\* Identity, class and reference of a screen never change.
Same(s, t) == s.kind = t.kind /\ s.id = t.id /\ s.ref = t.ref

\* onEnter and onResume turn a screen into a screen with the same identity.
LEMMA EnteredIsSame ==
  ASSUME NEW s \in Screen, NEW t \in Entered(s) \cup Resumed(s)
  PROVE  t \in Screen /\ Same(s, t)
<1>1. PICK st \in States : t = [s EXCEPT !.st = st] \/ t = s
  BY DEF Entered, Resumed, Become, States
<1>. QED
  BY <1>1 DEF Screen, Same

\* Screens are told apart from the empty pointer.
LEMMA ScreenIsNotEmpty == \A s \in Screen : s # NoScreen
BY NoScreenAssumption

\* What opened a screen is seen from the identities alone.
LEMMA FitsSame ==
  ASSUME NEW p, NEW q, NEW s, NEW t, Same(p, q), Same(s, t), Fits(p, s)
  PROVE  Fits(q, t)
BY DEF Same, Fits

\* Front and Last of a non-empty column.
LEMMA FrontOfColumn ==
  ASSUME NEW s \in Seq(Screen), s # <<>>
  PROVE  /\ Len(s) \in Nat \ {0}
         /\ Last(s) = s[Len(s)]
         /\ Last(s) \in Screen
         /\ Front(s) \in Seq(Screen)
         /\ Len(Front(s)) = Len(s) - 1
         /\ \A i \in 1..Len(s) - 1 : Front(s)[i] = s[i]
         /\ Front(s) = <<>> <=> Len(s) = 1
<1>1. Len(s) \in Nat \ {0}
  BY EmptySeq
<1>2. \A i \in 1..Len(s) : s[i] \in Screen
  BY ElementOfSeq
<1>3. /\ Front(s) \in Seq(Screen)
      /\ Len(Front(s)) = Len(s) - 1
      /\ \A i \in 1..Len(s) - 1 : Front(s)[i] = s[i]
  <2>1. \A i \in 1..Len(s) - 1 : s[i] \in Screen
    BY <1>1, <1>2
  <2>2. SubSeq(s, 1, Len(s) - 1) \in Seq(Screen)
    BY <1>1, <2>1
  <2>3. Len(SubSeq(s, 1, Len(s) - 1)) = Len(s) - 1
    BY <1>1
  <2>4. \A i \in 1..Len(s) - 1 : SubSeq(s, 1, Len(s) - 1)[i] = s[i]
    BY <1>1
  <2>. QED
    BY <1>1, <2>2, <2>3, <2>4 DEF Front
<1>4. Front(s) = <<>> <=> Len(s) = 1
  BY <1>1, <1>3, EmptySeq
<1>. QED
  BY <1>1, <1>2, <1>3, <1>4 DEF Last

\* Two columns of the same screens, whatever their fields.
SameColumn(s, t) ==
  /\ Len(s) = Len(t)
  /\ \A i \in 1..Len(s) : Same(s[i], t[i])

\* Using a reference changes no screen's identity.
LEMMA SetStateIsSame ==
  ASSUME stack \in Seq(Screen), NEW id, NEW st \in States, SetState(id, st)
  PROVE  stack' \in Seq(Screen) /\ SameColumn(stack, stack')
<1>1. /\ Len(stack) \in Nat
      /\ DOMAIN stack = 1..Len(stack)
      /\ \A i \in 1..Len(stack) : stack[i] \in Screen
  BY LenProperties, ElementOfSeq
<1>2. ASSUME NEW s \in Screen
      PROVE  [s EXCEPT !.st = st] \in Screen /\ Same(s, [s EXCEPT !.st = st])
  BY DEF Screen, Same
<1>3. /\ stack' \in [1..Len(stack) -> Screen]
      /\ \A i \in 1..Len(stack) : Same(stack[i], stack'[i])
  BY <1>1, <1>2 DEF SetState, Same
<1>4. stack' \in Seq(Screen)
  BY <1>1, <1>3, SeqDef
<1>5. Len(stack') = Len(stack)
  BY <1>1, <1>3, <1>4, LenProperties
<1>. QED
  BY <1>3, <1>4, <1>5 DEF SameColumn

----------------------------------------------------------------------------
\* Being off, waking up and the phases that move no screen

USE DEF Phases, Running

\* The initial states satisfy the invariant.
LEMMA InitInvariant == Init => IInv
<1>. SUFFICES ASSUME Init PROVE IInv
  OBVIOUS
<1>1. stack \in Seq(Screen) /\ Len(stack) = 0
  BY EmptySeq DEF Init
<1>2. TypeOK
  <2>1. ManagerTypeOK
    <3>1. /\ current \in Screen \cup {NoScreen} /\ pending \in Screen \cup {NoScreen}
          /\ pendingAction \in Actions /\ pendingPopLevels \in 1..2
      BY DEF Init, Actions
    <3>2. dirty \in BOOLEAN
      BY DEF Init
    <3>. QED
      BY <1>1, <3>1, <3>2 DEF ManagerTypeOK
  <2>2. pc \in PCs /\ radio \in BOOLEAN /\ scratch \in BOOLEAN /\ shown \in BOOLEAN
    BY DEF Init, PCs
  <2>. QED
    BY <2>1, <2>2 DEF TypeOK
<1>3. Covered /\ Top /\ Waiting /\ Panel /\ Control
  BY <1>1 DEF Init, Covered, Top, Waiting, Panel, Control
<1>4. Session
  BY <1>1 DEF Init, Session, WifiOpen
<1>. QED
  BY <1>2, <1>3, <1>4 DEF IInv

\* Going off forgets everything.
LEMMA OffKeepsInvariant ==
  ASSUME RamLost, pc' \in {"sleep", "restart"}
  PROVE  IInv'
<1>1. stack' \in Seq(Screen) /\ Len(stack') = 0
  BY EmptySeq DEF RamLost
<1>2. TypeOK'
  <2>1. ManagerTypeOK'
    <3>1. /\ current' \in Screen \cup {NoScreen} /\ pending' \in Screen \cup {NoScreen}
          /\ pendingAction' \in Actions /\ pendingPopLevels' \in 1..2
      BY DEF RamLost, Actions
    <3>2. dirty' \in BOOLEAN
      BY DEF RamLost
    <3>. QED
      BY <1>1, <3>1, <3>2 DEF ManagerTypeOK
  <2>2. pc' \in PCs /\ radio' \in BOOLEAN /\ scratch' \in BOOLEAN /\ shown' \in BOOLEAN
    BY DEF RamLost, PCs
  <2>. QED
    BY <2>1, <2>2 DEF TypeOK
<1>3. Covered' /\ Top' /\ Waiting' /\ Panel' /\ Control'
  BY <1>1 DEF RamLost, Covered, Top, Waiting, Panel, Control
<1>4. Session'
  BY <1>1 DEF RamLost, Session, WifiOpen
<1>. QED
  BY <1>2, <1>3, <1>4 DEF IInv

\* A request that can be made puts a new screen in the slot.
LEMMA RequestMade ==
  ASSUME NEW action \in Actions, NEW kind \in Kinds, NEW ref \in Ids \cup {NoId},
         Request(action, kind, ref)
  PROVE  \/ NoRequest
         \/ /\ pending' \in Screen
            /\ pending' # NoScreen
            /\ pending'.kind = kind
            /\ pending'.ref = ref
            /\ pendingAction' = action
            /\ UNCHANGED pendingPopLevels
<1>1. CASE NoRequest
  BY <1>1
<1>2. CASE \E id \in Free(Live) :
             /\ pending' = New(kind, id, ref)
             /\ pendingAction' = action
             /\ UNCHANGED pendingPopLevels
  <2>1. PICK id \in Free(Live) :
          /\ pending' = New(kind, id, ref)
          /\ pendingAction' = action
          /\ UNCHANGED pendingPopLevels
    BY <1>2
  <2>2. id \in Ids
    BY DEF Free
  <2>. QED
    BY <2>1, <2>2, NewIsScreen
<1>. QED
  BY <1>1, <1>2 DEF Request

\* setup() makes at most one request, for a screen that may be a root.
LEMMA SetupKeepsInvariant ==
  ASSUME IInv, WakeUp \/ Reboot
  PROVE  IInv'
<1>1. /\ current = NoScreen /\ stack = <<>> /\ pendingAction = "None" /\ pending = NoScreen
      /\ SetupDone
  BY DEF WakeUp, Reboot, IInv, Control, Top, Waiting
<1>2. PICK kind \in Roots : Replace(kind) \/ Push(kind, NoId)
  BY DEF WakeUp, Reboot, Roots
<1>3. \/ NoRequest
      \/ /\ pending' \in Screen
         /\ pending' # NoScreen
         /\ Root(pending')
         /\ pendingAction' \in {"Replace", "Push"}
         /\ UNCHANGED pendingPopLevels
  <2>1. kind \in Kinds /\ NoId \in Ids \cup {NoId} /\ {"Replace", "Push"} \subseteq Actions
    BY DEF Roots, Kinds, Actions
  <2>. QED
    BY <1>2, <2>1, RequestMade DEF Replace, Push, Root
<1>4. TypeOK'
  BY <1>1, <1>3 DEF IInv, TypeOK, ManagerTypeOK, Actions, PCs, SetupDone, NoRequest
<1>5. Len(stack) = 0 /\ ~radio
  <2>1. Len(stack) = 0
    BY <1>1, EmptySeq
  <2>. QED
    BY <1>1, <2>1 DEF IInv, Session, WifiOpen
<1>6. Covered' /\ Top' /\ Waiting' /\ Session' /\ Panel' /\ Control'
  BY <1>1, <1>3, <1>5 DEF IInv, TypeOK, ManagerTypeOK, SetupDone, NoRequest, Covered, Top,
       Waiting, Session, WifiOpen, Panel, Control, EndsSession
<1>. QED
  BY <1>4, <1>6 DEF IInv

\* Nothing but the phase changes.
LEMMA PhaseKeepsInvariant ==
  ASSUME IInv, StartTick \/ ApplyDone
  PROVE  IInv'
<1>1. /\ UNCHANGED <<current, stack, pending, pendingAction, pendingPopLevels, dirty>>
      /\ UNCHANGED <<radio, scratch, shown>>
  BY DEF StartTick, ApplyDone, managerVars
<1>2. \/ pc' = "apply1"
      \/ pc' \in {"loop", "render"} /\ pendingAction = "None"
  BY DEF StartTick, ApplyDone, Applying
<1>3. TypeOK'
  BY <1>1, <1>2 DEF IInv, TypeOK, ManagerTypeOK, PCs
<1>4. Covered' /\ Top' /\ Waiting' /\ Session' /\ Panel'
  BY <1>1 DEF IInv, Covered, Top, Waiting, Session, WifiOpen, Panel, EndsSession
<1>5. Control'
  BY <1>1, <1>2 DEF IInv, Control
<1>. QED
  BY <1>3, <1>4, <1>5 DEF IInv

----------------------------------------------------------------------------
\* applyPending

\* Pop with nothing underneath leaves no screen and asks for Home.
LEMMA PopToHomeKeepsInvariant ==
  ASSUME IInv, ExitReturns, PopToHome
  PROVE  IInv'
<1>1. /\ current' = NoScreen /\ stack' = stack /\ pendingPopLevels' = 1 /\ dirty' = dirty
      /\ Len(stack) = 0 /\ stack = <<>>
      /\ UNCHANGED <<pc, radio, scratch>> /\ shown' = FALSE
  BY EmptySeq DEF PopToHome, ExitReturns
<1>2. pending = NoScreen /\ pc \in {"apply1", "apply2"}
  BY DEF PopToHome, ExitReturns, Applying, IInv, Waiting
<1>3. \/ pending' = NoScreen /\ pendingAction' = "None"
      \/ /\ pending' \in Screen /\ pending' # NoScreen /\ Root(pending')
         /\ pendingAction' = "Replace"
  <2>1. CASE UNCHANGED pending /\ pendingAction' = "None"
    BY <2>1, <1>2
  <2>2. CASE \E id \in Free({pending} \ {NoScreen}) :
               pending' = New("Home", id, NoId) /\ pendingAction' = "Replace"
    <3>1. PICK id \in Free({pending} \ {NoScreen}) :
            pending' = New("Home", id, NoId) /\ pendingAction' = "Replace"
      BY <2>2
    <3>2. id \in Ids /\ "Home" \in Kinds /\ NoId \in Ids \cup {NoId} /\ "Home" \in Roots
      BY DEF Free, Kinds, Roots
    <3>. QED
      BY <3>1, <3>2, NewIsScreen DEF Root
  <2>. QED
    BY <2>1, <2>2 DEF PopToHome
<1>4. TypeOK'
  <2>1. pendingAction' \in Actions /\ pending' \in Screen \cup {NoScreen}
    BY <1>3 DEF Actions
  <2>2. pendingPopLevels' \in 1..2
    BY <1>1
  <2>3. shown' \in BOOLEAN
    BY <1>1
  <2>. QED
    BY <1>1, <2>1, <2>2, <2>3 DEF IInv, TypeOK, ManagerTypeOK
<1>5. Covered' /\ Top' /\ Panel' /\ Control'
  BY <1>1, <1>2 DEF Covered, Top, Panel, Control
<1>6. Waiting'
  BY <1>1, <1>3 DEF Waiting, EndsSession
<1>7. Session'
  <2>1. ~WifiOpen /\ ~WifiOpen'
    BY <1>1, <1>2 DEF WifiOpen, EndsSession, ExitReturns
  <2>. QED
    BY <1>1, <2>1 DEF IInv, Session
<1>. QED
  BY <1>4, <1>5, <1>6, <1>7 DEF IInv

\* What the screens under the current one say about themselves once it is gone.
LEMMA UncoveredColumn ==
  ASSUME IInv, ~EndsSession(current), current # NoScreen, stack # <<>>,
         stack' = Front(stack), current' \in Screen, Same(Last(stack), current')
  PROVE  /\ stack' \in Seq(Screen)
         /\ Covered'
         /\ Top'
         /\ WifiOpen' <=> WifiOpen
<1>1. stack \in Seq(Screen)
  BY DEF IInv, TypeOK, ManagerTypeOK
<1>2. /\ Len(stack) \in Nat \ {0}
      /\ Last(stack) = stack[Len(stack)]
      /\ stack' \in Seq(Screen)
      /\ Len(stack') = Len(stack) - 1
      /\ \A i \in 1..Len(stack) - 1 : stack'[i] = stack[i]
      /\ stack' = <<>> <=> Len(stack) = 1
  BY <1>1, FrontOfColumn
<1>3. Covered'
  <2>1. ASSUME NEW i \in 1..Len(stack')
        PROVE  IF i = 1 THEN Root(stack'[i]) ELSE Fits(stack'[i - 1], stack'[i])
    <3>1. i \in 1..Len(stack) /\ stack'[i] = stack[i]
      BY <1>2, <2>1
    <3>2. i # 1 => stack'[i - 1] = stack[i - 1]
      BY <1>2, <2>1
    <3>. QED
      BY <3>1, <3>2 DEF IInv, Covered
  <2>. QED
    BY <2>1 DEF Covered
<1>4. current' # NoScreen
  BY ScreenIsNotEmpty
<1>5. Top'
  <2>1. CASE Len(stack) = 1
    <3>1. Root(Last(stack)) /\ stack' = <<>>
      BY <1>2, <2>1 DEF IInv, Covered
    <3>. QED
      BY <1>4, <3>1 DEF Top, Root, Same
  <2>2. CASE Len(stack) # 1
    <3>1. /\ Fits(stack[Len(stack) - 1], Last(stack))
          /\ stack' # <<>>
          /\ stack'[Len(stack')] = stack[Len(stack) - 1]
      BY <1>2, <2>2 DEF IInv, Covered
    <3>2. Fits(stack'[Len(stack')], current')
      BY <3>1, FitsSame DEF Same
    <3>. QED
      BY <1>4, <3>1, <3>2 DEF Top
  <2>. QED
    BY <2>1, <2>2
<1>6. WifiOpen' <=> WifiOpen
  <2>1. current.kind # "WifiList"
    BY DEF EndsSession
  <2>2. current'.kind = stack[Len(stack)].kind
    BY <1>2 DEF Same
  <2>3. \A i \in 1..Len(stack) : i = Len(stack) \/ i \in 1..Len(stack')
    BY <1>2
  <2>4. \A i \in 1..Len(stack') : i \in 1..Len(stack) /\ stack'[i] = stack[i]
    BY <1>2
  <2>5. Len(stack) \in 1..Len(stack)
    BY <1>2
  <2>. QED
    BY <1>4, <2>1, <2>2, <2>3, <2>4, <2>5 DEF WifiOpen
<1>. QED
  BY <1>2, <1>3, <1>5, <1>6

\* A pop of one level uncovers the screen below and has it drawn; a pop of two
\* only passes through the chapter list.
LEMMA PopKeepsInvariant ==
  ASSUME IInv, ExitReturns, PopThrough \/ PopToParent
  PROVE  IInv'
<1>1. /\ pendingAction = "Pop" /\ stack # <<>> /\ stack' = Front(stack)
      /\ pending' = pending /\ UNCHANGED <<pc, radio, scratch>> /\ shown' = FALSE
      /\ pc \in {"apply1", "apply2"} /\ ~EndsSession(current)
  BY DEF PopThrough, PopToParent, ExitReturns, Applying
<1>2. current # NoScreen /\ pending = NoScreen
  BY <1>1 DEF IInv, Waiting
<1>3. Last(stack) \in Screen
  BY <1>1, FrontOfColumn DEF IInv, TypeOK, ManagerTypeOK
<1>4. current' \in Screen /\ Same(Last(stack), current')
  BY <1>3, EnteredIsSame DEF PopThrough, PopToParent, Same
<1>5. stack' \in Seq(Screen) /\ Covered' /\ Top' /\ (WifiOpen' <=> WifiOpen)
  BY <1>1, <1>2, <1>4, UncoveredColumn
<1>6. Session'
  BY <1>1, <1>5 DEF IInv, Session
<1>7. current' # NoScreen
  BY <1>4, ScreenIsNotEmpty
<1>8. /\ pendingPopLevels' = 1
      /\ \/ pendingAction' = "Pop" /\ dirty' = dirty
         \/ pendingAction' = "None" /\ dirty' = TRUE
  <2>1. pendingPopLevels \in {1, 2}
    BY DEF IInv, TypeOK, ManagerTypeOK
  <2>. QED
    BY <2>1, <1>1 DEF PopThrough, PopToParent
<1>9. Waiting' /\ Panel' /\ Control'
  BY <1>1, <1>2, <1>7, <1>8 DEF Waiting, Panel, Control
<1>10. TypeOK'
  <2>1. pendingAction' \in Actions /\ pendingPopLevels' \in 1..2
    BY <1>8 DEF Actions
  <2>2. dirty' \in BOOLEAN /\ shown' \in BOOLEAN
    BY <1>1, <1>8 DEF IInv, TypeOK, ManagerTypeOK
  <2>. QED
    BY <1>1, <1>4, <1>5, <2>1, <2>2 DEF IInv, TypeOK, ManagerTypeOK
<1>. QED
  BY <1>5, <1>6, <1>9, <1>10 DEF IInv

\* The requested screen is entered: what its onEnter does to radio and buffer.
LEMMA EnterEffectsShape ==
  ASSUME EnterEffects
  PROVE  /\ shown' = FALSE /\ pc' = pc
         /\ pending.kind = "WifiList" => scratch' = FALSE /\ radio' = TRUE
         /\ pending.kind # "WifiList" => scratch' = scratch /\ radio' = radio
BY DEF EnterEffects

\* Replacing destroys no covered screen, and what it brings can be a root.
LEMMA ReplaceKeepsInvariant ==
  ASSUME IInv, DoReplace
  PROVE  IInv'
<1>1. /\ pendingAction = "Replace" /\ pendingAction' = "None"
      /\ pending \in Screen /\ Root(pending) /\ stack = <<>> /\ stack' = <<>>
      /\ pending' = NoScreen /\ dirty' = TRUE /\ pendingPopLevels' = pendingPopLevels
      /\ pc \in {"apply1", "apply2"} /\ ~EndsSession(current)
  BY DEF DoReplace, ApplyReplace, Applying, IInv, TypeOK, ManagerTypeOK, Waiting
<1>2. current' \in Screen /\ Same(pending, current')
  BY <1>1, EnteredIsSame DEF DoReplace, ApplyReplace
<1>3. current' # NoScreen /\ Root(current') /\ pending.kind # "WifiList"
  BY <1>1, <1>2, ScreenIsNotEmpty DEF Root, Roots, Same
<1>4. shown' = FALSE /\ pc' = pc /\ scratch' = scratch /\ radio' = radio
  BY <1>3, EnterEffectsShape DEF DoReplace
<1>5. Len(stack) = 0
  BY <1>1, EmptySeq
<1>6. TypeOK'
  <2>1. pendingAction' \in Actions
    BY <1>1 DEF Actions
  <2>2. dirty' \in BOOLEAN /\ shown' \in BOOLEAN
    BY <1>1, <1>4
  <2>3. stack' \in Seq(Screen)
    BY <1>1 DEF IInv, TypeOK, ManagerTypeOK
  <2>. QED
    BY <1>1, <1>2, <1>4, <2>1, <2>2, <2>3 DEF IInv, TypeOK, ManagerTypeOK
<1>7. Covered' /\ Top'
  BY <1>1, <1>3, <1>5 DEF Covered, Top
<1>8. Panel' /\ Control'
  BY <1>1, <1>3, <1>4 DEF Panel, Control
<1>9. Waiting'
  BY <1>1 DEF IInv, Waiting
<1>10. Session'
  <2>1. ~WifiOpen
    BY <1>1, <1>5 DEF WifiOpen, EndsSession
  <2>2. ~WifiOpen'
    BY <1>1, <1>2, <1>3, <1>5 DEF WifiOpen, Same
  <2>. QED
    BY <1>4, <2>1, <2>2 DEF IInv, Session
<1>. QED
  BY <1>6, <1>7, <1>8, <1>9, <1>10 DEF IInv

\* A push covers the current screen with the one it asked for.
LEMMA PushKeepsInvariant ==
  ASSUME IInv, DoPush
  PROVE  IInv'
<1>1. /\ pendingAction = "Push" /\ pendingAction' = "None"
      /\ pending \in Screen
      /\ pending' = NoScreen /\ dirty' = TRUE /\ pendingPopLevels' = pendingPopLevels
      /\ pc \in {"apply1", "apply2"}
  BY DEF DoPush, ApplyPush, Applying, IInv, TypeOK, ManagerTypeOK, Waiting
<1>2. current' \in Screen /\ Same(pending, current') /\ current' # NoScreen
  BY <1>1, EnteredIsSame, ScreenIsNotEmpty DEF DoPush, ApplyPush
<1>3. shown' = FALSE /\ pc' = pc
  BY EnterEffectsShape DEF DoPush
<1>4. stack \in Seq(Screen) /\ Len(stack) \in Nat
  BY LenProperties DEF IInv, TypeOK, ManagerTypeOK
<1>5. Waiting' /\ Panel' /\ Control'
  BY <1>1, <1>2, <1>3 DEF IInv, Waiting, Panel, Control
<1>6. scratch' \in BOOLEAN /\ radio' \in BOOLEAN /\ (radio' => ~scratch')
      /\ (radio' <=> radio \/ pending.kind = "WifiList")
  <2>1. CASE pending.kind = "WifiList"
    <3>1. scratch' = FALSE /\ radio' = TRUE
      BY <2>1, EnterEffectsShape DEF DoPush
    <3>. QED
      BY <2>1, <3>1
  <2>2. CASE pending.kind # "WifiList"
    <3>1. scratch' = scratch /\ radio' = radio
      BY <2>2, EnterEffectsShape DEF DoPush
    <3>2. scratch \in BOOLEAN /\ radio \in BOOLEAN /\ (radio => ~scratch)
      BY DEF IInv, TypeOK, Session
    <3>. QED
      BY <2>2, <3>1, <3>2
  <2>. QED
    BY <2>1, <2>2
<1>7. /\ stack' \in Seq(Screen) /\ Covered' /\ Top'
      /\ WifiOpen' <=> WifiOpen \/ pending.kind = "WifiList"
  <2>1. CASE current = NoScreen
    <3>1. stack' = stack /\ stack = <<>> /\ Len(stack) = 0
      BY <2>1, EmptySeq DEF DoPush, ApplyPush, IInv, Top
    <3>2. Root(current')
      BY <1>1, <1>2, <2>1 DEF IInv, Waiting, Root, Same
    <3>3. Covered' /\ Top'
      BY <1>2, <3>1, <3>2 DEF Covered, Top
    <3>4. WifiOpen' <=> WifiOpen \/ pending.kind = "WifiList"
      BY <1>2, <2>1, <3>1 DEF WifiOpen, Same
    <3>. QED
      BY <1>4, <3>1, <3>3, <3>4
  <2>2. CASE current # NoScreen
    <3>1. current \in Screen /\ stack' = Append(stack, current)
      BY <2>2 DEF DoPush, ApplyPush, IInv, TypeOK, ManagerTypeOK
    <3>2. /\ stack' \in Seq(Screen)
          /\ stack' # <<>>
          /\ Len(stack') = Len(stack) + 1
          /\ \A i \in 1..Len(stack) : stack'[i] = stack[i]
          /\ stack'[Len(stack) + 1] = current
      BY <1>4, <3>1, AppendProperties
    <3>3. Top'
      <4>1. Fits(current, pending)
        BY <1>1, <2>2 DEF IInv, Waiting
      <4>2. Fits(stack'[Len(stack')], current')
        BY <1>2, <3>2, <4>1, FitsSame DEF Same
      <4>. QED
        BY <1>2, <3>2, <4>2 DEF Top
    <3>4. Covered'
      <4>1. ASSUME NEW i \in 1..Len(stack')
            PROVE  IF i = 1 THEN Root(stack'[i]) ELSE Fits(stack'[i - 1], stack'[i])
        <5>1. CASE i \in 1..Len(stack)
          <6>1. stack'[i] = stack[i] /\ (i # 1 => stack'[i - 1] = stack[i - 1])
            BY <1>4, <3>2, <5>1
          <6>. QED
            BY <5>1, <6>1 DEF IInv, Covered
        <5>2. CASE i = Len(stack) + 1
          <6>1. CASE i = 1
            <7>1. stack = <<>>
              BY <1>4, <5>2, <6>1, EmptySeq
            <7>. QED
              BY <2>2, <3>2, <5>2, <6>1, <7>1 DEF IInv, Top
          <6>2. CASE i # 1
            <7>1. stack # <<>> /\ stack'[i - 1] = stack[Len(stack)]
              BY <1>4, <3>2, <5>2, <6>2, EmptySeq
            <7>. QED
              BY <2>2, <3>2, <5>2, <6>2, <7>1 DEF IInv, Top
          <6>. QED
            BY <6>1, <6>2
        <5>. QED
          BY <1>4, <3>2, <5>1, <5>2
      <4>. QED
        BY <4>1 DEF Covered
    <3>5. WifiOpen' <=> WifiOpen \/ pending.kind = "WifiList"
      <4>1. \A i \in 1..Len(stack') : i = Len(stack) + 1 \/ i \in 1..Len(stack)
        BY <1>4, <3>2
      <4>2. \A i \in 1..Len(stack) : i \in 1..Len(stack')
        BY <1>4, <3>2
      <4>3. Len(stack) + 1 \in 1..Len(stack')
        BY <1>4, <3>2
      <4>. QED
        BY <1>2, <2>2, <3>2, <4>1, <4>2, <4>3 DEF WifiOpen, Same
    <3>. QED
      BY <3>2, <3>3, <3>4, <3>5
  <2>. QED
    BY <2>1, <2>2
<1>8. Session'
  BY <1>6, <1>7 DEF IInv, Session
<1>9. TypeOK'
  <2>1. pendingAction' \in Actions
    BY <1>1 DEF Actions
  <2>2. dirty' \in BOOLEAN /\ shown' \in BOOLEAN
    BY <1>1, <1>3
  <2>. QED
    BY <1>1, <1>2, <1>3, <1>6, <1>7, <2>1, <2>2 DEF IInv, TypeOK, ManagerTypeOK
<1>. QED
  BY <1>5, <1>7, <1>8, <1>9 DEF IInv

----------------------------------------------------------------------------
\* The handlers

\* What any handler may do: it changes fields but no identities, asks for a
\* render when it changes what is drawn, and makes at most one request.
Redrawn ==
  \/ current' = current /\ shown' = shown /\ (dirty' = dirty \/ dirty' = TRUE)
  \/ shown' = FALSE /\ dirty' = TRUE

Columns ==
  /\ current' \in Screen /\ Same(current, current')
  /\ stack' \in Seq(Screen) /\ SameColumn(stack, stack')

Requested ==
  \/ NoRequest
  \/ /\ pendingAction' = "Pop" /\ pending' = pending
     /\ \/ pendingPopLevels' = 1
        \/ pendingPopLevels' = 2 /\ current.kind = "PageJump"
  \/ /\ pendingAction' = "Push" /\ pending' \in Screen /\ Fits(current, pending')
     /\ UNCHANGED pendingPopLevels
  \/ /\ pendingAction' = "Replace" /\ pending' \in Screen /\ Root(pending')
     /\ current.kind = "Message"
     /\ UNCHANGED pendingPopLevels

Handled == Redrawn /\ Columns /\ Requested

\* A column is the same column as itself.
LEMMA SameColumnReflexive ==
  ASSUME NEW s \in Seq(Screen)
  PROVE  SameColumn(s, s)
BY LenProperties DEF SameColumn, Same

\* A handler that redraws its screen in any state.
LEMMA StayHandled ==
  ASSUME IInv, current # NoScreen, NEW s \in Screen, Same(current, s), Stay(s)
  PROVE  Handled
BY SameColumnReflexive
   DEF Stay, Redraw, Handled, Redrawn, Columns, Requested, IInv, TypeOK, ManagerTypeOK

\* A handler that does nothing keeps the invariant.
LEMMA IdleHandled ==
  ASSUME IInv, current # NoScreen, Idle
  PROVE  Handled
BY SameColumnReflexive
   DEF Idle, Quiet, Handled, Redrawn, Columns, Requested, Same, IInv, TypeOK, ManagerTypeOK

\* A handler that leaves, by one level, or from the page picker by two.
LEMMA LeaveHandled ==
  ASSUME IInv, current # NoScreen, NEW levels \in 1..2,
         levels = 2 => current.kind = "PageJump",
         Leave(levels) \/ JumpAndLeave(levels)
  PROVE  Handled
<1>1. Redrawn /\ Columns
  BY SameColumnReflexive
     DEF Leave, JumpAndLeave, Quiet, Redrawn, Columns, Same, IInv, TypeOK, ManagerTypeOK
<1>2. Requested
  <2>1. pendingAction' = "Pop" /\ pending' = pending /\ pendingPopLevels' = levels
    <3>1. Pop(levels)
      BY DEF Leave, JumpAndLeave
    <3>. QED
      BY <3>1 DEF Pop
  <2>2. levels = 1 \/ (levels = 2 /\ current.kind = "PageJump")
    OBVIOUS
  <2>. QED
    BY <2>1, <2>2 DEF Requested
<1>. QED
  BY <1>1, <1>2 DEF Handled

\* A handler that opens a screen its class opens.
LEMMA OpenHandled ==
  ASSUME IInv, current # NoScreen, NEW kind \in Kinds, NEW ref \in Ids \cup {NoId},
         Opens(current.kind, kind),
         ref = IF kind \in {"Chapters", "Keyboard"} THEN current.id
               ELSE IF kind = "PageJump" THEN current.ref
               ELSE NoId,
         Open(kind, ref)
  PROVE  Handled
<1>1. Redrawn /\ Columns
  BY SameColumnReflexive
     DEF Open, Quiet, Redrawn, Columns, Same, IInv, TypeOK, ManagerTypeOK
<1>2. \/ NoRequest
      \/ /\ pending' \in Screen /\ pending'.kind = kind /\ pending'.ref = ref
         /\ pendingAction' = "Push" /\ UNCHANGED pendingPopLevels
  <2>1. "Push" \in Actions
    BY DEF Actions
  <2>. QED
    BY <2>1, RequestMade DEF Open, Push
<1>3. Requested
  BY <1>2 DEF Requested, Fits
<1>. QED
  BY <1>1, <1>3 DEF Handled

\* Screens below the current one that its handler uses.
LEMMA HandlerEffect ==
  ASSUME IInv, current # NoScreen, NEW key \in Keys, Handler(key)
  PROVE  Handled
<1>1. current \in Screen /\ current.id \in Ids /\ current.ref \in Ids \cup {NoId}
      /\ NoId \in Ids \cup {NoId} /\ current.dir \in 0..MaxDir /\ MaxDir \in Nat
  BY ManagerAssumption DEF IInv, TypeOK, ManagerTypeOK, Screen
<1>2. ASSUME Stay(current) PROVE Handled
  BY <1>1, <1>2, StayHandled DEF Same
<1>3. ASSUME NEW st \in States, Stay([current EXCEPT !.st = st]) PROVE Handled
  <2>1. [current EXCEPT !.st = st] \in Screen /\ Same(current, [current EXCEPT !.st = st])
    BY <1>1 DEF Screen, Same
  <2>. QED
    BY <1>3, <2>1, StayHandled
<1>4. ASSUME NEW d \in 0..MaxDir, Stay([current EXCEPT !.dir = d]) PROVE Handled
  <2>1. [current EXCEPT !.dir = d] \in Screen /\ Same(current, [current EXCEPT !.dir = d])
    BY <1>1 DEF Screen, Same
  <2>. QED
    BY <1>4, <2>1, StayHandled
<1>5. ASSUME Leave(1) \/ JumpAndLeave(1) PROVE Handled
  BY <1>5, LeaveHandled
<1>6. ASSUME NEW kind \in Kinds \ {"Chapters", "Keyboard", "PageJump"},
             Opens(current.kind, kind), Open(kind, NoId)
      PROVE  Handled
  BY <1>1, <1>6, OpenHandled
<1>7. CASE current.kind = "Home" /\ HomeLoop(key)
  BY <1>2, <1>6, <1>7 DEF HomeLoop, Opens, Kinds
<1>8. CASE current.kind \in {"Browser", "Firmware"} /\ BrowserLoop(key)
  <2>1. CASE current.dir > 0 /\ Stay([current EXCEPT !.dir = @ - 1])
    BY <1>1, <1>4, <2>1
  <2>2. CASE current.dir < MaxDir /\ Stay([current EXCEPT !.dir = @ + 1])
    BY <1>1, <1>4, <2>2
  <2>3. CASE Open(IF current.kind = "Firmware" THEN "Update" ELSE "Reader", NoId)
    BY <1>6, <1>8, <2>3 DEF Opens, Kinds
  <2>. QED
    BY <1>2, <1>5, <1>8, <2>1, <2>2, <2>3 DEF BrowserLoop
<1>9. CASE current.kind = "Reader" /\ ReaderLoop(key)
  <2>1. CASE Open("Chapters", current.id)
    BY <1>1, <1>9, <2>1, OpenHandled DEF Opens, Kinds
  <2>. QED
    BY <1>2, <1>5, <1>9, <2>1 DEF ReaderLoop
<1>10. CASE current.kind = "Chapters" /\ ChaptersLoop(key)
  <2>1. CASE Open("PageJump", current.ref)
    BY <1>1, <1>10, <2>1, OpenHandled DEF Opens, Kinds
  <2>. QED
    BY <1>2, <1>5, <1>10, <2>1 DEF ChaptersLoop
<1>11. CASE current.kind = "PageJump" /\ PageJumpLoop(key)
  <2>1. CASE JumpAndLeave(2)
    BY <1>11, <2>1, LeaveHandled
  <2>. QED
    BY <1>2, <1>5, <1>11, <2>1 DEF PageJumpLoop
<1>12. CASE current.kind = "Settings" /\ SettingsLoop(key)
  BY <1>2, <1>5, <1>6, <1>12 DEF SettingsLoop, Opens, Kinds
<1>13. CASE current.kind = "Update" /\ UpdateLoop(key)
  BY <1>3, <1>5, <1>13 DEF UpdateLoop, States
<1>14. CASE current.kind = "WifiList" /\ WifiListLoop(key)
  <2>1. CASE Open("Keyboard", current.id)
    BY <1>1, <1>14, <2>1, OpenHandled DEF Opens, Kinds
  <2>2. CASE Open("FileTransfer", NoId)
    BY <1>6, <1>14, <2>2 DEF Opens, Kinds
  <2>. QED
    BY <1>2, <1>3, <1>5, <1>14, <2>1, <2>2 DEF WifiListLoop, States
<1>15. CASE current.kind = "Keyboard" /\ KeyboardLoop(key)
  <2>1. CASE \/ SetState(current.ref, "NetworkList") /\ Quiet /\ Pop(1)
             \/ /\ SetState(current.ref, "Connecting")
                /\ dirty' = TRUE
                /\ UNCHANGED <<current, shown>>
                /\ Pop(1)
    <3>1. stack \in Seq(Screen) /\ {"NetworkList", "Connecting"} \subseteq States
      BY DEF IInv, TypeOK, ManagerTypeOK, States
    <3>2. stack' \in Seq(Screen) /\ SameColumn(stack, stack')
      BY <2>1, <3>1, SetStateIsSame
    <3>3. Columns
      BY <1>1, <2>1, <3>2 DEF Quiet, Columns, Same
    <3>4. Redrawn
      BY <2>1 DEF Quiet, Redrawn
    <3>5. Requested
      BY <2>1 DEF Pop, Requested
    <3>. QED
      BY <3>3, <3>4, <3>5 DEF Handled
  <2>. QED
    BY <1>2, <1>15, <2>1 DEF KeyboardLoop
<1>16. CASE current.kind = "FileTransfer" /\ FileTransferLoop(key)
  BY <1>5, <1>16 DEF FileTransferLoop
<1>17. CASE current.kind = "Message" /\ MessageLoop(key)
  <2>1. Redrawn /\ Columns
    BY <1>1, <1>17, SameColumnReflexive
       DEF MessageLoop, Quiet, Redrawn, Columns, Same, IInv, TypeOK, ManagerTypeOK
  <2>2. "Home" \in Kinds /\ "Home" \in Roots /\ "Replace" \in Actions
    BY DEF Kinds, Roots, Actions
  <2>3. Requested
    BY <1>1, <1>17, <2>2, RequestMade DEF MessageLoop, Replace, Requested, Root
  <2>. QED
    BY <2>1, <2>3 DEF Handled
<1>. QED
  BY <1>7, <1>8, <1>9, <1>10, <1>11, <1>12, <1>13, <1>14, <1>15, <1>16, <1>17 DEF Handler

\* A column of the same screens was opened the same way.
LEMMA SameColumnKeepsLineage ==
  ASSUME IInv, current # NoScreen, Columns
  PROVE  /\ Covered' /\ Top' /\ (WifiOpen' <=> WifiOpen)
         /\ current' # NoScreen
<1>1. stack \in Seq(Screen) /\ Len(stack) \in Nat /\ current' # NoScreen
  BY LenProperties, ScreenIsNotEmpty DEF IInv, TypeOK, ManagerTypeOK, Columns
<1>2. Len(stack') = Len(stack) /\ \A i \in 1..Len(stack) : Same(stack[i], stack'[i])
  BY DEF Columns, SameColumn
<1>3. Covered'
  <2>1. ASSUME NEW i \in 1..Len(stack')
        PROVE  IF i = 1 THEN Root(stack'[i]) ELSE Fits(stack'[i - 1], stack'[i])
    <3>1. CASE i = 1
      BY <1>1, <1>2, <2>1, <3>1 DEF IInv, Covered, Root, Same
    <3>2. CASE i # 1
      <4>1. i - 1 \in 1..Len(stack) /\ i \in 1..Len(stack)
        BY <1>1, <1>2, <2>1, <3>2
      <4>2. Fits(stack[i - 1], stack[i])
        BY <4>1, <3>2 DEF IInv, Covered
      <4>. QED
        BY <1>2, <3>2, <4>1, <4>2, FitsSame
    <3>. QED
      BY <3>1, <3>2
  <2>. QED
    BY <2>1 DEF Covered
<1>4. Top'
  <2>1. CASE stack = <<>>
    <3>1. stack' = <<>> /\ Root(current)
      BY <1>1, <1>2, <2>1, EmptySeq DEF Columns, IInv, Top
    <3>. QED
      BY <1>1, <3>1 DEF Columns, Top, Root, Same
  <2>2. CASE stack # <<>>
    <3>1. stack' # <<>> /\ Len(stack) \in 1..Len(stack)
      BY <1>1, <1>2, <2>2, EmptySeq DEF Columns
    <3>2. Fits(stack[Len(stack)], current)
      BY <2>2 DEF IInv, Top
    <3>3. Fits(stack'[Len(stack')], current')
      BY <1>2, <3>1, <3>2, FitsSame DEF Columns
    <3>. QED
      BY <1>1, <3>1, <3>3 DEF Top
  <2>. QED
    BY <2>1, <2>2
<1>5. WifiOpen' <=> WifiOpen
  BY <1>1, <1>2 DEF WifiOpen, Columns, Same
<1>. QED
  BY <1>1, <1>3, <1>4, <1>5

\* A message is never on top of another screen.
LEMMA MessageIsRoot ==
  ASSUME IInv, current # NoScreen, current.kind = "Message"
  PROVE  stack = <<>>
BY DEF IInv, Top, Fits, Opens

\* The phase in which a handler runs.
LEMMA LoopKeepsInvariant ==
  ASSUME IInv, NEW key \in Keys, LoopPhase(key)
  PROVE  IInv'
<1>1. pc' = "apply2" /\ pendingAction = "None" /\ pending = NoScreen
      /\ UNCHANGED <<radio, scratch>>
  BY DEF LoopPhase, IInv, Control, Waiting
<1>2. CASE current = NoScreen
  <2>1. /\ UNCHANGED <<current, stack, pending, pendingAction, pendingPopLevels>>
        /\ UNCHANGED <<dirty, shown>>
    BY <1>2 DEF LoopPhase, Idle, Quiet, NoRequest
  <2>2. TypeOK'
    BY <1>1, <2>1 DEF IInv, TypeOK, ManagerTypeOK, PCs
  <2>3. Covered' /\ Top' /\ Waiting' /\ Session' /\ Panel'
    BY <1>1, <2>1 DEF IInv, Covered, Top, Waiting, Session, WifiOpen, Panel, EndsSession
  <2>4. Control'
    BY <1>1, <2>1 DEF Control
  <2>. QED
    BY <2>2, <2>3, <2>4 DEF IInv
<1>3. CASE current # NoScreen
  <2>1. Handled
    BY <1>3, HandlerEffect, IdleHandled DEF LoopPhase
  <2>2. Covered' /\ Top' /\ (WifiOpen' <=> WifiOpen) /\ current' # NoScreen
    BY <1>3, <2>1, SameColumnKeepsLineage DEF Handled
  <2>3. Session'
    BY <1>1, <2>2 DEF IInv, Session
  <2>4. Control'
    BY <1>1 DEF Control
  <2>5. Panel'
    BY <1>1, <1>3, <2>1 DEF Handled, Redrawn, IInv, Panel
  <2>6. current.kind = current'.kind /\ pendingPopLevels # 2
    BY <1>1, <2>1 DEF Handled, Columns, Same, IInv, Waiting
  <2>7. Waiting'
    <3>1. CASE NoRequest
      BY <1>1, <2>6, <3>1 DEF NoRequest, Waiting
    <3>2. CASE /\ pendingAction' = "Pop" /\ pending' = pending
               /\ \/ pendingPopLevels' = 1
                  \/ pendingPopLevels' = 2 /\ current.kind = "PageJump"
      BY <1>1, <2>2, <2>6, <3>2 DEF Waiting
    <3>3. CASE /\ pendingAction' = "Push" /\ pending' \in Screen /\ Fits(current, pending')
               /\ UNCHANGED pendingPopLevels
      <4>1. Fits(current', pending') /\ pending' # NoScreen
        BY <2>1, <3>3, FitsSame, ScreenIsNotEmpty DEF Handled, Columns, Same
      <4>. QED
        BY <2>2, <2>6, <3>3, <4>1 DEF Waiting
    <3>4. CASE /\ pendingAction' = "Replace" /\ pending' \in Screen /\ Root(pending')
               /\ current.kind = "Message"
               /\ UNCHANGED pendingPopLevels
      <4>1. stack = <<>> /\ stack' \in Seq(Screen) /\ Len(stack') = Len(stack)
        BY <1>3, <2>1, <3>4, MessageIsRoot DEF Handled, Columns, SameColumn
      <4>2. stack' = <<>> /\ pending' # NoScreen /\ ~EndsSession(current')
        BY <2>6, <3>4, <4>1, EmptySeq, ScreenIsNotEmpty DEF EndsSession
      <4>. QED
        BY <2>6, <3>4, <4>2 DEF Waiting
    <3>. QED
      BY <2>1, <3>1, <3>2, <3>3, <3>4 DEF Handled, Requested
  <2>8. TypeOK'
    <3>1. pending' \in Screen \cup {NoScreen} /\ pendingAction' \in Actions
      BY <1>1, <2>1 DEF Handled, Requested, NoRequest, Actions
    <3>2. pendingPopLevels' \in 1..2
      BY <2>1 DEF Handled, Requested, NoRequest, IInv, TypeOK, ManagerTypeOK
    <3>3. dirty' \in BOOLEAN /\ shown' \in BOOLEAN
      BY <2>1 DEF Handled, Redrawn, IInv, TypeOK, ManagerTypeOK
    <3>4. pc' \in PCs
      BY <1>1 DEF PCs
    <3>. QED
      BY <1>1, <2>1, <3>1, <3>2, <3>3, <3>4 DEF Handled, Columns, IInv, TypeOK, ManagerTypeOK
  <2>. QED
    BY <2>2, <2>3, <2>4, <2>5, <2>7, <2>8 DEF IInv
<1>. QED
  BY <1>2, <1>3

----------------------------------------------------------------------------
\* The tail of a tick

\* Only the keyboard or the transfer screen lies on the network list: no reader
\* is ever open during a Wi-Fi visit.
LEMMA ReaderWithoutRadio ==
  ASSUME IInv, current # NoScreen, current.kind = "Reader"
  PROVE  ~radio
<1>1. stack \in Seq(Screen) /\ Len(stack) \in Nat
  BY LenProperties DEF IInv, TypeOK, ManagerTypeOK
<1>2. ASSUME NEW i \in 1..Len(stack), stack[i].kind = "WifiList" PROVE FALSE
  <2>1. stack # <<>> /\ Fits(stack[Len(stack)], current)
    <3>1. stack # <<>>
      BY <1>1, <1>2, EmptySeq
    <3>. QED
      BY <3>1 DEF IInv, Top
  <2>2. CASE i = Len(stack)
    BY <1>2, <2>1, <2>2 DEF Fits, Opens
  <2>3. CASE i # Len(stack)
    <3>1. i + 1 \in 1..Len(stack) /\ i + 1 # 1 /\ (i + 1) - 1 = i
      BY <1>1, <2>3
    <3>2. Fits(stack[i], stack[i + 1])
      BY <3>1 DEF IInv, Covered
    <3>3. stack[i + 1].kind \in {"Keyboard", "FileTransfer"}
      BY <1>2, <3>2 DEF Fits, Opens
    <3>4. CASE i + 1 = Len(stack)
      BY <2>1, <3>3, <3>4 DEF Fits, Opens
    <3>5. CASE i + 1 # Len(stack)
      <4>1. i + 2 \in 1..Len(stack) /\ i + 2 # 1 /\ (i + 2) - 1 = i + 1
        BY <1>1, <3>1, <3>5
      <4>2. Fits(stack[i + 1], stack[i + 2])
        BY <4>1 DEF IInv, Covered
      <4>. QED
        BY <3>3, <4>2 DEF Fits, Opens
    <3>. QED
      BY <3>4, <3>5
  <2>. QED
    BY <2>2, <2>3
<1>3. ~WifiOpen
  BY <1>2 DEF WifiOpen
<1>. QED
  BY <1>3 DEF IInv, Session

\* Painting takes the buffer only for a reader, and leaves nothing undrawn.
LEMMA RenderKeepsInvariant ==
  ASSUME IInv, Render
  PROVE  IInv'
<1>1. /\ pc = "render" /\ pc' = "tick" /\ pendingAction = "None"
      /\ UNCHANGED <<current, stack, pending, pendingAction, pendingPopLevels, radio>>
  BY DEF Render, IInv, Control
<1>2. \/ UNCHANGED <<dirty, shown, scratch>>
      \/ /\ dirty /\ current # NoScreen /\ dirty' = FALSE
         /\ shown' = (shown \/ Paints(current))
         /\ \/ scratch' = scratch
            \/ scratch' \in BOOLEAN /\ current.kind = "Reader"
  BY DEF Render, NeedsBuffer
<1>3. dirty' \in BOOLEAN /\ shown' \in BOOLEAN /\ scratch' \in BOOLEAN
  <2>1. dirty \in BOOLEAN /\ shown \in BOOLEAN /\ scratch \in BOOLEAN
    BY DEF IInv, TypeOK, ManagerTypeOK
  <2>. QED
    BY <1>2, <2>1
<1>4. TypeOK'
  <2>1. pc' \in PCs
    BY <1>1 DEF PCs
  <2>. QED
    BY <1>1, <1>3, <2>1 DEF IInv, TypeOK, ManagerTypeOK
<1>5. Covered' /\ Top' /\ Waiting' /\ (WifiOpen' <=> WifiOpen)
  BY <1>1 DEF IInv, Covered, Top, Waiting, EndsSession, WifiOpen
<1>6. Session'
  <2>1. CASE current # NoScreen /\ current.kind = "Reader"
    BY <1>1, <1>5, <2>1, ReaderWithoutRadio DEF IInv, Session
  <2>2. CASE scratch' = scratch
    BY <1>1, <1>5, <2>2 DEF IInv, Session
  <2>. QED
    BY <1>2, <2>1, <2>2
<1>7. ASSUME current # NoScreen PROVE shown' \/ ~Paints(current)
  <2>1. CASE UNCHANGED <<dirty, shown, scratch>> /\ ~dirty
    BY <1>1, <1>7, <2>1 DEF IInv, Panel
  <2>2. CASE shown' = (shown \/ Paints(current))
    BY <2>2
  <2>. QED
    BY <1>7, <2>1, <2>2 DEF Render
<1>8. Panel' /\ Control'
  BY <1>1, <1>7 DEF Panel, Control, Paints
<1>. QED
  BY <1>4, <1>5, <1>6, <1>8 DEF IInv

----------------------------------------------------------------------------
\* The invariant

\* Every step keeps the invariant.
LEMMA NextKeepsInvariant ==
  ASSUME IInv, [Next]_vars
  PROVE  IInv'
<1>1. CASE WakeUp \/ Reboot
  BY <1>1, SetupKeepsInvariant
<1>2. CASE DeepSleep
  BY <1>2, OffKeepsInvariant DEF DeepSleep
<1>3. CASE StartTick \/ ApplyDone
  BY <1>3, PhaseKeepsInvariant
<1>4. CASE ExitRestarts
  BY <1>4, OffKeepsInvariant DEF ExitRestarts
<1>5. CASE DoPop
  BY <1>5, PopToHomeKeepsInvariant, PopKeepsInvariant DEF DoPop
<1>6. CASE DoReplace
  BY <1>6, ReplaceKeepsInvariant
<1>7. CASE DoPush
  BY <1>7, PushKeepsInvariant
<1>8. CASE \E key \in Keys : LoopPhase(key)
  BY <1>8, LoopKeepsInvariant
<1>9. CASE UpdateRestarts
  BY <1>9, OffKeepsInvariant DEF UpdateRestarts
<1>10. CASE Render
  BY <1>10, RenderKeepsInvariant
<1>11. CASE UNCHANGED vars
  <2>1. /\ UNCHANGED <<current, stack, pending, pendingAction, pendingPopLevels, dirty>>
        /\ UNCHANGED <<pc, radio, scratch, shown>>
    BY <1>11 DEF vars, managerVars
  <2>2. TypeOK' /\ Covered' /\ Top' /\ Waiting'
    BY <2>1 DEF IInv, TypeOK, ManagerTypeOK, Covered, Top, Waiting, EndsSession
  <2>3. Session' /\ Panel' /\ Control'
    BY <2>1 DEF IInv, Session, WifiOpen, Panel, Control
  <2>. QED
    BY <2>2, <2>3 DEF IInv
<1>. QED
  BY <1>1, <1>2, <1>3, <1>4, <1>5, <1>6, <1>7, <1>8, <1>9, <1>10, <1>11
     DEF Next, Device, Apply

\* IInv holds in every reachable state: what every theorem below rests on.
THEOREM InvariantHolds == Spec => []IInv
<1>1. Init => IInv
  BY InitInvariant
<1>2. IInv /\ [Next]_vars => IInv'
  BY NextKeepsInvariant
<1>. QED
  BY <1>1, <1>2, PTL DEF Spec

----------------------------------------------------------------------------
(***************************************************************************)
(* The theorems                                                            *)
(***************************************************************************)

\* Every variable stays in its range: the single slot holds one request and a
\* pop goes one or two levels (ScreenManager::pop).
THEOREM TypeCorrect == Spec => []TypeOK
<1>1. IInv => TypeOK
  BY DEF IInv
<1>. QED
  BY <1>1, InvariantHolds, PTL

\* What PageJumpScreen needs of the stack when it pops two levels.
LEMMA PageJumpOnReader ==
  ASSUME IInv, current # NoScreen, current.kind = "PageJump"
  PROVE  /\ Len(stack) >= 2
         /\ stack[Len(stack) - 1].kind = "Reader"
         /\ stack[Len(stack)].kind = "Chapters"
         /\ stack[Len(stack)].ref = current.ref
         /\ stack[Len(stack) - 1].id = current.ref
<1>1. stack \in Seq(Screen) /\ Len(stack) \in Nat
  BY LenProperties DEF IInv, TypeOK, ManagerTypeOK
<1>2. stack # <<>> /\ Fits(stack[Len(stack)], current)
  BY DEF IInv, Top, Root, Roots
<1>3. Len(stack) \in 1..Len(stack) /\ stack[Len(stack)].kind = "Chapters"
      /\ stack[Len(stack)].ref = current.ref
  BY <1>1, <1>2, EmptySeq DEF Fits, Opens
<1>4. Len(stack) # 1
  BY <1>3 DEF IInv, Covered, Root, Roots
<1>5. Fits(stack[Len(stack) - 1], stack[Len(stack)])
  BY <1>3, <1>4 DEF IInv, Covered
<1>6. stack[Len(stack) - 1].kind = "Reader" /\ stack[Len(stack)].ref = stack[Len(stack) - 1].id
  BY <1>3, <1>5 DEF Fits, Opens
<1>7. Len(stack) >= 2
  <2>1. \A n \in Nat : n \in 1..n /\ n # 1 => n >= 2
    OBVIOUS
  <2>. QED
    BY <1>1, <1>3, <1>4, <2>1
<1>. QED
  BY <1>3, <1>6, <1>7

\* Choosing a page skips the chapter list and uncovers the very reader whose
\* page was set, in every history of screens (PageJumpScreen::activateKey).
THEOREM JumpSafe == Spec => []JumpLandsOnReader
<1>1. IInv => JumpLandsOnReader
  <2>. SUFFICES ASSUME IInv, pendingAction = "Pop", pendingPopLevels = 2
                PROVE  /\ Len(stack) >= 2
                       /\ stack[Len(stack) - 1].kind = "Reader"
                       /\ stack[Len(stack) - 1].id = current.ref
    BY DEF JumpLandsOnReader
  <2>1. current # NoScreen /\ current.kind = "PageJump"
    BY DEF IInv, Waiting
  <2>. QED
    BY <2>1, PageJumpOnReader
<1>. QED
  BY <1>1, InvariantHolds, PTL

\* goHome, showMessage and the recovery picker never destroy a covered screen
\* without its onExit, although applyPending would let them.
THEOREM ReplaceSafe == Spec => []ReplaceAtRoot
<1>1. IInv => ReplaceAtRoot
  BY DEF IInv, Waiting, ReplaceAtRoot
<1>. QED
  BY <1>1, InvariantHolds, PTL

\* When a tick ends the panel shows the current screen as it is, whatever was
\* pushed, popped or replaced in it (ScreenManager::loop).
THEOREM PanelSafe == Spec => []PanelCurrent
<1>1. IInv => PanelCurrent
  BY DEF IInv, Control, PanelCurrent
<1>. QED
  BY <1>1, InvariantHolds, PTL

\* The screens from the bottom up, and how each was opened.
LEMMA ColumnShape ==
  ASSUME IInv
  PROVE  /\ Column \in Seq(Screen) /\ DOMAIN Column = 1..Len(Column)
         /\ Len(Column) \in Nat
         /\ \A i \in 1..Len(Column) :
              IF i = 1 THEN Root(Column[i]) ELSE Fits(Column[i - 1], Column[i])
         /\ WifiOpen <=> \E i \in 1..Len(Column) : Column[i].kind = "WifiList"
<1>1. stack \in Seq(Screen) /\ Len(stack) \in Nat
  BY LenProperties DEF IInv, TypeOK, ManagerTypeOK
<1>2. CASE current = NoScreen
  <2>1. Column = stack
    BY <1>2 DEF Column
  <2>2. DOMAIN stack = 1..Len(stack)
    BY <1>1, LenProperties
  <2>. QED
    BY <1>1, <1>2, <2>1, <2>2 DEF IInv, Covered, WifiOpen
<1>3. CASE current # NoScreen
  <2>1. current \in Screen /\ Column = Append(stack, current)
    BY <1>3 DEF IInv, TypeOK, ManagerTypeOK, Column
  <2>2. /\ Column \in Seq(Screen)
        /\ Len(Column) = Len(stack) + 1
        /\ \A i \in 1..Len(stack) : Column[i] = stack[i]
        /\ Column[Len(stack) + 1] = current
    BY <1>1, <2>1, AppendProperties
  <2>3. DOMAIN Column = 1..Len(Column)
    BY <2>2, LenProperties
  <2>4. ASSUME NEW i \in 1..Len(Column)
        PROVE  IF i = 1 THEN Root(Column[i]) ELSE Fits(Column[i - 1], Column[i])
    <3>1. CASE i \in 1..Len(stack)
      <4>1. Column[i] = stack[i] /\ (i # 1 => Column[i - 1] = stack[i - 1])
        BY <1>1, <2>2, <3>1
      <4>. QED
        BY <3>1, <4>1 DEF IInv, Covered
    <3>2. CASE i = Len(stack) + 1
      <4>1. i = 1 <=> stack = <<>>
        BY <1>1, <3>2, EmptySeq
      <4>2. i # 1 => Column[i - 1] = stack[Len(stack)]
        BY <1>1, <2>2, <3>2
      <4>. QED
        BY <1>3, <2>2, <3>2, <4>1, <4>2 DEF IInv, Top
    <3>. QED
      BY <1>1, <2>2, <3>1, <3>2
  <2>5. WifiOpen <=> \E i \in 1..Len(Column) : Column[i].kind = "WifiList"
    <3>1. \A i \in 1..Len(Column) : i = Len(stack) + 1 \/ i \in 1..Len(stack)
      BY <1>1, <2>2
    <3>2. \A i \in 1..Len(stack) : i \in 1..Len(Column)
      BY <1>1, <2>2
    <3>3. Len(stack) + 1 \in 1..Len(Column)
      BY <1>1, <2>2
    <3>. QED
      BY <1>3, <2>2, <3>1, <3>2, <3>3 DEF WifiOpen
  <2>. QED
    BY <1>1, <2>2, <2>3, <2>4, <2>5
<1>. QED
  BY <1>2, <1>3

\* Every screen covers the one that opened it, at any depth.
THEOREM LineageSafe == Spec => []Lineage
<1>1. IInv => Lineage
  <2>. SUFFICES ASSUME IInv PROVE Lineage
    OBVIOUS
  <2>1. current = NoScreen => stack = <<>>
    BY DEF IInv, Top
  <2>2. ASSUME NEW i \in DOMAIN Column
        PROVE  IF i = 1 THEN Column[i].kind \in Roots
                        ELSE Opens(Column[i - 1].kind, Column[i].kind)
    BY <2>2, ColumnShape DEF Root, Fits
  <2>. QED
    BY <2>1, <2>2 DEF Lineage
<1>. QED
  BY <1>1, InvariantHolds, PTL

\* The radio is on exactly during a Wi-Fi visit, and the page buffer is never
\* allocated beside it (WifiSession::begin, WifiSession::end).
THEOREM SessionSafe == Spec => []SessionOwnsHeap
<1>1. IInv => SessionOwnsHeap
  <2>. SUFFICES ASSUME IInv PROVE SessionOwnsHeap
    OBVIOUS
  <2>1. WifiOpen <=> \E i \in DOMAIN Column : Column[i].kind = "WifiList"
    BY ColumnShape
  <2>2. (radio <=> WifiOpen) /\ (radio => ~scratch)
    BY DEF IInv, Session
  <2>. QED
    BY <2>1, <2>2 DEF SessionOwnsHeap
<1>. QED
  BY <1>1, InvariantHolds, PTL

\* A screen that keeps a reference to another finds it alive below it.
LEMMA ReferenceBelow ==
  ASSUME IInv, NEW i \in 1..Len(Column), Column[i].ref # NoId
  PROVE  \E j \in 1..Len(Column) :
           /\ Column[j].id = Column[i].ref
           /\ Column[j].kind = RefKind(Column[i].kind)
           /\ Column[j].kind # Column[i].kind
<1>. DEFINE c == Column
<1>1. /\ Len(c) \in Nat
      /\ \A k \in 1..Len(c) : IF k = 1 THEN Root(c[k]) ELSE Fits(c[k - 1], c[k])
  BY ColumnShape
<1>2. i # 1 /\ i - 1 \in 1..Len(c) /\ Fits(c[i - 1], c[i])
  BY <1>1 DEF Root
<1>3. CASE c[i].kind \in {"Chapters", "Keyboard"}
  <2>1. c[i - 1].id = c[i].ref /\ Opens(c[i - 1].kind, c[i].kind)
    BY <1>2, <1>3 DEF Fits
  <2>2. c[i - 1].kind = RefKind(c[i].kind) /\ c[i - 1].kind # c[i].kind
    BY <1>3, <2>1 DEF Opens, RefKind
  <2>. QED
    BY <1>2, <2>1, <2>2
<1>4. CASE c[i].kind = "PageJump"
  <2>1. c[i - 1].kind = "Chapters" /\ c[i - 1].ref = c[i].ref
    BY <1>2, <1>4 DEF Fits, Opens
  <2>2. i - 1 # 1 /\ (i - 1) - 1 \in 1..Len(c) /\ Fits(c[(i - 1) - 1], c[i - 1])
    <3>1. i - 1 # 1
      BY <1>1, <1>2, <2>1 DEF Root, Roots
    <3>2. (i - 1) - 1 \in 1..Len(c)
      BY <1>1, <1>2, <3>1
    <3>. QED
      BY <1>1, <1>2, <3>1, <3>2
  <2>3. c[(i - 1) - 1].kind = "Reader" /\ c[(i - 1) - 1].id = c[i - 1].ref
    BY <2>1, <2>2 DEF Fits, Opens
  <2>. QED
    BY <1>4, <2>1, <2>2, <2>3 DEF RefKind
<1>. QED
  BY <1>2, <1>3, <1>4 DEF Fits

\* The references that ChapterSelectionScreen, PageJumpScreen and KeyboardScreen
\* keep never dangle, also while such a screen waits to be pushed.
THEOREM ReferencesSafe == Spec => []RefsAlive
<1>1. IInv => RefsAlive
  <2>. SUFFICES ASSUME IInv, NEW s \in Live, s.ref # NoId
                PROVE  \E t \in Live \ {s} : t.id = s.ref /\ t.kind = RefKind(s.kind)
    BY DEF RefsAlive
  <2>1. /\ Column \in Seq(Screen) /\ Len(Column) \in Nat
        /\ stack \in Seq(Screen) /\ Len(stack) \in Nat /\ DOMAIN stack = 1..Len(stack)
    BY ColumnShape, LenProperties DEF IInv, TypeOK, ManagerTypeOK
  <2>2. \A i \in 1..Len(Column) : Column[i] \in Live
    <3>1. CASE current = NoScreen
      BY <2>1, <3>1 DEF Column, Live
    <3>2. CASE current # NoScreen
      <4>1. current \in Screen
        BY <3>2 DEF IInv, TypeOK, ManagerTypeOK
      <4>2. /\ Len(Column) = Len(stack) + 1
            /\ \A i \in 1..Len(stack) : Column[i] = stack[i]
            /\ Column[Len(stack) + 1] = current
        BY <2>1, <3>2, <4>1, AppendProperties DEF Column
      <4>. QED
        BY <2>1, <3>2, <4>2 DEF Live
    <3>. QED
      BY <3>1, <3>2
  <2>3. CASE \E i \in 1..Len(Column) : s = Column[i]
    <3>1. PICK i \in 1..Len(Column) : s = Column[i]
      BY <2>3
    <3>2. PICK j \in 1..Len(Column) :
            /\ Column[j].id = s.ref
            /\ Column[j].kind = RefKind(s.kind)
            /\ Column[j].kind # s.kind
      BY <3>1, ReferenceBelow
    <3>. QED
      BY <2>2, <3>2
  <2>4. CASE ~\E i \in 1..Len(Column) : s = Column[i]
    <3>1. s = pending /\ pending # NoScreen
      <4>1. CASE current = NoScreen
        BY <2>1, <2>4, <4>1 DEF Column, Live
      <4>2. CASE current # NoScreen
        <5>1. current \in Screen
          BY <4>2 DEF IInv, TypeOK, ManagerTypeOK
        <5>2. /\ Len(Column) = Len(stack) + 1
              /\ \A i \in 1..Len(stack) : Column[i] = stack[i]
              /\ Column[Len(stack) + 1] = current
          BY <2>1, <4>2, <5>1, AppendProperties DEF Column
        <5>3. Len(stack) + 1 \in 1..Len(Column) /\ \A i \in 1..Len(stack) : i \in 1..Len(Column)
          BY <2>1, <5>2
        <5>. QED
          BY <2>1, <2>4, <5>2, <5>3 DEF Live
      <4>. QED
        BY <4>1, <4>2
    <3>2. current # NoScreen /\ Fits(current, pending) /\ pending.ref # NoId
      <4>1. pendingAction \in Actions
        BY DEF IInv, TypeOK, ManagerTypeOK
      <4>. QED
        BY <3>1, <4>1 DEF Actions, IInv, Waiting, Root
    <3>3. CASE pending.kind \in {"Chapters", "Keyboard"}
      <4>1. current.id = pending.ref /\ Opens(current.kind, pending.kind)
        BY <3>2, <3>3 DEF Fits
      <4>2. current.kind = RefKind(pending.kind) /\ current.kind # pending.kind
        BY <3>3, <4>1 DEF Opens, RefKind
      <4>3. current \in Live
        BY <3>2 DEF Live
      <4>. QED
        BY <3>1, <4>1, <4>2, <4>3
    <3>4. CASE pending.kind = "PageJump"
      <4>1. current.kind = "Chapters" /\ current.ref = pending.ref
        BY <3>2, <3>4 DEF Fits, Opens
      <4>2. stack # <<>> /\ Fits(stack[Len(stack)], current)
        BY <3>2, <4>1 DEF IInv, Top, Root, Roots
      <4>3. stack[Len(stack)].id = pending.ref /\ stack[Len(stack)].kind = "Reader"
        BY <4>1, <4>2 DEF Fits, Opens
      <4>4. stack[Len(stack)] \in Live
        BY <2>1, <4>2, EmptySeq DEF Live
      <4>. QED
        BY <3>1, <3>4, <4>3, <4>4 DEF RefKind
    <3>. QED
      BY <3>2, <3>3, <3>4 DEF Fits
  <2>. QED
    BY <2>3, <2>4
<1>. QED
  BY <1>1, InvariantHolds, PTL

=============================================================================
