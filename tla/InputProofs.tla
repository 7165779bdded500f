---------------------------- MODULE InputProofs ----------------------------
(***************************************************************************)
(* Proofs about module Input, for any size of the tap counters.            *)
(***************************************************************************)
EXTENDS Input, TLAPS

\* The two properties are inductive with the types.  LatchExact in parts: what is
\* queued, what is latched for this tick, what a tick may lose.
Queued ==
  /\ "Confirm" \in owed <=> pendingConfirmTaps > 0
  /\ "Back" \in owed <=> pendingCancelTaps > 0

Latched ==
  pc = "loop" =>
    /\ confirmLatched <=> "Confirm" \in asked
    /\ backLatched <=> "Back" \in asked

LostByPower == pc # "loop" /\ asked # {} => wake = "consumed" \/ "Power" \in released

LEMMA LatchParts == LatchExact <=> Queued /\ Latched /\ LostByPower
  BY DEF LatchExact, Queued, Latched, LostByPower

IInv == TypeOK /\ ReaderTapsCountAlike /\ Queued /\ Latched /\ LostByPower

\* A frame's step is one forward, one back, both or none.
LEMMA StepIsBump ==
  ASSUME NEW edges \in SUBSET Keys, screen \in {"Reader", "List"},
         screen = "List" => ~edgeSides
  PROVE  AskedStep(edges) =
           (IF edges \cap {"Down", "Right"} # {} \/ (edgeSides /\ "Up" \in edges) THEN 1 ELSE 0)
           - (IF "Left" \in edges \/ (~edgeSides /\ "Up" \in edges) THEN 1 ELSE 0)
<1>. DEFINE F == edges \cap {"Down", "Right"} # {}
            G == edges \cap {"Down", "Right", "Up"} # {}
            L == edges \cap {"Left"} # {}
            M == edges \cap {"Up", "Left"} # {}
<1>1. /\ G <=> F \/ "Up" \in edges
      /\ L <=> "Left" \in edges
      /\ M <=> "Left" \in edges \/ "Up" \in edges
  OBVIOUS
<1>2. CASE edgeSides
  <2>1. AskedStep(edges) = (IF G THEN 1 ELSE 0) - (IF L THEN 1 ELSE 0)
    BY <1>2 DEF AskedStep, ReaderStep, Step
  <2>. QED
    BY <1>1, <1>2, <2>1
<1>3. CASE ~edgeSides
  <2>1. AskedStep(edges) = (IF F THEN 1 ELSE 0) - (IF M THEN 1 ELSE 0)
    BY <1>3 DEF AskedStep, ReaderStep, NavigationStep, Step
  <2>. QED
    BY <1>1, <1>3, <2>1
<1>. QED
  BY <1>2, <1>3

\* The invariant in parts that speak of the same variables.
Counters ==
  /\ pendingForwardTaps \in 0..MaxTaps
  /\ pendingBackTaps \in 0..MaxTaps
  /\ pendingConfirmTaps \in 0..MaxTaps
  /\ pendingCancelTaps \in 0..MaxTaps

\* The invariant holds at first.
LEMMA InitInvariant == Init => IInv
<1>. SUFFICES ASSUME Init PROVE IInv
  OBVIOUS
<1>1. Counters
  BY InputAssumption DEF Init, Counters
<1>2. TypeOK
  <2>1. /\ pc \in {"tick", "loop", "apply", "render", "refresh"}
        /\ screen \in Screens /\ meant \in Int
        /\ released \in SUBSET Keys /\ wake \in {"awaited", "consumed", "done"}
        /\ owed \in SUBSET {"Confirm", "Back"} /\ asked \in SUBSET {"Confirm", "Back"}
    BY DEF Init, Screens
  <2>2. /\ edgeSides \in BOOLEAN /\ confirmLatched \in BOOLEAN /\ backLatched \in BOOLEAN
    BY DEF Init
  <2>. QED
    BY <1>1, <2>1, <2>2 DEF TypeOK, Counters
<1>3. ReaderTapsCountAlike /\ Queued /\ Latched /\ LostByPower
  BY DEF Init, ReaderTapsCountAlike, Queued, Latched, LostByPower
<1>. QED
  BY <1>2, <1>3 DEF IInv

\* A slice of a refresh counts what it saw, once per direction.
LEMMA PollKeepsInvariant ==
  ASSUME IInv, NEW edges \in SUBSET Keys, BusyWaitPoll(edges)
  PROVE  IInv'
<1>1. /\ pc = "refresh" /\ pc' = pc /\ edgeSides' = edgeSides /\ screen' = screen
      /\ confirmLatched' = confirmLatched /\ backLatched' = backLatched
      /\ asked' = asked /\ wake' = wake
      /\ released' = released /\ owed' = owed \cup (edges \cap {"Confirm", "Back"})
  BY DEF BusyWaitPoll, latches
<1>2. Counters
  BY DEF IInv, TypeOK, Counters
<1>3. Counters'
  BY <1>2 DEF BusyWaitPoll, Counters, Bump
<1>4. AskedStep(edges) \in Int
  BY DEF AskedStep, ReaderStep, NavigationStep, Step
<1>5. meant' \in Int
  BY <1>4 DEF IInv, TypeOK, BusyWaitPoll
<1>6. TypeOK'
  BY <1>1, <1>3, <1>5 DEF IInv, TypeOK, Counters
<1>7. ReaderTapsCountAlike'
  <2>. SUFFICES ASSUME screen = "Reader" \/ (screen = "List" /\ ~edgeSides)
                PROVE  pendingForwardTaps' - pendingBackTaps' = meant'
    BY <1>1 DEF ReaderTapsCountAlike
  <2>1. pendingForwardTaps - pendingBackTaps = meant
    BY DEF IInv, ReaderTapsCountAlike
  <2>2. AskedStep(edges) =
           (IF edges \cap {"Down", "Right"} # {} \/ (edgeSides /\ "Up" \in edges) THEN 1 ELSE 0)
           - (IF "Left" \in edges \/ (~edgeSides /\ "Up" \in edges) THEN 1 ELSE 0)
    BY StepIsBump
  <2>. QED
    BY <1>2, <2>1, <2>2 DEF BusyWaitPoll, Counters, Bump
<1>8. Queued'
  <2>1. /\ pendingConfirmTaps' > 0 <=> (pendingConfirmTaps > 0 \/ "Confirm" \in edges)
        /\ pendingCancelTaps' > 0 <=> (pendingCancelTaps > 0 \/ "Back" \in edges)
    BY <1>2 DEF BusyWaitPoll, Counters, Bump
  <2>. QED
    BY <1>1, <2>1 DEF IInv, Queued
<1>9. Latched' /\ LostByPower'
  BY <1>1 DEF IInv, Latched, LostByPower
<1>. QED
  BY <1>6, <1>7, <1>8, <1>9 DEF IInv

\* The latches of a tick are set by exactly the releases it has to answer.
LEMMA UpdateKeepsInvariant ==
  ASSUME IInv, NEW edges \in SUBSET Keys, Update(edges)
  PROVE  IInv'
<1>1. /\ pc' = "loop" /\ edgeSides' = edgeSides /\ screen' = screen /\ released' = edges
      /\ pendingForwardTaps' = pendingForwardTaps /\ pendingBackTaps' = pendingBackTaps
      /\ meant' = meant
      /\ wake' = (IF wake = "consumed" THEN "done" ELSE wake)
      /\ asked' = owed \cup (edges \cap {"Confirm", "Back"}) /\ owed' = owed \cap edges
  BY DEF Update, AnswersOwed
<1>2. Counters
  BY DEF IInv, TypeOK, Counters
<1>3. Counters'
  <2>1. 0 \in 0..MaxTaps
    BY InputAssumption
  <2>2. pendingConfirmTaps' \in {pendingConfirmTaps, 0}
    BY DEF Update
  <2>3. pendingCancelTaps' \in {pendingCancelTaps, 0}
    BY DEF Update
  <2>. QED
    BY <1>1, <1>2, <2>1, <2>2, <2>3 DEF Counters
<1>4. /\ confirmLatched' <=> "Confirm" \in edges \/ "Confirm" \in owed
      /\ backLatched' <=> "Back" \in edges \/ "Back" \in owed
  BY DEF Update, IInv, Queued
<1>5. confirmLatched' \in BOOLEAN /\ backLatched' \in BOOLEAN
  BY DEF Update
<1>6. TypeOK'
  BY <1>1, <1>3, <1>5 DEF IInv, TypeOK, Counters
<1>7. ReaderTapsCountAlike'
  BY <1>1 DEF IInv, ReaderTapsCountAlike
<1>8. Latched' /\ LostByPower'
  BY <1>1, <1>4 DEF Latched, LostByPower
<1>9. Queued'
  <2>1. pendingConfirmTaps' > 0 <=> pendingConfirmTaps > 0 /\ "Confirm" \in edges
    BY <1>2 DEF Update, Counters
  <2>2. pendingCancelTaps' > 0 <=> pendingCancelTaps > 0 /\ "Back" \in edges
    BY <1>2 DEF Update, Counters
  <2>. QED
    BY <1>1, <2>1, <2>2 DEF IInv, Queued
<1>. QED
  BY <1>6, <1>7, <1>8, <1>9 DEF IInv

\* A screen that takes over starts with empty counters.
LEMMA TakeOverKeepsInvariant ==
  ASSUME IInv, FirstScreen \/ ApplyPending
  PROVE  IInv'
<1>1. /\ pc' = pc \/ (pc = "apply" /\ pc' = "render")
      /\ wake' = wake /\ screen' \in Screens /\ edgeSides' = edgeSides /\ released' = released
      /\ confirmLatched' = confirmLatched /\ backLatched' = backLatched /\ asked' = asked
      /\ meant' = 0 /\ owed' = {}
      /\ pendingForwardTaps' = 0 /\ pendingBackTaps' = 0
      /\ pendingConfirmTaps' = 0 /\ pendingCancelTaps' = 0
  BY DEF FirstScreen, ApplyPending, TakeOver, ResetPendingPageTaps, latches
<1>3. Counters'
  BY <1>1, InputAssumption DEF Counters
<1>4. TypeOK'
  <2>1. /\ pc' \in {"tick", "loop", "apply", "render", "refresh"}
        /\ meant' \in Int /\ owed' \in SUBSET {"Confirm", "Back"}
    BY <1>1 DEF IInv, TypeOK
  <2>. QED
    BY <1>1, <1>3, <2>1 DEF IInv, TypeOK, Counters
<1>5. ReaderTapsCountAlike' /\ Queued'
  BY <1>1 DEF ReaderTapsCountAlike, Queued
<1>6. Latched' /\ LostByPower'
  BY <1>1 DEF IInv, Latched, LostByPower
<1>. QED
  BY <1>4, <1>5, <1>6 DEF IInv

\* A handler drains the page taps or leaves every counter alone.
LEMMA HandlerKeepsInvariant ==
  ASSUME IInv, Handler
  PROVE  IInv'
<1>1. /\ pc' \in {"apply", "render"}
      /\ screen' = screen /\ edgeSides' = edgeSides /\ released' = {} /\ wake' = wake
      /\ confirmLatched' = confirmLatched /\ backLatched' = backLatched
      /\ asked' = {} /\ owed' = owed
      /\ pendingConfirmTaps' = pendingConfirmTaps /\ pendingCancelTaps' = pendingCancelTaps
  BY DEF Handler, ReaderLoop, ListLoop, DeafLoop, NoLoop, Navigate, Remain, Consume, KeepTaps,
         taps, latches
<1>2. \/ pendingForwardTaps' = pendingForwardTaps /\ pendingBackTaps' = pendingBackTaps
         /\ meant' = meant
      \/ pendingForwardTaps' = 0 /\ pendingBackTaps' = 0 /\ meant' = 0
  BY DEF Handler, ReaderLoop, ListLoop, DeafLoop, NoLoop, Consume, KeepTaps, taps
<1>3. Counters
  BY DEF IInv, TypeOK, Counters
<1>4. Counters'
  BY <1>1, <1>2, <1>3, InputAssumption DEF Counters
<1>5. meant' \in Int
  BY <1>2 DEF IInv, TypeOK
<1>6. TypeOK'
  BY <1>1, <1>4, <1>5 DEF IInv, TypeOK, Counters
<1>7. ReaderTapsCountAlike'
  BY <1>1, <1>2 DEF IInv, ReaderTapsCountAlike
<1>8. Queued' /\ Latched' /\ LostByPower'
  BY <1>1 DEF IInv, Queued, Latched, LostByPower
<1>. QED
  BY <1>6, <1>7, <1>8 DEF IInv

\* A tick that ends early keeps what it was asked, as lost.
LEMMA DropKeepsInvariant ==
  ASSUME IInv, DropTick
  PROVE  IInv'
<1>1. /\ pc' = "tick"
      /\ UNCHANGED <<edgeSides, screen, released, taps, latches, history>>
      /\ \/ wake' = "consumed"
         \/ wake' = wake /\ "Power" \in released
  BY DEF DropTick
<1>2. TypeOK'
  BY <1>1 DEF IInv, TypeOK, taps, latches, history
<1>3. ReaderTapsCountAlike' /\ Queued'
  BY <1>1 DEF IInv, ReaderTapsCountAlike, Queued, taps, history
<1>4. Latched' /\ LostByPower'
  BY <1>1 DEF Latched, LostByPower
<1>. QED
  BY <1>2, <1>3, <1>4 DEF IInv

\* The steps that touch neither counters nor latches.
LEMMA PhaseKeepsInvariant ==
  ASSUME IInv, RefreshEnds \/ Render \/ UNCHANGED vars
  PROVE  IInv'
<1>1. /\ pc' = pc \/ (pc \in {"refresh", "render"} /\ pc' \in {"tick", "refresh"})
      /\ UNCHANGED <<edgeSides, screen, wake, released, taps, latches, history>>
  BY DEF RefreshEnds, Render, vars
<1>2. TypeOK'
  BY <1>1 DEF IInv, TypeOK, taps, latches, history
<1>3. ReaderTapsCountAlike' /\ Queued'
  BY <1>1 DEF IInv, ReaderTapsCountAlike, Queued, taps, history
<1>4. Latched' /\ LostByPower'
  BY <1>1 DEF IInv, Latched, LostByPower, latches, history
<1>. QED
  BY <1>2, <1>3, <1>4 DEF IInv

\* The invariant holds always.
LEMMA InvariantHolds == Spec => []IInv
<1>1. Init => IInv
  BY InitInvariant
<1>2. IInv /\ [Next]_vars => IInv'
  BY PollKeepsInvariant, UpdateKeepsInvariant, TakeOverKeepsInvariant, HandlerKeepsInvariant,
     DropKeepsInvariant, PhaseKeepsInvariant DEF Next
<1>. QED
  BY <1>1, <1>2, PTL DEF Spec

\* Every variable stays in its type: the counters and latches of MappedInput, the
\* debt the history keeps, the page and the rows.
THEOREM TypeCorrect == Spec => []TypeOK
<1>1. IInv => TypeOK
  BY DEF IInv
<1>. QED
  BY <1>1, InvariantHolds, PTL

\* Whatever is tapped during refreshes, a reader on either board and a list on
\* an X4 move as far as if the taps had been live (MappedInput::busyWaitPoll).
THEOREM ReaderTapsSafe == Spec => []ReaderTapsCountAlike
<1>1. IInv => ReaderTapsCountAlike
  BY DEF IInv
<1>. QED
  BY <1>1, InvariantHolds, PTL

\* A Confirm or Back release is queued, or latched for the one screen that sees it, or
\* was lost with a tick the power key ended (MappedInput::update, loop of main.cpp).
THEOREM LatchSafe == Spec => []LatchExact
<1>1. IInv => LatchExact
  BY LatchParts DEF IInv
<1>. QED
  BY <1>1, InvariantHolds, PTL

=============================================================================
