---------------------------- MODULE PowerProofs ----------------------------
(***************************************************************************)
(* Proofs about Power: what the press that wakes the device may do, where  *)
(* the CPU may run slow, and what the gyroscope lock stops, for any times, *)
(* settings and bounds.                                                    *)
(***************************************************************************)
EXTENDS Power, TLAPS

\* What is needed of the types: the history variables are conditions.
Conditions ==
  /\ wakePress \in BOOLEAN
  /\ wakeActed \in BOOLEAN
  /\ wakeRelease \in BOOLEAN
  /\ releasedSinceWake \in BOOLEAN
  /\ powerDown \in BOOLEAN

\* Why the waking press is inert.  As long as it lasts its release is awaited, and
\* no release has been noted; when it is over but not yet dealt with, it is still
\* awaited, so that consumeWakeRelease() ends the tick before the lock is looked at.
PressInv ==
  /\ ~wakeActed
  /\ pc = "off" => ~releasedSinceWake
  /\ wakePress /\ powerDown => wakeRelease /\ ~releasedSinceWake
  /\ wakePress /\ powerEdge = "released" /\ pc \in {"consumeWakeRelease", "maybeToggleTiltLock"}
       => wakeRelease

\* The speed is normal before a screen is chosen at power-up; what leaves the reader is
\* painted, which restores the speed or fails to.
SlowInv ==
  /\ isLowPower => screen = "Reader" \/ restoreFailed
  /\ pc = "off" => ~isLowPower

----------------------------------------------------------------------------
\* The steps of Next by name, without the bounds of what they observe.
LEMMA OtherSteps ==
  ASSUME Next
  PROVE  \/ WakeByPowerKey
         \/ Restart
         \/ \E down, other \in BOOLEAN, dt \in 0..1 : Update(down, other, dt)
         \/ \E down, other \in BOOLEAN, dt \in 0..1 : BusyWaitPoll(down, other, dt)
         \/ RefreshEnds \/ ConsumeWakeRelease \/ MaybeToggleTiltLock \/ TiltUpdate
         \/ NoteUserActivity \/ MaybeSleep \/ ScreensLoop \/ ScreensRestart \/ IdleDelay
BY DEF Next, TimePasses

\* Every step keeps the conditions Boolean.
LEMMA ConditionsStep ==
  ASSUME Conditions, [Next]_vars
  PROVE  Conditions'
<1> USE DEF Conditions
<1>1. CASE WakeByPowerKey BY <1>1 DEF WakeByPowerKey
<1>2. CASE Restart BY <1>2 DEF Restart, keys, wake, history
<1>3. ASSUME NEW down \in BOOLEAN, NEW other \in BOOLEAN, NEW dt \in 0..1, Update(down, other, dt)
      PROVE  Conditions'
  BY <1>3 DEF Update, Sample, wake
<1>4. ASSUME NEW down \in BOOLEAN, NEW other \in BOOLEAN, NEW dt \in 0..1, BusyWaitPoll(down, other, dt)
      PROVE  Conditions'
  BY <1>4 DEF BusyWaitPoll, Sample, wake
<1>5. CASE RefreshEnds BY <1>5 DEF RefreshEnds, keys, wake, history
<1>6. CASE ConsumeWakeRelease BY <1>6 DEF ConsumeWakeRelease, keys, history
<1>7. CASE MaybeToggleTiltLock BY <1>7 DEF MaybeToggleTiltLock, keys, wake
<1>8. CASE TiltUpdate BY <1>8 DEF TiltUpdate, keys, wake, history
<1>9. CASE NoteUserActivity BY <1>9 DEF NoteUserActivity, keys, history
<1>10. CASE MaybeSleep BY <1>10 DEF MaybeSleep, EnterDeepSleep, GoesDown, keys, wake, history
<1>11. CASE ScreensLoop BY <1>11 DEF ScreensLoop, wake, history
<1>12. CASE ScreensRestart BY <1>12 DEF ScreensRestart, GoesDown
<1>13. CASE IdleDelay BY <1>13 DEF IdleDelay, keys, wake, history
<1>14. CASE UNCHANGED vars BY <1>14 DEF vars, keys, wake, history
<1>15. QED
  BY <1>1, <1>2, <1>3, <1>4, <1>5, <1>6, <1>7, <1>8, <1>9, <1>10, <1>11, <1>12, <1>13, <1>14, OtherSteps

\* Every step keeps the waking press inert.
LEMMA PressStep ==
  ASSUME Conditions, PressInv, [Next]_vars
  PROVE  PressInv'
<1> USE DEF PressInv
<1>1. CASE WakeByPowerKey BY <1>1 DEF WakeByPowerKey
<1>2. CASE Restart BY <1>2 DEF Restart, keys, wake, history
<1>3. ASSUME NEW down \in BOOLEAN, NEW other \in BOOLEAN, NEW dt \in 0..1, Update(down, other, dt)
      PROVE  PressInv'
  BY <1>3 DEF Update, Sample, wake, Conditions
<1>4. ASSUME NEW down \in BOOLEAN, NEW other \in BOOLEAN, NEW dt \in 0..1, BusyWaitPoll(down, other, dt)
      PROVE  PressInv'
  BY <1>4 DEF BusyWaitPoll, Sample, wake, Conditions
<1>5. CASE RefreshEnds BY <1>5 DEF RefreshEnds, keys, wake, history
<1>6. CASE ConsumeWakeRelease BY <1>6 DEF ConsumeWakeRelease, keys, history
<1>7. CASE MaybeToggleTiltLock
  \* The toggle needs a release that is not awaited: not that of the waking press.
  <2>1. pc = "maybeToggleTiltLock" /\ UNCHANGED <<powerDown, powerEdge, wakeRelease, releasedSinceWake,
                                                  wakePress>>
    BY <1>7 DEF MaybeToggleTiltLock, keys, wake
  <2>2. pc' \in {"tiltUpdate", "update"}
    BY <1>7, Zenon DEF MaybeToggleTiltLock
  <2>3. \/ wakeActed' = wakeActed
        \/ ~wakeRelease /\ powerEdge = "released" /\ (wakeActed' <=> wakeActed \/ wakePress)
    BY <1>7, Zenon DEF MaybeToggleTiltLock
  <2>4. QED BY <2>1, <2>2, <2>3
<1>8. CASE TiltUpdate BY <1>8 DEF TiltUpdate, keys, wake, history
<1>9. CASE NoteUserActivity BY <1>9 DEF NoteUserActivity, keys, history
<1>10. CASE MaybeSleep
  <2> DEFINE hold == releasedSinceWake /\ allowIn = 0 /\ powerDown /\ held > Short
  <2>1. CASE EnterDeepSleep /\ (wakeActed' <=> wakeActed \/ (hold /\ wakePress))
    <3>1. hold => releasedSinceWake /\ powerDown BY Zenon DEF hold
    <3>2. ~(hold /\ wakePress) BY <3>1, Zenon
    <3> HIDE DEF hold
    <3>3. ~wakeActed' BY <2>1, <3>2, Zenon
    <3>4. QED BY <2>1, <3>3 DEF EnterDeepSleep, GoesDown
  <2>2. CASE /\ pc' = "screens"
             /\ UNCHANGED <<keys, wake, history>>
    BY <2>2 DEF keys, wake, history
  <2>3. QED BY <1>10, <2>1, <2>2, Zenon DEF MaybeSleep, hold
<1>11. CASE ScreensLoop BY <1>11 DEF ScreensLoop, wake, history
<1>12. CASE ScreensRestart BY <1>12 DEF ScreensRestart, GoesDown
<1>13. CASE IdleDelay BY <1>13 DEF IdleDelay, keys, wake, history
<1>14. CASE UNCHANGED vars BY <1>14 DEF vars, keys, wake, history
<1>15. QED
  BY <1>1, <1>2, <1>3, <1>4, <1>5, <1>6, <1>7, <1>8, <1>9, <1>10, <1>11, <1>12, <1>13, <1>14, OtherSteps

\* Every step keeps the slow CPU to the reader, or to a failure to restore it.
LEMMA SlowStep ==
  ASSUME SlowInv, [Next]_vars
  PROVE  SlowInv'
<1> USE DEF SlowInv, speed
<1>1. CASE WakeByPowerKey BY <1>1 DEF WakeByPowerKey
<1>2. CASE Restart BY <1>2 DEF Restart
<1>3. ASSUME NEW down \in BOOLEAN, NEW other \in BOOLEAN, NEW dt \in 0..1, Update(down, other, dt)
      PROVE  SlowInv'
  BY <1>3 DEF Update, Sample
<1>4. ASSUME NEW down \in BOOLEAN, NEW other \in BOOLEAN, NEW dt \in 0..1, BusyWaitPoll(down, other, dt)
      PROVE  SlowInv'
  BY <1>4 DEF BusyWaitPoll, Sample
<1>5. CASE RefreshEnds BY <1>5 DEF RefreshEnds
<1>6. CASE ConsumeWakeRelease BY <1>6 DEF ConsumeWakeRelease
<1>7. CASE MaybeToggleTiltLock BY <1>7 DEF MaybeToggleTiltLock
<1>8. CASE TiltUpdate BY <1>8 DEF TiltUpdate
<1>9. CASE NoteUserActivity BY <1>9 DEF NoteUserActivity, RestoreSpeed
<1>10. CASE MaybeSleep
  <2>1. CASE EnterDeepSleep BY <2>1 DEF EnterDeepSleep, GoesDown
  <2>2. CASE pc' = "screens" /\ UNCHANGED <<speed, screen>> BY <2>2
  <2>3. QED BY <1>10, <2>1, <2>2, Zenon DEF MaybeSleep
<1>11. CASE ScreensLoop BY <1>11 DEF ScreensLoop, AcquireLock, RestoreSpeed
<1>12. CASE ScreensRestart BY <1>12 DEF ScreensRestart, GoesDown
<1>13. CASE IdleDelay BY <1>13 DEF IdleDelay, SaveSpeed
<1>14. CASE UNCHANGED vars BY <1>14 DEF vars
<1>15. QED
  BY <1>1, <1>2, <1>3, <1>4, <1>5, <1>6, <1>7, <1>8, <1>9, <1>10, <1>11, <1>12, <1>13, <1>14, OtherSteps

\* No step that stays locked adds a gesture.
LEMMA LockStep ==
  ASSUME [Next]_vars, tiltLock, tiltLock'
  PROVE  tiltEvents' \subseteq tiltEvents
<1>1. CASE WakeByPowerKey BY <1>1 DEF WakeByPowerKey, imu
<1>2. CASE Restart BY <1>2 DEF Restart, imu
<1>3. ASSUME NEW down \in BOOLEAN, NEW other \in BOOLEAN, NEW dt \in 0..1, Update(down, other, dt)
      PROVE  tiltEvents' \subseteq tiltEvents
  BY <1>3 DEF Update, Sample, imu
<1>4. ASSUME NEW down \in BOOLEAN, NEW other \in BOOLEAN, NEW dt \in 0..1, BusyWaitPoll(down, other, dt)
      PROVE  tiltEvents' \subseteq tiltEvents
  BY <1>4 DEF BusyWaitPoll, Sample, imu
<1>5. CASE RefreshEnds BY <1>5 DEF RefreshEnds, imu
<1>6. CASE ConsumeWakeRelease BY <1>6 DEF ConsumeWakeRelease, imu
<1>7. CASE MaybeToggleTiltLock BY <1>7 DEF MaybeToggleTiltLock, SetTiltLock, SensorSleep, imu
<1>8. CASE TiltUpdate BY <1>8 DEF TiltUpdate, SensorSleep, imu
<1>9. CASE NoteUserActivity BY <1>9 DEF NoteUserActivity
<1>10. CASE MaybeSleep
  BY <1>10 DEF MaybeSleep, SetTiltLock, SensorSleep, EnterDeepSleep, GoesDown, imu
<1>11. CASE ScreensLoop BY <1>11 DEF ScreensLoop, ScreenLoop, imu
<1>12. CASE ScreensRestart BY <1>12 DEF ScreensRestart, GoesDown
<1>13. CASE IdleDelay BY <1>13 DEF IdleDelay, imu
<1>14. CASE UNCHANGED vars BY <1>14 DEF vars, imu
<1>15. QED
  BY <1>1, <1>2, <1>3, <1>4, <1>5, <1>6, <1>7, <1>8, <1>9, <1>10, <1>11, <1>12, <1>13, <1>14, OtherSteps

\* The rest of the type invariant: the times, and what is neither a time nor a condition.
Times ==
  /\ held \in 0..Short + 1
  /\ allowIn \in 0..WakeGuard
  /\ idle \in 0..IdleMax

Places ==
  /\ pc \in {"off", "restart"} \cup Calls
  /\ powerEdge \in {"none", "pressed", "released"}
  /\ tiltEvents \in SUBSET {"Forward", "Back"}
  /\ screen \in Screens
  /\ settings \in [tiltPageTurn : BOOLEAN, light : LightTimes, deep : DeepTimes]

Flags ==
  /\ otherEdge \in BOOLEAN
  /\ queued \in BOOLEAN
  /\ tiltLock \in BOOLEAN
  /\ isLowPower \in BOOLEAN
  /\ restoreFailed \in BOOLEAN
  /\ imuAwake \in BOOLEAN
  /\ tiltActivity \in BOOLEAN
  /\ unlocking \in BOOLEAN
  /\ relocked \in BOOLEAN

\* Every step keeps the times within their bounds.
LEMMA TimesStep ==
  ASSUME Times, [Next]_vars
  PROVE  Times'
<1> USE PowerAssumption DEF Times
<1>1. CASE WakeByPowerKey BY <1>1 DEF WakeByPowerKey, clock, keys
<1>2. CASE Restart BY <1>2 DEF Restart, clock, keys
<1>3. ASSUME NEW down \in BOOLEAN, NEW other \in BOOLEAN, NEW dt \in 0..1, Update(down, other, dt)
      PROVE  Times'
  BY <1>3 DEF Update, Sample, AtMost
<1>4. ASSUME NEW down \in BOOLEAN, NEW other \in BOOLEAN, NEW dt \in 0..1, BusyWaitPoll(down, other, dt)
      PROVE  Times'
  BY <1>4 DEF BusyWaitPoll, Sample, AtMost
<1>5. CASE RefreshEnds BY <1>5 DEF RefreshEnds, clock, keys
<1>6. CASE ConsumeWakeRelease BY <1>6 DEF ConsumeWakeRelease, clock, keys
<1>7. CASE MaybeToggleTiltLock BY <1>7 DEF MaybeToggleTiltLock, clock, keys
<1>8. CASE TiltUpdate BY <1>8 DEF TiltUpdate, clock, keys
<1>9. CASE NoteUserActivity BY <1>9 DEF NoteUserActivity, clock, keys
<1>10. CASE MaybeSleep
  <2>1. CASE EnterDeepSleep BY <2>1 DEF EnterDeepSleep, GoesDown
  <2>2. CASE UNCHANGED <<keys, clock>> BY <2>2 DEF keys, clock
  <2>3. QED BY <1>10, <2>1, <2>2, Zenon DEF MaybeSleep
<1>11. CASE ScreensLoop BY <1>11 DEF ScreensLoop, clock, keys
<1>12. CASE ScreensRestart BY <1>12 DEF ScreensRestart, GoesDown, clock, keys
<1>13. CASE IdleDelay BY <1>13 DEF IdleDelay, clock, keys
<1>14. CASE UNCHANGED vars BY <1>14 DEF vars, clock, keys
<1>15. QED
  BY <1>1, <1>2, <1>3, <1>4, <1>5, <1>6, <1>7, <1>8, <1>9, <1>10, <1>11, <1>12, <1>13, <1>14, OtherSteps

\* Every step leads to a known place and screen.
LEMMA PlacesStep ==
  ASSUME Places, [Next]_vars
  PROVE  Places'
<1> USE DEF Places, Calls, Screens
<1>1. CASE WakeByPowerKey BY <1>1 DEF WakeByPowerKey, keys, imu
<1>2. CASE Restart BY <1>2 DEF Restart, keys, imu
<1>3. ASSUME NEW down \in BOOLEAN, NEW other \in BOOLEAN, NEW dt \in 0..1, Update(down, other, dt)
      PROVE  Places'
  BY <1>3 DEF Update, Sample, keys, imu
<1>4. ASSUME NEW down \in BOOLEAN, NEW other \in BOOLEAN, NEW dt \in 0..1, BusyWaitPoll(down, other, dt)
      PROVE  Places'
  BY <1>4 DEF BusyWaitPoll, Sample, keys, imu
<1>5. CASE RefreshEnds BY <1>5 DEF RefreshEnds, keys, imu
<1>6. CASE ConsumeWakeRelease BY <1>6 DEF ConsumeWakeRelease, keys, imu
<1>7. CASE MaybeToggleTiltLock BY <1>7 DEF MaybeToggleTiltLock, keys, imu, SetTiltLock, SensorSleep
<1>8. CASE TiltUpdate BY <1>8 DEF TiltUpdate, keys, imu, SensorSleep, Gesture
<1>9. CASE NoteUserActivity BY <1>9 DEF NoteUserActivity, keys, imu
<1>10. CASE MaybeSleep BY <1>10 DEF MaybeSleep, EnterDeepSleep, GoesDown, keys, imu, SetTiltLock, SensorSleep
<1>11. CASE ScreensLoop BY <1>11 DEF ScreensLoop, keys, imu, ScreenLoop
<1>12. CASE ScreensRestart BY <1>12 DEF ScreensRestart, GoesDown, keys, imu
<1>13. CASE IdleDelay BY <1>13 DEF IdleDelay, keys, imu
<1>14. CASE UNCHANGED vars BY <1>14 DEF vars, keys, imu
<1>15. QED
  BY <1>1, <1>2, <1>3, <1>4, <1>5, <1>6, <1>7, <1>8, <1>9, <1>10, <1>11, <1>12, <1>13, <1>14, OtherSteps

\* Every step keeps the flags typed.
LEMMA FlagsStep ==
  ASSUME Flags, Conditions, [Next]_vars
  PROVE  Flags'
<1> USE DEF Flags, speed
<1>1. CASE WakeByPowerKey BY <1>1 DEF WakeByPowerKey, keys, imu, history
<1>2. CASE Restart BY <1>2 DEF Restart, keys, imu, history
<1>3. ASSUME NEW down \in BOOLEAN, NEW other \in BOOLEAN, NEW dt \in 0..1, Update(down, other, dt)
      PROVE  Flags'
  BY <1>3 DEF Update, Sample, keys, imu, history
<1>4. ASSUME NEW down \in BOOLEAN, NEW other \in BOOLEAN, NEW dt \in 0..1, BusyWaitPoll(down, other, dt)
      PROVE  Flags'
  BY <1>4 DEF BusyWaitPoll, Sample, keys, imu, history
<1>5. CASE RefreshEnds BY <1>5 DEF RefreshEnds, keys, imu, history
<1>6. CASE ConsumeWakeRelease BY <1>6 DEF ConsumeWakeRelease, keys, imu, history
<1>7. CASE MaybeToggleTiltLock BY <1>7 DEF MaybeToggleTiltLock, keys, imu, history, SetTiltLock, SensorSleep
<1>8. CASE TiltUpdate BY <1>8 DEF TiltUpdate, keys, imu, history, SensorSleep, Gesture
<1>9. CASE NoteUserActivity BY <1>9 DEF NoteUserActivity, RestoreSpeed, keys, imu, history
<1>10. CASE MaybeSleep BY <1>10 DEF MaybeSleep, EnterDeepSleep, GoesDown, keys, imu, history, SetTiltLock, SensorSleep
<1>11. CASE ScreensLoop BY <1>11 DEF ScreensLoop, AcquireLock, RestoreSpeed, keys, imu, history, ScreenLoop
<1>12. CASE ScreensRestart BY <1>12 DEF ScreensRestart, GoesDown, keys, imu, history
<1>13. CASE IdleDelay BY <1>13 DEF IdleDelay, SaveSpeed, keys, imu, history
<1>14. CASE UNCHANGED vars BY <1>14 DEF vars, keys, imu, history
<1>15. QED
  BY <1>1, <1>2, <1>3, <1>4, <1>5, <1>6, <1>7, <1>8, <1>9, <1>10, <1>11, <1>12, <1>13, <1>14, OtherSteps

----------------------------------------------------------------------------
\* The press that woke the device neither toggles the lock nor puts it back to
\* sleep (consumeWakeRelease, maybeToggleTiltLock, maybeSleep), whatever the
\* guard times and however presses, releases and refreshes interleave.
THEOREM WakePressSafe == Spec => []WakePressInert
<1>1. Init => Conditions /\ PressInv BY DEF Init, Conditions, PressInv
<1>2. Conditions /\ PressInv /\ [Next]_vars => (Conditions /\ PressInv)'
  BY ConditionsStep, PressStep
<1>3. PressInv => WakePressInert BY DEF PressInv, WakePressInert
<1>4. QED BY <1>1, <1>2, <1>3, PTL DEF Spec

\* The variables keep their types, and the counted times their bounds.
THEOREM TypeCorrect == Spec => []TypeOK
<1>1. Init => Conditions /\ Times /\ Places /\ Flags
  <2>1. Init => Conditions BY DEF Init, Conditions
  <2>2. Init => Times BY PowerAssumption DEF Init, Times
  <2>3. Init => Places BY DEF Init, Places, Screens
  <2>4. Init => Flags BY DEF Init, Flags
  <2>5. QED BY <2>1, <2>2, <2>3, <2>4
<1>2. Conditions /\ Times /\ Places /\ Flags /\ [Next]_vars => (Conditions /\ Times /\ Places /\ Flags)'
  BY ConditionsStep, TimesStep, PlacesStep, FlagsStep
<1>3. Conditions /\ Times /\ Places /\ Flags => TypeOK
  BY DEF Conditions, Times, Places, Flags, TypeOK
<1>4. QED BY <1>1, <1>2, <1>3, PTL DEF Spec

\* The CPU never runs slow outside the reader, unless the last attempt to restore its
\* frequency failed (idleDelay, HalPowerManager::Lock, setPowerSaving).
THEOREM SlowSafe == Spec => []SlowOnlyInReader
<1>1. Init => SlowInv BY DEF Init, SlowInv
<1>2. SlowInv /\ [Next]_vars => SlowInv' BY SlowStep
<1>3. SlowInv => SlowOnlyInReader BY DEF SlowInv, SlowOnlyInReader
<1>4. QED BY <1>1, <1>2, <1>3, PTL DEF Spec

\* No step taken under the lock adds a gesture (loop, HalTiltSensor::update).
THEOREM LockSafe == Spec => LockStopsGestures
<1>1. [Next]_vars => [tiltLock /\ tiltLock' => tiltEvents' \subseteq tiltEvents]_vars
  BY LockStep
<1>2. QED BY <1>1, PTL DEF Spec, LockStopsGestures

=============================================================================
