------------------------------- MODULE Power -------------------------------
(***************************************************************************)
(* Sleep, wake and the gyroscope lock: src/core/Power.{h,cpp} with the     *)
(* tilt sensor (lib/hal/HalTiltSensor.cpp), the CPU speed                  *)
(* (lib/hal/HalPowerManager.cpp) and the order in which loop() of          *)
(* src/main.cpp calls them.                                                *)
(*                                                                         *)
(* A tick is cut at each call of loop(), because a tick may end after any  *)
(* of the first three.  gpio.update() is the only step that sees the keys  *)
(* and lets time pass; a refresh makes it too, from the busy-wait hook,    *)
(* and the edges it sees are then gone.  The screens are reduced to three  *)
(* sorts: the reader, one that blocks sleep, and the others.               *)
(* suppressNextPowerShortPress is left out: nothing ever sets it.          *)
(***************************************************************************)
EXTENDS Naturals

CONSTANTS       \* times, in units of the model's clock
  Short,        \* longest short press of the power key (kShortPressMs)
  WakeGuard,    \* no hold-to-sleep for so long after waking
  Saving,       \* IDLE_POWER_SAVING_MS
  LightTimes,   \* settings of the idle time before the gyro lock, 0 = never
  DeepTimes,    \* settings of the idle time before deep sleep, 0 = never
  IdleMax       \* bound: the idle time is not counted further

ASSUME PowerAssumption ==
  /\ Short \in Nat /\ WakeGuard \in Nat /\ Saving \in Nat /\ IdleMax \in Nat
  /\ LightTimes \subseteq 0..IdleMax
  /\ DeepTimes \subseteq 0..IdleMax
  /\ Saving <= IdleMax

VARIABLES
  pc,
  powerDown,     \* the power key is down
  powerEdge,     \* what the last gpio.update() saw of it
  held,          \* getPowerButtonHeldTime(): of the present or last press
  otherEdge,     \* some other key was pressed or released in the last update
  queued,        \* a key was tapped during the refresh (MappedInput's counters)
  wakeRelease,   \* wakePowerReleasePending
  releasedSinceWake,
  allowIn,       \* time left until allowSleepAt
  idle,          \* millis() - lastActivity
  tiltLock,
  isLowPower,
  restoreFailed, \* history: the last setPowerSaving(false) of a slow CPU failed
  imuAwake,      \* HalTiltSensor::_isAwake
  tiltEvents,    \* _tiltForwardEvent, _tiltBackEvent
  tiltActivity,  \* _hadActivity
  screen,
  settings,      \* tiltPageTurn and the two sleep times
  wakePress,     \* history: the present or last press of the power key is the one that woke the device
  unlocking,     \* history: that press cleared the lock
  wakeActed,     \* history: the waking press toggled the lock or slept the device
  relocked       \* history: the last toggle was the release of a press that had cleared the lock

keys == <<powerDown, powerEdge, held, otherEdge>>
clock == <<allowIn, idle>>
wake == <<wakeRelease, releasedSinceWake>>
speed == <<isLowPower, restoreFailed>>
imu == <<imuAwake, tiltEvents, tiltActivity>>
history == <<wakePress, unlocking, wakeActed, relocked>>
vars == <<pc, keys, queued, wake, clock, tiltLock, speed, imu, screen, settings, history>>

Calls == {"update", "consumeWakeRelease", "maybeToggleTiltLock", "tiltUpdate",
          "noteUserActivity", "maybeSleep", "screens", "refresh", "idleDelay"}

Screens == {"Reader", "Blocking", "Other"}

TypeOK ==
  /\ pc \in {"off", "restart"} \cup Calls
  /\ powerDown \in BOOLEAN
  /\ powerEdge \in {"none", "pressed", "released"}
  /\ held \in 0..Short + 1
  /\ otherEdge \in BOOLEAN
  /\ queued \in BOOLEAN
  /\ wakeRelease \in BOOLEAN
  /\ releasedSinceWake \in BOOLEAN
  /\ allowIn \in 0..WakeGuard
  /\ idle \in 0..IdleMax
  /\ tiltLock \in BOOLEAN
  /\ isLowPower \in BOOLEAN
  /\ restoreFailed \in BOOLEAN
  /\ imuAwake \in BOOLEAN
  /\ tiltEvents \in SUBSET {"Forward", "Back"}
  /\ tiltActivity \in BOOLEAN
  /\ screen \in Screens
  /\ settings \in [tiltPageTurn : BOOLEAN, light : LightTimes, deep : DeepTimes]
  /\ wakePress \in BOOLEAN
  /\ unlocking \in BOOLEAN
  /\ wakeActed \in BOOLEAN
  /\ relocked \in BOOLEAN

Init ==
  /\ pc = "off"
  /\ powerDown = FALSE
  /\ wakeRelease = FALSE
  /\ allowIn = 0
  /\ powerEdge = "none" /\ held = 0 /\ otherEdge = FALSE /\ queued = FALSE
  /\ releasedSinceWake = FALSE
  /\ idle = 0
  /\ tiltLock = FALSE /\ isLowPower = FALSE /\ restoreFailed = FALSE
  /\ imuAwake = FALSE /\ tiltEvents = {} /\ tiltActivity = FALSE
  /\ screen = "Other"
  /\ unlocking = FALSE
  /\ settings \in [tiltPageTurn : BOOLEAN, light : LightTimes, deep : DeepTimes]
  /\ wakePress = FALSE /\ wakeActed = FALSE /\ relocked = FALSE

----------------------------------------------------------------------------
\* setup().  The power key may still be down when it ends; it resumes the book,
\* opens the recovery picker, which blocks sleep, or goes home.

\* noteWakeHold
WakeByPowerKey ==
  /\ pc = "off"
  /\ pc' = "update"
  /\ powerDown' \in BOOLEAN
  /\ wakeRelease' = TRUE
  /\ allowIn' = WakeGuard
  /\ screen' \in Screens
  /\ wakePress' = TRUE
  /\ UNCHANGED <<powerEdge, held, otherEdge, queued, releasedSinceWake, idle, tiltLock, speed,
                 imu, settings, unlocking, wakeActed, relocked>>

\* After ESP.restart().
Restart ==
  /\ pc = "restart"
  /\ pc' = "update"
  /\ UNCHANGED <<keys, queued, wake, clock, tiltLock, speed, imu, screen, settings, history>>

\* Nothing in RAM survives either way of going down.
GoesDown ==
  /\ powerDown' = FALSE /\ powerEdge' = "none" /\ held' = 0 /\ otherEdge' = FALSE /\ queued' = FALSE
  /\ wakeRelease' = FALSE /\ releasedSinceWake' = FALSE
  /\ allowIn' = 0 /\ idle' = 0
  /\ tiltLock' = FALSE /\ isLowPower' = FALSE /\ restoreFailed' = FALSE
  /\ imuAwake' = FALSE /\ tiltEvents' = {} /\ tiltActivity' = FALSE
  /\ screen' = "Other"
  /\ wakePress' = FALSE /\ unlocking' = FALSE /\ relocked' = FALSE
  /\ UNCHANGED settings

----------------------------------------------------------------------------
\* gpio.update(), in the tick or in a slice of a refresh.

AtMost(n, max) == IF n < max THEN n ELSE max

Sample(down, dt) ==
  /\ powerDown' = down
  /\ held' = IF powerDown THEN AtMost(held + dt, Short + 1) ELSE IF down THEN 0 ELSE held
  /\ allowIn' = IF dt < allowIn THEN allowIn - dt ELSE 0
  /\ idle' = AtMost(idle + dt, IdleMax)
  /\ wakePress' = (wakePress /\ ~(down /\ ~powerDown))
  /\ unlocking' = (unlocking /\ ~(down /\ ~powerDown))
  /\ UNCHANGED <<wake, tiltLock, speed, imu, screen, settings, wakeActed, relocked>>

Update(down, other, dt) ==
  /\ pc = "update"
  /\ pc' = "consumeWakeRelease"
  /\ Sample(down, dt)
  /\ powerEdge' = IF down = powerDown THEN "none" ELSE IF down THEN "pressed" ELSE "released"
  /\ otherEdge' = other
  /\ UNCHANGED queued

\* The next Update overwrites the edges of a slice unread, so they are not kept.
BusyWaitPoll(down, other, dt) ==
  /\ pc = "refresh"
  /\ Sample(down, dt)
  /\ queued' = (queued \/ other)
  /\ UNCHANGED <<pc, powerEdge, otherEdge>>

RefreshEnds ==
  /\ pc = "refresh"
  /\ pc' = "idleDelay"
  /\ UNCHANGED <<keys, queued, wake, clock, tiltLock, speed, imu, screen, settings, history>>

----------------------------------------------------------------------------
\* The calls of loop(), in order.

ConsumeWakeRelease ==
  /\ pc = "consumeWakeRelease"
  /\ IF wakeRelease /\ ~powerDown
     THEN pc' = "update" /\ wakeRelease' = FALSE
     ELSE pc' = "maybeToggleTiltLock" /\ UNCHANGED wakeRelease
  /\ UNCHANGED <<keys, queued, releasedSinceWake, clock, tiltLock, speed, imu, screen, settings,
                 history>>

\* HalTiltSensor::deepSleep: the sensor may refuse.
SensorSleep ==
  \/ imuAwake' = FALSE /\ tiltEvents' = {} /\ tiltActivity' = FALSE
  \/ UNCHANGED imu

SetTiltLock(on) ==
  /\ tiltLock' = on
  /\ IF on /\ ~tiltLock THEN SensorSleep ELSE UNCHANGED imu

AnyEdge == powerEdge # "none" \/ otherEdge

MaybeToggleTiltLock ==
  /\ pc = "maybeToggleTiltLock"
  /\ UNCHANGED <<keys, queued, wake, clock, speed, screen, settings, wakePress>>
  /\ \/ /\ wakeRelease
        /\ pc' = "tiltUpdate"
        /\ UNCHANGED <<tiltLock, imu, unlocking, wakeActed, relocked>>
     \/ /\ ~wakeRelease
        /\ powerEdge = "released" /\ held <= Short
        /\ SetTiltLock(~tiltLock)
        /\ pc' = "update"
        /\ wakeActed' = (wakeActed \/ wakePress)
        /\ relocked' = (unlocking /\ ~tiltLock)
        /\ unlocking' = FALSE
     \/ /\ ~wakeRelease
        /\ ~(powerEdge = "released" /\ held <= Short)
        /\ SetTiltLock(tiltLock /\ ~AnyEdge)
        /\ pc' = "tiltUpdate"
        /\ unlocking' = (unlocking \/ (tiltLock /\ powerEdge = "pressed"))
        /\ UNCHANGED <<wakeActed, relocked>>

Gesture ==
  \E way \in {"Forward", "Back"} : tiltEvents' = tiltEvents \cup {way} /\ tiltActivity' = TRUE

\* Mutant: loop() passes the setting without looking at the lock.
TiltUpdateIgnoresLock ==
  /\ pc = "tiltUpdate"
  /\ pc' = "noteUserActivity"
  /\ \/ settings.tiltPageTurn /\ ~imuAwake /\ imuAwake' \in BOOLEAN /\ UNCHANGED <<tiltEvents, tiltActivity>>
     \/ ~settings.tiltPageTurn /\ imuAwake /\ SensorSleep
     \/ settings.tiltPageTurn /\ imuAwake /\ screen = "Reader" /\ Gesture /\ UNCHANGED imuAwake
     \/ (settings.tiltPageTurn <=> imuAwake) /\ UNCHANGED imu
  /\ UNCHANGED <<keys, queued, wake, clock, tiltLock, speed, screen, settings, history>>

\* HalTiltSensor::update with the mode loop() passes: wake, sleep, or look for a
\* gesture, which only the reader does.
TiltUpdate ==
  LET on == settings.tiltPageTurn /\ ~tiltLock IN
  /\ pc = "tiltUpdate"
  /\ pc' = "noteUserActivity"
  /\ \/ on /\ ~imuAwake /\ imuAwake' \in BOOLEAN /\ UNCHANGED <<tiltEvents, tiltActivity>>
     \/ ~on /\ imuAwake /\ SensorSleep
     \/ on /\ imuAwake /\ screen = "Reader" /\ Gesture /\ UNCHANGED imuAwake
     \/ (on <=> imuAwake) /\ UNCHANGED imu
  /\ UNCHANGED <<keys, queued, wake, clock, tiltLock, speed, screen, settings, history>>

\* HalPowerManager::setPowerSaving(false).  The frequency may fail to change; the CPU
\* then stays slow, and the next attempt is made at the next activity or painting.
RestoreSpeed ==
  \/ isLowPower' = FALSE /\ restoreFailed' = FALSE
  \/ isLowPower /\ isLowPower' = TRUE /\ restoreFailed' = TRUE

\* setPowerSaving(true), which may fail too.
SaveSpeed == isLowPower' \in {isLowPower, TRUE} /\ UNCHANGED restoreFailed

\* Mutant: hadActivity() does what its comment says, "non-consuming".
NoteUserActivityPeeks ==
  LET active == AnyEdge \/ tiltActivity IN
  /\ pc = "noteUserActivity"
  /\ pc' = "maybeSleep"
  /\ idle' = IF active THEN 0 ELSE idle
  /\ IF active THEN RestoreSpeed ELSE UNCHANGED speed
  /\ releasedSinceWake' = (releasedSinceWake \/ ~powerDown)
  /\ UNCHANGED <<keys, queued, wakeRelease, allowIn, tiltLock, imu, screen, settings, history>>

\* With a key edge hadActivity() is not called, and the flag stays for the next tick.
NoteUserActivity ==
  LET active == AnyEdge \/ tiltActivity IN
  /\ pc = "noteUserActivity"
  /\ pc' = "maybeSleep"
  /\ idle' = IF active THEN 0 ELSE idle
  /\ IF active THEN RestoreSpeed ELSE UNCHANGED speed
  /\ tiltActivity' = (tiltActivity /\ AnyEdge)
  /\ releasedSinceWake' = (releasedSinceWake \/ ~powerDown)
  /\ UNCHANGED <<keys, queued, wakeRelease, allowIn, tiltLock, imuAwake, tiltEvents, screen, settings,
                 history>>

EnterDeepSleep ==
  /\ pc' = "off"
  /\ GoesDown

\* Mutant: a hold counts without a release since waking.
MaybeSleepAnyHold ==
  /\ pc = "maybeSleep"
  /\ \/ /\ screen # "Blocking"
        /\ allowIn = 0 /\ powerDown /\ held > Short
        /\ EnterDeepSleep
        /\ wakeActed' = (wakeActed \/ wakePress)
     \/ /\ pc' = "screens"
        /\ UNCHANGED <<keys, queued, wake, clock, tiltLock, speed, imu, screen, settings, history>>

MaybeSleep ==
  LET hold == releasedSinceWake /\ allowIn = 0 /\ powerDown /\ held > Short
      deepDue == settings.deep > 0 /\ idle >= settings.deep
      lightDue == settings.light > 0 /\ ~tiltLock /\ idle >= settings.light
  IN
  /\ pc = "maybeSleep"
  /\ \/ /\ screen # "Blocking" /\ (hold \/ deepDue)
        /\ EnterDeepSleep
        /\ wakeActed' = (wakeActed \/ (hold /\ wakePress))
     \/ /\ screen # "Blocking" /\ ~hold /\ ~deepDue /\ lightDue
        /\ SetTiltLock(TRUE)
        /\ pc' = "screens"
        /\ UNCHANGED <<keys, queued, wake, clock, speed, screen, settings, history>>
     \/ /\ screen = "Blocking" \/ ~(hold \/ deepDue \/ lightDue)
        /\ pc' = "screens"
        /\ UNCHANGED <<keys, queued, wake, clock, tiltLock, speed, imu, screen, settings, history>>

\* screenManager.loop().  A key, or a tap queued during the last refresh, may
\* change the screen or, in the settings, a setting.  Leaving the reader clears
\* the gestures; the chapter list that covers it does not.

ScreenLoop ==
  \/ /\ screen = "Reader"
     /\ screen' = "Reader"
     /\ tiltEvents' = IF ~settings.tiltPageTurn THEN tiltEvents
                      ELSE IF "Forward" \in tiltEvents THEN tiltEvents \ {"Forward"}
                      ELSE {}
     /\ UNCHANGED <<imuAwake, tiltActivity, settings>>
  \/ /\ screen = "Reader" /\ (otherEdge \/ queued)
     /\ screen' = "Other"
     /\ \/ tiltEvents' = {} /\ tiltActivity' = FALSE
        \/ UNCHANGED <<tiltEvents, tiltActivity>>
     /\ UNCHANGED <<imuAwake, settings>>
  \/ /\ screen # "Reader"
     /\ UNCHANGED <<screen, settings, imu>>
  \/ /\ screen # "Reader" /\ (otherEdge \/ queued)
     /\ screen' \in Screens
     /\ settings' \in [tiltPageTurn : BOOLEAN, light : LightTimes, deep : DeepTimes]
     /\ settings' # settings => screen' = "Other" /\ screen = "Other"
     /\ UNCHANGED imu

\* Mutant: the lock that restores the CPU speed for a refresh is forgotten.
ScreensPaintsSlowly ==
  /\ pc = "screens"
  /\ ScreenLoop
  /\ queued' = FALSE /\ powerEdge' = "none" /\ otherEdge' = FALSE
  /\ \/ pc' = "refresh"
     \/ screen' = screen /\ pc' = "idleDelay"
  /\ UNCHANGED <<powerDown, held, wake, clock, tiltLock, speed, history>>

\* HalPowerManager::Lock, held while a screen is painted.
AcquireLock == RestoreSpeed

\* A new screen is always painted.  Nobody reads the edges of this tick again.
ScreensLoop ==
  /\ pc = "screens"
  /\ ScreenLoop
  /\ queued' = FALSE /\ powerEdge' = "none" /\ otherEdge' = FALSE
  /\ \/ pc' = "refresh" /\ AcquireLock
     \/ screen' = screen /\ pc' = "idleDelay" /\ UNCHANGED speed
  /\ UNCHANGED <<powerDown, held, wake, clock, tiltLock, history>>

\* WifiSession::end() and a finished update restart; both screens block sleep.
ScreensRestart ==
  /\ pc = "screens"
  /\ screen = "Blocking"
  /\ pc' = "restart"
  /\ GoesDown
  /\ UNCHANGED wakeActed

IdleDelay ==
  /\ pc = "idleDelay"
  /\ pc' = "update"
  /\ IF screen = "Reader" /\ idle >= Saving THEN SaveSpeed ELSE UNCHANGED speed
  /\ UNCHANGED <<keys, queued, wake, clock, tiltLock, imu, screen, settings, history>>

----------------------------------------------------------------------------
TimePasses(dt) == \E down, other \in BOOLEAN : Update(down, other, dt)

Next ==
  \/ WakeByPowerKey
  \/ Restart
  \/ \E dt \in 0..1 : TimePasses(dt)
  \/ \E down, other \in BOOLEAN, dt \in 0..1 : BusyWaitPoll(down, other, dt)
  \/ RefreshEnds
  \/ ConsumeWakeRelease
  \/ MaybeToggleTiltLock
  \/ TiltUpdate
  \/ NoteUserActivity
  \/ MaybeSleep
  \/ ScreensLoop
  \/ ScreensRestart
  \/ IdleDelay

\* The loop task never stops, a refresh ends, and time goes by.
Fairness ==
  /\ WF_vars(Restart \/ RefreshEnds \/ ConsumeWakeRelease \/ MaybeToggleTiltLock \/ TiltUpdate
             \/ NoteUserActivity \/ MaybeSleep \/ ScreensLoop \/ IdleDelay)
  /\ SF_vars(TimePasses(1))

Spec == Init /\ [][Next]_vars
FairSpec == Spec /\ Fairness

----------------------------------------------------------------------------
\* Properties

\* The press that woke the device does nothing else: its release does not toggle
\* the lock (Power.cpp:115) and holding it on does not sleep the device again,
\* however the release falls between ticks, refreshes and the guard time.
WakePressInert == ~wakeActed

\* The CPU runs slow on the reader only (Power.cpp:140-144), although a tap queued during
\* a refresh is not activity and leaves the reader without restoring the speed: painting
\* the next screen does (ScreenManager.cpp:87).  Another screen runs slow only when the
\* last attempt to restore the frequency failed (HalPowerManager.cpp:59-62).
SlowOnlyInReader == isLowPower => screen = "Reader" \/ restoreFailed

\* While the lock is on no gesture is recognised: the device can be picked up
\* (Power.h:16-18), even when the sensor refused to sleep.
LockStopsGestures == [][tiltLock /\ tiltLock' => tiltEvents' \subseteq tiltEvents]_vars

\* A device left alone goes to sleep, whatever gestures and keys came before,
\* unless the setting is off or a screen forbids it.
IdleSleeps ==
  <>[]~AnyEdge /\ <>[][tiltActivity' => tiltActivity]_vars
    => []<>(pc = "off" \/ screen = "Blocking" \/ settings.deep = 0)

\* "After unlocking with the power button, ignore that same press's release so it
\* does not immediately lock again" (Power.cpp:19-20).
NoRelock == ~relocked

=============================================================================
