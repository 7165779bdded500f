---------------------------- MODULE AtomicUpdate ----------------------------
(***************************************************************************)
(* What a firmware update promises (src/core/SdUpdate.h): the image that   *)
(* the device boots is the old one until the step that commits to the new  *)
(* one, whatever fails and whenever the power goes; success is reported    *)
(* only after that step, failure only without it.                          *)
(***************************************************************************)
CONSTANTS Images, NoImage

VARIABLES
  boots,   \* the image that would run if the device were reset now
  former,  \* the image it falls back to if that one is never confirmed
  phase,   \* "idle", "updating", or "done": success has been reported
  wanted   \* the image being installed

vars == <<boots, former, phase, wanted>>

Init ==
  /\ boots \in Images
  /\ former = NoImage
  /\ phase = "idle"
  /\ wanted = NoImage

Begin(i) ==
  /\ phase = "idle"
  /\ phase' = "updating"
  /\ wanted' = i
  /\ UNCHANGED <<boots, former>>

Commit ==
  /\ phase = "updating"
  /\ phase' = "done"
  /\ boots' = wanted
  /\ former' \in {boots, NoImage}
  /\ wanted' = NoImage

\* Reported as a failure, or cut off by a reset.
GiveUp ==
  /\ phase = "updating"
  /\ phase' = "idle"
  /\ wanted' = NoImage
  /\ UNCHANGED <<boots, former>>

Restart ==
  /\ phase = "done"
  /\ phase' = "idle"
  /\ UNCHANGED <<boots, former, wanted>>

Confirm ==
  /\ phase = "idle"
  /\ former # NoImage
  /\ former' = NoImage
  /\ UNCHANGED <<boots, phase, wanted>>

RollBack ==
  /\ phase = "idle"
  /\ former # NoImage
  /\ boots' = former
  /\ former' = NoImage
  /\ UNCHANGED <<phase, wanted>>

Next == (\E i \in Images : Begin(i)) \/ Commit \/ GiveUp \/ Restart \/ Confirm \/ RollBack

Spec == Init /\ [][Next]_vars

=============================================================================
