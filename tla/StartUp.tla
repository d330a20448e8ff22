------------------------------ MODULE StartUp ------------------------------
(***************************************************************************)
(* The start of the camera: the boot program takes the image in the flash, *)
(* mini_dvr_main mounts the card, and mount_and_mk_ch_dir first looks for  *)
(* a firmware upgrade, which ends in power-off, and only then for a time   *)
(* to set.  Power may be cut at any step of either, and put on again.      *)
(***************************************************************************)
EXTENDS FirmwareUpgrade, RealTimeClock

CONSTANTS
  MaxStarts,   \* bound: times the power is put on
  RestartDates \* bound: the days on which a camera that runs on is restarted

VARIABLE starts

vars == <<upgradeVars, clockVars, starts>>

(* An upgrade waits on the card only of a camera that is off; its clock    *)
(* was then never set.                                                     *)
Init ==
  /\ UpgradeInit /\ ClockInit
  /\ bin # "none" => cpc = "off" /\ file.kind = "none"
  /\ upc = (IF cpc = "off" THEN "off" ELSE "left")
  /\ starts = IF cpc = "off" THEN 0 ELSE IF civil[1] \in RestartDates THEN MaxStarts - 1 ELSE MaxStarts

(* Boot and mount; without a card the camera switches itself off.          *)
PowerOn ==
  /\ upc = "off" /\ cpc = "off" /\ Bootable
  /\ starts < MaxStarts /\ starts' = starts + 1
  /\ upc' = "ini"
  /\ UNCHANGED <<flash, cardVars, flags, complete, retry, ram, pastVars, clockVars>>

(* mount_and_mk_ch_dir goes on to the time.                                *)
FirmwareDone ==
  /\ upc = "left" /\ cpc = "off"
  /\ cpc' = "parse"
  /\ UNCHANGED <<upgradeVars, hardware, counting, file, t, saves, result, used, starts>>

PowerCut == CutUpgrade /\ LoseClock /\ UNCHANGED starts

Next ==
  \/ PowerOn \/ FirmwareDone \/ PowerCut
  \/ UpgradeStep /\ UNCHANGED <<clockVars, starts>>
  \/ (SetClock \/ ReadTime \/ Tick) /\ UNCHANGED <<upgradeVars, starts>>

Spec == Init /\ [][Next]_vars
=============================================================================
