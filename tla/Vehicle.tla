-------------------------------- MODULE Vehicle --------------------------------
(***************************************************************************)
(* The whole of the controller across ignition cycles: FG-01 and F-08      *)
(* command the lock while F-05 and F-10 take the Child Lock state through  *)
(* ignition off, loss of power, reset and restart.  PowerCycle knows of    *)
(* commands only that they may be lost; here each is the decision of F-02  *)
(* or F-08 the code makes.                                                 *)
(*                                                                         *)
(* Time is left to DoorLockControl: a speed that is too old to be used is  *)
(* "implausible" here, as F-01 treats the two alike.                       *)
(***************************************************************************)
EXTENDS PowerCycle

CONSTANT MAX_ECU_RETRY  \* MAX_ECU_RETRY_COUNT

ASSUME RetryAssumption == MAX_ECU_RETRY \in Nat

VARIABLES
  ecu,       \* F-03's output for the last command since the last restart
  speed,     \* the speed the sensor delivers
  crash,     \* whether a crash signal is present and valid
  risk,      \* the verdict of F-07
  (* History, read by properties only: *)
  released,  \* the last command was a crash release, and acknowledged
  settled    \* the state a save stored after the last command, which had been acknowledged;
             \* "none" if there is no such save yet.  Saves after a restart leave it alone.

vehicleVars == <<vars, ecu, speed, crash, risk, released, settled>>

\* FG-01 and F-08; of what they know only the ignition, the crash, the speed and the risk vary.
FG == INSTANCE ExitSafety WITH
  M <- 1, TIMEOUT <- 1, MaxSilence <- 0, MaxSkew <- 0,
  ignitionState <- IF power = "running" THEN "ON" ELSE "OFF",
  now <- 0, vehicleSpeedKmh <- speed, speedTimestampMs <- 0, speedAge <- 0,
  crash <- [active |-> crash, valid |-> crash],
  input <- 0, decision <- 0, block <- 0, logger <- FALSE, hmi <- 0

-----------------------------------------------------------------------------
(* The steps.                                                              *)

VehicleInit ==
  /\ Init
  /\ ecu = FG!EcuIdle
  /\ speed = "slow" /\ crash = FALSE /\ risk = "clear"
  /\ released = FALSE /\ settled = "none"

\* What the bus delivers changes at any time, with the ignition off too.
Bus ==
  /\ \/ speed' \in FG!Speed /\ UNCHANGED <<crash, risk>>
     \/ crash' \in BOOLEAN /\ UNCHANGED <<speed, risk>>
     \/ risk' \in FG!Verdict /\ UNCHANGED <<speed, crash>>
  /\ UNCHANGED <<vars, ecu, released, settled>>

\* FG-01's cycle, which goes on while the controller shuts down: F-01 then hands its defaults to
\* F-02, but not the other fault flags, which the caller sets.
FrontCycle(switch, fault, link) ==
  LET d == FG!DecideChildLockState(FG!F01_Run(switch), fault)
  IN  /\ power \in {"running", "stopping"}
      /\ FG!Command(d, link)
      /\ released' = IF FG!Commands(d)
                     THEN d.decisionReason = "CRASH_DETECTED" /\ link = "acknowledged"
                     ELSE released
      /\ settled' = IF FG!Commands(d) THEN "none" ELSE settled
      /\ UNCHANGED <<power, manager, alert, nvm, result, summary, lastGood, shown,
                     speed, crash, risk>>

\* F-08's cycle.
RearCycle(link) ==
  /\ power \in {"running", "stopping"}
  /\ FG!Protects(link)
  /\ released' = (released /\ ~FG!F08_Run.clChanged)
  /\ settled' = IF FG!F08_Run.clChanged THEN "none" ELSE settled
  /\ UNCHANGED <<power, manager, alert, nvm, result, summary, lastGood, shown,
                 speed, crash, risk>>

\* F-05's save at ignition off.
Save(write) ==
  /\ HandleIgnitionOff(write)
  /\ settled' = IF manager /\ Stored(write) /\ ecu.ackStatus = "RECEIVED"
                THEN clState ELSE settled
  /\ UNCHANGED <<ecu, speed, crash, risk, released>>

\* Everything else PowerCycle does; F-03's output does not outlive a restart.
PowerStep ==
  /\ \/ Start \/ PowerLoss \/ PowerLossInWrite \/ IgnitionOff
     \/ \E config \in BOOLEAN : InitF05(config) \/ InitF10(config)
     \/ \E readable, delivered \in BOOLEAN : HandleRestore(readable, delivered)
     \/ \E queried \in LockState \cup {"failed"} : HandleEvent(queried)
  /\ ecu' = IF power' \in {"off", "starting"} \/ Restarts THEN FG!EcuIdle ELSE ecu
  /\ released' = (released /\ ~Restarts)
  /\ UNCHANGED <<speed, crash, risk, settled>>

VehicleNext ==
  \/ Bus
  \/ \E switch \in FG!SwitchRequest, fault \in BOOLEAN, link \in FG!Link :
       FrontCycle(switch, fault, link)
  \/ \E link \in FG!Link : RearCycle(link)
  \/ \E write \in Write : Save(write)
  \/ PowerStep

VehicleSpec == VehicleInit /\ [][VehicleNext]_vehicleVars

-----------------------------------------------------------------------------
(* Properties.                                                             *)

VehicleTypeOK ==
  /\ TypeOK
  /\ ecu \in FG!EcuOutput
  /\ speed \in FG!Speed /\ crash \in BOOLEAN /\ risk \in FG!Verdict
  /\ released \in BOOLEAN /\ settled \in LockState \cup {"none"}

\* Seen from F-05 and F-10, the functions that command the lock do no more than PowerCycle's
\* SetLock allows, so that what is checked and proved of PowerCycle holds of the vehicle.
ImplementsPowerCycle == Spec

\* The vehicle implements LossyLock across restarts: a restored state reaches the doors only
\* with the remembered one, and only a default may be remembered of which the doors know nothing.
Lock == INSTANCE LossyLock WITH known <- clState, actual <- doorState, answer <- FG!Answer

ImplementsLossyLock == Lock!Spec

\* Across ignition cycles, resets and losses of power the doors are unlocked only by a valid
\* crash, by the driver at a plausible speed of at most 3 km/h with no fault raised, or by a
\* restart that finds OFF saved.
VehicleUnlockAuthorised ==
  [][(doorState = "ON" /\ doorState' = "OFF")
       => \/ power = "running" /\ crash
          \/ /\ power = "running" /\ speed = "slow"
             /\ \E link \in FG!Link : FrontCycle("OFF", FALSE, link)
          \/ Restarts /\ lastGood = "OFF"]_vehicleVars

\* Once the lock was commanded, acknowledged and its state saved, and until the next command, a
\* restart moves the doors in one case only: ON was saved, a later restart found no state to
\* restore, and the default OFF it left was saved over the ON.  A saved OFF is never undone, nor
\* a saved ON by a failed read, a torn record or a lost request alone.
RestartKeepsDoor ==
  [][(Restarts /\ settled # "none" /\ doorState' # doorState)
       => settled = "ON" /\ lastGood = "OFF"]_vehicleVars

\* F-10's word to the driver is true of the doors if the last command was acknowledged: "Child
\* Lock on" is shown only for locked doors, and no summary at all, from an F-10 that is ready,
\* means that they are unlocked.
SummaryTrue ==
  [][(ecu.ackStatus = "RECEIVED" /\ \E queried \in LockState \cup {"failed"} : HandleEvent(queried))
       => /\ summary'.message = "CL_ON_SUMMARY" => doorState = "ON"
          /\ (alert.isInitialized /\ ~alert'.alertAlreadyIssued) => doorState = "OFF"]_vehicleVars

-----------------------------------------------------------------------------
(* What the documents say.                                                 *)

\* Software_Detailed_Design.md:12: after a reset the state immediately before it is restored,
\* here the release the crash brought about.
ReleaseSurvivesReset ==
  [][(power = "starting" /\ power' = "running" /\ released) => doorState' = "OFF"]_vehicleVars
=============================================================================
