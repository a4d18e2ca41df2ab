---------------------------- MODULE Vehicle_proof ----------------------------
(***************************************************************************)
(* The composed controller over any number of ignition cycles.  It         *)
(* implements PowerCycle, so that what is proved there of F-05 and F-10    *)
(* holds while F-02 and F-08 really decide the commands; the rest follows  *)
(* from one inductive invariant that ties F-03's last answer and F-05's    *)
(* last save to the doors.                                                 *)
(***************************************************************************)
EXTENDS Vehicle, PowerCycle_proof, TLAPS

-----------------------------------------------------------------------------
(* One command.                                                            *)

\* An acknowledged command moves the remembered state and the doors; any other leaves the
\* remembered state and says so.
LEMMA SendEffect ==
  ASSUME clState \in LockState, doorState \in LockState,
         NEW target \in LockState, NEW link \in FG!Link, FG!Send(target, link)
  PROVE  /\ ecu' \in FG!EcuOutput
         /\ \/ /\ link = "acknowledged"
               /\ clState' = target /\ doorState' = target
               /\ ecu'.ackStatus = "RECEIVED" /\ ecu'.dtc = "NONE"
            \/ /\ link # "acknowledged"
               /\ clState' = clState /\ doorState' \in {doorState, target}
               /\ ecu'.ackStatus = "NOT_RECEIVED" /\ ecu'.dtc = "ECU_ACK_FAIL"
<1> DEFINE out == FG!HandleCommand(target, link = "acknowledged")
<1>1. ecu' = out
  BY DEF FG!Send
<1>2. out \in FG!EcuOutput /\ out.childLockCommand = FG!MapCommand(target)
  BY DEF FG!HandleCommand, FG!EcuIdle, FG!MapCommand, FG!EcuOutput
<1>3. IF link = "acknowledged" THEN out.ackStatus = "RECEIVED" /\ out.dtc = "NONE"
      ELSE out.ackStatus = "NOT_RECEIVED" /\ out.dtc = "ECU_ACK_FAIL"
  BY DEF FG!HandleCommand, FG!EcuIdle
<1>4. doorState' = IF link = "command lost" THEN doorState ELSE target
  BY <1>1, <1>2 DEF FG!Send, FG!MapCommand, LockState
<1>5. clState' = IF ecu'.ackStatus = "RECEIVED" THEN target ELSE clState
  BY DEF FG!Send
<1> QED
  BY <1>1, <1>2, <1>3, <1>4, <1>5

\* F-02 asks for OFF only in a crash or at the driver's request, and for a state of the lock
\* in any case.
LEMMA DecisionOff ==
  ASSUME clState \in LockState, crash \in BOOLEAN,
         NEW switch \in FG!SwitchRequest, NEW fault \in BOOLEAN
  PROVE  LET d == FG!DecideChildLockState(FG!F01_Run(switch), fault)
         IN  /\ d.targetClState \in LockState
             /\ (FG!Commands(d) /\ d.targetClState = "OFF") =>
                  /\ power = "running"
                  /\ \/ crash
                     \/ switch = "OFF" /\ fault = FALSE /\ speed = "slow"
<1> DEFINE v == FG!F01_Run(switch)
           reason == FG!Reason(v, fault)
           d == FG!DecideChildLockState(v, fault)
<1>1. d.decisionReason = reason /\ d.targetClState = FG!Target(reason)
  BY DEF FG!DecideChildLockState
<1>2. FG!Target(reason) \in LockState
  <2> HIDE DEF reason
  <2> QED
    BY DEF FG!Target, LockState
<1>3. ASSUME FG!Commands(d), d.targetClState = "OFF"
      PROVE  reason \in {"CRASH_DETECTED", "DRIVER_UNLOCK_REQUEST"}
  <2>1. reason \in FG!DecisionReason \ {"NO_STATE_CHANGE", "UNLOCK_INHIBITED_WHILE_MOVING"}
    BY <1>1, <1>3 DEF FG!Commands, FG!Reason, FG!DecisionReason
  <2>2. FG!Target(reason) = "OFF"
    BY <1>1, <1>3
  <2> HIDE DEF reason
  <2> QED
    BY <2>1, <2>2 DEF FG!Target, FG!DecisionReason
<1>4. CASE power = "running"
  <2>1. v = [ validSwitchInput     |-> switch,
              validSpeedKmh        |-> IF FG!SpeedValid THEN speed ELSE "slow",
              speedValid           |-> FG!SpeedValid,
              validCrashSignal     |-> FG!ValidCrashSignal,
              autoLockConditionMet |-> FG!AutoLockConditionMet,
              speedFault           |-> ~FG!SpeedValid ]
    BY <1>4 DEF FG!F01_Run
  <2>2. reason = "CRASH_DETECTED" => crash
    BY <2>1 DEF FG!Reason, FG!ValidCrashSignal
  <2>3. reason = "DRIVER_UNLOCK_REQUEST" =>
          v.validSwitchInput = "OFF" /\ fault = FALSE /\ v.validSpeedKmh = "slow" /\ ~v.speedFault
    <3> HIDE DEF v
    <3> QED
      BY DEF FG!Reason
  <2>4. v.validSwitchInput = switch /\ (v.validSpeedKmh = "slow" /\ ~v.speedFault => speed = "slow")
    <3> HIDE DEF v
    <3>1. CASE FG!SpeedValid
      BY <2>1, <3>1
    <3>2. CASE ~FG!SpeedValid
      BY <2>1, <3>2
    <3> QED
      BY <3>1, <3>2
  <2>5. reason = "DRIVER_UNLOCK_REQUEST" => switch = "OFF" /\ fault = FALSE /\ speed = "slow"
    <3> HIDE DEF v, reason
    <3> QED
      BY <2>3, <2>4
  <2> QED
    BY <1>1, <1>2, <1>3, <1>4, <2>2, <2>5
<1>5. CASE power # "running"
  <2>1. v = FG!DefaultOutput
    BY <1>5 DEF FG!F01_Run
  <2>2. reason \notin {"CRASH_DETECTED", "DRIVER_UNLOCK_REQUEST"}
    BY <2>1 DEF FG!Reason, FG!DefaultOutput
  <2> QED
    BY <1>1, <1>2, <1>3, <2>2
<1> QED
  BY <1>4, <1>5

\* A cycle of FG-01 commands a state of the lock, or leaves it and the history alone.
LEMMA FrontEffect ==
  ASSUME VehicleTypeOK,
         NEW switch \in FG!SwitchRequest, NEW fault \in BOOLEAN, NEW link \in FG!Link,
         FrontCycle(switch, fault, link)
  PROVE  /\ power \in {"running", "stopping"}
         /\ UNCHANGED <<power, manager, alert, nvm, result, summary, lastGood, shown,
                        speed, crash, risk>>
         /\ released' \in BOOLEAN
         /\ \/ UNCHANGED <<ecu, doorState, clState>> /\ settled' = settled
            \/ /\ settled' = "none"
               /\ \E target \in LockState :
                    /\ FG!Send(target, link)
                    /\ target = "OFF" =>
                         /\ power = "running"
                         /\ \/ crash
                            \/ switch = "OFF" /\ fault = FALSE /\ speed = "slow"
<1> DEFINE d == FG!DecideChildLockState(FG!F01_Run(switch), fault)
<1>1. /\ d.targetClState \in LockState
      /\ (FG!Commands(d) /\ d.targetClState = "OFF") =>
           /\ power = "running"
           /\ \/ crash
              \/ switch = "OFF" /\ fault = FALSE /\ speed = "slow"
  BY DecisionOff DEF VehicleTypeOK, TypeOK
<1>2. /\ power \in {"running", "stopping"}
      /\ FG!Command(d, link)
      /\ released' = IF FG!Commands(d)
                     THEN d.decisionReason = "CRASH_DETECTED" /\ link = "acknowledged"
                     ELSE released
      /\ settled' = IF FG!Commands(d) THEN "none" ELSE settled
      /\ UNCHANGED <<power, manager, alert, nvm, result, summary, lastGood, shown,
                     speed, crash, risk>>
  BY DEF FrontCycle
<1> HIDE DEF d
<1>3. released' \in BOOLEAN
  BY <1>2 DEF VehicleTypeOK
<1>4. CASE FG!Commands(d)
  <2>1. FG!Send(d.targetClState, link) /\ settled' = "none"
    BY <1>2, <1>4 DEF FG!Command
  <2> QED
    BY <1>1, <1>2, <1>3, <1>4, <2>1
<1>5. CASE ~FG!Commands(d)
  BY <1>2, <1>3, <1>5 DEF FG!Command, VehicleTypeOK
<1> QED
  BY <1>4, <1>5

\* F-08 commands ON or nothing.
LEMMA RearEffect ==
  ASSUME VehicleTypeOK, NEW link \in FG!Link, RearCycle(link)
  PROVE  /\ power \in {"running", "stopping"}
         /\ UNCHANGED <<power, manager, alert, nvm, result, summary, lastGood, shown,
                        speed, crash, risk>>
         /\ released' \in BOOLEAN
         /\ \/ UNCHANGED <<ecu, doorState, clState>> /\ settled' = settled
            \/ FG!Send("ON", link) /\ settled' = "none"
<1>1. /\ power \in {"running", "stopping"}
      /\ UNCHANGED <<power, manager, alert, nvm, result, summary, lastGood, shown,
                     speed, crash, risk>>
      /\ FG!Protects(link)
      /\ released' \in BOOLEAN
      /\ settled' = IF FG!F08_Run.clChanged THEN "none" ELSE settled
  BY DEF RearCycle, VehicleTypeOK
<1>2. CASE FG!F08_Run.clChanged
  <2>1. FG!F08_Run.targetCLState = "ON"
    BY <1>2 DEF FG!F08_Run, FG!Neutral, FG!Protect
  <2> QED
    BY <1>1, <1>2, <2>1 DEF FG!Protects
<1>3. CASE ~FG!F08_Run.clChanged
  BY <1>1, <1>3 DEF FG!Protects, VehicleTypeOK
<1> QED
  BY <1>2, <1>3

-----------------------------------------------------------------------------
(* PowerCycle is implemented.                                              *)

\* Whatever the link makes of a command, PowerCycle knows it as a SetLock.
LEMMA SendIsSetLock ==
  ASSUME clState \in LockState, doorState \in LockState, power \in {"running", "stopping"},
         UNCHANGED <<power, manager, alert, nvm, result, summary, lastGood, shown>>,
         NEW target \in LockState, NEW link \in FG!Link, FG!Send(target, link)
  PROVE  SetLock(target)
BY SendEffect DEF SetLock

\* Each step of the vehicle is a step of PowerCycle or none.
LEMMA StepRefines == VehicleTypeOK /\ [VehicleNext]_vehicleVars => [Next]_vars
<1> SUFFICES ASSUME VehicleTypeOK, [VehicleNext]_vehicleVars PROVE [Next]_vars
  OBVIOUS
<1>1. clState \in LockState /\ doorState \in LockState
  BY DEF VehicleTypeOK, TypeOK
<1>2. CASE Bus
  BY <1>2 DEF Bus
<1>3. ASSUME NEW switch \in FG!SwitchRequest, NEW fault \in BOOLEAN, NEW link \in FG!Link,
             FrontCycle(switch, fault, link)
      PROVE  [Next]_vars
  <2>1. /\ power \in {"running", "stopping"}
        /\ UNCHANGED <<power, manager, alert, nvm, result, summary, lastGood, shown>>
        /\ \/ UNCHANGED <<doorState, clState>>
           \/ \E target \in LockState : FG!Send(target, link)
    BY <1>3, FrontEffect
  <2> QED
    BY <1>1, <2>1, SendIsSetLock DEF Next, vars
<1>4. ASSUME NEW link \in FG!Link, RearCycle(link) PROVE [Next]_vars
  <2>1. /\ power \in {"running", "stopping"}
        /\ UNCHANGED <<power, manager, alert, nvm, result, summary, lastGood, shown>>
        /\ \/ UNCHANGED <<doorState, clState>>
           \/ FG!Send("ON", link)
    BY <1>4, RearEffect
  <2>2. "ON" \in LockState
    BY DEF LockState
  <2> QED
    BY <1>1, <2>1, <2>2, SendIsSetLock DEF Next, vars
<1>5. ASSUME NEW write \in Write, Save(write) PROVE [Next]_vars
  BY <1>5 DEF Save, Next
<1>6. CASE PowerStep
  BY <1>6 DEF PowerStep, Next
<1>7. CASE UNCHANGED vehicleVars
  BY <1>7 DEF vehicleVars
<1> QED
  BY <1>2, <1>3, <1>4, <1>5, <1>6, <1>7 DEF VehicleNext

-----------------------------------------------------------------------------
(* Types and agreement.                                                    *)

\* An acknowledged last command means that the remembered state is that of the doors.  What was
\* saved after it, and nothing commanded since, is still the state saved last, and the doors are
\* in it, unless a default OFF was saved over an ON, which is then the remembered state too, as is
\* a saved OFF.
Agreement ==
  /\ ecu.ackStatus = "RECEIVED" => clState = doorState
  /\ settled # "none" => lastGood # "none"
  /\ (settled # "none" /\ lastGood = settled) => doorState = settled
  /\ settled = "OFF" => clState = "OFF" /\ lastGood = "OFF"
  /\ (settled = "ON" /\ lastGood = "OFF") => clState = "OFF"

VehicleInv == VehicleTypeOK /\ Agreement /\ RestoreInv

\* The vehicle's own variables keep their types, PowerCycle's by its own proof.
LEMMA VehicleTypeStep == VehicleTypeOK /\ [VehicleNext]_vehicleVars => VehicleTypeOK'
<1> SUFFICES ASSUME VehicleTypeOK, [VehicleNext]_vehicleVars PROVE VehicleTypeOK'
  OBVIOUS
<1>1. TypeOK'
  BY StepRefines, TypeStep DEF VehicleTypeOK
<1>2. clState \in LockState /\ doorState \in LockState
  BY DEF VehicleTypeOK, TypeOK
<1>3. CASE Bus
  BY <1>1, <1>3 DEF Bus, VehicleTypeOK
<1>4. ASSUME NEW switch \in FG!SwitchRequest, NEW fault \in BOOLEAN, NEW link \in FG!Link,
             FrontCycle(switch, fault, link)
      PROVE  VehicleTypeOK'
  <2>1. ecu' \in FG!EcuOutput
    BY <1>2, <1>4, FrontEffect, SendEffect DEF VehicleTypeOK
  <2>2. /\ UNCHANGED <<speed, crash, risk>>
        /\ released' \in BOOLEAN /\ settled' \in LockState \cup {"none"}
    BY <1>4, FrontEffect DEF VehicleTypeOK
  <2> QED
    BY <1>1, <2>1, <2>2 DEF VehicleTypeOK
<1>5. ASSUME NEW link \in FG!Link, RearCycle(link) PROVE VehicleTypeOK'
  <2>1. "ON" \in LockState
    BY DEF LockState
  <2>2. ecu' \in FG!EcuOutput
    BY <1>2, <1>5, <2>1, RearEffect, SendEffect DEF VehicleTypeOK
  <2>3. /\ UNCHANGED <<speed, crash, risk>>
        /\ released' \in BOOLEAN /\ settled' \in LockState \cup {"none"}
    BY <1>5, RearEffect DEF VehicleTypeOK
  <2> QED
    BY <1>1, <2>2, <2>3 DEF VehicleTypeOK
<1>6. ASSUME NEW write \in Write, Save(write) PROVE VehicleTypeOK'
  <2>1. settled' \in LockState \cup {"none"}
    BY <1>2, <1>6 DEF Save, VehicleTypeOK
  <2> QED
    BY <1>1, <1>6, <2>1 DEF Save, VehicleTypeOK
<1>7. CASE PowerStep
  <2>1. FG!EcuIdle \in FG!EcuOutput
    BY DEF FG!EcuIdle, FG!EcuOutput
  <2>2. ecu' \in FG!EcuOutput
    BY <1>7, <2>1 DEF PowerStep, VehicleTypeOK
  <2>3. /\ released' \in BOOLEAN
        /\ UNCHANGED <<speed, crash, risk, settled>>
    BY <1>7 DEF PowerStep, VehicleTypeOK
  <2> QED
    BY <1>1, <2>2, <2>3 DEF VehicleTypeOK
<1>8. CASE UNCHANGED vehicleVars
  BY <1>1, <1>8 DEF vehicleVars, VehicleTypeOK
<1> QED
  BY <1>3, <1>4, <1>5, <1>6, <1>7, <1>8 DEF VehicleNext

\* What a restore can do to the doors and to the remembered state.
LEMMA RestoreEffect ==
  ASSUME RestoreInv, NEW readable \in BOOLEAN, NEW delivered \in BOOLEAN,
         HandleRestore(readable, delivered)
  PROVE  /\ Restarts
         /\ lastGood' = lastGood /\ clState' \in LockState
         /\ clState' \in {clState, "OFF", lastGood}
         /\ \/ doorState' = doorState
            \/ doorState' = lastGood /\ doorState' = clState'
<1>1. /\ power' = "running" /\ power # "running" /\ lastGood' = lastGood
      /\ result' = RestoreResult([nvm EXCEPT !.available = @ /\ readable])
      /\ clState' \in IF result'.restoreStatus = "RESTORED" THEN {result'.restoredClState}
                      ELSE {clState, result'.restoredClState}
      /\ doorState' = IF result'.syncRequested /\ delivered THEN result'.restoredClState
                      ELSE doorState
  BY DEF HandleRestore
<1>2. /\ result'.restoredClState \in LockState
      /\ result'.restoreStatus = "RESTORED" => result'.restoredClState = lastGood
      /\ result'.restoreStatus # "RESTORED" => result'.restoredClState = "OFF"
      /\ result'.syncRequested => result'.restoreStatus = "RESTORED"
  <2> DEFINE m == [nvm EXCEPT !.available = @ /\ readable]
  <2>1. /\ m \in Memory /\ (m.available => nvm.available)
        /\ m.valid = nvm.valid /\ m.state = nvm.state
    BY ReadType DEF RestoreInv
  <2>2. result' = RestoreResult(m)
    BY <1>1
  <2> HIDE DEF m
  <2>3. /\ result' \in Result
        /\ result'.restoreStatus = "RESTORED" =>
             /\ m.available /\ m.valid /\ m.state \in LockState
             /\ result'.restoredClState = m.state
        /\ result'.restoreStatus # "RESTORED" => result'.restoredClState = "OFF"
        /\ result'.syncRequested => result'.restoreStatus = "RESTORED"
    BY <2>1, <2>2, RestoreType DEF RestoreInv, TypeOK
  <2>4. result'.restoredClState \in LockState
    BY <2>3 DEF Result
  <2> QED
    BY <2>1, <2>3, <2>4 DEF RestoreInv, RecordIsLast
<1>3. clState \in LockState
  BY DEF RestoreInv, TypeOK
<1> QED
  BY <1>1, <1>2, <1>3 DEF Restarts

\* The steps of F-05, F-10 and the power supply: RAM is lost, or F-05 restores, or the lock and
\* what is remembered of it stay as they are.
LEMMA PowerEffect ==
  ASSUME PowerStep
  PROVE  \/ ZeroedRam /\ ecu' = FG!EcuIdle /\ UNCHANGED <<doorState, lastGood, settled>>
         \/ /\ \E readable, delivered \in BOOLEAN : HandleRestore(readable, delivered)
            /\ ecu' = FG!EcuIdle /\ settled' = settled
         \/ /\ ecu' \in {ecu, FG!EcuIdle}
            /\ UNCHANGED <<clState, doorState, lastGood, settled>>
<1>1. /\ ecu' = IF power' \in {"off", "starting"} \/ Restarts THEN FG!EcuIdle ELSE ecu
      /\ settled' = settled
  BY DEF PowerStep
<1>2. CASE Start \/ PowerLoss \/ PowerLossInWrite
  BY <1>1, <1>2 DEF Start, PowerLoss, PowerLossInWrite
<1>3. CASE \E readable, delivered \in BOOLEAN : HandleRestore(readable, delivered)
  <2>1. Restarts
    BY <1>3 DEF HandleRestore, Restarts
  <2> QED
    BY <1>1, <1>3, <2>1
<1>4. CASE UNCHANGED <<clState, doorState, lastGood>>
  BY <1>1, <1>4
<1> QED
  BY <1>2, <1>3, <1>4 DEF PowerStep, IgnitionOff, InitF05, InitF10, HandleEvent

\* An answer and a completed save keep their word until the next command.
LEMMA AgreementStep == VehicleInv /\ [VehicleNext]_vehicleVars => Agreement'
<1> SUFFICES ASSUME VehicleInv, [VehicleNext]_vehicleVars PROVE Agreement'
  OBVIOUS
<1> USE DEF Agreement
<1>1. /\ VehicleTypeOK /\ Agreement /\ RestoreInv
      /\ clState \in LockState /\ doorState \in LockState
  BY DEF VehicleInv, VehicleTypeOK, TypeOK
<1>2. CASE UNCHANGED <<ecu, clState, doorState, settled, lastGood>>
  BY <1>1, <1>2
<1>3. ASSUME NEW target \in LockState, NEW link \in FG!Link, FG!Send(target, link), settled' = "none"
      PROVE  Agreement'
  BY <1>1, <1>3, SendEffect
<1>4. ASSUME NEW switch \in FG!SwitchRequest, NEW fault \in BOOLEAN, NEW link \in FG!Link,
             FrontCycle(switch, fault, link)
      PROVE  Agreement'
  BY <1>1, <1>2, <1>3, <1>4, FrontEffect
<1>5. ASSUME NEW link \in FG!Link, RearCycle(link) PROVE Agreement'
  <2>1. "ON" \in LockState
    BY DEF LockState
  <2> QED
    BY <1>1, <1>2, <1>3, <1>5, <2>1, RearEffect
<1>6. ASSUME NEW write \in Write, Save(write) PROVE Agreement'
  <2>1. UNCHANGED <<ecu, clState, doorState>>
    BY <1>6 DEF Save, HandleIgnitionOff
  <2>2. CASE manager /\ Stored(write)
    <3>1. /\ lastGood' = clState
          /\ settled' = IF ecu.ackStatus = "RECEIVED" THEN clState ELSE settled
      BY <1>6, <2>2 DEF Save, HandleIgnitionOff
    <3>2. settled \in LockState \cup {"none"} /\ lastGood \in LockState \cup {"none"}
      BY <1>1 DEF VehicleTypeOK, TypeOK
    <3> QED
      BY <1>1, <2>1, <3>1, <3>2 DEF LockState
  <2>3. CASE ~(manager /\ Stored(write))
    <3>1. lastGood' = lastGood /\ settled' = settled
      BY <1>6, <2>3 DEF Save, HandleIgnitionOff
    <3> QED
      BY <1>1, <2>1, <3>1
  <2> QED
    BY <2>2, <2>3
<1>7. CASE PowerStep
  <2>1. FG!EcuIdle.ackStatus # "RECEIVED"
    BY DEF FG!EcuIdle
  <2>2. ASSUME NEW readable \in BOOLEAN, NEW delivered \in BOOLEAN,
               HandleRestore(readable, delivered), ecu' = FG!EcuIdle, settled' = settled
        PROVE  Agreement'
    BY <1>1, <2>1, <2>2, RestoreEffect
  <2>3. CASE ZeroedRam /\ ecu' = FG!EcuIdle /\ UNCHANGED <<doorState, lastGood, settled>>
    BY <1>1, <2>1, <2>3 DEF ZeroedRam
  <2>4. CASE ecu' \in {ecu, FG!EcuIdle} /\ UNCHANGED <<clState, doorState, lastGood, settled>>
    BY <1>1, <2>1, <2>4
  <2> QED
    BY <1>7, <2>2, <2>3, <2>4, PowerEffect
<1> QED
  BY <1>2, <1>4, <1>5, <1>6, <1>7 DEF VehicleNext, Bus, vehicleVars, vars

-----------------------------------------------------------------------------
(* The theorems.                                                           *)

\* Every type is kept across any number of ignition cycles.
THEOREM VehicleTypeCorrect == VehicleSpec => []VehicleTypeOK
<1>1. VehicleInit => VehicleTypeOK
  <2> SUFFICES ASSUME VehicleInit PROVE VehicleTypeOK
    OBVIOUS
  <2>1. TypeOK
    BY InitType DEF VehicleInit
  <2>2. FG!EcuIdle \in FG!EcuOutput
    BY DEF FG!EcuIdle, FG!EcuOutput
  <2> QED
    BY <2>1, <2>2 DEF VehicleInit, VehicleTypeOK, FG!Speed, FG!Verdict
<1> QED
  BY <1>1, VehicleTypeStep, PTL DEF VehicleSpec

\* With F-02 and F-08 as the functions that command the lock the vehicle implements PowerCycle.
THEOREM PowerCycleImplemented == VehicleSpec => ImplementsPowerCycle
<1>1. VehicleInit => Init
  BY DEF VehicleInit
<1> QED
  BY <1>1, StepRefines, VehicleTypeCorrect, PTL DEF VehicleSpec, ImplementsPowerCycle, Spec

\* The inductive invariant holds; what PowerCycle's memory promises comes with the refinement.
LEMMA VehicleInvariance == VehicleSpec => []VehicleInv
<1>1. VehicleInit => Agreement
  BY DEF VehicleInit, Agreement, FG!EcuIdle
<1>2. VehicleSpec => []RestoreInv
  BY PowerCycleImplemented, RestoreInvariance DEF ImplementsPowerCycle
<1> QED
  BY <1>1, <1>2, AgreementStep, VehicleTypeCorrect, PTL DEF VehicleSpec, VehicleInv

\* The vehicle implements LossyLock across restarts.
THEOREM VehicleLossyLock == VehicleSpec => ImplementsLossyLock
<1>1. VehicleInit => Lock!Init
  BY DEF VehicleInit, Init, Lock!Init, FG!Answer, FG!EcuIdle, LockState, Lock!LockState
<1>2. VehicleInv /\ [VehicleNext]_vehicleVars => [Lock!Next]_(Lock!lockVars)
  <2> SUFFICES ASSUME VehicleInv, [VehicleNext]_vehicleVars PROVE [Lock!Next]_(Lock!lockVars)
    OBVIOUS
  <2>1. /\ VehicleTypeOK /\ RestoreInv
        /\ clState \in LockState /\ doorState \in LockState
        /\ Lock!LockState = LockState
    BY DEF VehicleInv, VehicleTypeOK, TypeOK, LockState, Lock!LockState
  <2>2. CASE UNCHANGED <<ecu, clState, doorState>>
    BY <2>2 DEF Lock!lockVars, FG!Answer
  <2>3. ASSUME NEW target \in LockState, NEW link \in FG!Link, FG!Send(target, link)
        PROVE  Lock!Next
    <3>1. CASE clState' = target /\ doorState' = target
               /\ ecu'.ackStatus = "RECEIVED" /\ ecu'.dtc = "NONE"
      BY <2>1, <3>1 DEF Lock!Next, Lock!Acknowledged, FG!Answer
    <3>2. CASE clState' = clState /\ doorState' \in {doorState, target}
               /\ ecu'.ackStatus = "NOT_RECEIVED" /\ ecu'.dtc = "ECU_ACK_FAIL"
      BY <2>1, <3>2 DEF Lock!Next, Lock!Unacknowledged, FG!Answer
    <3> QED
      BY <2>1, <2>3, <3>1, <3>2, SendEffect
  <2>4. ASSUME NEW switch \in FG!SwitchRequest, NEW fault \in BOOLEAN, NEW link \in FG!Link,
               FrontCycle(switch, fault, link)
        PROVE  [Lock!Next]_(Lock!lockVars)
    BY <2>1, <2>2, <2>3, <2>4, FrontEffect
  <2>5. ASSUME NEW link \in FG!Link, RearCycle(link) PROVE [Lock!Next]_(Lock!lockVars)
    <3>1. "ON" \in LockState
      BY DEF LockState
    <3> QED
      BY <2>1, <2>2, <2>3, <2>5, <3>1, RearEffect
  <2>6. ASSUME ecu' = FG!EcuIdle, clState' \in LockState, doorState' \in {doorState, clState'}
        PROVE  Lock!Next
    <3>1. FG!Answer' = "none"
      BY <2>6 DEF FG!Answer, FG!EcuIdle
    <3> QED
      BY <2>1, <2>6, <3>1 DEF Lock!Next, Lock!Restart
  <2>7. CASE PowerStep
    <3>1. ASSUME NEW readable \in BOOLEAN, NEW delivered \in BOOLEAN,
                 HandleRestore(readable, delivered), ecu' = FG!EcuIdle
          PROVE  Lock!Next
      BY <2>1, <2>6, <3>1, RestoreEffect
    <3>2. CASE ZeroedRam /\ ecu' = FG!EcuIdle /\ UNCHANGED <<doorState, lastGood, settled>>
      BY <2>1, <2>6, <3>2 DEF ZeroedRam, LockState
    <3>3. CASE ecu' \in {ecu, FG!EcuIdle} /\ UNCHANGED <<clState, doorState, lastGood, settled>>
      BY <2>1, <2>2, <2>6, <3>3
    <3> QED
      BY <2>7, <3>1, <3>2, <3>3, PowerEffect
  <2> QED
    BY <2>2, <2>4, <2>5, <2>7
    DEF VehicleNext, Bus, Save, HandleIgnitionOff, vehicleVars, vars
<1> QED
  BY <1>1, <1>2, VehicleInvariance, PTL DEF VehicleSpec, ImplementsLossyLock, Lock!Spec

\* What unlocks the doors, over any number of ignition cycles: a crash, the driver on a slow
\* vehicle without a fault, or a restart that found OFF saved.
THEOREM VehicleUnlocksAuthorised == VehicleSpec => VehicleUnlockAuthorised
<1> DEFINE A == (doorState = "ON" /\ doorState' = "OFF")
                  => \/ power = "running" /\ crash
                     \/ /\ power = "running" /\ speed = "slow"
                        /\ \E link \in FG!Link : FrontCycle("OFF", FALSE, link)
                     \/ Restarts /\ lastGood = "OFF"
<1>1. VehicleInv /\ [VehicleNext]_vehicleVars => [A]_vehicleVars
  <2> SUFFICES ASSUME VehicleInv, [VehicleNext]_vehicleVars,
                      doorState = "ON", doorState' = "OFF"
               PROVE  A
    OBVIOUS
  <2>1. VehicleTypeOK /\ RestoreInv /\ clState \in LockState /\ doorState \in LockState
    BY DEF VehicleInv, VehicleTypeOK, TypeOK
  <2>2. ASSUME NEW switch \in FG!SwitchRequest, NEW fault \in BOOLEAN, NEW link \in FG!Link,
               FrontCycle(switch, fault, link)
        PROVE  A
    <3>1. PICK target \in LockState :
                 /\ FG!Send(target, link)
                 /\ target = "OFF" =>
                      /\ power = "running"
                      /\ \/ crash
                         \/ switch = "OFF" /\ fault = FALSE /\ speed = "slow"
      BY <2>1, <2>2, FrontEffect
    <3>2. target = "OFF"
      BY <2>1, <3>1, SendEffect
    <3> QED
      BY <2>2, <3>1, <3>2
  <2>3. ASSUME NEW link \in FG!Link, RearCycle(link) PROVE FALSE
    <3>1. FG!Send("ON", link) /\ "ON" \in LockState
      BY <2>1, <2>3, RearEffect DEF LockState
    <3> QED
      BY <2>1, <3>1, SendEffect
  <2>4. CASE PowerStep
    <3>1. PICK readable \in BOOLEAN, delivered \in BOOLEAN : HandleRestore(readable, delivered)
      BY <2>4, PowerEffect
    <3> QED
      BY <2>1, <3>1, RestoreEffect
  <2> QED
    BY <2>2, <2>3, <2>4 DEF VehicleNext, Bus, Save, HandleIgnitionOff, vehicleVars, vars
<1> QED
  BY <1>1, VehicleInvariance, PTL DEF VehicleSpec, VehicleUnlockAuthorised

\* After an acknowledged command and a completed save, and until the next command, a restart moves
\* the doors only from a saved ON over which a default OFF was saved.
THEOREM RestartsKeepDoor == VehicleSpec => RestartKeepsDoor
<1>1. VehicleInv /\ [VehicleNext]_vehicleVars
        => [(Restarts /\ settled # "none" /\ doorState' # doorState)
              => settled = "ON" /\ lastGood = "OFF"]_vehicleVars
  <2> SUFFICES ASSUME VehicleInv, [VehicleNext]_vehicleVars,
                      Restarts, settled # "none", doorState' # doorState
               PROVE  settled = "ON" /\ lastGood = "OFF"
    OBVIOUS
  <2>1. /\ VehicleTypeOK /\ RestoreInv /\ Agreement
        /\ settled \in LockState /\ lastGood \in LockState
    BY DEF VehicleInv, VehicleTypeOK, TypeOK, Agreement
  <2>2. PowerStep
    BY <2>1, FrontEffect, RearEffect
    DEF VehicleNext, Restarts, Bus, Save, HandleIgnitionOff, vehicleVars, vars
  <2>3. PICK readable \in BOOLEAN, delivered \in BOOLEAN : HandleRestore(readable, delivered)
    BY <2>2, PowerEffect
  <2>4. doorState' = lastGood
    BY <2>1, <2>3, RestoreEffect
  <2>5. lastGood # settled
    BY <2>1, <2>4 DEF Agreement
  <2> QED
    BY <2>1, <2>5 DEF Agreement, LockState
<1> QED
  BY <1>1, VehicleInvariance, PTL DEF VehicleSpec, RestartKeepsDoor

\* F-10's summary, or its silence, is true of the doors after an acknowledged command.
THEOREM SummariesTrue == VehicleSpec => SummaryTrue
<1> DEFINE A == (/\ ecu.ackStatus = "RECEIVED"
                 /\ \E queried \in LockState \cup {"failed"} : HandleEvent(queried))
                  => /\ summary'.message = "CL_ON_SUMMARY" => doorState = "ON"
                     /\ (alert.isInitialized /\ ~alert'.alertAlreadyIssued) => doorState = "OFF"
<1>1. VehicleInv => A
  <2> SUFFICES ASSUME VehicleInv, ecu.ackStatus = "RECEIVED",
                      NEW queried \in LockState \cup {"failed"}, HandleEvent(queried)
               PROVE  /\ summary'.message = "CL_ON_SUMMARY" => doorState = "ON"
                      /\ (alert.isInitialized /\ ~alert'.alertAlreadyIssued) => doorState = "OFF"
    OBVIOUS
  <2>1. clState = doorState /\ clState \in LockState /\ alert \in Alert
    BY DEF VehicleInv, Agreement, VehicleTypeOK, TypeOK
  <2>2. /\ queried \in {clState, "failed"}
        /\ summary' = IF Issues(queried) THEN IssueAlert(queried) ELSE NoSummary
        /\ alert' = [alert EXCEPT !.alertAlreadyIssued = @ \/ Issues(queried)]
    BY DEF HandleEvent
  <2>3. summary'.message = "CL_ON_SUMMARY" => Message(queried) = "CL_ON_SUMMARY"
    BY <2>2 DEF NoSummary, IssueAlert
  <2>4. (alert.isInitialized /\ ~alert'.alertAlreadyIssued) => Message(queried) = "NONE"
    <3>1. alert'.alertAlreadyIssued = (alert.alertAlreadyIssued \/ Issues(queried))
      BY <2>1, <2>2 DEF Alert
    <3> QED
      BY <3>1 DEF Issues
  <2>5. /\ Message(queried) = "CL_ON_SUMMARY" => queried = "ON"
        /\ Message(queried) = "NONE" => queried = "OFF"
    BY DEF Message
  <2> QED
    BY <2>1, <2>2, <2>3, <2>4, <2>5
<1> QED
  BY <1>1, VehicleInvariance, PTL DEF SummaryTrue
-----------------------------------------------------------------------------
(* What remains of a crash release.                                        *)

\* As long as the last command was an acknowledged crash release the doors are unlocked.
ReleaseOpens == released => doorState = "OFF"

\* A crash release unlocks, every other command ends the claim, and so does a restart.
LEMMA ReleaseStep ==
  VehicleTypeOK /\ ReleaseOpens /\ [VehicleNext]_vehicleVars => ReleaseOpens'
<1> SUFFICES ASSUME VehicleTypeOK, ReleaseOpens, [VehicleNext]_vehicleVars, released'
             PROVE  doorState' = "OFF"
  BY DEF ReleaseOpens
<1>1. clState \in LockState /\ doorState \in LockState
  BY DEF VehicleTypeOK, TypeOK
<1>2. CASE released /\ doorState' = doorState
  BY <1>2 DEF ReleaseOpens
<1>3. ASSUME NEW switch \in FG!SwitchRequest, NEW fault \in BOOLEAN, NEW link \in FG!Link,
             FrontCycle(switch, fault, link)
      PROVE  doorState' = "OFF"
  <2> DEFINE d == FG!DecideChildLockState(FG!F01_Run(switch), fault)
  <2>1. /\ FG!Command(d, link)
        /\ released' = IF FG!Commands(d)
                       THEN d.decisionReason = "CRASH_DETECTED" /\ link = "acknowledged"
                       ELSE released
        /\ doorState' = doorState \/ FG!Commands(d)
    BY <1>3 DEF FrontCycle, FG!Command
  <2>2. d.decisionReason = "CRASH_DETECTED" => d.targetClState = "OFF"
    BY DEF FG!DecideChildLockState, FG!Target
  <2> HIDE DEF d
  <2>3. CASE FG!Commands(d)
    <3>1. link = "acknowledged" /\ d.targetClState = "OFF" /\ FG!Send("OFF", link)
      BY <2>1, <2>2, <2>3 DEF FG!Command
    <3>2. "OFF" \in LockState
      BY DEF LockState
    <3> QED
      BY <1>1, <3>1, <3>2, SendEffect
  <2> QED
    BY <1>2, <2>1, <2>3
<1>4. ASSUME NEW link \in FG!Link, RearCycle(link) PROVE doorState' = "OFF"
  <2>1. released /\ ~FG!F08_Run.clChanged
    BY <1>4 DEF RearCycle
  <2> QED
    BY <1>2, <1>4, <2>1 DEF RearCycle, FG!Protects
<1>5. CASE PowerStep
  <2>1. released /\ ~Restarts
    BY <1>5 DEF PowerStep
  <2>2. ASSUME NEW readable \in BOOLEAN, NEW delivered \in BOOLEAN,
               HandleRestore(readable, delivered)
        PROVE  FALSE
    BY <2>1, <2>2 DEF HandleRestore, Restarts
  <2> QED
    BY <1>2, <1>5, <2>1, <2>2, PowerEffect
<1> QED
  BY <1>2, <1>3, <1>4, <1>5 DEF VehicleNext, Bus, Save, HandleIgnitionOff, vehicleVars, vars

\* What was saved after a crash release is OFF.
SavedAfterRelease == (released /\ settled # "none") => settled = "OFF"

\* The release itself voids every earlier save, and a save after it stores what the doors are in.
LEMMA SavedStep ==
  VehicleInv /\ ReleaseOpens /\ SavedAfterRelease /\ [VehicleNext]_vehicleVars => SavedAfterRelease'
<1> SUFFICES ASSUME VehicleInv, ReleaseOpens, SavedAfterRelease, [VehicleNext]_vehicleVars,
                    released', settled' # "none"
             PROVE  settled' = "OFF"
  BY DEF SavedAfterRelease
<1>1. VehicleTypeOK /\ Agreement
  BY DEF VehicleInv
<1>2. CASE released /\ settled' = settled
  BY <1>2 DEF SavedAfterRelease
<1>3. ASSUME NEW switch \in FG!SwitchRequest, NEW fault \in BOOLEAN, NEW link \in FG!Link,
             FrontCycle(switch, fault, link)
      PROVE  settled' = "OFF"
  <2> DEFINE d == FG!DecideChildLockState(FG!F01_Run(switch), fault)
  <2>1. /\ settled' = IF FG!Commands(d) THEN "none" ELSE settled
        /\ ~FG!Commands(d) => released' = released
    BY <1>3 DEF FrontCycle
  <2> HIDE DEF d
  <2> QED
    BY <1>2, <2>1
<1>4. ASSUME NEW link \in FG!Link, RearCycle(link) PROVE settled' = "OFF"
  BY <1>2, <1>4 DEF RearCycle
<1>5. ASSUME NEW write \in Write, Save(write) PROVE settled' = "OFF"
  <2>1. released
    BY <1>5 DEF Save
  <2>2. settled' = settled \/ (settled' = clState /\ ecu.ackStatus = "RECEIVED")
    BY <1>5 DEF Save
  <2> QED
    BY <1>1, <1>2, <2>1, <2>2 DEF ReleaseOpens, Agreement
<1>6. CASE PowerStep \/ Bus
  BY <1>2, <1>6 DEF PowerStep, Bus
<1> QED
  BY <1>2, <1>3, <1>4, <1>5, <1>6 DEF VehicleNext, vehicleVars

\* What ReleaseSurvivesReset asks for and the code does not give holds once the release was
\* saved: if a save completed after the acknowledged crash release and nothing was commanded
\* since, the restart leaves the doors unlocked, whatever became of the record, the read and the
\* request to the Door ECU.
THEOREM SavedReleaseSurvives ==
  VehicleSpec => [][(power = "starting" /\ power' = "running" /\ released /\ settled # "none")
                      => doorState' = "OFF"]_vehicleVars
<1> DEFINE Kept == [(Restarts /\ settled # "none" /\ doorState' # doorState)
                      => settled = "ON" /\ lastGood = "OFF"]_vehicleVars
           A == [(power = "starting" /\ power' = "running" /\ released /\ settled # "none")
                   => doorState' = "OFF"]_vehicleVars
<1>1. VehicleInit => ReleaseOpens /\ SavedAfterRelease
  BY DEF VehicleInit, ReleaseOpens, SavedAfterRelease
<1>2. VehicleSpec => [](ReleaseOpens /\ SavedAfterRelease)
  BY <1>1, ReleaseStep, SavedStep, VehicleInvariance, PTL DEF VehicleSpec, VehicleInv
<1>3. VehicleSpec => [][(Restarts /\ settled # "none" /\ doorState' # doorState)
                          => settled = "ON" /\ lastGood = "OFF"]_vehicleVars
  BY RestartsKeepDoor DEF RestartKeepsDoor
<1>4. ReleaseOpens /\ SavedAfterRelease /\ Kept => A
  BY DEF ReleaseOpens, SavedAfterRelease, Restarts
<1> QED
  BY <1>2, <1>3, <1>4, PTL
=============================================================================
