-------------------------- MODULE ExitSafety_proof --------------------------
(***************************************************************************)
(* FG-02 beside FG-01, for all values of the constants: what F-02 and F-08 *)
(* promise of the doors still holds when both command them in any order.   *)
(***************************************************************************)
EXTENDS ExitSafety, DoorLockControl_proof, TLAPS

USE DEF DecisionResult, EcuOutput, BlockOutput

-----------------------------------------------------------------------------
(* F-08's command.                                                         *)

\* The pieces of a rear cycle: F-08 either leaves the lock alone or sends ON for a remembered OFF.
LEMMA RearCycleEffect ==
  ASSUME NEW link \in Link, RearCycle(link)
  PROVE  /\ UNCHANGED <<ignitionState, now, vehicleSpeedKmh, speedTimestampMs, speedAge, crash,
                        input, decision, block, risk, logger>>
         /\ \/ UNCHANGED <<ecu, doorState, clState>>
            \/ clState = "OFF" /\ Send("ON", link)
         /\ (ignitionState = "ON" /\ risk # "clear" /\ clState = "OFF") => Send("ON", link)
<1>1. CASE ignitionState # "ON" \/ risk = "clear"
  BY <1>1 DEF RearCycle, Protects, F08_Run, Neutral
<1>2. CASE ignitionState = "ON" /\ risk # "clear"
  <2>1. F08_Run = Protect
    BY <1>2 DEF F08_Run
  <2>2. CASE clState = "OFF"
    <3>1. Protect.clChanged /\ Protect.targetCLState = "ON"
      BY <2>2 DEF Protect
    <3> QED
      BY <2>1, <2>2, <3>1 DEF RearCycle, Protects
  <2>3. CASE clState # "OFF"
    <3>1. ~Protect.clChanged
      BY <2>3 DEF Protect
    <3> QED
      BY <2>1, <2>3, <3>1 DEF RearCycle, Protects
  <2> QED
    BY <2>2, <2>3
<1> QED
  BY <1>1, <1>2

\* FG-01's part of a step: a step of DoorLockControl, or a rear cycle, or none.
LEMMA StepCases ==
  ASSUME [AssistNext]_allVars
  PROVE  \/ [Next]_vars
         \/ \E link \in Link : RearCycle(link)
<1>1. CASE DoorStep
  BY <1>1 DEF DoorStep, Next
<1>2. CASE AssistStep
  BY <1>2 DEF AssistStep, F06_Init, Assess, Departure
<1>3. CASE UNCHANGED allVars
  BY <1>3 DEF allVars
<1> QED
  BY <1>1, <1>2, <1>3 DEF AssistNext

-----------------------------------------------------------------------------
(* FG-01's invariant survives FG-02.                                       *)

\* A rear cycle moves door and remembered state together or raises the trouble code.
LEMMA RearCycleKeepsInv ==
  ASSUME Inv, NEW link \in Link, RearCycle(link)
  PROVE  Inv'
<1> USE DEF Inv
<1>1. UNCHANGED <<ignitionState, now, vehicleSpeedKmh, speedTimestampMs, speedAge, crash,
                  input, decision, block>>
  BY RearCycleEffect
<1>2. SpeedAgeSound'
  BY <1>1 DEF SpeedAgeSound
<1>3. CASE UNCHANGED <<ecu, doorState, clState>>
  BY <1>1, <1>2, <1>3 DEF TypeOK, DisagreementReported
<1>4. CASE Send("ON", link)
  <2>1. "ON" \in LockState /\ clState \in LockState /\ doorState \in LockState
    BY DEF LockState, TypeOK
  <2>2. /\ ecu' \in EcuOutput
        /\ clState' \in LockState /\ doorState' \in LockState
        /\ clState' # doorState' => ecu'.dtc = "ECU_ACK_FAIL"
    BY <1>4, <2>1, SendEffect
  <2> QED
    BY <1>1, <1>2, <2>2 DEF TypeOK, DisagreementReported
<1> QED
  BY <1>3, <1>4, RearCycleEffect

\* FG-01's inductive invariant is one of the composition.
LEMMA AssistInvariance == AssistSpec => []Inv
<1>1. AssistInit => Inv
  <2>1. Init => TypeOK
    BY SpeedAssumption, ClockAssumption
    DEF Init, TypeOK, LockState, Speed, SpeedAge, SwitchRequest, DecisionReason, EcuIdle, HandleOpenRequest
  <2>2. Init => SpeedAgeSound /\ DisagreementReported
    BY WrapSubType DEF Init, SpeedAgeSound, DisagreementReported
  <2> QED
    BY <2>1, <2>2 DEF AssistInit, Inv
<1>2. Inv /\ [AssistNext]_allVars => Inv'
  <2> SUFFICES ASSUME Inv, [AssistNext]_allVars PROVE Inv'
    OBVIOUS
  <2>1. CASE [Next]_vars
    BY <2>1, TypeStep, SpeedAgeStep, DisagreementStep DEF Inv
  <2>2. ASSUME NEW link \in Link, RearCycle(link) PROVE Inv'
    BY <2>2, RearCycleKeepsInv
  <2> QED
    BY <2>1, <2>2, StepCases
<1> QED
  BY <1>1, <1>2, PTL DEF AssistSpec

\* With F-02 and F-08 commanding the same lock in any order, over a link that loses commands and
\* acknowledgements, the remembered state differs from the door only under ECU_ACK_FAIL.
THEOREM AssistDisagreementsReported == AssistSpec => []DisagreementReported
BY AssistInvariance, PTL DEF Inv

\* A cycle of F-08 that sees a risk ends with locked doors or the trouble code.
LEMMA ProtectionStep ==
  ASSUME Inv, ignitionState = "ON", risk # "clear", NEW link \in Link, RearCycle(link)
  PROVE  doorState' = "ON" \/ ecu'.dtc = "ECU_ACK_FAIL"
<1> USE DEF Inv
<1>1. clState \in LockState /\ doorState \in LockState /\ "ON" \in LockState
  BY DEF TypeOK, LockState
<1>2. CASE clState = "OFF"
  <2>1. Send("ON", link)
    BY <1>2, RearCycleEffect
  <2>2. clState' \in {clState, "ON"} /\ doorState' \in {doorState, "ON"}
        /\ (clState' # doorState' => ecu'.dtc = "ECU_ACK_FAIL")
    BY <1>1, <2>1, SendEffect
  <2>3. link = "acknowledged" => clState' = "ON"
    BY <2>1 DEF Send, HandleCommand, EcuIdle
  <2>4. link # "acknowledged" => ecu'.dtc = "ECU_ACK_FAIL"
    BY <2>1 DEF Send, HandleCommand
  <2> QED
    BY <2>2, <2>3, <2>4
<1>3. CASE clState = "ON"
  <2>1. UNCHANGED <<ecu, doorState, clState>>
    BY <1>3, RearCycleEffect
  <2> QED
    BY <1>3, <2>1 DEF DisagreementReported
<1> QED
  BY <1>1, <1>2, <1>3 DEF LockState

-----------------------------------------------------------------------------
(* Types, and what the driver is shown.                                    *)

Shown == [alertType : OccupancyAlert,
          given : [display : WarningMsgId, sound : BOOLEAN, log : EventType, dtc : FaultFlag]]

\* F-06 gives the callbacks nothing but what it is handed.
LEMMA ProcessType ==
  ASSUME NEW msgId \in WarningMsgId, NEW soundReq \in BOOLEAN, NEW evtType \in EventType,
         NEW fault \in FaultFlag
  PROVE  LET given == F06_Process(msgId, soundReq, evtType, fault)
         IN  /\ given \in [display : WarningMsgId, sound : BOOLEAN, log : EventType, dtc : FaultFlag]
             /\ given.display \in {"NONE", msgId}
BY DEF F06_Process, Silent, WarningMsgId, EventType, FaultFlag

\* What a cycle of F-08 shows is well typed, and it shows something only of a risk or a sensor
\* fault while the ignition is on.
LEMMA RearCycleShows ==
  ASSUME AssistTypeOK, NEW link \in Link, RearCycle(link)
  PROVE  /\ hmi' \in Shown
         /\ hmi'.alertType = "NONE"
         /\ hmi'.given.display # "NONE" => ignitionState = "ON" /\ risk # "clear"
<1> DEFINE out == F08_Run
           event == IF ~out.eventLog THEN "NONE"
                    ELSE IF risk = "fault" THEN "ERROR" ELSE "SAFETY_ACTION"
           flags == (IF out.clChanged THEN {ecu'.dtc} \ {"NONE"} ELSE {})
                      \cup (IF out.eventLog /\ risk = "fault" THEN {"REAR_SENSOR"} ELSE {})
<1>1. /\ out.warningMsgId \in WarningMsgId /\ out.warningSound \in BOOLEAN
      /\ ignitionState # "ON" \/ risk = "clear" => out.warningMsgId = "NONE"
  BY DEF F08_Run, Neutral, Protect, WarningMsgId
<1>2. event \in EventType
  BY DEF EventType
<1>3. ecu'.dtc \in {"NONE", "ECU_ACK_FAIL"}
  <2>1. CASE UNCHANGED <<ecu, doorState, clState>>
    BY <2>1 DEF AssistTypeOK, TypeOK
  <2>2. CASE Send("ON", link)
    BY <2>2 DEF Send, HandleCommand, EcuIdle
  <2> QED
    BY <2>1, <2>2, RearCycleEffect
<1>4. flags \in FaultFlag
  BY <1>3 DEF FaultFlag
<1>5. hmi' = [alertType |-> "NONE",
              given |-> F06_Process(out.warningMsgId, out.warningSound, event, flags)]
  BY DEF RearCycle
<1> HIDE DEF out, event, flags
<1> QED
  BY <1>1, <1>2, <1>4, <1>5, ProcessType DEF Shown, OccupancyAlert

\* What F-09 shows at departure is well typed; the status says a remembered ON, the
\* recommendation a remembered OFF.
LEMMA DepartureShows ==
  ASSUME AssistTypeOK, NEW occupied \in BOOLEAN, NEW hmiHealth \in BOOLEAN,
         Departure(occupied, hmiHealth)
  PROVE  /\ hmi' \in Shown
         /\ hmi'.given.display \in {"NONE", "CHILD_LOCK_ON"}
         /\ hmi'.given.display = "CHILD_LOCK_ON" => clState = "ON"
         /\ hmi'.alertType = "RECOMMENDATION" => clState = "OFF"
<1> DEFINE alert == F09_Run(TRUE, occupied, hmiHealth)
           event == IF alert.eventLog THEN "SAFETY_ACTION" ELSE "NONE"
<1>1. clState \in {"OFF", "ON"}
  BY DEF AssistTypeOK, TypeOK, LockState
<1>2. /\ alert.alertType \in OccupancyAlert
      /\ alert.alertMessageId \in {"NONE", "CHILD_LOCK_ON"}
      /\ alert.alertMessageId = "CHILD_LOCK_ON" => clState = "ON"
      /\ alert.alertType = "RECOMMENDATION" => clState = "OFF"
  BY <1>1 DEF F09_Run, OccupancyAlert
<1>3. event \in EventType /\ {} \in FaultFlag /\ {"NONE", "CHILD_LOCK_ON"} \subseteq WarningMsgId
  BY DEF EventType, FaultFlag, WarningMsgId
<1>4. hmi' = [alertType |-> alert.alertType,
              given |-> F06_Process(alert.alertMessageId, FALSE, event, {})]
  BY DEF Departure
<1> HIDE DEF alert, event
<1>5. alert.alertMessageId \in WarningMsgId
  BY <1>2, <1>3
<1>6. LET given == F06_Process(alert.alertMessageId, FALSE, event, {})
      IN  /\ given \in [display : WarningMsgId, sound : BOOLEAN, log : EventType, dtc : FaultFlag]
          /\ given.display \in {"NONE", alert.alertMessageId}
  BY <1>3, <1>5, ProcessType
<1> QED
  BY <1>2, <1>4, <1>6 DEF Shown

\* Showing nothing is well typed.
LEMMA SilentType == Silent \in Shown
BY DEF Silent, Shown, OccupancyAlert, WarningMsgId, EventType, FaultFlag

\* Every variable of FG-02 keeps its type beside those of FG-01.
THEOREM AssistTypeCorrect == AssistSpec => []AssistTypeOK
<1>1. AssistInit => risk \in Verdict /\ logger \in BOOLEAN /\ hmi \in Shown
  BY SilentType DEF AssistInit, InitAssist, Verdict
<1>2. AssistTypeOK /\ [AssistNext]_allVars => (risk \in Verdict /\ logger \in BOOLEAN /\ hmi \in Shown)'
  <2> SUFFICES ASSUME AssistTypeOK, [AssistNext]_allVars
               PROVE  risk' \in Verdict /\ logger' \in BOOLEAN /\ hmi' \in Shown
    OBVIOUS
  <2>1. risk \in Verdict /\ logger \in BOOLEAN /\ hmi \in Shown
    BY DEF AssistTypeOK, Shown
  <2>2. ASSUME NEW link \in Link, RearCycle(link) PROVE hmi' \in Shown /\ UNCHANGED <<risk, logger>>
    BY <2>2, RearCycleShows DEF RearCycle
  <2>3. ASSUME NEW occupied \in BOOLEAN, NEW hmiHealth \in BOOLEAN, Departure(occupied, hmiHealth)
        PROVE  hmi' \in Shown /\ UNCHANGED <<risk, logger>>
    BY <2>3, DepartureShows DEF Departure
  <2> QED
    BY <2>1, <2>2, <2>3, SilentType DEF AssistNext, DoorStep, AssistStep, F06_Init, Assess, allVars
<1> QED
  BY <1>1, <1>2, AssistInvariance, PTL DEF AssistSpec, Inv, AssistTypeOK, Shown

\* What the driver is told of the lock is true of the doors, unless the last command went
\* unacknowledged, whatever F-02 and F-08 commanded in turn.
THEOREM DisplaysTrue == AssistSpec => []DisplayTrue
<1>1. AssistInit => DisplayTrue
  BY DEF AssistInit, InitAssist, Silent, DisplayTrue
<1>2. AssistTypeOK /\ Inv /\ Inv' /\ [AssistNext]_allVars /\ DisplayTrue => DisplayTrue'
  <2> SUFFICES ASSUME AssistTypeOK, Inv, Inv', [AssistNext]_allVars, DisplayTrue, ecu'.dtc = "NONE"
               PROVE  /\ hmi'.given.display \in {"SENSOR_FAULT", "CHILD_LOCK_ON", "CL_ALREADY_ON"}
                           => doorState' = "ON"
                      /\ hmi'.alertType = "RECOMMENDATION" => doorState' = "OFF"
    BY DEF DisplayTrue
  <2>1. clState' = doorState'
    BY DEF Inv, DisagreementReported
  <2>2. ASSUME NEW link \in Link, RearCycle(link)
        PROVE  hmi'.given.display # "NONE" => doorState' = "ON"
    <3> SUFFICES ASSUME hmi'.given.display # "NONE" PROVE doorState' = "ON"
      OBVIOUS
    <3>1. ignitionState = "ON" /\ risk # "clear"
      BY <2>2, RearCycleShows
    <3> QED
      BY <2>2, <3>1, ProtectionStep
  <2>3. ASSUME NEW occupied \in BOOLEAN, NEW hmiHealth \in BOOLEAN, Departure(occupied, hmiHealth)
        PROVE  /\ hmi'.given.display \in {"SENSOR_FAULT", "CHILD_LOCK_ON", "CL_ALREADY_ON"}
                    => doorState' = "ON"
               /\ hmi'.alertType = "RECOMMENDATION" => doorState' = "OFF"
    <3>1. clState' = clState
      BY <2>3 DEF Departure, vars
    <3> QED
      BY <2>1, <2>3, <3>1, DepartureShows
  <2>4. CASE hmi' = Silent
    BY <2>4 DEF Silent
  <2>5. CASE UNCHANGED allVars
    BY <2>5 DEF allVars, vars, DisplayTrue
  <2>6. ASSUME NEW link \in Link, RearCycle(link) PROVE hmi'.alertType # "RECOMMENDATION"
    BY <2>6, RearCycleShows
  <2> QED
    BY <2>2, <2>3, <2>4, <2>5, <2>6 DEF AssistNext, DoorStep, AssistStep, F06_Init, Assess
<1> QED
  BY <1>1, <1>2, AssistTypeCorrect, AssistInvariance, PTL DEF AssistSpec

-----------------------------------------------------------------------------
(* What a step may never do.                                               *)

\* F-08 adds no way to unlock the rear doors to the two of F-02.
THEOREM AssistUnlocksAuthorised == AssistSpec => UnlockAuthorised
<1> DEFINE A == (doorState = "ON" /\ doorState' = "OFF")
                  => \/ ValidCrash
                     \/ /\ ignitionState = "ON"
                        /\ input'.switchRequest = "OFF" /\ ~input'.otherFault
                        /\ vehicleSpeedKmh = "slow" /\ Fresh
<1>1. Inv /\ [AssistNext]_allVars => [A]_vars
  <2> SUFFICES ASSUME Inv, [AssistNext]_allVars PROVE A
    OBVIOUS
  <2>1. CASE [Next]_vars
    BY <2>1, UnlockStep
  <2>2. ASSUME NEW link \in Link, RearCycle(link) PROVE A
    <3>1. CASE UNCHANGED doorState
      BY <3>1
    <3>2. CASE Send("ON", link)
      <4>1. doorState' \in {doorState, "ON"}
        BY <3>2, SendEffect DEF LockState, Inv, TypeOK
      <4> QED
        BY <4>1
    <3> QED
      BY <2>2, <3>1, <3>2, RearCycleEffect
  <2> QED
    BY <2>1, <2>2, StepCases
<1> QED
  BY <1>1, AssistInvariance, PTL DEF AssistSpec, UnlockAuthorised

\* A cycle in which F-08 finds a risk or a sensor fault ends with the doors locked or ECU_ACK_FAIL
\* raised, whatever was commanded and lost before.
THEOREM ProtectionAlwaysHolds == AssistSpec => ProtectionHolds
<1> DEFINE A == (ignitionState = "ON" /\ risk # "clear" /\ \E link \in Link : RearCycle(link))
                  => doorState' = "ON" \/ ecu'.dtc = "ECU_ACK_FAIL"
<1>1. Inv => [A]_allVars
  BY ProtectionStep
<1> QED
  BY <1>1, AssistInvariance, PTL DEF AssistSpec, ProtectionHolds

\* In a crash only a cycle of F-08 that finds a risk, or a sensor fault, and a remembered OFF
\* locks an unlocked door: F-02 and every other step of FG-01 and FG-02 respects the crash.
THEOREM OnlyF08LocksInCrash ==
  AssistSpec => [][(ValidCrash /\ doorState = "OFF" /\ doorState' = "ON")
                     => /\ risk # "clear" /\ clState = "OFF"
                        /\ \E link \in Link : RearCycle(link)]_allVars
<1> DEFINE A == (ValidCrash /\ doorState = "OFF" /\ doorState' = "ON")
                  => /\ risk # "clear" /\ clState = "OFF"
                     /\ \E link \in Link : RearCycle(link)
<1>1. Inv /\ [AssistNext]_allVars => [A]_allVars
  <2> SUFFICES ASSUME Inv, [AssistNext]_allVars, ValidCrash, doorState = "OFF", doorState' = "ON"
               PROVE  /\ risk # "clear" /\ clState = "OFF"
                      /\ \E link \in Link : RearCycle(link)
    OBVIOUS
  <2>1. CASE [Next]_vars
    BY <2>1, CrashStep
  <2>2. ASSUME NEW link \in Link, RearCycle(link)
        PROVE  risk # "clear" /\ clState = "OFF"
    <3>1. clState = "OFF"
      BY <2>2, RearCycleEffect
    <3>2. risk # "clear"
      BY <2>2 DEF RearCycle, Protects, F08_Run, Neutral
    <3> QED
      BY <3>1, <3>2
  <2> QED
    BY <2>1, <2>2, StepCases
<1> QED
  BY <1>1, AssistInvariance, PTL DEF AssistSpec

\* RiskLocksUnlessReported and RiskWarned without their fairness: one cycle of F-08 that finds a
\* risk, or a sensor fault, warns with a sound if F-06 is initialised, whatever the link does;
\* and if the lock is remembered OFF and the link acknowledges, the cycle ends with the doors
\* locked and known to be.  A remembered ON it leaves as it is, with the doors.
THEOREM RiskCycleProgress ==
  AssistSpec => [][\A link \in Link :
                     (ignitionState = "ON" /\ risk # "clear" /\ RearCycle(link))
                       => /\ (clState = "OFF" /\ link = "acknowledged")
                               => doorState' = "ON" /\ clState' = "ON"
                          /\ clState = "ON" => UNCHANGED <<doorState, clState>>
                          /\ logger => hmi'.given.display # "NONE" /\ hmi'.given.sound]_allVars
<1> DEFINE A == \A link \in Link :
                  (ignitionState = "ON" /\ risk # "clear" /\ RearCycle(link))
                    => /\ (clState = "OFF" /\ link = "acknowledged")
                            => doorState' = "ON" /\ clState' = "ON"
                       /\ clState = "ON" => UNCHANGED <<doorState, clState>>
                       /\ logger => hmi'.given.display # "NONE" /\ hmi'.given.sound
<1>1. Inv => [A]_allVars
  <2> SUFFICES ASSUME Inv, NEW link \in Link, ignitionState = "ON", risk # "clear", RearCycle(link)
               PROVE  /\ (clState = "OFF" /\ link = "acknowledged")
                           => doorState' = "ON" /\ clState' = "ON"
                      /\ clState = "ON" => UNCHANGED <<doorState, clState>>
                      /\ logger => hmi'.given.display # "NONE" /\ hmi'.given.sound
    OBVIOUS
  <2>1. clState \in LockState /\ doorState \in LockState /\ "ON" \in LockState
    BY DEF Inv, TypeOK, LockState
  <2>2. ASSUME clState = "OFF", link = "acknowledged" PROVE doorState' = "ON" /\ clState' = "ON"
    <3>1. Send("ON", link)
      BY <2>2, RearCycleEffect
    <3> QED
      BY <2>1, <2>2, <3>1, SendEffect
  <2>3. ASSUME clState = "ON" PROVE UNCHANGED <<doorState, clState>>
    BY <2>3, RearCycleEffect
  <2>4. ASSUME logger PROVE hmi'.given.display # "NONE" /\ hmi'.given.sound
    <3>1. F08_Run = Protect
      BY DEF F08_Run
    <3>2. /\ hmi'.given.display = Protect.warningMsgId
          /\ hmi'.given.sound = (Protect.warningSound /\ Protect.warningMsgId # "NONE")
      BY <2>4, <3>1 DEF RearCycle, F06_Process
    <3> QED
      BY <3>2 DEF Protect
  <2> QED
    BY <2>2, <2>3, <2>4
<1> QED
  BY <1>1, AssistInvariance, PTL DEF AssistSpec

-----------------------------------------------------------------------------
(* FG-01 and FG-02 together implement the abstract lock.                   *)

\* With F-08 as a second function that commands the lock the remembered state and the doors still
\* move only together, or the doors alone under an ECU_ACK_FAIL.
THEOREM AssistLossyLock == AssistSpec => ImplementsLossyLock
<1>1. AssistInit => Lock!Init
  BY DEF AssistInit, Init, Lock!Init, Answer, EcuIdle, LockState, Lock!LockState
<1>2. Inv /\ [AssistNext]_allVars => [Lock!Next]_(Lock!lockVars)
  <2> SUFFICES ASSUME Inv, [AssistNext]_allVars PROVE [Lock!Next]_(Lock!lockVars)
    OBVIOUS
  <2>1. CASE [Next]_vars
    BY <2>1, LockStep DEF Inv
  <2>2. ASSUME NEW link \in Link, RearCycle(link) PROVE [Lock!Next]_(Lock!lockVars)
    <3>1. CASE UNCHANGED <<ecu, doorState, clState>>
      BY <3>1 DEF Lock!lockVars, Answer
    <3>2. CASE Send("ON", link)
      BY <3>2, SendRefines DEF Inv, LockState
    <3> QED
      BY <2>2, <3>1, <3>2, RearCycleEffect
  <2> QED
    BY <2>1, <2>2, StepCases
<1> QED
  BY <1>1, <1>2, AssistInvariance, PTL DEF AssistSpec, ImplementsLossyLock, Lock!Spec
=============================================================================
