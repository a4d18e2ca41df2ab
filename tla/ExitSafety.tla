------------------------------ MODULE ExitSafety ------------------------------
(***************************************************************************)
(* FG-02, exit safety assistance, beside FG-01: F-08 turns the verdict of  *)
(* F-07 into a lock request and a warning, F-09 chooses the alert at       *)
(* departure, F-06 passes warnings, events and trouble codes to the        *)
(* callbacks it was given.  F-08 and F-02 command the same lock through    *)
(* F-03 and read the same remembered state, in cycles that may interleave  *)
(* in any order.                                                           *)
(*                                                                         *)
(* The verdict of F-07 may change to any value at any time: whatever       *)
(* RearRiskEvaluation can do is among it.                                  *)
(***************************************************************************)
EXTENDS DoorLockControl

Verdict        == {"clear", "high", "fault"}
WarningMsgId   == {"NONE", "REAR_RISK_HIGH", "CHILD_LOCK_ON", "SENSOR_FAULT", "CL_ALREADY_ON"}
EventType      == {"NONE", "SAFETY_ACTION", "ERROR"}
FaultFlag      == SUBSET {"REAR_SENSOR", "ECU_ACK_FAIL"}  \* a bit mask
OccupancyAlert == {"NONE", "RECOMMENDATION", "STATUS"}

VARIABLES
  risk,    \* riskHigh ("high"), not riskValid ("fault"), neither ("clear")
  logger,  \* F-06: isInitialized
  hmi      \* of the last step: the alert type F-09 chose and what F-06 gave the callbacks

allVars == <<vars, risk, logger, hmi>>

-----------------------------------------------------------------------------
(* F-08, F-09 and F-06 as functions.                                       *)

Neutral == [targetCLState |-> clState, warningMsgId |-> "NONE", warningSound |-> FALSE,
            clChanged |-> FALSE, eventLog |-> FALSE]

Protect == [ targetCLState |-> "ON",
             warningMsgId  |-> IF risk = "fault" THEN "SENSOR_FAULT"
                               ELSE IF clState = "OFF" THEN "REAR_RISK_HIGH" ELSE "CL_ALREADY_ON",
             warningSound  |-> TRUE,
             clChanged     |-> clState = "OFF",
             eventLog      |-> TRUE ]

\* Mutants: a sensor fault only warns; the lock is released when the risk is over; a warning is
\* given only with a change of the lock.
F08_Run_FaultOnlyWarns ==
  IF ignitionState # "ON" \/ risk = "clear" THEN Neutral
  ELSE [Protect EXCEPT !.clChanged = @ /\ risk = "high"]
F08_Run_Releases ==
  IF ignitionState # "ON" THEN Neutral
  ELSE IF risk = "clear" THEN [Neutral EXCEPT !.targetCLState = "OFF", !.clChanged = clState = "ON"]
  ELSE Protect

F08_Run_WarnsOnce ==
  IF ignitionState # "ON" \/ risk = "clear" \/ clState = "ON" THEN Neutral ELSE Protect

F08_Run == IF ignitionState # "ON" \/ risk = "clear" THEN Neutral ELSE Protect

F09_Run(departureEvent, rearSeatOccupancy, hmiHealth) ==
  IF ~departureEvent \/ ~hmiHealth
  THEN [alertType |-> "NONE", alertMessageId |-> "NONE", eventLog |-> FALSE]
  ELSE IF ~rearSeatOccupancy
  THEN [alertType |-> "NONE", alertMessageId |-> "NONE", eventLog |-> TRUE]
  ELSE [alertType      |-> IF clState = "OFF" THEN "RECOMMENDATION" ELSE "STATUS",
        alertMessageId |-> IF clState = "OFF" THEN "NONE" ELSE "CHILD_LOCK_ON",
        eventLog       |-> TRUE]

Silent == [alertType |-> "NONE",
           given |-> [display |-> "NONE", sound |-> FALSE, log |-> "NONE", dtc |-> {}]]

\* Each callback is called only for a message, an event or a fault other than NONE.
F06_Process(msgId, soundReq, evtType, fault) ==
  IF ~logger THEN Silent.given
  ELSE [display |-> msgId, sound |-> soundReq /\ msgId # "NONE", log |-> evtType, dtc |-> fault]

-----------------------------------------------------------------------------
(* The steps.                                                              *)

InitAssist ==
  /\ risk = "clear"
  /\ logger = FALSE
  /\ hmi = Silent

F06_Init(config) ==
  /\ logger' = config
  /\ hmi' = Silent
  /\ UNCHANGED <<vars, risk>>

\* What F-07 reports is a free choice here: its state is not part of this module.
Assess(verdict) ==
  /\ risk' = verdict
  /\ hmi' = Silent
  /\ UNCHANGED <<vars, logger>>

\* F-03 is called if F-08 asks for a change of the lock.
Protects(link) ==
  IF F08_Run.clChanged THEN Send(F08_Run.targetCLState, link)
  ELSE UNCHANGED <<ecu, doorState, clState>>

\* F-08, then F-03, then F-06, with the trouble code of F-03 and the fault flag of F-07 in one
\* mask.
RearCycle(link) ==
  LET out == F08_Run
  IN  /\ Protects(link)
      /\ hmi' = [alertType |-> "NONE",
                 given |-> F06_Process(out.warningMsgId, out.warningSound,
                             IF ~out.eventLog THEN "NONE"
                             ELSE IF risk = "fault" THEN "ERROR" ELSE "SAFETY_ACTION",
                             (IF out.clChanged THEN {ecu'.dtc} \ {"NONE"} ELSE {})
                               \cup (IF out.eventLog /\ risk = "fault" THEN {"REAR_SENSOR"} ELSE {}))]
      /\ UNCHANGED <<ignitionState, now, vehicleSpeedKmh, speedTimestampMs, speedAge, crash,
                     input, decision, block, risk, logger>>

\* F-09, then F-06.
Departure(rearSeatOccupancy, hmiHealth) ==
  /\ ignitionState = "ON"
  /\ LET alert == F09_Run(TRUE, rearSeatOccupancy, hmiHealth)
     IN  hmi' = [alertType |-> alert.alertType,
                 given |-> F06_Process(alert.alertMessageId, FALSE,
                             IF alert.eventLog THEN "SAFETY_ACTION" ELSE "NONE", {})]
  /\ UNCHANGED <<vars, risk, logger>>

\* FG-01's steps; a pulled handle (F-04) changes nothing FG-02 reads and is left out.
DoorStep ==
  /\ \/ \E switch \in SwitchRequest, fault \in BOOLEAN, link \in Link : Cycle(switch, fault, link)
     \/ \E speed \in Speed, age \in SpeedAge : SpeedMessage(speed, age)
     \/ \E d \in 1 .. MaxSilence : Tick(d)
     \/ \E active, valid \in BOOLEAN : CrashSignal(active, valid)
     \/ \E state \in {"OFF", "ON"} : Ignition(state)
  /\ hmi' = Silent
  /\ UNCHANGED <<risk, logger>>

AssistStep ==
  \/ \E config \in BOOLEAN : F06_Init(config)
  \/ \E verdict \in Verdict : Assess(verdict)
  \/ \E link \in Link : RearCycle(link)
  \/ \E occupied, hmiHealth \in BOOLEAN : Departure(occupied, hmiHealth)

AssistInit == Init /\ InitAssist
AssistNext == DoorStep \/ AssistStep
AssistSpec == AssistInit /\ [][AssistNext]_allVars

\* F-08's cycle keeps running and the ECU link is not broken for ever.
AssistFairness == WF_allVars(RearCycle("acknowledged"))

FairAssistSpec == AssistSpec /\ AssistFairness

-----------------------------------------------------------------------------
(* Properties.  FG-01's UnlockAuthorised and DisagreementReported are      *)
(* checked of this specification too.                                      *)

AssistTypeOK ==
  /\ TypeOK
  /\ risk \in Verdict
  /\ logger \in BOOLEAN
  /\ hmi \in [alertType : OccupancyAlert,
              given : [display : WarningMsgId, sound : BOOLEAN, log : EventType, dtc : FaultFlag]]

\* A cycle in which F-08 finds a risk or a sensor fault ends with the rear doors locked, or with
\* an ECU_ACK_FAIL raised, whether F-08 intervened or only said that the lock is already on, and
\* whatever FG-01 commanded, and lost, before.
ProtectionHolds ==
  [][(ignitionState = "ON" /\ risk # "clear" /\ \E link \in Link : RearCycle(link))
       => doorState' = "ON" \/ ecu'.dtc = "ECU_ACK_FAIL"]_allVars

Threatened == ignitionState = "ON" /\ risk # "clear" /\ ~ValidCrash

\* A risk (or a sensor fault) that persists has the doors locked again and again, and known to be,
\* whatever the driver asks for in between and however many commands are lost; or they stay
\* unlocked, remembered as locked, and the lost acknowledgement that led there stays reported.
RiskLocksUnlessReported ==
  <>[]Threatened => \/ []<>(doorState = "ON" /\ clState = "ON")
                    \/ <>[](doorState = "OFF" /\ clState = "ON" /\ ecu.dtc = "ECU_ACK_FAIL")

\* A persisting risk (or sensor fault) has the driver warned with a sound again and again, also
\* while FG-01 moves the lock and commands are lost, as long as F-06 stays initialised.
RiskWarned ==
  (<>[]Threatened /\ <>[]logger) => []<>(hmi.given.display # "NONE" /\ hmi.given.sound)

\* What is displayed of the lock is true of the doors unless the last command went
\* unacknowledged: "Child Lock maintained", "activated" or "already active" is shown only on
\* locked doors, the recommendation to lock is made only for unlocked ones.
DisplayTrue ==
  ecu.dtc = "NONE" =>
    /\ hmi.given.display \in {"SENSOR_FAULT", "CHILD_LOCK_ON", "CL_ALREADY_ON"} => doorState = "ON"
    /\ hmi.alertType = "RECOMMENDATION" => doorState = "OFF"

-----------------------------------------------------------------------------
(* What the documents say.                                                 *)

\* Software_Requirement_Specification.md:78: a rear risk ends with the rear doors locked.
RiskLocksDoor == <>[]Threatened => []<>(doorState = "ON")
=============================================================================
