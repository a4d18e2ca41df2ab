--------------------------- MODULE DoorLockControl ---------------------------
(***************************************************************************)
(* FG-01, door lock and unlock control: the cycle in which the caller      *)
(* validates the inputs (F-01), decides the target state (F-02) and hands  *)
(* it to the Door ECU (F-03), and the handling of a pulled inner handle    *)
(* (F-04).  The four are pure functions; the state is what surrounds them: *)
(* the speed message and its timestamp, the crash signal, the Child Lock   *)
(* state the caller remembers, and the lock of the door itself, which      *)
(* follows that state only as well as the ECU link delivers.               *)
(*                                                                         *)
(* The speed is abstracted to the ranges the code tells apart: "slow" is   *)
(* 0 .. 3 km/h (0.0, the substitute of an invalid speed, among them),      *)
(* "fast" is above 3 and up to 250, "implausible" is anything else, NaN    *)
(* included.                                                               *)
(***************************************************************************)
EXTENDS WrappingClock

CONSTANTS
  TIMEOUT,        \* SPEED_SIGNAL_TIMEOUT_MS
  MAX_ECU_RETRY,  \* MAX_ECU_RETRY_COUNT
  MaxSilence,     \* how old the last speed message may become
  MaxSkew         \* how far the speed sender's clock may be ahead of the controller's

\* With the real constants: the ignition is not on for 49 days without a speed message, and
\* the two clocks differ by less than that.
ASSUME SpeedAssumption ==
  /\ TIMEOUT \in Nat \ {0} /\ MAX_ECU_RETRY \in Nat /\ MaxSilence \in Nat /\ MaxSkew \in Nat
  /\ MaxSilence < M /\ MaxSkew + TIMEOUT <= M

LockState      == {"OFF", "ON"}
Speed          == {"slow", "fast", "implausible"}
SpeedAge       == (0 - MaxSkew) .. MaxSilence
SwitchRequest  == {"NONE", "ON", "OFF"}
DecisionReason == {"NO_STATE_CHANGE", "CRASH_DETECTED", "FAULT_DETECTED", "DRIVER_LOCK_REQUEST",
                   "DRIVER_UNLOCK_REQUEST", "UNLOCK_INHIBITED_WHILE_MOVING",
                   "AUTO_LOCK_CONDITION_MET"}

DecisionResult == [targetClState : LockState, decisionReason : DecisionReason]
EcuOutput      == [childLockCommand : {"NONE", "CL_OFF", "CL_ON"},
                   ackStatus : {"NOT_CHECKED", "RECEIVED", "NOT_RECEIVED"},
                   retryStatus : {"NOT_REQUIRED", "EXHAUSTED"},
                   dtc : {"NONE", "ECU_ACK_FAIL"}, retryCount : {0, MAX_ECU_RETRY}]
BlockOutput    == [openRequestBlock : BOOLEAN,
                   blockResult : {"NO_EVENT", "ALLOWED", "BLOCKED", "BLOCK_FAILED"}]

VARIABLES
  ignitionState,
  now,                \* currentTimestampMs
  vehicleSpeedKmh,    \* the speed of the last speed message ...
  speedTimestampMs,   \* ... and the time stamp it carries
  speedAge,           \* true ms since then, negative for a stamp ahead of now; no code reads it
  crash,              \* crashSignalActive and crashSignalValid
  clState,            \* the Child Lock state the caller remembers
  doorState,          \* the lock of the rear doors
  input,              \* switch request and non-speed faults of the last cycle
  decision,           \* DecisionResult of the last cycle
  ecu,                \* DoorEcuCommandHandler_Output_t of the last command
  block               \* RearDoorOpenBlockHandler_Output_t of the last handle pull

vars == <<ignitionState, now, vehicleSpeedKmh, speedTimestampMs, speedAge, crash,
          clState, doorState, input, decision, ecu, block>>

-----------------------------------------------------------------------------
(* F-01: validation.                                                       *)

DefaultOutput ==
  [ validSwitchInput |-> "NONE", validSpeedKmh |-> "slow", speedValid |-> FALSE,
    validCrashSignal |-> FALSE, autoLockConditionMet |-> FALSE, speedFault |-> FALSE ]

SpeedValid == vehicleSpeedKmh # "implausible" /\ WrapSub(now, speedTimestampMs) < TIMEOUT

ValidCrashSignal == crash.active /\ crash.valid

AutoLockConditionMet == SpeedValid /\ vehicleSpeedKmh = "fast"

\* Mutant: a silent speed signal is replaced by 0.0 km/h and raises no fault.
F01_Run_SilenceNoFault(switch) ==
  IF ignitionState # "ON" THEN DefaultOutput
  ELSE [ validSwitchInput     |-> switch,
         validSpeedKmh        |-> IF SpeedValid THEN vehicleSpeedKmh ELSE "slow",
         speedValid           |-> SpeedValid,
         validCrashSignal     |-> ValidCrashSignal,
         autoLockConditionMet |-> AutoLockConditionMet,
         speedFault           |-> vehicleSpeedKmh = "implausible" ]

F01_Run(switch) ==
  IF ignitionState # "ON" THEN DefaultOutput
  ELSE [ validSwitchInput     |-> switch,
         validSpeedKmh        |-> IF SpeedValid THEN vehicleSpeedKmh ELSE "slow",
         speedValid           |-> SpeedValid,
         validCrashSignal     |-> ValidCrashSignal,
         autoLockConditionMet |-> AutoLockConditionMet,
         speedFault           |-> ~SpeedValid ]

\* The handle event F-01 detects in the cycle a handle is pulled.
HandleEvent == ignitionState = "ON"

-----------------------------------------------------------------------------
(* F-02: decision.  v is F-01's output, fault the other fault flags.       *)

\* Mutant: faults are examined before the crash.
Reason_FaultFirst(v, fault) ==
  IF v.speedFault \/ fault THEN "FAULT_DETECTED"
  ELSE IF v.validCrashSignal THEN "CRASH_DETECTED"
  ELSE IF v.validSwitchInput = "ON" THEN "DRIVER_LOCK_REQUEST"
  ELSE IF v.validSwitchInput = "OFF"
       THEN IF v.validSpeedKmh = "slow" THEN "DRIVER_UNLOCK_REQUEST"
            ELSE "UNLOCK_INHIBITED_WHILE_MOVING"
  ELSE IF v.autoLockConditionMet THEN "AUTO_LOCK_CONDITION_MET"
  ELSE "NO_STATE_CHANGE"

Reason(v, fault) ==
  IF v.validCrashSignal THEN "CRASH_DETECTED"
  ELSE IF v.speedFault \/ fault THEN "FAULT_DETECTED"
  ELSE IF v.validSwitchInput = "ON" THEN "DRIVER_LOCK_REQUEST"
  ELSE IF v.validSwitchInput = "OFF"
       THEN IF v.validSpeedKmh = "slow" THEN "DRIVER_UNLOCK_REQUEST"
            ELSE "UNLOCK_INHIBITED_WHILE_MOVING"
  ELSE IF v.autoLockConditionMet THEN "AUTO_LOCK_CONDITION_MET"
  ELSE "NO_STATE_CHANGE"

Target(reason) ==
  CASE reason \in {"CRASH_DETECTED", "DRIVER_UNLOCK_REQUEST"} -> "OFF"
    [] reason \in {"FAULT_DETECTED", "DRIVER_LOCK_REQUEST", "AUTO_LOCK_CONDITION_MET"} -> "ON"
    [] OTHER -> clState

DecideChildLockState(v, fault) ==
  LET reason == Reason(v, fault)
  IN  [targetClState |-> Target(reason), decisionReason |-> reason]

-----------------------------------------------------------------------------
(* F-03: command.  F-04: handle.                                           *)

EcuIdle == [childLockCommand |-> "NONE", ackStatus |-> "NOT_CHECKED",
            retryStatus |-> "NOT_REQUIRED", dtc |-> "NONE", retryCount |-> 0]

MapCommand(target) == IF target = "OFF" THEN "CL_OFF" ELSE "CL_ON"

\* Mutants: the acknowledgement is not examined; no trouble code for a lost one; one retry too
\* many counted.
HandleCommand_AckAssumed(target, ack) ==
  [EcuIdle EXCEPT !.childLockCommand = MapCommand(target), !.ackStatus = "RECEIVED"]
HandleCommand_NoDtc(target, ack) ==
  [childLockCommand |-> MapCommand(target), ackStatus |-> IF ack THEN "RECEIVED" ELSE "NOT_RECEIVED",
   retryStatus |-> "NOT_REQUIRED", dtc |-> "NONE", retryCount |-> 0]
HandleCommand_OneMore(target, ack) ==
  IF ack
  THEN [EcuIdle EXCEPT !.childLockCommand = MapCommand(target), !.ackStatus = "RECEIVED"]
  ELSE [childLockCommand |-> MapCommand(target), ackStatus |-> "NOT_RECEIVED",
        retryStatus |-> "EXHAUSTED", dtc |-> "ECU_ACK_FAIL", retryCount |-> MAX_ECU_RETRY + 1]

HandleCommand(target, ack) ==
  IF ack
  THEN [EcuIdle EXCEPT !.childLockCommand = MapCommand(target), !.ackStatus = "RECEIVED"]
  ELSE [childLockCommand |-> MapCommand(target), ackStatus |-> "NOT_RECEIVED",
        retryStatus |-> "EXHAUSTED", dtc |-> "ECU_ACK_FAIL", retryCount |-> MAX_ECU_RETRY]

\* Mutant: the door feedback is examined before the state.
HandleOpenRequest_FeedbackFirst(event, feedback) ==
  IF ~event
  THEN [openRequestBlock |-> FALSE, blockResult |-> "NO_EVENT"]
  ELSE [openRequestBlock |-> clState = "ON",
        blockResult |-> CASE feedback = "OPENED" -> "BLOCK_FAILED"
                          [] feedback # "OPENED" /\ clState = "OFF" -> "ALLOWED"
                          [] OTHER -> "BLOCKED"]

HandleOpenRequest(event, feedback) ==
  IF ~event
  THEN [openRequestBlock |-> FALSE, blockResult |-> "NO_EVENT"]
  ELSE [openRequestBlock |-> clState = "ON",
        blockResult |-> CASE clState = "OFF" -> "ALLOWED"
                          [] clState = "ON" /\ feedback = "OPENED" -> "BLOCK_FAILED"
                          [] OTHER -> "BLOCKED"]

-----------------------------------------------------------------------------
(* The steps.                                                              *)

Init ==
  /\ ignitionState = "ON"
  /\ now \in Timestamp
  /\ vehicleSpeedKmh = "slow"
  /\ speedTimestampMs = now
  /\ speedAge = 0
  /\ crash = [active |-> FALSE, valid |-> FALSE]
  /\ clState \in LockState
  /\ doorState = clState
  /\ input = [switchRequest |-> "NONE", otherFault |-> FALSE]
  /\ decision = [targetClState |-> clState, decisionReason |-> "NO_STATE_CHANGE"]
  /\ ecu = EcuIdle
  /\ block = HandleOpenRequest(FALSE, "CLOSED")

\* The ECU link: the command or its acknowledgement may be lost.
Link == {"command lost", "ack lost", "acknowledged"}

\* F-03 commands the Door ECU, which moves the lock if the command arrives.  The caller takes
\* the target as the new Child Lock state once the ECU has acknowledged it.
Send(target, link) ==
  /\ ecu' = HandleCommand(target, link = "acknowledged")
  /\ doorState' = IF link = "command lost" THEN doorState
                  ELSE IF ecu'.childLockCommand = "CL_OFF" THEN "OFF" ELSE "ON"
  /\ clState' = IF ecu'.ackStatus = "RECEIVED" THEN target ELSE clState

\* The decisions that name one of F-03's reasons.
Commands(d) == d.decisionReason \notin {"NO_STATE_CHANGE", "UNLOCK_INHIBITED_WHILE_MOVING"}

Command(d, link) ==
  IF Commands(d) THEN Send(d.targetClState, link) ELSE UNCHANGED <<ecu, doorState, clState>>

Cycle(switch, fault, link) ==
  /\ input' = [switchRequest |-> switch, otherFault |-> fault]
  /\ decision' = DecideChildLockState(F01_Run(switch), fault)
  /\ Command(decision', link)
  /\ UNCHANGED <<ignitionState, now, vehicleSpeedKmh, speedTimestampMs, speedAge, crash, block>>

\* A child pulls the inner handle; an unlocked door may open, a locked one cannot.
HandlePull(feedback) ==
  /\ feedback = "OPENED" => doorState = "OFF"
  /\ block' = HandleOpenRequest(HandleEvent, feedback)
  /\ UNCHANGED <<ignitionState, now, vehicleSpeedKmh, speedTimestampMs, speedAge, crash,
                 clState, doorState, input, decision, ecu>>

\* A speed message replaces the last one.  It may have been under way for any time, so that an
\* older one may replace a newer one, or carry a stamp ahead of the controller's clock.
SpeedMessage(speed, age) ==
  /\ vehicleSpeedKmh' = speed
  /\ speedTimestampMs' = IF age >= 0 THEN WrapSub(now, age) ELSE WrapAdd(now, 0 - age)
  /\ speedAge' = age
  /\ UNCHANGED <<ignitionState, now, crash, clState, doorState, input, decision, ecu, block>>

Tick(d) ==
  /\ speedAge + d <= MaxSilence
  /\ now' = WrapAdd(now, d)
  /\ speedAge' = speedAge + d
  /\ UNCHANGED <<ignitionState, vehicleSpeedKmh, speedTimestampMs, crash, clState, doorState,
                 input, decision, ecu, block>>

CrashSignal(active, valid) ==
  /\ crash' = [active |-> active, valid |-> valid]
  /\ UNCHANGED <<ignitionState, now, vehicleSpeedKmh, speedTimestampMs, speedAge, clState,
                 doorState, input, decision, ecu, block>>

Ignition(state) ==
  /\ ignitionState' = state
  /\ UNCHANGED <<now, vehicleSpeedKmh, speedTimestampMs, speedAge, crash, clState, doorState,
                 input, decision, ecu, block>>

Next ==
  \/ \E switch \in SwitchRequest, fault \in BOOLEAN, link \in Link : Cycle(switch, fault, link)
  \/ \E feedback \in {"CLOSED", "OPENED", "UNKNOWN"} : HandlePull(feedback)
  \/ \E speed \in Speed, age \in SpeedAge : SpeedMessage(speed, age)
  \/ \E d \in 1 .. MaxSilence : Tick(d)
  \/ \E active, valid \in BOOLEAN : CrashSignal(active, valid)
  \/ \E state \in {"OFF", "ON"} : Ignition(state)

Spec == Init /\ [][Next]_vars

\* The caller keeps cycling and the ECU link is not broken for ever: this is the whole of what
\* stands behind the retransmission the code leaves to its caller.
Fairness == WF_vars(\E switch \in SwitchRequest, fault \in BOOLEAN :
                      Cycle(switch, fault, "acknowledged"))

FairSpec == Spec /\ Fairness

-----------------------------------------------------------------------------
(* Properties.                                                             *)

TypeOK ==
  /\ ignitionState \in {"OFF", "ON"}
  /\ now \in Timestamp /\ speedTimestampMs \in Timestamp
  /\ vehicleSpeedKmh \in Speed
  /\ speedAge \in SpeedAge
  /\ crash \in [active : BOOLEAN, valid : BOOLEAN]
  /\ clState \in LockState /\ doorState \in LockState
  /\ input \in [switchRequest : SwitchRequest, otherFault : BOOLEAN]
  /\ decision \in DecisionResult
  /\ ecu \in EcuOutput
  /\ block \in BlockOutput

ValidCrash == ignitionState = "ON" /\ ValidCrashSignal

\* The wrapped difference F-01 compares with the timeout is the true age of the speed, except
\* for a stamp ahead of the clock, whose difference lies within MaxSkew of 2^32.
SpeedAgeSound ==
  WrapSub(now, speedTimestampMs) = IF speedAge >= 0 THEN speedAge ELSE speedAge + M

Fresh == speedAge \in 0 .. (TIMEOUT - 1)

\* Whatever is lost on the ECU link and in whatever order requests, faults and speeds come,
\* the rear doors are unlocked only by a valid crash, or at the driver's request on a plausible
\* speed of at most 3 km/h measured less than TIMEOUT ms ago, and not in the future, with no
\* fault flag raised.  In particular the 0.0 km/h F-01 puts in place of an invalid speed never
\* unlocks a door.
UnlockAuthorised ==
  [][(doorState = "ON" /\ doorState' = "OFF")
       => \/ ValidCrash
          \/ /\ ignitionState = "ON"
             /\ input'.switchRequest = "OFF" /\ ~input'.otherFault
             /\ vehicleSpeedKmh = "slow" /\ Fresh]_vars

\* While a valid crash lasts no step locks an unlocked door: neither a speed fault of the same
\* cycle, nor the auto-lock, nor the driver.
CrashNeverLocks == [][(ValidCrash /\ doorState = "OFF") => doorState' = "OFF"]_vars

\* The state the caller remembers differs from the door only after a command F-03 reported as
\* not acknowledged: the ECU_ACK_FAIL code covers every disagreement.
DisagreementReported == clState # doorState => ecu.dtc = "ECU_ACK_FAIL"

\* FG-01 implements LossyLock: the remembered state and the doors move only together, or
\* the doors alone under an ECU_ACK_FAIL, and only to the state that was commanded.
Answer == IF ecu.dtc # "NONE" THEN "missing"
          ELSE IF ecu.ackStatus = "RECEIVED" THEN "received" ELSE "none"

Lock == INSTANCE LossyLock WITH known <- clState, actual <- doorState, answer <- Answer

ImplementsLossyLock == Lock!Spec

\* F-04 judges an inner handle by the remembered state.  Unless the last command went
\* unacknowledged its verdict is true of the door: ALLOWED on an unlocked one, BLOCKED on a
\* locked one, and never a false BLOCK_FAILED.
BlockReportTrue ==
  [][(block' # block /\ ecu.dtc = "NONE")
       => CASE block'.blockResult = "ALLOWED" -> doorState = "OFF"
            [] block'.blockResult = "BLOCKED" -> doorState = "ON"
            [] OTHER -> block'.blockResult = "NO_EVENT"]_vars

\* A crash that stays valid ends with the doors unlocked and known to be, however many commands
\* and acknowledgements are lost first: F-02 decides the release again in every cycle.
CrashReleases == <>[]ValidCrash => <>[](doorState = "OFF" /\ clState = "OFF")

\* A speed signal that stays silent, late or ahead of the clock ends with the doors locked
\* (SAFE_LOCKED) and known to be, unless there is a crash.
SpeedLossLocks ==
  <>[](ignitionState = "ON" /\ ~ValidCrash /\ ~Fresh)
    => <>[](doorState = "ON" /\ clState = "ON")

-----------------------------------------------------------------------------
(* What the documents say.                                                 *)

\* childlock_state.drawio:26-27 draws transitions into EMERGENCY_RELEASED and none out of it; here
\* a later request of the driver and the end of the ignition cycle may leave it all the same.
EmergencyReleaseHolds ==
  [][(/\ decision.decisionReason = "CRASH_DETECTED" /\ ignitionState = "ON"
      /\ doorState = "OFF" /\ doorState' = "ON")
       => input'.switchRequest = "ON"]_vars
=============================================================================
