------------------------ MODULE DoorLockControl_proof ------------------------
(***************************************************************************)
(* FG-01 for every width of the clock, every timeout and every retry       *)
(* limit: its types, the age of the speed across clock wraps, that every   *)
(* disagreement between the remembered state and the door is reported, and *)
(* the three action properties that rest on them.                          *)
(***************************************************************************)
EXTENDS DoorLockControl, WrappingClock_proof, TLAPS

USE DEF DecisionResult, EcuOutput, BlockOutput

-----------------------------------------------------------------------------
(* The functions.                                                          *)

\* F-02 chooses a target and one of its reasons, whatever F-01 handed it.
LEMMA DecisionType ==
  ASSUME clState \in LockState, NEW v, NEW fault \in BOOLEAN
  PROVE  DecideChildLockState(v, fault) \in
           DecisionResult
<1>1. Reason(v, fault) \in DecisionReason
  BY DEF Reason, DecisionReason
<1>2. \A reason \in DecisionReason : Target(reason) \in LockState
  BY DEF Target, DecisionReason, LockState
<1> QED
  BY <1>1, <1>2 DEF DecideChildLockState

\* F-03's output has its type, and says NOT_RECEIVED only with the trouble code.
LEMMA CommandType ==
  ASSUME NEW target \in LockState, NEW ack \in BOOLEAN
  PROVE  LET out == HandleCommand(target, ack)
         IN  /\ out \in EcuOutput
             /\ out.childLockCommand = "CL_OFF" <=> target = "OFF"
             /\ ack => out.ackStatus = "RECEIVED"
             /\ ~ack => out.ackStatus = "NOT_RECEIVED" /\ out.dtc = "ECU_ACK_FAIL"
BY DEF HandleCommand, EcuIdle, MapCommand, LockState

\* One command: the door and the remembered state each stay or become the target, and they
\* end up equal unless the trouble code is raised.
LEMMA SendEffect ==
  ASSUME NEW target \in LockState, NEW link \in Link, Send(target, link),
         clState \in LockState, doorState \in LockState
  PROVE  /\ ecu' \in EcuOutput
         /\ clState' \in {clState, target}
         /\ doorState' \in {doorState, target}
         /\ clState' # doorState' => ecu'.dtc = "ECU_ACK_FAIL"
         /\ link = "acknowledged" => clState' = target /\ doorState' = target
<1>1. ecu' = HandleCommand(target, link = "acknowledged")
  BY DEF Send
<1>2. doorState' \in {doorState, target} /\ (link # "command lost" => doorState' = target)
  <2>1. ecu'.childLockCommand = MapCommand(target)
    BY <1>1 DEF HandleCommand, EcuIdle
  <2> QED
    BY <2>1 DEF Send, MapCommand, LockState
<1>3. CASE link = "acknowledged"
  <2>1. ecu'.ackStatus = "RECEIVED"
    BY <1>1, <1>3, CommandType
  <2> QED
    BY <1>1, <1>2, <1>3, <2>1, CommandType DEF Send
<1>4. CASE link # "acknowledged"
  <2>1. ecu'.ackStatus = "NOT_RECEIVED" /\ ecu'.dtc = "ECU_ACK_FAIL"
    BY <1>1, <1>4, CommandType
  <2>2. clState' = clState
    BY <2>1 DEF Send
  <2> QED
    BY <1>1, <1>2, <2>1, <2>2, CommandType
<1> QED
  BY <1>3, <1>4

-----------------------------------------------------------------------------
(* Types.                                                                  *)

\* F-01 to F-03 in a row keep every type, and the decision always names a lock state.
LEMMA CycleType ==
  ASSUME TypeOK, NEW switch \in SwitchRequest, NEW fault \in BOOLEAN, NEW link \in Link,
         Cycle(switch, fault, link)
  PROVE  TypeOK' /\ decision'.targetClState \in LockState
<1> USE DEF TypeOK
<1>1. decision' \in DecisionResult
  BY DecisionType DEF Cycle
<1>2. ecu' \in EcuOutput
      /\ clState' \in LockState /\ doorState' \in LockState
  <2>1. CASE Send(decision'.targetClState, link)
    BY <2>1, <1>1, SendEffect
  <2>2. CASE UNCHANGED <<ecu, doorState, clState>>
    BY <2>2
  <2> QED
    BY <2>1, <2>2 DEF Cycle, Command, Commands
<1>3. input' \in [switchRequest : SwitchRequest, otherFault : BOOLEAN]
  BY DEF Cycle
<1> QED
  BY <1>1, <1>2, <1>3 DEF Cycle

\* The stamp of a delayed or skewed message is a timestamp, and differs from the clock by the
\* age of the message, modulo the width of the clock.
LEMMA StampType ==
  ASSUME now \in Timestamp, NEW age \in SpeedAge
  PROVE  LET stamp == IF age >= 0 THEN WrapSub(now, age) ELSE WrapAdd(now, 0 - age)
         IN  /\ stamp \in Timestamp
             /\ WrapSub(now, stamp) = IF age >= 0 THEN age ELSE age + M
BY SpeedAssumption, ClockAssumption DEF SpeedAge, Timestamp, WrapSub, WrapAdd

\* Every step keeps every type.
LEMMA TypeStep == TypeOK /\ [Next]_vars => TypeOK'
<1> SUFFICES ASSUME TypeOK, [Next]_vars PROVE TypeOK'
  OBVIOUS
<1> USE DEF TypeOK
<1>1. ASSUME NEW switch \in SwitchRequest, NEW fault \in BOOLEAN, NEW link \in Link,
             Cycle(switch, fault, link)
      PROVE  TypeOK'
  BY <1>1, CycleType
<1>2. ASSUME NEW feedback \in {"CLOSED", "OPENED", "UNKNOWN"}, HandlePull(feedback)
      PROVE  TypeOK'
  <2>1. block' \in BlockOutput
    BY <1>2 DEF HandlePull, HandleOpenRequest, LockState
  <2> QED
    BY <1>2, <2>1 DEF HandlePull
<1>3. ASSUME NEW speed \in Speed, NEW age \in SpeedAge, SpeedMessage(speed, age) PROVE TypeOK'
  <2>1. speedTimestampMs' \in Timestamp /\ speedAge' \in SpeedAge
    BY <1>3, StampType DEF SpeedMessage
  <2> QED
    BY <1>3, <2>1 DEF SpeedMessage
<1>4. ASSUME NEW d \in 1 .. MaxSilence, Tick(d) PROVE TypeOK'
  <2>1. d \in Nat /\ d < M
    BY SpeedAssumption, ClockAssumption
  <2>2. now' \in Timestamp /\ speedAge' \in SpeedAge
    BY <1>4, <2>1, WrapAddType, SpeedAssumption DEF Tick, SpeedAge
  <2> QED
    BY <1>4, <2>2 DEF Tick
<1>5. ASSUME NEW active \in BOOLEAN, NEW valid \in BOOLEAN, CrashSignal(active, valid)
      PROVE  TypeOK'
  BY <1>5 DEF CrashSignal
<1>6. ASSUME NEW state \in {"OFF", "ON"}, Ignition(state) PROVE TypeOK'
  BY <1>6 DEF Ignition
<1>7. CASE UNCHANGED vars
  BY <1>7 DEF vars
<1> QED
  BY <1>1, <1>2, <1>3, <1>4, <1>5, <1>6, <1>7 DEF Next

\* Every variable of FG-01 keeps its type; in particular the timestamps stay uint32 and F-03's
\* retry count is 0 or the limit.
THEOREM TypeCorrect == Spec => []TypeOK
<1>1. Init => TypeOK
  BY SpeedAssumption, ClockAssumption
  DEF Init, TypeOK, LockState, Speed, SpeedAge, SwitchRequest, DecisionReason, EcuIdle, HandleOpenRequest
<1> QED
  BY <1>1, TypeStep, PTL DEF Spec

-----------------------------------------------------------------------------
(* The inductive invariant behind the rest: types, the true age of the     *)
(* speed, and a trouble code for every disagreement.                       *)

Inv == TypeOK /\ SpeedAgeSound /\ DisagreementReported

\* A speed message sets the age and time adds to it, across a wrap of the clock too and past
\* the moment the clock reaches a stamp ahead of it; nothing else touches either timestamp.
LEMMA SpeedAgeStep ==
  TypeOK /\ SpeedAgeSound /\ [Next]_vars => SpeedAgeSound'
<1> SUFFICES ASSUME TypeOK, SpeedAgeSound, [Next]_vars PROVE SpeedAgeSound'
  OBVIOUS
<1> USE DEF TypeOK, SpeedAgeSound
<1>1. ASSUME NEW speed \in Speed, NEW age \in SpeedAge, SpeedMessage(speed, age)
      PROVE  SpeedAgeSound'
  BY <1>1, StampType DEF SpeedMessage
<1>2. ASSUME NEW d \in 1 .. MaxSilence, Tick(d) PROVE SpeedAgeSound'
  <2>1. /\ d \in 1 .. MaxSilence /\ speedAge \in SpeedAge
        /\ now \in Timestamp /\ speedTimestampMs \in Timestamp
        /\ now' = WrapAdd(now, d) /\ speedAge' = speedAge + d
        /\ speedTimestampMs' = speedTimestampMs /\ speedAge + d <= MaxSilence
    BY <1>2 DEF Tick
  <2> QED
    BY <2>1, SpeedAssumption, ClockAssumption
    DEF Timestamp, SpeedAge, WrapAdd, WrapSub
<1>3. CASE UNCHANGED <<now, speedTimestampMs, speedAge>>
  BY <1>3
<1> QED
  BY <1>1, <1>2, <1>3 DEF Next, Cycle, HandlePull, CrashSignal, Ignition, vars

\* Only a command moves the door or the remembered state.
LEMMA DisagreementStep ==
  TypeOK /\ DisagreementReported /\ [Next]_vars => DisagreementReported'
<1> SUFFICES ASSUME TypeOK, DisagreementReported, [Next]_vars PROVE DisagreementReported'
  OBVIOUS
<1> USE DEF DisagreementReported
<1>1. CASE UNCHANGED <<clState, doorState, ecu>>
  BY <1>1
<1>2. ASSUME NEW switch \in SwitchRequest, NEW fault \in BOOLEAN, NEW link \in Link,
             Cycle(switch, fault, link)
      PROVE  DisagreementReported'
  <2>1. decision'.targetClState \in LockState
    BY <1>2, CycleType
  <2>2. CASE Send(decision'.targetClState, link)
    BY <2>1, <2>2, SendEffect DEF TypeOK
  <2> QED
    BY <1>1, <1>2, <2>2 DEF Cycle, Command, Commands
<1> QED
  BY <1>1, <1>2 DEF Next, HandlePull, SpeedMessage, Tick, CrashSignal, Ignition, vars

\* The inductive invariant holds.
LEMMA Invariance == Spec => []Inv
<1>1. Init => SpeedAgeSound /\ DisagreementReported
  BY WrapSubType DEF Init, SpeedAgeSound, DisagreementReported
<1>2. Inv /\ [Next]_vars => (SpeedAgeSound /\ DisagreementReported)'
  BY SpeedAgeStep, DisagreementStep DEF Inv
<1> QED
  BY <1>1, <1>2, TypeCorrect, PTL DEF Spec, Inv

\* The wrapped difference F-01 compares with SPEED_SIGNAL_TIMEOUT_MS is the true age of the
\* speed, wherever the 32-bit clock wraps.
THEOREM SpeedAgeCorrect == Spec => []SpeedAgeSound
BY Invariance, PTL DEF Inv

\* A lost acknowledgement, or any sequence of them, never leaves the remembered Child Lock state
\* different from the door without ECU_ACK_FAIL.
THEOREM DisagreementsReported == Spec => []DisagreementReported
BY Invariance, PTL DEF Inv

-----------------------------------------------------------------------------
(* What a step may never do.                                               *)

\* F-02 decides OFF for a valid crash, or for a switch OFF on a speed F-01 passed and with no fault.
LEMMA UnlockDecision ==
  ASSUME TypeOK, SpeedAgeSound, NEW switch \in SwitchRequest, NEW fault \in BOOLEAN,
         LET d == DecideChildLockState(F01_Run(switch), fault)
         IN  /\ d.decisionReason \notin {"NO_STATE_CHANGE", "UNLOCK_INHIBITED_WHILE_MOVING"}
             /\ d.targetClState = "OFF"
  PROVE  \/ ValidCrash
         \/ /\ ignitionState = "ON"
            /\ switch = "OFF" /\ ~fault
            /\ vehicleSpeedKmh = "slow" /\ Fresh
<1> DEFINE v == F01_Run(switch)
<1>1. Reason(v, fault) \in {"CRASH_DETECTED", "DRIVER_UNLOCK_REQUEST"}
  BY DEF DecideChildLockState, Target, Reason
<1>2. CASE ignitionState # "ON"
  BY <1>1, <1>2 DEF Reason, F01_Run, ValidCrashSignal, AutoLockConditionMet, DefaultOutput
<1>3. CASE ignitionState = "ON"
  <2>1. /\ v.validSwitchInput = switch
        /\ v.validCrashSignal => crash.active /\ crash.valid
        /\ ~v.speedFault => SpeedValid
        /\ SpeedValid => v.validSpeedKmh = vehicleSpeedKmh
    BY <1>3 DEF F01_Run, ValidCrashSignal, AutoLockConditionMet
  <2>2. SpeedValid => Fresh
    <3>1. speedAge \in SpeedAge
      BY DEF TypeOK
    <3> QED
      BY <3>1, SpeedAssumption, ClockAssumption DEF SpeedValid, SpeedAgeSound, SpeedAge, Fresh
  <2> HIDE DEF v
  <2>3. CASE Reason(v, fault) = "CRASH_DETECTED"
    <3>1. v.validCrashSignal
      BY <2>3 DEF Reason
    <3> QED
      BY <1>3, <2>1, <3>1 DEF ValidCrash, ValidCrashSignal
  <2>4. CASE Reason(v, fault) = "DRIVER_UNLOCK_REQUEST"
    <3>1. /\ ~v.speedFault /\ ~fault
          /\ v.validSwitchInput = "OFF" /\ v.validSpeedKmh = "slow"
      BY <2>4 DEF Reason
    <3> QED
      BY <1>3, <2>1, <2>2, <3>1
  <2> QED
    BY <1>1, <2>3, <2>4 DEF v
<1> QED
  BY <1>2, <1>3

\* A step that unlocks the door is a cycle, and its command carried F-02's target OFF.
LEMMA UnlockStep ==
  ASSUME Inv, [Next]_vars, doorState = "ON", doorState' = "OFF"
  PROVE  \/ ValidCrash
         \/ /\ ignitionState = "ON"
            /\ input'.switchRequest = "OFF" /\ ~input'.otherFault
            /\ vehicleSpeedKmh = "slow" /\ Fresh
<1>1. PICK switch \in SwitchRequest, fault \in BOOLEAN, link \in Link :
           Cycle(switch, fault, link)
  BY DEF Next, HandlePull, SpeedMessage, Tick, CrashSignal, Ignition, vars
<1> DEFINE d == DecideChildLockState(F01_Run(switch), fault)
<1>2. decision' = d /\ Command(decision', link)
  BY <1>1 DEF Cycle
<1>3. d.decisionReason \notin {"NO_STATE_CHANGE", "UNLOCK_INHIBITED_WHILE_MOVING"}
  BY <1>2 DEF Command, Commands
<1>4. d.targetClState = "OFF"
  <2>1. decision'.targetClState \in LockState
    BY <1>1, CycleType DEF Inv
  <2>2. Send(decision'.targetClState, link)
    BY <1>2, <1>3 DEF Command, Commands
  <2>3. doorState' \in {doorState, decision'.targetClState}
    BY <2>1, <2>2, SendEffect DEF Inv, TypeOK
  <2> QED
    BY <1>2, <2>3
<1>5. input'.switchRequest = switch /\ (~fault => ~input'.otherFault)
  BY <1>1 DEF Cycle
<1> QED
  BY <1>3, <1>4, <1>5, UnlockDecision DEF Inv

\* The rear doors are unlocked only by a valid crash or by the driver, on a plausible speed of
\* at most 3 km/h younger than the timeout and without a fault: never on the 0.0 km/h F-01
\* substitutes, whatever is lost on the ECU link.
THEOREM UnlocksAuthorised == Spec => UnlockAuthorised
<1> DEFINE A == (doorState = "ON" /\ doorState' = "OFF")
                  => \/ ValidCrash
                     \/ /\ ignitionState = "ON"
                        /\ input'.switchRequest = "OFF" /\ ~input'.otherFault
                        /\ vehicleSpeedKmh = "slow" /\ Fresh
<1>1. Inv /\ [Next]_vars => [A]_vars
  BY UnlockStep
<1> QED
  BY <1>1, Invariance, PTL DEF Spec, UnlockAuthorised

\* In a valid crash F-02 decides the release, whatever else F-01 and the caller report.
LEMMA CrashDecision ==
  ASSUME ValidCrash, NEW switch \in SwitchRequest, NEW fault \in BOOLEAN
  PROVE  DecideChildLockState(F01_Run(switch), fault)
           = [targetClState |-> "OFF", decisionReason |-> "CRASH_DETECTED"]
<1>1. F01_Run(switch).validCrashSignal
  BY DEF F01_Run, ValidCrash, ValidCrashSignal
<1>2. Reason(F01_Run(switch), fault) = "CRASH_DETECTED"
  BY <1>1 DEF Reason
<1> QED
  BY <1>2 DEF DecideChildLockState, Target

\* No step of FG-01 locks an unlocked door in a valid crash.
LEMMA CrashStep ==
  ASSUME Inv, [Next]_vars, ValidCrash, doorState = "OFF"
  PROVE  doorState' = "OFF"
<1>1. ASSUME NEW switch \in SwitchRequest, NEW fault \in BOOLEAN, NEW link \in Link,
             Cycle(switch, fault, link)
      PROVE  doorState' = "OFF"
  <2>1. Send("OFF", link)
    BY <1>1, CrashDecision DEF Cycle, Command, Commands
  <2>2. doorState' \in {doorState, "OFF"}
    BY <2>1, SendEffect DEF Inv, TypeOK, LockState
  <2> QED
    BY <2>2
<1>2. CASE UNCHANGED doorState
  BY <1>2
<1> QED
  BY <1>1, <1>2 DEF Next, HandlePull, SpeedMessage, Tick, CrashSignal, Ignition, vars

\* While a valid crash lasts, FG-01 alone never locks an unlocked door.
THEOREM CrashKeepsUnlocked == Spec => CrashNeverLocks
<1> DEFINE A == (ValidCrash /\ doorState = "OFF") => doorState' = "OFF"
<1>1. Inv /\ [Next]_vars => [A]_vars
  BY CrashStep
<1> QED
  BY <1>1, Invariance, PTL DEF Spec, CrashNeverLocks

-----------------------------------------------------------------------------
(* FG-01 implements the abstract lock.                                     *)

\* A command is an acknowledged or an unacknowledged step of the abstract lock.
LEMMA SendRefines ==
  ASSUME TypeOK, NEW target \in LockState, NEW link \in Link, Send(target, link)
  PROVE  Lock!Next
<1> DEFINE out == HandleCommand(target, link = "acknowledged")
<1>1. ecu' = out /\ doorState' \in {doorState, target} /\ target \in Lock!LockState
  BY SendEffect DEF Send, TypeOK, LockState, Lock!LockState
<1>2. CASE link = "acknowledged"
  <2>1. out.ackStatus = "RECEIVED" /\ out.dtc = "NONE" /\ out.childLockCommand = MapCommand(target)
    BY <1>2 DEF HandleCommand, EcuIdle
  <2>2. Answer' = "received" /\ clState' = target /\ doorState' = target
    BY <1>1, <1>2, <2>1 DEF Send, Answer, MapCommand, LockState
  <2> QED
    BY <1>1, <2>2 DEF Lock!Next, Lock!Acknowledged
<1>3. CASE link # "acknowledged"
  <2>1. out.ackStatus = "NOT_RECEIVED" /\ out.dtc = "ECU_ACK_FAIL"
    BY <1>3 DEF HandleCommand
  <2>2. Answer' = "missing" /\ clState' = clState
    BY <1>1, <2>1 DEF Send, Answer
  <2> QED
    BY <1>1, <2>2 DEF Lock!Next, Lock!Unacknowledged
<1> QED
  BY <1>2, <1>3

\* Each step of FG-01 is a step of the abstract lock or none.
LEMMA LockStep ==
  ASSUME TypeOK, [Next]_vars
  PROVE  [Lock!Next]_(Lock!lockVars)
<1>1. ASSUME NEW switch \in SwitchRequest, NEW fault \in BOOLEAN, NEW link \in Link,
             Cycle(switch, fault, link)
      PROVE  [Lock!Next]_(Lock!lockVars)
  <2>1. decision'.targetClState \in LockState
    BY <1>1, CycleType
  <2>2. CASE Send(decision'.targetClState, link)
    BY <2>1, <2>2, SendRefines
  <2>3. CASE UNCHANGED <<ecu, doorState, clState>>
    BY <2>3 DEF Lock!lockVars, Answer
  <2> QED
    BY <1>1, <2>2, <2>3 DEF Cycle, Command, Commands
<1>2. CASE UNCHANGED <<ecu, doorState, clState>>
  BY <1>2 DEF Lock!lockVars, Answer
<1> QED
  BY <1>1, <1>2 DEF Next, HandlePull, SpeedMessage, Tick, CrashSignal, Ignition, vars

\* The remembered state and the doors move only together, or the doors alone under an
\* ECU_ACK_FAIL: FG-01 implements LossyLock.
THEOREM LossyLockImplemented == Spec => ImplementsLossyLock
<1>1. Init => Lock!Init
  BY DEF Init, Lock!Init, Answer, EcuIdle, LockState, Lock!LockState
<1>2. TypeOK /\ [Next]_vars => [Lock!Next]_(Lock!lockVars)
  BY LockStep
<1> QED
  BY <1>1, <1>2, TypeCorrect, PTL DEF Spec, ImplementsLossyLock, Lock!Spec

-----------------------------------------------------------------------------
(* F-04's report.                                                          *)

\* Unless the last command went unacknowledged, what F-04 says of a pulled handle is true of the
\* door, though F-04 never asks the door.
THEOREM BlockReportsTrue == Spec => BlockReportTrue
<1> DEFINE A == (block' # block /\ ecu.dtc = "NONE")
                  => CASE block'.blockResult = "ALLOWED" -> doorState = "OFF"
                       [] block'.blockResult = "BLOCKED" -> doorState = "ON"
                       [] OTHER -> block'.blockResult = "NO_EVENT"
<1>1. Inv /\ [Next]_vars => [A]_vars
  <2> SUFFICES ASSUME Inv, [Next]_vars, block' # block, ecu.dtc = "NONE"
               PROVE  CASE block'.blockResult = "ALLOWED" -> doorState = "OFF"
                        [] block'.blockResult = "BLOCKED" -> doorState = "ON"
                        [] OTHER -> block'.blockResult = "NO_EVENT"
    OBVIOUS
  <2>1. PICK feedback \in {"CLOSED", "OPENED", "UNKNOWN"} : HandlePull(feedback)
    BY DEF Next, Cycle, SpeedMessage, Tick, CrashSignal, Ignition, vars
  <2>2. clState = doorState /\ clState \in LockState
    BY DEF Inv, DisagreementReported, TypeOK
  <2>3. block' = HandleOpenRequest(HandleEvent, feedback) /\ (feedback = "OPENED" => doorState = "OFF")
    BY <2>1 DEF HandlePull
  <2> QED
    BY <2>2, <2>3 DEF HandleOpenRequest, LockState
<1> QED
  BY <1>1, Invariance, PTL DEF Spec, BlockReportTrue

-----------------------------------------------------------------------------
(* The steps behind the liveness properties: one acknowledged cycle reaches *)
(* the goal, and no step leaves it.  That such a cycle comes is fairness.   *)

Both(state) == doorState = state /\ clState = state

AcknowledgedCycle ==
  \E switch \in SwitchRequest, fault \in BOOLEAN : Cycle(switch, fault, "acknowledged")

\* A cycle that decides for target moves door and remembered state towards it, and to it if
\* the command is acknowledged.
LEMMA DecidedCycle ==
  ASSUME TypeOK, NEW target \in LockState,
         NEW switch \in SwitchRequest, NEW fault \in BOOLEAN, NEW link \in Link,
         Cycle(switch, fault, link),
         LET d == DecideChildLockState(F01_Run(switch), fault)
         IN  Commands(d) /\ d.targetClState = target
  PROVE  /\ link = "acknowledged" => Both(target)'
         /\ Both(target) => Both(target)'
<1>1. Send(target, link)
  BY DEF Cycle, Command
<1> QED
  BY <1>1, SendEffect DEF TypeOK, Both

\* If every decision under condition P is for target, an acknowledged cycle reaches it and
\* no step leaves it.
LEMMA DecidedStep ==
  ASSUME TypeOK, [Next]_vars, NEW target \in LockState,
         \A switch \in SwitchRequest, fault \in BOOLEAN :
           LET d == DecideChildLockState(F01_Run(switch), fault)
           IN  Commands(d) /\ d.targetClState = target
  PROVE  /\ AcknowledgedCycle => Both(target)'
         /\ Both(target) => Both(target)'
<1>1. ASSUME NEW switch \in SwitchRequest, NEW fault \in BOOLEAN, NEW link \in Link,
             Cycle(switch, fault, link)
      PROVE  /\ link = "acknowledged" => Both(target)'
             /\ Both(target) => Both(target)'
  <2>1. LET d == DecideChildLockState(F01_Run(switch), fault)
        IN  Commands(d) /\ d.targetClState = target
    OBVIOUS
  <2> QED
    BY <1>1, <2>1, DecidedCycle
<1>2. "acknowledged" \in Link
  BY DEF Link
<1>3. AcknowledgedCycle => Both(target)'
  BY <1>1, <1>2 DEF AcknowledgedCycle
<1>4. CASE UNCHANGED <<doorState, clState>>
  BY <1>3, <1>4 DEF Both
<1> QED
  BY <1>1, <1>3, <1>4 DEF Next, HandlePull, SpeedMessage, Tick, CrashSignal, Ignition, vars

\* The safety half of CrashReleases: in a valid crash the first cycle whose command is
\* acknowledged has the doors unlocked and known to be, and nothing in FG-01 undoes it.
THEOREM CrashReleaseProgress ==
  Spec => [][ValidCrash => /\ AcknowledgedCycle => Both("OFF")'
                           /\ Both("OFF") => Both("OFF")']_vars
<1> DEFINE A == ValidCrash => /\ AcknowledgedCycle => Both("OFF")'
                              /\ Both("OFF") => Both("OFF")'
<1>1. TypeOK /\ [Next]_vars => [A]_vars
  <2> SUFFICES ASSUME TypeOK, [Next]_vars, ValidCrash
               PROVE  /\ AcknowledgedCycle => Both("OFF")'
                      /\ Both("OFF") => Both("OFF")'
    OBVIOUS
  <2>1. \A switch \in SwitchRequest, fault \in BOOLEAN :
          LET d == DecideChildLockState(F01_Run(switch), fault)
          IN  Commands(d) /\ d.targetClState = "OFF"
    BY CrashDecision DEF Commands
  <2> QED
    BY <2>1, DecidedStep DEF LockState
<1> QED
  BY <1>1, TypeCorrect, PTL DEF Spec

\* Without a crash a speed that is too old, or from the future, is a fault and F-02 locks.
LEMMA SilenceDecision ==
  ASSUME TypeOK, SpeedAgeSound, ignitionState = "ON", ~ValidCrash, ~Fresh,
         NEW switch \in SwitchRequest, NEW fault \in BOOLEAN
  PROVE  DecideChildLockState(F01_Run(switch), fault)
           = [targetClState |-> "ON", decisionReason |-> "FAULT_DETECTED"]
<1>1. ~SpeedValid
  <2>1. speedAge \in SpeedAge
    BY DEF TypeOK
  <2> QED
    BY <2>1, SpeedAssumption, ClockAssumption DEF SpeedValid, SpeedAgeSound, SpeedAge, Fresh
<1>2. F01_Run(switch).speedFault /\ ~F01_Run(switch).validCrashSignal
  BY <1>1 DEF F01_Run, ValidCrash, ValidCrashSignal
<1>3. Reason(F01_Run(switch), fault) = "FAULT_DETECTED"
  BY <1>2 DEF Reason
<1> QED
  BY <1>3 DEF DecideChildLockState, Target

\* The safety half of SpeedLossLocks: while the speed is silent and there is no crash the first
\* acknowledged cycle has the doors locked and known to be, and no step undoes it.
THEOREM SpeedLossProgress ==
  Spec => [][(ignitionState = "ON" /\ ~ValidCrash /\ ~Fresh)
               => /\ AcknowledgedCycle => Both("ON")'
                  /\ Both("ON") => Both("ON")']_vars
<1> DEFINE A == (ignitionState = "ON" /\ ~ValidCrash /\ ~Fresh)
                  => /\ AcknowledgedCycle => Both("ON")'
                     /\ Both("ON") => Both("ON")'
<1>1. Inv /\ [Next]_vars => [A]_vars
  <2> SUFFICES ASSUME Inv, [Next]_vars, ignitionState = "ON", ~ValidCrash, ~Fresh
               PROVE  /\ AcknowledgedCycle => Both("ON")'
                      /\ Both("ON") => Both("ON")'
    OBVIOUS
  <2>1. \A switch \in SwitchRequest, fault \in BOOLEAN :
          LET d == DecideChildLockState(F01_Run(switch), fault)
          IN  Commands(d) /\ d.targetClState = "ON"
    BY SilenceDecision DEF Inv, Commands
  <2> QED
    BY <2>1, DecidedStep DEF Inv, LockState
<1> QED
  BY <1>1, Invariance, PTL DEF Spec

=============================================================================
