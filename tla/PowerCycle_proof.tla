-------------------------- MODULE PowerCycle_proof --------------------------
(***************************************************************************)
(* F-05 and F-10 over behaviours of any length: what is restored, what a   *)
(* restart may unlock, how often the summary is shown.                     *)
(***************************************************************************)
EXTENDS PowerCycle, TLAPS

USE DEF Alert, Memory, Result, Summary

-----------------------------------------------------------------------------
(* Types.                                                                  *)

\* F-05's answer to memory contents of the right type.
LEMMA RestoreType ==
  ASSUME manager \in BOOLEAN,
         NEW m \in Memory
  PROVE  LET r == RestoreResult(m)
         IN  /\ r \in Result
             /\ r.restoreStatus = "RESTORED" =>
                  /\ m.available /\ m.valid /\ m.state \in LockState
                  /\ r.restoredClState = m.state
             /\ r.restoreStatus # "RESTORED" => r.restoredClState = "OFF"
             /\ r.syncRequested => r.restoreStatus = "RESTORED"
<1>1. CASE ~manager
  BY <1>1 DEF RestoreResult, ClearResult, LockState
<1>2. CASE manager /\ ~m.available
  BY <1>2 DEF RestoreResult, ClearResult, LockState
<1>3. CASE manager /\ m.available /\ Malformed(m)
  BY <1>3 DEF RestoreResult, ClearResult, LockState
<1>4. CASE manager /\ m.available /\ ~Malformed(m)
  <2>1. RestoreResult(m) = Restored(m)
    BY <1>4 DEF RestoreResult
  <2>2. m.valid /\ m.state \in LockState
    BY <1>4 DEF Malformed
  <2> QED
    BY <1>4, <2>1, <2>2 DEF Restored, ClearResult, LockState
<1> QED
  BY <1>1, <1>2, <1>3, <1>4

\* Memory as HandleRestore sees it: a read may fail though a record is there.
LEMMA ReadType ==
  ASSUME TypeOK, NEW readable \in BOOLEAN
  PROVE  LET m == [nvm EXCEPT !.available = @ /\ readable]
         IN  /\ m \in Memory
             /\ m.available => nvm.available
             /\ m.valid = nvm.valid /\ m.state = nvm.state
BY DEF TypeOK

\* The steps that lose RAM leave it in its initial state.
LEMMA ZeroedType ==
  ASSUME ZeroedRam
  PROVE  /\ manager' \in BOOLEAN
         /\ alert' \in Alert
         /\ clState' \in LockState
         /\ result' \in Result
         /\ result'.restoreStatus = "NOT_REQUESTED"
         /\ summary' \in Summary
BY DEF ZeroedRam, ClearResult, NoSummary, LockState

\* Every step keeps the type of every field.
LEMMA TypeStep == TypeOK /\ [Next]_vars => TypeOK'
<1> SUFFICES ASSUME TypeOK, [Next]_vars PROVE TypeOK'
  OBVIOUS
<1> USE DEF TypeOK
<1>1. CASE Start
  BY <1>1, ZeroedType DEF Start
<1>2. CASE PowerLoss
  BY <1>2, ZeroedType DEF PowerLoss
<1>3. ASSUME NEW config \in BOOLEAN, InitF05(config) PROVE TypeOK'
  BY <1>3 DEF InitF05
<1>4. ASSUME NEW config \in BOOLEAN, InitF10(config) PROVE TypeOK'
  BY <1>4 DEF InitF10
<1>5. ASSUME NEW readable \in BOOLEAN, NEW delivered \in BOOLEAN,
             HandleRestore(readable, delivered)
      PROVE  TypeOK'
  <2>1. result' \in Result
    BY <1>5, RestoreType, ReadType DEF HandleRestore
  <2>2. clState' \in LockState /\ doorState' \in LockState
    BY <1>5, <2>1 DEF HandleRestore
  <2> QED
    BY <1>5, <2>1, <2>2 DEF HandleRestore
<1>6. ASSUME NEW state \in LockState, SetLock(state) PROVE TypeOK'
  BY <1>6 DEF SetLock
<1>7. CASE IgnitionOff
  BY <1>7 DEF IgnitionOff
<1>8. ASSUME NEW write \in Write, HandleIgnitionOff(write) PROVE TypeOK'
  <2>1. result' \in Result
    <3>1. CASE manager
      <4>1. (write = "done") \in BOOLEAN
        OBVIOUS
      <4>2. result' = [ClearResult EXCEPT !.savedClState = clState,
                                          !.persistSucceeded = (write = "done")]
        BY <1>8, <3>1 DEF HandleIgnitionOff
      <4> QED
        BY <4>1, <4>2 DEF ClearResult, LockState
    <3>2. CASE ~manager
      <4>1. result' = ClearResult
        BY <1>8, <3>2 DEF HandleIgnitionOff
      <4> QED
        BY <4>1 DEF ClearResult, LockState
    <3> QED
      BY <3>1, <3>2
  <2>2. nvm' \in Memory
    <3>1. CASE manager /\ Stored(write)
      <4>1. nvm' = [available |-> TRUE, valid |-> TRUE, state |-> clState]
        BY <1>8, <3>1 DEF HandleIgnitionOff, Stored
      <4> QED
        BY <4>1
    <3>2. CASE manager /\ write = "torn"
      BY <1>8, <3>2 DEF HandleIgnitionOff, Stored, TornRecord
    <3>3. CASE ~manager \/ write = "refused"
      <4>1. nvm' = nvm
        BY <1>8, <3>3 DEF HandleIgnitionOff, Stored
      <4> QED
        BY <4>1
    <3> QED
      BY <3>1, <3>2, <3>3 DEF Write, Stored
  <2>3. lastGood' \in LockState \cup {"none"}
    BY <1>8 DEF HandleIgnitionOff
  <2> QED
    BY <1>8, <2>1, <2>2, <2>3 DEF HandleIgnitionOff
<1>9. CASE PowerLossInWrite
  BY <1>9, ZeroedType DEF PowerLossInWrite, TornRecord
<1>10. ASSUME NEW queried \in LockState \cup {"failed"},
              HandleEvent(queried)
       PROVE  TypeOK'
  <2>1. /\ Issues(queried) => shown' = shown + 1
        /\ ~Issues(queried) => shown' = shown
    BY <1>10 DEF HandleEvent
  <2>2. alert' \in Alert
    BY <1>10 DEF HandleEvent, Issues
  <2>3. summary' \in Summary
    <3>1. CASE Issues(queried)
      BY <1>10, <3>1 DEF HandleEvent, Issues, IssueAlert, Message, LockState
    <3>2. CASE ~Issues(queried)
      BY <1>10, <3>2 DEF HandleEvent, NoSummary
    <3> QED
      BY <3>1, <3>2
  <2> QED
    BY <1>10, <2>1, <2>2, <2>3 DEF HandleEvent
<1>11. CASE UNCHANGED vars
  BY <1>11 DEF vars
<1> QED
  BY <1>1, <1>2, <1>3, <1>4, <1>5, <1>6, <1>7, <1>8, <1>9, <1>10, <1>11 DEF Next

\* The vehicle as delivered.
LEMMA InitType == Init => TypeOK
<1> SUFFICES ASSUME Init PROVE TypeOK
  OBVIOUS
<1>1. result \in Result
  BY DEF Init, ClearResult, LockState
<1>2. summary \in Summary
  BY DEF Init, NoSummary
<1>3. /\ nvm \in Memory
      /\ alert \in Alert
  BY DEF Init
<1>4. manager \in BOOLEAN
  BY DEF Init
<1> QED
  BY <1>1, <1>2, <1>3, <1>4 DEF Init, TypeOK, LockState

\* F-05 and F-10 keep the type of every field through any order of resets, power losses, failed
\* writes, reads and queries.
THEOREM TypeCorrect == Spec => []TypeOK
BY InitType, TypeStep, PTL DEF Spec

-----------------------------------------------------------------------------
(* What is restored.  A record that passes F-05's checks is the last one   *)
(* written; that is what makes the property inductive.                     *)

RecordIsLast == (nvm.available /\ nvm.valid /\ nvm.state \in LockState) => nvm.state = lastGood

RestoreInv == TypeOK /\ RecordIsLast /\ RestoredWasPersisted

\* Memory changes only in a write, and result with it.
LEMMA RestoreStep == RestoreInv /\ [Next]_vars => (RecordIsLast /\ RestoredWasPersisted)'
<1> SUFFICES ASSUME RestoreInv, [Next]_vars PROVE (RecordIsLast /\ RestoredWasPersisted)'
  OBVIOUS
<1> USE DEF RestoreInv, RecordIsLast, RestoredWasPersisted
<1>1. ASSUME ZeroedRam, UNCHANGED <<nvm, lastGood>> PROVE (RecordIsLast /\ RestoredWasPersisted)'
  BY <1>1, ZeroedType
<1>2. ASSUME NEW readable \in BOOLEAN, NEW delivered \in BOOLEAN,
             HandleRestore(readable, delivered)
      PROVE  (RecordIsLast /\ RestoredWasPersisted)'
  <2>1. result'.restoreStatus = "RESTORED" =>
          /\ nvm.available /\ nvm.valid /\ nvm.state \in LockState
          /\ result'.restoredClState = nvm.state
    BY <1>2, RestoreType, ReadType DEF HandleRestore, TypeOK
  <2> QED
    BY <1>2, <2>1 DEF HandleRestore
<1>3. ASSUME NEW write \in Write, HandleIgnitionOff(write)
      PROVE  (RecordIsLast /\ RestoredWasPersisted)'
  <2>1. CASE manager
    <3>1. result' = [ClearResult EXCEPT !.savedClState = clState,
                                        !.persistSucceeded = (write = "done")]
      BY <1>3, <2>1 DEF HandleIgnitionOff
    <3>2. result'.restoreStatus = "NOT_REQUESTED"
      BY <3>1, Zenon DEF ClearResult
    <3>3. \/ nvm'.state = clState /\ lastGood' = clState
          \/ UNCHANGED <<nvm, lastGood>>
          \/ nvm'.state = "garbage"
      <4>1. CASE Stored(write)
        <5>1. nvm' = [available |-> TRUE, valid |-> TRUE, state |-> clState]
          BY <1>3, <2>1, <4>1 DEF HandleIgnitionOff, Stored
        <5>2. lastGood' = clState
          BY <1>3, <2>1, <4>1 DEF HandleIgnitionOff
        <5> QED
          BY <5>1, <5>2
      <4>2. CASE write = "refused"
        BY <1>3, <2>1, <4>2 DEF HandleIgnitionOff, Stored
      <4>3. CASE write = "torn"
        BY <1>3, <2>1, <4>3 DEF HandleIgnitionOff, Stored, TornRecord
      <4> QED
        BY <4>1, <4>2, <4>3 DEF Write, Stored
    <3> QED
      BY <3>2, <3>3 DEF LockState
  <2>2. CASE ~manager
    BY <1>3, <2>2 DEF HandleIgnitionOff, ClearResult
  <2> QED
    BY <2>1, <2>2
<1>4. CASE PowerLossInWrite
  <2>1. RecordIsLast'
    BY <1>4 DEF PowerLossInWrite, TornRecord, LockState
  <2> QED
    BY <1>4, <2>1, ZeroedType DEF PowerLossInWrite
<1>5. CASE UNCHANGED <<nvm, lastGood, result>>
  BY <1>5
<1> QED
  BY <1>1, <1>2, <1>3, <1>4, <1>5
  DEF Next, Start, PowerLoss, InitF05, InitF10, SetLock, IgnitionOff, HandleEvent, vars

\* The inductive invariant holds.
LEMMA RestoreInvariance == Spec => []RestoreInv
<1>1. Init => RecordIsLast /\ RestoredWasPersisted
  BY DEF Init, RecordIsLast, RestoredWasPersisted, ClearResult
<1> QED
  BY <1>1, RestoreStep, TypeCorrect, PTL DEF Spec, RestoreInv

\* A state F-05 reports as RESTORED is the one stored last, wherever resets, power
\* losses and failed or torn writes fall.
THEOREM RestoresPersisted == Spec => []RestoredWasPersisted
BY RestoreInvariance, PTL DEF RestoreInv

\* A restart unlocks locked doors only if OFF was persisted: the default of a missing or invalid
\* record never reaches the Door ECU.
THEOREM RestartUnlocksPersisted == Spec => RestartUnlocksOnlyPersisted
<1> DEFINE A == (Restarts /\ doorState = "ON" /\ doorState' = "OFF") => lastGood = "OFF"
<1>1. RestoreInv /\ [Next]_vars => [A]_vars
  <2> SUFFICES ASSUME RestoreInv, [Next]_vars, Restarts, doorState = "ON", doorState' = "OFF"
               PROVE  lastGood = "OFF"
    OBVIOUS
  <2>1. PICK readable \in BOOLEAN, delivered \in BOOLEAN : HandleRestore(readable, delivered)
    BY DEF Next, Restarts, Start, PowerLoss, InitF05, InitF10, SetLock, IgnitionOff,
           HandleIgnitionOff, PowerLossInWrite, HandleEvent, vars
  <2>2. result'.syncRequested /\ result'.restoredClState = "OFF"
    BY <2>1 DEF HandleRestore
  <2>3. /\ nvm.available /\ nvm.valid /\ nvm.state \in LockState
        /\ result'.restoredClState = nvm.state
    BY <2>1, <2>2, RestoreType, ReadType DEF HandleRestore, TypeOK, RestoreInv
  <2> QED
    BY <2>2, <2>3 DEF RestoreInv, RecordIsLast
<1> QED
  BY <1>1, RestoreInvariance, PTL DEF Spec, RestartUnlocksOnlyPersisted

-----------------------------------------------------------------------------
(* The summary.  The latch is set exactly when one has been shown.         *)

SummaryInv == TypeOK /\ shown \in {0, 1} /\ (shown = 1 => alert.alertAlreadyIssued)

\* F-10 issues at most one summary between two initialisations, however often it is called.
THEOREM SummaryOnce == Spec => []SummaryAtMostOnce
<1>1. Init => shown = 0
  BY DEF Init
<1>2. SummaryInv /\ [Next]_vars => (shown \in {0, 1} /\ (shown = 1 => alert.alertAlreadyIssued))'
  <2> SUFFICES ASSUME SummaryInv, [Next]_vars
               PROVE  (shown \in {0, 1} /\ (shown = 1 => alert.alertAlreadyIssued))'
    OBVIOUS
  <2> USE DEF SummaryInv
  <2>1. CASE shown' = 0
    BY <2>1
  <2>2. CASE UNCHANGED <<alert, shown>>
    BY <2>2
  <2>3. ASSUME NEW queried \in LockState \cup {"failed"},
               HandleEvent(queried)
        PROVE  (shown \in {0, 1} /\ (shown = 1 => alert.alertAlreadyIssued))'
    <3>1. CASE Issues(queried)
      <4>1. shown = 0
        BY <3>1 DEF Issues
      <4>2. shown' = 1
        BY <2>3, <3>1, <4>1 DEF HandleEvent
      <4>3. alert'.alertAlreadyIssued
        BY <2>3, <3>1 DEF HandleEvent, TypeOK
      <4> QED
        BY <4>2, <4>3
    <3>2. CASE ~Issues(queried)
      <4>1. shown' = shown
        BY <2>3, <3>2 DEF HandleEvent
      <4>2. alert.alertAlreadyIssued => alert'.alertAlreadyIssued
        BY <2>3, <3>2 DEF HandleEvent, TypeOK
      <4> QED
        BY <4>1, <4>2
    <3> QED
      BY <3>1, <3>2
  <2> QED
    BY <2>1, <2>2, <2>3
    DEF Next, Start, PowerLoss, InitF05, InitF10, HandleRestore, SetLock, IgnitionOff,
        HandleIgnitionOff, PowerLossInWrite, vars
<1>3. SummaryInv => SummaryAtMostOnce
  BY DEF SummaryInv, SummaryAtMostOnce
<1>4. Init => shown \in {0, 1} /\ (shown = 1 => alert.alertAlreadyIssued)
  BY <1>1
<1> QED
  BY <1>2, <1>3, <1>4, TypeCorrect, PTL DEF Spec, SummaryInv
=============================================================================
