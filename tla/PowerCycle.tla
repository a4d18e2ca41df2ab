----------------------------- MODULE PowerCycle -----------------------------
(***************************************************************************)
(* Ignition off, power loss, reset and restart: F-05 keeps the Child Lock  *)
(* state across them in non-volatile memory, F-10 summarises it to the     *)
(* driver once.  Both work through callbacks: a write that may fail or be  *)
(* cut short by the loss of power, a read that may find nothing, a request *)
(* to the Door ECU that nobody acknowledges, a query that may fail.        *)
(***************************************************************************)
EXTENDS Naturals

LockState == {"OFF", "ON"}

Alert   == [isInitialized : BOOLEAN, alertAlreadyIssued : BOOLEAN]
Memory  == [available : BOOLEAN, valid : BOOLEAN, state : LockState \cup {"garbage"}]
Result  == [savedClState : LockState, restoredClState : LockState,
            restoreStatus : {"NOT_REQUESTED", "RESTORED", "UNAVAILABLE", "INVALID"},
            persistSucceeded : BOOLEAN, syncRequested : BOOLEAN]
Summary == [message : {"NONE", "CL_ON_SUMMARY", "QUERY_FALLBACK"}, alertIssued : BOOLEAN]

VARIABLES
  power,      \* "off", "starting" (RAM fresh), "running" or "stopping" (ignition off)
  manager,    \* F-05: isInitialized
  alert,      \* F-10: isInitialized, alertAlreadyIssued
  clState,    \* the Child Lock state in RAM
  doorState,  \* the lock of the rear doors, which needs no power
  nvm,        \* persisted enum value ("garbage" for any other), its validity, its presence
  result,     \* StatePersistenceManager_Result_t of the last call
  summary,    \* IgnitionOffStatusAlert_Output_t of the last call
  (* History, read by properties only: *)
  lastGood,   \* the last state a write stored in memory
  shown       \* summaries issued since the last F-10 Init

vars == <<power, manager, alert, clState, doorState, nvm, result, summary, lastGood, shown>>

-----------------------------------------------------------------------------
(* F-05 and F-10 as functions of their callbacks' answers.                 *)

ClearResult == [savedClState |-> "OFF", restoredClState |-> "OFF",
                restoreStatus |-> "NOT_REQUESTED", persistSucceeded |-> FALSE,
                syncRequested |-> FALSE]

Restored(m) == [ClearResult EXCEPT !.restoredClState = m.state, !.restoreStatus = "RESTORED",
                                   !.syncRequested = TRUE]

Malformed(m) == ~m.valid \/ m.state \notin LockState

\* Mutants: the value is not validated; the status is set before the record is validated; the
\* Door ECU is asked to follow the default too.
RestoreResult_Unvalidated(m) ==
  CASE ~manager                -> ClearResult
    [] manager /\ ~m.available -> [ClearResult EXCEPT !.restoreStatus = "UNAVAILABLE"]
    [] manager /\ m.available /\ ~m.valid -> [ClearResult EXCEPT !.restoreStatus = "INVALID"]
    [] OTHER                   -> Restored(m)
RestoreResult_StatusFirst(m) ==
  CASE ~manager                -> ClearResult
    [] manager /\ ~m.available -> [ClearResult EXCEPT !.restoreStatus = "UNAVAILABLE"]
    [] manager /\ m.available /\ Malformed(m) -> [ClearResult EXCEPT !.restoreStatus = "RESTORED"]
    [] OTHER                   -> Restored(m)
RestoreResult_SyncsDefault(m) ==
  IF manager /\ (~m.available \/ Malformed(m))
  THEN [ClearResult EXCEPT !.restoreStatus = "INVALID", !.syncRequested = TRUE]
  ELSE IF manager THEN Restored(m) ELSE ClearResult

\* What HandleRestore makes of memory contents m.
RestoreResult(m) ==
  CASE ~manager                -> ClearResult
    [] manager /\ ~m.available -> [ClearResult EXCEPT !.restoreStatus = "UNAVAILABLE"]
    [] manager /\ m.available /\ Malformed(m) -> [ClearResult EXCEPT !.restoreStatus = "INVALID"]
    [] OTHER                   -> Restored(m)

NoSummary == [message |-> "NONE", alertIssued |-> FALSE]

\* Mutant: the fallback is given the message of a locked door.
Message_FailedAsOn(queried) == IF queried \in {"ON", "failed"} THEN "CL_ON_SUMMARY" ELSE "NONE"

Message(queried) == CASE queried = "ON"  -> "CL_ON_SUMMARY"
                      [] queried = "OFF" -> "NONE"
                      [] OTHER -> "QUERY_FALLBACK"

\* F-10 issues a summary if it is ready, has issued none yet and has something to say.
Issues(queried) ==
  alert.isInitialized /\ ~alert.alertAlreadyIssued /\ Message(queried) # "NONE"

IssueAlert(queried) == [message |-> Message(queried), alertIssued |-> TRUE]

ZeroedRam == /\ manager' = FALSE
             /\ alert' = [isInitialized |-> FALSE, alertAlreadyIssued |-> FALSE]
             /\ clState' = "OFF"
             /\ result' = ClearResult
             /\ summary' = NoSummary

-----------------------------------------------------------------------------
(* The steps.                                                              *)

Init ==
  /\ power = "off"
  /\ manager = FALSE
  /\ alert = [isInitialized |-> FALSE, alertAlreadyIssued |-> FALSE]
  /\ clState = "OFF"
  /\ doorState \in LockState
  /\ nvm = [available |-> FALSE, valid |-> FALSE, state |-> "garbage"]
  /\ result = ClearResult
  /\ summary = NoSummary
  /\ lastGood = "none"
  /\ shown = 0

\* Power returns, or a watchdog resets the controller at any moment.
Start ==
  /\ power' = "starting"
  /\ ZeroedRam
  /\ shown' = 0
  /\ UNCHANGED <<doorState, nvm, lastGood>>

PowerLoss ==
  /\ power # "off"
  /\ power' = "off"
  /\ ZeroedRam
  /\ shown' = 0
  /\ UNCHANGED <<doorState, nvm, lastGood>>

\* StatePersistenceManager_Init, after a start or again in a later ignition cycle: fails, leaving
\* F-05 not ready, if a callback is missing.
InitF05(config) ==
  /\ power \in {"starting", "running"}
  /\ manager' = config
  /\ UNCHANGED <<power, alert, clState, doorState, nvm, result, summary, lastGood, shown>>

\* IgnitionOffStatusAlert_Init, which also resets the latch.
InitF10(config) ==
  /\ power \in {"starting", "running"}
  /\ alert' = [isInitialized |-> config, alertAlreadyIssued |-> FALSE]
  /\ shown' = 0
  /\ UNCHANGED <<power, manager, clState, doorState, nvm, result, summary, lastGood>>

\* StatePersistenceManager_HandleIgnitionOn and _HandleReset: restore after a start, or when the
\* ignition comes back before power was lost.  The read may fail though memory holds a state,
\* the request to the Door ECU may be lost.  The caller takes over a RESTORED state; of the
\* default F-05 returns with any other status the code does not say, so it may or may not.
HandleRestore(readable, delivered) ==
  /\ power \in {"starting", "stopping"}
  /\ power' = "running"
  /\ result' = RestoreResult([nvm EXCEPT !.available = @ /\ readable])
  /\ clState' \in IF result'.restoreStatus = "RESTORED" THEN {result'.restoredClState}
                  ELSE {clState, result'.restoredClState}
  /\ doorState' = IF result'.syncRequested /\ delivered THEN result'.restoredClState ELSE doorState
  /\ UNCHANGED <<manager, alert, nvm, summary, lastGood, shown>>

\* A command to the Door ECU from another function (F-02's decisions, F-08's requests), also in
\* the cycles of a shutdown.  It may be lost; the caller takes the state over only when it is
\* acknowledged.
SetLock(state) ==
  /\ power \in {"running", "stopping"}
  /\ \/ clState' = state /\ doorState' = state
     \/ clState' = clState /\ doorState' \in {doorState, state}
  /\ UNCHANGED <<power, manager, alert, nvm, result, summary, lastGood, shown>>

IgnitionOff ==
  /\ power = "running"
  /\ power' = "stopping"
  /\ UNCHANGED <<manager, alert, clState, doorState, nvm, result, summary, lastGood, shown>>

\* What a torn write leaves: its validity may or may not betray it.
TornRecord == [available : {TRUE}, valid : BOOLEAN, state : {"garbage"}]

\* The write succeeds, stores the state and yet reports a failure, is refused and changes
\* nothing, or is torn.
Write == {"done", "unreported", "refused", "torn"}

Stored(write) == write \in {"done", "unreported"}

\* StatePersistenceManager_HandleIgnitionOff.
HandleIgnitionOff(write) ==
  /\ power = "stopping"
  /\ IF manager
     THEN /\ result' = [ClearResult EXCEPT !.savedClState = clState,
                                           !.persistSucceeded = (write = "done")]
          /\ CASE Stored(write) -> nvm' = [available |-> TRUE, valid |-> TRUE, state |-> clState]
               [] write = "refused" -> nvm' = nvm
               [] write = "torn" -> nvm' \in TornRecord
          /\ lastGood' = IF Stored(write) THEN clState ELSE lastGood
     ELSE /\ result' = ClearResult
          /\ UNCHANGED <<nvm, lastGood>>
  /\ UNCHANGED <<power, manager, alert, clState, doorState, summary, shown>>

\* Power goes while F-05 writes: the record is torn, and nobody learns of it.
PowerLossInWrite ==
  /\ power = "stopping" /\ manager
  /\ power' = "off"
  /\ nvm' \in TornRecord
  /\ ZeroedRam
  /\ shown' = 0
  /\ UNCHANGED <<doorState, lastGood>>

\* Mutant: the fallback message is issued without the latch.
HandleEvent_FallbackUnlatched(queried) ==
  /\ power = "stopping"
  /\ queried \in {clState, "failed"}
  /\ summary' = IF Issues(queried) THEN IssueAlert(queried) ELSE NoSummary
  /\ alert' = [alert EXCEPT !.alertAlreadyIssued = @ \/ (Issues(queried) /\ queried # "failed")]
  /\ shown' = IF Issues(queried) THEN shown + 1 ELSE shown
  /\ UNCHANGED <<power, manager, clState, doorState, nvm, result, lastGood>>

\* IgnitionOffStatusAlert_HandleEvent with the ignition-off event set, in any cycle of the
\* shutdown and as often as the caller likes.  The query returns the state or fails.
HandleEvent(queried) ==
  /\ power = "stopping"
  /\ queried \in {clState, "failed"}
  /\ summary' = IF Issues(queried) THEN IssueAlert(queried) ELSE NoSummary
  /\ alert' = [alert EXCEPT !.alertAlreadyIssued = @ \/ Issues(queried)]
  /\ shown' = IF Issues(queried) THEN shown + 1 ELSE shown
  /\ UNCHANGED <<power, manager, clState, doorState, nvm, result, lastGood>>

Next ==
  \/ Start
  \/ PowerLoss
  \/ \E config \in BOOLEAN : InitF05(config) \/ InitF10(config)
  \/ \E readable, delivered \in BOOLEAN : HandleRestore(readable, delivered)
  \/ \E state \in LockState : SetLock(state)
  \/ IgnitionOff
  \/ \E write \in Write : HandleIgnitionOff(write)
  \/ PowerLossInWrite
  \/ \E queried \in LockState \cup {"failed"} : HandleEvent(queried)

Spec == Init /\ [][Next]_vars

-----------------------------------------------------------------------------
(* Properties.                                                             *)

TypeOK ==
  /\ power \in {"off", "starting", "running", "stopping"}
  /\ manager \in BOOLEAN
  /\ alert \in Alert
  /\ clState \in LockState /\ doorState \in LockState
  /\ nvm \in Memory
  /\ result \in Result
  /\ summary \in Summary
  /\ lastGood \in LockState \cup {"none"}
  /\ shown \in Nat

Restarts == power' = "running" /\ power # "running"

\* Whatever writes are refused or torn and wherever power is lost, a state F-05 reports as
\* RESTORED is the one stored last.
RestoredWasPersisted ==
  result.restoreStatus = "RESTORED" => result.restoredClState = lastGood

\* A restart unlocks locked doors only if OFF was persisted.  In particular the CL_STATE_OFF
\* F-05 returns for a missing or invalid record stays in RAM and never reaches the Door ECU.
RestartUnlocksOnlyPersisted ==
  [][(Restarts /\ doorState = "ON" /\ doorState' = "OFF") => lastGood = "OFF"]_vars

\* F-10 issues at most one summary between two initialisations, however many cycles of the
\* shutdown call it, whether the query fails or answers, and however often the ignition
\* comes back in between.
SummaryAtMostOnce == shown <= 1

=============================================================================
