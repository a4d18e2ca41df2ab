------------------------------ MODULE LossyLock ------------------------------
(***************************************************************************)
(* What the functions that read the Child Lock state may rely on: an       *)
(* abstract specification of the remembered state, the lock of the doors   *)
(* and the link between them, with no word on why a command is given.      *)
(***************************************************************************)

LockState == {"OFF", "ON"}

VARIABLES
  known,   \* the remembered Child Lock state
  actual,  \* the lock of the rear doors
  answer   \* to the last command: "received", "missing", or "none" after a restart

lockVars == <<known, actual, answer>>

Init == known \in LockState /\ actual \in LockState /\ answer = "none"

\* An acknowledged command moves both.
Acknowledged(target) == known' = target /\ actual' = target /\ answer' = "received"

\* One that is not leaves the remembered state as it is, and says so; the door may have moved.
Unacknowledged(target) == known' = known /\ actual' \in {actual, target} /\ answer' = "missing"

\* A restart replaces the remembered state, and the door may be made to follow it.  Nobody says
\* whether it did, and an answer to an earlier command means nothing any more.
Restart(state) == known' = state /\ actual' \in {actual, state} /\ answer' = "none"

Next == \E state \in LockState : Acknowledged(state) \/ Unacknowledged(state) \/ Restart(state)

Spec == Init /\ [][Next]_lockVars

\* After an acknowledgement the remembered state is that of the doors.
ReceivedMeansAgreed == answer = "received" => known = actual
=============================================================================
