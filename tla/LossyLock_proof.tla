--------------------------- MODULE LossyLock_proof ---------------------------
(* What an implementation of LossyLock may be relied on for.                *)
EXTENDS LossyLock, TLAPS

\* After an acknowledged command, and until the next one or a restart, the remembered state is
\* the lock of the doors.
THEOREM ReceivedAgrees == Spec => []ReceivedMeansAgreed
<1>1. Init => ReceivedMeansAgreed
  BY DEF Init, ReceivedMeansAgreed
<1>2. ReceivedMeansAgreed /\ [Next]_lockVars => ReceivedMeansAgreed'
  BY DEF Next, lockVars, ReceivedMeansAgreed, Acknowledged, Unacknowledged, Restart
<1> QED
  BY <1>1, <1>2, PTL DEF Spec
=============================================================================
