--------------------------- MODULE RiskHysteresis ---------------------------
(***************************************************************************)
(* What F-07 promises its caller, with no timestamps: a HIGH risk is       *)
(* declared once a threat has held for CONFIRM ms and withdrawn once it    *)
(* has been gone for CLEAR ms.  Time is real time (it never wraps), and    *)
(* the state is one phase and the age of that phase.                       *)
(*                                                                         *)
(* RearRiskEvaluation implements this specification with two wrapping      *)
(* 32-bit timestamps and two flags.                                        *)
(***************************************************************************)
EXTENDS Naturals

CONSTANTS CONFIRM,  \* ms a threat must hold before HIGH is declared
          CLEAR     \* ms since the last threat after which HIGH is withdrawn

VARIABLES phase,    \* "calm", "rising", "high" or "falling"
          held,     \* age of a rising or falling phase at the last valid sample
          gap,      \* ms since the last valid sample
          verdict   \* what the last evaluation said

rhVars == <<phase, held, gap, verdict>>

RHInit == /\ phase = "calm"
          /\ held = 0
          /\ gap = 0
          /\ verdict = "none"

RHPass == /\ gap' \in Nat
          /\ gap' >= gap
          /\ UNCHANGED <<phase, held, verdict>>

\* A valid sample moves to phase p of age a and reports whether p is HIGH.
Enter(p, a) == /\ phase' = p
               /\ held' = a
               /\ gap' = 0
               /\ verdict' = IF p \in {"high", "falling"} THEN "high" ELSE "clear"

RHThreat ==
  \/ /\ phase = "calm"
     /\ Enter("rising", 0)
  \/ /\ phase = "rising"
     /\ IF held + gap >= CONFIRM THEN Enter("high", 0) ELSE Enter("rising", held + gap)
  \/ /\ phase \in {"high", "falling"}
     /\ Enter("high", 0)

RHSafe ==
  \/ /\ phase \in {"calm", "rising"}
     /\ Enter("calm", 0)
  \/ /\ phase \in {"high", "falling"}
     /\ IF held + gap >= CLEAR THEN Enter("calm", 0) ELSE Enter("falling", held + gap)

\* A rejected sample is reported and changes nothing else: the phase keeps ageing.
RHFault == /\ verdict' = "fault"
           /\ UNCHANGED <<phase, held, gap>>

RHReset == /\ phase' = "calm"
           /\ held' = 0
           /\ gap' = 0
           /\ UNCHANGED verdict

RHNext == RHPass \/ RHThreat \/ RHSafe \/ RHFault \/ RHReset

RHSpec == RHInit /\ [][RHNext]_rhVars
=============================================================================
