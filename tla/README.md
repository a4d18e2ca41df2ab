# Child Lock: formal models

TLA+ models of the Child Lock controller in this repository (`src/`, `include/`), TLC
configurations that check them on small instances, and theorems about them that TLAPS
checks for every value of the constants.

`tlc -config X.cfg M` checks a run, `tlapm M_proof.tla` a proof module. `PROJECT.json` lists the
runs, the source lines each definition stands for, the mutated definitions each property
catches, the findings, the hazards and the theorems.

## The system

Ten C modules, each a handful of functions without threads or heap, called by an integrating
cycle that is not in the repository. The caller owns every context, the sensors, the Child Lock
state in RAM, the link to the Door ECU and the non-volatile memory, and hands them to the
functions as arguments, results and callbacks.

| component | state | operations | correct when |
|---|---|---|---|
| F-01 InputMonitorAndValidator | none that matters (an "initialised" flag) | `Run` | a stale or implausible speed is a fault, never a speed; the timeout survives the wrap of the clock |
| F-02 ChildLockStateDecision | none | `DecideChildLockState` | crash before fault before driver before auto-lock; no unlock while moving |
| F-03 DoorEcuCommandHandler | none | `HandleCommand` | a command without acknowledgement is reported |
| F-04 RearDoorOpenBlockHandler | none | `HandleEvent` | what it reports of a pulled handle is true of the door |
| F-05 StatePersistenceManager | initialised, callbacks | `Init`, `HandleIgnitionOff`, `HandleIgnitionOn`, `HandleReset` | only a state that was persisted is restored |
| F-06 HmiAndEventLogger | initialised, callbacks | `Init`, `Process` | what others decide to show is shown |
| F-07 RearRiskEvaluation | two timestamps, three flags | `Init`, `Run`, `Reset` | HIGH is declared and withdrawn at the right samples |
| F-08 RearRiskProtectionController | none | `Run` | a risk ends with locked doors; a crash does not |
| F-09 RearSeatOccupancyAlert | none | `Run` | the right alert, once |
| F-10 IgnitionOffStatusAlert | initialised, already-issued latch | `Init`, `HandleEvent` | one summary a shutdown |

How they interact. FG-01 (door lock control): raw inputs -> F-01 -> F-02 -> F-03 -> Door ECU, and
F-01 -> F-04 for a pulled handle. FG-02 (exit safety): sensor -> F-07 -> F-08 -> F-03 -> Door ECU,
and F-06 for what F-08 and F-09 want shown and logged; at ignition-off F-10 queries the state, F-05
writes it, and after a start F-05 reads it and asks the Door ECU to follow. Two things are shared:
the Child Lock state the caller remembers, which F-02, F-04, F-05, F-08, F-09 and F-10 all take as the
truth, and the lock of the doors, which both FG-01 and FG-02 command.

What is hard here:

- the remembered state and the door part when a command or an acknowledgement is lost, and every
  later decision is made on the remembered one;
- FG-01 and FG-02 command one lock in cycles nobody orders;
- time is a `uint32_t` of milliseconds that wraps, subtracted in F-01 and F-07, and F-07's timers run
  on through rejected samples;
- an invalid speed is replaced by 0.0 km/h, the one value at which a driver may unlock;
- power goes away at any moment: before the write, inside it, after it, or in the middle of a drive.

The list of hazards in `PROJECT.json` gives each at its line with the properties that would catch it.

## The modules

| module | models | with |
|---|---|---|
| `WrappingClock` | the wrapping timestamp and the unsigned subtraction | |
| `RearRiskEvaluation` | F-07 | `WrappingClock` |
| `RiskHysteresis` | what F-07 promises, in true time: abstract specification | |
| `RearRiskLog` | F-07 beside a log of all its samples: reference definition | `RearRiskEvaluation` |
| `DoorLockControl` | F-01, F-02, F-03, F-04, the caller's cycle, the ECU link, the lock | `WrappingClock` |
| `ExitSafety` | F-08, F-09, F-06, beside all of FG-01 but the handle | `DoorLockControl` |
| `PowerCycle` | F-05, F-10, memory and power; commands to the lock only as "may be lost" | |
| `Vehicle` | F-02, F-03 and F-08 across ignition cycles, resets and restarts | `PowerCycle`, an instance of `ExitSafety` |
| `LossyLock` | what readers of the remembered state may rely on: abstract specification | implemented by `DoorLockControl`, `ExitSafety` and `Vehicle` |
| `MC...` | inputs for TLC | |
| `..._proof` | theorems | the module of that name |

State and code. A component without state is an operator named for its function (`F01_Run`,
`DecideChildLockState`, `HandleCommand`, `HandleOpenRequest`, `F08_Run`, `F09_Run`, `F06_Process`,
`RestoreResult`). A component with state has its context as a variable (`ctx` in
`RearRiskEvaluation`; `manager`, `alert` in `PowerCycle`; `logger` in `ExitSafety`) and an action per
function. Actions such as `Cycle`, `RearCycle`, `HandleRestore` are one pass of the caller through the
functions of one use case, with everything they change. Variables some comment calls history or
true time (`speedAge`, `sinceSample`, `lastGood`, `shown`, `released`, `settled`, `clock`, `log`) are
read by properties only.

How the modules hang together. `ExitSafety` extends `DoorLockControl` with FG-02's state and steps; FG-01's
properties are checked and proved of both. `PowerCycle` stands by itself: what FG-01 and F-08 do to the
lock is its action `SetLock`, which allows any command, lost or not. `Vehicle` extends `PowerCycle`,
puts F-02's and F-08's decisions (taken from `ExitSafety` by INSTANCE, with the ignition, crash, speed and
risk of the vehicle) in place of `SetLock`, and is shown to implement `PowerCycle`: what is checked and proved
of F-05 and F-10 alone holds of the vehicle. `DoorLockControl`, `ExitSafety` and `Vehicle` implement `LossyLock`,
whose three kinds of step are an acknowledged command, an unacknowledged one and a restart.

How the caller is modelled, since it is external:

- It sends each F-02 decision that has a reason of F-03 to F-03, and takes the target over as the
  remembered state when, and only when, the acknowledgement is received. The design asks for that
  ("previous state kept" on a missing acknowledgement, `Software_Detailed_Design.md` section 6).
- The acknowledgement handed to F-03 is that of the command F-03 returns. A link loses the command,
  the acknowledgement, or nothing.
- Retransmission happens only by deciding again in the next cycle: F-03 sets `retryCount` to its limit
  but repeats nothing.
- Rear and front cycles, messages, time and ignition interleave freely.
- What F-05 returns with a status other than RESTORED (always `CL_STATE_OFF`) may or may not be
  adopted: the code leaves it open.
- F-06 takes the fault flags as one mask, as their type is laid out for: a lost acknowledgement and a rear
  sensor fault of the same cycle reach it together.
- Speed messages arrive after any delay, so an older one may replace a newer one, and carry the stamp of a
  clock that may be ahead of the controller's by up to `MaxSkew`.
- F-05, F-06 and F-10 may be initialised again at any time (F-05 and F-10 while the ignition is on), with a
  configuration that fails their checks too.
- FG-01's cycle may still run while the controller shuts down; F-01 then hands over its defaults.
- A write stores the state, stores it and reports a failure (the fake memory of the unit tests can do
  that), is refused, or is torn; power may go inside it.
- F-05's synchronisation request moves the doors or is lost. A caller that sends it through F-03, with the
  reason STATE_RESTORE, could watch for the acknowledgement; F-05 itself cannot.

Abstractions. Floats are the ranges the code tells apart: "slow" (0 to 3 km/h), "fast" (above, to 250),
"implausible" for the speed; `RearRiskInput`'s ranges, with NaN of its own, for which every comparison
is false. Boundaries lie in the code's comparisons and are part of the ranges (3 km/h is slow; 3 m is near;
2 m/s is fast). Texts, driver notices, alert priorities, `eventLog` of F-10, and F-02's
`safetyAction` and `stateChanged`, each a function of fields that are modelled, are left out, as are
NULL guards: a caller that passes NULL changes nothing. `sensorFault` and `stateInconsistency` are one
flag of the caller. (An integrator could raise `stateInconsistency` on ECU_ACK_FAIL and
so repair what risk_locks_door shows; nothing in the repository does.) F-07's verdict is free in
`ExitSafety`: its action `Assess` does not translate `F07_Run` (`RearRiskEvaluation` does) but lets the three
outputs it can report, fault, HIGH and neither, follow each other in any order.

## The runs

Passing:

- **rear_risk** (`MCRearRiskEvaluation`, M = 10, CONFIRM = 3, CLEAR = 4, gap up to 6; 34 thousand
  states). `TypeOK`; `TimersSound`: the two timestamps measure true time and no deadline is
  overdue; `ImplementsHysteresis`: F-07 refines `RiskHysteresis` under the mapping `PhaseOf`, `HeldOf`. The clock
  starts anywhere and wraps many times. The bounds satisfy `MaxGap + CLEAR <= M` with
  equality (6 + 4 = 10), so an off-by-one in the assumption would show.
- **rear_risk_log** (`RearRiskLog.cfg`, M = 6, five samples over 7 ms; 1.8 million states).
  `HighIffConfirmedByLog`: HIGH exactly when the samples read as a whole say so. Five samples hold a
  confirmation, a fault inside it, a clearing and a new threat; 7 ms exceed one wrap.
- **door_lock** (`DoorLockControl.cfg`, M = 3, timeout 2, messages up to 2 old or 1 ahead; 137 thousand
  states). Safety of FG-01, its refinement of `LossyLock` and its two liveness properties. Ages below and at the
  timeout, stamps in the future and every place of the wrap occur; `MaxSkew + TIMEOUT = M` holds with
  equality, so one more of either would let a stamp from the future pass for a fresh one.
- **exit_safety** (`ExitSafety.cfg`, M = 2, timeout 1, messages up to 1 old; 161 thousand states). FG-01 and FG-02
  together. Time matters here only as "fresh" or "stale", which one tick gives. `RiskLocksUnlessReported`: under a
  lasting risk the doors are locked, and known to be, again and again, or they stay unlocked and wrongly
  remembered behind an ECU_ACK_FAIL that stays raised, which is the case risk_locks_door shows; no third
  outcome exists. `DisplayTrue` and
  `RiskWarned` are about what reaches F-06's callbacks: true of the doors unless a command is
  unacknowledged, and, for a risk that lasts, again and again.
- **power_cycle** (`PowerCycle.cfg`, no constants; the state space is finite because the latch
  works; 4 thousand states). F-05 and F-10, with commands, losses of power, resets, repeated
  initialisation and failing callbacks in any order.
- **vehicle** (`Vehicle.cfg`; 298 thousand states). `ImplementsPowerCycle` and `ImplementsLossyLock`, the two
  refinements; `VehicleUnlockAuthorised`, the causes of an unlock over all ignition cycles;
  `RestartKeepsDoor`: once a command was acknowledged and its state saved, and until the next command, a
  restart moves the doors only if ON was saved and the default OFF of an earlier restart was then saved
  over it; `SummaryTrue`, that F-10's summary, and its silence, are
  true of the doors. Nothing is bounded: time is left out (`DoorLockControl` has it), everything else is finite.
  The history `settled` is the state such a save stored. Only a command or another such save changes it: a save
  after a restart does not, as F-03 has no answer of its own to show since then.

Violated, each a statement of the repository that the code does not keep:

- **risk_locks_door**. After an unlock whose acknowledgement was lost F-08 sees "ON" and only warns;
  the doors stay unlocked for as long as the risk lasts, although its cycle runs fairly.
- **risk_against_crash**. F-08 has no crash input: its lock request after F-02's release locks the
  doors in an accident.
- **emergency_latch**. A fault or the auto-lock after the crash signal is gone locks the released doors.
- **release_undone**. A reset after a crash release restores the state of an earlier ignition-off, as
  RESTORED, and has the released doors locked. While the crash signal lasts, F-02 releases them again in
  its next cycle; once it is gone nothing does. A release that was saved does survive (`SavedReleaseSurvives`).
- **rear_risk_cleared_early**. One safe sample CLEAR ms after the last threat withdraws HIGH. How much of
  the safe period the code may miss is `ClearedAfterSafePeriodLessOneGap` below.
- **rear_risk_nan**. NaN confidence passes the validation. It is the only way to a HIGH risk without
  confidence (`HighRestsOnConfidence`).

More disagreements need no run to be seen and have none: F-01 drops a valid crash while the
ignition is off (`F01:279`); F-10 never reads `activeHmiAlert` (`F10:167`) and does not query again after a failed
query (`F10:175`); F-09 has no once-only latch (`F09:55`); with no valid record F-05 neither queries nor
commands the doors (`F05:176`), although `Failure_Mode.md:24` queries and synchronises at every restart. And a
saved state can be lost (`F05:164`), against `Failure_Mode.md:18`: ON is acknowledged and saved, a restart whose
read fails returns the default OFF, which the caller may take over, the next ignition-off saves that OFF over
the ON, and the restart after it finds a good record and unlocks the doors. `RestartKeepsDoor` states this case as
its exclusion, and with it says that there is no other. The third disjunct of `VehicleUnlockAuthorised` is as strong
as the code allows: OFF was saved, not OFF was decided, nor saved after the last command (`F02:38`: a
fault decided in a shutdown may lock after F-05 has saved OFF).

### Fairness

`DoorLockControl` assumes weak fairness of a cycle whose command is acknowledged: the caller is a
periodic task, so it keeps cycling, and an ECU link that never delivers again could satisfy nothing. It says
nothing of which inputs such a cycle sees. `ExitSafety` assumes the same of F-08's cycle. Driver,
crash, speed, ignition, time and faults have no fairness. No fairness makes a lost message
arrive: `risk_locks_door` is violated with it. `PowerCycle` and `Vehicle` state no fairness and no
liveness: when the ignition is turned and when power is lost is nobody's duty.

Deadlock is checked in every run.

## The proofs

Eight modules. All theorems hold for every value of the constants that the named
assumptions allow: a clock of at least one value, positive durations, and a longest gap that with
the duration fits in the clock (`ConstantsAssumption`, `SpeedAssumption`; in the build 49 days), and a skew of the speed sender's clock that with
the timeout fits in it too.

- `WrappingClock_proof`: addition and subtraction stay in range, and a difference grows by exactly
  the time passed while it stays below M. The only facts about wrapping the other proofs use.
- `RearRiskEvaluation_proof`: `TypeCorrect`, `TimersCorrect`, `HysteresisImplemented`. `TimersSound` is inductive with
  `TypeOK`: besides "the age is below its deadline" it must say which of the two timestamps
  stands at the last valid sample, which is what lets `Tick` and the next sample advance the age.
  The refinement goes step by step: `Tick` to `RHPass`, a rejected sample to `RHFault`, a threat or a
  safe sample to `RHThreat` or `RHSafe` phase by phase.
- `RearRiskLog_proof`: `HighExactlyWhenConfirmed`, for a log of any length. The reference quantifies over the
  whole log, so no induction over the log is needed, only one over the steps. The invariant `LogInv` says what
  the context remembers of the log: in the phase "rising" the oldest threat since the last safe sample lies, in
  the phases "high" and "falling" the last threat lies, exactly as far back as the phase's true age; and the risk is confirmed
  by the log in the latter two and no others (`PhaseAgrees`). The phase moves by `RiskHysteresis`, as the refinement
  proof of the module before shows, so each case sets one step of the abstract specification beside one appended sample
  (`ThreatAgrees`, `SafeAgrees`, `FaultAgrees`, `TickAgrees`, `ResetAgrees`).
  `ClearedAfterSafePeriodLessOneGap` measures the finding rear_risk_cleared_early: if no sample is rejected
  and none comes later than `gap` after the one before, HIGH is withdrawn only after safe samples over at least
  `CLEAR - gap` ms (TLC finds `CLEAR - gap + 1` violated on a small instance, so the bound is tight), which with the
  periodic samples the design has is one period short of what the documents say. `HighRestsOnConfidence`: without
  NaN among the samples the property of rear_risk_nan holds.
- `DoorLockControl_proof`: `TypeCorrect`, `SpeedAgeCorrect`, `DisagreementsReported`, `UnlocksAuthorised`,
  `CrashKeepsUnlocked`, `LossyLockImplemented`, `BlockReportsTrue`, `CrashReleaseProgress`,
  `SpeedLossProgress`. The last two are what the liveness properties `CrashReleases` and `SpeedLossLocks` need besides
  fairness: the first acknowledged cycle under the cause reaches the goal, whatever the driver and the fault flags are, and
  no step leaves it while the cause lasts. The inductive invariant `Inv` is the conjunction of `TypeOK`,
  `SpeedAgeSound` and `DisagreementReported`. `SpeedAgeSound` turns F-01's wrapped comparison into one of true
  ages, from which the unlock property follows by cases on the reason; `DisagreementReported` is
  what makes F-04's verdict true of the door. A command is an `Acknowledged` or an `Unacknowledged` step
  of `LossyLock` according to F-03's answer.
- `LossyLock_proof`: `ReceivedAgrees`, what every implementation of `LossyLock` may be relied on for.
- `ExitSafety_proof`: the same `Inv` under FG-02's steps, hence `AssistDisagreementsReported`,
  `AssistUnlocksAuthorised`, and `ProtectionAlwaysHolds`; with the type of what F-06 is given also
  `AssistTypeCorrect` and `DisplaysTrue`. The lemma on F-08's cycle shows what it may do to the
  lock: nothing, or a command to lock. From it follow `AssistLossyLock` (the refinement, with two functions
  commanding the lock), `OnlyF08LocksInCrash` (the violation of risk_against_crash is the only way a crash's release
  is undone while the crash lasts) and `RiskCycleProgress` (what one cycle of F-08 under a risk does: `RiskLocksUnlessReported` and
  `RiskWarned` without their fairness).
- `PowerCycle_proof`: `TypeCorrect`, `RestoresPersisted`, `RestartUnlocksPersisted`, `SummaryOnce`. What restores
  correctly is a well-formed record that equals `lastGood`; a torn one is never well-formed because its value is not a
  lock state, whatever its validity flag says. The latch invariant: one summary shown implies the latch set.
- `Vehicle_proof`: `PowerCycleImplemented`, from which `RestoreInv` of `PowerCycle_proof` carries over;
  `VehicleTypeCorrect`, `VehicleLossyLock`, `VehicleUnlocksAuthorised`, `RestartsKeepDoor`, `SummariesTrue`. The
  inductive invariant `VehicleInv` adds `Agreement`: after an acknowledged command the remembered state is that of the
  doors, which gives `SummaryTrue`; and what was saved after such a command is either still the state saved last, and
  then that of the doors, or it is an ON over which OFF was saved, and then OFF is remembered too, so that no later
  save can bring ON back behind unlocked doors. With `RestoreInv` (a record that passes F-05's checks is
  the last one stored) that gives `RestartsKeepDoor`. `SavedReleaseSurvives` is what is true of the claim that
  release_undone refutes: while the last command is an acknowledged crash release the doors are unlocked
  (`ReleaseOpens`) and what was saved since is OFF (`SavedAfterRelease`), which `RestartsKeepDoor` does not let a
  restart undo.

Only model-checked: the liveness properties (`CrashReleases`, `SpeedLossLocks`, `RiskLocksUnlessReported`, `RiskWarned`), which
rest on fairness and are out of this prover's reach. Apart from fairness and ENABLED their premises are the progress theorems
above. Every invariant, action property and refinement that a passing run checks is proved.

## Not modelled

The unit tests, documents and build files have no run-time behaviour. The calls of FG-01 and of F-10 to
F-06 change no state and would add only callbacks to its output. F-04's `SAFE_BLOCKED`, F-02's behaviour on values
outside its enumerations and NULL guards need states no caller reaches. A torn record whose value
happens to be a lock state other than the one written is not modelled: the memory is one value and F-05
stores no checksum, so nothing in the code could tell. How an acknowledgement is matched to its command,
and whether the caller raises `stateInconsistency` by itself, is not in the repository.

## Plan

Done: F-07 with its abstract specification; FG-01 with late, reordered and skewed speed messages; FG-02 with
F-06's callbacks; the power cycle; the vehicle, which composes them; the two abstract specifications and their
refinements; the theorems above.

Left: `ExitSafety` with F-07's phase from `RiskHysteresis` in place of the free verdict, so that "a risk
of CONFIRM ms locks the doors" is one property, and one theorem, from the sample to the door.
