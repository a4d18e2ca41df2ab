-------------------------- MODULE RearRiskLog_proof --------------------------
(***************************************************************************)
(* F-07 against the log of all its samples, however long the log: HIGH is  *)
(* held exactly when the samples, read as a whole, confirm it.  The phase  *)
(* and age of RiskHysteresis are what F-07 remembers of that log.          *)
(***************************************************************************)
EXTENDS RearRiskLog, RearRiskEvaluation_proof

Sample == [at : Nat, kind : {"fault", "threat", "safe"}, confidence : {"low", "ok", "NaN"}]

LogType == /\ clock \in Nat
           /\ log \in Seq(Sample)

\* The log is in the order of time, and none of it lies ahead.
Ordered == /\ \A i, j \in 1 .. Len(log) : i <= j => log[i].at <= log[j].at
           /\ \A i \in 1 .. Len(log) : log[i].at <= clock

\* Sample i is a threat and no safe sample has come since.
Ongoing(i) == /\ i \in 1 .. Len(log)
              /\ Threat(i)
              /\ \A k \in i .. Len(log) : ~Safe(k)

\* The first sample of the run of threats that still lasts.
Onset(i) == Ongoing(i) /\ \A k \in 1 .. Len(log) : Ongoing(k) => i <= k

LastThreat(j) == /\ j \in 1 .. Len(log)
                 /\ Threat(j)
                 /\ \A l \in (j + 1) .. Len(log) : ~Threat(l)

\* The true age of the running phase.
Age == HeldOf + sinceSample

Confirmed == PhaseOf \in {"high", "falling"}

\* What the phase says of the log: where the run of threats, or the last threat, lies, and that
\* it lies Age ms back.
PhaseAgrees ==
  /\ PhaseOf = "calm" => \A i \in 1 .. Len(log) : ~Ongoing(i)
  /\ PhaseOf = "rising" => \E i \in 1 .. Len(log) : Onset(i) /\ clock - log[i].at = Age
  /\ Confirmed => \E j \in 1 .. Len(log) : LastThreat(j) /\ clock - log[j].at = Age
  /\ Confirmed <=> RiskConfirmed

\* Once a sample is logged the context is initialised and the output is the context's.
OutputAgrees ==
  log # <<>> => /\ ctx.isInitialized
                /\ output.riskValid => (output.riskHigh <=> ctx.isRiskHighActive)

LogInv == LogType /\ Ordered /\ PhaseAgrees /\ OutputAgrees

-----------------------------------------------------------------------------
(* The log grows by one sample.                                            *)

LEMMA TimesAreNat == LogType => \A i \in 1 .. Len(log) : log[i].at \in Nat
<1>1. LogType => \A i \in 1 .. Len(log) : log[i] \in Sample
  BY DEF LogType
<1> QED
  BY <1>1 DEF Sample

LEMMA Grow ==
  ASSUME LogType, NEW s \in Sample, log' = Append(log, s)
  PROVE  /\ Len(log) \in Nat
         /\ Len(log') = Len(log) + 1
         /\ \A k \in 1 .. Len(log) : log'[k] = log[k] /\ log[k] \in Sample
         /\ log'[Len(log) + 1] = s
BY DEF LogType

\* The samples keep their kind, and those that confirm or clear still do.
LEMMA OldSamples ==
  ASSUME LogType, NEW s \in Sample, log' = Append(log, s)
  PROVE  /\ \A i \in 1 .. Len(log) : Threat(i)' = Threat(i) /\ Safe(i)' = Safe(i)
         /\ \A i, j \in 1 .. Len(log) : Confirms(i, j)' <=> Confirms(i, j)
         /\ \A k \in 1 .. Len(log) : Clears(k)' <=> Clears(k)
<1> DEFINE n == Len(log)
<1>1. n \in Nat /\ \A k \in 1 .. n : log'[k] = log[k]
  BY Grow
<1> HIDE DEF n
<1>2. \A i \in 1 .. n : Threat(i)' = Threat(i) /\ Safe(i)' = Safe(i)
  BY <1>1 DEF Threat, Safe
<1>3. \A i, j \in 1 .. n : Confirms(i, j)' <=> Confirms(i, j)
  <2> SUFFICES ASSUME NEW i \in 1 .. n, NEW j \in 1 .. n
               PROVE  Confirms(i, j)' <=> Confirms(i, j)
    OBVIOUS
  <2>1. \A k \in i .. j : k \in 1 .. n
    BY <1>1
  <2> QED
    BY <1>1, <1>2, <2>1 DEF Confirms
<1>4. \A k \in 1 .. n : Clears(k)' <=> Clears(k)
  <2> SUFFICES ASSUME NEW k \in 1 .. n PROVE Clears(k)' <=> Clears(k)
    OBVIOUS
  <2>1. \A j \in 1 .. (k - 1) : j \in 1 .. n /\ \A l \in (j + 1) .. (k - 1) : l \in 1 .. n
    BY <1>1
  <2> QED
    BY <1>1, <1>2, <2>1 DEF Clears
<1> QED
  BY <1>2, <1>3, <1>4 DEF n

\* The reference, sample by sample: a new sample confirms the risk, or the risk stays
\* confirmed because the sample does not clear it.
LEMMA ConfirmedByNew ==
  ASSUME LogType, NEW s \in Sample, log' = Append(log, s), NEW n \in Nat, n = Len(log)
  PROVE  RiskConfirmed' <=> \/ RiskConfirmed /\ ~Clears(n + 1)'
                            \/ \E i \in 1 .. (n + 1) : Confirms(i, n + 1)'
<1>1. Len(log') = n + 1
  BY Grow
<1>2. /\ \A i, j \in 1 .. n : Confirms(i, j)' <=> Confirms(i, j)
      /\ \A k \in 1 .. n : Clears(k)' <=> Clears(k)
  BY OldSamples
<1> DEFINE Holds(i, j) == Confirms(i, j)' /\ \A k \in (j + 1) .. (n + 1) : ~Clears(k)'
<1>3. RiskConfirmed' <=> \E i, j \in 1 .. (n + 1) : Holds(i, j)
  BY <1>1 DEF RiskConfirmed
<1>4. RiskConfirmed <=> \E i, j \in 1 .. n : Confirms(i, j) /\ \A k \in (j + 1) .. n : ~Clears(k)
  BY DEF RiskConfirmed
<1>5. \A i, j \in 1 .. n : Holds(i, j) <=> /\ Confirms(i, j)
                                           /\ \A k \in (j + 1) .. n : ~Clears(k)
                                           /\ ~Clears(n + 1)'
  <2> SUFFICES ASSUME NEW i \in 1 .. n, NEW j \in 1 .. n
               PROVE  Holds(i, j) <=> /\ Confirms(i, j)
                                      /\ \A k \in (j + 1) .. n : ~Clears(k)
                                      /\ ~Clears(n + 1)'
    OBVIOUS
  <2>1. \A k : k \in (j + 1) .. (n + 1) <=> k \in (j + 1) .. n \/ k = n + 1
    BY <1>1
  <2>2. \A k \in (j + 1) .. n : k \in 1 .. n
    BY <1>1
  <2> QED
    BY <1>2, <2>1, <2>2
<1>6. \A i \in 1 .. (n + 1) : Holds(i, n + 1) <=> Confirms(i, n + 1)'
  BY <1>1
<1>7. \A i \in 1 .. (n + 1), j \in 1 .. n : Holds(i, j) => i \in 1 .. n
  BY <1>1 DEF Confirms
<1>8. \A j : j \in 1 .. (n + 1) <=> j \in 1 .. n \/ j = n + 1
  BY <1>1
<1> HIDE DEF Holds
<1> QED
  <2>1. ASSUME NEW i \in 1 .. (n + 1), NEW j \in 1 .. (n + 1), Holds(i, j)
        PROVE  \/ RiskConfirmed /\ ~Clears(n + 1)'
               \/ \E x \in 1 .. (n + 1) : Confirms(x, n + 1)'
    BY <1>4, <1>5, <1>6, <1>7, <1>8, <2>1
  <2>2. ASSUME RiskConfirmed, ~Clears(n + 1)'
        PROVE  \E i, j \in 1 .. (n + 1) : Holds(i, j)
    BY <1>4, <1>5, <1>8, <2>2
  <2>3. ASSUME NEW x \in 1 .. (n + 1), Confirms(x, n + 1)'
        PROVE  \E i, j \in 1 .. (n + 1) : Holds(i, j)
    BY <1>6, <1>8, <2>3
  <2> QED
    BY <1>3, <2>1, <2>2, <2>3

\* What a new sample, taken now, confirms and clears: a threat confirms if a run of threats
\* lasts that began CONFIRM ms ago, a safe sample clears if the last threat is CLEAR ms old.
LEMMA NewSample ==
  ASSUME LogType, NEW s \in Sample, s.at = clock, log' = Append(log, s), NEW n \in Nat, n = Len(log)
  PROVE  /\ s.kind # "threat" => \A i \in 1 .. (n + 1) : ~Confirms(i, n + 1)'
         /\ s.kind # "safe" => ~Clears(n + 1)'
         /\ s.kind = "threat" =>
              ((\E i \in 1 .. (n + 1) : Confirms(i, n + 1)')
                 <=> \E i \in 1 .. n : Ongoing(i) /\ clock - log[i].at >= CONFIRM)
         /\ s.kind = "safe" =>
              \A j \in 1 .. n : LastThreat(j) => (Clears(n + 1)' <=> clock - log[j].at >= CLEAR)
<1>1. /\ \A i \in 1 .. n : log'[i] = log[i] /\ Threat(i)' = Threat(i) /\ Safe(i)' = Safe(i)
      /\ log'[n + 1] = s
  BY Grow, OldSamples
<1>2. (Threat(n + 1)' <=> s.kind = "threat") /\ (Safe(n + 1)' <=> s.kind = "safe")
  BY <1>1 DEF Threat, Safe
<1>3. s.kind # "threat" => \A i \in 1 .. (n + 1) : ~Confirms(i, n + 1)'
  BY <1>2 DEF Confirms
<1>4. s.kind # "safe" => ~Clears(n + 1)'
  BY <1>2 DEF Clears
<1>5. ASSUME s.kind = "threat"
      PROVE  (\E i \in 1 .. (n + 1) : Confirms(i, n + 1)')
               <=> \E i \in 1 .. n : Ongoing(i) /\ clock - log[i].at >= CONFIRM
  <2>1. ~Confirms(n + 1, n + 1)'
    <3>1. ~(log'[n + 1].at - log'[n + 1].at >= CONFIRM)
      BY <1>1, ConstantsAssumption, ClockAssumption DEF Sample
    <3> QED
      BY <3>1 DEF Confirms
  <2>2. ASSUME NEW i \in 1 .. n
        PROVE  Confirms(i, n + 1)' <=> Ongoing(i) /\ clock - log[i].at >= CONFIRM
    <3>1. \A k : k \in i .. (n + 1) <=> k \in i .. n \/ k = n + 1
      OBVIOUS
    <3>2. \A k \in i .. n : k \in 1 .. n
      OBVIOUS
    <3>3. (\A k \in i .. (n + 1) : ~Safe(k)') <=> \A k \in i .. n : ~Safe(k)
      BY <1>1, <1>2, <1>5, <3>1, <3>2
    <3> QED
      BY <1>1, <1>2, <1>5, <3>3 DEF Confirms, Ongoing
  <2>3. \A i : i \in 1 .. (n + 1) <=> i \in 1 .. n \/ i = n + 1
    OBVIOUS
  <2> QED
    BY <2>1, <2>2, <2>3
<1>6. ASSUME s.kind = "safe", NEW j \in 1 .. n, LastThreat(j)
      PROVE  Clears(n + 1)' <=> clock - log[j].at >= CLEAR
  <2>1. Clears(n + 1)' <=> \E i \in 1 .. n : /\ Threat(i)'
                                             /\ \A l \in (i + 1) .. n : ~Threat(l)'
                                             /\ log'[n + 1].at - log'[i].at >= CLEAR
    <3>1. (n + 1) - 1 = n
      OBVIOUS
    <3> QED
      BY <1>2, <1>6, <3>1 DEF Clears
  <2>2. \A i \in 1 .. n : (\A l \in (i + 1) .. n : ~Threat(l)') <=> \A l \in (i + 1) .. n : ~Threat(l)
    <3>1. \A i \in 1 .. n : \A l \in (i + 1) .. n : l \in 1 .. n
      OBVIOUS
    <3> QED
      BY <1>1, <3>1
  <2>3. ASSUME NEW i \in 1 .. n, Threat(i), \A l \in (i + 1) .. n : ~Threat(l)
        PROVE  i = j
    <3>1. ~(i < j) /\ ~(j < i)
      BY <1>6, <2>3 DEF LastThreat
    <3> QED
      BY <3>1
  <2> QED
    BY <1>1, <1>6, <2>1, <2>2, <2>3 DEF LastThreat
<1> QED
  BY <1>3, <1>4, <1>5, <1>6

\* The runs of threats that last, and the last threat.
LEMMA RunsGrow ==
  ASSUME LogType, NEW s \in Sample, log' = Append(log, s), NEW n \in Nat, n = Len(log)
  PROVE  /\ s.kind # "safe" => \A k \in 1 .. n : Ongoing(k)' <=> Ongoing(k)
         /\ s.kind = "safe" => \A k \in 1 .. (n + 1) : ~Ongoing(k)'
         /\ s.kind = "threat" => Ongoing(n + 1)' /\ LastThreat(n + 1)'
         /\ s.kind = "fault" => ~Ongoing(n + 1)'
         /\ s.kind # "threat" => \A j \in 1 .. n : LastThreat(j) => LastThreat(j)'
<1>1. /\ \A i \in 1 .. n : log'[i] = log[i] /\ Threat(i)' = Threat(i) /\ Safe(i)' = Safe(i)
      /\ log'[n + 1] = s
      /\ Len(log') = n + 1
  BY Grow, OldSamples
<1>2. (Threat(n + 1)' <=> s.kind = "threat") /\ (Safe(n + 1)' <=> s.kind = "safe")
  BY <1>1 DEF Threat, Safe
<1>3. \A i, k : (i \in 1 .. n /\ k \in i .. (n + 1)) => k \in i .. n \/ k = n + 1
  OBVIOUS
<1>4. \A i, k : (i \in 1 .. n /\ k \in i .. n) => k \in 1 .. n
  OBVIOUS
<1>5. ASSUME s.kind # "safe", NEW k \in 1 .. n PROVE Ongoing(k)' <=> Ongoing(k)
  <2>1. (\A l \in k .. (n + 1) : ~Safe(l)') <=> \A l \in k .. n : ~Safe(l)
    BY <1>1, <1>2, <1>3, <1>4, <1>5
  <2> QED
    BY <1>1, <2>1 DEF Ongoing
<1>6. ASSUME s.kind = "safe", NEW k \in 1 .. (n + 1) PROVE ~Ongoing(k)'
  BY <1>1, <1>2, <1>6 DEF Ongoing
<1>7. ASSUME s.kind = "threat" PROVE Ongoing(n + 1)' /\ LastThreat(n + 1)'
  BY <1>1, <1>2, <1>7 DEF Ongoing, LastThreat
<1>8. ASSUME s.kind = "fault" PROVE ~Ongoing(n + 1)'
  BY <1>2, <1>8 DEF Ongoing
<1>9. ASSUME s.kind # "threat", NEW j \in 1 .. n, LastThreat(j) PROVE LastThreat(j)'
  <2>1. \A l \in (j + 1) .. (n + 1) : ~Threat(l)'
    BY <1>1, <1>2, <1>3, <1>4, <1>9 DEF LastThreat
  <2> QED
    BY <1>1, <1>9, <2>1 DEF LastThreat
<1> QED
  BY <1>5, <1>6, <1>7, <1>8, <1>9

-----------------------------------------------------------------------------
(* Each step of RiskHysteresis moves the phase as the log grows.           *)

LEMMA ThreatAgrees ==
  ASSUME LogType, Ordered, PhaseAgrees,
         NEW s \in Sample, s.at = clock, s.kind = "threat", log' = Append(log, s), clock' = clock,
         RH!RHThreat
  PROVE  PhaseAgrees'
<1> PICK n \in Nat : n = Len(log)
  BY DEF LogType
<1> USE DEF RH!RHThreat, RH!Enter
<1>1. /\ Len(log') = n + 1
      /\ \A k \in 1 .. n : log'[k] = log[k] /\ log[k] \in Sample
      /\ log'[n + 1] = s
  BY Grow
<1>2. /\ \A k \in 1 .. n : Ongoing(k)' <=> Ongoing(k)
      /\ Ongoing(n + 1)' /\ LastThreat(n + 1)'
  BY RunsGrow
<1>3. RiskConfirmed' <=> \/ RiskConfirmed
                         \/ \E i \in 1 .. n : Ongoing(i) /\ clock - log[i].at >= CONFIRM
  BY ConfirmedByNew, NewSample
<1>4. clock' - log'[n + 1].at = 0
  BY <1>1 DEF LogType
<1>5. \A k : k \in 1 .. (n + 1) <=> k \in 1 .. n \/ k = n + 1
  OBVIOUS
<1>6. CASE PhaseOf = "calm"
  <2>1. PhaseOf' = "rising" /\ Age' = 0 /\ ~Confirmed'
    BY <1>6 DEF Age, Confirmed
  <2>2. Onset(n + 1)'
    BY <1>1, <1>2, <1>5, <1>6 DEF Onset, PhaseAgrees
  <2>3. ~RiskConfirmed'
    BY <1>3, <1>6 DEF PhaseAgrees, Confirmed
  <2> QED
    BY <1>1, <1>4, <1>5, <2>1, <2>2, <2>3 DEF PhaseAgrees
<1>7. CASE PhaseOf = "rising"
  <2>1. ~RiskConfirmed
    BY <1>7 DEF PhaseAgrees, Confirmed
  <2>2. PICK i \in 1 .. n : Onset(i) /\ clock - log[i].at = Age
    BY <1>7 DEF PhaseAgrees
  <2>3. CASE HeldOf + sinceSample >= CONFIRM
    <3>1. PhaseOf' = "high" /\ Age' = 0 /\ Confirmed'
      BY <1>7, <2>3 DEF Age, Confirmed
    <3>2. RiskConfirmed'
      BY <1>3, <2>2, <2>3 DEF Onset, Age
    <3> QED
      BY <1>1, <1>2, <1>4, <1>5, <3>1, <3>2 DEF PhaseAgrees
  <2>4. CASE ~(HeldOf + sinceSample >= CONFIRM)
    <3>1. PhaseOf' = "rising" /\ Age' = Age /\ ~Confirmed'
      <4>1. Age \in Int
        BY <1>1, <2>2 DEF LogType, Sample
      <4>2. PhaseOf' = "rising" /\ HeldOf' = Age /\ sinceSample' = 0
        BY <1>7, <2>4 DEF Age
      <4> QED
        BY <4>1, <4>2 DEF Age, Confirmed
    <3>2. Onset(i)'
      BY <1>1, <1>2, <1>5, <2>2 DEF Onset
    <3>3. ~RiskConfirmed'
      <4>1. ASSUME NEW k \in 1 .. n, Ongoing(k) PROVE clock - log[k].at <= Age
        <5>1. log[i].at <= log[k].at
          BY <2>2, <4>1 DEF Onset, Ordered
        <5> QED
          BY <1>1, <2>2, <5>1 DEF LogType, Sample
      <4>2. ASSUME NEW k \in 1 .. n, Ongoing(k) PROVE ~(clock - log[k].at >= CONFIRM)
        BY <1>1, <2>2, <2>4, <4>1, <4>2, ConstantsAssumption, ClockAssumption
           DEF Age, LogType, Sample
      <4> QED
        BY <1>3, <2>1, <4>2
    <3> QED
      BY <1>1, <1>5, <2>2, <3>1, <3>2, <3>3 DEF PhaseAgrees
  <2> QED
    BY <2>3, <2>4
<1>8. CASE PhaseOf \in {"high", "falling"}
  <2>1. PhaseOf' = "high" /\ Age' = 0 /\ Confirmed'
    BY <1>8 DEF Age, Confirmed
  <2>2. RiskConfirmed'
    BY <1>3, <1>8 DEF PhaseAgrees, Confirmed
  <2> QED
    BY <1>1, <1>2, <1>4, <1>5, <2>1, <2>2 DEF PhaseAgrees
<1> QED
  BY <1>6, <1>7, <1>8

LEMMA SafeAgrees ==
  ASSUME LogType, Ordered, PhaseAgrees,
         NEW s \in Sample, s.at = clock, s.kind = "safe", log' = Append(log, s), clock' = clock,
         RH!RHSafe
  PROVE  PhaseAgrees'
<1> PICK n \in Nat : n = Len(log)
  BY DEF LogType
<1> USE DEF RH!RHSafe, RH!Enter
<1>1. /\ Len(log') = n + 1
      /\ \A k \in 1 .. n : log'[k] = log[k] /\ log[k] \in Sample
  BY Grow
<1>2. /\ \A k \in 1 .. (n + 1) : ~Ongoing(k)'
      /\ \A j \in 1 .. n : LastThreat(j) => LastThreat(j)'
  BY RunsGrow
<1>3. RiskConfirmed' <=> RiskConfirmed /\ ~Clears(n + 1)'
  BY ConfirmedByNew, NewSample
<1>4. CASE PhaseOf \in {"calm", "rising"}
  <2>1. PhaseOf' = "calm" /\ ~Confirmed'
    BY <1>4 DEF Confirmed
  <2>2. ~RiskConfirmed'
    BY <1>3, <1>4 DEF PhaseAgrees, Confirmed
  <2> QED
    BY <1>1, <1>2, <2>1, <2>2 DEF PhaseAgrees
<1>5. CASE PhaseOf \in {"high", "falling"}
  <2>1. RiskConfirmed
    BY <1>5 DEF PhaseAgrees, Confirmed
  <2>2. PICK j \in 1 .. n : LastThreat(j) /\ clock - log[j].at = Age
    BY <1>5 DEF PhaseAgrees, Confirmed
  <2>3. RiskConfirmed' <=> ~(HeldOf + sinceSample >= CLEAR)
    <3>1. Clears(n + 1)' <=> clock - log[j].at >= CLEAR
      BY <2>2, NewSample
    <3> QED
      BY <1>3, <2>1, <2>2, <3>1 DEF Age
  <2>4. CASE HeldOf + sinceSample >= CLEAR
    <3>1. PhaseOf' = "calm" /\ ~Confirmed'
      BY <1>5, <2>4 DEF Confirmed
    <3> QED
      BY <1>1, <1>2, <2>3, <2>4, <3>1 DEF PhaseAgrees
  <2>5. CASE ~(HeldOf + sinceSample >= CLEAR)
    <3>1. PhaseOf' = "falling" /\ Age' = Age /\ Confirmed'
      <4>1. Age \in Int
        BY <1>1, <2>2 DEF LogType, Sample
      <4>2. PhaseOf' = "falling" /\ HeldOf' = Age /\ sinceSample' = 0
        BY <1>5, <2>5 DEF Age
      <4> QED
        BY <4>1, <4>2 DEF Age, Confirmed
    <3>2. LastThreat(j)' /\ clock' - log'[j].at = Age' /\ j \in 1 .. Len(log')
      BY <1>1, <1>2, <2>2, <3>1
    <3> QED
      BY <2>3, <2>5, <3>1, <3>2 DEF PhaseAgrees
  <2> QED
    BY <2>4, <2>5
<1> QED
  BY <1>4, <1>5

LEMMA FaultAgrees ==
  ASSUME LogType, Ordered, PhaseAgrees,
         NEW s \in Sample, s.at = clock, s.kind = "fault", log' = Append(log, s), clock' = clock,
         RH!RHFault
  PROVE  PhaseAgrees'
<1> PICK n \in Nat : n = Len(log)
  BY DEF LogType
<1>1. /\ Len(log') = n + 1
      /\ \A k \in 1 .. n : log'[k] = log[k]
  BY Grow
<1>2. /\ \A k \in 1 .. n : Ongoing(k)' <=> Ongoing(k)
      /\ ~Ongoing(n + 1)'
      /\ \A j \in 1 .. n : LastThreat(j) => LastThreat(j)'
  BY RunsGrow
<1>3. \A k : k \in 1 .. (n + 1) <=> k \in 1 .. n \/ k = n + 1
  OBVIOUS
<1>4. PhaseOf' = PhaseOf /\ Age' = Age /\ (Confirmed' <=> Confirmed)
  BY DEF RH!RHFault, Age, Confirmed
<1>5. RiskConfirmed' <=> RiskConfirmed
  BY ConfirmedByNew, NewSample
<1>6. PhaseOf = "calm" => \A i \in 1 .. (n + 1) : ~Ongoing(i)'
  BY <1>2, <1>3 DEF PhaseAgrees
<1>7. ASSUME PhaseOf = "rising" PROVE \E i \in 1 .. (n + 1) : Onset(i)' /\ clock' - log'[i].at = Age'
  <2>1. PICK i \in 1 .. n : Onset(i) /\ clock - log[i].at = Age
    BY <1>7 DEF PhaseAgrees
  <2>2. Onset(i)'
    BY <1>1, <1>2, <1>3, <2>1 DEF Onset
  <2> QED
    BY <1>1, <1>3, <1>4, <2>1, <2>2
<1>8. ASSUME Confirmed PROVE \E j \in 1 .. (n + 1) : LastThreat(j)' /\ clock' - log'[j].at = Age'
  BY <1>1, <1>2, <1>3, <1>4, <1>8 DEF PhaseAgrees
<1> QED
  BY <1>1, <1>4, <1>5, <1>6, <1>7, <1>8 DEF PhaseAgrees

-----------------------------------------------------------------------------
(* The invariant.                                                          *)

Entry(in) == [at |-> clock, kind |-> Kind(in), confidence |-> in.sensorConfidence]

LEMMA EntryType ==
  ASSUME LogType, NEW in \in Inputs
  PROVE  Entry(in) \in Sample /\ Entry(in).at = clock /\ Entry(in).kind = Kind(in)
BY ConstantsAssumption, ClockAssumption DEF LogType, Entry, Sample, RearRiskInput, Kind

LEMMA RunAgrees ==
  ASSUME TypeOK, TypeOK', TimersSound, TimersSound', LogType, Ordered, PhaseAgrees,
         NEW in \in Inputs, LogRun(in)
  PROVE  PhaseAgrees'
<1>1. /\ Entry(in) \in Sample /\ Entry(in).at = clock /\ Entry(in).kind = Kind(in)
      /\ log' = Append(log, Entry(in)) /\ clock' = clock
  BY EntryType DEF LogRun, Entry
<1>2. CASE RunFault(in)
  BY <1>1, <1>2, FaultRefines, FaultAgrees DEF RunFault, Kind
<1>3. CASE RunValid(in) /\ IsRawThreatActive(in)
  <2>1. RH!RHThreat
    BY <1>3, ThreatRefines DEF RunValid
  <2> QED
    BY <1>1, <1>3, <2>1, ThreatAgrees DEF RunValid, Kind
<1>4. CASE RunValid(in) /\ ~IsRawThreatActive(in)
  <2>1. RH!RHSafe
    BY <1>4, SafeRefines DEF RunValid
  <2> QED
    BY <1>1, <1>4, <2>1, SafeAgrees DEF RunValid, Kind
<1> QED
  BY <1>2, <1>3, <1>4 DEF LogRun, Run

LEMMA RunOutput ==
  ASSUME TypeOK, NEW in \in Inputs, Run(in)
  PROVE  /\ ctx'.isInitialized
         /\ output'.riskValid => (output'.riskHigh <=> ctx'.isRiskHighActive)
<1> DEFINE c == Ready(ctx)
<1>1. c \in F07_Context /\ c.isInitialized
  BY ReadyType DEF TypeOK
<1> HIDE DEF c
<1>2. ThreatUpdate(c).isInitialized /\ SafeUpdate(c).isInitialized
  BY <1>1 DEF ThreatUpdate, SafeUpdate, F07_Context
<1>3. CASE RunFault(in)
  BY <1>1, <1>3 DEF RunFault, c
<1>4. CASE RunValid(in)
  BY <1>2, <1>4 DEF RunValid, c
<1> QED
  BY <1>3, <1>4 DEF Run

LEMMA TickAgrees ==
  ASSUME TypeOK, LogType, PhaseAgrees, NEW d \in 1 .. MaxGap, LogTick(d)
  PROVE  PhaseAgrees'
<1>1. /\ PhaseOf' = PhaseOf /\ HeldOf' = HeldOf /\ log' = log
      /\ clock' = clock + d /\ sinceSample' = sinceSample + d
  BY TickKeepsPhase DEF LogTick, Tick
<1>2. HeldOf \in Int
  <2>1. RisingAge \in Timestamp /\ FallingAge \in Timestamp
    BY WrapSubType DEF TypeOK, F07_Context, RisingAge, FallingAge
  <2> QED
    BY <2>1, Mapping, ClockAssumption DEF Timestamp
<1>3. Age' = Age + d /\ (Confirmed' <=> Confirmed)
  BY <1>1, <1>2 DEF Age, Confirmed, TypeOK
<1>4. /\ \A i : Ongoing(i)' <=> Ongoing(i)
      /\ \A i : Onset(i)' <=> Onset(i)
      /\ \A j : LastThreat(j)' <=> LastThreat(j)
      /\ RiskConfirmed' <=> RiskConfirmed
  BY <1>1 DEF Ongoing, Onset, LastThreat, RiskConfirmed, Confirms, Clears, Threat, Safe
<1>5. \A i \in 1 .. Len(log) : clock - log[i].at = Age => clock' - log'[i].at = Age'
  <2> SUFFICES ASSUME NEW i \in 1 .. Len(log), clock - log[i].at = Age
               PROVE  clock' - log'[i].at = Age'
    OBVIOUS
  <2>1. log[i].at \in Int /\ clock \in Int
    BY TimesAreNat DEF LogType
  <2> QED
    BY <1>1, <1>3, <2>1
<1> QED
  BY <1>1, <1>3, <1>4, <1>5 DEF PhaseAgrees

LEMMA ResetAgrees ==
  ASSUME LogReset
  PROVE  PhaseAgrees' /\ OutputAgrees'
<1>1. PhaseOf' = "calm" /\ log' = <<>> /\ Len(log') = 0
  BY DEF LogReset, Reset, InitContext, PhaseOf, Rising, High, Falling
<1> QED
  BY <1>1 DEF PhaseAgrees, OutputAgrees, Confirmed, RiskConfirmed

LEMMA LogInvStep ==
  TypeOK /\ TypeOK' /\ TimersSound /\ TimersSound' /\ LogInv /\ [LogNext]_logVars => LogInv'
<1> SUFFICES ASSUME TypeOK, TypeOK', TimersSound, TimersSound', LogInv, [LogNext]_logVars
             PROVE  LogInv'
  OBVIOUS
<1> USE DEF LogInv
<1>1. ASSUME NEW in \in Inputs, LogRun(in) PROVE LogInv'
  <2>1. /\ Entry(in) \in Sample /\ Entry(in).at = clock
        /\ log' = Append(log, Entry(in)) /\ clock' = clock
    BY <1>1, EntryType DEF LogRun, Entry
  <2>2. LogType'
    BY <2>1 DEF LogType
  <2>3. Ordered'
    <3> PICK n \in Nat : n = Len(log)
      BY DEF LogType
    <3>1. /\ Len(log') = n + 1
          /\ \A k \in 1 .. n : log'[k] = log[k] /\ log[k] \in Sample
          /\ log'[n + 1].at = clock
      BY <2>1, Grow
    <3>2. \A k : k \in 1 .. (n + 1) <=> k \in 1 .. n \/ k = n + 1
      OBVIOUS
    <3>3. \A i, j \in 1 .. (n + 1) : i <= j => log'[i].at <= log'[j].at
      <4> SUFFICES ASSUME NEW i \in 1 .. (n + 1), NEW j \in 1 .. (n + 1), i <= j
                   PROVE  log'[i].at <= log'[j].at
        OBVIOUS
      <4>1. CASE j \in 1 .. n
        <5>1. i \in 1 .. n
          BY <4>1
        <5> QED
          BY <3>1, <4>1, <5>1 DEF Ordered
      <4>2. CASE j = n + 1 /\ i \in 1 .. n
        BY <3>1, <4>2 DEF Ordered
      <4>3. CASE j = n + 1 /\ i = n + 1
        BY <3>1, <4>3 DEF LogType
      <4> QED
        BY <3>2, <4>1, <4>2, <4>3
    <3>4. \A i \in 1 .. (n + 1) : log'[i].at <= clock'
      BY <2>1, <3>1, <3>2 DEF Ordered, LogType
    <3> QED
      BY <3>1, <3>3, <3>4 DEF Ordered
  <2>4. PhaseAgrees'
    BY <1>1, RunAgrees
  <2>5. OutputAgrees'
    BY <1>1, RunOutput DEF LogRun, OutputAgrees
  <2> QED
    BY <2>2, <2>3, <2>4, <2>5
<1>2. ASSUME NEW d \in 1 .. MaxGap, LogTick(d) PROVE LogInv'
  <2>1. clock' = clock + d /\ log' = log /\ ctx' = ctx /\ output' = output
    BY <1>2 DEF LogTick, Tick
  <2>2. LogType' /\ OutputAgrees'
    BY <2>1, ConstantsAssumption, ClockAssumption DEF LogType, OutputAgrees
  <2>3. Ordered'
    <3>1. \A i \in 1 .. Len(log) : log[i].at <= clock => log[i].at <= clock'
      <4>1. \A i \in 1 .. Len(log) : log[i].at \in Nat
        BY TimesAreNat
      <4> QED
        BY <2>1, <4>1 DEF LogType
    <3> QED
      BY <2>1, <3>1 DEF Ordered
  <2> QED
    BY <1>2, <2>2, <2>3, TickAgrees
<1>3. CASE LogReset
  <2>1. LogType' /\ Ordered'
    BY <1>3 DEF LogReset, LogType, Ordered
  <2> QED
    BY <1>3, <2>1, ResetAgrees
<1>4. CASE UNCHANGED logVars
  <2>1. LogType' /\ Ordered' /\ OutputAgrees'
    BY <1>4 DEF logVars, LogType, Ordered, OutputAgrees
  <2>2. PhaseAgrees'
    BY <1>4 DEF logVars, PhaseAgrees, Age, Confirmed, PhaseOf, HeldOf, Rising, High, Falling,
                RisingAge, FallingAge, Onset, Ongoing, LastThreat, RiskConfirmed, Confirms, Clears,
                Threat, Safe
  <2> QED
    BY <2>1, <2>2
<1> QED
  BY <1>1, <1>2, <1>3, <1>4 DEF LogNext

\* The log observes F-07 and does not steer it.
LEMMA LogObserves == LogSpec => Spec
<1>1. LogInit => Init
  BY DEF LogInit
<1>2. [LogNext]_logVars => [Next]_vars
  BY DEF LogNext, logVars, LogRun, LogTick, LogReset, Next, vars
<1> QED
  BY <1>1, <1>2, PTL DEF LogSpec, Spec

LEMMA LogInvariance == LogSpec => []LogInv
<1>1. LogInit => LogInv
  <2>1. LogInit => LogType /\ Ordered /\ OutputAgrees
    BY DEF LogInit, LogType, Ordered, OutputAgrees
  <2>2. LogInit => PhaseAgrees
    BY DEF LogInit, InitContext, PhaseAgrees, PhaseOf, Rising, High, Falling, Confirmed,
           RiskConfirmed
  <2> QED
    BY <2>1, <2>2 DEF LogInv
<1>2. LogSpec => []TypeOK /\ []TimersSound
  BY LogObserves, TypeCorrect, TimersCorrect
<1> QED
  BY <1>1, <1>2, LogInvStep, PTL DEF LogSpec

\* For every log, clock width, pair of durations and set of samples, F-07 holds and reports a
\* HIGH risk exactly when the samples since the last reset, read as a whole, confirm one.
THEOREM HighExactlyWhenConfirmed == LogSpec => []HighIffConfirmedByLog
<1>1. TypeOK /\ LogInv => HighIffConfirmedByLog
  <2> SUFFICES ASSUME TypeOK, LogInv PROVE HighIffConfirmedByLog
    OBVIOUS
  <2>1. ctx.isInitialized => (ctx.isRiskHighActive <=> Confirmed)
    BY DEF TypeOK, F07_Context, Confirmed, PhaseOf, Rising, High, Falling
  <2> QED
    BY <2>1 DEF LogInv, PhaseAgrees, OutputAgrees, HighIffConfirmedByLog
<1>2. LogSpec => []TypeOK
  BY LogObserves, TypeCorrect
<1> QED
  BY <1>1, <1>2, LogInvariance, PTL

-----------------------------------------------------------------------------
(* How far the code is from ClearedOnlyAfterSafePeriod.                     *)

Withdrawn == log' # <<>> /\ ctx.isInitialized /\ ctx.isRiskHighActive /\ ~ctx'.isRiskHighActive

NoneRejected == \A k \in 1 .. Len(log) : log[k].kind # "fault"

GapsUpTo(gap) == \A k \in 2 .. Len(log) : log[k].at - log[k - 1].at <= gap

\* The log ends with safe samples, and only those, over a period of at least ms.
SafePeriod(ms) ==
  \E i \in 1 .. Len(log) : /\ log[Len(log)].at - log[i].at >= ms
                           /\ \A k \in i .. Len(log) : Safe(k)

\* Only a sample that clears withdraws HIGH.
LEMMA WithdrawnByClearing ==
  ASSUME TypeOK, TypeOK', LogInv, LogInv', [LogNext]_logVars, Withdrawn
  PROVE  Clears(Len(log))'
<1>1. Confirmed /\ ~Confirmed'
  BY DEF Withdrawn, TypeOK, F07_Context, Confirmed, PhaseOf, Rising, High, Falling
<1>2. RiskConfirmed /\ ~RiskConfirmed'
  BY <1>1 DEF LogInv, PhaseAgrees
<1>3. ASSUME NEW in \in Inputs, LogRun(in) PROVE Clears(Len(log))'
  <2>1. Entry(in) \in Sample /\ log' = Append(log, Entry(in))
    BY <1>3, EntryType DEF LogInv, LogRun, Entry
  <2> PICK n \in Nat : n = Len(log)
    BY DEF LogInv, LogType
  <2>2. Clears(n + 1)' /\ Len(log') = n + 1
    BY <1>2, <2>1, ConfirmedByNew, Grow DEF LogInv
  <2> QED
    BY <2>2 DEF Clears, Safe, Threat
<1>4. ~(\E d \in 1 .. MaxGap : LogTick(d)) /\ ~LogReset /\ ~UNCHANGED logVars
  BY DEF Withdrawn, LogTick, Tick, LogReset, logVars
<1> QED
  BY <1>3, <1>4 DEF LogNext

LEMMA ClearingEndsSafePeriod ==
  ASSUME NEW gap \in Nat, LogType, Clears(Len(log)), NoneRejected, GapsUpTo(gap)
  PROVE  SafePeriod(CLEAR - gap)
<1> PICK n \in Nat : n = Len(log)
  BY DEF LogType
<1>1. PICK j \in 1 .. (n - 1) : /\ \A l \in (j + 1) .. (n - 1) : ~Threat(l)
                                /\ log[n].at - log[j].at >= CLEAR
  BY DEF Clears
<1>2. \A k \in (j + 1) .. n : Safe(k)
  <2> SUFFICES ASSUME NEW k \in (j + 1) .. n PROVE Safe(k)
    OBVIOUS
  <2>1. CASE k = n
    BY <2>1 DEF Clears
  <2>2. CASE k # n
    <3>1. log[k] \in Sample /\ k \in 1 .. n /\ k \in (j + 1) .. (n - 1)
      BY <2>2 DEF LogType
    <3> QED
      BY <1>1, <3>1 DEF NoneRejected, Sample, Threat, Safe
  <2> QED
    BY <2>1, <2>2
<1>3. log[n].at - log[j + 1].at >= CLEAR - gap
  <2>1. log[j + 1].at - log[j].at <= gap
    <3>1. j + 1 \in 2 .. n /\ (j + 1) - 1 = j
      OBVIOUS
    <3> QED
      BY <3>1 DEF GapsUpTo
  <2>2. log[n].at \in Nat /\ log[j].at \in Nat /\ log[j + 1].at \in Nat
    BY TimesAreNat
  <2> QED
    BY <1>1, <2>1, <2>2, ConstantsAssumption, ClockAssumption
<1> QED
  BY <1>2, <1>3 DEF SafePeriod

\* While F-07 rejects no sample and is given one at least every gap ms, HIGH is withdrawn only
\* after safe samples over CLEAR - gap ms: updateHysteresis counts the time between the last
\* threat and the first safe sample into the safe period, and that is all it may miss of it.
THEOREM ClearedAfterSafePeriodLessOneGap ==
  ASSUME NEW gap \in Nat
  PROVE  LogSpec => [][(Withdrawn /\ NoneRejected' /\ GapsUpTo(gap)')
                         => SafePeriod(CLEAR - gap)']_logVars
<1>1. TypeOK /\ TypeOK' /\ LogInv /\ LogInv' /\ [LogNext]_logVars
        => [(Withdrawn /\ NoneRejected' /\ GapsUpTo(gap)') => SafePeriod(CLEAR - gap)']_logVars
  <2>1. LogType /\ Clears(Len(log)) /\ NoneRejected /\ GapsUpTo(gap) => SafePeriod(CLEAR - gap)
    BY ClearingEndsSafePeriod
  <2>2. (LogType /\ Clears(Len(log)) /\ NoneRejected /\ GapsUpTo(gap) => SafePeriod(CLEAR - gap))'
    BY <2>1, PTL
  <2> QED
    BY <2>2, WithdrawnByClearing DEF LogInv
<1>2. LogSpec => []TypeOK
  BY LogObserves, TypeCorrect
<1> QED
  BY <1>1, <1>2, LogInvariance, PTL DEF LogSpec

-----------------------------------------------------------------------------
(* What the validation of confidence is worth.                             *)

\* NaN is the one confidence that passes F-07's validation unseen: an adapter that never hands
\* one over makes HIGH rest on samples of sufficient confidence.
THEOREM HighRestsOnConfidence ==
  ASSUME \A in \in Inputs : in.sensorConfidence # "NaN"
  PROVE  LogSpec => []HighOnlyWithConfidence
<1> DEFINE Confident == \A i \in 1 .. Len(log) : Threat(i) => log[i].confidence = "ok"
<1>1. LogInit => Confident
  BY DEF LogInit
<1>2. LogInv /\ Confident /\ [LogNext]_logVars => Confident'
  <2> SUFFICES ASSUME LogInv, Confident, [LogNext]_logVars PROVE Confident'
    OBVIOUS
  <2>1. ASSUME NEW in \in Inputs, LogRun(in) PROVE Confident'
    <3>1. Entry(in) \in Sample /\ log' = Append(log, Entry(in))
      BY <2>1, EntryType DEF LogInv, LogRun, Entry
    <3> PICK n \in Nat : n = Len(log)
      BY DEF LogInv, LogType
    <3>2. /\ Len(log') = n + 1 /\ log'[n + 1] = Entry(in)
          /\ \A k \in 1 .. n : log'[k] = log[k]
      BY <3>1, Grow DEF LogInv
    <3>3. Entry(in).kind = "threat" => Entry(in).confidence = "ok"
      BY ConstantsAssumption, ClockAssumption DEF Entry, Kind, IsInputValid, RearRiskInput
    <3>4. \A k : k \in 1 .. (n + 1) <=> k \in 1 .. n \/ k = n + 1
      OBVIOUS
    <3> QED
      BY <3>2, <3>3, <3>4 DEF Threat
  <2>2. CASE UNCHANGED log
    BY <2>2 DEF Threat
  <2>3. CASE LogReset
    BY <2>3 DEF LogReset
  <2> QED
    BY <2>1, <2>2, <2>3 DEF LogNext, LogTick, logVars
<1>3. HighIffConfirmedByLog /\ Confident => HighOnlyWithConfidence
  BY DEF HighIffConfirmedByLog, RiskConfirmed, Confirms, HighOnlyWithConfidence
<1> QED
  BY <1>1, <1>2, <1>3, LogInvariance, HighExactlyWhenConfirmed, PTL DEF LogSpec

=============================================================================
