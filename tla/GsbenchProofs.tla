----------------------------- MODULE GsbenchProofs --------------------------
(* Proofs about what drives the load of gsbench: that the load controller    *)
(* keeps its target in bounds and earns its verdict, that the search for a   *)
(* number of rows that fills work_mem misses none, that an init of the       *)
(* dataset, wherever it stops, leaves one behind that the next can resume,   *)
(* that the lock scenarios keep a blocker until nobody waits for it, and     *)
(* what a benchmark run is made of, for any number of scenarios, workers and *)
(* lanes.                                                                    *)
EXTENDS LoadController, WorkMemCalibration, Dataset, LockEngine,
        ScenarioRuns, FixedRun,
        FiniteSetTheorems, WellFoundedInduction, TLAPS

\* A product grows with its factor.
LEMMA ProductGrows ==
  ASSUME NEW a \in Nat, NEW b \in Nat, NEW k \in Nat, a <= b
  PROVE  a * k <= b * k
  OBVIOUS

\* What a quotient is: the multiples of the divisor on both sides.
LEMMA QuotientBounds ==
  ASSUME NEW a \in Nat, NEW d \in Nat \ {0}
  PROVE  /\ a \div d \in Nat
         /\ (a \div d) * d <= a /\ a < (a \div d + 1) * d
  OBVIOUS

\* A quotient grows with what is divided.
LEMMA QuotientGrows ==
  ASSUME NEW a \in Nat, NEW b \in Nat, NEW d \in Nat \ {0}, a <= b
  PROVE  a \div d <= b \div d
  <1>1. PICK p \in Nat : p = a \div d
    BY QuotientBounds
  <1>2. PICK q \in Nat : q = b \div d
    BY QuotientBounds
  <1>3. p * d <= a /\ b < (q + 1) * d
    BY <1>1, <1>2, QuotientBounds
  <1>4. SUFFICES ASSUME q + 1 <= p
                 PROVE  FALSE
    BY <1>1, <1>2
  <1>5. (q + 1) * d <= p * d
    BY <1>4, ProductGrows
  <1>6. p * d \in Nat /\ (q + 1) * d \in Nat
    OBVIOUS
  <1> QED
    BY <1>3, <1>5, <1>6

-----------------------------------------------------------------------------
(* The load controller (LoadController).                                     *)

\* The state of the loop.
Loop ==
  [mode : {"off", "run", "minimum"}, cfg : ControllerConfig,
   verdict : {"none", "reached", "ceiling", "failed", "exhausted"},
   samples : Nat, inBand : Nat, ceiling : Nat, lower : Nat, upper : Nat,
   direction : {"none", "up", "down"}, pending : Nat]

\* The loop c with w workers, n samples in a row short of the target at the
\* top: its counters are within their limits, and below them while it goes on; a
\* bracket is a number of workers that was tried; the samples that count towards
\* the ceiling are among the n, and were taken with the workers of now.
SoundLoop(c, w, n) ==
  /\ c \in Loop /\ w \in c.cfg.min..c.cfg.max /\ n \in 0..c.cfg.required
  /\ c.samples <= c.cfg.maxSamples
  /\ c.inBand <= c.cfg.required /\ c.ceiling <= c.cfg.required
  /\ c.verdict = "none" => c.inBand < c.cfg.required /\ c.ceiling < c.cfg.required
  /\ c.lower # 0 => c.cfg.min <= c.lower
  /\ c.lower <= c.cfg.max /\ c.upper <= c.cfg.max
  /\ c.mode = "run" =>
       /\ c.ceiling <= n
       /\ c.verdict = "ceiling" => c.ceiling = c.cfg.required
       /\ c.verdict = "none" /\ c.ceiling > 0 => w = c.cfg.max

\* Before the start nothing was measured.
Idle ==
  /\ ctl \in Loop /\ ctl.mode = "off" /\ ctl.verdict = "none" /\ ctl.samples = 0
  /\ ctl.inBand = 0 /\ ctl.ceiling = 0 /\ ctl.lower = 0 /\ ctl.upper = 0 /\ atTop = 0

\* The inductive invariant of the load controller.
ControllerInv ==
  /\ steady \in Gain \cup {0}
  /\ \/ Idle
     \/ /\ SoundLoop(ctl, workers, atTop) /\ ctl.mode # "off"
        /\ Looping("run") => ctl.samples < Cfg.maxSamples

\* The numbers of a configuration.
LEMMA NormalizedNumbers ==
  ASSUME NEW c \in ControllerConfig
  PROVE  /\ c.min \in Nat /\ c.min > 0 /\ c.max \in Nat /\ c.min <= c.max
         /\ c.step \in Nat /\ c.step > 0 /\ c.exploration \in Nat
         /\ c.required \in Nat /\ c.required > 0 /\ c.adjusting \in Nat
         /\ c.maxSamples \in Nat /\ c.maxSamples > 0
         /\ c.target \in Nat /\ c.target > 0 /\ c.tolerance \in Nat
  <1>1. c \in Normalized /\ c.min <= c.max
    BY LoadControllerConstants
  <1> QED
    BY <1>1 DEF Normalized, Positive

\* A fresh loop has measured nothing.
LEMMA FreshIsIdle ==
  ASSUME NEW mode \in {"off", "run", "minimum"}, NEW c \in ControllerConfig
  PROVE  LET f == FreshLoad(mode, c)
         IN  /\ f \in Loop /\ f.mode = mode /\ f.cfg = c /\ f.verdict = "none"
             /\ f.samples = 0 /\ f.inBand = 0 /\ f.ceiling = 0 /\ f.lower = 0 /\ f.upper = 0
  BY DEF FreshLoad, Loop

\* What an adjustment is: at least one worker.
LEMMA AdjustmentIsSome ==
  ASSUME ctl \in Loop, workers \in Nat, NEW v \in Nat
  PROVE  Adjustment(v) \in Nat /\ Adjustment(v) > 0
  <1>1. ctl.cfg \in ControllerConfig
    BY DEF Loop
  <1>2. PICK step \in Nat, target \in Nat \ {0}, exploration \in Nat :
          /\ Cfg.step = step /\ step > 0 /\ Cfg.target = target
          /\ Cfg.exploration = exploration
    BY <1>1, NormalizedNumbers DEF Cfg
  <1>3. PICK a \in Nat, d \in Nat : a = Lesser(step, workers) /\ d = Distance(target, v)
    <2>1. Lesser(step, workers) \in Nat /\ Distance(target, v) \in Nat
      BY <1>2 DEF Lesser, Distance
    <2> QED
      BY <2>1
  <1>4. a * d + target - 1 \in Nat
    <2>1. a * d \in Nat
      OBVIOUS
    <2> QED
      BY <2>1
  <1>5. PICK ceil \in Nat : ceil = (a * d + target - 1) \div target
    BY <1>4, QuotientBounds
  <1>6. Adjustment(v) = IF v \in {0, Unavailable}
                        THEN IF exploration = 0 THEN step ELSE Lesser(step, exploration)
                        ELSE Greater(1, Lesser(step, ceil))
    BY <1>2, <1>3, <1>5 DEF Adjustment
  <1> QED
    BY <1>2, <1>5, <1>6 DEF Lesser, Greater

\* c and d agree on what ResetPending and Ask leave alone.
SameCounts(c, d) ==
  /\ c.mode = d.mode /\ c.cfg = d.cfg /\ c.verdict = d.verdict /\ c.samples = d.samples
  /\ c.inBand = d.inBand /\ c.ceiling = d.ceiling /\ c.lower = d.lower /\ c.upper = d.upper

LEMMA ResetPendingIs ==
  ASSUME NEW c \in Loop
  PROVE  ResetPending(c) \in Loop /\ SameCounts(ResetPending(c), c)
  BY DEF ResetPending, SameCounts, Loop

LEMMA AskIs ==
  ASSUME ctl \in Loop, NEW c \in Loop, NEW direction \in {"up", "down"}
  PROVE  Ask(c, direction) \in Loop /\ SameCounts(Ask(c, direction), c)
  <1>1. PICK k \in Nat : k = PendingNow(direction)
    BY DEF PendingNow, Loop
  <1>2. CASE Confirmed(direction)
    BY <1>2, ResetPendingIs DEF Ask
  <1>3. CASE ~Confirmed(direction)
    <2>1. Ask(c, direction) = [c EXCEPT !.direction = direction, !.pending = k]
      BY <1>1, <1>3 DEF Ask
    <2> QED
      BY <2>1 DEF SameCounts, Loop
  <1> QED
    BY <1>2, <1>3

\* One more sample, which breaks the row of those in the band.
LEMMA MissedIs ==
  ASSUME ctl \in Loop
  PROVE  /\ Taken \in Loop /\ Missed \in Loop /\ Missed.inBand = 0
         /\ Taken.samples = Missed.samples /\ Taken.inBand = ctl.inBand
         /\ ctl.mode = "run" => Taken.samples = ctl.samples + 1
         /\ ctl.mode # "run" => Taken.samples = ctl.samples
         /\ \A c \in {Taken, Missed} :
              /\ c.mode = ctl.mode /\ c.cfg = ctl.cfg /\ c.verdict = ctl.verdict
              /\ c.ceiling = ctl.ceiling /\ c.lower = ctl.lower /\ c.upper = ctl.upper
  <1>1. PICK k \in Nat : k = IF ctl.mode = "run" THEN ctl.samples + 1 ELSE ctl.samples
    BY DEF Loop
  <1>2. Taken = [ctl EXCEPT !.samples = k]
    BY <1>1 DEF Taken, Loop
  <1>3. Missed = [ctl EXCEPT !.samples = k, !.inBand = 0]
    BY <1>2 DEF Missed, Loop
  <1> QED
    BY <1>1, <1>2, <1>3 DEF Loop

\* One more sample at the ceiling, or towards the target.
LEMMA AtCeilingIs ==
  ASSUME ctl \in Loop, NEW c \in Loop, c.cfg = ctl.cfg, c.verdict = "none"
  PROVE  LET d == AtCeiling(c)
         IN  /\ d \in Loop /\ d.ceiling = c.ceiling + 1
             /\ d.verdict = IF c.ceiling + 1 >= Cfg.required THEN "ceiling" ELSE "none"
             /\ d.mode = c.mode /\ d.cfg = c.cfg /\ d.samples = c.samples
             /\ d.inBand = c.inBand /\ d.lower = c.lower /\ d.upper = c.upper
  <1>1. PICK k \in Nat, verdict \in {"none", "ceiling"} :
          /\ k = c.ceiling + 1
          /\ verdict = IF c.ceiling + 1 >= Cfg.required THEN "ceiling" ELSE "none"
    BY DEF Loop
  <1>2. AtCeiling(c) = [c EXCEPT !.ceiling = k, !.verdict = verdict]
    BY <1>1 DEF AtCeiling, Loop
  <1> QED
    BY <1>1, <1>2 DEF Loop

LEMMA TowardsIs ==
  ASSUME ctl \in Loop, NEW c \in Loop, c.cfg = ctl.cfg, c.verdict = "none"
  PROVE  LET d == Towards(c)
         IN  /\ d \in Loop /\ d.inBand = c.inBand + 1 /\ d.ceiling = 0
             /\ d.verdict = IF c.inBand + 1 >= Cfg.required THEN "reached" ELSE "none"
             /\ d.mode = c.mode /\ d.cfg = c.cfg /\ d.samples = c.samples
             /\ d.lower = c.lower /\ d.upper = c.upper
  <1>1. PICK k \in Nat, none \in Nat, verdict \in {"none", "reached"} :
          /\ k = c.inBand + 1 /\ none = 0
          /\ verdict = IF c.inBand + 1 >= Cfg.required THEN "reached" ELSE "none"
    BY DEF Loop
  <1>2. Towards(c) = [c EXCEPT !.inBand = k, !.ceiling = none, !.verdict = verdict]
    BY <1>1 DEF Towards, Loop
  <1> QED
    BY <1>1, <1>2 DEF Loop

\* A sound loop may be continued, or ended as exhausted.
LEMMA BecomeIsSound ==
  ASSUME ControllerInv, NEW c, NEW w, c.mode # "off", c.cfg = ctl.cfg,
         SoundLoop(c, w, atTop'), Become(c, w)
  PROVE  ControllerInv'
  <1>1. /\ c \in Loop /\ c.cfg \in ControllerConfig /\ ctl' = Exhaust(c) /\ workers' = w
        /\ steady' = steady
    BY DEF SoundLoop, Become, Loop
  <1>2. PICK verdict \in {"none", "reached", "ceiling", "failed", "exhausted"} :
          /\ ctl' = [c EXCEPT !.verdict = verdict]
          /\ verdict = c.verdict \/ verdict = "exhausted"
          /\ verdict = "none" /\ c.mode = "run" => c.samples < c.cfg.maxSamples
    <2>1. CASE c.verdict = "none" /\ c.mode = "run" /\ c.samples >= Cfg.maxSamples
      BY <1>1, <2>1 DEF Exhaust
    <2>2. CASE ~(c.verdict = "none" /\ c.mode = "run" /\ c.samples >= Cfg.maxSamples)
      <3>1. ctl' = [c EXCEPT !.verdict = c.verdict]
        BY <1>1, <2>2 DEF Exhaust, Loop
      <3>2. c.samples \in Nat /\ c.cfg.maxSamples \in Nat
        BY <1>1, NormalizedNumbers DEF Loop
      <3> QED
        BY <1>1, <2>2, <3>1, <3>2 DEF Loop, Cfg
    <2> QED
      BY <2>1, <2>2
  <1>3. /\ ctl' \in Loop /\ ctl'.mode = c.mode /\ ctl'.cfg = c.cfg /\ ctl'.verdict = verdict
        /\ ctl'.samples = c.samples /\ ctl'.inBand = c.inBand /\ ctl'.ceiling = c.ceiling
        /\ ctl'.lower = c.lower /\ ctl'.upper = c.upper
    BY <1>1, <1>2 DEF Loop
  <1>4. SoundLoop(ctl, workers, atTop)'
    BY <1>1, <1>2, <1>3 DEF SoundLoop
  <1> QED
    BY <1>1, <1>2, <1>3, <1>4 DEF ControllerInv, Looping, Cfg

\* What a loop that goes on knows, in numbers.
LEMMA LoopingNumbers ==
  ASSUME ControllerInv, Looping("run") \/ Looping("minimum")
  PROVE  /\ ctl \in Loop /\ ctl.verdict = "none" /\ ctl.mode \in {"run", "minimum"}
         /\ SoundLoop(ctl, workers, atTop) /\ ctl.cfg \in ControllerConfig
         /\ workers \in Nat /\ workers > 0 /\ atTop \in Nat
         /\ Looping("run") => ctl.samples < ctl.cfg.maxSamples
  <1>1. SoundLoop(ctl, workers, atTop) /\ (Looping("run") => ctl.samples < ctl.cfg.maxSamples)
    BY DEF ControllerInv, Looping, Idle, Cfg
  <1>2. ctl \in Loop /\ ctl.cfg \in ControllerConfig
    BY <1>1 DEF SoundLoop, Loop
  <1> QED
    BY <1>1, <1>2, NormalizedNumbers DEF SoundLoop, Looping

\* The history counts on, up to RequiredSamples.
LEMMA FellShortCounts ==
  ASSUME ControllerInv, Looping("run"), NEW is \in BOOLEAN, FellShort(is)
  PROVE  /\ atTop' \in 0..ctl.cfg.required
         /\ is /\ workers = ctl.cfg.max /\ ctl.ceiling < ctl.cfg.required
              => ctl.ceiling + 1 <= atTop'
  <1>1. /\ atTop \in Nat /\ ctl.ceiling \in Nat /\ ctl.ceiling <= atTop
        /\ ctl.cfg.required \in Nat
    BY LoopingNumbers, NormalizedNumbers DEF SoundLoop, Loop, Looping
  <1> QED
    BY <1>1 DEF FellShort, Lesser, Cfg

\* A value that is available is a number.
LEMMA ReadingsAreNumbers ==
  ASSUME ControllerInv, workers \in Nat, NEW v \in Readings \ {Unavailable}
  PROVE  v \in Nat
  <1>1. CASE steady = 0
    BY <1>1, LoadControllerConstants DEF Readings
  <1>2. CASE steady # 0
    <2>1. steady \in Nat /\ TopValue \in Nat
      BY LoadControllerConstants DEF ControllerInv
    <2>2. workers * steady \in Nat
      BY <2>1
    <2> QED
      BY <1>2, <2>1, <2>2 DEF Readings, Lesser
  <1> QED
    BY <1>1, <1>2

\* Without a value the workers are raised, or the ceiling has one more sample.
LEMMA UnavailableIsSound ==
  ASSUME ControllerInv, SampleUnavailable
  PROVE  ControllerInv'
  <1>1. Looping("run") /\ FellShort(TRUE)
    BY DEF SampleUnavailable
  <1>2. /\ ctl \in Loop /\ ctl.verdict = "none" /\ ctl.mode = "run"
        /\ SoundLoop(ctl, workers, atTop) /\ ctl.cfg \in ControllerConfig /\ workers \in Nat
        /\ ctl.samples < ctl.cfg.maxSamples /\ ctl.ceiling < ctl.cfg.required
    BY <1>1, LoopingNumbers DEF Looping, SoundLoop
  <1>3. /\ atTop' \in 0..ctl.cfg.required
        /\ workers = ctl.cfg.max => ctl.ceiling + 1 <= atTop'
    BY <1>1, <1>2, FellShortCounts
  <1> DEFINE m == ResetPending(Missed)
  <1>4. /\ m \in Loop /\ SameCounts(m, Missed) /\ Missed.inBand = 0
        /\ Missed.samples = ctl.samples + 1 /\ Missed.mode = "run" /\ Missed.cfg = ctl.cfg
        /\ Missed.verdict = "none" /\ Missed.ceiling = ctl.ceiling
        /\ Missed.lower = ctl.lower /\ Missed.upper = ctl.upper
    BY <1>2, MissedIs, ResetPendingIs
  <1>5. /\ m.inBand = 0 /\ m.samples = ctl.samples + 1 /\ m.mode = "run" /\ m.cfg = ctl.cfg
        /\ m.verdict = "none" /\ m.ceiling = ctl.ceiling
        /\ m.lower = ctl.lower /\ m.upper = ctl.upper
    BY <1>4 DEF SameCounts
  <1>6. CASE workers >= Cfg.max
    <2>1. Become(AtCeiling(m), workers)
      BY <1>6 DEF SampleUnavailable
    <2>2. workers = ctl.cfg.max
      BY <1>2, <1>6, NormalizedNumbers DEF SoundLoop, Cfg
    <2> HIDE DEF m
    <2>3. PICK d \in Loop :
            /\ d = AtCeiling(m) /\ d.ceiling = ctl.ceiling + 1
            /\ d.verdict = IF ctl.ceiling + 1 >= ctl.cfg.required THEN "ceiling" ELSE "none"
            /\ d.mode = "run" /\ d.cfg = ctl.cfg /\ d.samples = ctl.samples + 1
            /\ d.inBand = 0 /\ d.lower = ctl.lower /\ d.upper = ctl.upper
      BY <1>2, <1>4, <1>5, AtCeilingIs DEF Cfg
    <2>4. SoundLoop(d, workers, atTop')
      BY <1>2, <1>3, <2>2, <2>3, NormalizedNumbers DEF SoundLoop, Loop
    <2> QED
      BY <2>1, <2>3, <2>4, BecomeIsSound
  <1>7. CASE ~(workers >= Cfg.max)
    <2> DEFINE w == Lesser(Cfg.max, workers + Adjustment(Unavailable))
    <2>1. Become([m EXCEPT !.ceiling = 0], w)
      BY <1>7 DEF SampleUnavailable
    <2>2. w \in ctl.cfg.min..ctl.cfg.max
      <3>1. Adjustment(Unavailable) \in Nat
        BY <1>2, AdjustmentIsSome, LoadControllerConstants DEF Unavailable
      <3> QED
        BY <1>2, <1>7, <3>1, NormalizedNumbers DEF SoundLoop, Cfg, Lesser
    <2> HIDE DEF m, w
    <2>3. PICK d \in Loop :
            /\ d = [m EXCEPT !.ceiling = 0] /\ d.ceiling = 0
            /\ d.verdict = "none" /\ d.mode = "run" /\ d.cfg = ctl.cfg
            /\ d.samples = ctl.samples + 1
            /\ d.inBand = 0 /\ d.lower = ctl.lower /\ d.upper = ctl.upper
      <3>1. PICK none \in Nat : none = 0
        OBVIOUS
      <3>2. [m EXCEPT !.ceiling = none] \in Loop
        BY <1>4 DEF Loop
      <3> QED
        BY <1>4, <1>5, <3>1, <3>2 DEF Loop
    <2>4. SoundLoop(d, w, atTop')
      BY <1>2, <1>3, <2>2, <2>3, NormalizedNumbers DEF SoundLoop, Loop
    <2> QED
      BY <2>1, <2>3, <2>4, BecomeIsSound
  <1> QED
    BY <1>6, <1>7

\* A sample in the band leaves the workers where they are.
LEMMA InBandIsSound ==
  ASSUME ControllerInv, SampleInBand
  PROVE  ControllerInv'
  <1>1. Looping("run") /\ FellShort(FALSE) /\ Become(ResetPending(Towards(Taken)), workers)
    BY DEF SampleInBand
  <1>2. /\ ctl \in Loop /\ ctl.verdict = "none" /\ ctl.mode = "run"
        /\ SoundLoop(ctl, workers, atTop) /\ ctl.cfg \in ControllerConfig
        /\ ctl.samples < ctl.cfg.maxSamples /\ ctl.inBand < ctl.cfg.required
        /\ atTop' \in 0..ctl.cfg.required
    BY <1>1, LoopingNumbers, FellShortCounts DEF Looping, SoundLoop
  <1>3. /\ Taken \in Loop /\ Taken.samples = ctl.samples + 1 /\ Taken.inBand = ctl.inBand
        /\ Taken.mode = "run" /\ Taken.cfg = ctl.cfg /\ Taken.verdict = "none"
        /\ Taken.lower = ctl.lower /\ Taken.upper = ctl.upper
    BY <1>2, MissedIs
  <1>4. PICK t \in Loop :
          /\ t = Towards(Taken) /\ t.inBand = ctl.inBand + 1 /\ t.ceiling = 0
          /\ t.verdict = IF ctl.inBand + 1 >= ctl.cfg.required THEN "reached" ELSE "none"
          /\ t.mode = "run" /\ t.cfg = ctl.cfg /\ t.samples = ctl.samples + 1
          /\ t.lower = ctl.lower /\ t.upper = ctl.upper
    BY <1>2, <1>3, TowardsIs DEF Cfg
  <1>5. PICK d \in Loop : d = ResetPending(t) /\ SameCounts(d, t)
    BY ResetPendingIs
  <1>6. SoundLoop(d, workers, atTop') /\ d.mode = "run" /\ d.cfg = ctl.cfg
    <2>1. /\ d.inBand = ctl.inBand + 1 /\ d.ceiling = 0
          /\ d.verdict = IF ctl.inBand + 1 >= ctl.cfg.required THEN "reached" ELSE "none"
          /\ d.mode = "run" /\ d.cfg = ctl.cfg /\ d.samples = ctl.samples + 1
          /\ d.lower = ctl.lower /\ d.upper = ctl.upper
      BY <1>4, <1>5 DEF SameCounts
    <2> QED
      BY <1>2, <1>5, <2>1, NormalizedNumbers DEF SoundLoop, Loop
  <1> QED
    BY <1>1, <1>4, <1>5, <1>6, BecomeIsSound

\* Below the target: up, but no further than the bracket or the maximum.
LEMMA BelowIsSound ==
  ASSUME ControllerInv, SampleBelow
  PROVE  ControllerInv'
  <1>1. Looping("run") /\ FellShort(TRUE)
    BY DEF SampleBelow
  <1>2. /\ ctl \in Loop /\ ctl.verdict = "none" /\ ctl.mode = "run"
        /\ SoundLoop(ctl, workers, atTop) /\ ctl.cfg \in ControllerConfig /\ workers \in Nat
        /\ ctl.samples < ctl.cfg.maxSamples /\ ctl.ceiling < ctl.cfg.required
        /\ ctl.lower \in Nat /\ ctl.upper \in Nat
    BY <1>1, LoopingNumbers DEF Looping, SoundLoop, Loop
  <1>3. /\ atTop' \in 0..ctl.cfg.required
        /\ workers = ctl.cfg.max => ctl.ceiling + 1 <= atTop'
    BY <1>1, <1>2, FellShortCounts
  <1> DEFINE c == [Missed EXCEPT !.upper = IF workers > @ THEN 0 ELSE @,
                                 !.lower = IF workers > @ THEN workers ELSE @]
             same == workers = ctl.upper
  <1>4. PICK v \in Readings \ {Unavailable} :
          IF workers >= Cfg.max THEN Become(AtCeiling(ResetPending(c)), workers)
          ELSE IF ~Confirmed("up") THEN Become(Ask(c, "up"), workers)
          ELSE Become([Ask(c, "up") EXCEPT !.ceiling = 0,
                                           !.upper = IF same THEN 0 ELSE @],
                      UpTo(c, v, same))
    BY Zenon DEF SampleBelow
  <1>5. /\ c \in Loop /\ c.inBand = 0 /\ c.samples = ctl.samples + 1 /\ c.mode = "run"
        /\ c.cfg = ctl.cfg /\ c.verdict = "none" /\ c.ceiling = ctl.ceiling
        /\ c.lower \in {ctl.lower, workers} /\ c.upper \in {0, ctl.upper}
    <2>1. /\ Missed \in Loop /\ Missed.inBand = 0 /\ Missed.samples = ctl.samples + 1
          /\ Missed.mode = "run" /\ Missed.cfg = ctl.cfg /\ Missed.verdict = "none"
          /\ Missed.ceiling = ctl.ceiling
          /\ Missed.lower = ctl.lower /\ Missed.upper = ctl.upper
      BY <1>2, MissedIs
    <2>2. PICK up \in Nat, low \in Nat :
            /\ up \in {0, ctl.upper} /\ low \in {ctl.lower, workers}
            /\ up = (IF workers > Missed.upper THEN 0 ELSE Missed.upper)
            /\ low = (IF workers > Missed.lower THEN workers ELSE Missed.lower)
      BY <1>2, <2>1
    <2>3. c = [Missed EXCEPT !.upper = up, !.lower = low]
      BY <2>2
    <2> QED
      BY <2>1, <2>2, <2>3 DEF Loop
  <1> HIDE DEF c
  <1>6. v \in Nat
    BY <1>2, ReadingsAreNumbers
  <1>7. CASE workers >= Cfg.max
    <2>1. Become(AtCeiling(ResetPending(c)), workers)
      BY <1>4, <1>7
    <2>2. workers = ctl.cfg.max
      BY <1>2, <1>7, NormalizedNumbers DEF SoundLoop, Cfg
    <2>3. PICK m \in Loop :
            /\ m = ResetPending(c) /\ m.inBand = 0 /\ m.samples = ctl.samples + 1
            /\ m.mode = "run" /\ m.cfg = ctl.cfg /\ m.verdict = "none"
            /\ m.ceiling = ctl.ceiling /\ m.lower = c.lower /\ m.upper = c.upper
      BY <1>5, ResetPendingIs DEF SameCounts
    <2>4. PICK d \in Loop :
            /\ d = AtCeiling(m) /\ d.ceiling = ctl.ceiling + 1
            /\ d.verdict = IF ctl.ceiling + 1 >= ctl.cfg.required THEN "ceiling" ELSE "none"
            /\ d.mode = "run" /\ d.cfg = ctl.cfg /\ d.samples = ctl.samples + 1
            /\ d.inBand = 0 /\ d.lower = c.lower /\ d.upper = c.upper
      BY <1>2, <2>3, AtCeilingIs DEF Cfg
    <2>5. SoundLoop(d, workers, atTop')
      BY <1>2, <1>3, <1>5, <2>2, <2>4, NormalizedNumbers DEF SoundLoop, Loop
    <2> QED
      BY <2>1, <2>3, <2>4, <2>5, BecomeIsSound
  <1>8. CASE ~(workers >= Cfg.max)
    <2>1. PICK a \in Loop :
            /\ a = Ask(c, "up") /\ a.inBand = 0 /\ a.samples = ctl.samples + 1
            /\ a.mode = "run" /\ a.cfg = ctl.cfg /\ a.verdict = "none"
            /\ a.ceiling = ctl.ceiling /\ a.lower = c.lower /\ a.upper = c.upper
      BY <1>2, <1>5, AskIs DEF SameCounts
    <2>2. ctl.ceiling = 0
      BY <1>2, <1>8, NormalizedNumbers DEF SoundLoop, Loop, Cfg
    <2>3. CASE ~Confirmed("up")
      <3>1. Become(a, workers)
        BY <1>4, <1>8, <2>1, <2>3
      <3>2. SoundLoop(a, workers, atTop')
        BY <1>2, <1>3, <1>5, <2>1, <2>2, NormalizedNumbers DEF SoundLoop, Loop
      <3> QED
        BY <2>1, <3>1, <3>2, BecomeIsSound
    <2>4. CASE Confirmed("up")
      <3>1. Become([a EXCEPT !.ceiling = 0, !.upper = IF same THEN 0 ELSE @], UpTo(c, v, same))
        BY <1>4, <1>8, <2>1, <2>4
      <3>2. UpTo(c, v, same) \in ctl.cfg.min..ctl.cfg.max
        <4>1. PICK j \in Nat : j = Adjustment(v) /\ j > 0
          BY <1>2, <1>6, AdjustmentIsSome
        <4>2. PICK step \in Nat :
                step = IF same \/ Cfg.exploration = 0 THEN Adjustment(v)
                       ELSE Greater(Adjustment(v), Lesser(Cfg.step, Cfg.exploration))
          BY <1>2, <4>1, NormalizedNumbers DEF Cfg, Greater, Lesser
        <4>3. UpTo(c, v, same) = IF c.upper > workers
                                 THEN workers + Greater(1, (c.upper - workers) \div 2)
                                 ELSE Lesser(Cfg.max, workers + step)
          BY <4>2 DEF UpTo
        <4>4. CASE c.upper > workers
          <5>1. c.upper \in Nat /\ c.upper <= ctl.cfg.max
            BY <1>2, <1>5, NormalizedNumbers DEF SoundLoop, Loop
          <5>2. PICK k \in Nat : k = (c.upper - workers) \div 2 /\ workers + k <= c.upper
            BY <1>2, <4>4, <5>1
          <5>3. PICK g \in Nat : g = Greater(1, k) /\ workers + g <= c.upper
            BY <1>2, <4>4, <5>1, <5>2 DEF Greater
          <5>4. UpTo(c, v, same) = workers + g
            BY <4>3, <4>4, <5>2, <5>3
          <5> QED
            BY <1>2, <5>1, <5>3, <5>4, NormalizedNumbers DEF SoundLoop
        <4>5. CASE ~(c.upper > workers)
          BY <1>2, <1>8, <4>2, <4>3, <4>5, NormalizedNumbers DEF SoundLoop, Cfg, Lesser
        <4> QED
          BY <4>4, <4>5
      <3>3. PICK d \in Loop :
              /\ d = [a EXCEPT !.ceiling = 0, !.upper = IF same THEN 0 ELSE @]
              /\ d.inBand = 0 /\ d.samples = ctl.samples + 1
              /\ d.mode = "run" /\ d.cfg = ctl.cfg /\ d.verdict = "none"
              /\ d.ceiling = 0 /\ d.lower = c.lower /\ d.upper \in {0, c.upper}
        <4>1. PICK up \in Nat : up \in {0, c.upper} /\ up = IF same THEN 0 ELSE a.upper
          BY <1>5, <2>1 DEF Loop
        <4>2. PICK none \in Nat : none = 0
          OBVIOUS
        <4>3. [a EXCEPT !.ceiling = 0, !.upper = IF same THEN 0 ELSE @]
                = [a EXCEPT !.ceiling = none, !.upper = up]
          BY <4>1, <4>2
        <4>4. PICK d : d = [a EXCEPT !.ceiling = none, !.upper = up]
          OBVIOUS
        <4>5. /\ d \in Loop /\ d.inBand = a.inBand /\ d.samples = a.samples
              /\ d.mode = a.mode /\ d.cfg = a.cfg /\ d.verdict = a.verdict
              /\ d.ceiling = none /\ d.lower = a.lower /\ d.upper = up
          BY <4>4 DEF Loop
        <4>6. d = [a EXCEPT !.ceiling = 0, !.upper = IF same THEN 0 ELSE @]
          BY <4>3, <4>4
        <4>7. /\ d \in Loop /\ d.inBand = 0 /\ d.samples = ctl.samples + 1
              /\ d.mode = "run" /\ d.cfg = ctl.cfg /\ d.verdict = "none"
              /\ d.ceiling = 0 /\ d.lower = c.lower /\ d.upper \in {0, c.upper}
          BY <2>1, <4>1, <4>2, <4>5
        <4> QED
          BY <4>6, <4>7, Zenon
      <3>4. SoundLoop(d, UpTo(c, v, same), atTop')
        BY <1>2, <1>3, <1>5, <3>2, <3>3, NormalizedNumbers DEF SoundLoop, Loop
      <3> QED
        BY <3>1, <3>3, <3>4, BecomeIsSound
    <2> QED
      BY <2>3, <2>4
  <1> QED
    BY <1>7, <1>8

\* Above the target: down, but no further than the bracket or the minimum.
LEMMA AboveIsSound ==
  ASSUME ControllerInv, SampleAbove
  PROVE  ControllerInv'
  <1>1. Looping("run") /\ FellShort(FALSE)
    BY DEF SampleAbove
  <1>2. /\ ctl \in Loop /\ ctl.verdict = "none" /\ ctl.mode = "run"
        /\ SoundLoop(ctl, workers, atTop) /\ ctl.cfg \in ControllerConfig /\ workers \in Nat
        /\ ctl.samples < ctl.cfg.maxSamples /\ atTop' \in 0..ctl.cfg.required
        /\ ctl.lower \in Nat /\ ctl.upper \in Nat
    BY <1>1, LoopingNumbers, FellShortCounts DEF Looping, SoundLoop, Loop
  <1> DEFINE c == [RestartCount(Missed) EXCEPT
                     !.lower = IF workers < @ THEN 0 ELSE @,
                     !.upper = IF @ = 0 \/ workers < @ THEN workers ELSE @]
             same == workers = ctl.lower
  <1>3. PICK v \in Readings \ {Unavailable} :
          /\ workers > Cfg.min
          /\ IF ~Confirmed("down") THEN Become(Ask(c, "down"), workers)
             ELSE Become([Ask(c, "down") EXCEPT !.lower = IF same THEN 0 ELSE @],
                         DownTo(c, v, same))
    BY Zenon DEF SampleAbove
  <1>4. /\ c \in Loop /\ c.inBand = 0 /\ c.samples = ctl.samples + 1 /\ c.mode = "run"
        /\ c.cfg = ctl.cfg /\ c.verdict = "none" /\ c.ceiling = 0
        /\ c.lower \in {0, ctl.lower} /\ c.upper \in {workers, ctl.upper}
    <2>1. /\ Missed \in Loop /\ Missed.inBand = 0 /\ Missed.samples = ctl.samples + 1
          /\ Missed.mode = "run" /\ Missed.cfg = ctl.cfg /\ Missed.verdict = "none"
          /\ Missed.lower = ctl.lower /\ Missed.upper = ctl.upper
      BY <1>2, MissedIs
    <2>2. PICK up \in Nat, low \in Nat :
            /\ up \in {workers, ctl.upper} /\ low \in {0, ctl.lower}
            /\ up = (IF Missed.upper = 0 \/ workers < Missed.upper
                     THEN workers ELSE Missed.upper)
            /\ low = (IF workers < Missed.lower THEN 0 ELSE Missed.lower)
      BY <1>2, <2>1
    <2>3. c = [Missed EXCEPT !.ceiling = 0, !.lower = low, !.upper = up]
      BY <2>1, <2>2 DEF RestartCount, Loop
    <2> QED
      BY <2>1, <2>2, <2>3 DEF Loop
  <1> HIDE DEF c
  <1>5. v \in Nat
    BY <1>2, ReadingsAreNumbers
  <1>6. PICK a \in Loop :
          /\ a = Ask(c, "down") /\ a.inBand = 0 /\ a.samples = ctl.samples + 1
          /\ a.mode = "run" /\ a.cfg = ctl.cfg /\ a.verdict = "none"
          /\ a.ceiling = 0 /\ a.lower = c.lower /\ a.upper = c.upper
    BY <1>2, <1>4, AskIs DEF SameCounts
  <1>7. CASE ~Confirmed("down")
    <2>1. Become(a, workers)
      BY <1>3, <1>6, <1>7
    <2>2. SoundLoop(a, workers, atTop')
      BY <1>2, <1>4, <1>6, NormalizedNumbers DEF SoundLoop, Loop
    <2> QED
      BY <1>6, <2>1, <2>2, BecomeIsSound
  <1>8. CASE Confirmed("down")
    <2>1. Become([a EXCEPT !.lower = IF same THEN 0 ELSE @], DownTo(c, v, same))
      BY <1>3, <1>6, <1>8
    <2>2. DownTo(c, v, same) \in ctl.cfg.min..ctl.cfg.max
      <3>1. PICK j \in Nat : j = Adjustment(v) /\ j > 0
        BY <1>2, <1>5, AdjustmentIsSome
      <3>2. CASE c.lower # 0 /\ c.lower < workers
        <4>1. PICK low \in Nat : low = c.lower /\ ctl.cfg.min <= low
          BY <1>2, <1>4, <3>2 DEF SoundLoop, Loop
        <4>2. PICK k \in Nat : k = (workers - low) \div 2 /\ low + k <= workers
          BY <1>2, <3>2, <4>1
        <4>3. ~same
          BY <1>2, <1>4, <3>2
        <4>4. DownTo(c, v, same) = low + k
          BY <3>2, <4>1, <4>2, <4>3 DEF DownTo
        <4> QED
          BY <1>2, <4>1, <4>2, <4>4, NormalizedNumbers DEF SoundLoop
      <3>3. CASE ~(c.lower # 0 /\ c.lower < workers)
        <4>1. PICK half \in Nat : half = workers \div 2 /\ half <= workers
          BY <1>2
        <4>2. PICK less \in Nat : less = workers - Lesser(workers, j) /\ less <= workers
          BY <1>2, <3>1 DEF Lesser
        <4>3. \/ DownTo(c, v, same) = Greater(ctl.cfg.min, less)
              \/ DownTo(c, v, same) = Greater(ctl.cfg.min, half)
          BY <3>1, <3>3, <4>1, <4>2 DEF DownTo, Cfg
        <4> QED
          BY <1>2, <4>1, <4>2, <4>3, NormalizedNumbers DEF SoundLoop, Greater
      <3> QED
        BY <3>2, <3>3
    <2>3. PICK d \in Loop :
            /\ d = [a EXCEPT !.lower = IF same THEN 0 ELSE @]
            /\ d.inBand = 0 /\ d.samples = ctl.samples + 1
            /\ d.mode = "run" /\ d.cfg = ctl.cfg /\ d.verdict = "none"
            /\ d.ceiling = 0 /\ d.lower \in {0, c.lower} /\ d.upper = c.upper
      <3>1. PICK low \in Nat : low \in {0, c.lower} /\ low = IF same THEN 0 ELSE a.lower
        BY <1>4, <1>6 DEF Loop
      <3>2. [a EXCEPT !.lower = IF same THEN 0 ELSE @] = [a EXCEPT !.lower = low]
        BY <3>1
      <3> QED
        BY <1>6, <3>1, <3>2 DEF Loop
    <2>4. SoundLoop(d, DownTo(c, v, same), atTop')
      BY <1>2, <1>4, <2>2, <2>3, NormalizedNumbers DEF SoundLoop, Loop
    <2> QED
      BY <2>1, <2>3, <2>4, BecomeIsSound
  <1> QED
    BY <1>7, <1>8

\* Above the target with the fewest workers.
LEMMA AboveMinimumIsSound ==
  ASSUME ControllerInv, SampleAboveMinimum
  PROVE  ControllerInv'
  <1>1. /\ Looping("run") /\ FellShort(FALSE)
        /\ Become(ResetPending(RestartCount(Missed)), workers)
    BY DEF SampleAboveMinimum
  <1>2. /\ ctl \in Loop /\ ctl.verdict = "none" /\ ctl.mode = "run"
        /\ SoundLoop(ctl, workers, atTop) /\ ctl.cfg \in ControllerConfig
        /\ ctl.samples < ctl.cfg.maxSamples /\ atTop' \in 0..ctl.cfg.required
    BY <1>1, LoopingNumbers, FellShortCounts DEF Looping, SoundLoop
  <1>3. PICK r \in Loop :
          /\ r = RestartCount(Missed) /\ r.inBand = 0 /\ r.samples = ctl.samples + 1
          /\ r.mode = "run" /\ r.cfg = ctl.cfg /\ r.verdict = "none" /\ r.ceiling = 0
          /\ r.lower = ctl.lower /\ r.upper = ctl.upper
    <2>1. /\ Missed \in Loop /\ Missed.inBand = 0 /\ Missed.samples = ctl.samples + 1
          /\ Missed.mode = "run" /\ Missed.cfg = ctl.cfg /\ Missed.verdict = "none"
          /\ Missed.lower = ctl.lower /\ Missed.upper = ctl.upper
      BY <1>2, MissedIs
    <2>2. PICK none \in Nat : none = 0
      OBVIOUS
    <2>3. RestartCount(Missed) = [Missed EXCEPT !.ceiling = none]
      BY <2>2 DEF RestartCount
    <2> QED
      BY <2>1, <2>2, <2>3 DEF Loop
  <1>4. PICK d \in Loop :
          /\ d = ResetPending(r) /\ d.inBand = 0 /\ d.samples = ctl.samples + 1
          /\ d.mode = "run" /\ d.cfg = ctl.cfg /\ d.verdict = "none" /\ d.ceiling = 0
          /\ d.lower = ctl.lower /\ d.upper = ctl.upper
    BY <1>3, ResetPendingIs DEF SameCounts
  <1>5. SoundLoop(d, workers, atTop')
    BY <1>2, <1>4, NormalizedNumbers DEF SoundLoop, Loop
  <1> QED
    BY <1>1, <1>3, <1>4, <1>5, BecomeIsSound

\* RunToMinimum only raises, up to the maximum.
LEMMA MinimumIsSound ==
  ASSUME ControllerInv, SampleMinimum
  PROVE  ControllerInv'
  <1>1. Looping("minimum") /\ atTop' = atTop
    BY DEF SampleMinimum
  <1>2. /\ ctl \in Loop /\ ctl.verdict = "none" /\ ctl.mode = "minimum"
        /\ SoundLoop(ctl, workers, atTop) /\ ctl.cfg \in ControllerConfig /\ workers \in Nat
        /\ ctl.inBand < ctl.cfg.required /\ atTop \in 0..ctl.cfg.required
    BY <1>1, LoopingNumbers DEF Looping, SoundLoop
  <1>3. /\ Taken \in Loop /\ Missed \in Loop /\ Missed.inBand = 0
        /\ Taken.inBand = ctl.inBand
        /\ \A c \in {Taken, Missed} :
             /\ c.mode = "minimum" /\ c.cfg = ctl.cfg /\ c.verdict = "none"
             /\ c.samples = ctl.samples /\ c.ceiling = ctl.ceiling
             /\ c.lower = ctl.lower /\ c.upper = ctl.upper
    BY <1>2, MissedIs
  <1>4. PICK v \in Readings \ {Unavailable} :
          \/ Become(Towards(Taken), workers)
          \/ Become([Missed EXCEPT !.verdict = "ceiling"], workers)
          \/ Become(Missed, Lesser(Cfg.max, workers + Adjustment(v)))
    BY DEF SampleMinimum
  <1>5. v \in Nat
    BY <1>2, ReadingsAreNumbers
  <1>6. CASE Become(Towards(Taken), workers)
    <2>1. PICK t \in Loop :
            /\ t = Towards(Taken) /\ t.inBand = ctl.inBand + 1 /\ t.ceiling = 0
            /\ t.verdict = IF ctl.inBand + 1 >= ctl.cfg.required THEN "reached" ELSE "none"
            /\ t.mode = "minimum" /\ t.cfg = ctl.cfg /\ t.samples = ctl.samples
            /\ t.lower = ctl.lower /\ t.upper = ctl.upper
      BY <1>2, <1>3, TowardsIs DEF Cfg
    <2>2. SoundLoop(t, workers, atTop')
      BY <1>1, <1>2, <2>1, NormalizedNumbers DEF SoundLoop, Loop
    <2> QED
      BY <1>6, <2>1, <2>2, BecomeIsSound
  <1>7. CASE Become([Missed EXCEPT !.verdict = "ceiling"], workers)
    <2>1. PICK d \in Loop :
            /\ d = [Missed EXCEPT !.verdict = "ceiling"] /\ d.verdict = "ceiling"
            /\ d.inBand = 0 /\ d.mode = "minimum" /\ d.cfg = ctl.cfg
            /\ d.samples = ctl.samples /\ d.ceiling = ctl.ceiling
            /\ d.lower = ctl.lower /\ d.upper = ctl.upper
      <3>1. [Missed EXCEPT !.verdict = "ceiling"] \in Loop
        BY <1>3 DEF Loop
      <3> QED
        BY <1>3, <3>1 DEF Loop
    <2>2. SoundLoop(d, workers, atTop')
      BY <1>1, <1>2, <2>1, NormalizedNumbers DEF SoundLoop, Loop
    <2> QED
      BY <1>7, <2>1, <2>2, BecomeIsSound
  <1>8. CASE Become(Missed, Lesser(Cfg.max, workers + Adjustment(v)))
    <2>1. PICK w \in ctl.cfg.min..ctl.cfg.max : w = Lesser(Cfg.max, workers + Adjustment(v))
      <3>1. Adjustment(v) \in Nat
        BY <1>2, <1>5, AdjustmentIsSome
      <3> QED
        BY <1>2, <3>1, NormalizedNumbers DEF SoundLoop, Cfg, Lesser
    <2>2. SoundLoop(Missed, w, atTop')
      BY <1>1, <1>2, <1>3, <2>1, NormalizedNumbers DEF SoundLoop, Loop
    <2> QED
      BY <1>3, <1>8, <2>1, <2>2, BecomeIsSound
  <1> QED
    BY <1>4, <1>6, <1>7, <1>8

\* A loop begins with the minimum, or fails.
LEMMA StartAndFailAreSound ==
  ASSUME ControllerInv,
         \/ \E mode \in {"run", "minimum"}, c \in ControllerConfig, gain \in Gain \cup {0} :
              StartController(mode, c, gain)
         \/ ControllerFails
  PROVE  ControllerInv'
  <1>1. ASSUME NEW mode \in {"run", "minimum"}, NEW c \in ControllerConfig,
               NEW gain \in Gain \cup {0}, StartController(mode, c, gain)
        PROVE  ControllerInv'
    <2>1. /\ atTop' = 0 /\ steady' = gain /\ workers' = c.min /\ ctl' = FreshLoad(mode, c)
      BY <1>1 DEF StartController, ControllerInv, Idle
    <2>2. /\ ctl' \in Loop /\ ctl'.mode = mode /\ ctl'.cfg = c /\ ctl'.verdict = "none"
          /\ ctl'.samples = 0 /\ ctl'.inBand = 0 /\ ctl'.ceiling = 0
          /\ ctl'.lower = 0 /\ ctl'.upper = 0
      BY <2>1, FreshIsIdle
    <2> QED
      BY <2>1, <2>2, NormalizedNumbers DEF ControllerInv, SoundLoop, Looping, Cfg
  <1>2. CASE ControllerFails
    <2>1. /\ Looping("run") \/ Looping("minimum")
          /\ ctl' = [ctl EXCEPT !.verdict = "failed"]
          /\ workers' = workers /\ steady' = steady /\ atTop' = atTop
      BY <1>2 DEF ControllerFails
    <2>2. /\ ctl \in Loop /\ SoundLoop(ctl, workers, atTop) /\ ctl.mode \in {"run", "minimum"}
      BY <2>1, LoopingNumbers
    <2>3. /\ ctl' \in Loop /\ ctl'.mode = ctl.mode /\ ctl'.cfg = ctl.cfg
          /\ ctl'.verdict = "failed" /\ ctl'.samples = ctl.samples
          /\ ctl'.inBand = ctl.inBand /\ ctl'.ceiling = ctl.ceiling
          /\ ctl'.lower = ctl.lower /\ ctl'.upper = ctl.upper
      BY <2>1, <2>2 DEF Loop
    <2> QED
      BY <2>1, <2>2, <2>3 DEF ControllerInv, SoundLoop, Looping
  <1> QED
    BY <1>1, <1>2

\* A state of the invariant has the target within its bounds, and a ceiling
\* that was earned.
LEMMA ControllerInvIsSafe ==
  ASSUME ControllerInv
  PROVE  ControllerTypeOK /\ CeilingIsEarned
  <1>1. CASE Idle
    BY <1>1, NormalizedNumbers
       DEF Idle, Loop, ControllerInv, ControllerTypeOK, CeilingIsEarned, Cfg
  <1>2. CASE SoundLoop(ctl, workers, atTop)
    <2>1. ctl.cfg \in ControllerConfig
      BY <1>2 DEF SoundLoop, Loop
    <2>2. ControllerTypeOK
      BY <1>2, <2>1, NormalizedNumbers DEF SoundLoop, Loop, ControllerInv, ControllerTypeOK, Cfg
    <2>3. CeilingIsEarned
      BY <1>2, <2>1, NormalizedNumbers DEF SoundLoop, Loop, CeilingIsEarned, Cfg
    <2> QED
      BY <2>2, <2>3
  <1> QED
    BY <1>1, <1>2 DEF ControllerInv

\* Every state of the controller satisfies the invariant.
LEMMA ControllerStaysSound == ControllerSpec => []ControllerInv
  <1>1. ControllerInit => ControllerInv
    <2> SUFFICES ASSUME ControllerInit
                 PROVE  ControllerInv
      OBVIOUS
    <2>1. PICK c \in ControllerConfig : ctl = FreshLoad("off", c)
      BY LoadControllerConstants DEF ControllerInit
    <2>2. Idle /\ steady = 0
      BY <2>1, FreshIsIdle DEF ControllerInit, Idle
    <2> QED
      BY <2>2 DEF ControllerInv
  <1>2. ControllerInv /\ [ControllerNext]_controllerVars => ControllerInv'
    <2>1. ASSUME ControllerInv, ControllerNext
          PROVE  ControllerInv'
      BY <2>1, UnavailableIsSound, InBandIsSound, BelowIsSound, AboveIsSound,
         AboveMinimumIsSound, MinimumIsSound, StartAndFailAreSound
         DEF ControllerNext, ControllerSample
    <2>2. ASSUME ControllerInv, UNCHANGED controllerVars
          PROVE  ControllerInv'
      BY <2>2 DEF controllerVars, ControllerInv, Idle, SoundLoop, Looping, Cfg
    <2> QED
      BY <2>1, <2>2
  <1> QED
    BY <1>1, <1>2, PTL DEF ControllerSpec

\* Whatever is measured, the target of the actuator stays in its bounds and the
\* verdict "ceiling" follows RequiredSamples samples in a row that fell short
\* with MaxWorkers.
THEOREM CeilingIsTrusted == ControllerSpec => [](ControllerTypeOK /\ CeilingIsEarned)
  <1>1. ControllerInv => ControllerTypeOK /\ CeilingIsEarned
    BY ControllerInvIsSafe
  <1> QED
    BY <1>1, ControllerStaysSound, PTL

\* More workers yield no less.
LEMMA YieldGrows ==
  ASSUME NEW n \in Nat, NEW m \in Nat, n <= m, steady \in Nat, TopValue \in Nat
  PROVE  Yield(n) \in Nat /\ Yield(m) \in Nat /\ Yield(n) <= Yield(m)
  <1>1. n * steady \in Nat /\ m * steady \in Nat /\ n * steady <= m * steady
    BY ProductGrows
  <1> QED
    BY <1>1 DEF Yield, Lesser

\* What falls short with MaxWorkers is out of the reach of any number of workers.
LEMMA ShortIsOutOfReach ==
  ASSUME ctl.cfg \in ControllerConfig, steady \in Nat, ctl.mode = "run",
         Yield(ctl.cfg.max) < ctl.cfg.target, ~InBand(Yield(ctl.cfg.max)),
         Yield(ctl.cfg.max) # Unavailable
  PROVE  ~InReach
  <1> SUFFICES ASSUME InReach PROVE FALSE
    OBVIOUS
  <1>1. PICK n \in ctl.cfg.min..ctl.cfg.max : Distance(Yield(n), ctl.cfg.target) <= ctl.cfg.tolerance
    BY DEF InReach, Cfg
  <1>2. PICK low \in Nat, max \in Nat, target \in Nat, tolerance \in Nat :
          /\ low = ctl.cfg.min /\ max = ctl.cfg.max
          /\ target = ctl.cfg.target /\ tolerance = ctl.cfg.tolerance
    BY NormalizedNumbers
  <1>3. PICK k \in Nat : k = n /\ k <= max
    BY <1>1, <1>2
  <1>4. Yield(k) \in Nat /\ Yield(max) \in Nat /\ Yield(k) <= Yield(max)
    BY <1>2, <1>3, YieldGrows, LoadControllerConstants
  <1>5. PICK x \in Nat, y \in Nat : x = Yield(k) /\ y = Yield(max) /\ x <= y
    BY <1>4
  <1>6. y < target /\ ~(Distance(y, target) <= tolerance)
    BY <1>2, <1>5 DEF InBand, Cfg
  <1>7. Distance(x, target) <= tolerance
    BY <1>1, <1>2, <1>3, <1>5
  <1> QED
    BY <1>5, <1>6, <1>7 DEF Distance

\* RunToMinimum gives up only when MaxWorkers yield too little, and counts no samples.
LEMMA MinimumIsNotRefused ==
  ASSUME ControllerInv, SampleMinimum, steady # 0, InReach
  PROVE  ctl'.verdict \in {"none", "reached"}
  <1>1. /\ ctl \in Loop /\ ctl.verdict = "none" /\ ctl.mode = "minimum"
        /\ ctl.cfg \in ControllerConfig /\ workers \in ctl.cfg.min..ctl.cfg.max
    BY LoopingNumbers DEF SampleMinimum, Looping, SoundLoop
  <1>2. /\ Taken \in Loop /\ Taken.mode = "minimum" /\ Taken.cfg = ctl.cfg
        /\ Taken.verdict = "none" /\ Missed.mode = "minimum" /\ Missed.verdict = "none"
    BY <1>1, MissedIs
  <1>3. PICK v \in Readings \ {Unavailable} :
          CASE v >= Cfg.target -> Become(Towards(Taken), workers)
            [] v < Cfg.target /\ workers >= Cfg.max ->
                 Become([Missed EXCEPT !.verdict = "ceiling"], workers)
            [] OTHER -> Become(Missed, Lesser(Cfg.max, workers + Adjustment(v)))
    BY DEF SampleMinimum
  <1>4. v = Yield(workers)
    BY <1>3 DEF Readings, Yield
  <1>5. ~(v < Cfg.target /\ workers >= Cfg.max)
    <2>1. workers >= Cfg.max => workers = Cfg.max
      BY <1>1, NormalizedNumbers DEF Cfg
    <2>2. Yield(Cfg.max) >= Cfg.target
      BY <1>1 DEF InReach
    <2>3. Yield(Cfg.max) \in Nat /\ Cfg.target \in Nat
      BY <1>1, NormalizedNumbers, YieldGrows, LoadControllerConstants DEF ControllerInv, Cfg
    <2> QED
      BY <1>4, <2>1, <2>2, <2>3
  <1>6. \/ Become(Towards(Taken), workers)
        \/ Become(Missed, Lesser(Cfg.max, workers + Adjustment(v)))
    BY <1>3, <1>5
  <1>7. CASE Become(Towards(Taken), workers)
    <2>1. /\ Towards(Taken).mode = "minimum"
          /\ Towards(Taken).verdict \in {"none", "reached"}
      BY <1>1, <1>2, TowardsIs
    <2> QED
      BY <1>7, <2>1 DEF Become, Exhaust
  <1>8. CASE Become(Missed, Lesser(Cfg.max, workers + Adjustment(v)))
    BY <1>2, <1>8 DEF Become, Exhaust
  <1> QED
    BY <1>6, <1>7, <1>8

\* A step of Run that ends at the ceiling has seen MaxWorkers fall short.
LEMMA CeilingIsSeen ==
  ASSUME ControllerInv, CeilingIsEarned', ControllerNext,
         steady # 0, ctl.mode = "run", ctl'.mode = "run", ctl'.cfg = ctl.cfg,
         ctl.verdict = "none", ctl'.verdict = "ceiling"
  PROVE  ~InReach
  <1>1. /\ ctl \in Loop /\ ctl.cfg \in ControllerConfig
        /\ workers \in ctl.cfg.min..ctl.cfg.max /\ atTop \in Nat
    BY LoopingNumbers DEF Looping, SoundLoop
  <1>2. atTop' >= ctl.cfg.required /\ ctl.cfg.required \in Nat /\ ctl.cfg.required > 0
    BY <1>1, NormalizedNumbers DEF CeilingIsEarned, Cfg
  <1>3. ~FellShort(FALSE)
    BY <1>2 DEF FellShort
  <1>4. SampleUnavailable \/ SampleBelow
    BY <1>3 DEF ControllerNext, ControllerSample, StartController, ControllerFails,
       SampleInBand, SampleAbove, SampleAboveMinimum, SampleMinimum, Looping
  <1>5. FellShort(TRUE)
    BY <1>4 DEF SampleUnavailable, SampleBelow
  <1>6. workers = ctl.cfg.max
    BY <1>2, <1>5 DEF FellShort, Cfg
  <1>7. Readings = {Yield(ctl.cfg.max)} /\ steady \in Nat
    BY <1>6, LoadControllerConstants DEF Readings, Yield, ControllerInv
  <1>8. Yield(ctl.cfg.max) \in Nat /\ Yield(ctl.cfg.max) <= TopValue
    BY <1>1, <1>7, NormalizedNumbers, YieldGrows, LoadControllerConstants DEF Yield, Lesser
  <1>9. Yield(ctl.cfg.max) # Unavailable
    BY <1>8, LoadControllerConstants DEF Unavailable
  <1>10. SampleBelow
    BY <1>4, <1>7, <1>9 DEF SampleUnavailable
  <1>11. Yield(ctl.cfg.max) < ctl.cfg.target /\ ~InBand(Yield(ctl.cfg.max))
    BY <1>7, <1>10 DEF SampleBelow, Cfg
  <1> QED
    BY <1>1, <1>7, <1>9, <1>11, ShortIsOutOfReach

\* c is a state of the loop that runs now.
SameLoop(c) ==
  "mode" \in DOMAIN c /\ "cfg" \in DOMAIN c /\ c.mode = ctl.mode /\ c.cfg = ctl.cfg

\* What the loop does with a sample leaves its mode and configuration alone.
LEMMA ChangedIsSame ==
  ASSUME NEW c, SameLoop(c), NEW field,
         field \in {"verdict", "samples", "inBand", "ceiling", "lower", "upper",
                    "direction", "pending"},
         NEW value
  PROVE  SameLoop([c EXCEPT ![field] = value])
  BY DEF SameLoop

LEMMA TakenIsSame ==
  ASSUME ctl \in Loop
  PROVE  SameLoop(ctl) /\ SameLoop(Taken) /\ SameLoop(Missed)
  <1>1. SameLoop(ctl)
    BY DEF SameLoop, Loop
  <1>2. SameLoop(Taken)
    BY <1>1 DEF Taken, SameLoop
  <1> QED
    BY <1>1, <1>2 DEF Missed, SameLoop

LEMMA CountedIsSame ==
  ASSUME NEW c, SameLoop(c)
  PROVE  /\ SameLoop(ResetPending(c)) /\ SameLoop(AtCeiling(c)) /\ SameLoop(Towards(c))
         /\ SameLoop(RestartCount(c)) /\ SameLoop(Exhaust(c))
         /\ \A direction : SameLoop(Ask(c, direction))
  <1>1. SameLoop(ResetPending(c))
    BY DEF ResetPending, SameLoop
  <1>2. SameLoop(AtCeiling(c))
    BY DEF AtCeiling, SameLoop
  <1>3. SameLoop(Towards(c))
    BY DEF Towards, SameLoop
  <1>4. SameLoop(RestartCount(c))
    BY DEF RestartCount, SameLoop
  <1>5. SameLoop(Exhaust(c))
    BY DEF Exhaust, SameLoop
  <1>6. ASSUME NEW direction
        PROVE  SameLoop(Ask(c, direction))
    BY <1>1 DEF Ask, SameLoop
  <1> QED
    BY <1>1, <1>2, <1>3, <1>4, <1>5, <1>6

\* A step leaves what the loop is asked for alone, unless it starts it.
LEMMA SameQuestion ==
  ASSUME ControllerInv, ControllerSample \/ ControllerFails
  PROVE  /\ ctl'.mode = ctl.mode /\ ctl'.cfg = ctl.cfg /\ steady' = steady
         /\ ctl.verdict = "none" /\ ctl.mode \in {"run", "minimum"}
         /\ InReach' = InReach
  <1>1. Looping("run") \/ Looping("minimum")
    BY DEF ControllerSample, ControllerFails, SampleUnavailable, SampleInBand, SampleBelow,
       SampleAbove, SampleAboveMinimum, SampleMinimum
  <1>2. ctl \in Loop
    BY <1>1, LoopingNumbers
  <1>3. SameLoop(ctl) /\ SameLoop(Taken) /\ SameLoop(Missed)
    BY <1>2, TakenIsSame
  <1>4. CASE ControllerFails
    <2>1. ctl' = [ctl EXCEPT !.verdict = "failed"] /\ steady' = steady
      BY <1>4 DEF ControllerFails
    <2>2. SameLoop(ctl')
      BY <1>3, <2>1 DEF SameLoop
    <2> QED
      BY <1>1, <2>1, <2>2 DEF SameLoop, Looping, InReach, Yield, Cfg
  <1>5. CASE ControllerSample
    <2>1. \E c, w : SameLoop(c) /\ Become(c, w)
      <3>1. CASE SampleUnavailable
        <4>1. SameLoop(ResetPending(Missed))
          BY <1>3, CountedIsSame
        <4>2. /\ SameLoop(AtCeiling(ResetPending(Missed)))
              /\ SameLoop([ResetPending(Missed) EXCEPT !.ceiling = 0])
          BY <4>1, CountedIsSame DEF SameLoop
        <4> QED
          BY <3>1, <4>2 DEF SampleUnavailable
      <3>2. CASE SampleInBand
        <4>1. SameLoop(Towards(Taken))
          BY <1>3, CountedIsSame
        <4>2. SameLoop(ResetPending(Towards(Taken)))
          BY <4>1, CountedIsSame
        <4> QED
          BY <3>2, <4>2 DEF SampleInBand
      <3>3. CASE SampleBelow
        <4> DEFINE c == [Missed EXCEPT !.upper = IF workers > @ THEN 0 ELSE @,
                                       !.lower = IF workers > @ THEN workers ELSE @]
                   same == workers = ctl.upper
        <4>1. PICK v \in Readings \ {Unavailable} :
                IF workers >= Cfg.max THEN Become(AtCeiling(ResetPending(c)), workers)
                ELSE IF ~Confirmed("up") THEN Become(Ask(c, "up"), workers)
                ELSE Become([Ask(c, "up") EXCEPT !.ceiling = 0,
                                                 !.upper = IF same THEN 0 ELSE @],
                            UpTo(c, v, same))
          BY <3>3, Zenon DEF SampleBelow
        <4>2. SameLoop(c)
          BY <1>3 DEF SameLoop
        <4> HIDE DEF c, same
        <4>3. SameLoop(ResetPending(c)) /\ SameLoop(Ask(c, "up"))
          BY <4>2, CountedIsSame
        <4>4. SameLoop(AtCeiling(ResetPending(c)))
          BY <4>3, CountedIsSame
        <4>5. SameLoop([Ask(c, "up") EXCEPT !.ceiling = 0, !.upper = IF same THEN 0 ELSE @])
          BY <4>3 DEF SameLoop
        <4> QED
          BY <4>1, <4>3, <4>4, <4>5, Zenon
      <3>4. CASE SampleAbove
        <4> DEFINE c == [RestartCount(Missed) EXCEPT
                           !.lower = IF workers < @ THEN 0 ELSE @,
                           !.upper = IF @ = 0 \/ workers < @ THEN workers ELSE @]
                   same == workers = ctl.lower
        <4>1. PICK v \in Readings \ {Unavailable} :
                IF ~Confirmed("down") THEN Become(Ask(c, "down"), workers)
                ELSE Become([Ask(c, "down") EXCEPT !.lower = IF same THEN 0 ELSE @],
                            DownTo(c, v, same))
          BY <3>4, Zenon DEF SampleAbove
        <4>2. SameLoop(c)
          <5>1. SameLoop(RestartCount(Missed))
            BY <1>3, CountedIsSame
          <5> QED
            BY <5>1 DEF SameLoop
        <4> HIDE DEF c, same
        <4>3. SameLoop(Ask(c, "down"))
          BY <4>2, CountedIsSame
        <4>4. SameLoop([Ask(c, "down") EXCEPT !.lower = IF same THEN 0 ELSE @])
          BY <4>3 DEF SameLoop
        <4> QED
          BY <4>1, <4>3, <4>4, Zenon
      <3>5. CASE SampleAboveMinimum
        <4>1. SameLoop(RestartCount(Missed))
          BY <1>3, CountedIsSame
        <4>2. SameLoop(ResetPending(RestartCount(Missed)))
          BY <4>1, CountedIsSame
        <4> QED
          BY <3>5, <4>2 DEF SampleAboveMinimum
      <3>6. CASE SampleMinimum
        <4>1. SameLoop(Towards(Taken)) /\ SameLoop([Missed EXCEPT !.verdict = "ceiling"])
          BY <1>3, CountedIsSame DEF SameLoop
        <4>2. PICK v \in Readings \ {Unavailable} :
                \/ Become(Towards(Taken), workers)
                \/ Become([Missed EXCEPT !.verdict = "ceiling"], workers)
                \/ Become(Missed, Lesser(Cfg.max, workers + Adjustment(v)))
          BY <3>6 DEF SampleMinimum
        <4> QED
          BY <1>3, <4>1, <4>2, Zenon
      <3> QED
        BY <1>5, <3>1, <3>2, <3>3, <3>4, <3>5, <3>6 DEF ControllerSample
    <2>2. PICK c, w : SameLoop(c) /\ Become(c, w)
      BY <2>1
    <2>3. SameLoop(ctl') /\ steady' = steady
      BY <2>2, CountedIsSame DEF Become
    <2> QED
      BY <1>1, <2>3 DEF SameLoop, Looping, InReach, Yield, Cfg
  <1> QED
    BY <1>4, <1>5

\* No step refuses a steady system that can be brought to its target.
LEMMA NoStepRefuses ==
  ASSUME ControllerInv, CeilingIsEarned', SteadyIsNotRefused, ControllerNext
  PROVE  SteadyIsNotRefused'
  <1>1. ASSUME NEW mode \in {"run", "minimum"}, NEW c \in ControllerConfig,
               NEW gain \in Gain \cup {0}, StartController(mode, c, gain)
        PROVE  SteadyIsNotRefused'
    <2>1. ctl' = FreshLoad(mode, c)
      BY <1>1 DEF StartController
    <2>2. ctl'.verdict = "none"
      BY <2>1, FreshIsIdle
    <2> QED
      BY <2>2 DEF SteadyIsNotRefused
  <1>2. CASE ControllerSample \/ ControllerFails
    <2> SUFFICES ASSUME steady' # 0, InReach',
                        \/ ctl'.verdict = "ceiling"
                        \/ ctl'.mode = "minimum" /\ ctl'.verdict = "exhausted"
                 PROVE  FALSE
      BY DEF SteadyIsNotRefused
    <2>1. /\ ctl'.mode = ctl.mode /\ ctl'.cfg = ctl.cfg /\ steady # 0 /\ InReach
          /\ ctl.verdict = "none" /\ ctl.mode \in {"run", "minimum"}
      BY <1>2, SameQuestion
    <2>2. ~ControllerFails
      BY <2>1 DEF ControllerFails
    <2>3. CASE ctl.mode = "run"
      BY <2>1, <2>3, CeilingIsSeen
    <2>4. CASE ctl.mode = "minimum"
      <3>1. SampleMinimum
        BY <1>2, <2>2, <2>4 DEF ControllerSample, SampleUnavailable, SampleInBand, SampleBelow,
           SampleAbove, SampleAboveMinimum, Looping
      <3> QED
        BY <2>1, <3>1, MinimumIsNotRefused
    <2> QED
      BY <2>1, <2>3, <2>4
  <1> QED
    BY <1>1, <1>2 DEF ControllerNext

\* The controller never gives up on a steady system that some number of workers
\* brings to its target: Run's verdict is not "ceiling", and RunToMinimum, which has no
\* limit of samples, ends with no other verdict than "reached".
THEOREM SteadyIsNeverRefused == ControllerSpec => []SteadyIsNotRefused
  <1>1. ControllerInit => SteadyIsNotRefused
    BY DEF ControllerInit, SteadyIsNotRefused
  <1>2. /\ ControllerInv /\ CeilingIsEarned' /\ SteadyIsNotRefused
        /\ [ControllerNext]_controllerVars
        => SteadyIsNotRefused'
    <2>1. ASSUME UNCHANGED controllerVars, SteadyIsNotRefused
          PROVE  SteadyIsNotRefused'
      BY <2>1 DEF controllerVars, SteadyIsNotRefused, InReach, Yield, Cfg
    <2> QED
      BY <2>1, NoStepRefuses
  <1> QED
    BY <1>1, <1>2, ControllerStaysSound, CeilingIsTrusted, PTL DEF ControllerSpec

-----------------------------------------------------------------------------
(* The calibration of work_mem (WorkMemCalibration).                         *)

\* The values of the state: a reading, and the search.
Observation == [range : 0..MaxRange, used : Nat, spilled : BOOLEAN]
Search == [pc : {"open", "probe", "judge", "fallback", "done", "failed"},
           target : Nat \ {0}, slope : (Nat \ {0}) \X (Nat \ {0}), step : Nat \ {0},
           low : 1..(MaxRange + 1), high : 0..MaxRange, bracketed : BOOLEAN,
           candidate : 1..MaxRange, attempt : 0..MaxAttempts, last : Observation,
           below : Observation, above : Observation, met : BOOLEAN,
           seen : SUBSET (1..MaxRange)]

Outside(r) == r < cal.low \/ r > cal.high

\* What lies outside of low..high would not meet the band.
Excluded ==
  /\ \A r \in 1..MaxRange : r < cal.low => Memory(r) < LowerKB
  /\ \A r \in 1..MaxRange : r > cal.high => Memory(r) > UpperKB
  /\ ~cal.bracketed => cal.high = MaxRange

\* A reading that was kept is a true one.
True(o) ==
  IF o.range = 0 THEN o.used = 0 ELSE ~o.spilled /\ o.used = Memory(o.range)

\* No reading in rs that was too low was nearer to the band than the one kept.
Nearest(rs) == \A r \in rs : Memory(r) < LowerKB => Memory(r) <= cal.below.used

\* What each step of the search rests on.
Steps ==
  /\ cal.pc = "open" =>
       /\ cal.seen = {} /\ cal.low = 1 /\ cal.high = MaxRange /\ ~cal.bracketed
       /\ cal.below.range = 0 /\ cal.above.range = 0
       /\ cal.below.used = 0 /\ cal.above.used = 0
  /\ cal.pc \in {"probe", "judge"} => cal.low <= cal.candidate /\ cal.candidate <= cal.high
  /\ cal.pc \in {"probe", "fallback"} => Nearest(cal.seen)
  /\ cal.pc = "probe" => \A r \in cal.seen : Outside(r)
  /\ cal.pc = "judge" =>
       /\ cal.candidate \in cal.seen /\ ObserveBand(cal.last)
       /\ Nearest(cal.seen \ {cal.candidate})
       /\ \A r \in cal.seen \ {cal.candidate} : Outside(r)
  /\ cal.met => cal.pc = "done"
  /\ cal.pc \in {"fallback", "done"} /\ ~cal.met /\ cal.attempt < MaxAttempts =>
       \A r \in 1..MaxRange : Outside(r)

\* The inductive invariant of the calibration.
CalibrationInv ==
  /\ cal \in Search /\ Excluded /\ True(cal.below) /\ True(cal.above)
  /\ Steps /\ CalibrationUsable

\* An operator takes some memory, and no less for more rows.
LEMMA MemoryGrows ==
  ASSUME cal \in Search, NEW r \in Nat, NEW s \in Nat, r <= s
  PROVE  /\ Memory(r) \in Nat /\ Memory(s) \in Nat /\ Memory(r) > 0
         /\ Memory(r) <= Memory(s)
  <1>1. PICK kb \in Nat \ {0}, per \in Nat \ {0}, step \in Nat \ {0} :
          cal.slope[1] = kb /\ cal.slope[2] = per /\ cal.step = step
    BY DEF Search
  <1>2. r * kb \in Nat /\ s * kb \in Nat /\ r * kb <= s * kb
    BY ProductGrows
  <1>3. PICK a \in Nat, b \in Nat : a = (r * kb) \div per /\ b = (s * kb) \div per /\ a <= b
    BY <1>2, QuotientBounds, QuotientGrows
  <1>4. PICK p \in Nat, q \in Nat : p = a \div step /\ q = b \div step /\ p <= q
    BY <1>3, QuotientBounds, QuotientGrows
  <1>5. Memory(r) = (p + 1) * step /\ Memory(s) = (q + 1) * step
    BY <1>1, <1>3, <1>4 DEF Memory
  <1>6. /\ (p + 1) * step <= (q + 1) * step /\ (p + 1) * step \in Nat
        /\ (q + 1) * step \in Nat /\ (0 + 1) * step <= (p + 1) * step
    BY <1>4, ProductGrows
  <1> QED
    BY <1>5, <1>6

\* The band lies within work_mem.
LEMMA BandWithin ==
  ASSUME cal \in Search
  PROVE  /\ LowerKB \in Nat /\ UpperKB \in Nat /\ cal.target \in Nat
         /\ LowerKB <= UpperKB /\ UpperKB <= cal.target
  <1>1. PICK t \in Nat \ {0} : t = cal.target
    BY DEF Search
  <1>2. /\ (t * 70 + 99) \div 100 \in Nat /\ (t * 97) \div 100 \in Nat
        /\ (t * 70 + 99) \div 100 <= t /\ (t * 97) \div 100 <= t
    OBVIOUS
  <1> QED
    BY <1>1, <1>2 DEF LowerKB, UpperKB, AtLeast

\* Before its start the search knows nothing.
LEMMA CalibrationInvInit ==
  ASSUME CalibrationInit
  PROVE  CalibrationInv
  <1>1. /\ MaxRange \in Nat /\ MaxRange >= 1 /\ 1 \in 1..(MaxRange + 1) /\ 1 \in 1..MaxRange
        /\ MaxRange \in 0..MaxRange /\ 0 \in 0..MaxAttempts /\ 0 \in 0..MaxRange
        /\ 1 \in Nat \ {0} /\ 0 \in Nat
    BY CalibrationConstants
  <1>2. NoReading \in Observation /\ NoReading.range = 0 /\ NoReading.used = 0
    BY <1>1 DEF NoReading, Observation
  <1>3. <<1, 1>> \in (Nat \ {0}) \X (Nat \ {0})
    BY <1>1
  <1>4. cal \in Search
    BY <1>1, <1>2, <1>3 DEF CalibrationInit, Search
  <1>5. /\ cal.pc = "open" /\ cal.low = 1 /\ cal.high = MaxRange /\ cal.bracketed = FALSE
        /\ cal.below = NoReading /\ cal.above = NoReading /\ cal.met = FALSE /\ cal.seen = {}
    BY DEF CalibrationInit
  <1> QED
    BY <1>1, <1>2, <1>4, <1>5 DEF CalibrationInv, Excluded, True, Steps, CalibrationUsable

\* A search that goes on works on the same system.
LEMMA SameSystem ==
  ASSUME cal'.target = cal.target, cal'.slope = cal.slope, cal'.step = cal.step
  PROVE  /\ LowerKB' = LowerKB /\ UpperKB' = UpperKB
         /\ \A r : Memory(r)' = Memory(r)
  BY DEF LowerKB, UpperKB, AtLeast, Memory

\* The search starts, or fails.
LEMMA StartAndFailKeepCalibration ==
  ASSUME CalibrationInv,
         \/ \E target \in Target, kind \in DOMAIN Divisor, slope \in Slope, step \in Step :
              StartCalibration(target, kind, slope, step)
         \/ CalibrationFails
  PROVE  CalibrationInv'
  <1>1. /\ cal \in Search /\ MaxRange \in Nat /\ MaxRange >= 1
    BY CalibrationConstants DEF CalibrationInv
  <1>2. ASSUME NEW target \in Target, NEW kind \in DOMAIN Divisor, NEW slope \in Slope,
               NEW step \in Step, StartCalibration(target, kind, slope, step)
        PROVE  CalibrationInv'
    <2>1. /\ target \in Nat \ {0} /\ slope \in (Nat \ {0}) \X (Nat \ {0})
          /\ step \in Nat \ {0} /\ Divisor[kind] \in Nat \ {0}
      BY CalibrationConstants
    <2>2. FirstRange(target, kind) \in 1..MaxRange
      <3>1. target \div Divisor[kind] \in Nat
        BY <2>1, QuotientBounds
      <3> QED
        BY <1>1, <3>1 DEF FirstRange, AtMost, AtLeast
    <2>3. /\ cal.pc = "open"
          /\ cal' = [cal EXCEPT !.pc = "probe", !.target = target, !.slope = slope,
                                !.step = step, !.candidate = FirstRange(target, kind)]
      BY <1>2 DEF StartCalibration
    <2>4. /\ cal' \in Search /\ cal'.pc = "probe" /\ cal'.candidate \in 1..MaxRange
          /\ cal'.low = cal.low /\ cal'.high = cal.high /\ cal'.bracketed = cal.bracketed
          /\ cal'.below = cal.below /\ cal'.above = cal.above /\ cal'.met = cal.met
          /\ cal'.seen = cal.seen
      BY <1>1, <2>1, <2>2, <2>3 DEF Search
    <2>5. /\ cal.seen = {} /\ cal.low = 1 /\ cal.high = MaxRange /\ ~cal.bracketed
          /\ cal.below.range = 0 /\ cal.above.range = 0
          /\ cal.below.used = 0 /\ cal.above.used = 0 /\ ~cal.met
      BY <2>3 DEF CalibrationInv, Steps
    <2>6. Excluded' /\ True(cal.below)' /\ True(cal.above)' /\ CalibrationUsable'
      BY <1>1, <2>4, <2>5 DEF Excluded, True, CalibrationUsable
    <2>7. Steps'
      BY <1>1, <2>4, <2>5 DEF Steps, Nearest, Outside
    <2> QED
      BY <2>4, <2>6, <2>7 DEF CalibrationInv
  <1>3. CASE CalibrationFails
    <2>1. cal' = [cal EXCEPT !.pc = "failed"] /\ cal.pc \in {"open", "probe"}
      BY <1>3 DEF CalibrationFails
    <2>2. /\ cal' \in Search /\ cal'.pc = "failed"
          /\ cal'.low = cal.low /\ cal'.high = cal.high /\ cal'.bracketed = cal.bracketed
          /\ cal'.below = cal.below /\ cal'.above = cal.above /\ cal'.met = cal.met
          /\ cal'.target = cal.target /\ cal'.slope = cal.slope /\ cal'.step = cal.step
      BY <1>1, <2>1 DEF Search
    <2>3. ~cal.met
      BY <2>1 DEF CalibrationInv, Steps
    <2> QED
      BY <2>2, <2>3, SameSystem DEF CalibrationInv, Excluded, True, Steps, CalibrationUsable
  <1> QED
    BY <1>2, <1>3

\* A reading is taken of a number of rows that was not tried before.
LEMMA ProbeKeepsCalibration ==
  ASSUME CalibrationInv, Probe
  PROVE  CalibrationInv'
  <1>1. cal \in Search /\ cal.pc = "probe" /\ cal.attempt < MaxAttempts
        /\ MaxAttempts \in Nat /\ MaxRange \in Nat
    BY CalibrationConstants DEF CalibrationInv, Probe
  <1>2. cal.candidate \in 1..MaxRange /\ cal.candidate \in 0..MaxRange
    BY <1>1 DEF Search
  <1>3. Memory(cal.candidate) \in Nat /\ cal.target \in Nat
    BY <1>1, <1>2, MemoryGrows, BandWithin
  <1>4. PICK used \in Nat, spilled \in BOOLEAN :
          LET r == [range |-> cal.candidate, used |-> used, spilled |-> spilled]
          IN  /\ ObserveBand(r)
              /\ cal' = [cal EXCEPT !.pc = "judge", !.attempt = @ + 1, !.last = r,
                                    !.seen = @ \cup {cal.candidate}]
    BY <1>3 DEF Probe
  <1>5. PICK r \in Observation, n \in 0..MaxAttempts, seen \in SUBSET (1..MaxRange) :
          /\ ObserveBand(r) /\ n = cal.attempt + 1 /\ seen = cal.seen \cup {cal.candidate}
          /\ cal' = [cal EXCEPT !.pc = "judge", !.attempt = n, !.last = r, !.seen = seen]
    <2>1. [range |-> cal.candidate, used |-> used, spilled |-> spilled] \in Observation
      BY <1>2, <1>4 DEF Observation
    <2>2. cal.attempt + 1 \in 0..MaxAttempts
      BY <1>1 DEF Search
    <2>3. cal.seen \cup {cal.candidate} \in SUBSET (1..MaxRange)
      BY <1>1, <1>2 DEF Search
    <2> QED
      BY <1>4, <2>1, <2>2, <2>3
  <1>6. /\ cal' \in Search /\ cal'.pc = "judge" /\ cal'.last = r /\ cal'.seen = seen
        /\ cal'.candidate = cal.candidate
        /\ cal'.low = cal.low /\ cal'.high = cal.high /\ cal'.bracketed = cal.bracketed
        /\ cal'.below = cal.below /\ cal'.above = cal.above /\ cal'.met = cal.met
        /\ cal'.target = cal.target /\ cal'.slope = cal.slope /\ cal'.step = cal.step
    BY <1>1, <1>5 DEF Search
  <1>7. /\ LowerKB' = LowerKB /\ UpperKB' = UpperKB /\ \A x : Memory(x)' = Memory(x)
    BY <1>6, SameSystem
  <1>8. Excluded' /\ True(cal.below)' /\ True(cal.above)' /\ CalibrationUsable'
    BY <1>6, <1>7 DEF CalibrationInv, Excluded, True, CalibrationUsable
  <1>9. ObserveBand(cal.last)'
    BY <1>5, <1>6, <1>7 DEF ObserveBand
  <1>10. Steps'
    BY <1>1, <1>5, <1>6, <1>7, <1>9 DEF CalibrationInv, Steps, Nearest, Outside
  <1> QED
    BY <1>6, <1>8, <1>10 DEF CalibrationInv

\* A reading within the band ends the search.
LEMMA AcceptKeepsCalibration ==
  ASSUME CalibrationInv, Accept
  PROVE  CalibrationInv'
  <1>1. cal \in Search /\ cal.pc = "judge" /\ InTarget(cal.last) /\ ObserveBand(cal.last)
    BY DEF CalibrationInv, Steps, Accept
  <1>2. /\ cal' \in Search /\ cal'.pc = "done" /\ cal'.met = TRUE /\ cal'.last = cal.last
        /\ cal'.low = cal.low /\ cal'.high = cal.high /\ cal'.bracketed = cal.bracketed
        /\ cal'.below = cal.below /\ cal'.above = cal.above
        /\ cal'.target = cal.target /\ cal'.slope = cal.slope /\ cal'.step = cal.step
    <2>1. PICK b \in BOOLEAN : b = TRUE
      OBVIOUS
    <2>2. cal' = [cal EXCEPT !.pc = "done", !.met = b]
      BY <2>1, Zenon DEF Accept
    <2> QED
      BY <1>1, <2>1, <2>2 DEF Search
  <1>3. /\ LowerKB' = LowerKB /\ UpperKB' = UpperKB /\ \A x : Memory(x)' = Memory(x)
    BY <1>2, SameSystem
  <1>4. ~cal.last.spilled /\ cal.last.used = Memory(cal.last.range)
    BY <1>1 DEF InTarget, ObserveBand
  <1> QED
    BY <1>2, <1>3, <1>4 DEF CalibrationInv, Excluded, True, Steps, CalibrationUsable

\* A reading that missed the band narrows the search on its side.
LEMMA NarrowKeepsCalibration ==
  ASSUME CalibrationInv, Narrow
  PROVE  CalibrationInv'
  <1>1. /\ cal \in Search /\ cal.pc = "judge" /\ ~InTarget(cal.last) /\ ObserveBand(cal.last)
        /\ cal.candidate \in 1..MaxRange /\ cal.low \in 1..(MaxRange + 1)
        /\ cal.high \in 0..MaxRange /\ cal.bracketed \in BOOLEAN /\ cal.last \in Observation
        /\ cal.below \in Observation /\ cal.above \in Observation
        /\ cal.low <= cal.candidate /\ cal.candidate <= cal.high
        /\ MaxRange \in Nat /\ MaxRange >= 1
    <2>1. cal \in Search /\ cal.pc = "judge"
      BY DEF CalibrationInv, Narrow
    <2>2. /\ ~InTarget(cal.last) /\ ObserveBand(cal.last)
          /\ cal.low <= cal.candidate /\ cal.candidate <= cal.high
      BY <2>1 DEF CalibrationInv, Steps, Narrow
    <2> QED
      BY <2>1, <2>2, CalibrationConstants DEF Search
  <1>2. PICK m \in Nat : m = Memory(cal.candidate) /\ m > 0
    BY <1>1, MemoryGrows
  <1>3. /\ LowerKB \in Nat /\ UpperKB \in Nat /\ cal.target \in Nat
        /\ LowerKB <= UpperKB /\ UpperKB <= cal.target
    BY <1>1, BandWithin
  <1>4. /\ cal.last.spilled => m > cal.target
        /\ ~cal.last.spilled => cal.last.used = m /\ cal.last.range = cal.candidate
    BY <1>1, <1>2 DEF ObserveBand
  <1>5. /\ TooMuch => m > UpperKB
        /\ ~TooMuch => m < LowerKB /\ ~cal.last.spilled
    BY <1>1, <1>2, <1>3, <1>4 DEF TooMuch, InTarget
  <1>6. PICK b \in Observation, a \in Observation :
          /\ Better = [cal EXCEPT !.below = b, !.above = a] /\ True(b) /\ True(a)
          /\ b.used >= cal.below.used
          /\ m < LowerKB => m <= b.used
    <2> DEFINE b == IF Usable(cal.last) /\ cal.last.used < LowerKB
                       /\ cal.last.used > cal.below.used
                    THEN cal.last ELSE cal.below
               a == IF Usable(cal.last) /\ cal.last.used > UpperKB
                       /\ (cal.above.range = 0 \/ cal.last.used < cal.above.used)
                    THEN cal.last ELSE cal.above
    <2>1. Better = [cal EXCEPT !.below = b, !.above = a]
      BY <1>1 DEF Better, Search
    <2>2. b \in Observation /\ a \in Observation
      BY <1>1
    <2>3. Usable(cal.last) => True(cal.last)
      BY <1>1, <1>2, <1>4 DEF Usable, True
    <2>4. True(b) /\ True(a)
      BY <2>3 DEF CalibrationInv
    <2>5. b.used >= cal.below.used
      BY <1>1 DEF Observation
    <2>6. m < LowerKB => m <= b.used
      BY <1>1, <1>2, <1>3, <1>4, <1>5 DEF Usable, Observation
    <2> QED
      BY <2>1, <2>2, <2>4, <2>5, <2>6
  <1>7. PICK low \in 1..(MaxRange + 1), high \in 0..MaxRange, br \in BOOLEAN :
          /\ Narrowed = [cal EXCEPT !.below = b, !.above = a, !.low = low, !.high = high,
                                    !.bracketed = br]
          /\ \/ TooMuch /\ low = cal.low /\ high = cal.candidate - 1 /\ br = TRUE
             \/ ~TooMuch /\ low = cal.candidate + 1 /\ high = cal.high /\ br = cal.bracketed
    <2>1. CASE TooMuch
      <3>1. PICK t \in BOOLEAN : t = TRUE
        OBVIOUS
      <3>2. Narrowed = [Better EXCEPT !.high = cal.candidate - 1, !.bracketed = t]
        BY <2>1, <3>1, Zenon DEF Narrowed, Less
      <3>3. Narrowed = [cal EXCEPT !.below = b, !.above = a, !.low = cal.low,
                                   !.high = cal.candidate - 1, !.bracketed = t]
        BY <1>1, <1>6, <3>2 DEF Search
      <3>4. cal.candidate - 1 \in 0..MaxRange
        BY <1>1
      <3> QED
        BY <1>1, <2>1, <3>1, <3>3, <3>4
    <2>2. CASE ~TooMuch
      <3>1. Narrowed = [cal EXCEPT !.below = b, !.above = a, !.low = cal.candidate + 1,
                                   !.high = cal.high, !.bracketed = cal.bracketed]
        BY <1>1, <1>6, <2>2 DEF Narrowed, More, Search
      <3>2. cal.candidate + 1 \in 1..(MaxRange + 1)
        BY <1>1
      <3> QED
        BY <1>1, <2>2, <3>1, <3>2
    <2> QED
      BY <2>1, <2>2
  <1>8. PICK pc \in {"probe", "fallback"}, next \in 1..MaxRange :
          /\ cal' = [cal EXCEPT !.below = b, !.above = a, !.low = low, !.high = high,
                                !.bracketed = br, !.pc = pc, !.candidate = next]
          /\ pc = "probe" => low <= next /\ next <= high
          /\ pc = "fallback" => low > high
    <2>1. /\ Narrowed.low = low /\ Narrowed.high = high /\ Narrowed.bracketed = br
          /\ Narrowed.candidate = cal.candidate
      BY <1>1, <1>7 DEF Search
    <2>2. ~br => high = MaxRange
      BY <1>7 DEF CalibrationInv, Excluded
    <2>3. CASE br /\ low > high
      <3>1. cal' = Exhausted(Narrowed)
        BY <2>1, <2>3 DEF Narrow
      <3> QED
        BY <1>1, <1>7, <2>3, <3>1 DEF Exhausted, Search
    <2>4. CASE br /\ ~(low > high)
      <3>1. cal' = Bisected(Narrowed)
        BY <2>1, <2>4 DEF Narrow
      <3>2. PICK k \in 1..MaxRange : k = low + ((high - low) \div 2) /\ low <= k /\ k <= high
        BY <1>1, <1>7, <2>4
      <3> QED
        BY <1>1, <1>7, <2>1, <3>1, <3>2 DEF Bisected, Search
    <2>5. CASE ~br /\ cal.candidate >= MaxRange
      <3>1. cal' = Exhausted(Narrowed)
        BY <2>1, <2>5 DEF Narrow
      <3>2. low > high
        BY <1>1, <1>7, <2>2, <2>5
      <3> QED
        BY <1>1, <1>7, <3>1, <3>2 DEF Exhausted, Search
    <2>6. CASE ~br /\ ~(cal.candidate >= MaxRange)
      <3>1. cal' = Doubled(Narrowed)
        BY <2>1, <2>6 DEF Narrow
      <3>2. PICK k \in 1..MaxRange :
              /\ k = AtMost(AtLeast(cal.candidate * 2, low), MaxRange)
              /\ low <= k /\ k <= high
        BY <1>1, <1>7, <2>2, <2>6 DEF AtMost, AtLeast
      <3> QED
        BY <1>1, <1>7, <2>1, <3>1, <3>2 DEF Doubled, Search
    <2> QED
      BY <2>3, <2>4, <2>5, <2>6
  <1>9. /\ cal' \in Search /\ cal'.pc = pc /\ cal'.candidate = next
        /\ cal'.low = low /\ cal'.high = high /\ cal'.bracketed = br
        /\ cal'.below = b /\ cal'.above = a /\ cal'.met = cal.met /\ cal'.seen = cal.seen
        /\ cal'.target = cal.target /\ cal'.slope = cal.slope /\ cal'.step = cal.step
        /\ cal'.attempt = cal.attempt
    BY <1>1, <1>8 DEF Search
  <1>10. /\ LowerKB' = LowerKB /\ UpperKB' = UpperKB /\ \A x : Memory(x)' = Memory(x)
    BY <1>9, SameSystem
  <1>11. /\ \A r \in 1..MaxRange : r < low => Memory(r) < LowerKB
         /\ \A r \in 1..MaxRange : r > high => Memory(r) > UpperKB
    <2>1. ASSUME NEW r \in 1..MaxRange, r < low
          PROVE  Memory(r) < LowerKB
      <3>1. CASE TooMuch
        BY <1>7, <2>1, <3>1 DEF CalibrationInv, Excluded
      <3>2. CASE ~TooMuch
        <4>1. r <= cal.candidate
          BY <1>1, <1>7, <2>1, <3>2
        <4>2. Memory(r) \in Nat /\ Memory(r) <= m
          BY <1>1, <1>2, <4>1, MemoryGrows
        <4> QED
          BY <1>3, <1>5, <3>2, <4>2
      <3> QED
        BY <3>1, <3>2
    <2>2. ASSUME NEW r \in 1..MaxRange, r > high
          PROVE  Memory(r) > UpperKB
      <3>1. CASE ~TooMuch
        BY <1>7, <2>2, <3>1 DEF CalibrationInv, Excluded
      <3>2. CASE TooMuch
        <4>1. cal.candidate <= r
          BY <1>1, <1>7, <2>2, <3>2
        <4>2. Memory(r) \in Nat /\ m <= Memory(r)
          BY <1>1, <1>2, <4>1, MemoryGrows
        <4> QED
          BY <1>3, <1>5, <3>2, <4>2
      <3> QED
        BY <3>1, <3>2
    <2> QED
      BY <2>1, <2>2
  <1>12. Excluded'
    BY <1>7, <1>9, <1>10, <1>11 DEF CalibrationInv, Excluded
  <1>13. True(cal.below)' /\ True(cal.above)' /\ CalibrationUsable' /\ ~cal.met
    BY <1>1, <1>6, <1>8, <1>9, <1>10 DEF CalibrationInv, Steps, True, CalibrationUsable
  <1>14. ASSUME NEW r \in cal.seen
         PROVE  /\ r < low \/ r > high
                /\ Memory(r) < LowerKB => Memory(r) <= b.used
    <2>1. r \in 1..MaxRange
      BY <1>1 DEF Search
    <2>2. CASE r = cal.candidate
      BY <1>1, <1>2, <1>6, <1>7, <2>2
    <2>3. CASE r # cal.candidate
      <3>1. /\ r < cal.low \/ r > cal.high
            /\ Memory(r) < LowerKB => Memory(r) <= cal.below.used
        BY <1>1, <2>3 DEF CalibrationInv, Steps, Nearest, Outside
      <3>2. Memory(r) \in Nat /\ cal.below.used \in Nat /\ b.used \in Nat
        BY <1>1, <1>6, <2>1, MemoryGrows DEF Observation
      <3> QED
        BY <1>1, <1>6, <1>7, <2>1, <3>1, <3>2
    <2> QED
      BY <2>2, <2>3
  <1>15. Nearest(cal.seen)' /\ \A r \in cal'.seen : Outside(r)'
    BY <1>9, <1>10, <1>14 DEF Nearest, Outside
  <1>16. pc = "fallback" => \A r \in 1..MaxRange : Outside(r)'
    BY <1>7, <1>8, <1>9 DEF Outside
  <1>17. Steps'
    BY <1>8, <1>9, <1>13, <1>15, <1>16 DEF Steps
  <1> QED
    BY <1>9, <1>12, <1>13, <1>17 DEF CalibrationInv

\* The attempts run out, or the search settles for the best it has read.
LEMMA EndKeepsCalibration ==
  ASSUME CalibrationInv, AttemptsUsed \/ Fallback
  PROVE  CalibrationInv'
  <1>1. /\ cal \in Search /\ MaxRange \in Nat /\ MaxAttempts \in Nat
        /\ cal.below \in Observation /\ cal.above \in Observation
    BY CalibrationConstants DEF CalibrationInv, Search
  <1>2. CASE AttemptsUsed
    <2>1. cal.pc = "probe" /\ cal.attempt = MaxAttempts
          /\ cal' = [cal EXCEPT !.pc = "fallback"]
      BY <1>2 DEF AttemptsUsed, Exhausted
    <2>2. /\ cal' \in Search /\ cal'.pc = "fallback" /\ cal'.attempt = MaxAttempts
          /\ cal'.low = cal.low /\ cal'.high = cal.high /\ cal'.bracketed = cal.bracketed
          /\ cal'.below = cal.below /\ cal'.above = cal.above /\ cal'.met = cal.met
          /\ cal'.seen = cal.seen
          /\ cal'.target = cal.target /\ cal'.slope = cal.slope /\ cal'.step = cal.step
      BY <1>1, <2>1 DEF Search
    <2>3. /\ LowerKB' = LowerKB /\ UpperKB' = UpperKB /\ \A x : Memory(x)' = Memory(x)
      BY <2>2, SameSystem
    <2>4. Excluded' /\ True(cal.below)' /\ True(cal.above)' /\ CalibrationUsable'
      BY <2>2, <2>3 DEF CalibrationInv, Excluded, True, CalibrationUsable
    <2>5. ~cal.met /\ Nearest(cal.seen)'
      BY <2>1, <2>2, <2>3 DEF CalibrationInv, Steps, Nearest
    <2>6. Steps'
      BY <1>1, <2>2, <2>5 DEF Steps
    <2> QED
      BY <2>2, <2>4, <2>6 DEF CalibrationInv
  <1>3. CASE Fallback
    <2>1. /\ cal.pc = "fallback" /\ ~cal.met /\ Nearest(cal.seen)
          /\ cal.attempt < MaxAttempts => \A r \in 1..MaxRange : Outside(r)
      BY <1>3 DEF Fallback, CalibrationInv, Steps
    <2>2. PICK pc \in {"done", "failed"}, o \in Observation :
            /\ cal' = [cal EXCEPT !.pc = pc, !.last = o]
            /\ pc = "done" => o.range > 0
            /\ pc = "done" => \/ o = cal.below
                              \/ cal.below.range = 0 /\ o = cal.above
      <3>1. cal.last \in Observation /\ cal.below.range \in Nat /\ cal.above.range \in Nat
        BY <1>1 DEF Search, Observation
      <3>2. CASE cal.below.range > 0
        <4>1. cal' = [cal EXCEPT !.pc = "done", !.last = cal.below]
          BY <1>3, <3>2 DEF Fallback
        <4> QED
          BY <1>1, <3>2, <4>1
      <3>3. CASE ~(cal.below.range > 0) /\ cal.above.range > 0
        <4>1. cal' = [cal EXCEPT !.pc = "done", !.last = cal.above]
          BY <1>3, <3>3 DEF Fallback
        <4>2. cal.below.range = 0
          BY <3>1, <3>3
        <4> QED
          BY <1>1, <3>3, <4>1, <4>2
      <3>4. CASE ~(cal.below.range > 0) /\ ~(cal.above.range > 0)
        <4>1. cal' = [cal EXCEPT !.pc = "failed"]
          BY <1>3, <3>4 DEF Fallback
        <4>2. cal' = [cal EXCEPT !.pc = "failed", !.last = cal.last]
          BY <1>1, <4>1 DEF Search
        <4> QED
          BY <3>1, <4>2
      <3> QED
        BY <3>2, <3>3, <3>4
    <2>3. /\ cal' \in Search /\ cal'.pc = pc /\ cal'.last = o /\ cal'.attempt = cal.attempt
          /\ cal'.low = cal.low /\ cal'.high = cal.high /\ cal'.bracketed = cal.bracketed
          /\ cal'.below = cal.below /\ cal'.above = cal.above /\ cal'.met = cal.met
          /\ cal'.seen = cal.seen
          /\ cal'.target = cal.target /\ cal'.slope = cal.slope /\ cal'.step = cal.step
      BY <1>1, <2>2 DEF Search
    <2>4. /\ LowerKB' = LowerKB /\ UpperKB' = UpperKB /\ \A x : Memory(x)' = Memory(x)
      BY <2>3, SameSystem
    <2>5. Excluded' /\ True(cal.below)' /\ True(cal.above)'
      BY <2>3, <2>4 DEF CalibrationInv, Excluded, True
    <2>6. Steps'
      BY <2>1, <2>2, <2>3 DEF Steps, Outside
    <2>7. ASSUME pc = "done"
          PROVE  /\ ~o.spilled /\ o.used = Memory(o.range)
                 /\ \A r \in cal.seen : Memory(r) < LowerKB => Memory(r) <= o.used
      <3>1. True(o) /\ o.range # 0
        BY <1>1, <2>2, <2>7 DEF CalibrationInv, Observation
      <3>2. CASE o = cal.below
        BY <2>1, <3>1, <3>2 DEF True, Nearest
      <3>3. CASE cal.below.range = 0
        <4>1. cal.below.used = 0
          BY <3>3 DEF CalibrationInv, True
        <4>2. ASSUME NEW r \in cal.seen
              PROVE  ~(Memory(r) < LowerKB)
          <5>1. r \in Nat
            BY <1>1 DEF Search
          <5>2. Memory(r) \in Nat /\ Memory(r) > 0
            BY <1>1, <5>1, MemoryGrows
          <5> QED
            BY <2>1, <4>1, <5>2 DEF Nearest
        <4> QED
          BY <3>1, <4>2 DEF True
      <3> QED
        BY <2>2, <2>7, <3>2, <3>3
    <2>8. CalibrationUsable'
      BY <2>3, <2>4, <2>7 DEF CalibrationUsable
    <2> QED
      BY <2>3, <2>5, <2>6, <2>8 DEF CalibrationInv
  <1> QED
    BY <1>2, <1>3

\* A state of the invariant asks for new numbers of rows only, and has missed
\* no band that exists.
LEMMA CalibrationInvIsSafe ==
  ASSUME CalibrationInv
  PROVE  CalibrationSafety
  <1>1. /\ cal \in Search /\ MaxRange \in Nat /\ cal.candidate \in 1..MaxRange
        /\ cal.low \in Nat /\ cal.high \in Nat
    BY CalibrationConstants DEF CalibrationInv, Search
  <1>2. CalibrationAdvances
    BY <1>1 DEF CalibrationInv, Steps, Outside, CalibrationAdvances
  <1>3. ASSUME cal.pc = "done", ~cal.met, cal.attempt < MaxAttempts, NEW r \in 1..MaxRange
        PROVE  Memory(r) \notin LowerKB..UpperKB
    <2>1. /\ r < cal.low \/ r > cal.high
          /\ r < cal.low => Memory(r) < LowerKB
          /\ r > cal.high => Memory(r) > UpperKB
      BY <1>3 DEF CalibrationInv, Steps, Excluded, Outside
    <2>2. Memory(r) \in Nat /\ LowerKB \in Nat /\ UpperKB \in Nat
      BY <1>1, MemoryGrows, BandWithin
    <2> QED
      BY <2>1, <2>2
  <1> QED
    BY <1>2, <1>3 DEF CalibrationInv, CalibrationSafety, BandIsFound

\* The search for a number of rows never repeats itself, ends on a reading that
\* did not spill, and misses no band that exists, whatever work_mem, the rows'
\* width, the steps of the memory and the limits of the search.
THEOREM CalibrationIsSafe == CalibrationSpec => []CalibrationSafety
  <1>1. CalibrationInit => CalibrationInv
    BY CalibrationInvInit
  <1>2. CalibrationInv /\ [CalibrationNext]_cal => CalibrationInv'
    <2>1. ASSUME CalibrationInv, CalibrationNext
          PROVE  CalibrationInv'
      BY <2>1, StartAndFailKeepCalibration, ProbeKeepsCalibration, AcceptKeepsCalibration,
         NarrowKeepsCalibration, EndKeepsCalibration DEF CalibrationNext
    <2>2. ASSUME CalibrationInv, UNCHANGED cal
          PROVE  CalibrationInv'
      BY <2>2 DEF CalibrationInv, Excluded, True, Steps, CalibrationUsable, Nearest, Outside,
                  Memory, LowerKB, UpperKB, AtLeast, ObserveBand
    <2> QED
      BY <2>1, <2>2
  <1>3. CalibrationInv => CalibrationSafety
    BY CalibrationInvIsSafe
  <1> QED
    BY <1>1, <1>2, <1>3, PTL DEF CalibrationSpec

-----------------------------------------------------------------------------
(* What is proved by the least counterexample.                               *)

\* A set of natural numbers that is not empty has a least one.
LEMMA LeastIndex ==
  ASSUME NEW T \in SUBSET Nat, T # {}
  PROVE  \E x \in T : \A y \in T : x <= y
  <1> DEFINE R == OpToRel(<, Nat)
  <1>1. IsWellFoundedOn(R, Nat)
    BY NatLessThanWellFounded
  <1>2. \A x, y \in Nat : x < y => <<x, y>> \in R
    BY Zenon DEF OpToRel
  <1> HIDE DEF R
  <1>3. PICK x \in T : \A y \in T : ~(<<y, x>> \in R)
    BY <1>1, WFMin, Zenon
  <1>4. \A y \in T : ~(y < x)
    BY <1>2, <1>3
  <1> QED
    BY <1>3, <1>4

-----------------------------------------------------------------------------
(* The dataset (Dataset): sums of sizes.                                     *)

\* A sum of natural numbers is the end of their running total.
LEMMA RunningTotal ==
  ASSUME NEW n \in Nat, NEW f \in [1..n -> Nat]
  PROVE  \E s \in [0..n -> Nat] : /\ SumOf(f) = s[n] /\ s[0] = 0
                                  /\ \A i \in 1..n : s[i] = s[i - 1] + f[i]
  <1> DEFINE Totals(m, s) == s[0] = 0 /\ \A i \in 1..m : s[i] = s[i - 1] + f[i]
             Total(i, s) == IF i = 0 THEN 0 ELSE s[i - 1] + f[i]
             T == {m \in 0..n : ~ \E s \in [0..m -> Nat] : Totals(m, s)}
  <1>1. T = {}
    <2> SUFFICES ASSUME T # {} PROVE FALSE
      OBVIOUS
    <2>1. PICK m \in T : \A k \in T : m <= k
      <3>1. T \in SUBSET Nat
        OBVIOUS
      <3> QED
        BY <3>1, LeastIndex
    <2>2. m \in 0..n /\ ~ \E s \in [0..m -> Nat] : Totals(m, s)
      OBVIOUS
    <2>3. CASE m = 0
      <3> DEFINE s == [i \in 0..0 |-> 0]
      <3>1. s \in [0..0 -> Nat] /\ Totals(0, s)
        OBVIOUS
      <3> QED
        BY <2>2, <2>3, <3>1
    <2>4. CASE m # 0
      <3>1. m - 1 \in 0..n /\ m \in 1..n /\ m - 1 \notin T
        <4>1. m \in Nat /\ m - 1 \in 0..n /\ m \in 1..n /\ ~(m <= m - 1)
          BY <2>2, <2>4
        <4> HIDE DEF T
        <4> QED
          BY <2>1, <4>1
      <3>2. PICK s \in [0..(m - 1) -> Nat] : Totals(m - 1, s)
        BY <3>1
      <3> DEFINE u == [i \in 0..m |-> IF i = m THEN s[m - 1] + f[m] ELSE s[i]]
      <3>3. s[m - 1] \in Nat /\ f[m] \in Nat
        BY <3>1
      <3>4. u \in [0..m -> Nat]
        BY <3>1, <3>3
      <3>5. u[0] = 0 /\ u[m] = u[m - 1] + f[m]
        BY <3>1, <3>2
      <3>6. \A i \in 1..(m - 1) : u[i] = u[i - 1] + f[i]
        BY <3>1, <3>2
      <3>7. Totals(m, u)
        <4>1. \A i \in 1..m : i = m \/ i \in 1..(m - 1)
          BY <3>1
        <4> HIDE DEF u
        <4> QED
          BY <3>5, <3>6, <4>1
      <3> QED
        BY <2>2, <3>4, <3>7
    <2> QED
      BY <2>3, <2>4
  <1>2. PICK s \in [0..n -> Nat] : Totals(n, s)
    <2>1. n \in 0..n /\ n \notin T
      <3> HIDE DEF T
      <3> QED
        BY <1>1
    <2> QED
      BY <2>1
  <1>3. s = [i \in 0..n |-> Total(i, s)]
    BY <1>2
  <1> DEFINE u == CHOOSE u : u = [i \in 0..n |-> Total(i, u)]
  <1>4. u = [i \in 0..n |-> Total(i, u)]
    <2> HIDE DEF Total
    <2> QED
      BY <1>3
  <1>5. f \in Seq(Nat) /\ Len(f) = n
    OBVIOUS
  <1>6. SumOf(f) = u[n]
    BY <1>5 DEF SumOf
  <1> HIDE DEF u
  <1>7. u[0] = 0 /\ \A i \in 1..n : u[i] = u[i - 1] + f[i]
    BY <1>4
  <1>8. u \in [0..n -> Nat]
    <2> DEFINE B == {i \in 0..n : u[i] \notin Nat}
    <2> SUFFICES ASSUME B # {} PROVE FALSE
      BY <1>4
    <2>1. PICK m \in B : \A k \in B : m <= k
      <3>1. B \in SUBSET Nat
        OBVIOUS
      <3> QED
        BY <3>1, LeastIndex
    <2>2. m # 0 /\ m \in 1..n
      BY <1>7
    <2>3. m - 1 \in 0..n /\ ~(m <= m - 1)
      BY <2>2
    <2>4. m - 1 \notin B
      <3> HIDE DEF B
      <3> QED
        BY <2>1, <2>3
    <2>5. u[m - 1] \in Nat
      BY <2>3, <2>4
    <2>6. u[m] = u[m - 1] + f[m] /\ f[m] \in Nat
      BY <1>7, <2>2
    <2>7. u[m] \notin Nat
      OBVIOUS
    <2> HIDE DEF B
    <2> QED
      BY <2>5, <2>6, <2>7
  <1> QED
    BY <1>6, <1>7, <1>8

\* Where one number of two lists differs, their sums differ as much.
LEMMA SumGrows ==
  ASSUME NEW n \in Nat, NEW f \in [1..n -> Nat], NEW g \in [1..n -> Nat],
         NEW k \in 1..n, NEW d \in Nat, g[k] = f[k] + d,
         \A i \in 1..n : i # k => g[i] = f[i]
  PROVE  SumOf(f) \in Nat /\ SumOf(g) = SumOf(f) + d
  <1>1. PICK s \in [0..n -> Nat] : /\ SumOf(f) = s[n] /\ s[0] = 0
                                   /\ \A i \in 1..n : s[i] = s[i - 1] + f[i]
    BY RunningTotal
  <1>2. PICK u \in [0..n -> Nat] : /\ SumOf(g) = u[n] /\ u[0] = 0
                                   /\ \A i \in 1..n : u[i] = u[i - 1] + g[i]
    BY RunningTotal
  <1> DEFINE Extra(i) == IF i >= k THEN d ELSE 0
             B == {i \in 0..n : u[i] # s[i] + Extra(i)}
  <1>3. B = {}
    <2> SUFFICES ASSUME B # {} PROVE FALSE
      OBVIOUS
    <2>1. PICK m \in B : \A i \in B : m <= i
      <3>1. B \in SUBSET Nat
        OBVIOUS
      <3> QED
        BY <3>1, LeastIndex
    <2>2. m # 0 /\ m \in 1..n
      <3>1. 0 \notin B
        <4>1. u[0] = 0 /\ s[0] = 0 /\ Extra(0) = 0
          BY <1>1, <1>2
        <4> HIDE DEF Extra
        <4> QED
          BY <4>1
      <3>2. m \in 0..n
        OBVIOUS
      <3> HIDE DEF B
      <3> QED
        BY <2>1, <3>1, <3>2
    <2>3. m - 1 \in 0..n /\ ~(m <= m - 1)
      BY <2>2
    <2>4. u[m - 1] = s[m - 1] + Extra(m - 1)
      <3>1. m - 1 \notin B
        <4> HIDE DEF B
        <4> QED
          BY <2>1, <2>3
      <3> HIDE DEF Extra
      <3> QED
        BY <2>3, <3>1
    <2>5. u[m] = u[m - 1] + g[m] /\ s[m] = s[m - 1] + f[m]
      BY <1>1, <1>2, <2>2
    <2>6. f[m] \in Nat /\ g[m] \in Nat /\ s[m - 1] \in Nat /\ u[m - 1] \in Nat
      BY <2>2, <2>3
    <2>7. PICK e \in Nat : e = IF m = k THEN d ELSE 0
      OBVIOUS
    <2>8. g[m] = f[m] + e
      <3>1. CASE m = k
        BY <2>7, <3>1
      <3>2. CASE m # k
        BY <2>2, <2>6, <2>7, <3>2
      <3> QED
        BY <3>1, <3>2
    <2>9. PICK x \in Nat, y \in Nat : x = Extra(m - 1) /\ y = Extra(m) /\ y = x + e
      <3>1. CASE m = k
        BY <2>2, <2>7, <3>1
      <3>2. CASE m < k
        BY <2>2, <2>7, <3>2
      <3>3. CASE m > k
        <4>1. m - 1 >= k /\ m >= k /\ m # k
          BY <2>2, <3>3
        <4>2. Extra(m - 1) = d /\ Extra(m) = d /\ e = 0
          BY <2>7, <4>1
        <4> HIDE DEF Extra
        <4> QED
          BY <4>2
      <3> QED
        BY <2>2, <3>1, <3>2, <3>3
    <2>10. u[m] # s[m] + Extra(m)
      OBVIOUS
    <2> HIDE DEF B, Extra
    <2>11. u[m - 1] = s[m - 1] + x /\ u[m] # s[m] + y
      BY <2>4, <2>9, <2>10
    <2>12. u[m] = (s[m - 1] + x) + (f[m] + e) /\ s[m] + y = (s[m - 1] + f[m]) + (x + e)
      BY <2>5, <2>8, <2>9, <2>11
    <2>13. \A a, b, c \in Nat : (a + x) + (b + e) = (a + b) + (x + e)
      OBVIOUS
    <2> QED
      BY <2>6, <2>11, <2>12, <2>13
  <1>4. u[n] = s[n] + d
    <2>1. n \in 0..n /\ Extra(n) = d
      OBVIOUS
    <2>2. n \notin B
      <3> HIDE DEF B
      <3> QED
        BY <1>3
    <2>3. u[n] = s[n] + Extra(n)
      <3> HIDE DEF Extra
      <3> QED
        BY <2>1, <2>2
    <2> QED
      BY <2>1, <2>3
  <1> QED
    BY <1>1, <1>2, <1>4
-----------------------------------------------------------------------------
(* The inductive invariant of the dataset.                                   *)

Catalog == [owner : {"none", "gsbench", "other"}, meta : BOOLEAN,
            marker : TrustedVersions \cup {"none"}, tables : BOOLEAN,
            rows : [DatasetTables -> SUBSET Nat], high : [DatasetTables -> Nat],
            v2 : SUBSET Nat, v3 : SUBSET Nat, migrated : [Migration -> Nat],
            indexes : SUBSET SecondaryIndexes, factor : Nat]

StartingPc == {"schema", "create", "bootstrap", "mark", "tables"}
MigratingPc == {"migrate", "unmark", "remark"}
LoadingPc == {"load", "batch", "index", "calibrate", "round"}
MigratedPc == {"converge", "sample", "analyze", "version"} \cup LoadingPc
OwningPc == {"mark", "tables"} \cup MigratingPc \cup MigratedPc
InitPc == Resting \cup {"schema", "create", "bootstrap"} \cup OwningPc

InitRecord == [pc : InitPc, created : BOOLEAN, inspect : BOOLEAN, size : Int, stop : BOOLEAN,
               queue : SUBSET DOMAIN BatchOf, sorted : BOOLEAN, start : Int,
               changed : SUBSET DatasetTables, round : Int, deficit : Int, migration : Migration]

\* The rows that migration m of catalog c has changed.
MovedBy(c, m) == IF m = "plan_data_v2_columns" THEN c.v2 ELSE c.v3

\* Whatever stopped: rows are counted, who is marked is owned, rows that predate the
\* marker are none, and a mark of a migration or of the version tells the truth.
CatalogSound(c) ==
  /\ c \in Catalog
  /\ \A t \in DatasetTables : c.rows[t] = 1..c.high[t]
  /\ c.marker # "none" => c.owner = "gsbench" /\ c.meta
  /\ c.marker = "none" => c.rows["plan_data"] = {}
  /\ c.marker = CurrentVersion => c.rows["plan_data"] \subseteq c.v2 \cap c.v3
  /\ \A m \in Migration : 1..c.migrated[m] \subseteq MovedBy(c, m)

\* An init goes on only with a schema that is its own, and writes only with one that
\* is marked.
OwnedBy(c, s) ==
  /\ s.pc \in {"schema", "create"} => ~s.created
  /\ s.pc = "bootstrap" => c.owner # "none" /\ (s.created => c.owner = "gsbench")
  /\ s.pc \in OwningPc => c.owner = "gsbench" /\ c.meta
  /\ s.pc = "mark" => c.marker = "none"
  /\ s.pc \in OwningPc \ {"mark"} => c.marker # "none"

\* What the migrations have done so far.
MigratedBy(c, s) ==
  /\ s.pc \in StartingPc => s.migration = "plan_data_v2_columns"
  /\ s.pc \in {"unmark", "remark"} => 1..s.start \subseteq MovedBy(c, s.migration) /\ s.start \in Nat
  /\ s.pc \in MigratingPc /\ s.migration = "plan_data_v3_stats_target" =>
       c.rows["plan_data"] \subseteq c.v2
  /\ s.pc \in MigratedPc => c.rows["plan_data"] \subseteq c.v2 \cap c.v3

\* The next batch starts after the rows there are, a size known is the size, and a
\* calibration knows it.
LoadedBy(c, s) ==
  /\ s.pc = "batch" =>
       /\ s.queue # {}
       /\ s.start = c.high[BatchOf[FirstOf(s.queue, s.sorted)].table] + 1
  /\ s.pc \in {"calibrate", "round"} => s.inspect
  /\ s.pc = "round" => TotalWeight > 0
  /\ s.inspect /\ s.pc \in LoadingPc => s.size = PhysicalSize(c)

DatasetInvOf(c, s) ==
  CatalogSound(c) /\ s \in InitRecord /\ OwnedBy(c, s) /\ MigratedBy(c, s) /\ LoadedBy(c, s)

DatasetInv == DatasetInvOf(catalog, init)
-----------------------------------------------------------------------------
(* Batches, tables and the size of the whole.                                *)

LEMMA BatchFacts ==
  /\ Len(DatasetBatches) \in Nat /\ DOMAIN BatchOf = 1..Len(DatasetBatches)
  /\ \A i \in DOMAIN BatchOf :
       /\ BatchOf[i].table \in DatasetTables
       /\ BatchOf[i].weight \in Nat /\ BatchOf[i].rowBytes \in Nat \ {0}
       /\ BatchOf[i].rows \in Nat /\ BatchOf[i].size \in Nat \ {0}
       /\ BatchOf[i].table \in STRING
  /\ \A t \in DatasetTables : \E i \in DOMAIN BatchOf : BatchOf[i].table = t
  <1>1. Len(DatasetBatches) \in Nat /\ DOMAIN BatchOf = 1..Len(DatasetBatches)
    BY DatasetAssumption DEF BatchOf
  <1> DEFINE Batch == [table : STRING, weight : Nat, rowBytes : Nat \ {0}, rows : Nat,
                       size : Nat \ {0}]
  <1>2. \A i \in DOMAIN BatchOf : BatchOf[i] \in Batch
    <2>1. DatasetBatches \in Seq(Batch)
      BY DatasetAssumption
    <2> HIDE DEF Batch
    <2> QED
      BY <1>1, <2>1 DEF BatchOf
  <1> QED
    BY <1>1, <1>2 DEF DatasetTables

\* One of the batches to load is first.
LEMMA FirstIsOne ==
  ASSUME NEW queue \in SUBSET DOMAIN BatchOf, queue # {}, NEW sorted
  PROVE  FirstOf(queue, sorted) \in queue
  <1>1. queue \in SUBSET Nat
    BY BatchFacts
  <1>2. \E i \in queue : \A j \in queue : GoesBefore(i, j, sorted)
    <2>1. CASE sorted /\ queue \ Weighted # {}
      <3>1. queue \ Weighted \in SUBSET Nat
        BY <1>1
      <3>2. PICK i \in queue \ Weighted : \A j \in queue \ Weighted : i <= j
        BY <2>1, <3>1, LeastIndex
      <3>3. ASSUME NEW j \in queue PROVE GoesBefore(i, j, sorted)
        <4>1. CASE j \in Weighted
          BY <2>1, <4>1 DEF GoesBefore
        <4>2. CASE j \notin Weighted
          BY <3>2, <4>2 DEF GoesBefore
        <4> QED
          BY <4>1, <4>2
      <3> QED
        BY <3>3
    <2>2. CASE ~(sorted /\ queue \ Weighted # {})
      <3>1. PICK i \in queue : \A j \in queue : i <= j
        BY <1>1, LeastIndex
      <3> QED
        <4>1. \A j \in queue : ~(sorted /\ (i \in Weighted) # (j \in Weighted))
          BY <2>2
        <4> QED
          BY <3>1, <4>1 DEF GoesBefore
    <2> QED
      BY <2>1, <2>2
  <1> QED
    BY <1>2 DEF FirstOf

\* The size of a dataset is a number, and a batch adds the cost of its rows.
RowCost(c, i) == c.factor * BatchOf[i].rowBytes * Cardinality(c.rows[BatchOf[i].table])

LEMMA CostIs ==
  ASSUME NEW c, CatalogSound(c), NEW i \in DOMAIN BatchOf
  PROVE  /\ RowCost(c, i) = (c.factor * BatchOf[i].rowBytes) * c.high[BatchOf[i].table]
         /\ RowCost(c, i) \in Nat
  <1>1. PICK n \in Nat : n = c.high[BatchOf[i].table]
    BY BatchFacts DEF CatalogSound, Catalog
  <1>2. c.rows[BatchOf[i].table] = 1..n
    BY <1>1, BatchFacts DEF CatalogSound
  <1>3. Cardinality(1..n) = n
    BY FS_Interval
  <1>4. PICK b \in Nat : b = BatchOf[i].rowBytes
    BY BatchFacts
  <1>5. PICK f \in Nat : f = c.factor
    BY DEF CatalogSound, Catalog
  <1>6. RowCost(c, i) = f * b * n
    BY <1>1, <1>2, <1>3, <1>4, <1>5 DEF RowCost
  <1>7. f * b \in Nat /\ f * b * n \in Nat
    OBVIOUS
  <1> QED
    BY <1>1, <1>4, <1>5, <1>6, <1>7

LEMMA SizeIs ==
  ASSUME NEW c, CatalogSound(c)
  PROVE  \E x \in Nat, f \in [1..Len(DatasetBatches) -> Nat] :
           /\ x = IndexBytes * Cardinality(c.indexes)
           /\ f = [i \in DOMAIN BatchOf |-> RowCost(c, i)]
           /\ PhysicalSize(c) = x + SumOf(f)
  <1>1. Cardinality(c.indexes) \in Nat
    <2>1. IsFiniteSet(SecondaryIndexes)
      <3>1. SecondaryIndexes = {"secondary"} \cup {"post_migration"}
        BY DEF SecondaryIndexes
      <3>2. IsFiniteSet({"secondary"}) /\ IsFiniteSet({"post_migration"})
        BY FS_Singleton
      <3> QED
        BY <3>1, <3>2, FS_Union
    <2>2. c.indexes \subseteq SecondaryIndexes
      BY DEF CatalogSound, Catalog
    <2> QED
      BY <2>1, <2>2, FS_Subset, FS_CardinalityType
  <1>2. PICK x \in Nat : x = IndexBytes * Cardinality(c.indexes)
    BY <1>1, DatasetAssumption
  <1>3. PICK f : f = [i \in DOMAIN BatchOf |-> RowCost(c, i)]
    OBVIOUS
  <1>4. f \in [1..Len(DatasetBatches) -> Nat]
    BY <1>3, CostIs, BatchFacts
  <1>5. PhysicalSize(c) = x + SumOf(f)
    BY <1>2, <1>3 DEF PhysicalSize, RowCost
  <1> QED
    BY <1>2, <1>3, <1>4, <1>5

LEMMA SizeIsNat ==
  ASSUME NEW c, CatalogSound(c) PROVE PhysicalSize(c) \in Nat
  <1>1. PICK x \in Nat, f \in [1..Len(DatasetBatches) -> Nat] : PhysicalSize(c) = x + SumOf(f)
    BY SizeIs
  <1>2. SumOf(f) \in Nat
    <2>1. PICK s \in [0..Len(DatasetBatches) -> Nat] : SumOf(f) = s[Len(DatasetBatches)]
      BY BatchFacts, RunningTotal
    <2> QED
      BY <2>1, BatchFacts
  <1> QED
    BY <1>1, <1>2

LEMMA SizeGrows ==
  ASSUME NEW c, CatalogSound(c), NEW d, CatalogSound(d), NEW i \in DOMAIN BatchOf, NEW n \in Nat,
         d.factor = c.factor, d.indexes = c.indexes,
         \A t \in DatasetTables : t # BatchOf[i].table => d.high[t] = c.high[t],
         d.high[BatchOf[i].table] = c.high[BatchOf[i].table] + n
  PROVE  PhysicalSize(d) = PhysicalSize(c) + (c.factor * BatchOf[i].rowBytes) * n
  <1>1. PICK x \in Nat, f \in [1..Len(DatasetBatches) -> Nat] :
          /\ x = IndexBytes * Cardinality(c.indexes)
          /\ f = [j \in DOMAIN BatchOf |-> RowCost(c, j)]
          /\ PhysicalSize(c) = x + SumOf(f)
    BY SizeIs
  <1>2. PICK y \in Nat, g \in [1..Len(DatasetBatches) -> Nat] :
          /\ y = IndexBytes * Cardinality(d.indexes)
          /\ g = [j \in DOMAIN BatchOf |-> RowCost(d, j)]
          /\ PhysicalSize(d) = y + SumOf(g)
    BY SizeIs
  <1>3. PICK b \in Nat : b = c.factor * BatchOf[i].rowBytes
    <2>1. c.factor \in Nat
      BY DEF CatalogSound, Catalog
    <2>2. BatchOf[i].rowBytes \in Nat
      BY BatchFacts
    <2> QED
      BY <2>1, <2>2
  <1>4. PICK e \in Nat : e = b * n
    OBVIOUS
  <1>5. g[i] = f[i] + e
    <2>1. PICK h \in Nat : h = c.high[BatchOf[i].table]
      BY BatchFacts DEF CatalogSound, Catalog
    <2>2. f[i] = b * h
      BY <1>1, <1>3, <2>1, CostIs
    <2>3. g[i] = b * (h + n)
      BY <1>2, <1>3, <2>1, CostIs
    <2>4. b * (h + n) = b * h + b * n
      OBVIOUS
    <2> QED
      BY <1>4, <2>2, <2>3, <2>4
  <1>6. ASSUME NEW j \in DOMAIN BatchOf, j # i PROVE g[j] = f[j]
    <2>1. BatchOf[j].table # BatchOf[i].table
      BY <1>6, DatasetAssumption
    <2>2. d.high[BatchOf[j].table] = c.high[BatchOf[j].table]
      BY <2>1, BatchFacts
    <2> QED
      BY <1>1, <1>2, <2>2, CostIs
  <1>7. DOMAIN BatchOf = 1..Len(DatasetBatches) /\ Len(DatasetBatches) \in Nat
    BY BatchFacts
  <1>8. SumOf(f) \in Nat /\ SumOf(g) = SumOf(f) + e
    <2>1. PICK m \in Nat : m = Len(DatasetBatches)
      BY <1>7
    <2>2. f \in [1..m -> Nat] /\ g \in [1..m -> Nat] /\ i \in 1..m
      BY <1>1, <1>2, <1>7, <2>1
    <2>3. \A j \in 1..m : j # i => g[j] = f[j]
      BY <1>6, <1>7, <2>1
    <2> QED
      <3>1. e \in Nat /\ g[i] = f[i] + e
        BY <1>4, <1>5
      <3> QED
        BY <2>1, <2>2, <2>3, <3>1, SumGrows, ZenonT(30)
  <1>9. x = y
    BY <1>1, <1>2
  <1> QED
    BY <1>1, <1>2, <1>3, <1>4, <1>8, <1>9

\* Rows that cost at most the prospective factor fit in the room left for them.
LEMMA RoomKeeps ==
  ASSUME NEW size \in Nat, NEW target \in Nat, size <= target, NEW b \in Nat \ {0},
         NEW c \in Nat, c <= SizeFactor, NEW n \in Nat,
         n <= (target - size) \div (b * SizeFactor)
  PROVE  size + (c * b) * n <= target
  <1>1. PICK room \in Nat : room = target - size
    OBVIOUS
  <1>2. PICK d \in Nat \ {0} : d = b * SizeFactor
    BY DEF SizeFactor
  <1>3. PICK q \in Nat : q = room \div d /\ q * d <= room
    BY QuotientBounds
  <1>4. n <= q
    BY <1>1, <1>2, <1>3
  <1>5. n * d <= q * d
    BY <1>4, ProductGrows
  <1>6. c * b <= SizeFactor * b
    BY ProductGrows DEF SizeFactor
  <1>7. PICK k \in Nat : k = c * b /\ k <= d
    BY <1>2, <1>6 DEF SizeFactor
  <1>8. k * n <= d * n
    BY <1>7, ProductGrows
  <1>9. n * d = d * n /\ n * d \in Nat /\ q * d \in Nat /\ k * n \in Nat
    OBVIOUS
  <1> QED
    BY <1>1, <1>3, <1>5, <1>7, <1>8, <1>9

-----------------------------------------------------------------------------
(* Statements, batches and migrations.                                       *)

LEMMA FailedIs ==
  ASSUME NEW s \in InitRecord, NEW c, CatalogSound(c)
  PROVE  DatasetInvOf(c, [s EXCEPT !.pc = "failed"])
  <1> DEFINE n == [s EXCEPT !.pc = "failed"]
  <1>1. n \in InitRecord /\ n.pc = "failed"
    BY DEF InitRecord, InitPc, Resting
  <1> HIDE DEF n
  <1>2. OwnedBy(c, n)
    BY <1>1 DEF OwnedBy, OwningPc, MigratingPc, MigratedPc, LoadingPc
  <1>3. MigratedBy(c, n)
    BY <1>1 DEF MigratedBy, StartingPc, MigratingPc, MigratedPc, LoadingPc
  <1>4. LoadedBy(c, n)
    BY <1>1 DEF LoadedBy, LoadingPc
  <1> QED
    BY <1>1, <1>2, <1>3, <1>4 DEF DatasetInvOf, n

\* A statement leaves a sound dataset behind, also when its reply is an error.
LEMMA StatementOK ==
  ASSUME DatasetInv, NEW c, NEW s, DatasetInvOf(c, s), Statement(c, s)
  PROVE  DatasetInv'
  <1>1. CASE catalog' = c /\ init' = s
    BY <1>1 DEF DatasetInv, DatasetInvOf
  <1>2. CASE catalog' \in {catalog, c} /\ Fail
    <2>1. CatalogSound(catalog') /\ init \in InitRecord
      BY <1>2 DEF DatasetInv, DatasetInvOf
    <2>2. init' = [init EXCEPT !.pc = "failed"]
      BY <1>2 DEF Fail
    <2>3. DatasetInvOf(catalog', init')
      BY <2>1, <2>2, FailedIs
    <2> QED
      BY <2>3 DEF DatasetInv
  <1> QED
    BY <1>1, <1>2 DEF Statement

LEMMA FailOK ==
  ASSUME DatasetInv, Fail, UNCHANGED catalog PROVE DatasetInv'
  <1>1. DatasetInvOf(catalog, [init EXCEPT !.pc = "failed"])
    BY FailedIs DEF DatasetInv, DatasetInvOf
  <1> QED
    BY <1>1 DEF DatasetInv, Fail

LEMMA MoveOK ==
  ASSUME DatasetInv, NEW s, DatasetInvOf(catalog, s), init' = s, UNCHANGED catalog
  PROVE  DatasetInv'
  BY DEF DatasetInv

\* What n rows, appended to those of batch i, leave behind: catalog c.
BatchAdded(c, i, n) ==
  /\ CatalogSound(c)
  /\ c.owner = catalog.owner /\ c.meta = catalog.meta /\ c.marker = catalog.marker
  /\ c.factor = catalog.factor
  /\ c.high[BatchOf[i].table] = catalog.high[BatchOf[i].table] + n
  /\ catalog.rows["plan_data"] \subseteq catalog.v2 \cap catalog.v3
       => c.rows["plan_data"] \subseteq c.v2 \cap c.v3
  /\ PhysicalSize(c) = PhysicalSize(catalog) + (catalog.factor * BatchOf[i].rowBytes) * n

LEMMA BatchLeaves ==
  ASSUME CatalogSound(catalog), catalog.marker # "none", NEW i \in DOMAIN BatchOf, NEW n \in Nat \ {0}
  PROVE  BatchAdded(WithBatch(BatchOf[i].table, catalog.high[BatchOf[i].table] + 1,
                              catalog.high[BatchOf[i].table] + n), i, n)
  <1>1. PICK t \in DatasetTables : t = BatchOf[i].table
    BY BatchFacts
  <1>2. PICK h \in Nat : h = catalog.high[t]
    BY DEF CatalogSound, Catalog
  <1>3. PICK c : c = WithBatch(t, h + 1, h + n)
    OBVIOUS
  <1>4. PICK k \in Catalog : k = catalog
    BY DEF CatalogSound
  <1>5. PICK first \in Nat, last \in Nat : first = h + 1 /\ last = h + n /\ first <= last
    <2>1. h + 1 \in Nat /\ h + n \in Nat /\ h + 1 <= h + n
      BY <1>2
    <2> QED
      BY <2>1
  <1>6. PICK moved \in SUBSET Nat :
          moved = (IF t = "plan_data" THEN first..last ELSE {})
    <2>1. first..last \in SUBSET Nat
      BY <1>5
    <2> QED
      BY <2>1
  <1>7. PICK rows \in [DatasetTables -> SUBSET Nat] :
          rows = [k.rows EXCEPT ![t] = @ \cup (first..last)]
    <2>1. first..last \in SUBSET Nat /\ k.rows \in [DatasetTables -> SUBSET Nat]
      BY <1>5 DEF Catalog
    <2>2. k.rows[t] \cup (first..last) \in SUBSET Nat
      BY <1>1, <2>1
    <2> QED
      BY <1>1, <2>1, <2>2
  <1>8. PICK high \in [DatasetTables -> Nat] : high = [k.high EXCEPT ![t] = last]
    BY DEF Catalog
  <1>9. c = [k EXCEPT !.rows = rows, !.high = high, !.v2 = @ \cup moved, !.v3 = @ \cup moved]
    <2>1. c = [k EXCEPT !.rows[t] = @ \cup (first..last), !.high[t] = last,
                        !.v2 = @ \cup moved, !.v3 = @ \cup moved]
      BY <1>3, <1>4, <1>5, <1>6 DEF WithBatch
    <2> QED
      BY <1>7, <1>8, <2>1 DEF Catalog
  <1>10. /\ c \in Catalog
         /\ c.rows = rows /\ c.high = high /\ c.v2 = k.v2 \cup moved /\ c.v3 = k.v3 \cup moved
         /\ c.owner = k.owner /\ c.meta = k.meta /\ c.marker = k.marker
         /\ c.factor = k.factor /\ c.indexes = k.indexes /\ c.migrated = k.migrated
    BY <1>6, <1>9 DEF Catalog
  <1>11. ASSUME NEW u \in DatasetTables PROVE rows[u] = 1..high[u]
    <2>1. k.rows[u] = 1..k.high[u] /\ k.rows[t] = 1..h
      BY <1>2, <1>4 DEF CatalogSound
    <2>2. CASE u = t
      <3>1. rows[u] = (1..h) \cup (first..last) /\ high[u] = last
        BY <1>7, <1>8, <2>1, <2>2 DEF Catalog
      <3>2. (1..h) \cup (first..last) = 1..last
        <4>1. first = h + 1 /\ h <= last
          BY <1>2, <1>5
        <4>2. \A x : x \in (1..h) \cup (first..last) <=> x \in 1..last
          BY <1>2, <1>5, <4>1
        <4> QED
          BY <4>2
      <3> QED
        BY <3>1, <3>2
    <2>3. CASE u # t
      BY <1>7, <1>8, <2>1, <2>3 DEF Catalog
    <2> QED
      BY <2>2, <2>3
  <1>12. k.rows["plan_data"] \subseteq k.v2 \cap k.v3
           => c.rows["plan_data"] \subseteq c.v2 \cap c.v3
    <2>1. CASE t = "plan_data"
      BY <1>6, <1>7, <1>10, <2>1 DEF Catalog
    <2>2. CASE t # "plan_data"
      BY <1>6, <1>7, <1>10, <2>2, DatasetAssumption DEF Catalog
    <2> QED
      BY <2>1, <2>2
  <1>13. \A m \in Migration : 1..c.migrated[m] \subseteq MovedBy(c, m)
    BY <1>4, <1>10 DEF CatalogSound, MovedBy
  <1>14. CatalogSound(c)
    <2>1. \A u \in DatasetTables : c.rows[u] = 1..c.high[u]
      BY <1>10, <1>11
    <2>2. c.marker # "none" => c.owner = "gsbench" /\ c.meta
      BY <1>4, <1>10 DEF CatalogSound
    <2>3. c.marker # "none"
      BY <1>4, <1>10
    <2>4. c.marker = CurrentVersion => c.rows["plan_data"] \subseteq c.v2 \cap c.v3
      BY <1>4, <1>10, <1>12 DEF CatalogSound
    <2> QED
      BY <1>10, <1>13, <2>1, <2>2, <2>3, <2>4 DEF CatalogSound
  <1>15. high[t] = h + n /\ \A u \in DatasetTables : u # t => high[u] = k.high[u]
    BY <1>5, <1>8 DEF Catalog
  <1>16. PhysicalSize(c) = PhysicalSize(catalog) + (catalog.factor * BatchOf[i].rowBytes) * n
    <2>1. /\ c.factor = catalog.factor /\ c.indexes = catalog.indexes
          /\ \A u \in DatasetTables : u # BatchOf[i].table => c.high[u] = catalog.high[u]
          /\ c.high[BatchOf[i].table] = catalog.high[BatchOf[i].table] + n
      BY <1>1, <1>2, <1>4, <1>10, <1>15
    <2>2. n \in Nat
      OBVIOUS
    <2> QED
      BY <1>14, <2>1, <2>2, SizeGrows
  <1>17. BatchAdded(c, i, n)
    BY <1>1, <1>2, <1>4, <1>10, <1>12, <1>14, <1>15, <1>16 DEF BatchAdded
  <1> QED
    BY <1>1, <1>2, <1>3, <1>17

\* The batch in hand begins after the rows there are, is not empty and, when the
\* size is known, fits in the room left.
LEMMA BatchInHand ==
  ASSUME DatasetInv, At("batch"), ~SizeStops, init.start <= Table.rows
  PROVE  \E i \in DOMAIN BatchOf, n \in Nat \ {0} :
           /\ i = FirstOf(init.queue, init.sorted) /\ Table = BatchOf[i]
           /\ init.start = catalog.high[BatchOf[i].table] + 1
           /\ BatchEnd = catalog.high[BatchOf[i].table] + n
           /\ init.inspect => /\ init.size < TargetBytes
                              /\ n <= RowsBeforeTarget(BatchOf[i])
  <1>1. PICK i \in DOMAIN BatchOf : i = FirstOf(init.queue, init.sorted)
    <2>1. init.queue # {} /\ init.queue \in SUBSET DOMAIN BatchOf
      BY DEF DatasetInv, DatasetInvOf, LoadedBy, InitRecord, At
    <2> QED
      BY <2>1, FirstIsOne
  <1>2. Table = BatchOf[i]
    BY <1>1 DEF Table
  <1>3. PICK h \in Nat : h = catalog.high[BatchOf[i].table]
    BY BatchFacts DEF DatasetInv, DatasetInvOf, CatalogSound, Catalog
  <1>4. init.start = h + 1
    BY <1>1, <1>3 DEF DatasetInv, DatasetInvOf, LoadedBy, At
  <1>5. PICK rows \in Nat, size \in Nat \ {0}, rb \in Nat \ {0} :
          rows = Table.rows /\ size = Table.size /\ rb = Table.rowBytes
    BY <1>2, BatchFacts
  <1>6. PICK whole \in Nat : /\ whole >= h + 1
                             /\ whole = IF init.start + Table.size - 1 < Table.rows
                                        THEN init.start + Table.size - 1 ELSE Table.rows
    <2>1. h + 1 <= rows
      BY <1>4, <1>5
    <2>2. CASE h + 1 + size - 1 < rows
      BY <1>4, <1>5, <2>1, <2>2
    <2>3. CASE ~(h + 1 + size - 1 < rows)
      BY <1>4, <1>5, <2>1, <2>3
    <2> QED
      BY <2>2, <2>3
  <1>7. CASE ~init.inspect
    <2>1. BatchEnd = whole
      BY <1>6, <1>7 DEF BatchEnd
    <2>2. whole - h \in Nat \ {0} /\ whole = h + (whole - h)
      BY <1>6
    <2> QED
      BY <1>1, <1>2, <1>3, <1>4, <1>7, <2>1, <2>2
  <1>8. CASE init.inspect
    <2>1. init.size < TargetBytes /\ ~(RowsBeforeTarget(Table) <= 0)
      <3>1. init.size \in Int /\ TargetBytes \in Nat
        BY DatasetAssumption DEF DatasetInv, DatasetInvOf, InitRecord
      <3> QED
        BY <1>8, <3>1 DEF SizeStops
    <2>2. PICK r \in Nat \ {0} : r = RowsBeforeTarget(Table)
      <3>1. init.size = PhysicalSize(catalog)
        BY <1>8 DEF DatasetInv, DatasetInvOf, LoadedBy, LoadingPc, At
      <3>2. TargetBytes - init.size \in Nat
        BY <2>1, <3>1, SizeIsNat, DatasetAssumption DEF DatasetInv, DatasetInvOf
      <3>3. PICK d \in Nat \ {0} : d = rb * SizeFactor
        BY DEF SizeFactor
      <3>4. RowsBeforeTarget(Table) \in Nat
        BY <1>5, <3>2, <3>3, QuotientBounds DEF RowsBeforeTarget
      <3> QED
        BY <2>1, <3>4
    <2>3. PICK room \in Nat : room = h + r /\ room = init.start + RowsBeforeTarget(Table) - 1
      BY <1>4, <2>2
    <2>4. BatchEnd = IF room < whole THEN room ELSE whole
      BY <1>6, <1>8, <2>3 DEF BatchEnd
    <2>5. PICK n \in Nat \ {0} : BatchEnd = h + n /\ n <= r
      <3>1. CASE room < whole
        BY <2>3, <2>4, <3>1
      <3>2. CASE ~(room < whole)
        <4>1. BatchEnd = h + (whole - h) /\ whole - h \in Nat \ {0} /\ whole - h <= r
          BY <1>6, <2>3, <2>4, <3>2
        <4> QED
          BY <4>1
      <3> QED
        BY <3>1, <3>2
    <2> QED
      BY <1>1, <1>2, <1>3, <1>4, <2>1, <2>2, <2>5
  <1> QED
    BY <1>7, <1>8

-----------------------------------------------------------------------------
(* The steps keep the invariant: up to the migrations.                       *)

LEMMA NoMarkerIsUntrusted ==
  "none" \notin TrustedVersions /\ CurrentVersion \in TrustedVersions /\ CurrentVersion # "none"
  BY DEF TrustedVersions, CurrentVersion

\* Only the label of an init changes.
LEMMA Relabelled ==
  ASSUME NEW s \in InitRecord, NEW p \in InitPc
  PROVE  LET n == [s EXCEPT !.pc = p]
         IN  /\ n \in InitRecord /\ n.pc = p
             /\ n.created = s.created /\ n.inspect = s.inspect /\ n.size = s.size
             /\ n.queue = s.queue /\ n.sorted = s.sorted /\ n.start = s.start
             /\ n.migration = s.migration
  BY DEF InitRecord

LEMMA LabelsAre ==
  /\ "idle" \in InitPc /\ "done" \in InitPc /\ "failed" \in InitPc /\ "schema" \in InitPc
  /\ "create" \in InitPc /\ "bootstrap" \in InitPc /\ "mark" \in InitPc /\ "tables" \in InitPc
  /\ "migrate" \in InitPc /\ "unmark" \in InitPc /\ "remark" \in InitPc /\ "converge" \in InitPc
  /\ "sample" \in InitPc /\ "load" \in InitPc /\ "batch" \in InitPc /\ "index" \in InitPc
  /\ "calibrate" \in InitPc /\ "round" \in InitPc /\ "analyze" \in InitPc /\ "version" \in InitPc
  BY DEF InitPc, Resting, OwningPc, MigratingPc, MigratedPc, LoadingPc

LEMMA FreshIs ==
  Fresh \in InitRecord /\ Fresh.created = FALSE /\ Fresh.migration = "plan_data_v2_columns"
  <1>1. PICK queue \in SUBSET DOMAIN BatchOf : queue = {}
    OBVIOUS
  <1>2. PICK changed \in SUBSET DatasetTables : changed = {}
    OBVIOUS
  <1>3. PICK p \in InitPc, m \in Migration : p = "idle" /\ m = "plan_data_v2_columns"
    BY LabelsAre DEF Migration
  <1>4. PICK zero \in Int : zero = 0
    OBVIOUS
  <1>5. PICK one \in Int : one = 1
    OBVIOUS
  <1>6. PICK f \in BOOLEAN : f = FALSE
    OBVIOUS
  <1>7. Fresh = [pc |-> p, created |-> f, inspect |-> f, size |-> zero, stop |-> f,
                 queue |-> queue, sorted |-> f, start |-> zero, changed |-> changed,
                 round |-> one, deficit |-> zero, migration |-> m]
    BY <1>1, <1>2, <1>3, <1>4, <1>5, <1>6 DEF Fresh
  <1> QED
    BY <1>3, <1>6, <1>7 DEF InitRecord

LEMMA NoSchemaIs ==
  /\ CatalogSound(NoSchema)
  /\ NoSchema.owner = "none" /\ NoSchema.marker = "none" /\ NoSchema.meta = FALSE
  <1>1. PICK rows \in [DatasetTables -> SUBSET Nat] : rows = [t \in DatasetTables |-> {}]
    OBVIOUS
  <1>2. PICK high \in [DatasetTables -> Nat] : high = [t \in DatasetTables |-> 0]
    OBVIOUS
  <1>3. PICK migrated \in [Migration -> Nat] : migrated = [m \in Migration |-> 0]
    OBVIOUS
  <1>4. PICK none \in SUBSET Nat, indexes \in SUBSET SecondaryIndexes : none = {} /\ indexes = {}
    OBVIOUS
  <1>5. PICK f \in BOOLEAN, one \in Nat : f = FALSE /\ one = 1
    OBVIOUS
  <1>6. NoSchema = [owner |-> "none", meta |-> f, marker |-> "none", tables |-> f,
                    rows |-> rows, high |-> high, v2 |-> none, v3 |-> none, migrated |-> migrated,
                    indexes |-> indexes, factor |-> one]
    BY <1>1, <1>2, <1>3, <1>4, <1>5 DEF NoSchema
  <1>7. NoSchema \in Catalog
    BY <1>6 DEF Catalog
  <1>8. \A t \in DatasetTables : NoSchema.rows[t] = 1..NoSchema.high[t]
    <2>1. 1..0 = {}
      OBVIOUS
    <2> QED
      BY <1>1, <1>2, <1>6, <2>1
  <1>9. NoSchema.rows["plan_data"] = {}
    BY <1>1, <1>6, DatasetAssumption
  <1>10. \A m \in Migration : 1..NoSchema.migrated[m] = {}
    <2>1. 1..0 = {}
      OBVIOUS
    <2> QED
      BY <1>3, <1>6, <2>1
  <1>11. NoSchema.marker = "none" /\ NoSchema.owner = "none" /\ NoSchema.meta = FALSE
    BY <1>5, <1>6
  <1>12. /\ NoSchema.marker = CurrentVersion => NoSchema.rows["plan_data"] \subseteq NoSchema.v2 \cap NoSchema.v3
         /\ \A m \in Migration : 1..NoSchema.migrated[m] \subseteq MovedBy(NoSchema, m)
    BY <1>9, <1>10
  <1> QED
    BY <1>7, <1>8, <1>9, <1>11, <1>12 DEF CatalogSound

LEMMA DatasetInitial ==
  ASSUME DatasetInit PROVE DatasetInv
  <1>1. CatalogSound(catalog) /\ init \in InitRecord /\ init.pc = "idle"
    BY FreshIs, NoSchemaIs DEF DatasetInit, Fresh
  <1>2. OwnedBy(catalog, init)
    BY <1>1 DEF OwnedBy, OwningPc, MigratingPc, MigratedPc, LoadingPc
  <1>3. MigratedBy(catalog, init)
    BY <1>1 DEF MigratedBy, StartingPc, MigratingPc, MigratedPc, LoadingPc
  <1>4. LoadedBy(catalog, init)
    BY <1>1 DEF LoadedBy, LoadingPc
  <1> QED
    BY <1>1, <1>2, <1>3, <1>4 DEF DatasetInv, DatasetInvOf

LEMMA StartInitKeeps ==
  ASSUME DatasetInv, StartInit PROVE DatasetInv'
  <1> DEFINE n == [Fresh EXCEPT !.pc = "schema"]
  <1>1. /\ n \in InitRecord /\ n.pc = "schema" /\ n.created = FALSE
        /\ n.migration = "plan_data_v2_columns"
    BY FreshIs, LabelsAre, Relabelled
  <1>2. CatalogSound(catalog) /\ init' = n /\ UNCHANGED catalog
    BY DEF DatasetInv, DatasetInvOf, StartInit
  <1> HIDE DEF n
  <1>3. OwnedBy(catalog, n)
    BY <1>1 DEF OwnedBy, OwningPc, MigratingPc, MigratedPc, LoadingPc
  <1>4. MigratedBy(catalog, n)
    BY <1>1 DEF MigratedBy, StartingPc, MigratingPc, MigratedPc, LoadingPc
  <1>5. LoadedBy(catalog, n)
    BY <1>1 DEF LoadedBy, LoadingPc
  <1>6. DatasetInvOf(catalog, n)
    BY <1>1, <1>2, <1>3, <1>4, <1>5 DEF DatasetInvOf
  <1> QED
    BY <1>2, <1>6, MoveOK

LEMMA FindSchemaKeeps ==
  ASSUME DatasetInv, FindSchema PROVE DatasetInv'
  <1>1. PICK p \in InitPc : p = IF catalog.owner = "none" THEN "create" ELSE "bootstrap"
    BY LabelsAre
  <1> DEFINE n == [init EXCEPT !.pc = p]
  <1>2. /\ init \in InitRecord /\ init.pc = "schema" /\ ~init.created
        /\ init.migration = "plan_data_v2_columns"
        /\ init' = n /\ UNCHANGED catalog /\ CatalogSound(catalog)
    BY <1>1 DEF DatasetInv, DatasetInvOf, FindSchema, At, OwnedBy, MigratedBy, StartingPc
  <1>3. /\ n \in InitRecord /\ n.pc = p /\ n.created = init.created
        /\ n.migration = init.migration
    BY <1>1, <1>2, Relabelled
  <1> HIDE DEF n
  <1>4. OwnedBy(catalog, n)
    BY <1>1, <1>2, <1>3 DEF OwnedBy, OwningPc, MigratingPc, MigratedPc, LoadingPc
  <1>5. MigratedBy(catalog, n)
    BY <1>1, <1>2, <1>3 DEF MigratedBy, StartingPc, MigratingPc, MigratedPc, LoadingPc
  <1>6. LoadedBy(catalog, n)
    BY <1>1, <1>3 DEF LoadedBy, LoadingPc
  <1>7. DatasetInvOf(catalog, n)
    BY <1>2, <1>3, <1>4, <1>5, <1>6 DEF DatasetInvOf
  <1> QED
    BY <1>2, <1>7, MoveOK

LEMMA CreateSchemaKeeps ==
  ASSUME DatasetInv, CreateSchema PROVE DatasetInv'
  <1>1. /\ init \in InitRecord /\ init.pc = "create" /\ ~init.created
        /\ init.migration = "plan_data_v2_columns" /\ CatalogSound(catalog)
    BY DEF DatasetInv, DatasetInvOf, CreateSchema, At, OwnedBy, MigratedBy, StartingPc
  <1>2. CASE /\ catalog.owner = "none"
             /\ catalog' = [catalog EXCEPT !.owner = "gsbench"]
             /\ \E reply \in BOOLEAN :
                  init' = [init EXCEPT !.pc = "bootstrap", !.created = reply]
    <2>1. PICK reply \in BOOLEAN : init' = [init EXCEPT !.pc = "bootstrap", !.created = reply]
      BY <1>2
    <2> DEFINE n == [init EXCEPT !.pc = "bootstrap", !.created = reply]
               c == [catalog EXCEPT !.owner = "gsbench"]
    <2>2. /\ n \in InitRecord /\ n.pc = "bootstrap" /\ n.created = reply
          /\ n.migration = init.migration
      BY <1>1, LabelsAre DEF InitRecord
    <2>3. /\ c \in Catalog /\ c.owner = "gsbench" /\ c.marker = catalog.marker /\ c.meta = catalog.meta
          /\ c.rows = catalog.rows /\ c.high = catalog.high /\ c.v2 = catalog.v2 /\ c.v3 = catalog.v3
          /\ c.migrated = catalog.migrated
      BY <1>1 DEF CatalogSound, Catalog
    <2> HIDE DEF n, c
    <2>4. CatalogSound(c)
      BY <1>1, <2>3 DEF CatalogSound, MovedBy
    <2>5. OwnedBy(c, n)
      BY <2>2, <2>3 DEF OwnedBy, OwningPc, MigratingPc, MigratedPc, LoadingPc
    <2>6. MigratedBy(c, n)
      BY <1>1, <2>2 DEF MigratedBy, StartingPc, MigratingPc, MigratedPc, LoadingPc
    <2>7. LoadedBy(c, n)
      BY <2>2 DEF LoadedBy, LoadingPc
    <2>8. DatasetInvOf(c, n)
      BY <2>2, <2>4, <2>5, <2>6, <2>7 DEF DatasetInvOf
    <2> QED
      BY <1>2, <2>1, <2>8 DEF DatasetInv, c, n
  <1>3. CASE catalog.owner = "none" /\ Fail /\ UNCHANGED catalog
    BY <1>3, FailOK
  <1>4. CASE /\ catalog.owner # "none"
             /\ init' = [init EXCEPT !.pc = "bootstrap"]
             /\ UNCHANGED catalog
    <2> DEFINE n == [init EXCEPT !.pc = "bootstrap"]
    <2>1. /\ n \in InitRecord /\ n.pc = "bootstrap" /\ ~n.created
          /\ n.migration = init.migration
      BY <1>1, LabelsAre, Relabelled
    <2> HIDE DEF n
    <2>2. OwnedBy(catalog, n)
      BY <1>4, <2>1 DEF OwnedBy, OwningPc, MigratingPc, MigratedPc, LoadingPc
    <2>3. MigratedBy(catalog, n)
      BY <1>1, <2>1 DEF MigratedBy, StartingPc, MigratingPc, MigratedPc, LoadingPc
    <2>4. LoadedBy(catalog, n)
      BY <2>1 DEF LoadedBy, LoadingPc
    <2>5. DatasetInvOf(catalog, n)
      BY <1>1, <2>1, <2>2, <2>3, <2>4 DEF DatasetInvOf
    <2> QED
      BY <1>4, <2>5, MoveOK DEF n
  <1> QED
    BY <1>2, <1>3, <1>4 DEF CreateSchema

LEMMA FindMarkerKeeps ==
  ASSUME DatasetInv, FindMarker PROVE DatasetInv'
  <1>1. /\ init \in InitRecord /\ init.pc = "bootstrap"
        /\ init.created => catalog.owner = "gsbench"
        /\ init.migration = "plan_data_v2_columns" /\ CatalogSound(catalog)
    BY DEF DatasetInv, DatasetInvOf, FindMarker, At, OwnedBy, MigratedBy, StartingPc
  <1>2. CASE /\ ~catalog.meta /\ init.created
             /\ Statement([catalog EXCEPT !.meta = TRUE], [init EXCEPT !.pc = "mark"])
    <2> DEFINE n == [init EXCEPT !.pc = "mark"]
               c == [catalog EXCEPT !.meta = TRUE]
    <2>1. n \in InitRecord /\ n.pc = "mark" /\ n.migration = init.migration
      BY <1>1, LabelsAre, Relabelled
    <2>2. /\ c \in Catalog /\ c.owner = catalog.owner /\ c.marker = catalog.marker /\ c.meta
          /\ c.rows = catalog.rows /\ c.high = catalog.high /\ c.v2 = catalog.v2 /\ c.v3 = catalog.v3
          /\ c.migrated = catalog.migrated
      BY <1>1 DEF CatalogSound, Catalog
    <2> HIDE DEF n, c
    <2>3. CatalogSound(c)
      BY <1>1, <2>2 DEF CatalogSound, MovedBy
    <2>4. c.owner = "gsbench" /\ c.marker = "none"
      BY <1>1, <1>2, <2>2 DEF CatalogSound
    <2>5. OwnedBy(c, n)
      BY <2>1, <2>2, <2>4 DEF OwnedBy, OwningPc, MigratingPc, MigratedPc, LoadingPc
    <2>6. MigratedBy(c, n)
      BY <1>1, <2>1 DEF MigratedBy, StartingPc, MigratingPc, MigratedPc, LoadingPc
    <2>7. LoadedBy(c, n)
      BY <2>1 DEF LoadedBy, LoadingPc
    <2>8. DatasetInvOf(c, n)
      BY <2>1, <2>3, <2>5, <2>6, <2>7 DEF DatasetInvOf
    <2> QED
      BY <1>2, <2>8, StatementOK DEF c, n
  <1>3. CASE Fail /\ UNCHANGED catalog
    BY <1>3, FailOK
  <1>4. CASE /\ catalog.meta /\ catalog.marker \in TrustedVersions
             /\ init' = [init EXCEPT !.pc = "tables"]
             /\ UNCHANGED catalog
    <2> DEFINE n == [init EXCEPT !.pc = "tables"]
    <2>1. n \in InitRecord /\ n.pc = "tables" /\ n.migration = init.migration
      BY <1>1, LabelsAre, Relabelled
    <2> HIDE DEF n
    <2>2. catalog.marker # "none" /\ catalog.owner = "gsbench" /\ catalog.meta
      BY <1>1, <1>4, NoMarkerIsUntrusted DEF CatalogSound
    <2>3. OwnedBy(catalog, n)
      BY <2>1, <2>2 DEF OwnedBy, OwningPc, MigratingPc, MigratedPc, LoadingPc
    <2>4. MigratedBy(catalog, n)
      BY <1>1, <2>1 DEF MigratedBy, StartingPc, MigratingPc, MigratedPc, LoadingPc
    <2>5. LoadedBy(catalog, n)
      BY <2>1 DEF LoadedBy, LoadingPc
    <2>6. DatasetInvOf(catalog, n)
      BY <1>1, <2>1, <2>3, <2>4, <2>5 DEF DatasetInvOf
    <2> QED
      BY <1>4, <2>6, MoveOK DEF n
  <1> QED
    BY <1>2, <1>3, <1>4 DEF FindMarker

\* What a dataset keeps when its marker becomes the current version.
LEMMA Versioned ==
  ASSUME CatalogSound(catalog), catalog.owner = "gsbench", catalog.meta,
         catalog.rows["plan_data"] \subseteq catalog.v2 \cap catalog.v3
  PROVE  LET c == [catalog EXCEPT !.marker = CurrentVersion]
         IN  /\ CatalogSound(c) /\ c.owner = "gsbench" /\ c.meta /\ c.marker # "none"
  <1> DEFINE c == [catalog EXCEPT !.marker = CurrentVersion]
  <1>1. /\ c \in Catalog /\ c.owner = catalog.owner /\ c.marker = CurrentVersion
        /\ c.meta = catalog.meta
        /\ c.rows = catalog.rows /\ c.high = catalog.high /\ c.v2 = catalog.v2 /\ c.v3 = catalog.v3
        /\ c.migrated = catalog.migrated
    BY NoMarkerIsUntrusted DEF CatalogSound, Catalog
  <1> HIDE DEF c
  <1>2. CatalogSound(c)
    BY <1>1, NoMarkerIsUntrusted DEF CatalogSound, MovedBy
  <1> QED
    BY <1>1, <1>2, NoMarkerIsUntrusted DEF c

LEMMA MarkOwnedKeeps ==
  ASSUME DatasetInv, MarkOwned PROVE DatasetInv'
  <1>1. /\ init \in InitRecord /\ init.pc = "mark" /\ init.migration = "plan_data_v2_columns"
        /\ CatalogSound(catalog) /\ catalog.owner = "gsbench" /\ catalog.meta
        /\ catalog.marker = "none"
    BY DEF DatasetInv, DatasetInvOf, MarkOwned, At, OwnedBy, OwningPc, MigratedBy, StartingPc
  <1> DEFINE n == [init EXCEPT !.pc = "tables"]
             c == [catalog EXCEPT !.marker = CurrentVersion]
  <1>2. n \in InitRecord /\ n.pc = "tables" /\ n.migration = init.migration
    BY <1>1, LabelsAre, Relabelled
  <1>3. catalog.rows["plan_data"] = {}
    BY <1>1 DEF CatalogSound
  <1>4. CatalogSound(c) /\ c.owner = "gsbench" /\ c.meta /\ c.marker # "none"
    BY <1>1, <1>3, Versioned
  <1> HIDE DEF n, c
  <1>5. OwnedBy(c, n)
    BY <1>2, <1>4 DEF OwnedBy, OwningPc, MigratingPc, MigratedPc, LoadingPc
  <1>6. MigratedBy(c, n)
    BY <1>1, <1>2 DEF MigratedBy, StartingPc, MigratingPc, MigratedPc, LoadingPc
  <1>7. LoadedBy(c, n)
    BY <1>2 DEF LoadedBy, LoadingPc
  <1>8. DatasetInvOf(c, n)
    BY <1>2, <1>4, <1>5, <1>6, <1>7 DEF DatasetInvOf
  <1> QED
    BY <1>8, StatementOK DEF MarkOwned, c, n

LEMMA EnsureTablesKeeps ==
  ASSUME DatasetInv, EnsureTables PROVE DatasetInv'
  <1>1. /\ init \in InitRecord /\ init.pc = "tables" /\ init.migration = "plan_data_v2_columns"
        /\ CatalogSound(catalog) /\ catalog.owner = "gsbench" /\ catalog.meta
        /\ catalog.marker # "none"
    BY DEF DatasetInv, DatasetInvOf, EnsureTables, At, OwnedBy, OwningPc, MigratedBy, StartingPc
  <1> DEFINE n == [init EXCEPT !.pc = "migrate"]
             c == [catalog EXCEPT !.tables = TRUE]
  <1>2. n \in InitRecord /\ n.pc = "migrate" /\ n.migration = init.migration
    BY <1>1, LabelsAre, Relabelled
  <1>3. /\ c \in Catalog /\ c.owner = catalog.owner /\ c.marker = catalog.marker
        /\ c.meta = catalog.meta
        /\ c.rows = catalog.rows /\ c.high = catalog.high /\ c.v2 = catalog.v2 /\ c.v3 = catalog.v3
        /\ c.migrated = catalog.migrated
    BY <1>1 DEF CatalogSound, Catalog
  <1> HIDE DEF n, c
  <1>4. CatalogSound(c)
    BY <1>1, <1>3 DEF CatalogSound, MovedBy
  <1>5. OwnedBy(c, n)
    BY <1>1, <1>2, <1>3 DEF OwnedBy, OwningPc, MigratingPc, MigratedPc, LoadingPc
  <1>6. MigratedBy(c, n)
    BY <1>1, <1>2 DEF MigratedBy, StartingPc, MigratingPc, MigratedPc, LoadingPc
  <1>7. LoadedBy(c, n)
    BY <1>2 DEF LoadedBy, LoadingPc
  <1>8. DatasetInvOf(c, n)
    BY <1>2, <1>4, <1>5, <1>6, <1>7 DEF DatasetInvOf
  <1> QED
    BY <1>8, StatementOK DEF EnsureTables, c, n

-----------------------------------------------------------------------------
(* The steps keep the invariant: the migrations.                             *)

\* What a migration knows while it runs.
LEMMA Migrating ==
  ASSUME DatasetInv, init.pc \in MigratingPc
  PROVE  /\ init \in InitRecord /\ init.migration \in Migration
         /\ CatalogSound(catalog) /\ catalog.owner = "gsbench" /\ catalog.meta
         /\ catalog.marker # "none"
         /\ init.migration = "plan_data_v3_stats_target" => catalog.rows["plan_data"] \subseteq catalog.v2
  BY DEF DatasetInv, DatasetInvOf, OwnedBy, OwningPc, MigratedBy, InitRecord, MigratingPc

\* Where a migrating init can be afterwards, whatever it has changed of the rows.
LEMMA MigratingOn ==
  ASSUME NEW c, NEW n \in InitRecord, n.pc \in MigratingPc, CatalogSound(c),
         c.owner = "gsbench", c.meta, c.marker # "none",
         n.migration = "plan_data_v3_stats_target" => c.rows["plan_data"] \subseteq c.v2,
         n.pc # "migrate" => n.start \in Nat /\ 1..n.start \subseteq MovedBy(c, n.migration)
  PROVE  DatasetInvOf(c, n)
  <1>1. OwnedBy(c, n)
    BY DEF OwnedBy, OwningPc, MigratingPc, MigratedPc, LoadingPc
  <1>2. MigratedBy(c, n)
    BY DEF MigratedBy, StartingPc, MigratingPc, MigratedPc, LoadingPc
  <1>3. LoadedBy(c, n)
    BY DEF LoadedBy, MigratingPc, LoadingPc
  <1> QED
    BY <1>1, <1>2, <1>3 DEF DatasetInvOf

LEMMA PlanDataIsTable == "plan_data" \in DatasetTables /\ MigrationBatch \in Nat \ {0}
  BY DatasetAssumption

LEMMA UpdateRowsKeeps ==
  ASSUME DatasetInv, UpdateRows PROVE DatasetInv'
  <1>1. init.pc = "migrate" /\ init.pc \in MigratingPc
    BY DEF UpdateRows, At, MigratingPc
  <1>2. PICK high \in Nat, from \in Nat :
          high = catalog.high["plan_data"] /\ from = catalog.migrated[init.migration]
    BY <1>1, Migrating, PlanDataIsTable DEF CatalogSound, Catalog
  <1>3. PICK end \in Nat : end = MigrationEnd
    BY <1>2, PlanDataIsTable DEF MigrationEnd
  <1>4. PICK ids \in SUBSET Nat : ids = (from + 1)..end
    <2>1. (from + 1)..end \subseteq Nat
      BY <1>2, <1>3
    <2> QED
      BY <2>1
  <1>5. PICK m \in Migration : m = init.migration
    BY <1>1, Migrating
  <1>6. PICK changed \in SUBSET DatasetTables : changed = init.changed \cup {"plan_data"}
    <2>1. init.changed \in SUBSET DatasetTables
      BY <1>1, Migrating DEF InitRecord
    <2> QED
      BY <2>1, PlanDataIsTable
  <1> DEFINE c == Moved(catalog, m, ids)
             n == [init EXCEPT !.pc = "unmark", !.start = end, !.changed = changed]
  <1>7. n \in InitRecord /\ n.pc = "unmark" /\ n.start = end /\ n.migration = init.migration
    <2>1. end \in Int /\ init \in InitRecord /\ "unmark" \in InitPc
      BY <1>1, <1>3, Migrating, LabelsAre
    <2> QED
      BY <1>6, <2>1 DEF InitRecord
  <1>8. Statement(c, n)
    <2>1. Statement(Moved(catalog, init.migration, (catalog.migrated[init.migration] + 1)..MigrationEnd),
                    [init EXCEPT !.pc = "unmark", !.start = MigrationEnd, !.changed = @ \cup {"plan_data"}])
      BY DEF UpdateRows
    <2>2. [init EXCEPT !.pc = "unmark", !.start = MigrationEnd, !.changed = @ \cup {"plan_data"}] = n
      BY <1>1, <1>3, <1>6, Migrating DEF InitRecord
    <2> QED
      BY <1>2, <1>3, <1>4, <1>5, <2>1, <2>2
  <1>9. /\ c \in Catalog /\ c.owner = catalog.owner /\ c.marker = catalog.marker
        /\ c.meta = catalog.meta /\ c.rows = catalog.rows /\ c.high = catalog.high
        /\ c.migrated = catalog.migrated
        /\ catalog.v2 \subseteq c.v2 /\ catalog.v3 \subseteq c.v3
        /\ ids \subseteq MovedBy(c, m)
    <2>1. catalog \in Catalog
      BY <1>1, Migrating DEF CatalogSound
    <2>2. CASE m = "plan_data_v2_columns"
      <3>1. c = [catalog EXCEPT !.v2 = @ \cup ids]
        BY <2>2 DEF Moved
      <3> HIDE DEF c
      <3> QED
        BY <1>4, <2>1, <2>2, <3>1 DEF Catalog, MovedBy
    <2>3. CASE m # "plan_data_v2_columns"
      <3>1. c = [catalog EXCEPT !.v3 = @ \cup ids]
        BY <2>3 DEF Moved
      <3> HIDE DEF c
      <3> QED
        BY <1>4, <2>1, <2>3, <3>1 DEF Catalog, MovedBy
    <2> QED
      BY <2>2, <2>3
  <1> HIDE DEF c, n
  <1>10. \A x : MovedBy(catalog, x) \subseteq MovedBy(c, x)
    BY <1>9 DEF MovedBy
  <1>11. CatalogSound(c)
    BY <1>1, <1>9, <1>10, Migrating DEF CatalogSound
  <1>12. 1..end \subseteq MovedBy(c, m)
    <2>1. 1..from \subseteq MovedBy(c, m)
      BY <1>1, <1>2, <1>5, <1>10, Migrating DEF CatalogSound
    <2>2. 1..end \subseteq (1..from) \cup ids
      BY <1>2, <1>3, <1>4
    <2> QED
      BY <1>9, <2>1, <2>2
  <1>13. DatasetInvOf(c, n)
    BY <1>1, <1>3, <1>5, <1>7, <1>9, <1>11, <1>12, Migrating, MigratingOn DEF MigratingPc
  <1> QED
    BY <1>8, <1>13, StatementOK

\* What a dataset keeps when a migration's mark is set to something true.
LEMMA Marked ==
  ASSUME CatalogSound(catalog), NEW m \in Migration, NEW x \in Nat, 1..x \subseteq MovedBy(catalog, m)
  PROVE  LET c == [catalog EXCEPT !.migrated[m] = x]
         IN  /\ CatalogSound(c)
             /\ c.owner = catalog.owner /\ c.marker = catalog.marker /\ c.meta = catalog.meta
             /\ c.rows = catalog.rows /\ c.v2 = catalog.v2 /\ c.v3 = catalog.v3
             /\ \A y : MovedBy(c, y) = MovedBy(catalog, y)
  <1>1. catalog \in Catalog
    BY DEF CatalogSound
  <1>2. PICK migrated \in [Migration -> Nat] : migrated = [catalog.migrated EXCEPT ![m] = x]
    BY <1>1 DEF Catalog
  <1> DEFINE c == [catalog EXCEPT !.migrated[m] = x]
  <1>3. c = [catalog EXCEPT !.migrated = migrated]
    BY <1>1, <1>2 DEF Catalog
  <1>4. /\ c \in Catalog /\ c.owner = catalog.owner /\ c.marker = catalog.marker
        /\ c.meta = catalog.meta /\ c.rows = catalog.rows /\ c.high = catalog.high
        /\ c.v2 = catalog.v2 /\ c.v3 = catalog.v3 /\ c.migrated = migrated
    <2> HIDE DEF c
    <2> QED
      BY <1>1, <1>2, <1>3 DEF Catalog
  <1> HIDE DEF c
  <1>5. \A y : MovedBy(c, y) = MovedBy(catalog, y)
    BY <1>4 DEF MovedBy
  <1>6. \A y \in Migration : 1..migrated[y] \subseteq MovedBy(c, y)
    BY <1>1, <1>2, <1>5 DEF CatalogSound, Catalog
  <1>7. CatalogSound(c)
    BY <1>4, <1>6 DEF CatalogSound
  <1> QED
    BY <1>4, <1>5, <1>7 DEF c

LEMMA RemoveMarkKeeps ==
  ASSUME DatasetInv, RemoveMark PROVE DatasetInv'
  <1>1. /\ init.pc = "unmark" /\ init.pc \in MigratingPc
        /\ init.start \in Nat /\ 1..init.start \subseteq MovedBy(catalog, init.migration)
    BY DEF RemoveMark, At, MigratingPc, DatasetInv, DatasetInvOf, MigratedBy
  <1> DEFINE n == [init EXCEPT !.pc = "remark"]
             c == [catalog EXCEPT !.migrated[init.migration] = 0]
  <1>2. n \in InitRecord /\ n.pc = "remark" /\ n.start = init.start /\ n.migration = init.migration
    BY <1>1, Migrating, LabelsAre, Relabelled
  <1>3. 1..0 = {} /\ 0 \in Nat
    OBVIOUS
  <1>4. /\ CatalogSound(c)
        /\ c.owner = catalog.owner /\ c.marker = catalog.marker /\ c.meta = catalog.meta
        /\ c.rows = catalog.rows /\ c.v2 = catalog.v2 /\ c.v3 = catalog.v3
        /\ \A y : MovedBy(c, y) = MovedBy(catalog, y)
    BY <1>1, <1>3, Migrating, Marked
  <1>5. Statement(c, n)
    BY DEF RemoveMark
  <1> HIDE DEF c, n
  <1>6. DatasetInvOf(c, n)
    BY <1>1, <1>2, <1>4, Migrating, MigratingOn DEF MigratingPc
  <1> QED
    BY <1>5, <1>6, StatementOK

LEMMA InsertMarkKeeps ==
  ASSUME DatasetInv, InsertMark PROVE DatasetInv'
  <1>1. /\ init.pc = "remark" /\ init.pc \in MigratingPc
        /\ init.start \in Nat /\ 1..init.start \subseteq MovedBy(catalog, init.migration)
    BY DEF InsertMark, At, MigratingPc, DatasetInv, DatasetInvOf, MigratedBy
  <1> DEFINE n == [init EXCEPT !.pc = "migrate"]
             c == [catalog EXCEPT !.migrated[init.migration] = init.start]
  <1>2. n \in InitRecord /\ n.pc = "migrate" /\ n.migration = init.migration
    BY <1>1, Migrating, LabelsAre, Relabelled
  <1>3. /\ CatalogSound(c)
        /\ c.owner = catalog.owner /\ c.marker = catalog.marker /\ c.meta = catalog.meta
        /\ c.rows = catalog.rows /\ c.v2 = catalog.v2 /\ c.v3 = catalog.v3
    BY <1>1, Migrating, Marked
  <1>4. Statement(c, n)
    BY DEF InsertMark
  <1> HIDE DEF c, n
  <1>5. DatasetInvOf(c, n)
    BY <1>1, <1>2, <1>3, Migrating, MigratingOn DEF MigratingPc
  <1> QED
    BY <1>4, <1>5, StatementOK

LEMMA EndMigrationKeeps ==
  ASSUME DatasetInv, EndMigration PROVE DatasetInv'
  <1>1. init.pc = "migrate" /\ init.pc \in MigratingPc /\ UNCHANGED catalog
    BY DEF EndMigration, At, MigratingPc
  <1>2. catalog.rows["plan_data"] \subseteq MovedBy(catalog, init.migration)
    <2>1. PICK high \in Nat, from \in Nat :
            high = catalog.high["plan_data"] /\ from = catalog.migrated[init.migration]
      BY <1>1, Migrating, PlanDataIsTable DEF CatalogSound, Catalog
    <2>2. from >= high
      BY <2>1 DEF EndMigration
    <2>3. catalog.rows["plan_data"] = 1..high /\ 1..from \subseteq MovedBy(catalog, init.migration)
      BY <1>1, <2>1, Migrating, PlanDataIsTable DEF CatalogSound
    <2>4. 1..high \subseteq 1..from
      BY <2>2
    <2> QED
      BY <2>3, <2>4
  <1>3. CASE init.migration = "plan_data_v2_columns"
    <2> DEFINE n == [init EXCEPT !.migration = "plan_data_v3_stats_target"]
    <2>1. n \in InitRecord /\ n.pc = "migrate"
      BY <1>1, Migrating DEF InitRecord, Migration
    <2>2. init' = n
      BY <1>3 DEF EndMigration
    <2>3. catalog.rows["plan_data"] \subseteq catalog.v2
      BY <1>2, <1>3 DEF MovedBy
    <2> HIDE DEF n
    <2>4. DatasetInvOf(catalog, n)
      BY <1>1, <2>1, <2>3, Migrating, MigratingOn DEF MigratingPc
    <2> QED
      BY <1>1, <2>2, <2>4, MoveOK
  <1>4. CASE init.migration # "plan_data_v2_columns"
    <2> DEFINE n == [init EXCEPT !.pc = "converge"]
    <2>1. n \in InitRecord /\ n.pc = "converge"
      BY <1>1, Migrating, LabelsAre, Relabelled
    <2>2. init' = n
      BY <1>4 DEF EndMigration
    <2> HIDE DEF n
    <2>3. catalog.rows["plan_data"] \subseteq catalog.v2 \cap catalog.v3
      BY <1>1, <1>2, <1>4, Migrating DEF MovedBy, Migration
    <2>4. OwnedBy(catalog, n)
      BY <1>1, <2>1, Migrating DEF OwnedBy, OwningPc, MigratingPc, MigratedPc, LoadingPc
    <2>5. MigratedBy(catalog, n)
      BY <2>1, <2>3 DEF MigratedBy, StartingPc, MigratingPc, MigratedPc, LoadingPc
    <2>6. LoadedBy(catalog, n)
      BY <2>1 DEF LoadedBy, LoadingPc
    <2>7. DatasetInvOf(catalog, n)
      BY <1>1, <2>1, <2>4, <2>5, <2>6, Migrating DEF DatasetInvOf
    <2> QED
      BY <1>1, <2>2, <2>7, MoveOK
  <1> QED
    BY <1>3, <1>4

-----------------------------------------------------------------------------
(* The steps keep the invariant: the load and what follows it.               *)

\* What an init knows once the migrations are over.
LEMMA Loading ==
  ASSUME DatasetInv, init.pc \in MigratedPc
  PROVE  /\ init \in InitRecord /\ catalog \in Catalog
         /\ CatalogSound(catalog) /\ catalog.owner = "gsbench" /\ catalog.meta
         /\ catalog.marker # "none"
         /\ catalog.rows["plan_data"] \subseteq catalog.v2 \cap catalog.v3
         /\ PhysicalSize(catalog) \in Nat
  <1>1. /\ init \in InitRecord /\ CatalogSound(catalog)
        /\ catalog.owner = "gsbench" /\ catalog.meta /\ catalog.marker # "none"
        /\ catalog.rows["plan_data"] \subseteq catalog.v2 \cap catalog.v3
    BY DEF DatasetInv, DatasetInvOf, OwnedBy, OwningPc, MigratedBy, MigratedPc, LoadingPc
  <1> QED
    BY <1>1, SizeIsNat DEF CatalogSound

\* Where it can be afterwards.
LEMMA LoadingOn ==
  ASSUME NEW c, NEW n \in InitRecord, n.pc \in MigratedPc, CatalogSound(c),
         c.owner = "gsbench", c.meta, c.marker # "none",
         c.rows["plan_data"] \subseteq c.v2 \cap c.v3, LoadedBy(c, n)
  PROVE  DatasetInvOf(c, n)
  <1>1. OwnedBy(c, n)
    BY DEF OwnedBy, OwningPc, MigratingPc, MigratedPc, LoadingPc
  <1>2. MigratedBy(c, n)
    BY DEF MigratedBy, StartingPc, MigratingPc, MigratedPc, LoadingPc
  <1> QED
    BY <1>1, <1>2 DEF DatasetInvOf

\* The catalog stays as it is.
LEMMA LoadingMove ==
  ASSUME DatasetInv, init.pc \in MigratedPc, NEW n \in InitRecord, n.pc \in MigratedPc,
         LoadedBy(catalog, n), init' = n, UNCHANGED catalog
  PROVE  DatasetInv'
  <1>1. DatasetInvOf(catalog, n)
    BY Loading, LoadingOn
  <1> QED
    BY <1>1, MoveOK

LEMMA ConvergePlanDataKeeps ==
  ASSUME DatasetInv, ConvergePlanData PROVE DatasetInv'
  <1>1. init.pc = "converge" /\ init.pc \in MigratedPc
    BY DEF ConvergePlanData, At, MigratedPc
  <1> DEFINE n == [init EXCEPT !.pc = "sample"]
  <1>2. n \in InitRecord /\ n.pc = "sample"
    BY <1>1, Loading, LabelsAre, Relabelled
  <1>3. Statement(catalog, n) \/ (Fail /\ UNCHANGED catalog)
    BY DEF ConvergePlanData
  <1> HIDE DEF n
  <1>4. LoadedBy(catalog, n)
    BY <1>2 DEF LoadedBy, LoadingPc
  <1>5. DatasetInvOf(catalog, n)
    BY <1>1, <1>2, <1>4, Loading, LoadingOn DEF MigratedPc
  <1> QED
    BY <1>3, <1>5, StatementOK, FailOK

LEMMA FirstSampleKeeps ==
  ASSUME DatasetInv, FirstSample PROVE DatasetInv'
  <1>1. init.pc = "sample" /\ init.pc \in MigratedPc /\ UNCHANGED catalog
    BY DEF FirstSample, At, MigratedPc
  <1>2. PICK inspect \in BOOLEAN :
          init' = [init EXCEPT !.pc = "load", !.inspect = inspect,
                               !.size = IF inspect THEN PhysicalSize(catalog) ELSE 0,
                               !.stop = inspect /\ NearTarget(IF inspect THEN PhysicalSize(catalog) ELSE 0),
                               !.queue = DOMAIN BatchOf, !.sorted = inspect]
    BY DEF FirstSample
  <1>3. PICK size \in Int : size = IF inspect THEN PhysicalSize(catalog) ELSE 0
    BY <1>1, Loading
  <1>4. PICK stop \in BOOLEAN : stop = (inspect /\ NearTarget(size))
    OBVIOUS
  <1> DEFINE n == [init EXCEPT !.pc = "load", !.inspect = inspect, !.size = size, !.stop = stop,
                               !.queue = DOMAIN BatchOf, !.sorted = inspect]
  <1>5. init' = n
    BY <1>2, <1>3, <1>4
  <1>6. n \in InitRecord /\ n.pc = "load" /\ n.inspect = inspect /\ n.size = size
    <2>1. init \in InitRecord /\ "load" \in InitPc
      BY <1>1, Loading, LabelsAre
    <2> QED
      BY <1>3, <1>4, <2>1 DEF InitRecord
  <1> HIDE DEF n
  <1>7. LoadedBy(catalog, n)
    BY <1>3, <1>6 DEF LoadedBy
  <1> QED
    BY <1>1, <1>5, <1>6, <1>7, LoadingMove DEF MigratedPc, LoadingPc

\* The first of the batches that are left.
LEMMA TableIs ==
  ASSUME DatasetInv, init.queue # {}
  PROVE  /\ FirstOf(init.queue, init.sorted) \in DOMAIN BatchOf
         /\ Table = BatchOf[FirstOf(init.queue, init.sorted)]
         /\ Table.table \in DatasetTables /\ Table.weight \in Nat /\ Table.rowBytes \in Nat \ {0}
         /\ Table.rows \in Nat /\ Table.size \in Nat \ {0}
         /\ catalog.high[Table.table] \in Nat
         /\ Rest \in SUBSET DOMAIN BatchOf
  <1>1. init.queue \in SUBSET DOMAIN BatchOf /\ CatalogSound(catalog)
    BY DEF DatasetInv, DatasetInvOf, InitRecord
  <1>2. FirstOf(init.queue, init.sorted) \in DOMAIN BatchOf
    BY <1>1, FirstIsOne
  <1>3. Rest \in SUBSET DOMAIN BatchOf
    BY <1>1 DEF Rest
  <1>4. /\ Table.table \in DatasetTables /\ Table.weight \in Nat /\ Table.rowBytes \in Nat \ {0}
        /\ Table.rows \in Nat /\ Table.size \in Nat \ {0}
    BY <1>2, BatchFacts DEF Table
  <1>5. catalog.high[Table.table] \in Nat
    BY <1>1, <1>4 DEF CatalogSound, Catalog
  <1> QED
    BY <1>2, <1>3, <1>4, <1>5 DEF Table

LEMMA SkipTableKeeps ==
  ASSUME DatasetInv, SkipTable PROVE DatasetInv'
  <1>1. init.pc = "load" /\ init.pc \in MigratedPc /\ UNCHANGED catalog /\ init.queue # {}
    BY DEF SkipTable, At, MigratedPc, LoadingPc
  <1> DEFINE n == [init EXCEPT !.queue = Rest]
  <1>2. /\ n \in InitRecord /\ n.pc = "load" /\ n.inspect = init.inspect /\ n.size = init.size
        /\ init' = n
    <2>1. init \in InitRecord /\ Rest \in SUBSET DOMAIN BatchOf
      BY <1>1, Loading, TableIs
    <2> QED
      BY <1>1, <2>1 DEF InitRecord, SkipTable
  <1> HIDE DEF n
  <1>3. LoadedBy(catalog, n)
    BY <1>1, <1>2 DEF LoadedBy, LoadingPc, DatasetInv, DatasetInvOf
  <1> QED
    BY <1>1, <1>2, <1>3, LoadingMove DEF MigratedPc, LoadingPc

LEMMA OpenTableKeeps ==
  ASSUME DatasetInv, OpenTable PROVE DatasetInv'
  <1>1. init.pc = "load" /\ init.pc \in MigratedPc /\ UNCHANGED catalog /\ init.queue # {}
    BY DEF OpenTable, At, MigratedPc, LoadingPc
  <1>2. PICK start \in Int : start = catalog.high[Table.table] + 1
    BY <1>1, TableIs
  <1> DEFINE n == [init EXCEPT !.pc = "batch", !.start = start]
  <1>3. /\ n \in InitRecord /\ n.pc = "batch" /\ n.inspect = init.inspect /\ n.size = init.size
        /\ n.queue = init.queue /\ n.sorted = init.sorted /\ n.start = start
        /\ init' = n
    <2>1. init \in InitRecord /\ "batch" \in InitPc
      BY <1>1, Loading, LabelsAre
    <2> QED
      BY <1>2, <2>1 DEF InitRecord, OpenTable
  <1> HIDE DEF n
  <1>4. LoadedBy(catalog, n)
    BY <1>1, <1>2, <1>3 DEF LoadedBy, LoadingPc, Table, DatasetInv, DatasetInvOf
  <1> QED
    BY <1>1, <1>3, <1>4, LoadingMove DEF MigratedPc, LoadingPc

LEMMA CloseTableKeeps ==
  ASSUME DatasetInv, CloseTable PROVE DatasetInv'
  <1>1. init.pc = "batch" /\ init.pc \in MigratedPc /\ UNCHANGED catalog /\ init.queue # {}
    BY DEF CloseTable, At, MigratedPc, LoadingPc, DatasetInv, DatasetInvOf, LoadedBy
  <1>2. PICK stop \in BOOLEAN : stop = (init.stop \/ (init.start <= Table.rows))
    OBVIOUS
  <1> DEFINE n == [init EXCEPT !.pc = "load", !.queue = Rest, !.stop = stop]
  <1>3. /\ n \in InitRecord /\ n.pc = "load" /\ n.inspect = init.inspect /\ n.size = init.size
        /\ init' = n
    <2>1. init \in InitRecord /\ Rest \in SUBSET DOMAIN BatchOf /\ "load" \in InitPc
      BY <1>1, Loading, TableIs, LabelsAre
    <2>2. n \in InitRecord /\ n.pc = "load" /\ n.inspect = init.inspect /\ n.size = init.size
      BY <1>2, <2>1 DEF InitRecord
    <2>3. init' = n
      BY <1>2, <2>1 DEF InitRecord, CloseTable
    <2> QED
      BY <2>2, <2>3
  <1> HIDE DEF n
  <1>4. LoadedBy(catalog, n)
    BY <1>1, <1>3 DEF LoadedBy, LoadingPc, DatasetInv, DatasetInvOf
  <1> QED
    BY <1>1, <1>3, <1>4, LoadingMove DEF MigratedPc, LoadingPc

LEMMA EndLoadKeeps ==
  ASSUME DatasetInv, EndLoad PROVE DatasetInv'
  <1>1. init.pc = "load" /\ init.pc \in MigratedPc /\ UNCHANGED catalog
    BY DEF EndLoad, At, MigratedPc, LoadingPc
  <1> DEFINE n == [init EXCEPT !.pc = "index"]
  <1>2. /\ n \in InitRecord /\ n.pc = "index" /\ n.inspect = init.inspect /\ n.size = init.size
        /\ init' = n
    BY <1>1, Loading, LabelsAre, Relabelled DEF EndLoad
  <1> HIDE DEF n
  <1>3. LoadedBy(catalog, n)
    BY <1>1, <1>2 DEF LoadedBy, LoadingPc, DatasetInv, DatasetInvOf
  <1> QED
    BY <1>1, <1>2, <1>3, LoadingMove DEF MigratedPc, LoadingPc

LEMMA EndIndexesKeeps ==
  ASSUME DatasetInv, EndIndexes PROVE DatasetInv'
  <1>1. init.pc = "index" /\ init.pc \in MigratedPc /\ UNCHANGED catalog
    BY DEF EndIndexes, At, MigratedPc, LoadingPc
  <1>2. PICK p \in InitPc : p = IF init.inspect THEN "calibrate" ELSE "analyze"
    BY LabelsAre
  <1> DEFINE n == [init EXCEPT !.pc = p]
  <1>3. /\ n \in InitRecord /\ n.pc = p /\ n.inspect = init.inspect /\ n.size = init.size
        /\ init' = n
    BY <1>1, <1>2, Loading, Relabelled DEF EndIndexes
  <1> HIDE DEF n
  <1>4. LoadedBy(catalog, n)
    BY <1>1, <1>2, <1>3 DEF LoadedBy, LoadingPc, DatasetInv, DatasetInvOf
  <1> QED
    BY <1>1, <1>2, <1>3, <1>4, LoadingMove DEF MigratedPc, LoadingPc

LEMMA OpenRoundKeeps ==
  ASSUME DatasetInv, OpenRound PROVE DatasetInv'
  <1>1. init.pc = "calibrate" /\ init.pc \in MigratedPc /\ UNCHANGED catalog
    BY DEF OpenRound, At, MigratedPc, LoadingPc
  <1>2. CASE CalibrationNeeded
    <2>1. PICK deficit \in Int : deficit = (TargetBytes * 95) \div 100 - init.size
      <3>1. init.size \in Int /\ TargetBytes \in Nat
        BY <1>1, Loading, DatasetAssumption DEF InitRecord
      <3> QED
        BY <3>1
    <2>2. PICK queue \in SUBSET DOMAIN BatchOf : queue = Weighted
      BY DEF Weighted
    <2> DEFINE n == [init EXCEPT !.pc = "round", !.queue = queue, !.deficit = deficit]
    <2>3. /\ n \in InitRecord /\ n.pc = "round" /\ n.inspect = init.inspect /\ n.size = init.size
          /\ init' = n
      <3>1. init \in InitRecord /\ "round" \in InitPc
        BY <1>1, Loading, LabelsAre
      <3> QED
        BY ZenonT(60), <1>2, <2>1, <2>2, <3>1 DEF InitRecord, OpenRound
    <2> HIDE DEF n
    <2>4. LoadedBy(catalog, n)
      BY <1>1, <1>2, <2>3 DEF LoadedBy, LoadingPc, DatasetInv, DatasetInvOf, CalibrationNeeded
    <2> QED
      BY <1>1, <2>3, <2>4, LoadingMove DEF MigratedPc, LoadingPc
  <1>3. CASE ~CalibrationNeeded
    <2> DEFINE n == [init EXCEPT !.pc = "analyze"]
    <2>1. n \in InitRecord /\ n.pc = "analyze" /\ init' = n
      BY <1>1, <1>3, Loading, LabelsAre, Relabelled DEF OpenRound
    <2> HIDE DEF n
    <2>2. LoadedBy(catalog, n)
      BY <2>1 DEF LoadedBy, LoadingPc
    <2> QED
      BY <1>1, <2>1, <2>2, LoadingMove DEF MigratedPc
  <1> QED
    BY <1>2, <1>3

LEMMA CloseRoundKeeps ==
  ASSUME DatasetInv, CloseRound PROVE DatasetInv'
  <1>1. init.pc = "round" /\ init.pc \in MigratedPc /\ UNCHANGED catalog
    BY DEF CloseRound, At, MigratedPc, LoadingPc
  <1> DEFINE n == [init EXCEPT !.pc = "calibrate", !.round = @ + 1]
  <1>2. /\ n \in InitRecord /\ n.pc = "calibrate" /\ n.inspect = init.inspect /\ n.size = init.size
        /\ init' = n
    <2>1. init \in InitRecord /\ "calibrate" \in InitPc
      BY <1>1, Loading, LabelsAre
    <2>2. init.round \in Int /\ init.round + 1 \in Int
      BY <2>1 DEF InitRecord
    <2> QED
      BY <2>1, <2>2 DEF InitRecord, CloseRound
  <1> HIDE DEF n
  <1>3. LoadedBy(catalog, n)
    BY <1>1, <1>2 DEF LoadedBy, LoadingPc, DatasetInv, DatasetInvOf
  <1> QED
    BY <1>1, <1>2, <1>3, LoadingMove DEF MigratedPc, LoadingPc

\* The rows an init appends to the first batch of its queue, and what they leave.
LEMMA BatchLoaded ==
  ASSUME DatasetInv, init.pc \in MigratedPc, init.queue # {}, NEW n \in Nat \ {0}, NEW c,
         c = WithBatch(Table.table, catalog.high[Table.table] + 1, catalog.high[Table.table] + n)
  PROVE  /\ CatalogSound(c) /\ c.owner = "gsbench" /\ c.meta /\ c.marker # "none"
         /\ c.rows["plan_data"] \subseteq c.v2 \cap c.v3
         /\ c.high[Table.table] = catalog.high[Table.table] + n
         /\ PhysicalSize(c) \in Nat
         /\ PhysicalSize(c) = PhysicalSize(catalog) + (catalog.factor * Table.rowBytes) * n
  <1>1. PICK i \in DOMAIN BatchOf : Table = BatchOf[i]
    BY TableIs
  <1>2. /\ CatalogSound(catalog) /\ catalog.owner = "gsbench" /\ catalog.meta
        /\ catalog.marker # "none"
        /\ catalog.rows["plan_data"] \subseteq catalog.v2 \cap catalog.v3
    BY Loading
  <1>3. BatchAdded(WithBatch(BatchOf[i].table, catalog.high[BatchOf[i].table] + 1,
                             catalog.high[BatchOf[i].table] + n), i, n)
    BY <1>2, BatchLeaves
  <1>4. BatchAdded(c, i, n)
    BY <1>1, <1>3
  <1>5. PhysicalSize(c) \in Nat
    BY <1>4, SizeIsNat DEF BatchAdded
  <1> QED
    BY <1>1, <1>2, <1>4, <1>5 DEF BatchAdded

LEMMA LoadBatchKeeps ==
  ASSUME DatasetInv, LoadBatch PROVE DatasetInv'
  <1>1. init.pc = "batch" /\ init.pc \in MigratedPc /\ init.queue # {}
    BY DEF LoadBatch, At, MigratedPc, LoadingPc, DatasetInv, DatasetInvOf, LoadedBy
  <1>2. CASE ~Insertable(Table.table, init.start, BatchEnd)
    BY <1>2, FailOK DEF LoadBatch
  <1>3. CASE Insertable(Table.table, init.start, BatchEnd)
    <2>1. PICK i \in DOMAIN BatchOf, n \in Nat \ {0} :
            /\ i = FirstOf(init.queue, init.sorted) /\ Table = BatchOf[i]
            /\ init.start = catalog.high[BatchOf[i].table] + 1
            /\ BatchEnd = catalog.high[BatchOf[i].table] + n
      BY BatchInHand DEF LoadBatch
    <2>2. PICK c : c = WithBatch(Table.table, init.start, BatchEnd)
      OBVIOUS
    <2>3. PICK sampled \in BOOLEAN :
            Statement(c, [init EXCEPT !.start = NextBatchStart(BatchEnd),
                            !.size = IF init.inspect /\ sampled THEN PhysicalSize(c) ELSE init.size,
                            !.inspect = init.inspect /\ sampled,
                            !.stop = @ \/ ((init.inspect /\ sampled)
                               /\ NearTarget(IF init.inspect /\ sampled THEN PhysicalSize(c) ELSE init.size)),
                            !.changed = @ \cup {Table.table}])
      BY <1>3, <2>2 DEF LoadBatch
    <2>4. /\ CatalogSound(c) /\ c.owner = "gsbench" /\ c.meta /\ c.marker # "none"
          /\ c.rows["plan_data"] \subseteq c.v2 \cap c.v3
          /\ c.high[Table.table] = catalog.high[Table.table] + n
          /\ PhysicalSize(c) \in Nat
      BY <1>1, <2>1, <2>2, BatchLoaded
    <2>5. init \in InitRecord
      BY <1>1, Loading
    <2>6. PICK inspect \in BOOLEAN : inspect = (init.inspect /\ sampled)
      OBVIOUS
    <2>7. PICK size \in Int : size = IF inspect THEN PhysicalSize(c) ELSE init.size
      BY <2>4, <2>5 DEF InitRecord
    <2>8. PICK stop \in BOOLEAN : stop = (init.stop \/ (inspect /\ NearTarget(size)))
      OBVIOUS
    <2>9. PICK changed \in SUBSET DatasetTables : changed = init.changed \cup {Table.table}
      <3>1. init.changed \in SUBSET DatasetTables /\ Table.table \in DatasetTables
        BY <1>1, <2>5, TableIs DEF InitRecord
      <3> QED
        BY <3>1
    <2>10. PICK start \in Int : start = NextBatchStart(BatchEnd) /\ start = c.high[Table.table] + 1
      <3>1. catalog.high[Table.table] \in Nat
        BY <1>1, TableIs
      <3> QED
        BY <2>1, <2>4, <3>1 DEF NextBatchStart
    <2> DEFINE s == [init EXCEPT !.start = start, !.size = size, !.inspect = inspect,
                                 !.stop = stop, !.changed = changed]
    <2>11. Statement(c, s)
      <3>1. s = [init EXCEPT !.start = NextBatchStart(BatchEnd),
                            !.size = IF init.inspect /\ sampled THEN PhysicalSize(c) ELSE init.size,
                            !.inspect = init.inspect /\ sampled,
                            !.stop = @ \/ ((init.inspect /\ sampled)
                               /\ NearTarget(IF init.inspect /\ sampled THEN PhysicalSize(c) ELSE init.size)),
                            !.changed = @ \cup {Table.table}]
        BY <2>5, <2>6, <2>7, <2>8, <2>9, <2>10 DEF InitRecord
      <3> HIDE DEF s
      <3> QED
        BY <2>3, <3>1
    <2>12. /\ s \in InitRecord /\ s.pc = "batch" /\ s.queue = init.queue /\ s.sorted = init.sorted
           /\ s.start = start /\ s.inspect = inspect /\ s.size = size
      BY <1>1, <2>5, <2>6, <2>7, <2>8, <2>9, <2>10 DEF InitRecord
    <2> HIDE DEF s
    <2>13. LoadedBy(c, s)
      BY <1>1, <2>7, <2>10, <2>12 DEF LoadedBy, Table
    <2>14. DatasetInvOf(c, s)
      BY <2>4, <2>12, <2>13, LoadingOn DEF MigratedPc, LoadingPc
    <2> QED
      BY <2>11, <2>14, StatementOK
  <1> QED
    BY <1>2, <1>3

LEMMA BuildIndexKeeps ==
  ASSUME DatasetInv, BuildIndex PROVE DatasetInv'
  <1>1. init.pc = "index" /\ init.pc \in MigratedPc
    BY DEF BuildIndex, At, MigratedPc, LoadingPc
  <1>2. PICK next \in SecondaryIndexes :
          next = IF "secondary" \in catalog.indexes THEN "post_migration" ELSE "secondary"
    BY DEF SecondaryIndexes
  <1>3. PICK indexes \in SUBSET SecondaryIndexes : indexes = catalog.indexes \cup {next}
    <2>1. catalog.indexes \in SUBSET SecondaryIndexes
      BY <1>1, Loading DEF Catalog
    <2> QED
      BY <2>1
  <1>4. PICK c : c = [catalog EXCEPT !.indexes = indexes]
    OBVIOUS
  <1>5. /\ c \in Catalog /\ c.owner = catalog.owner /\ c.marker = catalog.marker
        /\ c.meta = catalog.meta /\ c.rows = catalog.rows /\ c.high = catalog.high
        /\ c.v2 = catalog.v2 /\ c.v3 = catalog.v3 /\ c.migrated = catalog.migrated
    BY <1>1, <1>4, Loading DEF Catalog
  <1>6. CatalogSound(c)
    BY <1>1, <1>5, Loading DEF CatalogSound, MovedBy
  <1>7. c = [catalog EXCEPT !.indexes = @ \cup {next}]
    BY <1>1, <1>3, <1>4, Loading DEF Catalog
  <1>8. PICK sampled \in BOOLEAN :
          Statement(c, [init EXCEPT !.inspect = @ /\ sampled,
                                    !.size = IF init.inspect /\ sampled THEN PhysicalSize(c) ELSE @])
    BY <1>2, <1>7 DEF BuildIndex
  <1>9. init \in InitRecord
    BY <1>1, Loading
  <1>10. PICK inspect \in BOOLEAN : inspect = (init.inspect /\ sampled)
    OBVIOUS
  <1>11. PICK size \in Int : size = IF inspect THEN PhysicalSize(c) ELSE init.size
    BY <1>6, <1>9, SizeIsNat DEF InitRecord
  <1> DEFINE s == [init EXCEPT !.inspect = inspect, !.size = size]
  <1>12. /\ s \in InitRecord /\ s.pc = "index" /\ s.inspect = inspect /\ s.size = size
    BY <1>1, <1>9, <1>10, <1>11 DEF InitRecord
  <1>13. Statement(c, s)
    <2>1. s = [init EXCEPT !.inspect = @ /\ sampled,
                           !.size = IF init.inspect /\ sampled THEN PhysicalSize(c) ELSE @]
      BY <1>9, <1>10, <1>11 DEF InitRecord
    <2> HIDE DEF s
    <2> QED
      BY <1>8, <2>1
  <1> HIDE DEF s
  <1>14. LoadedBy(c, s)
    BY <1>11, <1>12 DEF LoadedBy
  <1>15. DatasetInvOf(c, s)
    BY <1>1, <1>5, <1>6, <1>12, <1>14, Loading, LoadingOn DEF MigratedPc, LoadingPc
  <1> QED
    BY <1>13, <1>15, StatementOK

LEMMA AnalyzeChangedKeeps ==
  ASSUME DatasetInv, AnalyzeChanged PROVE DatasetInv'
  <1>1. init.pc = "analyze" /\ init.pc \in MigratedPc
    BY DEF AnalyzeChanged, At, MigratedPc
  <1> DEFINE n == [init EXCEPT !.pc = "version"]
  <1>2. n \in InitRecord /\ n.pc = "version"
    BY <1>1, Loading, LabelsAre, Relabelled
  <1>3. Statement(catalog, n)
    BY DEF AnalyzeChanged
  <1> HIDE DEF n
  <1>4. LoadedBy(catalog, n)
    BY <1>2 DEF LoadedBy, LoadingPc
  <1>5. DatasetInvOf(catalog, n)
    BY <1>1, <1>2, <1>4, Loading, LoadingOn DEF MigratedPc
  <1> QED
    BY <1>3, <1>5, StatementOK

LEMMA RecordVersionKeeps ==
  ASSUME DatasetInv, RecordVersion PROVE DatasetInv'
  <1>1. init.pc = "version" /\ init.pc \in MigratedPc
    BY DEF RecordVersion, At, MigratedPc
  <1> DEFINE n == [init EXCEPT !.pc = "done"]
             c == [catalog EXCEPT !.marker = CurrentVersion]
  <1>2. n \in InitRecord /\ n.pc = "done"
    BY <1>1, Loading, LabelsAre, Relabelled
  <1>3. CatalogSound(c)
    BY <1>1, Loading, Versioned
  <1>4. Statement(c, n)
    BY DEF RecordVersion
  <1> HIDE DEF n, c
  <1>5. OwnedBy(c, n)
    BY <1>2 DEF OwnedBy, OwningPc, MigratingPc, MigratedPc, LoadingPc
  <1>6. MigratedBy(c, n)
    BY <1>2 DEF MigratedBy, StartingPc, MigratingPc, MigratedPc, LoadingPc
  <1>7. LoadedBy(c, n)
    BY <1>2 DEF LoadedBy, LoadingPc
  <1>8. DatasetInvOf(c, n)
    BY <1>2, <1>3, <1>5, <1>6, <1>7 DEF DatasetInvOf
  <1> QED
    BY <1>4, <1>8, StatementOK

\* The rows a round adds to a table fit in the room left.
LEMMA RoundInHand ==
  ASSUME DatasetInv, At("round"), ~RoundEnds
  PROVE  /\ init.queue # {} /\ init.inspect /\ init.size = PhysicalSize(catalog)
         /\ init.size <= TargetBytes
         /\ RowDeficit \in Nat \ {0} /\ RowDeficit <= RowsBeforeTarget(Table)
  <1>1. /\ init.queue # {} /\ init.pc \in MigratedPc /\ init.inspect
        /\ init.size = PhysicalSize(catalog) /\ TotalWeight > 0
    BY DEF RoundEnds, At, MigratedPc, LoadingPc, DatasetInv, DatasetInvOf, LoadedBy
  <1>2. PICK size \in Nat : size = init.size
    BY <1>1, Loading
  <1>3. PICK target \in Nat : target = TargetBytes
    BY DatasetAssumption
  <1>4. size <= target
    <2>1. ~(size * 100 >= target * 95)
      BY <1>2, <1>3 DEF RoundEnds, NearTarget
    <2> QED
      BY <2>1
  <1>5. PICK rb \in Nat \ {0}, batch \in Nat \ {0}, weight \in Nat :
          rb = Table.rowBytes /\ batch = Table.size /\ weight = Table.weight
    BY <1>1, TableIs
  <1>6. PICK d \in Nat \ {0} : d = rb * SizeFactor
    BY DEF SizeFactor
  <1>7. PICK room \in Nat \ {0} : room = RowsBeforeTarget(Table)
    <2>1. RowsBeforeTarget(Table) \in Nat
      <3>1. target - size \in Nat
        BY <1>4
      <3> QED
        BY <1>2, <1>3, <1>5, <1>6, <3>1, QuotientBounds DEF RowsBeforeTarget
    <2>2. ~(RowsBeforeTarget(Table) <= 0)
      BY DEF RoundEnds
    <2> QED
      BY <2>1, <2>2
  <1>8. PICK total \in Nat \ {0} : total = TotalWeight
    <2>1. TotalWeight \in Nat
      <3>1. PICK m \in Nat : m = Len(DatasetBatches) /\ DOMAIN BatchOf = 1..m
        BY BatchFacts
      <3>2. PICK f \in [1..m -> Nat] : f = [i \in DOMAIN BatchOf |-> BatchOf[i].weight]
        BY <3>1, BatchFacts
      <3>3. PICK s \in [0..m -> Nat] : SumOf(f) = s[m]
        BY RunningTotal
      <3> QED
        BY <3>2, <3>3 DEF TotalWeight
    <2> QED
      BY <1>1, <2>1
  <1>9. PICK product \in Int : product = init.deficit * weight
    <2>1. init.deficit \in Int
      BY <1>1, Loading DEF InitRecord
    <2> QED
      BY <2>1
  <1>10. PICK part \in Int : part = product \div total
    OBVIOUS
  <1>11. PICK share \in Int : share = part \div rb
    OBVIOUS
  <1>12. share = ((init.deficit * Table.weight) \div TotalWeight) \div Table.rowBytes
    BY <1>5, <1>8, <1>9, <1>10, <1>11
  <1>13. PICK least \in Nat \ {0} : least = IF share < 1 THEN 1 ELSE share
    OBVIOUS
  <1>14. PICK rows \in Nat \ {0} : rows = IF least > batch THEN batch ELSE least
    OBVIOUS
  <1>15. RowDeficit = IF rows > room THEN room ELSE rows
    BY <1>5, <1>7, <1>12, <1>13, <1>14 DEF RowDeficit
  <1>16. RowDeficit \in Nat \ {0} /\ RowDeficit <= room
    BY <1>15
  <1> QED
    BY <1>1, <1>2, <1>3, <1>4, <1>7, <1>16

LEMMA GrowTableKeeps ==
  ASSUME DatasetInv, GrowTable PROVE DatasetInv'
  <1>1. init.pc = "round" /\ init.pc \in MigratedPc /\ init.queue # {}
    BY RoundInHand DEF GrowTable, At, MigratedPc, LoadingPc
  <1>2. PICK n \in Nat \ {0} : n = RowDeficit
    BY RoundInHand DEF GrowTable
  <1>3. PICK c : c = WithBatch(Table.table, catalog.high[Table.table] + 1,
                               catalog.high[Table.table] + RowDeficit)
    OBVIOUS
  <1>4. /\ CatalogSound(c) /\ c.owner = "gsbench" /\ c.meta /\ c.marker # "none"
        /\ c.rows["plan_data"] \subseteq c.v2 \cap c.v3
        /\ PhysicalSize(c) \in Nat
    BY <1>1, <1>2, <1>3, BatchLoaded
  <1>5. init \in InitRecord /\ init.inspect /\ "analyze" \in InitPc
    BY <1>1, Loading, LabelsAre, RoundInHand DEF GrowTable
  <1>6. PICK changed \in SUBSET DatasetTables : changed = init.changed \cup {Table.table}
    <2>1. init.changed \in SUBSET DatasetTables /\ Table.table \in DatasetTables
      BY <1>1, <1>5, TableIs DEF InitRecord
    <2> QED
      BY <2>1
  <1>7. PICK size \in Int : size = PhysicalSize(c)
    BY <1>4
  <1>8. PICK zero \in Int : zero = 0
    OBVIOUS
  <1>9. \/ /\ catalog' = c
           /\ \/ init' = [init EXCEPT !.size = size, !.queue = Rest, !.changed = changed]
              \/ init' = [init EXCEPT !.pc = "analyze", !.size = zero, !.changed = changed]
        \/ catalog' \in {catalog, c} /\ init' = [init EXCEPT !.pc = "analyze"]
    BY <1>3, <1>5, <1>6, <1>7, <1>8 DEF GrowTable, InitRecord
  <1>10. ASSUME catalog' \in {catalog, c}, init' \in InitRecord, init'.pc = "analyze"
         PROVE  DatasetInv'
    <2>1. LoadedBy(catalog', init')
      BY <1>10 DEF LoadedBy, LoadingPc
    <2>2. DatasetInvOf(catalog', init')
      <3>1. CASE catalog' = c
        BY <1>4, <1>10, <2>1, <3>1, LoadingOn DEF MigratedPc
      <3>2. CASE catalog' = catalog
        BY <1>1, <1>10, <2>1, <3>2, Loading, LoadingOn DEF MigratedPc
      <3> QED
        BY <1>10, <3>1, <3>2
    <2> QED
      BY <2>2 DEF DatasetInv
  <1>11. CASE catalog' = c /\ init' = [init EXCEPT !.size = size, !.queue = Rest, !.changed = changed]
    <2> DEFINE s == [init EXCEPT !.size = size, !.queue = Rest, !.changed = changed]
    <2>1. /\ s \in InitRecord /\ s.pc = "round" /\ s.inspect /\ s.size = size
      <3>1. Rest \in SUBSET DOMAIN BatchOf
        BY <1>1, TableIs
      <3> QED
        BY <1>1, <1>5, <1>6, <1>7, <3>1 DEF InitRecord
    <2> HIDE DEF s
    <2>2. LoadedBy(c, s)
      BY <1>1, <1>7, <2>1 DEF LoadedBy, DatasetInv, DatasetInvOf
    <2>3. DatasetInvOf(c, s)
      BY <1>4, <2>1, <2>2, LoadingOn DEF MigratedPc, LoadingPc
    <2> QED
      BY <1>11, <2>3 DEF DatasetInv, s
  <1>12. CASE catalog' = c /\ init' = [init EXCEPT !.pc = "analyze", !.size = zero, !.changed = changed]
    <2>1. init' \in InitRecord /\ init'.pc = "analyze"
      BY <1>5, <1>6, <1>8, <1>12 DEF InitRecord
    <2> QED
      BY <1>10, <1>12, <2>1
  <1>13. CASE catalog' \in {catalog, c} /\ init' = [init EXCEPT !.pc = "analyze"]
    <2>1. init' \in InitRecord /\ init'.pc = "analyze"
      BY <1>5, <1>13, Relabelled
    <2> QED
      BY <1>10, <1>13, <2>1
  <1> QED
    BY <1>9, <1>11, <1>12, <1>13

-----------------------------------------------------------------------------
(* The steps keep the invariant: around the init.                            *)

\* The dataset of an older gsbench is sound: its rows wait for the migrations.
LEMMA LegacySchemaIs ==
  ASSUME catalog.factor \in Nat
  PROVE  CatalogSound([LegacySchema EXCEPT !.factor = catalog.factor])
  <1>1. PICK rows \in [DatasetTables -> SUBSET Nat] :
          rows = [NoSchema.rows EXCEPT !["plan_data"] = 1..LegacyRows]
    <2>1. 1..LegacyRows \in SUBSET Nat
      BY DatasetAssumption
    <2>2. NoSchema.rows \in [DatasetTables -> SUBSET Nat]
      BY NoSchemaIs DEF CatalogSound, Catalog
    <2> QED
      BY <2>1, <2>2
  <1>2. PICK high \in [DatasetTables -> Nat] : high = [NoSchema.high EXCEPT !["plan_data"] = LegacyRows]
    <2>1. NoSchema.high \in [DatasetTables -> Nat] /\ LegacyRows \in Nat
      BY NoSchemaIs, DatasetAssumption DEF CatalogSound, Catalog
    <2> QED
      BY <2>1
  <1>3. PICK indexes \in SUBSET SecondaryIndexes : indexes = {"secondary"}
    BY DEF SecondaryIndexes
  <1>4. PICK t \in BOOLEAN : t = TRUE
    OBVIOUS
  <1>5. NoSchema \in Catalog
    BY NoSchemaIs DEF CatalogSound
  <1>6. LegacySchema = [NoSchema EXCEPT !.owner = "gsbench", !.meta = t, !.marker = "1",
                          !.tables = t, !.indexes = indexes, !.rows = rows, !.high = high]
    BY <1>1, <1>2, <1>3, <1>4, <1>5 DEF LegacySchema, Catalog
  <1> DEFINE c == [LegacySchema EXCEPT !.factor = catalog.factor]
  <1>7. c = [NoSchema EXCEPT !.owner = "gsbench", !.meta = t, !.marker = "1",
                !.tables = t, !.indexes = indexes, !.rows = rows, !.high = high,
                !.factor = catalog.factor]
    BY <1>5, <1>6 DEF Catalog
  <1>8. /\ c.owner = "gsbench" /\ c.meta = t /\ c.marker = "1" /\ c.rows = rows /\ c.high = high
        /\ c.v2 = NoSchema.v2 /\ c.v3 = NoSchema.v3 /\ c.migrated = NoSchema.migrated
    <2> HIDE DEF c
    <2> QED
      BY <1>5, <1>7 DEF Catalog
  <1>9. c \in Catalog
    <2>1. "1" \in TrustedVersions
      BY DEF TrustedVersions
    <2> HIDE DEF c
    <2> QED
      BY <1>1, <1>2, <1>3, <1>4, <1>5, <1>7, <2>1 DEF Catalog
  <1> HIDE DEF c
  <1>10. \A u \in DatasetTables : c.rows[u] = 1..c.high[u]
    <2>1. \A u \in DatasetTables : NoSchema.rows[u] = 1..NoSchema.high[u]
      BY NoSchemaIs DEF CatalogSound
    <2>2. NoSchema.rows \in [DatasetTables -> SUBSET Nat] /\ NoSchema.high \in [DatasetTables -> Nat]
      BY <1>5 DEF Catalog
    <2> QED
      BY <1>1, <1>2, <1>8, <2>1, <2>2
  <1>11. \A m \in Migration : 1..c.migrated[m] \subseteq MovedBy(c, m)
    BY <1>8, NoSchemaIs DEF CatalogSound, MovedBy
  <1>12. "1" # CurrentVersion /\ "1" # "none"
    BY DEF CurrentVersion
  <1>13. CatalogSound(c)
    BY <1>4, <1>8, <1>9, <1>10, <1>11, <1>12 DEF CatalogSound
  <1> QED
    BY <1>13 DEF c

\* Another catalog under an init that waits, or has no schema yet.
LEMMA WaitingUnder ==
  ASSUME DatasetInv, NEW c, CatalogSound(c), init.pc \in Resting
  PROVE  DatasetInvOf(c, init)
  <1>1. OwnedBy(c, init)
    BY DEF OwnedBy, OwningPc, MigratingPc, MigratedPc, LoadingPc, Resting
  <1>2. MigratedBy(c, init)
    BY DEF MigratedBy, StartingPc, MigratingPc, MigratedPc, LoadingPc, Resting
  <1>3. LoadedBy(c, init)
    BY DEF LoadedBy, LoadingPc, Resting
  <1> QED
    BY <1>1, <1>2, <1>3 DEF DatasetInv, DatasetInvOf

LEMMA SchemaAppearsKeeps ==
  ASSUME DatasetInv, SchemaAppears PROVE DatasetInv'
  <1>1. CatalogSound(catalog) /\ catalog \in Catalog /\ catalog.owner = "none" /\ UNCHANGED init
    BY DEF DatasetInv, DatasetInvOf, CatalogSound, SchemaAppears
  <1>2. catalog.marker = "none"
    BY <1>1 DEF CatalogSound
  <1>3. ASSUME NEW meta \in BOOLEAN, catalog' = [catalog EXCEPT !.owner = "other", !.meta = meta]
        PROVE  DatasetInv'
    <2> DEFINE c == [catalog EXCEPT !.owner = "other", !.meta = meta]
    <2>1. /\ c \in Catalog /\ c.owner = "other" /\ c.marker = catalog.marker
          /\ c.rows = catalog.rows /\ c.high = catalog.high /\ c.v2 = catalog.v2 /\ c.v3 = catalog.v3
          /\ c.migrated = catalog.migrated
      BY <1>1 DEF Catalog
    <2> HIDE DEF c
    <2>2. CatalogSound(c)
      BY <1>1, <1>2, <2>1 DEF CatalogSound, MovedBy
    <2>3. /\ init \in InitRecord /\ OwnedBy(catalog, init) /\ MigratedBy(catalog, init)
      BY DEF DatasetInv, DatasetInvOf
    <2>4. init.pc \notin OwningPc /\ init.pc # "bootstrap"
      BY <1>1, <2>3 DEF OwnedBy
    <2>5. OwnedBy(c, init)
      BY <2>3, <2>4 DEF OwnedBy, OwningPc
    <2>6. MigratedBy(c, init)
      BY <2>3, <2>4 DEF MigratedBy, OwningPc, MigratingPc
    <2>7. LoadedBy(c, init)
      BY <2>4 DEF LoadedBy, OwningPc, MigratedPc, LoadingPc
    <2>8. DatasetInvOf(c, init)
      BY <2>2, <2>3, <2>5, <2>6, <2>7 DEF DatasetInvOf
    <2> QED
      BY <1>1, <1>3, <2>8 DEF DatasetInv, c
  <1>4. ASSUME init.pc \in Resting, catalog' = [LegacySchema EXCEPT !.factor = catalog.factor]
        PROVE  DatasetInv'
    <2>1. catalog.factor \in Nat
      BY <1>1 DEF Catalog
    <2>2. CatalogSound(catalog')
      BY <1>4, <2>1, LegacySchemaIs
    <2>3. DatasetInvOf(catalog', init)
      BY <1>4, <2>2, WaitingUnder
    <2> QED
      BY <1>1, <2>3 DEF DatasetInv
  <1>5. ASSUME init.pc \in Resting, NEW f \in RowFactors, catalog' = [catalog EXCEPT !.factor = f]
        PROVE  DatasetInv'
    <2>1. f \in Nat
      BY DatasetAssumption
    <2> DEFINE c == [catalog EXCEPT !.factor = f]
    <2>2. /\ c \in Catalog /\ c.owner = catalog.owner /\ c.marker = catalog.marker /\ c.meta = catalog.meta
          /\ c.rows = catalog.rows /\ c.high = catalog.high /\ c.v2 = catalog.v2 /\ c.v3 = catalog.v3
          /\ c.migrated = catalog.migrated
      BY <1>1, <2>1 DEF Catalog
    <2> HIDE DEF c
    <2>3. CatalogSound(c)
      BY <1>1, <2>2 DEF CatalogSound, MovedBy
    <2>4. DatasetInvOf(c, init)
      BY <1>5, <2>3, WaitingUnder
    <2> QED
      BY <1>1, <1>5, <2>4 DEF DatasetInv, c
  <1> QED
    BY <1>3, <1>4, <1>5 DEF SchemaAppears

LEMMA CleanupDataKeeps ==
  ASSUME DatasetInv, CleanupData PROVE DatasetInv'
  <1>1. init.pc \in Resting /\ catalog' = NoSchema /\ UNCHANGED init
    BY DEF CleanupData
  <1>2. DatasetInvOf(NoSchema, init)
    BY <1>1, NoSchemaIs, WaitingUnder
  <1> QED
    BY <1>1, <1>2 DEF DatasetInv

LEMMA DatasetInvHolds ==
  ASSUME DatasetInv, [DatasetNext]_datasetVars PROVE DatasetInv'
  <1>1. CASE StartInit \/ FindSchema \/ CreateSchema \/ FindMarker \/ MarkOwned \/ EnsureTables
    BY <1>1, StartInitKeeps, FindSchemaKeeps, CreateSchemaKeeps, FindMarkerKeeps, MarkOwnedKeeps,
       EnsureTablesKeeps
  <1>2. CASE UpdateRows \/ RemoveMark \/ InsertMark \/ EndMigration \/ ConvergePlanData
    BY <1>2, UpdateRowsKeeps, RemoveMarkKeeps, InsertMarkKeeps, EndMigrationKeeps,
       ConvergePlanDataKeeps
  <1>3. CASE FirstSample \/ SkipTable \/ OpenTable \/ CloseTable \/ LoadBatch \/ EndLoad
    BY <1>3, FirstSampleKeeps, SkipTableKeeps, OpenTableKeeps, CloseTableKeeps, LoadBatchKeeps,
       EndLoadKeeps
  <1>4. CASE BuildIndex \/ EndIndexes \/ OpenRound \/ CloseRound \/ GrowTable
    BY <1>4, BuildIndexKeeps, EndIndexesKeeps, OpenRoundKeeps, CloseRoundKeeps, GrowTableKeeps
  <1>5. CASE AnalyzeChanged \/ RecordVersion \/ SchemaAppears \/ CleanupData
    BY <1>5, AnalyzeChangedKeeps, RecordVersionKeeps, SchemaAppearsKeeps, CleanupDataKeeps
  <1>6. CASE UNCHANGED datasetVars
    BY <1>6 DEF datasetVars, DatasetInv
  <1> QED
    BY <1>1, <1>2, <1>3, <1>4, <1>5, <1>6 DEF DatasetNext, InitStep

-----------------------------------------------------------------------------
(* What each step leaves alone.                                              *)

KeepsTarget ==
  /\ init.inspect /\ init.pc \in {"batch", "round"}
  /\ catalog.factor <= SizeFactor
  /\ PhysicalSize(catalog) <= TargetBytes
  => PhysicalSize(catalog') <= TargetBytes

\* Appending n rows of the first table, no more than there is room for.
LEMMA RowsFit ==
  ASSUME DatasetInv, init.pc \in MigratedPc, init.queue # {}, NEW n \in Nat \ {0},
         init.size = PhysicalSize(catalog), catalog.factor <= SizeFactor,
         init.size <= TargetBytes, n <= RowsBeforeTarget(Table)
  PROVE  PhysicalSize(WithBatch(Table.table, catalog.high[Table.table] + 1,
                                catalog.high[Table.table] + n)) <= TargetBytes
  <1>1. PICK size \in Nat, target \in Nat : size = init.size /\ target = TargetBytes
    BY Loading, DatasetAssumption
  <1>2. PICK b \in Nat \ {0}, f \in Nat : b = Table.rowBytes /\ f = catalog.factor
    BY TableIs, Loading DEF Catalog
  <1>3. n <= (target - size) \div (b * SizeFactor)
    BY <1>1, <1>2 DEF RowsBeforeTarget
  <1>4. size + (f * b) * n <= target
    BY <1>1, <1>2, <1>3, RoomKeeps
  <1>5. PhysicalSize(WithBatch(Table.table, catalog.high[Table.table] + 1,
                               catalog.high[Table.table] + n)) = size + (f * b) * n
    BY <1>1, <1>2, BatchLoaded
  <1> QED
    BY <1>1, <1>4, <1>5

\* The steps that change a catalog at all, and where an init is then.
LEMMA WhoChanges ==
  ASSUME DatasetNext, catalog' # catalog
  PROVE  \/ CreateSchema /\ catalog.owner = "none"
         \/ FindMarker /\ init.created
         \/ MarkOwned \/ EnsureTables \/ UpdateRows \/ RemoveMark \/ InsertMark
         \/ LoadBatch \/ BuildIndex \/ GrowTable \/ RecordVersion
         \/ SchemaAppears \/ CleanupData
  <1>1. ~(StartInit \/ FindSchema \/ EndMigration \/ FirstSample \/ SkipTable \/ OpenTable)
    BY DEF StartInit, FindSchema, EndMigration, FirstSample, SkipTable, OpenTable
  <1>2. ~(CloseTable \/ EndLoad \/ EndIndexes \/ OpenRound \/ CloseRound)
    BY DEF CloseTable, EndLoad, EndIndexes, OpenRound, CloseRound
  <1>3. ~(ConvergePlanData \/ AnalyzeChanged)
    BY DEF ConvergePlanData, AnalyzeChanged, Statement
  <1>4. CreateSchema => catalog.owner = "none"
    BY DEF CreateSchema
  <1>5. FindMarker => init.created
    BY DEF FindMarker
  <1> QED
    BY <1>1, <1>2, <1>3, <1>4, <1>5 DEF DatasetNext, InitStep

LEMMA TargetIsKept ==
  ASSUME DatasetInv, [DatasetNext]_datasetVars PROVE KeepsTarget
  <1> SUFFICES ASSUME init.inspect, init.pc \in {"batch", "round"}, catalog.factor <= SizeFactor,
                      PhysicalSize(catalog) <= TargetBytes, catalog' # catalog
               PROVE  PhysicalSize(catalog') <= TargetBytes
    BY DEF KeepsTarget
  <1>1. DatasetNext
    BY DEF datasetVars
  <1>2. init.pc \in MigratedPc /\ catalog.owner = "gsbench" /\ init.size = PhysicalSize(catalog)
    <2>1. init.pc \in MigratedPc
      BY DEF MigratedPc, LoadingPc
    <2> QED
      BY <2>1, Loading DEF DatasetInv, DatasetInvOf, LoadedBy, LoadingPc
  <1>3. LoadBatch \/ GrowTable
    BY <1>1, <1>2, WhoChanges
       DEF At, Resting, CreateSchema, FindMarker, MarkOwned, EnsureTables, UpdateRows, RemoveMark,
           InsertMark, BuildIndex, RecordVersion, SchemaAppears, CleanupData
  <1>4. CASE LoadBatch
    <2>1. init.queue # {}
      BY <1>4 DEF LoadBatch, At, DatasetInv, DatasetInvOf, LoadedBy
    <2>2. PICK i \in DOMAIN BatchOf, n \in Nat \ {0} :
            /\ Table = BatchOf[i] /\ init.start = catalog.high[BatchOf[i].table] + 1
            /\ BatchEnd = catalog.high[BatchOf[i].table] + n
            /\ n <= RowsBeforeTarget(BatchOf[i])
      BY <1>4, BatchInHand DEF LoadBatch
    <2>3. catalog' = WithBatch(Table.table, init.start, BatchEnd)
      BY <1>4 DEF LoadBatch, Statement
    <2> QED
      BY <1>2, <2>1, <2>2, <2>3, RowsFit
  <1>5. CASE GrowTable
    <2>1. PICK n \in Nat \ {0} : n = RowDeficit /\ n <= RowsBeforeTarget(Table)
      BY <1>5, RoundInHand DEF GrowTable
    <2>2. catalog' = WithBatch(Table.table, catalog.high[Table.table] + 1,
                               catalog.high[Table.table] + n)
      BY <1>5, <2>1 DEF GrowTable
    <2>3. init.queue # {}
      BY <1>5, RoundInHand DEF GrowTable
    <2> QED
      BY <1>2, <2>1, <2>2, <2>3, RowsFit
  <1> QED
    BY <1>3, <1>4, <1>5

LEMMA ForeignIsUntouched ==
  ASSUME DatasetInv, [DatasetNext]_datasetVars, catalog.owner = "other" PROVE catalog' = catalog
  <1> SUFFICES ASSUME catalog' # catalog PROVE FALSE
    OBVIOUS
  <1>1. DatasetNext
    BY DEF datasetVars
  <1>2. init.pc \notin OwningPc /\ ~(init.pc = "bootstrap" /\ init.created)
    BY DEF DatasetInv, DatasetInvOf, OwnedBy
  <1>3. catalog.marker = "none"
    BY DEF DatasetInv, DatasetInvOf, CatalogSound
  <1> QED
    BY <1>1, <1>2, <1>3, WhoChanges, NoMarkerIsUntrusted
       DEF At, OwningPc, MigratingPc, MigratedPc, LoadingPc, FindMarker, MarkOwned, EnsureTables,
           UpdateRows, RemoveMark, InsertMark, LoadBatch, BuildIndex, GrowTable, RecordVersion,
           SchemaAppears, CleanupData

LEMMA LoadDoesAdvance ==
  ASSUME DatasetInv, DatasetNext, init.pc = "batch", init'.pc = "batch"
  PROVE  init'.start > init.start
  <1>1. init \in InitRecord /\ catalog.owner = "gsbench"
    BY Loading DEF MigratedPc, LoadingPc
  <1>2. CASE LoadBatch
    <2>1. PICK i \in DOMAIN BatchOf, n \in Nat \ {0} :
            /\ init.start = catalog.high[BatchOf[i].table] + 1
            /\ BatchEnd = catalog.high[BatchOf[i].table] + n
      BY <1>2, BatchInHand DEF LoadBatch
    <2>2. PICK h \in Nat : h = catalog.high[BatchOf[i].table]
      BY BatchFacts DEF DatasetInv, DatasetInvOf, CatalogSound, Catalog
    <2>3. init'.start = NextBatchStart(BatchEnd)
      BY <1>1, <1>2 DEF LoadBatch, Statement, Fail, InitRecord
    <2> QED
      BY <2>1, <2>2, <2>3 DEF NextBatchStart
  <1>3. CASE CloseTable
    BY <1>1, <1>3 DEF CloseTable, InitRecord
  <1>4. ~LoadBatch /\ ~CloseTable => FALSE
    BY <1>1 DEF DatasetNext, InitStep, StartInit, Resting, FindSchema, CreateSchema, FindMarker, MarkOwned,
           EnsureTables, UpdateRows, RemoveMark, InsertMark, EndMigration, ConvergePlanData, FirstSample,
           SkipTable, OpenTable, EndLoad, BuildIndex, EndIndexes, OpenRound, CloseRound, GrowTable,
           AnalyzeChanged, RecordVersion, SchemaAppears, CleanupData, At
  <1> QED
    BY <1>2, <1>3, <1>4

\* Wherever an init and the ones before it stopped, the marks count the rows, a
\* version is recorded after its migrations only, a load keeps its target while rows
\* cost what was foreseen and moves on, and another user's schema is left alone.
THEOREM DatasetIsSafe == DatasetSpec => DatasetSafety
  <1>1. DatasetInv => DatasetTypeOK /\ MarksAreRows /\ VersionMeansMigrated
    BY DEF DatasetInv, DatasetInvOf, CatalogSound, Catalog, InitRecord, InitPc, OwningPc, MigratingPc,
           MigratedPc, LoadingPc, DatasetTypeOK, MarksAreRows, VersionMeansMigrated
  <1>2. DatasetInv /\ [DatasetNext]_datasetVars => DatasetInv'
    BY DatasetInvHolds
  <1>3. DatasetInv /\ [DatasetNext]_datasetVars => KeepsTarget
    BY TargetIsKept
  <1>4. DatasetInv /\ [DatasetNext]_datasetVars => (catalog.owner = "other" => catalog' = catalog)
    BY ForeignIsUntouched
  <1>5. DatasetInv /\ [DatasetNext]_datasetVars
          => [init.pc = "batch" /\ init'.pc = "batch" => init'.start > init.start]_datasetVars
    BY LoadDoesAdvance DEF datasetVars
  <1>6. DatasetInit => DatasetInv
    BY DatasetInitial
  <1>7. KeepsTarget => (/\ init.inspect /\ init.pc \in {"batch", "round"}
                        /\ catalog.factor <= SizeFactor
                        /\ PhysicalSize(catalog) <= TargetBytes
                        => PhysicalSize(catalog') <= TargetBytes)
    BY DEF KeepsTarget
  <1> QED
    BY <1>1, <1>2, <1>3, <1>4, <1>5, <1>6, <1>7, PTL
       DEF DatasetSpec, DatasetSafety, LoadKeepsTarget, ForeignUntouched, LoadAdvances

-----------------------------------------------------------------------------
(* The lock scenarios (LockEngine): sessions and rows.                       *)

\* One of the layouts has the most sessions.
LEMMA LargestLayout ==
  \E l \in Layouts : \A k \in Layouts : k[2] <= l[2]
  <1> DEFINE HasLargest(U) == \E l \in U : \A k \in U : k[2] <= l[2]
             B == {U \in SUBSET Layouts : U # {} /\ ~HasLargest(U)}
             T == {Cardinality(U) : U \in B}
  <1>1. \A l \in Layouts : l[2] \in Nat
    BY LockConstants
  <1>2. ASSUME B # {} PROVE FALSE
    <2>1. \A U \in SUBSET Layouts : IsFiniteSet(U) /\ Cardinality(U) \in Nat
      BY LockConstants, FS_Subset, FS_CardinalityType
    <2>2. T \in SUBSET Nat /\ T # {}
      BY <1>2, <2>1
    <2>3. PICK n \in T : \A m \in T : n <= m
      <3> HIDE DEF T
      <3> QED
        BY <2>2, LeastIndex
    <2>4. PICK U \in B : n = Cardinality(U)
      BY <2>3
    <2>5. U \in SUBSET Layouts /\ U # {} /\ ~HasLargest(U)
      BY <2>4
    <2>6. PICK l \in U : TRUE
      BY <2>5
    <2> DEFINE V == U \ {l}
    <2>7. Cardinality(V) = n - 1 /\ V \in SUBSET Layouts /\ n \in Nat
      BY <2>1, <2>2, <2>4, <2>5, <2>6, FS_RemoveElement
    <2>8. V \notin B
      <3>1. Cardinality(V) \notin T
        <4> HIDE DEF T, V
        <4> QED
          BY <2>3, <2>7
      <3> HIDE DEF B, V
      <3> QED
        BY <3>1
    <2>9. CASE V = {}
      <3>1. U = {l} /\ l[2] \in Nat
        BY <1>1, <2>5, <2>6, <2>9
      <3> QED
        BY <2>5, <3>1
    <2>10. CASE V # {}
      <3>1. PICK k \in V : \A j \in V : j[2] <= k[2]
        BY <2>7, <2>8, <2>10
      <3>2. k \in U /\ k[2] \in Nat /\ l[2] \in Nat /\ \A j \in U : j[2] \in Nat /\ (j = l \/ j \in V)
        BY <1>1, <2>5, <2>6, <3>1
      <3>3. CASE l[2] <= k[2]
        <4>1. \A j \in U : j[2] <= k[2]
          BY <3>1, <3>2, <3>3
        <4> QED
          BY <2>5, <3>2, <4>1
      <3>4. CASE k[2] <= l[2]
        <4> HIDE DEF V
        <4>1. \A j \in U : j[2] <= l[2]
          BY <3>1, <3>2, <3>4
        <4> QED
          BY <2>5, <2>6, <4>1
      <3> QED
        BY <3>2, <3>3, <3>4
    <2> QED
      BY <2>9, <2>10
  <1>3. Layouts \notin B
    <2> HIDE DEF B
    <2> QED
      BY <1>2
  <1> QED
    BY <1>3, LockConstants

\* There is a waiter.
LEMMA SessionsOfLayouts ==
  /\ LastSession \in Nat \ {0}
  /\ 0 \in Sessions /\ 1 \in Sessions /\ Sessions \subseteq Nat
  <1>1. PICK l \in Layouts : \A k \in Layouts : k[2] <= l[2]
    BY LargestLayout
  <1>2. \A k \in Layouts : k[2] \in Nat \ {0, 1}
    BY LockConstants
  <1> DEFINE S == {k[2] - 1 : k \in Layouts}
             Greatest(n) == \A k \in Layouts : k[2] - 1 <= n
  <1>3. l[2] - 1 \in S /\ Greatest(l[2] - 1)
    BY <1>1, <1>2
  <1>4. LastSession \in S
    <2> HIDE DEF S, Greatest
    <2>1. \E n \in S : Greatest(n)
      BY <1>3
    <2>2. LastSession = CHOOSE n \in S : Greatest(n)
      BY DEF LastSession, S, Greatest
    <2> QED
      BY <2>1, <2>2
  <1>5. LastSession \in Nat \ {0}
    BY <1>2, <1>4
  <1> QED
    BY <1>5 DEF Sessions

\* Quotients and remainders.
LEMMA Division ==
  ASSUME NEW a \in Nat, NEW d \in Nat \ {0}
  PROVE  /\ a \div d \in Nat /\ a % d \in Nat /\ a % d < d
         /\ a = d * (a \div d) + (a % d)
         /\ (a % d) > 0 => ((a - 1) \div d) = (a \div d) /\ ((a - 1) % d) = (a % d) - 1
  <1>1. a \div d \in Nat
    BY SMT
  <1>2. (a % d) \in Nat /\ (a % d) < d
    BY SMT
  <1>3. a = d * (a \div d) + (a % d)
    BY SMT
  <1>4. ASSUME (a % d) > 0
        PROVE  ((a - 1) \div d) = (a \div d) /\ ((a - 1) % d) = (a % d) - 1
    <2> DEFINE q == a \div d
               r == a % d
               p == (a - 1) \div d
               t == (a - 1) % d
    <2>1. a - 1 \in Nat
      BY <1>2, <1>3, <1>4, SMT
    <2>2. q \in Nat /\ r \in Nat /\ r < d /\ r > 0 /\ a = d * q + r
      BY <1>1, <1>2, <1>3, <1>4
    <2>3. p \in Nat
      BY <2>1, SMT
    <2>4. t \in Nat /\ t < d
      BY <2>1, SMT
    <2>5. a - 1 = d * p + t
      BY <2>1, SMT
    <2> HIDE DEF p, q, r, t
    <2>6. ASSUME p < q PROVE FALSE
      <3>1. d * q >= d * p + d
        BY <2>2, <2>3, <2>6, SMT
      <3> QED
        BY <2>2, <2>3, <2>4, <2>5, <3>1, SMT
    <2>7. ASSUME q < p PROVE FALSE
      <3>1. d * p >= d * q + d
        BY <2>2, <2>3, <2>7, SMT
      <3> QED
        BY <2>2, <2>3, <2>4, <2>5, <3>1, SMT
    <2>8. p = q
      BY <2>2, <2>3, <2>6, <2>7, SMT
    <2>9. t = r - 1
      BY <2>2, <2>3, <2>4, <2>5, <2>8, SMT
    <2> QED
      BY <2>8, <2>9 DEF p, q, r, t
  <1> QED
    BY <1>1, <1>2, <1>3, <1>4

-----------------------------------------------------------------------------
(* Whose locks are where.                                                    *)

\* A chosen layout has its depth and its kind.
LayoutChosen == engine.layout \in Layouts

\* The rows of a chain are distinct: they are numbered in the order of the waiters,
\* with a root before each branch.
LEMMA RowsOfChain ==
  ASSUME LayoutChosen, NEW w \in Nat \ {0}, NEW u \in Nat \ {0}
  PROVE  /\ OwnRow(w) \in Nat \ {0, 1} /\ RootRow(Branch(w)) \in Nat \ {0}
         /\ w < u => OwnRow(w) < OwnRow(u)
         /\ OwnRow(w) # RootRow(Branch(u))
         /\ (w - 1) % Depth \in Nat
         /\ (w - 1) % Depth = 0 => OwnRow(w) - 1 = RootRow(Branch(w))
         /\ (w - 1) % Depth > 0 => w - 1 \in Nat \ {0} /\ OwnRow(w) - 1 = OwnRow(w - 1)
  <1> DEFINE d == Depth
             q(a) == (a - 1) \div d
             r(a) == (a - 1) % d
  <1>1. d \in Nat \ {0}
    BY LockConstants DEF LayoutChosen, Depth
  <1> HIDE DEF d
  <1>2. ASSUME NEW a \in Nat \ {0}
        PROVE  /\ q(a) \in Nat /\ r(a) \in Nat /\ r(a) < d /\ a - 1 = d * q(a) + r(a)
               /\ r(a) > 0 => ((a - 1) - 1) \div d = q(a) /\ ((a - 1) - 1) % d = r(a) - 1
    <2>1. a - 1 \in Nat
      OBVIOUS
    <2> QED
      BY <1>1, <2>1, Division
  <1>3. \A a \in Nat \ {0} : /\ RootRow(Branch(a)) = q(a) * (d + 1) + 1
                             /\ OwnRow(a) = q(a) * (d + 1) + 2 + r(a)
    <2> TAKE a \in Nat \ {0}
    <2>1. Branch(a) = q(a) + 1
      BY DEF Branch, d
    <2>2. RootRow(Branch(a)) = q(a) * (d + 1) + 1
      <3>1. RootRow(Branch(a)) = ((q(a) + 1) - 1) * (d + 1) + 1
        BY <2>1 DEF RootRow, d
      <3>2. (q(a) + 1) - 1 = q(a)
        BY <1>2
      <3> QED
        BY <3>1, <3>2
    <2>3. OwnRow(a) = q(a) * (d + 1) + 1 + r(a) + 1
      BY <2>2 DEF OwnRow, d
    <2> HIDE DEF q, r
    <2>4. q(a) * (d + 1) \in Nat
      BY <1>1, <1>2, SMT
    <2> QED
      BY <1>2, <2>2, <2>3, <2>4
  <1> HIDE DEF q, r
  <1>4. ASSUME NEW a \in Nat \ {0}
        PROVE  /\ q(a) * (d + 1) = d * q(a) + q(a) /\ q(a) * (d + 1) \in Nat
               /\ OwnRow(a) = a + 1 + q(a)
    <2>1. q(a) * (d + 1) = d * q(a) + q(a) /\ q(a) * (d + 1) \in Nat /\ d * q(a) \in Nat
      BY <1>1, <1>2, SMT
    <2> QED
      BY <1>2, <1>3, <2>1
  <1>q. q(w) \in Nat /\ q(u) \in Nat
    BY <1>2
  <1>5. OwnRow(w) \in Nat \ {0, 1} /\ RootRow(Branch(w)) \in Nat \ {0}
    BY <1>2, <1>3, <1>4
  <1>6. w < u => OwnRow(w) < OwnRow(u)
    <2> SUFFICES ASSUME w < u, u - w \in Nat \ {0} PROVE OwnRow(w) < OwnRow(u)
      OBVIOUS
    <2>1. ASSUME q(u) < q(w) PROVE FALSE
      <3>1. d * q(w) >= d * q(u) + d
        BY <1>1, <1>q, <2>1, SMT
      <3>2. d * q(w) \in Nat /\ d * q(u) \in Nat
        BY <1>1, <1>2, SMT
      <3> QED
        BY <1>1, <1>2, <3>1, <3>2
    <2> QED
      BY <1>2, <1>4, <2>1
  <1>7. OwnRow(w) # RootRow(Branch(u))
    <2>1. CASE q(u) <= q(w)
      <3>1. q(u) * (d + 1) <= q(w) * (d + 1)
        BY <1>1, <1>q, <2>1, SMT
      <3> QED
        BY <1>2, <1>3, <1>4, <3>1
    <2>2. CASE q(w) < q(u)
      <3>1. q(w) * (d + 1) + (d + 1) <= q(u) * (d + 1)
        BY <1>1, <1>q, <2>2, SMT
      <3> QED
        BY <1>1, <1>2, <1>3, <1>4, <3>1
    <2> QED
      BY <1>2, <2>1, <2>2
  <1>8. r(w) = 0 => OwnRow(w) - 1 = RootRow(Branch(w))
    BY <1>3, <1>4
  <1>9. r(w) > 0 => w - 1 \in Nat \ {0} /\ OwnRow(w) - 1 = OwnRow(w - 1)
    <2> SUFFICES ASSUME r(w) > 0 PROVE w - 1 \in Nat \ {0} /\ OwnRow(w) - 1 = OwnRow(w - 1)
      OBVIOUS
    <2>1. w - 1 \in Nat \ {0}
      <3>1. d * q(w) \in Nat
        BY <1>1, <1>2, SMT
      <3> QED
        BY <1>2, <3>1
    <2>2. q(w - 1) = q(w)
      BY <1>2 DEF q
    <2> QED
      BY <1>4, <2>1, <2>2, <1>2
  <1>10. (w - 1) % Depth = r(w)
    BY DEF r, d
  <1> QED
    BY <1>2, <1>5, <1>6, <1>7, <1>8, <1>9, <1>10

-----------------------------------------------------------------------------
(* What is known of a run of a lock scenario.                                *)

Session == [open : BOOLEAN, holds : SUBSET Nat, wants : Nat, call : {"none", "wait"}]

LockTypes ==
  /\ engine = [layout |-> engine.layout, pc |-> engine.pc, next |-> engine.next,
               ctx |-> engine.ctx, canceled |-> engine.canceled, errs |-> engine.errs,
               edges |-> engine.edges, victim |-> engine.victim, verdict |-> engine.verdict]
  /\ engine.pc \in {"start", "prepare", "ramp", "observe", "hold", "verify", "stop",
                    "join waiters", "join holder", "end"}
  /\ engine.pc # "start" => LayoutChosen
  /\ engine.next \in 1..(LastSession + 1) /\ engine.canceled \subseteq Sessions
  /\ server \in [Sessions -> Session]
  /\ \A s \in Sessions : server[s].call = "wait" <=> server[s].wants # 0

\* Nothing is there before Prepare, nothing is cancelled while the scenario runs,
\* Ramp has a waiter to open, and a holder is released after the last waiter.
Phases ==
  /\ engine.pc \in {"start", "prepare"} =>
       /\ engine.next = 1 /\ engine.verdict = "none"
       /\ \A s \in Sessions : server[s] = Closed
  /\ engine.pc \in {"start", "prepare", "ramp", "observe", "hold"} => engine.canceled = {}
  /\ engine.pc = "ramp" => engine.next \in Waiters
  /\ Kind = "deadlock" =>
       /\ engine.next <= 2 /\ engine.pc \notin {"hold", "verify"}
       /\ engine.pc = "ramp" => engine.next = 1
  /\ engine.pc \in {"join waiters", "join holder", "end"} => engine.canceled # {}
  /\ engine.pc \in {"join holder", "end"} => \A w \in Sessions \ {0} : server[w].wants = 0
  /\ engine.ctx = "live" /\ 0 \in engine.canceled => engine.pc \in {"join holder", "end"}

\* The error of a deadlock, and the success of 504, come from a victim.
Victims ==
  /\ \A e \in engine.errs : e[2] = "deadlock" => engine.victim
  /\ engine.verdict = "SUCCESS" /\ Kind = "deadlock" => engine.victim

\* A waiter holds what it set up, and what it waited for once it was started.
WaiterPlaces ==
  \A w \in Sessions \ {0} :
    /\ \A r \in server[w].holds : r \in Setup(w) \/ (r = Wanted(w) /\ w < engine.next)
    /\ server[w].wants # 0 => server[w].wants = Wanted(w) /\ w < engine.next
    /\ server[w].open \/ server[w].holds # {} \/ server[w].wants # 0 => w <= engine.next /\ w \in Waiters

\* The holder of 504 waits for the waiter's row, once that one is opened.
HolderPlaces ==
  LET CycleOpened == server[1].open \/ engine.pc \in {"join holder", "end"} IN
  /\ \A r \in server[0].holds : r \in HolderLocks \/ (Kind = "deadlock" /\ r = 2 /\ CycleOpened)
  /\ server[0].wants # 0 => Kind = "deadlock" /\ server[0].wants = 2 /\ CycleOpened

LocksApart == \A s, t \in Sessions : s # t => server[s].holds \cap server[t].holds = {}

\* The waiter of 504 has its row while it waits, and until it does.
CycleLocks ==
  /\ Kind = "deadlock"
  /\ server[1].wants # 0 \/ (engine.pc = "ramp" /\ server[1].open)
  => 2 \in server[1].holds

Steady == engine.errs = {} /\ engine.canceled = {}

\* Until something fails, everybody keeps the locks of the definition.
SteadyLocks ==
  Steady =>
    /\ engine.pc = "ramp" \/ engine.next > 1 \/ server[0].wants # 0 =>
         HolderLocks \subseteq server[0].holds
    /\ \A w \in Sessions \ {0} :
         w < engine.next \/ (w = engine.next /\ engine.pc = "ramp" /\ server[w].open) =>
           w \in Waiters /\ Setup(w) \subseteq server[w].holds
    /\ server[0].wants # 0 => 2 \in server[1].holds

LockInv ==
  /\ LockTypes /\ Phases /\ Victims
  /\ WaiterPlaces /\ HolderPlaces /\ LocksApart /\ CycleLocks /\ SteadyLocks

\* What a waiter sets up and wants, by kind.
LEMMA SetupOfKind ==
  ASSUME LayoutChosen, NEW w
  PROVE  /\ Kind \in LockKinds
         /\ Kind = "chain" => Setup(w) = {OwnRow(w)} /\ Wanted(w) = OwnRow(w) - 1
         /\ Kind = "deadlock" => Setup(w) = {2} /\ Wanted(w) = 1
         /\ Kind \in {"direct", "command"} => Setup(w) = {} /\ Wanted(w) = 1
         /\ Kind = "chain" => HolderLocks = {RootRow(Branch(u)) : u \in Waiters}
         /\ Kind # "chain" => HolderLocks = {1}
  <1>1. Kind \in LockKinds
    BY LockConstants DEF LayoutChosen, Kind
  <1>2. Wanted(w) = IF Kind = "chain" THEN OwnRow(w) - 1 ELSE 1
    BY DEF Wanted
  <1>3. Kind = "chain" => Setup(w) = {OwnRow(w)}
    BY DEF Setup
  <1>4. Kind = "deadlock" => Setup(w) = {2}
    BY DEF Setup
  <1>5. Kind \in {"direct", "command"} => Setup(w) = {}
    BY DEF Setup
  <1>6. HolderLocks = IF Kind = "chain" THEN {RootRow(Branch(u)) : u \in Waiters} ELSE {1}
    BY DEF HolderLocks
  <1> QED
    BY <1>1, <1>2, <1>3, <1>4, <1>5, <1>6 DEF LockKinds

\* Waiters are numbers, locks too, and the first waiter is there.
LEMMA WaitersOfLayout ==
  ASSUME LayoutChosen
  PROVE  /\ Waiters \subseteq Nat \ {0} /\ 1 \in Waiters
         /\ HolderLocks \subseteq Nat \ {0}
         /\ \A w \in Nat \ {0} : Setup(w) \subseteq Nat \ {0} /\ Wanted(w) \in Nat \ {0}
  <1>1. engine.layout[2] \in Nat \ {0, 1}
    BY LockConstants DEF LayoutChosen
  <1>2. Waiters \subseteq Nat \ {0} /\ 1 \in Waiters
    BY <1>1 DEF Waiters
  <1>3. HolderLocks \subseteq Nat \ {0}
    <2>1. CASE Kind = "chain"
      BY <1>2, <2>1, SetupOfKind, RowsOfChain
    <2>2. CASE Kind # "chain"
      BY <2>2, SetupOfKind
    <2> QED
      BY <2>1, <2>2
  <1>4. ASSUME NEW w \in Nat \ {0} PROVE Setup(w) \subseteq Nat \ {0} /\ Wanted(w) \in Nat \ {0}
    <2>1. CASE Kind = "chain"
      <3>1. OwnRow(w) \in Nat \ {0, 1}
        BY RowsOfChain
      <3>2. Setup(w) = {OwnRow(w)} /\ Wanted(w) = OwnRow(w) - 1
        BY <2>1, SetupOfKind
      <3> QED
        BY <3>1, <3>2
    <2>2. CASE Kind # "chain"
      <3>1. Kind \in {"direct", "command", "deadlock"}
        BY <2>2, SetupOfKind DEF LockKinds
      <3>2. (Setup(w) = {2} \/ Setup(w) = {}) /\ Wanted(w) = 1
        BY <3>1, SetupOfKind
      <3> QED
        BY <3>2
    <2> QED
      BY <2>1, <2>2
  <1> QED
    BY <1>2, <1>3, <1>4

\* A scenario keeps its layout, and with it who holds and wants what.
LEMMA LayoutKept ==
  ASSUME engine'.layout = engine.layout
  PROVE  /\ Kind' = Kind /\ Waiters' = Waiters /\ HolderLocks' = HolderLocks
         /\ ExpectedEdges' = ExpectedEdges /\ LayoutChosen' = LayoutChosen
         /\ \A w \in Nat : Setup(w)' = Setup(w) /\ Wanted(w)' = Wanted(w)
  <1>1. Kind' = Kind /\ Depth' = Depth /\ Waiters' = Waiters
    BY DEF Kind, Depth, Waiters
  <1>2. \A w : OwnRow(w)' = OwnRow(w) /\ Blocker(w)' = Blocker(w)
             /\ RootRow(Branch(w))' = RootRow(Branch(w))
    BY <1>1 DEF OwnRow, RootRow, Branch, Blocker
  <1>3. HolderLocks' = HolderLocks
    BY <1>1, <1>2 DEF HolderLocks
  <1>4. ExpectedEdges' = ExpectedEdges
    BY <1>1, <1>2 DEF ExpectedEdges
  <1>5. \A w \in Nat : Setup(w)' = Setup(w) /\ Wanted(w)' = Wanted(w)
    BY <1>1, <1>2 DEF Setup, Wanted
  <1> QED
    BY <1>1, <1>3, <1>4, <1>5 DEF LayoutChosen

\* Until something fails, what a session waits for is held by its blocker.
LEMMA BlockersHold ==
  ASSUME LockInv, Steady, NEW s \in Sessions, server[s].wants # 0
  PROVE  \E t \in Sessions \ {s} : server[s].wants \in server[t].holds /\ <<t, s>> \in ExpectedEdges
  <1> USE DEF LockInv
  <1>0. LayoutChosen
    <2>1. ASSUME engine.pc = "start" PROVE FALSE
      <3>1. server[s] = Closed
        BY <2>1 DEF Phases
      <3> QED
        BY <3>1 DEF Closed
    <2> QED
      BY <2>1 DEF LockTypes
  <1>1. CASE s = 0
    <2>1. Kind = "deadlock" /\ server[0].wants = 2 /\ 2 \in server[1].holds
      BY <1>1 DEF HolderPlaces, SteadyLocks
    <2>2. <<1, 0>> \in ExpectedEdges
      BY <2>1 DEF ExpectedEdges
    <2> QED
      BY <1>1, <2>1, <2>2, SessionsOfLayouts
  <1>2. CASE s # 0
    <2>1. server[s].wants = Wanted(s) /\ s < engine.next /\ s \in Nat \ {0} /\ engine.next \in Nat
          /\ s \in Sessions \ {0}
      <3>1. s \in Sessions \ {0} /\ s \in Nat \ {0}
        BY <1>2, SessionsOfLayouts
      <3>2. engine.next \in Nat
        <4>1. engine.next \in 1..(LastSession + 1)
          BY DEF LockTypes
        <4> QED
          BY <4>1, SessionsOfLayouts
      <3> QED
        BY <3>1, <3>2 DEF WaiterPlaces
    <2>2. s \in Waiters /\ HolderLocks \subseteq server[0].holds
      BY <2>1 DEF SteadyLocks
    <2>3. <<Blocker(s), s>> \in ExpectedEdges
      BY <2>2 DEF ExpectedEdges
    <2>4. CASE Kind = "chain" /\ (s - 1) % Depth > 0
      <3>1. Blocker(s) = s - 1
        BY <2>4 DEF Blocker
      <3>2. s - 1 \in Nat \ {0} /\ Wanted(s) = OwnRow(s - 1)
        BY <1>0, <2>1, <2>4, RowsOfChain, SetupOfKind
      <3>3. s - 1 \in Sessions \ {0} /\ s - 1 < engine.next /\ s - 1 # s
        BY <2>1, <3>2, SessionsOfLayouts DEF Sessions
      <3>4. OwnRow(s - 1) \in server[s - 1].holds
        BY <1>0, <2>4, <3>3, SetupOfKind DEF SteadyLocks
      <3> QED
        BY <2>1, <2>3, <3>1, <3>2, <3>3, <3>4
    <2>5. CASE ~(Kind = "chain" /\ (s - 1) % Depth > 0)
      <3>1. Blocker(s) = 0
        BY <2>5 DEF Blocker
      <3>2. Wanted(s) \in HolderLocks
        <4>1. CASE Kind = "chain"
          <5>1. (s - 1) % Depth \in Nat
            BY <1>0, <2>1, RowsOfChain
          <5>2. (s - 1) % Depth = 0
            BY <2>5, <4>1, <5>1
          <5>3. Wanted(s) = RootRow(Branch(s))
            BY <1>0, <2>1, <4>1, <5>2, RowsOfChain, SetupOfKind
          <5> QED
            BY <1>0, <2>2, <4>1, <5>3, SetupOfKind
        <4>2. CASE Kind # "chain"
          BY <1>0, <4>2, SetupOfKind DEF LockKinds
        <4> QED
          BY <4>1, <4>2
      <3> QED
        BY <1>2, <2>1, <2>2, <2>3, <3>1, <3>2, SessionsOfLayouts
    <2> QED
      BY <2>4, <2>5
  <1> QED
    BY <1>1, <1>2

-----------------------------------------------------------------------------
(* The steps.                                                                *)

LEMMA LockInitOK == LockInit => LockInv
  <1> SUFFICES ASSUME LockInit PROVE LockInv
    OBVIOUS
  <1> USE DEF LockInit
  <1>1. Closed \in Session /\ Closed.wants = 0 /\ Closed.call = "none" /\ Closed.holds = {}
        /\ ~Closed.open
    BY DEF Closed, Session
  <1>2. /\ engine.layout = <<"none", 1, 1>> /\ engine.pc = "start" /\ engine.next = 1
        /\ engine.ctx = "live" /\ engine.canceled = {} /\ engine.errs = {} /\ engine.edges = {}
        /\ engine.victim = FALSE /\ engine.verdict = "none"
    OBVIOUS
  <1>3. \A s \in Sessions : server[s] = Closed
    OBVIOUS
  <1>4. LockTypes
    BY <1>1, <1>2, <1>3, SessionsOfLayouts DEF LockTypes
  <1>5. Phases
    <2>1. Kind = "none"
      BY <1>2 DEF Kind
    <2> QED
      BY <1>2, <1>3, <2>1 DEF Phases
  <1>6. Victims
    BY <1>2 DEF Victims
  <1>7. WaiterPlaces /\ HolderPlaces /\ LocksApart /\ CycleLocks
    BY <1>1, <1>2, <1>3, SessionsOfLayouts DEF WaiterPlaces, HolderPlaces, LocksApart, CycleLocks
  <1>8. SteadyLocks
    <2>1. \A w \in Sessions \ {0} : ~(w < 1)
      BY SessionsOfLayouts
    <2> QED
      BY <1>1, <1>2, <1>3, <2>1, SessionsOfLayouts DEF SteadyLocks
  <1> QED
    BY <1>4, <1>5, <1>6, <1>7, <1>8 DEF LockInv

\* Where the sessions are does not change, and the engine does not go back to Ramp.
EngineMoves ==
  /\ server' = server /\ engine'.layout = engine.layout /\ engine'.next = engine.next
  /\ engine'.pc = "ramp" => engine.pc = "ramp"
  /\ engine.pc \in {"join holder", "end"} => engine'.pc \in {"join holder", "end"}
  /\ engine.errs \subseteq engine'.errs /\ engine.canceled \subseteq engine'.canceled

LEMMA PlacesKept ==
  ASSUME LockInv, EngineMoves
  PROVE  WaiterPlaces' /\ HolderPlaces' /\ LocksApart' /\ CycleLocks' /\ SteadyLocks'
  <1> USE DEF LockInv, EngineMoves
  <1>1. /\ Kind' = Kind /\ Waiters' = Waiters /\ HolderLocks' = HolderLocks
        /\ \A w \in Nat : Setup(w)' = Setup(w) /\ Wanted(w)' = Wanted(w)
    BY LayoutKept
  <1>2. \A w \in Sessions \ {0} : w \in Nat
    BY SessionsOfLayouts
  <1>3. WaiterPlaces'
    BY <1>1, <1>2 DEF WaiterPlaces
  <1>4. HolderPlaces'
    BY <1>1 DEF HolderPlaces
  <1>5. LocksApart' /\ CycleLocks'
    BY <1>1 DEF LocksApart, CycleLocks
  <1>6. SteadyLocks'
    BY <1>1, <1>2 DEF SteadyLocks, Steady
  <1> QED
    BY <1>3, <1>4, <1>5, <1>6

\* The shape of the engine, and the fields a step leaves alone.
LEMMA EngineShape ==
  ASSUME LockTypes
  PROVE  engine = [layout |-> engine.layout, pc |-> engine.pc, next |-> engine.next,
               ctx |-> engine.ctx, canceled |-> engine.canceled, errs |-> engine.errs,
               edges |-> engine.edges, victim |-> engine.victim, verdict |-> engine.verdict]
  BY DEF LockTypes

LEMMA ChooseLayoutOK == ASSUME LockInv, NEW l \in Layouts, ChooseLayout(l) PROVE LockInv'
  <1> USE DEF LockInv
  <1>1. /\ engine.pc = "start" /\ server' = server
        /\ engine' = [layout |-> l, pc |-> "prepare", next |-> engine.next,
               ctx |-> engine.ctx, canceled |-> engine.canceled, errs |-> engine.errs,
               edges |-> engine.edges, victim |-> engine.victim, verdict |-> engine.verdict]
    BY EngineShape DEF ChooseLayout
  <1>2. Closed.wants = 0 /\ Closed.call = "none" /\ Closed.holds = {} /\ ~Closed.open
    BY DEF Closed
  <1>3. engine.next = 1 /\ engine.verdict = "none" /\ engine.canceled = {}
        /\ \A s \in Sessions : server[s] = Closed
    BY <1>1 DEF Phases
  <1>4. LockTypes'
    BY <1>1 DEF LockTypes, LayoutChosen
  <1>5. Phases'
    BY <1>1, <1>3, SessionsOfLayouts DEF Phases
  <1>6. Victims'
    BY <1>1, <1>3 DEF Victims
  <1>7. WaiterPlaces' /\ HolderPlaces' /\ LocksApart' /\ CycleLocks'
    BY <1>1, <1>2, <1>3, SessionsOfLayouts DEF WaiterPlaces, HolderPlaces, LocksApart, CycleLocks
  <1>8. SteadyLocks'
    <2>1. \A w \in Sessions \ {0} : ~(w < 1)
      BY SessionsOfLayouts
    <2>2. engine'.next = 1 /\ engine'.pc = "prepare" /\ server'[0].wants = 0
      BY <1>1, <1>2, <1>3, SessionsOfLayouts
    <2> QED
      BY <2>1, <2>2 DEF SteadyLocks
  <1> QED
    BY <1>4, <1>5, <1>6, <1>7, <1>8

\* Evidence, verdicts, the end of a context and the first step of Stop.
LEMMA EngineOK ==
  ASSUME LockInv,
         \/ Observe \/ Captured \/ EdgeNotSeen \/ HoldLocks \/ VerifyLock \/ VerifyDeadlock
         \/ StopWaiters \/ \E all \in BOOLEAN : CancelLocks(all)
  PROVE  LockInv'
  <1> USE DEF LockInv
  <1> DEFINE E(pc, ctx, canceled, edges, verdict) ==
               [layout |-> engine.layout, pc |-> pc, next |-> engine.next,
                ctx |-> ctx, canceled |-> canceled, errs |-> engine.errs,
                edges |-> edges, victim |-> engine.victim, verdict |-> verdict]
  <1>1. engine = E(engine.pc, engine.ctx, engine.canceled, engine.edges, engine.verdict)
    BY EngineShape
  <1>2. server' = server
    BY DEF Observe, Captured, EdgeNotSeen, HoldLocks, VerifyLock, VerifyDeadlock, StopWaiters,
           CancelLocks, RampFails
  <1> DEFINE Q(pc, ctx, canceled, verdict) ==
          /\ engine.pc \in {"ramp", "observe", "hold", "verify", "stop"}
          /\ pc \in {"ramp", "observe", "hold", "verify", "stop", "join waiters"}
          /\ pc = "ramp" => engine.pc = "ramp"
          /\ pc \in {"ramp", "observe", "hold"} =>
               canceled = engine.canceled /\ engine.pc \in {"ramp", "observe", "hold"}
          /\ pc \in {"hold", "verify"} => Kind # "deadlock"
          /\ pc = "join waiters" => canceled # {}
          /\ engine.canceled \subseteq canceled /\ canceled \subseteq Sessions
          /\ ctx = "live" => engine.ctx = "live" /\ (0 \in canceled => 0 \in engine.canceled)
          /\ verdict = "SUCCESS" /\ Kind = "deadlock" => engine.victim
  <1>v. /\ engine.canceled \subseteq Sessions
        /\ engine.verdict = "SUCCESS" /\ Kind = "deadlock" => engine.victim
        /\ (engine.pc \in {"hold", "verify"} => Kind # "deadlock")
    BY DEF LockTypes, Victims, Phases
  <1>3. \E pc, ctx, canceled, edges, verdict :
          engine' = E(pc, ctx, canceled, edges, verdict) /\ Q(pc, ctx, canceled, verdict)
    <2>1. CASE Observe
      <3>1. engine' = E(engine.pc, engine.ctx, engine.canceled, engine.edges \cup SeenEdges, engine.verdict)
            /\ engine.pc \in {"ramp", "observe"}
        BY <1>1, <2>1 DEF Observe
      <3>2. Q(engine.pc, engine.ctx, engine.canceled, engine.verdict)
        BY <1>v, <3>1
      <3> HIDE DEF E, Q
      <3> QED
        BY <3>1, <3>2
    <2>2. CASE Captured \/ EdgeNotSeen \/ HoldLocks
      <3>1. \E pc \in {"hold", "stop", "verify"} :
              /\ engine' = E(pc, engine.ctx, engine.canceled, engine.edges, engine.verdict)
              /\ engine.pc \in {"observe", "ramp", "hold"}
              /\ pc = "hold" => engine.pc = "observe"
              /\ pc \in {"hold", "verify"} => Kind # "deadlock"
        BY <1>1, <1>v, <2>2 DEF Captured, EdgeNotSeen, HoldLocks, RampFails
      <3>2. PICK pc \in {"hold", "stop", "verify"} :
              /\ engine' = E(pc, engine.ctx, engine.canceled, engine.edges, engine.verdict)
              /\ engine.pc \in {"observe", "ramp", "hold"}
              /\ pc = "hold" => engine.pc = "observe"
              /\ pc \in {"hold", "verify"} => Kind # "deadlock"
        BY <3>1
      <3>3. Q(pc, engine.ctx, engine.canceled, engine.verdict)
        BY <1>v, <3>2
      <3> HIDE DEF E, Q
      <3> QED
        BY <3>2, <3>3
    <2>3. CASE VerifyLock \/ VerifyDeadlock
      <3>1. PICK verdict : /\ engine' = E("stop", engine.ctx, engine.canceled, engine.edges, verdict)
                           /\ engine.pc \in {"verify", "observe"}
                           /\ verdict = "SUCCESS" /\ Kind = "deadlock" => engine.victim
        <4>1. CASE VerifyLock
          <5>1. engine.pc = "verify" /\ Kind # "deadlock"
            BY <1>v, <4>1 DEF VerifyLock
          <5> DEFINE v == IF AllSeen THEN "SUCCESS" ELSE "FAILED"
          <5>2. engine' = E("stop", engine.ctx, engine.canceled, engine.edges, v)
            BY <1>1, <4>1 DEF VerifyLock
          <5> HIDE DEF E, v
          <5> QED
            BY <5>1, <5>2
        <4>2. CASE VerifyDeadlock
          <5> DEFINE v == IF AllSeen /\ DeadlockError THEN "SUCCESS" ELSE "FAILED"
          <5>1. engine.pc = "observe" /\ engine' = E("stop", engine.ctx, engine.canceled, engine.edges, v)
            BY <1>1, <4>2 DEF VerifyDeadlock
          <5>2. v = "SUCCESS" => engine.victim
            BY DEF DeadlockError, Victims
          <5> HIDE DEF E, v
          <5> QED
            BY <5>1, <5>2
        <4> QED
          BY <2>3, <4>1, <4>2
      <3>2. Q("stop", engine.ctx, engine.canceled, verdict)
        BY <1>v, <3>1
      <3> HIDE DEF E, Q
      <3> QED
        BY <3>1, <3>2
    <2>4. CASE StopWaiters
      <3>1. engine' = E("join waiters", engine.ctx, engine.canceled \cup Cancelled, engine.edges, engine.verdict)
            /\ engine.pc = "stop"
        BY <1>1, <2>4 DEF StopWaiters
      <3>2. Q("join waiters", engine.ctx, engine.canceled \cup Cancelled, engine.verdict)
        <4>1. 1 \in Cancelled /\ 0 \notin Cancelled /\ Cancelled \subseteq Sessions
          BY SessionsOfLayouts DEF Cancelled
        <4> DEFINE d == engine.canceled \cup Cancelled
        <4>2. d # {} /\ engine.canceled \subseteq d /\ d \subseteq Sessions
              /\ (0 \in d => 0 \in engine.canceled)
          BY <1>v, <4>1
        <4> HIDE DEF d
        <4>3. Q("join waiters", engine.ctx, d, engine.verdict)
          BY <1>v, <3>1, <4>2
        <4> QED
          BY <4>3 DEF d
      <3> HIDE DEF E, Q
      <3> QED
        BY <3>1, <3>2
    <2>5. ASSUME NEW all \in BOOLEAN, CancelLocks(all)
          PROVE  \E pc, ctx, canceled, edges, verdict :
                   engine' = E(pc, ctx, canceled, edges, verdict) /\ Q(pc, ctx, canceled, verdict)
      <3> DEFINE c == IF all THEN "canceled" ELSE "deadline"
                 d == IF all \/ Kind = "deadlock" THEN Sessions ELSE Sessions \ {0}
                 pc == IF engine.pc = "hold" /\ ~all THEN "verify" ELSE "stop"
      <3>1. engine' = E(pc, c, d, engine.edges, engine.verdict)
            /\ engine.pc \in {"ramp", "observe", "hold"}
        BY <1>1, <2>5 DEF CancelLocks
      <3>2. engine.canceled = {}
        BY <3>1 DEF Phases
      <3>3. Q(pc, c, d, engine.verdict)
        BY <1>v, <3>1, <3>2
      <3> HIDE DEF E, Q, c, d, pc
      <3> QED
        BY <3>1, <3>3
    <2> QED
      BY <2>1, <2>2, <2>3, <2>4, <2>5
  <1>4. PICK pc, ctx, canceled, edges, verdict :
          engine' = E(pc, ctx, canceled, edges, verdict) /\ Q(pc, ctx, canceled, verdict)
    BY <1>3
  <1>5. /\ engine' = [layout |-> engine'.layout, pc |-> engine'.pc, next |-> engine'.next,
               ctx |-> engine'.ctx, canceled |-> engine'.canceled, errs |-> engine'.errs,
               edges |-> engine'.edges, victim |-> engine'.victim, verdict |-> engine'.verdict]
        /\ engine'.layout = engine.layout /\ engine'.next = engine.next /\ engine'.errs = engine.errs
        /\ engine'.victim = engine.victim
        /\ Q(engine'.pc, engine'.ctx, engine'.canceled, engine'.verdict)
    BY <1>4
  <1>6. Kind' = Kind /\ Waiters' = Waiters /\ LayoutChosen' = LayoutChosen
    BY <1>5, LayoutKept
  <1>7. LockTypes'
    BY <1>2, <1>5, <1>6 DEF LockTypes
  <1>8. Phases'
    BY <1>2, <1>5, <1>6 DEF Phases
  <1>9. Victims'
    BY <1>5, <1>6 DEF Victims
  <1>10. EngineMoves
    BY <1>2, <1>5 DEF EngineMoves
  <1> QED
    BY <1>7, <1>8, <1>9, <1>10, PlacesKept

\* One session changes, and the engine learns of errors only.
SessionStep(s) ==
  /\ server' \in [Sessions -> Session]
  /\ \A t \in Sessions \ {s} : server'[t] = server[t]
  /\ server'[s].open = server[s].open
  /\ server'[s].call = "wait" <=> server'[s].wants # 0

EngineLearns ==
  /\ engine' = [layout |-> engine.layout, pc |-> engine.pc, next |-> engine.next,
                ctx |-> engine.ctx, canceled |-> engine.canceled, errs |-> engine'.errs,
                edges |-> engine.edges, victim |-> engine'.victim, verdict |-> engine.verdict]
  /\ engine.errs \subseteq engine'.errs
  /\ engine.victim => engine'.victim
  /\ \A e \in engine'.errs \ engine.errs : e[2] = "deadlock" => engine'.victim

\* What does not depend on the locks that are held.
LEMMA SessionStepOK ==
  ASSUME LockInv, NEW s \in Sessions, SessionStep(s), EngineLearns,
         engine.pc \notin {"start", "prepare"},
         server'[s].wants = 0
  PROVE  LockTypes' /\ Phases' /\ Victims'
  <1> USE DEF LockInv, SessionStep
  <1>1. /\ engine' = [layout |-> engine'.layout, pc |-> engine'.pc, next |-> engine'.next,
               ctx |-> engine'.ctx, canceled |-> engine'.canceled, errs |-> engine'.errs,
               edges |-> engine'.edges, victim |-> engine'.victim, verdict |-> engine'.verdict]
        /\ engine'.layout = engine.layout /\ engine'.pc = engine.pc /\ engine'.next = engine.next
        /\ engine'.ctx = engine.ctx /\ engine'.canceled = engine.canceled
        /\ engine'.verdict = engine.verdict
    BY DEF EngineLearns
  <1>2. Kind' = Kind /\ Waiters' = Waiters /\ LayoutChosen' = LayoutChosen
    BY <1>1, LayoutKept
  <1>3. LockTypes'
    BY <1>1, <1>2 DEF LockTypes
  <1>4. Phases'
    <2>1. \A t \in Sessions : server'[t].wants # 0 => server[t].wants # 0
      OBVIOUS
    <2> QED
      BY <1>1, <1>2, <2>1 DEF Phases
  <1>5. Victims'
    <2>1. \A e \in engine'.errs : e[2] = "deadlock" => engine'.victim
      BY DEF Victims, EngineLearns
    <2>2. engine.victim => engine'.victim
      BY DEF EngineLearns
    <2> QED
      BY <1>1, <1>2, <2>1, <2>2 DEF Victims
  <1> QED
    BY <1>3, <1>4, <1>5

\* A waiting session is there, and nothing waits before Ramp.
LEMMA WaitingIsLate ==
  ASSUME LockInv, NEW s \in Sessions,
         server[s].call # "none" \/ server[s].wants # 0 \/ server[s].holds # {}
  PROVE  engine.pc \notin {"start", "prepare"} /\ LayoutChosen
  <1>1. ASSUME engine.pc \in {"start", "prepare"} PROVE FALSE
    <2>1. server[s] = Closed
      BY <1>1 DEF LockInv, Phases
    <2> QED
      BY <2>1 DEF Closed
  <1> QED
    BY <1>1 DEF LockInv, LockTypes

\* An abort frees the locks of a session and ends its wait.
LEMMA AbortOK ==
  ASSUME LockInv, NEW s \in Sessions, server' = Abort(s), EngineLearns, ~Steady',
         server[s].call # "none" \/ server[s].holds # {},
         ~(s = 1 /\ Kind = "deadlock" /\ engine.pc = "ramp")
  PROVE  LockInv'
  <1> USE DEF LockInv
  <1>0. engine.pc \notin {"start", "prepare"} /\ LayoutChosen
    BY WaitingIsLate
  <1>1. server \in [Sessions -> Session]
    BY DEF LockTypes
  <1>2. /\ server' \in [Sessions -> Session]
        /\ \A t \in Sessions \ {s} : server'[t] = server[t]
        /\ server'[s].open = server[s].open /\ server'[s].holds = {} /\ server'[s].wants = 0
        /\ server'[s].call = "none"
    <2>1. PICK z \in SUBSET Nat : z = {}
      OBVIOUS
    <2>2. server' = [server EXCEPT ![s].holds = z, ![s].wants = 0, ![s].call = "none"]
      BY <2>1 DEF Abort
    <2>3. server' \in [Sessions -> Session]
      <3> DEFINE a == [server EXCEPT ![s].holds = z]
                 b == [a EXCEPT ![s].wants = 0]
      <3>1. a \in [Sessions -> Session]
        BY <1>1, <2>1 DEF Session
      <3>2. server' = [b EXCEPT ![s].call = "none"]
        BY <2>2
      <3> HIDE DEF a
      <3>3. b \in [Sessions -> Session]
        BY <3>1 DEF Session
      <3> HIDE DEF b
      <3> QED
        BY <3>2, <3>3 DEF Session
    <2>4. \A t \in Sessions \ {s} : server'[t] = server[t]
      BY <1>1, <2>2
    <2>5. server'[s].open = server[s].open /\ server'[s].holds = z /\ server'[s].wants = 0
          /\ server'[s].call = "none"
      BY <1>1, <2>2 DEF Session
    <2> QED
      BY <2>1, <2>3, <2>4, <2>5
  <1>3. SessionStep(s)
    BY <1>2 DEF SessionStep
  <1>4. LockTypes' /\ Phases' /\ Victims'
    BY <1>0, <1>2, <1>3, SessionStepOK
  <1>5. engine'.layout = engine.layout /\ engine'.pc = engine.pc /\ engine'.next = engine.next
    BY DEF EngineLearns
  <1>6. /\ Kind' = Kind /\ Waiters' = Waiters /\ HolderLocks' = HolderLocks
        /\ \A w \in Nat : Setup(w)' = Setup(w) /\ Wanted(w)' = Wanted(w)
    BY <1>5, LayoutKept
  <1>7. \A t \in Sessions : /\ server'[t].holds \subseteq server[t].holds
                            /\ server'[t].wants # 0 => server'[t].wants = server[t].wants
                            /\ server'[t].open = server[t].open
    BY <1>2
  <1>8. WaiterPlaces'
    BY <1>5, <1>6, <1>7, SessionsOfLayouts DEF WaiterPlaces
  <1>9. HolderPlaces'
    BY <1>5, <1>6, <1>7, SessionsOfLayouts DEF HolderPlaces
  <1>10. LocksApart'
    BY <1>7 DEF LocksApart
  <1>11. CycleLocks'
    BY <1>2, <1>5, <1>6, <1>7, SessionsOfLayouts DEF CycleLocks
  <1>12. SteadyLocks'
    BY DEF SteadyLocks
  <1> QED
    BY <1>4, <1>8, <1>9, <1>10, <1>11, <1>12

\* A statement fails, is cancelled or ends a deadlock, a context rolls back.
LEMMA FailuresOK ==
  ASSUME LockInv, NEW s \in Sessions,
         DeadlockDetected(s) \/ BlockedFails(s) \/ StatementCanceled(s) \/ RolledBackByContext(s)
  PROVE  LockInv'
  <1> USE DEF LockInv
  <1>1. server' = Abort(s)
    BY DEF DeadlockDetected, BlockedFails, StatementCanceled, RolledBackByContext
  <1>2. server[s].call # "none" \/ server[s].holds # {}
    <2>1. server[s].wants # 0 => server[s].call = "wait"
      BY DEF LockTypes
    <2> QED
      BY <2>1 DEF DeadlockDetected, BlockedFails, StatementCanceled, RolledBackByContext, WaitsFor
  <1>3. EngineLearns /\ ~Steady'
    <2>1. CASE DeadlockDetected(s)
      <3>1. engine' = [layout |-> engine.layout, pc |-> engine.pc, next |-> engine.next,
                ctx |-> engine.ctx, canceled |-> engine.canceled,
                errs |-> engine.errs \cup {<<s, "deadlock">>},
                edges |-> engine.edges, victim |-> TRUE, verdict |-> engine.verdict]
        BY <2>1, EngineShape DEF DeadlockDetected
      <3> QED
        BY <3>1 DEF EngineLearns, Steady
    <2>2. CASE BlockedFails(s)
      <3>1. engine' = [layout |-> engine.layout, pc |-> engine.pc, next |-> engine.next,
                ctx |-> engine.ctx, canceled |-> engine.canceled,
                errs |-> engine.errs \cup {<<s, "error">>},
                edges |-> engine.edges, victim |-> engine.victim, verdict |-> engine.verdict]
        BY <2>2, EngineShape DEF BlockedFails
      <3>2. <<s, "error">>[2] # "deadlock"
        OBVIOUS
      <3>3. \A e \in engine'.errs \ engine.errs : e[2] # "deadlock"
        BY <3>1, <3>2
      <3>4. engine'.errs # {}
        BY <3>1
      <3> QED
        BY <3>1, <3>3, <3>4 DEF EngineLearns, Steady
    <2>3. CASE StatementCanceled(s)
      <3>1. engine' = [layout |-> engine.layout, pc |-> engine.pc, next |-> engine.next,
                ctx |-> engine.ctx, canceled |-> engine.canceled,
                errs |-> engine.errs \cup {<<s, "canceled">>},
                edges |-> engine.edges, victim |-> engine.victim, verdict |-> engine.verdict]
        BY <2>3, EngineShape DEF StatementCanceled
      <3>2. <<s, "canceled">>[2] # "deadlock"
        OBVIOUS
      <3>3. \A e \in engine'.errs \ engine.errs : e[2] # "deadlock"
        BY <3>1, <3>2
      <3>4. engine'.errs # {}
        BY <3>1
      <3> QED
        BY <3>1, <3>3, <3>4 DEF EngineLearns, Steady
    <2>4. CASE RolledBackByContext(s)
      <3>1. engine' = engine /\ s \in engine.canceled
        BY <2>4 DEF RolledBackByContext
      <3> QED
        BY <3>1, EngineShape DEF EngineLearns, Steady
    <2> QED
      BY <2>1, <2>2, <2>3, <2>4
  <1>4. ASSUME s = 1, Kind = "deadlock", engine.pc = "ramp" PROVE FALSE
    <2>1. engine.next = 1 /\ engine.canceled = {} /\ 1 \in Sessions \ {0}
      BY <1>4, SessionsOfLayouts DEF Phases
    <2>2. server[1].wants = 0
      BY <2>1 DEF WaiterPlaces
    <2>3. server[1].call # "wait"
      BY <2>1, <2>2 DEF LockTypes
    <2> QED
      BY <1>4, <2>1, <2>2, <2>3
      DEF DeadlockDetected, BlockedFails, StatementCanceled, RolledBackByContext, WaitsFor
  <1> QED
    BY <1>1, <1>2, <1>3, <1>4, AbortOK

\* The server grants a lock that is free: to a session whose blocker has failed.
LEMMA GrantOK ==
  ASSUME LockInv, NEW s \in Sessions, Grant(s)
  PROVE  LockInv'
  <1> USE DEF LockInv
  <1>0. engine.pc \notin {"start", "prepare"} /\ LayoutChosen
    BY WaitingIsLate DEF Grant
  <1>1. server \in [Sessions -> Session] /\ engine' = engine /\ server[s].wants # 0
        /\ \A t \in Sessions : server[s].wants \notin server[t].holds
    BY DEF LockTypes, Grant, LockFree
  <1>2. /\ server' \in [Sessions -> Session]
        /\ \A t \in Sessions \ {s} : server'[t] = server[t]
        /\ server'[s].open = server[s].open /\ server'[s].wants = 0
        /\ server'[s].holds = server[s].holds \cup {server[s].wants}
        /\ server'[s].call = "none"
    <2>1. PICK o \in BOOLEAN, h \in SUBSET Nat, w \in Nat, c \in {"none", "wait"} :
            server[s] = [open |-> o, holds |-> h, wants |-> w, call |-> c]
      BY <1>1 DEF Session
    <2>2. server' = [server EXCEPT ![s] = [open |-> o, holds |-> h \cup {w}, wants |-> 0, call |-> "none"]]
      BY <1>1, <2>1 DEF Grant
    <2>3. [open |-> o, holds |-> h \cup {w}, wants |-> 0, call |-> "none"] \in Session
      BY <2>1 DEF Session
    <2> QED
      BY <1>1, <2>1, <2>2, <2>3
  <1>3. SessionStep(s) /\ EngineLearns
    BY <1>1, <1>2, EngineShape DEF SessionStep, EngineLearns
  <1>4. LockTypes' /\ Phases' /\ Victims'
    BY <1>0, <1>2, <1>3, SessionStepOK
  <1>6. /\ Kind' = Kind /\ Waiters' = Waiters /\ HolderLocks' = HolderLocks
        /\ \A w \in Nat : Setup(w)' = Setup(w) /\ Wanted(w)' = Wanted(w)
    BY <1>1, LayoutKept
  <1>7. WaiterPlaces'
    <2>1. ASSUME NEW w \in Sessions \ {0}, w = s
          PROVE  /\ server[w].wants = Wanted(w) /\ w < engine.next
                 /\ w \in Waiters /\ w <= engine.next
      BY <1>1, <2>1 DEF WaiterPlaces
    <2> QED
      BY <1>1, <1>2, <1>6, <2>1, SessionsOfLayouts DEF WaiterPlaces
  <1>8. HolderPlaces'
    BY <1>1, <1>2, <1>6, SessionsOfLayouts DEF HolderPlaces
  <1>9. LocksApart'
    BY <1>1, <1>2 DEF LocksApart
  <1>10. CycleLocks'
    BY <1>1, <1>2, <1>6, SessionsOfLayouts DEF CycleLocks
  <1>11. SteadyLocks'
    <2>1. ~Steady
      BY <1>1, BlockersHold
    <2> QED
      BY <1>1, <2>1 DEF SteadyLocks, Steady
  <1> QED
    BY <1>4, <1>7, <1>8, <1>9, <1>10, <1>11

\* The holder's session, or none.
LEMMA PrepareHolderOK == ASSUME LockInv, PrepareHolder PROVE LockInv'
  <1> USE DEF LockInv
  <1>0. engine.pc = "prepare" /\ LayoutChosen
    BY DEF PrepareHolder, LockTypes
  <1>1. /\ engine.next = 1 /\ engine.verdict = "none" /\ engine.canceled = {}
        /\ \A s \in Sessions : server[s] = Closed
        /\ 1 \in Waiters /\ HolderLocks \in SUBSET Nat
    BY <1>0, WaitersOfLayout DEF Phases
  <1>2. Closed.wants = 0 /\ Closed.call = "none" /\ Closed.holds = {} /\ ~Closed.open
    BY DEF Closed
  <1>3. PICK pc \in {"ramp", "stop"} :
          /\ engine' = [layout |-> engine.layout, pc |-> pc, next |-> engine.next,
                ctx |-> engine.ctx, canceled |-> engine.canceled, errs |-> engine.errs,
                edges |-> engine.edges, victim |-> engine.victim, verdict |-> engine.verdict]
          /\ pc = "ramp" => server' = [server EXCEPT ![0].open = TRUE, ![0].holds = HolderLocks]
          /\ pc = "stop" => server' = server
    BY EngineShape DEF PrepareHolder
  <1>4. /\ engine'.layout = engine.layout /\ engine'.pc = pc /\ engine'.next = 1
        /\ engine'.ctx = engine.ctx /\ engine'.canceled = {} /\ engine'.errs = engine.errs
        /\ engine'.victim = engine.victim /\ engine'.verdict = "none"
        /\ engine' = [layout |-> engine'.layout, pc |-> engine'.pc, next |-> engine'.next,
               ctx |-> engine'.ctx, canceled |-> engine'.canceled, errs |-> engine'.errs,
               edges |-> engine'.edges, victim |-> engine'.victim, verdict |-> engine'.verdict]
    BY <1>1, <1>3
  <1>5. /\ Kind' = Kind /\ Waiters' = Waiters /\ HolderLocks' = HolderLocks
        /\ LayoutChosen' /\ \A w \in Nat : Setup(w)' = Setup(w) /\ Wanted(w)' = Wanted(w)
    BY <1>0, <1>4, LayoutKept
  <1>6. Victims'
    BY <1>4, <1>5 DEF Victims
  <1>7. CASE pc = "stop"
    <2>1. server' = server
      BY <1>3, <1>7
    <2>2. LockTypes'
      BY <1>1, <1>4, <1>5, <1>7, <2>1 DEF LockTypes
    <2>3. Phases'
      BY <1>1, <1>2, <1>4, <1>5, <1>7, <2>1 DEF Phases
    <2>4. EngineMoves
      BY <1>0, <1>1, <1>4, <1>7, <2>1 DEF EngineMoves
    <2> QED
      BY <1>6, <2>2, <2>3, <2>4, PlacesKept
  <1>8. CASE pc = "ramp"
    <2>0. server \in [Sessions -> Session] /\ 0 \in Sessions
      BY SessionsOfLayouts DEF LockTypes
    <2>1. server' = [server EXCEPT ![0].open = TRUE, ![0].holds = HolderLocks]
      BY <1>3, <1>8
    <2>2. server' \in [Sessions -> Session]
      <3> DEFINE a == [server EXCEPT ![0].open = TRUE]
      <3>1. a \in [Sessions -> Session]
        BY <2>0 DEF Session
      <3>2. server' = [a EXCEPT ![0].holds = HolderLocks]
        BY <2>1
      <3> HIDE DEF a
      <3> QED
        BY <1>1, <3>1, <3>2 DEF Session
    <2>3. /\ server'[0].holds = HolderLocks /\ server'[0].wants = 0 /\ server'[0].call = "none"
          /\ \A t \in Sessions \ {0} : server'[t] = Closed
      BY <1>1, <1>2, <2>0, <2>1 DEF Session
    <2>4. \A t \in Sessions : server'[t].wants = 0 /\ server'[t].call = "none"
      BY <1>2, <2>3
    <2>5. LockTypes'
      BY <1>1, <1>4, <1>5, <1>8, <2>2, <2>4 DEF LockTypes
    <2>6. Phases'
      BY <1>1, <1>4, <1>5, <1>8, <2>4 DEF Phases
    <2>7. WaiterPlaces' /\ HolderPlaces'
      BY <1>2, <1>4, <1>5, <2>3, <2>4 DEF WaiterPlaces, HolderPlaces
    <2>8. LocksApart'
      BY <1>2, <2>3 DEF LocksApart
    <2>9. CycleLocks'
      BY <1>2, <2>3, <2>4, SessionsOfLayouts DEF CycleLocks
    <2>10. SteadyLocks'
      <3>1. \A w \in Sessions \ {0} : ~(w < 1)
        BY SessionsOfLayouts
      <3> QED
        BY <1>2, <1>4, <1>5, <2>3, <2>4, <3>1 DEF SteadyLocks
    <2> QED
      BY <1>6, <2>5, <2>6, <2>7, <2>8, <2>9, <2>10
  <1> QED
    BY <1>7, <1>8

\* In Ramp nothing that the next waiter sets up is held.
LEMMA SetupIsFree ==
  ASSUME LockInv, engine.pc = "ramp", NEW w \in Sessions \ {0}, engine.next = w, w \in Waiters,
         ~server[w].open
  PROVE  \A t \in Sessions \ {w} : server[t].holds \cap Setup(w) = {}
  <1> USE DEF LockInv
  <1>0. LayoutChosen /\ w \in Nat \ {0}
    BY SessionsOfLayouts DEF LockTypes
  <1>1. Kind = "deadlock" => w = 1
    BY DEF Phases
  <1> SUFFICES ASSUME NEW t \in Sessions \ {w}, NEW r \in server[t].holds, r \in Setup(w) PROVE FALSE
    OBVIOUS
  <1>2. Kind \in {"chain", "deadlock"}
    BY <1>0, SetupOfKind DEF LockKinds
  <1>3. CASE t = 0
    <2>1. r \in HolderLocks
      BY <1>1, <1>3 DEF HolderPlaces
    <2>2. CASE Kind = "chain"
      <3>1. PICK u \in Waiters : r = RootRow(Branch(u))
        BY <1>0, <2>1, <2>2, SetupOfKind
      <3>2. r = OwnRow(w) /\ u \in Nat \ {0}
        BY <1>0, <2>2, SetupOfKind, WaitersOfLayout
      <3> QED
        BY <1>0, <3>1, <3>2, RowsOfChain
    <2>3. CASE Kind = "deadlock"
      BY <1>0, <2>1, <2>3, SetupOfKind
    <2> QED
      BY <1>2, <2>2, <2>3
  <1>4. CASE t # 0
    <2>1. t \in Sessions \ {0} /\ t \in Nat \ {0} /\ t # w
      BY <1>4, SessionsOfLayouts
    <2>2. t < w /\ (r \in Setup(t) \/ r = Wanted(t))
      BY <1>0, <2>1 DEF WaiterPlaces
    <2>3. CASE Kind = "chain"
      <3>1. r = OwnRow(w) /\ (r = OwnRow(t) \/ r = OwnRow(t) - 1)
        BY <1>0, <2>2, <2>3, SetupOfKind
      <3>2. OwnRow(t) < OwnRow(w) /\ OwnRow(t) \in Nat /\ OwnRow(w) \in Nat
        BY <1>0, <2>1, <2>2, RowsOfChain
      <3> QED
        BY <3>1, <3>2
    <2>4. CASE Kind = "deadlock"
      BY <1>1, <2>1, <2>2, <2>4
    <2> QED
      BY <1>2, <2>3, <2>4
  <1> QED
    BY <1>3, <1>4

\* A waiter is opened with the locks it sets up, or Ramp fails.
LEMMA OpenWaiterOK ==
  ASSUME LockInv, NEW w \in Sessions, OpenWaiter(w)
  PROVE  LockInv'
  <1> USE DEF LockInv
  <1>0. /\ engine.pc = "ramp" /\ engine.next = w /\ w \in Waiters /\ ~server[w].open
        /\ LayoutChosen /\ w \in Sessions \ {0} /\ w \in Nat \ {0}
        /\ server \in [Sessions -> Session] /\ engine.canceled = {} /\ Setup(w) \in SUBSET Nat
    <2>1. engine.pc = "ramp" /\ engine.next = w /\ w \in Waiters /\ ~server[w].open
      BY DEF OpenWaiter
    <2>2. LayoutChosen /\ server \in [Sessions -> Session] /\ engine.canceled = {}
      BY <2>1 DEF LockTypes, Phases
    <2>3. w \in Nat \ {0} /\ Setup(w) \in SUBSET Nat
      BY <2>1, <2>2, WaitersOfLayout
    <2> QED
      BY <2>1, <2>2, <2>3
  <1>1. PICK pc \in {"ramp", "stop"}, open \in BOOLEAN, holds \in SUBSET Nat :
          /\ engine' = [layout |-> engine.layout, pc |-> pc, next |-> engine.next,
                ctx |-> engine.ctx, canceled |-> engine.canceled, errs |-> engine.errs,
                edges |-> engine.edges, victim |-> engine.victim, verdict |-> engine.verdict]
          /\ server' = [server EXCEPT ![w].open = open, ![w].holds = holds]
          /\ pc = "ramp" => holds = Setup(w)
          /\ pc = "stop" => holds = server[w].holds
    <2>1. CASE engine' = engine /\ server' = [server EXCEPT ![w].open = TRUE, ![w].holds = Setup(w)]
      BY <1>0, <2>1, EngineShape
    <2>2. ASSUME NEW open \in BOOLEAN, server' = [server EXCEPT ![w].open = open], RampFails
          PROVE  /\ engine' = [layout |-> engine.layout, pc |-> "stop", next |-> engine.next,
                    ctx |-> engine.ctx, canceled |-> engine.canceled, errs |-> engine.errs,
                    edges |-> engine.edges, victim |-> engine.victim, verdict |-> engine.verdict]
                 /\ server' = [server EXCEPT ![w].open = open, ![w].holds = server[w].holds]
                 /\ server[w].holds \in SUBSET Nat
      BY <1>0, <2>2, EngineShape DEF RampFails, Session
    <2> QED
      BY <2>1, <2>2 DEF OpenWaiter
  <1>2. /\ engine'.layout = engine.layout /\ engine'.pc = pc /\ engine'.next = w
        /\ engine'.ctx = engine.ctx /\ engine'.canceled = {} /\ engine'.errs = engine.errs
        /\ engine'.victim = engine.victim /\ engine'.verdict = engine.verdict
        /\ engine' = [layout |-> engine'.layout, pc |-> engine'.pc, next |-> engine'.next,
               ctx |-> engine'.ctx, canceled |-> engine'.canceled, errs |-> engine'.errs,
               edges |-> engine'.edges, victim |-> engine'.victim, verdict |-> engine'.verdict]
    BY <1>0, <1>1
  <1>3. /\ Kind' = Kind /\ Waiters' = Waiters /\ HolderLocks' = HolderLocks
        /\ LayoutChosen' /\ \A u \in Nat : Setup(u)' = Setup(u) /\ Wanted(u)' = Wanted(u)
    BY <1>0, <1>2, LayoutKept
  <1>4. server' \in [Sessions -> Session]
    <2> DEFINE a == [server EXCEPT ![w].open = open]
    <2>1. a \in [Sessions -> Session]
      BY <1>0, <1>1 DEF Session
    <2>2. server' = [a EXCEPT ![w].holds = holds]
      BY <1>1
    <2> HIDE DEF a
    <2> QED
      BY ZenonT(60), <1>1, <2>1, <2>2 DEF Session
  <1>5. /\ server'[w].holds = holds /\ server'[w].open = open
        /\ server'[w].wants = server[w].wants /\ server'[w].call = server[w].call
        /\ \A t \in Sessions \ {w} : server'[t] = server[t]
    BY <1>0, <1>1 DEF Session
  <1>6. \A t \in Sessions : server'[t].wants = server[t].wants /\ server'[t].call = server[t].call
    BY <1>5
  <1>7. LockTypes'
    BY <1>0, <1>2, <1>3, <1>4, <1>6 DEF LockTypes
  <1>8. Phases'
    BY <1>0, <1>1, <1>2, <1>3, <1>6 DEF Phases
  <1>9. Victims'
    BY <1>2, <1>3 DEF Victims
  <1>10. WaiterPlaces'
    BY <1>0, <1>1, <1>2, <1>3, <1>5, SessionsOfLayouts DEF WaiterPlaces
  <1>11. HolderPlaces'
    BY <1>0, <1>1, <1>2, <1>3, <1>5, SessionsOfLayouts DEF HolderPlaces
  <1>12. LocksApart'
    <2>1. \A t \in Sessions \ {w} : server[t].holds \cap holds = {}
      BY <1>0, <1>1, SetupIsFree DEF LocksApart
    <2> QED
      BY <1>5, <2>1 DEF LocksApart
  <1>13. CycleLocks'
    <2>1. Kind = "deadlock" => w = 1 /\ Setup(w) = {2}
      BY <1>0, SetupOfKind DEF Phases
    <2> QED
      BY <1>0, <1>1, <1>2, <1>3, <1>5, <1>6, <2>1, SessionsOfLayouts DEF CycleLocks
  <1>14. SteadyLocks'
    <2> SUFFICES ASSUME Steady'
                 PROVE  /\ HolderLocks \subseteq server'[0].holds
                        /\ \A u \in Sessions \ {0} : u < w \/ (u = w /\ pc = "ramp") =>
                             u \in Waiters /\ Setup(u) \subseteq server'[u].holds
                        /\ server'[0].wants # 0 => 2 \in server'[1].holds
      BY <1>2, <1>3, SessionsOfLayouts DEF SteadyLocks
    <2>1. Steady
      BY <1>0, <1>2 DEF Steady
    <2>2. HolderLocks \subseteq server[0].holds /\ server'[0] = server[0]
      BY <1>0, <1>5, <2>1, SessionsOfLayouts DEF SteadyLocks
    <2>3. ASSUME NEW u \in Sessions \ {0}, u < w \/ (u = w /\ pc = "ramp")
          PROVE  u \in Waiters /\ Setup(u) \subseteq server'[u].holds
      <3>1. CASE u = w
        <4>1. pc = "ramp"
          BY <1>0, <2>3, <3>1
        <4> QED
          BY <1>0, <1>1, <1>5, <3>1, <4>1
      <3>2. CASE u # w
        BY <1>0, <1>5, <2>1, <2>3, <3>2 DEF SteadyLocks
      <3> QED
        BY <3>1, <3>2
    <2>4. ASSUME server[0].wants # 0 PROVE w # 1 /\ 2 \in server[1].holds
      BY <1>0, <2>1, <2>4 DEF SteadyLocks, HolderPlaces
    <2> QED
      BY <1>5, <2>2, <2>3, <2>4, SessionsOfLayouts
  <1> QED
    BY <1>7, <1>8, <1>9, <1>10, <1>11, <1>12, <1>13, <1>14

\* A session begins to wait.
LEMMA BlocksOne ==
  ASSUME LockInv, NEW s \in Sessions, NEW r \in Nat \ {0}, server' = Blocks(s, r)
  PROVE  /\ server' \in [Sessions -> Session]
         /\ server'[s].wants = r /\ server'[s].call = "wait"
         /\ \A t \in Sessions : server'[t].holds = server[t].holds /\ server'[t].open = server[t].open
         /\ \A t \in Sessions \ {s} : server'[t] = server[t]
  <1>0. server \in [Sessions -> Session]
    BY DEF LockInv, LockTypes
  <1>1. server' = [server EXCEPT ![s].wants = r, ![s].call = "wait"]
    BY DEF Blocks
  <1> DEFINE a == [server EXCEPT ![s].wants = r]
  <1>2. a \in [Sessions -> Session]
    BY <1>0 DEF Session
  <1>3. server' = [a EXCEPT ![s].call = "wait"]
    BY <1>1
  <1>4. server' \in [Sessions -> Session]
    <2> HIDE DEF a
    <2> QED
      BY <1>2, <1>3 DEF Session
  <1>5. server'[s].wants = r /\ server'[s].call = "wait"
        /\ server'[s].holds = server[s].holds /\ server'[s].open = server[s].open
    BY <1>0, <1>1 DEF Session
  <1>6. \A t \in Sessions \ {s} : server'[t] = server[t]
    BY <1>0, <1>1
  <1> QED
    BY <1>4, <1>5, <1>6

\* The goroutine of a waiter begins its statement.
LEMMA StartWaiterOK ==
  ASSUME LockInv, NEW w \in Sessions, StartWaiter(w)
  PROVE  LockInv'
  <1> USE DEF LockInv
  <1>0. /\ engine.pc = "ramp" /\ engine.next = w /\ server[w].open /\ Kind # "deadlock"
        /\ LayoutChosen /\ w \in Waiters /\ w \in Nat \ {0} /\ w \in Sessions \ {0}
        /\ Wanted(w) \in Nat \ {0} /\ engine.canceled = {} /\ w + 1 \in 1..(LastSession + 1)
    <2>1. engine.pc = "ramp" /\ engine.next = w /\ server[w].open /\ Kind # "deadlock"
      BY DEF StartWaiter
    <2>2. LayoutChosen /\ w \in Waiters /\ engine.canceled = {}
      BY <2>1 DEF LockTypes, Phases
    <2>3. w \in Nat \ {0} /\ Wanted(w) \in Nat \ {0}
      BY <2>2, WaitersOfLayout
    <2>4. w + 1 \in 1..(LastSession + 1)
      BY <2>3, SessionsOfLayouts DEF Sessions
    <2> QED
      BY <2>1, <2>2, <2>3, <2>4
  <1>1. PICK pc \in {"ramp", "observe"} :
          /\ engine' = [layout |-> engine.layout, pc |-> pc, next |-> w + 1,
                ctx |-> engine.ctx, canceled |-> engine.canceled, errs |-> engine.errs,
                edges |-> engine.edges, victim |-> engine.victim, verdict |-> engine.verdict]
          /\ pc = "ramp" => w + 1 \in Waiters
    <2> DEFINE pc == IF w + 1 \in Waiters THEN "ramp" ELSE "observe"
    <2>1. engine' = [layout |-> engine.layout, pc |-> pc, next |-> w + 1,
                ctx |-> engine.ctx, canceled |-> engine.canceled, errs |-> engine.errs,
                edges |-> engine.edges, victim |-> engine.victim, verdict |-> engine.verdict]
      BY <1>0, EngineShape DEF StartWaiter
    <2>2. pc \in {"ramp", "observe"} /\ (pc = "ramp" => w + 1 \in Waiters)
      OBVIOUS
    <2> HIDE DEF pc
    <2> QED
      BY <2>1, <2>2
  <1>2. /\ engine'.layout = engine.layout /\ engine'.pc = pc /\ engine'.next = w + 1
        /\ engine'.ctx = engine.ctx /\ engine'.canceled = {} /\ engine'.errs = engine.errs
        /\ engine'.victim = engine.victim /\ engine'.verdict = engine.verdict
        /\ engine' = [layout |-> engine'.layout, pc |-> engine'.pc, next |-> engine'.next,
               ctx |-> engine'.ctx, canceled |-> engine'.canceled, errs |-> engine'.errs,
               edges |-> engine'.edges, victim |-> engine'.victim, verdict |-> engine'.verdict]
    BY <1>0, <1>1
  <1>3. /\ Kind' = Kind /\ Waiters' = Waiters /\ HolderLocks' = HolderLocks
        /\ LayoutChosen' /\ \A u \in Nat : Setup(u)' = Setup(u) /\ Wanted(u)' = Wanted(u)
    BY <1>0, <1>2, LayoutKept
  <1>4. /\ server' \in [Sessions -> Session]
        /\ server'[w].wants = Wanted(w) /\ server'[w].call = "wait"
        /\ \A t \in Sessions : server'[t].holds = server[t].holds /\ server'[t].open = server[t].open
        /\ \A t \in Sessions \ {w} : server'[t] = server[t]
    <2>1. server' = Blocks(w, Wanted(w))
      BY DEF StartWaiter
    <2> QED
      BY <1>0, <2>1, BlocksOne
  <1>5. LockTypes'
    <2>1. \A t \in Sessions : server'[t].call = "wait" <=> server'[t].wants # 0
      BY <1>0, <1>4 DEF LockTypes
    <2> QED
      BY <1>0, <1>2, <1>3, <1>4, <2>1 DEF LockTypes
  <1>6. Phases'
    BY <1>0, <1>1, <1>2, <1>3, <1>4 DEF Phases
  <1>7. Victims'
    BY <1>2, <1>3 DEF Victims
  <1>8. WaiterPlaces'
    <2>1. ASSUME NEW u \in Sessions \ {0}
          PROVE  /\ \A r \in server'[u].holds : r \in Setup(u) \/ (r = Wanted(u) /\ u < w + 1)
                 /\ server'[u].wants # 0 => server'[u].wants = Wanted(u) /\ u < w + 1
                 /\ server'[u].open \/ server'[u].holds # {} \/ server'[u].wants # 0 =>
                      u <= w + 1 /\ u \in Waiters
      <3>1. u \in Nat
        BY SessionsOfLayouts
      <3>2. CASE u = w
        BY <1>0, <1>4, <3>1, <3>2 DEF WaiterPlaces
      <3>3. CASE u # w
        BY <1>0, <1>4, <3>1, <3>3 DEF WaiterPlaces
      <3> QED
        BY <3>2, <3>3
    <2> QED
      BY <1>2, <1>3, <2>1, SessionsOfLayouts DEF WaiterPlaces
  <1>9. HolderPlaces'
    BY <1>0, <1>2, <1>3, <1>4, SessionsOfLayouts DEF HolderPlaces
  <1>10. LocksApart' /\ CycleLocks'
    BY <1>0, <1>3, <1>4 DEF LocksApart, CycleLocks
  <1>11. SteadyLocks'
    <2> SUFFICES ASSUME Steady'
                 PROVE  /\ HolderLocks \subseteq server'[0].holds
                        /\ \A u \in Sessions \ {0} : u < w + 1 \/ (u = w + 1 /\ server'[u].open) =>
                             u \in Waiters /\ Setup(u) \subseteq server'[u].holds
                        /\ server'[0].wants # 0 => 2 \in server'[1].holds
      BY <1>2, <1>3, SessionsOfLayouts DEF SteadyLocks
    <2>1. Steady
      BY <1>0, <1>2 DEF Steady
    <2>2. HolderLocks \subseteq server'[0].holds
      BY <1>0, <1>4, <2>1, SessionsOfLayouts DEF SteadyLocks
    <2>3. ASSUME NEW u \in Sessions \ {0}, u < w + 1 \/ (u = w + 1 /\ server'[u].open)
          PROVE  u \in Waiters /\ Setup(u) \subseteq server'[u].holds
      <3>1. u \in Nat
        BY SessionsOfLayouts
      <3>2. ASSUME u = w + 1 PROVE FALSE
        <4>1. u # w /\ u > w /\ u \in Sessions \ {0}
          BY <1>0, <3>2
        <4>2. server'[u].open /\ server'[u] = server[u]
          BY <1>0, <1>4, <2>3, <3>1, <3>2, <4>1
        <4>3. u <= w
          BY <1>0, <4>1, <4>2 DEF WaiterPlaces
        <4> QED
          BY <1>0, <3>1, <4>1, <4>3
      <3>3. u < w \/ u = w
        BY <1>0, <2>3, <3>1, <3>2
      <3> QED
        BY <1>0, <1>4, <2>1, <3>3 DEF SteadyLocks
    <2>4. server'[0].wants = 0
      BY <1>0, <1>4, SessionsOfLayouts DEF HolderPlaces
    <2> QED
      BY <2>2, <2>3, <2>4
  <1> QED
    BY <1>5, <1>6, <1>7, <1>8, <1>9, <1>10, <1>11

\* 504: the holder begins to wait for the waiter's row.
LEMMA StartHolderOK == ASSUME LockInv, StartHolder PROVE LockInv'
  <1> USE DEF LockInv
  <1>0. /\ engine.pc = "ramp" /\ Kind = "deadlock" /\ server[1].open /\ engine' = engine
        /\ 2 \in server[1].holds /\ 0 \in Sessions /\ 1 \in Sessions
    BY SessionsOfLayouts DEF StartHolder, CycleLocks
  <1>1. /\ server' \in [Sessions -> Session]
        /\ server'[0].wants = 2 /\ server'[0].call = "wait"
        /\ \A t \in Sessions : server'[t].holds = server[t].holds /\ server'[t].open = server[t].open
        /\ \A t \in Sessions \ {0} : server'[t] = server[t]
    <2>1. server' = Blocks(0, 2)
      BY DEF StartHolder
    <2> QED
      BY <1>0, <2>1, BlocksOne
  <1>2. /\ Kind' = Kind /\ Waiters' = Waiters /\ HolderLocks' = HolderLocks
        /\ LayoutChosen' = LayoutChosen
        /\ \A u \in Nat : Setup(u)' = Setup(u) /\ Wanted(u)' = Wanted(u)
    BY <1>0, LayoutKept
  <1>3. LockTypes'
    <2>1. ASSUME NEW t \in Sessions
          PROVE  server'[t].call = "wait" <=> server'[t].wants # 0
      <3>1. CASE t = 0
        BY <1>1, <3>1
      <3>2. CASE t # 0
        BY <1>1, <3>2 DEF LockTypes
      <3> QED
        BY <3>1, <3>2
    <2> QED
      BY <1>0, <1>1, <1>2, <2>1 DEF LockTypes
  <1>4. Phases' /\ Victims'
    BY <1>0, <1>1, <1>2 DEF Phases, Victims
  <1>5. WaiterPlaces' /\ HolderPlaces'
    BY ZenonT(60), <1>0, <1>1, <1>2, SessionsOfLayouts DEF WaiterPlaces, HolderPlaces
  <1>6. LocksApart' /\ CycleLocks'
    BY <1>0, <1>1, <1>2 DEF LocksApart, CycleLocks
  <1>7. SteadyLocks'
    BY <1>0, <1>1, <1>2, SessionsOfLayouts DEF SteadyLocks, Steady
  <1> QED
    BY <1>3, <1>4, <1>5, <1>6, <1>7

\* The edge of 504's holder is seen when its waiter is open.
EdgesSeen ==
  /\ engine.pc \in {"start", "prepare"} => engine.edges = {}
  /\ engine.pc = "ramp" /\ Kind = "deadlock" /\ <<1, 0>> \in engine.edges => server[1].open

\* 504: the waiter closes the cycle.
LEMMA CloseCycleOK == ASSUME LockInv, EdgesSeen, CloseCycle PROVE LockInv'
  <1> USE DEF LockInv
  <1>0. /\ engine.pc = "ramp" /\ Kind = "deadlock" /\ server[1].open
        /\ 2 \in server[1].holds /\ 0 \in Sessions /\ 1 \in Sessions \ {0}
        /\ engine.next = 1 /\ engine.canceled = {} /\ LayoutChosen /\ 1 \in Waiters /\ Wanted(1) = 1
    <2>1. engine.pc = "ramp" /\ Kind = "deadlock" /\ server[1].open
      BY DEF CloseCycle, EdgesSeen
    <2>2. LayoutChosen /\ 2 \in server[1].holds /\ engine.next = 1 /\ engine.canceled = {}
      BY <2>1 DEF LockTypes, CycleLocks, Phases
    <2> QED
      BY <2>1, <2>2, SessionsOfLayouts, WaitersOfLayout, SetupOfKind
  <1>1. /\ server' \in [Sessions -> Session]
        /\ server'[1].wants = 1 /\ server'[1].call = "wait"
        /\ \A t \in Sessions : server'[t].holds = server[t].holds /\ server'[t].open = server[t].open
        /\ \A t \in Sessions \ {1} : server'[t] = server[t]
    <2>1. server' = Blocks(1, 1)
      BY DEF CloseCycle
    <2> QED
      BY <1>0, <2>1, BlocksOne
  <1>2. /\ engine' = [layout |-> engine'.layout, pc |-> engine'.pc, next |-> engine'.next,
               ctx |-> engine'.ctx, canceled |-> engine'.canceled, errs |-> engine'.errs,
               edges |-> engine'.edges, victim |-> engine'.victim, verdict |-> engine'.verdict]
        /\ engine'.layout = engine.layout /\ engine'.pc = "observe" /\ engine'.next = 2
        /\ engine'.ctx = engine.ctx /\ engine'.canceled = {} /\ engine'.errs = engine.errs
        /\ engine'.victim = engine.victim /\ engine'.verdict = engine.verdict
    <2>1. engine' = [layout |-> engine.layout, pc |-> "observe", next |-> 2,
                ctx |-> engine.ctx, canceled |-> engine.canceled, errs |-> engine.errs,
                edges |-> engine.edges, victim |-> engine.victim, verdict |-> engine.verdict]
      BY EngineShape DEF CloseCycle
    <2> QED
      BY <1>0, <2>1
  <1>3. /\ Kind' = Kind /\ Waiters' = Waiters /\ HolderLocks' = HolderLocks
        /\ LayoutChosen' /\ \A u \in Nat : Setup(u)' = Setup(u) /\ Wanted(u)' = Wanted(u)
    BY <1>0, <1>2, LayoutKept
  <1>4. LockTypes'
    <2>1. 2 \in 1..(LastSession + 1)
      BY SessionsOfLayouts
    <2>2. ASSUME NEW t \in Sessions
          PROVE  server'[t].call = "wait" <=> server'[t].wants # 0
      <3>1. CASE t = 1
        BY <1>1, <3>1
      <3>2. CASE t # 1
        BY <1>1, <3>2 DEF LockTypes
      <3> QED
        BY <3>1, <3>2
    <2> QED
      BY <1>1, <1>2, <1>3, <2>1, <2>2 DEF LockTypes
  <1>5. Phases' /\ Victims'
    BY <1>0, <1>1, <1>2, <1>3 DEF Phases, Victims
  <1>6. WaiterPlaces'
    <2>1. ASSUME NEW u \in Sessions \ {0}
          PROVE  /\ \A r \in server'[u].holds : r \in Setup(u) \/ (r = Wanted(u) /\ u < 2)
                 /\ server'[u].wants # 0 => server'[u].wants = Wanted(u) /\ u < 2
                 /\ server'[u].open \/ server'[u].holds # {} \/ server'[u].wants # 0 =>
                      u <= 2 /\ u \in Waiters
      <3>1. u \in Nat
        BY SessionsOfLayouts
      <3>2. CASE u = 1
        BY <1>0, <1>1, <3>1, <3>2 DEF WaiterPlaces
      <3>3. CASE u # 1
        BY <1>0, <1>1, <3>1, <3>3 DEF WaiterPlaces
      <3> QED
        BY <3>2, <3>3
    <2> QED
      BY <1>2, <1>3, <2>1, SessionsOfLayouts DEF WaiterPlaces
  <1>7. HolderPlaces'
    BY <1>0, <1>1, <1>2, <1>3 DEF HolderPlaces
  <1>8. LocksApart' /\ CycleLocks'
    BY <1>0, <1>1, <1>2, <1>3 DEF LocksApart, CycleLocks
  <1>9. SteadyLocks'
    <2> SUFFICES ASSUME Steady'
                 PROVE  /\ HolderLocks \subseteq server'[0].holds
                        /\ \A u \in Sessions \ {0} : u < 2 =>
                             u \in Waiters /\ Setup(u) \subseteq server'[u].holds
                        /\ 2 \in server'[1].holds
      BY <1>2, <1>3, SessionsOfLayouts DEF SteadyLocks
    <2>1. Steady
      BY <1>0, <1>2 DEF Steady
    <2>2. \A u \in Sessions \ {0} : u < 2 => u = 1
      BY SessionsOfLayouts
    <2> QED
      BY <1>0, <1>1, <2>1, <2>2 DEF SteadyLocks
  <1> QED
    BY <1>4, <1>5, <1>6, <1>7, <1>8, <1>9

\* Stop closes the waiters, and then the holder.
LEMMA ReleaseOK == ASSUME LockInv, ReleaseWaiters \/ ReleaseHolder PROVE LockInv'
  <1> USE DEF LockInv
  <1>0. Closed \in Session /\ Closed.wants = 0 /\ Closed.call = "none" /\ Closed.holds = {}
        /\ ~Closed.open /\ 0 \in Sessions /\ 1 \in Sessions \ {0}
        /\ server \in [Sessions -> Session]
    <2>1. {} \in SUBSET Nat
      OBVIOUS
    <2>2. /\ Closed \in Session /\ Closed.wants = 0 /\ Closed.call = "none"
          /\ Closed.holds = {} /\ ~Closed.open
      BY <2>1 DEF Closed, Session
    <2>3. server \in [Sessions -> Session]
      BY DEF LockTypes
    <2> QED
      BY <2>2, <2>3, SessionsOfLayouts
  <1>1. PICK pc \in {"join holder", "end"}, canceled \in SUBSET Sessions :
          /\ engine' = [layout |-> engine.layout, pc |-> pc, next |-> engine.next,
                ctx |-> engine.ctx, canceled |-> canceled, errs |-> engine.errs,
                edges |-> engine.edges, victim |-> engine.victim, verdict |-> engine.verdict]
          /\ engine.pc \in {"join waiters", "join holder"} /\ canceled # {}
    <2>1. CASE ReleaseWaiters
      <3> DEFINE d == engine.canceled \cup {0}
      <3>1. engine' = [layout |-> engine.layout, pc |-> "join holder", next |-> engine.next,
                ctx |-> engine.ctx, canceled |-> d, errs |-> engine.errs,
                edges |-> engine.edges, victim |-> engine.victim, verdict |-> engine.verdict]
            /\ engine.pc = "join waiters"
        BY <2>1, EngineShape DEF ReleaseWaiters
      <3>2. d \in SUBSET Sessions /\ d # {}
        BY <1>0 DEF LockTypes
      <3> HIDE DEF d
      <3> QED
        BY <3>1, <3>2
    <2>2. CASE ReleaseHolder
      <3>1. engine' = [layout |-> engine.layout, pc |-> "end", next |-> engine.next,
                ctx |-> engine.ctx, canceled |-> engine.canceled, errs |-> engine.errs,
                edges |-> engine.edges, victim |-> engine.victim, verdict |-> engine.verdict]
            /\ engine.pc = "join holder"
        BY <2>2, EngineShape DEF ReleaseHolder
      <3>2. engine.canceled \in SUBSET Sessions /\ engine.canceled # {}
        BY <3>1 DEF LockTypes, Phases
      <3> QED
        BY <3>1, <3>2
    <2> QED
      BY <2>1, <2>2
  <1>2. /\ server' \in [Sessions -> Session]
        /\ server'[0] = server[0] \/ server'[0] = Closed
        /\ \A w \in Sessions \ {0} : server'[w].wants = 0 /\ server'[w].call = "none"
        /\ \A w \in Sessions \ {0} : server'[w] = server[w] \/ server'[w] = Closed
    <2>1. CASE ReleaseWaiters
      BY <1>0, <2>1 DEF ReleaseWaiters
    <2>2. CASE ReleaseHolder
      <3>1. \A w \in Sessions \ {0} : server[w].wants = 0 /\ server[w].call # "wait"
        BY <2>2 DEF ReleaseHolder, Phases, LockTypes
      <3>2. \A w \in Sessions \ {0} : server[w].call = "none"
        BY <1>0, <3>1 DEF Session
      <3> QED
        BY <1>0, <2>2, <3>1, <3>2 DEF ReleaseHolder
    <2> QED
      BY <2>1, <2>2
  <1>3. /\ engine' = [layout |-> engine'.layout, pc |-> engine'.pc, next |-> engine'.next,
               ctx |-> engine'.ctx, canceled |-> engine'.canceled, errs |-> engine'.errs,
               edges |-> engine'.edges, victim |-> engine'.victim, verdict |-> engine'.verdict]
        /\ engine'.layout = engine.layout /\ engine'.pc = pc /\ engine'.next = engine.next
        /\ engine'.ctx = engine.ctx /\ engine'.canceled = canceled /\ engine'.errs = engine.errs
        /\ engine'.victim = engine.victim /\ engine'.verdict = engine.verdict
    BY <1>1
  <1>4. /\ Kind' = Kind /\ Waiters' = Waiters /\ HolderLocks' = HolderLocks
        /\ LayoutChosen' = LayoutChosen
        /\ \A u \in Nat : Setup(u)' = Setup(u) /\ Wanted(u)' = Wanted(u)
    BY <1>3, LayoutKept
  <1>5. LockTypes'
    <2>1. ASSUME NEW t \in Sessions
          PROVE  server'[t].call = "wait" <=> server'[t].wants # 0
      <3>1. CASE t = 0
        <4>1. server[0].call = "wait" <=> server[0].wants # 0
          BY <1>0 DEF LockTypes
        <4> QED
          BY <1>0, <1>2, <3>1, <4>1
      <3>2. CASE t # 0
        BY <1>2, <3>2
      <3> QED
        BY <3>1, <3>2
    <2> QED
      BY <1>1, <1>2, <1>3, <1>4, <2>1 DEF LockTypes
  <1>6. Phases' /\ Victims'
    BY <1>1, <1>2, <1>3, <1>4 DEF Phases, Victims
  <1>7. WaiterPlaces'
    <2>1. ASSUME NEW u \in Sessions \ {0}
          PROVE  /\ \A r \in server'[u].holds : r \in Setup(u) \/ (r = Wanted(u) /\ u < engine.next)
                 /\ server'[u].wants = 0
                 /\ server'[u].open \/ server'[u].holds # {} =>
                      u <= engine.next /\ u \in Waiters
      <3>1. CASE server'[u] = server[u]
        BY <1>2, <3>1 DEF WaiterPlaces
      <3>2. CASE server'[u] = Closed
        BY <1>0, <3>2
      <3> QED
        BY <1>2, <3>1, <3>2
    <2> QED
      BY <1>3, <1>4, <2>1, SessionsOfLayouts DEF WaiterPlaces
  <1>8. HolderPlaces'
    BY <1>0, <1>1, <1>2, <1>3, <1>4 DEF HolderPlaces
  <1>9. LocksApart'
    BY <1>0, <1>2 DEF LocksApart
  <1>10. CycleLocks'
    BY <1>0, <1>1, <1>2, <1>3 DEF CycleLocks
  <1>11. SteadyLocks'
    BY <1>1, <1>3 DEF SteadyLocks, Steady
  <1> QED
    BY <1>5, <1>6, <1>7, <1>8, <1>9, <1>10, <1>11

\* The edges seen, and the waiter of 504, stay.
EdgesKept ==
  /\ engine'.layout = engine.layout /\ engine'.pc = engine.pc /\ engine'.edges = engine.edges
  /\ server[1].open => server'[1].open

LEMMA EdgesSeenOK ==
  ASSUME LockInv, EdgesSeen, [LockNext]_lockVars
  PROVE  EdgesSeen'
  <1> USE DEF LockInv
  <1>1. ASSUME EdgesKept PROVE EdgesSeen'
    <2>1. Kind' = Kind
      BY <1>1, LayoutKept DEF EdgesKept
    <2> QED
      BY <1>1, <2>1 DEF EdgesKept, EdgesSeen
  <1>2. ASSUME engine'.pc \notin {"start", "prepare", "ramp"} PROVE EdgesSeen'
    BY <1>2 DEF EdgesSeen
  <1>3. CASE UNCHANGED lockVars
    BY <1>1, <1>3 DEF lockVars, EdgesKept
  <1>4. CASE \E l \in Layouts : ChooseLayout(l)
    <2>1. engine.pc = "start" /\ engine'.pc = "prepare" /\ engine'.edges = engine.edges
      BY <1>4, EngineShape DEF ChooseLayout
    <2> QED
      BY <2>1 DEF EdgesSeen
  <1>5. CASE PrepareHolder
    <2>1. engine.pc = "prepare" /\ engine'.pc \in {"ramp", "stop"} /\ engine'.edges = engine.edges
      BY <1>5, EngineShape DEF PrepareHolder
    <2> QED
      BY <2>1 DEF EdgesSeen
  <1>6. CASE Observe
    <2>1. /\ engine'.pc = engine.pc /\ engine'.layout = engine.layout /\ server' = server
          /\ engine'.edges = engine.edges \cup SeenEdges /\ engine.pc \notin {"start", "prepare"}
      BY <1>6, EngineShape DEF Observe
    <2>2. Kind' = Kind
      BY <2>1, LayoutKept
    <2>3. ASSUME <<1, 0>> \in SeenEdges, engine.pc = "ramp" PROVE server[1].open
      BY <2>3 DEF SeenEdges, WaitsFor, HolderPlaces
    <2> QED
      BY <2>1, <2>2, <2>3 DEF EdgesSeen
  <1>7. CASE \/ CloseCycle \/ Captured \/ EdgeNotSeen \/ HoldLocks \/ VerifyLock \/ VerifyDeadlock
             \/ Stopping \/ \E all \in BOOLEAN : CancelLocks(all)
    <2>1. CASE CloseCycle \/ Captured \/ EdgeNotSeen \/ HoldLocks
      BY <1>2, <2>1, EngineShape DEF CloseCycle, Captured, EdgeNotSeen, HoldLocks, RampFails
    <2>2. CASE VerifyLock
      BY <1>2, <2>2, EngineShape DEF VerifyLock
    <2>3. CASE VerifyDeadlock
      BY <1>2, <2>3, EngineShape DEF VerifyDeadlock
    <2>4. CASE Stopping
      BY <1>2, <2>4, EngineShape DEF Stopping, StopWaiters, ReleaseWaiters, ReleaseHolder
    <2>5. CASE \E all \in BOOLEAN : CancelLocks(all)
      <3>1. PICK all \in BOOLEAN : CancelLocks(all)
        BY <2>5
      <3>2. engine'.pc \in {"verify", "stop"}
        BY <3>1, EngineShape DEF CancelLocks
      <3> QED
        BY <1>2, <3>2
    <2> QED
      BY <1>7, <2>1, <2>2, <2>3, <2>4, <2>5
  <1>8. CASE StartHolder
    <2>1. engine' = engine /\ server' = Blocks(0, 2) /\ 0 \in Sessions /\ 1 \in Sessions
          /\ server \in [Sessions -> Session]
      BY <1>8, SessionsOfLayouts DEF StartHolder, LockTypes
    <2>2. server'[1].open = server[1].open
      BY <2>1, BlocksOne
    <2> QED
      BY <1>1, <2>1, <2>2 DEF EdgesKept
  <1>9. ASSUME NEW s \in Sessions, OpenWaiter(s) PROVE EdgesSeen'
    <2>1. server \in [Sessions -> Session] /\ 1 \in Sessions
      BY SessionsOfLayouts DEF LockTypes
    <2>2. CASE RampFails
      BY <1>2, <2>2, EngineShape DEF RampFails
    <2>3. CASE engine' = engine /\ server' = [server EXCEPT ![s].open = TRUE, ![s].holds = Setup(s)]
      <3>1. server[1].open => server'[1].open
        BY <2>1, <2>3 DEF Session
      <3> QED
        BY <1>1, <2>3, <3>1 DEF EdgesKept
    <2> QED
      BY <1>9, <2>2, <2>3 DEF OpenWaiter
  <1>10. ASSUME NEW s \in Sessions, StartWaiter(s) PROVE EdgesSeen'
    <2>1. /\ engine.pc = "ramp" /\ Kind # "deadlock" /\ engine'.layout = engine.layout
          /\ engine'.pc \in {"ramp", "observe"}
      BY <1>10, EngineShape DEF StartWaiter
    <2>2. Kind' = Kind
      BY <2>1, LayoutKept
    <2> QED
      BY <2>1, <2>2 DEF EdgesSeen
  <1>11. ASSUME NEW s \in Sessions,
                \/ Grant(s) \/ DeadlockDetected(s) \/ BlockedFails(s) \/ StatementCanceled(s)
                \/ RolledBackByContext(s)
         PROVE  EdgesSeen'
    <2>1. server \in [Sessions -> Session] /\ 1 \in Sessions
      BY SessionsOfLayouts DEF LockTypes
    <2>2. engine'.layout = engine.layout /\ engine'.pc = engine.pc /\ engine'.edges = engine.edges
      BY <1>11, EngineShape
      DEF Grant, DeadlockDetected, BlockedFails, StatementCanceled, RolledBackByContext
    <2>3. server'[1].open = server[1].open
      <3>1. CASE Grant(s)
        BY <2>1, <3>1 DEF Grant, Session
      <3>2. CASE ~Grant(s)
        <4>1. server' = Abort(s)
          BY <1>11, <3>2
          DEF DeadlockDetected, BlockedFails, StatementCanceled, RolledBackByContext
        <4> QED
          BY <2>1, <4>1 DEF Abort, Session
      <3> QED
        BY <3>1, <3>2
    <2> QED
      BY <1>1, <2>2, <2>3 DEF EdgesKept
  <1> QED
    BY <1>3, <1>4, <1>5, <1>6, <1>7, <1>8, <1>9, <1>10, <1>11 DEF LockNext

LEMMA LockNextOK ==
  ASSUME LockInv, EdgesSeen, [LockNext]_lockVars
  PROVE  LockInv'
  <1>1. CASE UNCHANGED lockVars
    <2>1. EngineMoves
      BY <1>1 DEF lockVars, EngineMoves
    <2>2. Kind' = Kind /\ Waiters' = Waiters /\ LayoutChosen' = LayoutChosen
      BY <1>1, LayoutKept DEF lockVars
    <2>3. LockTypes' /\ Phases' /\ Victims'
      BY <1>1, <2>2 DEF lockVars, LockInv, LockTypes, Phases, Victims
    <2> QED
      BY <2>1, <2>3, PlacesKept DEF LockInv
  <1>2. CASE \E l \in Layouts : ChooseLayout(l)
    BY <1>2, ChooseLayoutOK
  <1>3. CASE PrepareHolder \/ StartHolder \/ CloseCycle
    BY <1>3, PrepareHolderOK, StartHolderOK, CloseCycleOK
  <1>4. CASE \/ Observe \/ Captured \/ EdgeNotSeen \/ HoldLocks \/ VerifyLock \/ VerifyDeadlock
             \/ StopWaiters \/ \E all \in BOOLEAN : CancelLocks(all)
    BY <1>4, EngineOK
  <1>5. CASE ReleaseWaiters \/ ReleaseHolder
    BY <1>5, ReleaseOK
  <1>6. ASSUME NEW s \in Sessions, OpenWaiter(s) \/ StartWaiter(s) \/ Grant(s)
        PROVE  LockInv'
    BY <1>6, OpenWaiterOK, StartWaiterOK, GrantOK
  <1>7. ASSUME NEW s \in Sessions,
               \/ DeadlockDetected(s) \/ BlockedFails(s) \/ StatementCanceled(s)
               \/ RolledBackByContext(s)
        PROVE  LockInv'
    BY <1>7, FailuresOK
  <1> QED
    BY <1>1, <1>2, <1>3, <1>4, <1>5, <1>6, <1>7 DEF LockNext, Stopping

-----------------------------------------------------------------------------
(* What the scenarios promise.                                               *)

LEMMA LocksAsDefined ==
  ASSUME LockInv
  PROVE  LockTypeOK /\ OnlyExpectedWaits /\ DeadlockIsReal
  <1> USE DEF LockInv
  <1>1. LockTypeOK
    BY DEF LockTypeOK, LockTypes, LocksApart
  <1>2. OnlyExpectedWaits
    <2> SUFFICES ASSUME Steady, NEW s \in Sessions, NEW t \in Sessions, WaitsFor(s, t)
                 PROVE  <<t, s>> \in ExpectedEdges /\ server[s].wants \notin server[s].holds
      BY DEF OnlyExpectedWaits, Steady
    <2>1. server[s].wants # 0 /\ server[s].wants \in server[t].holds
      BY DEF WaitsFor
    <2>2. PICK u \in Sessions \ {s} :
            server[s].wants \in server[u].holds /\ <<u, s>> \in ExpectedEdges
      BY <2>1, BlockersHold
    <2> QED
      BY <2>1, <2>2 DEF LocksApart
  <1>3. DeadlockIsReal
    BY DEF DeadlockIsReal, Victims
  <1> QED
    BY <1>1, <1>2, <1>3

\* Stop goes on while the run's context lives.
StopsAlive == engine.ctx = "live" /\ engine.pc \in {"stop", "join waiters", "join holder"}

LEMMA BlockerStays ==
  ASSUME LockInv, NEW w \in Sessions \ {0}, server[w].wants # 0, StopsAlive
  PROVE  [LockNext]_lockVars => engine'.victim \/ server'[0].holds = server[0].holds
  <1> USE DEF LockInv
  <1>0. /\ server[w].wants # 0 /\ engine.pc # "join holder" /\ 0 \notin engine.canceled
        /\ 0 \in Sessions /\ 1 \in Sessions \ {0} /\ server \in [Sessions -> Session]
    <2>1. server[w].wants # 0 /\ engine.pc # "join holder"
      BY DEF Phases
    <2>2. 0 \notin engine.canceled
      BY <2>1 DEF Phases, StopsAlive
    <2>3. server \in [Sessions -> Session]
      BY DEF LockTypes
    <2>4. 1 # 0
      OBVIOUS
    <2>5. 0 \in Sessions /\ 1 \in Sessions \ {0}
      BY <2>4, SessionsOfLayouts, Zenon
    <2> QED
      BY <2>1, <2>2, <2>3, <2>5
  <1>1. CASE server' = server
    BY <1>1
  <1>2. CASE ReleaseWaiters
    BY <1>0, <1>2 DEF ReleaseWaiters
  <1>3. CASE ReleaseHolder \/ PrepareHolder \/ StartHolder \/ CloseCycle
    <2>1. engine.pc \in {"stop", "join waiters"}
      BY <1>0 DEF StopsAlive
    <2> QED
      BY <1>3, <2>1 DEF ReleaseHolder, PrepareHolder, StartHolder, CloseCycle
  <1>4. ASSUME NEW s \in Sessions, OpenWaiter(s) \/ StartWaiter(s) PROVE FALSE
    BY <1>4 DEF OpenWaiter, StartWaiter, StopsAlive
  <1>5. ASSUME NEW s \in Sessions, Grant(s)
        PROVE  server'[0].holds = server[0].holds
    <2>1. CASE s # 0
      BY <1>0, <1>5, <2>1 DEF Grant
    <2>2. CASE s = 0
      <3>1. Kind = "deadlock" /\ server[0].wants = 2
        BY <1>5, <2>2 DEF Grant, HolderPlaces
      <3>2. w < engine.next /\ engine.next <= 2 /\ w \in Nat /\ engine.next \in Nat
        <4>1. engine.next \in 1..(LastSession + 1)
          BY DEF LockTypes
        <4>2. LastSession \in Nat /\ w \in Nat
          BY SessionsOfLayouts, Zenon
        <4>3. w < engine.next
          BY <1>0 DEF WaiterPlaces
        <4>4. engine.next <= 2
          BY <3>1 DEF Phases
        <4> QED
          BY <4>1, <4>2, <4>3, <4>4
      <3>3. w = 1
        BY <3>2, w # 0
      <3>4. 2 \in server[1].holds
        BY <1>0, <3>1, <3>3 DEF CycleLocks
      <3>5. 2 \notin server[1].holds
        BY <1>0, <1>5, <2>2, <3>1 DEF Grant, LockFree
      <3> QED
        BY <3>4, <3>5
    <2> QED
      BY <2>1, <2>2
  <1>6. ASSUME NEW s \in Sessions, DeadlockDetected(s)
        PROVE  engine'.victim
    BY <1>6, EngineShape DEF DeadlockDetected
  <1>7. ASSUME NEW s \in Sessions, BlockedFails(s) PROVE FALSE
    BY <1>7 DEF BlockedFails, StopsAlive
  <1>8. ASSUME NEW s \in Sessions, StatementCanceled(s) \/ RolledBackByContext(s)
        PROVE  server'[0].holds = server[0].holds
    <2>1. s # 0 /\ server' = Abort(s)
      BY <1>0, <1>8 DEF StatementCanceled, RolledBackByContext, StopsAlive
    <2> QED
      BY <1>0, <2>1 DEF Abort
  <1>9. CASE \/ \E l \in Layouts : ChooseLayout(l)
             \/ Observe \/ Captured \/ EdgeNotSeen \/ HoldLocks \/ VerifyLock \/ VerifyDeadlock
             \/ StopWaiters \/ \E all \in BOOLEAN : CancelLocks(all)
             \/ UNCHANGED lockVars
    BY <1>1, <1>9 DEF ChooseLayout, Observe, Captured, EdgeNotSeen, HoldLocks, VerifyLock,
       VerifyDeadlock, StopWaiters, CancelLocks, lockVars
  <1> QED
    BY <1>2, <1>3, <1>4, <1>5, <1>6, <1>7, <1>8, <1>9 DEF LockNext, Stopping

\* A lock scenario has only the waits of its definition, reports a deadlock
\* only when the server has ended one, and keeps a blocker locked until nobody
\* waits for it (lock_engine.go).
THEOREM BlockersOutlive == LockSpec => LockSafety
  <1>1. LockInit => LockInv /\ EdgesSeen
    <2>1. LockInit => EdgesSeen
      BY DEF LockInit, EdgesSeen
    <2> QED
      BY <2>1, LockInitOK
  <1>2. LockInv /\ EdgesSeen /\ [LockNext]_lockVars => (LockInv /\ EdgesSeen)'
    BY LockNextOK, EdgesSeenOK
  <1>3. LockInv => LockTypeOK /\ OnlyExpectedWaits /\ DeadlockIsReal
    BY LocksAsDefined
  <1> DEFINE Keeps ==
        (\E w \in Sessions \ {0} : WaitsFor(w, 0)) /\ engine.ctx = "live"
        /\ engine.pc \in {"stop", "join waiters", "join holder"} /\ ~engine'.victim
        => server'[0].holds = server[0].holds
  <1>4. LockInv /\ [LockNext]_lockVars => [Keeps]_lockVars
    BY BlockerStays DEF WaitsFor, StopsAlive
  <1> QED
    BY <1>1, <1>2, <1>3, <1>4, PTL DEF LockSpec, LockSafety, BlockerOutlivesWaiters

-----------------------------------------------------------------------------
(* ScenarioRuns.  What is known of one scenario at each of its points.        *)

EarlyPoint == {"off", "preflight", "prepare", "prepared"}
LatePoint == {"ramp", "hold", "verify", "stop", "stopping", "report", "done"}

Scenario ==
  [kind : Kinds, pc : EarlyPoint \cup LatePoint, alive : 0..Width, open : 0..Width,
   group : {"new", "none", "running", "retiring", "stopped"},
   errs : BOOLEAN, warned : BOOLEAN, failed : BOOLEAN,
   verdict : {"none", "SUCCESS", "DEGRADED", "FAILED", "error"},
   ended : {"nil", "deadline", "canceled", "error"},
   outcome : {"none", "SUCCESS", "DEGRADED", "FAILED", "error",
              "COMPLETED_WITH_WARNINGS"}]

NothingLeft(r) == r.alive = 0 /\ r.open = 0
Broken(r) == r.ended \in {"canceled", "error"}

\* Goroutines come after the barrier.  A scenario that reaches its Stop has failed
\* or was judged; from then on its group starts nothing; and it is reported as
\* anything but failed only if nothing of it is left and nothing went wrong.
Sound(r) ==
  /\ r \in Scenario
  /\ r.pc \in EarlyPoint => r.alive = 0 /\ r.ended = "nil"
  /\ r.pc \in {"preflight", "prepare"} => r.group = "new"
  /\ r.pc \in {"stop", "stopping", "report"} => r.failed \/ r.verdict # "none"
  /\ r.pc \in {"stopping", "report", "done"} => r.group \in {"none", "stopped"}
  /\ r.group = "none" /\ r.pc # "done" => r.failed
  /\ Broken(r) /\ r.pc # "done" => r.failed
  /\ r.pc = "report" /\ ~r.failed => NothingLeft(r)
  /\ r.pc = "done" => r.outcome # "none"
  /\ r.pc = "done" /\ r.outcome # "FAILED" => NothingLeft(r) /\ ~r.errs /\ ~Broken(r)

\* The barrier: nobody is past it before it opens, nobody prepares after that.
BarrierInv ==
  /\ workload = "none" => \A s \in Slot : sc[s].pc \in EarlyPoint
  /\ workload # "none" => /\ Chosen # {}
                          /\ \A s \in Slot : sc[s].pc \notin {"preflight", "prepare"}

ScenariosInv ==
  /\ parent \in {"live", "canceled"}
  /\ workload \in {"none", "nil", "deadline", "canceled"}
  /\ sc = [s \in Slot |-> sc[s]]
  /\ \A s \in Slot : Sound(sc[s])
  /\ BarrierInv

\* A scenario stays at its point, comes nearer to the barrier, or is past it.
Moves(s) ==
  \/ sc'[s].pc = sc[s].pc
  \/ sc[s].pc \in {"preflight", "prepare"} /\ sc'[s].pc \in {"prepare", "prepared"}
  \/ workload # "none" /\ sc'[s].pc \in LatePoint

\* What one scenario does is no step of another, nor of the run.
LEMMA OneScenarioSteps ==
  ASSUME ScenariosInv, NEW s \in Slot, \E q : Set(s, q)
  PROVE  /\ UNCHANGED <<parent, workload>>
         /\ sc' = [t \in Slot |-> IF t = s THEN sc'[s] ELSE sc[t]]
  BY DEF Set, ScenariosInv

\* A step of one scenario to a sound state preserves the invariant.
LEMMA MoveKeepsInv ==
  ASSUME ScenariosInv, NEW s \in Slot, \E q : Set(s, q), Sound(sc'[s]), Moves(s)
  PROVE  ScenariosInv'
  <1>1. /\ UNCHANGED <<parent, workload>>
        /\ sc' = [t \in Slot |-> IF t = s THEN sc'[s] ELSE sc[t]]
    BY OneScenarioSteps
  <1>2. \A t \in Slot : Sound(sc'[t])
    BY <1>1 DEF ScenariosInv
  <1>3. workload # "none" => Chosen' # {}
    BY <1>1 DEF ScenariosInv, BarrierInv, Chosen, Moves, LatePoint
  <1>4. BarrierInv'
    BY <1>1, <1>3 DEF ScenariosInv, BarrierInv, Moves, EarlyPoint, LatePoint
  <1> QED
    BY <1>1, <1>2, <1>4 DEF ScenariosInv

\* Prepare has a result and leaves sessions.
LEMMA PreparedSound ==
  ASSUME ScenariosInv, NEW s \in Slot, sc[s].pc = "prepare",
         NEW ok \in BOOLEAN, NEW warned \in BOOLEAN, NEW open \in 0..Width,
         Prepared(s, ok, warned, open)
  PROVE  Sound(sc'[s])
  <1>1. PICK r : r = sc[s] /\ Sound(r)
    BY DEF ScenariosInv
  <1>2. sc'[s] = [r EXCEPT !.pc = "prepared", !.failed = ~ok, !.open = open,
                           !.warned = @ \/ warned]
    BY <1>1 DEF Prepared, Set, ScenariosInv
  <1>3. PICK v \in BOOLEAN : v = (r.warned \/ warned)
    BY Zenon
  <1>4. PICK f \in BOOLEAN : f = ~ok
    BY Zenon
  <1>5. sc'[s] = [r EXCEPT !.pc = "prepared", !.failed = f, !.open = open, !.warned = v]
    BY <1>2, <1>3, <1>4, Zenon
  <1> QED
    BY ZenonT(60), <1>1, <1>5 DEF Sound, Scenario, EarlyPoint, LatePoint, NothingLeft, Broken

\* Whatever Prepare answers, in whichever scenario, the scenario is sound.
LEMMA PreparingSound ==
  ASSUME ScenariosInv, NEW s \in Slot, Preparing(s)
  PROVE  Sound(sc'[s])
  <1>1. PICK r : r = sc[s] /\ Sound(r)
    BY DEF ScenariosInv
  <1>2. \A q : Set(s, q) => sc'[s] = q
    BY DEF Set, ScenariosInv
  <1>3. CASE Refuse(s)
    BY ZenonT(60), <1>1, <1>2, <1>3 DEF Refuse, Sound, Scenario, EarlyPoint, LatePoint,
      NothingLeft, Broken
  <1>4. CASE Authorize(s)
    BY ZenonT(60), <1>1, <1>2, <1>4 DEF Authorize, Sound, Scenario, EarlyPoint, LatePoint,
      NothingLeft, Broken
  <1>5. CASE PrepareFixed(s)
    <2>1. PICK k \in 0..Width : Prepared(s, k = Width, FALSE, k)
      BY <1>5 DEF PrepareFixed
    <2>2. (k = Width) \in BOOLEAN
      BY Zenon
    <2> QED
      BY <1>5, <2>1, <2>2, PreparedSound, Zenon DEF PrepareFixed, Prepares
  <1>6. CASE PrepareResource(s) \/ PreparePressure(s) \/ PrepareChildren(s)
             \/ PrepareConnections(s) \/ PrepareThreads(s) \/ PrepareVacuum(s)
    <2>1. 0 \in 0..Width /\ TRUE \in BOOLEAN /\ FALSE \in BOOLEAN
      BY ScenarioRunsConstants
    <2>2. \E ok, warned \in BOOLEAN : Prepared(s, ok, warned, 0)
      BY <1>6, <2>1, Zenon DEF PrepareResource, PreparePressure, PrepareChildren,
        PrepareConnections, PrepareThreads, PrepareVacuum
    <2> QED
      BY <1>6, <2>1, <2>2, PreparedSound DEF PrepareResource, PreparePressure,
        PrepareChildren, PrepareConnections, PrepareThreads, PrepareVacuum, Prepares
  <1> QED BY <1>3, <1>4, <1>5, <1>6 DEF Preparing

\* The error with which the context of a phase can end.
LEMMA PhaseErrors ==
  ASSUME ScenariosInv, NEW s \in Slot
  PROVE  PhaseErr(s) \in {"nil", "deadline", "canceled"}
  BY DEF ScenariosInv, PhaseErr

\* Ramp and Hold end without an error, with the end of the run's time, or in failure.
LEMMA EndedSound ==
  ASSUME ScenariosInv, NEW s \in Slot, NEW r, Sound(r), r.pc \in {"ramp", "hold"},
         NEW e \in {"nil", "deadline", "canceled", "error"},
         NEW next \in {"hold", "verify"}, Ended(s, e, next, r)
  PROVE  Sound(sc'[s]) /\ sc'[s].pc \in LatePoint
  <1>1. sc'[s] = [r EXCEPT !.ended = e,
                           !.pc = IF e = "nil" THEN next
                                  ELSE IF DurationElapsed(s, e) THEN "verify" ELSE "stop",
                           !.failed = @ \/ (e # "nil" /\ ~DurationElapsed(s, e))]
    BY DEF Ended, Set, ScenariosInv
  <1>2. r.failed \in BOOLEAN
    BY DEF Sound, Scenario
  <1>3. CASE e = "nil"
    <2>1. (r.failed \/ (e # "nil" /\ ~DurationElapsed(s, e))) = r.failed
      BY <1>2, <1>3, Zenon
    <2>2. sc'[s] = [r EXCEPT !.ended = "nil", !.pc = next, !.failed = r.failed]
      BY <1>1, <1>3, <2>1, Zenon
    <2> QED
      BY <2>2 DEF Sound, Scenario, EarlyPoint, LatePoint, NothingLeft, Broken
  <1>4. CASE e # "nil" /\ DurationElapsed(s, e)
    <2>1. (r.failed \/ (e # "nil" /\ ~DurationElapsed(s, e))) = r.failed
      BY <1>2, <1>4, Zenon
    <2>2. sc'[s] = [r EXCEPT !.ended = e, !.pc = "verify", !.failed = r.failed]
      BY <1>1, <1>4, <2>1, Zenon
    <2>3. e = "deadline"
      BY <1>4 DEF DurationElapsed
    <2> QED
      BY ZenonT(60), <2>2, <2>3 DEF Sound, Scenario, EarlyPoint, LatePoint, NothingLeft, Broken
  <1>5. CASE e # "nil" /\ ~DurationElapsed(s, e)
    <2>1. (r.failed \/ (e # "nil" /\ ~DurationElapsed(s, e))) = TRUE
      BY <1>5, Zenon
    <2>2. sc'[s] = [r EXCEPT !.ended = e, !.pc = "stop", !.failed = TRUE]
      BY <1>1, <1>5, <2>1, Zenon
    <2> QED
      BY <2>2 DEF Sound, Scenario, EarlyPoint, LatePoint, NothingLeft, Broken
  <1> QED
    BY <1>3, <1>4, <1>5

\* Ramp waits, samples or ends; it never begins before the barrier is open.
LEMMA RampingSound ==
  ASSUME ScenariosInv, NEW s \in Slot, Ramping(s)
  PROVE  Sound(sc'[s]) /\ sc'[s].pc \in LatePoint
  <1> USE DEF Ramps, Rampend
  <1>1. PICK r : r = sc[s] /\ Sound(r)
    BY DEF ScenariosInv
  <1>2. \A q : Set(s, q) => sc'[s] = q
    BY DEF Set, ScenariosInv
  <1>3. sc[s].pc = "ramp"
    BY DEF Ramping, RampWorkers, RampFixed, StartPressure, WaitForSessions,
      StopAllocating, RampThreads, OpenConnection, SampleConnections, RampVacuum
  <1>4. PhaseErr(s) \in {"nil", "deadline", "canceled"}
    BY PhaseErrors
  <1>5. Sound(Started(s, Width)) /\ Started(s, Width).pc = "ramp"
    <2>1. Width \in 0..Width
      BY ScenarioRunsConstants
    <2>2. Started(s, Width) = [r EXCEPT !.alive = Width, !.group = "running"]
      BY <1>1, Zenon DEF Started
    <2> QED
      BY <1>1, <1>3, <2>1, <2>2 DEF Sound, Scenario, EarlyPoint, LatePoint,
        NothingLeft, Broken
  <1>6. CASE RampWorkers(s) \/ RampFixed(s) \/ StartPressure(s)
    BY <1>2, <1>3, <1>4, <1>5, <1>6, EndedSound DEF RampWorkers, RampFixed,
      StartPressure, LatePoint
  <1>7. CASE WaitForSessions(s)
    <2>1. Sound([r EXCEPT !.warned = TRUE])
      BY <1>1, <1>3 DEF Sound, Scenario, EarlyPoint, LatePoint, NothingLeft, Broken
    <2>2. [r EXCEPT !.warned = TRUE].pc = "ramp"
      BY <1>1, <1>3 DEF Sound, Scenario
    <2> QED
      BY <1>1, <1>3, <1>4, <1>7, <2>1, <2>2, EndedSound DEF WaitForSessions
  <1>8. CASE StopAllocating(s)
    <2>1. Sound([r EXCEPT !.group = "retiring"])
      BY <1>1, <1>3 DEF Sound, Scenario, EarlyPoint, LatePoint, NothingLeft, Broken
    <2>2. [r EXCEPT !.group = "retiring"].pc = "ramp"
      BY <1>1, <1>3 DEF Sound, Scenario
    <2> QED
      BY <1>1, <1>3, <1>4, <1>8, <2>1, <2>2, EndedSound DEF StopAllocating
  <1>9. CASE RampThreads(s)
    <2>1. CASE Set(s, Started(s, Width))
      BY <1>2, <1>5, <2>1 DEF LatePoint
    <2>2. CASE Rampend(s, "error", sc[s])
      BY <1>1, <1>3, <2>2, EndedSound
    <2>3. ASSUME NEW warned \in BOOLEAN,
                 Rampend(s, "nil", [sc[s] EXCEPT !.warned = @ \/ warned])
          PROVE  Sound(sc'[s]) /\ sc'[s].pc \in LatePoint
      <3>1. PICK v \in BOOLEAN : v = (r.warned \/ warned)
        BY Zenon
      <3>2. [sc[s] EXCEPT !.warned = @ \/ warned] = [r EXCEPT !.warned = v]
        BY <1>1, <3>1, Zenon
      <3>3. Sound([r EXCEPT !.warned = v])
        BY <1>1, <1>3 DEF Sound, Scenario, EarlyPoint, LatePoint, NothingLeft, Broken
      <3>4. [r EXCEPT !.warned = v].pc = "ramp"
        BY <1>1, <1>3 DEF Sound, Scenario
      <3>5. Ended(s, "nil", "hold", [r EXCEPT !.warned = v])
        BY <2>3, <3>2, Zenon
      <3> QED
        BY <3>3, <3>4, <3>5, EndedSound
    <2> QED
      BY <1>9, <2>1, <2>2, <2>3 DEF RampThreads
  <1>10. CASE OpenConnection(s)
    <2>1. CASE Set(s, [sc[s] EXCEPT !.open = @ + 1,
                                    !.alive = IF sc[s].open = 0 THEN 1 ELSE @])
      <3>1. r.open + 1 \in 0..Width /\ 1 \in 0..Width
        BY <1>1, <1>10, ScenarioRunsConstants DEF OpenConnection, Sound, Scenario
      <3>2. PICK a \in 0..Width : a = IF r.open = 0 THEN 1 ELSE r.alive
        BY <1>1, <3>1 DEF Sound, Scenario
      <3>3. sc'[s] = [r EXCEPT !.open = r.open + 1, !.alive = a]
        BY <1>1, <1>2, <2>1, <3>2, Zenon
      <3> QED
        BY <1>1, <1>3, <3>1, <3>3 DEF Sound, Scenario, EarlyPoint, LatePoint,
          NothingLeft, Broken
    <2>2. Sound([r EXCEPT !.errs = TRUE])
      BY <1>1, <1>3 DEF Sound, Scenario, EarlyPoint, LatePoint, NothingLeft, Broken
    <2>3. [r EXCEPT !.errs = TRUE].pc = "ramp"
      BY <1>1, <1>3 DEF Sound, Scenario
    <2>4. (IF PhaseErr(s) = "deadline" THEN "error"
           ELSE IF CtxDone(s) THEN "canceled" ELSE "error") \in {"canceled", "error"}
      OBVIOUS
    <2> QED
      BY <1>1, <1>10, <2>1, <2>2, <2>3, <2>4, EndedSound DEF OpenConnection
  <1>11. CASE SampleConnections(s)
    BY <1>1, <1>3, <1>11, EndedSound DEF SampleConnections
  <1>12. CASE RampVacuum(s)
    <2>0. 1 \in 0..Width
      BY ScenarioRunsConstants
    <2>1. Sound([r EXCEPT !.open = 1, !.alive = 1])
      BY <1>1, <1>3, <2>0 DEF Sound, Scenario, EarlyPoint, LatePoint, NothingLeft,
        Broken
    <2>2. [r EXCEPT !.open = 1, !.alive = 1].pc = "ramp"
      BY <1>1, <1>3 DEF Sound, Scenario
    <2> QED
      BY <1>1, <1>3, <1>4, <1>12, <2>1, <2>2, EndedSound DEF RampVacuum
  <1> QED
    BY <1>6, <1>7, <1>8, <1>9, <1>10, <1>11, <1>12 DEF Ramping


\* What its goroutines do leaves a scenario where it is.
LEMMA WorkingSound ==
  ASSUME ScenariosInv, NEW s \in Slot, Working(s)
  PROVE  Sound(sc'[s])
  <1> USE DEF Sound, Scenario, EarlyPoint, LatePoint, NothingLeft, Broken
  <1>1. PICK r : r = sc[s] /\ Sound(r)
    BY DEF ScenariosInv
  <1>0. Sound(r)
    BY <1>1
  <1>2. \A q : Set(s, q) => sc'[s] = q
    BY DEF Set, ScenariosInv
  <1>3. CASE OpenSession(s)
    <2>1. sc'[s] = [r EXCEPT !.open = r.open + 1] /\ r.open < r.alive
          /\ r.group = "running"
      BY <1>1, <1>2, <1>3 DEF OpenSession
    <2>2. r.open + 1 \in 0..Width
      BY <1>1, <2>1, ScenarioRunsConstants
    <2> QED
      BY <1>0, <2>1, <2>2
  <1>4. CASE CloseOwnSession(s)
    <2>1. sc'[s] = [r EXCEPT !.open = r.open - 1] /\ r.open > 0
      BY <1>1, <1>2, <1>4 DEF CloseOwnSession
    <2>2. r.open - 1 \in 0..Width
      BY <1>1, <2>1, ScenarioRunsConstants
    <2> QED
      BY <1>0, <2>1, <2>2
  <1>5. CASE OperationFails(s)
    <2>1. PICK a \in 0..Width : a = r.alive - 1 /\ r.alive # 0
      BY <1>1, <1>5, ScenarioRunsConstants DEF OperationFails
    <2>2. PICK v \in BOOLEAN : v = (r.errs \/ r.kind # "vacuum")
      BY Zenon
    <2>3. sc'[s] = [r EXCEPT !.alive = a, !.errs = v]
      <3>1. sc'[s] = [sc[s] EXCEPT !.alive = @ - 1, !.errs = @ \/ sc[s].kind # "vacuum"]
        BY <1>2, <1>5, Zenon DEF OperationFails
      <3> QED
        BY <1>1, <2>1, <2>2, <3>1, Zenon
    <2>4. r.alive # 0
      BY <2>1
    <2> QED
      BY ZenonT(60), <1>0, <2>3, <2>4
  <1>6. CASE RetireWorker(s)
    <2>1. PICK a \in 0..Width : a = r.alive - 1 /\ r.alive # 0 /\ r.group = "retiring"
      BY <1>1, <1>6, ScenarioRunsConstants DEF RetireWorker
    <2>2. PICK o \in 0..Width : o = IF r.open > 0 THEN r.open - 1 ELSE r.open
      BY <1>1, ScenarioRunsConstants
    <2>3. sc'[s] = [r EXCEPT !.alive = a, !.open = o]
      <3>1. sc'[s] = [sc[s] EXCEPT !.alive = @ - 1, !.open = IF @ > 0 THEN @ - 1 ELSE @]
        BY <1>2, <1>6, Zenon DEF RetireWorker
      <3> QED
        BY <1>1, <2>1, <2>2, <3>1, Zenon
    <2>4. r.alive # 0 /\ r.group = "retiring"
      BY <2>1
    <2> QED
      BY <1>0, <2>3, <2>4
  <1>7. CASE GoroutineEnds(s)
    <2>1. r.alive - 1 \in 0..Width /\ r.alive > 0
          /\ sc'[s] = [r EXCEPT !.alive = r.alive - 1]
      BY <1>1, <1>2, <1>7, ScenarioRunsConstants DEF GoroutineEnds
    <2> QED
      BY <1>0, <2>1
  <1> QED
    BY <1>3, <1>4, <1>5, <1>6, <1>7 DEF Working

\* Hold waits, checks or ends.
LEMMA HoldSound ==
  ASSUME ScenariosInv, NEW s \in Slot, HoldStep(s)
  PROVE  Sound(sc'[s]) /\ sc'[s].pc \in LatePoint
  <1> USE DEF Holds, Holdend
  <1>1. PICK r : r = sc[s] /\ Sound(r)
    BY DEF ScenariosInv
  <1>2. \A q : Set(s, q) => sc'[s] = q
    BY DEF Set, ScenariosInv
  <1>3. sc[s].pc = "hold"
    BY DEF HoldStep, HoldWaits, HoldWatches, HoldVacuum, HoldFixed
  <1>4. PhaseErr(s) \in {"nil", "deadline", "canceled"}
    BY PhaseErrors
  <1>5. CASE HoldWaits(s) \/ HoldWatches(s) \/ HoldVacuum(s)
    BY <1>1, <1>3, <1>4, <1>5, EndedSound DEF HoldWaits, HoldWatches, HoldVacuum
  <1>6. CASE HoldFixed(s)
    <2>1. CASE Set(s, [sc[s] EXCEPT !.group = "stopped"])
      BY <1>1, <1>2, <1>3, <2>1
      DEF Sound, Scenario, EarlyPoint, LatePoint, NothingLeft, Broken
    <2>2. CASE Holdend(s, PhaseErr(s), [sc[s] EXCEPT !.open = 0])
      <3>1. 0 \in 0..Width
        BY ScenarioRunsConstants
      <3>2. Sound([r EXCEPT !.open = 0]) /\ [r EXCEPT !.open = 0].pc = "hold"
        BY <1>1, <1>3, <3>1
        DEF Sound, Scenario, EarlyPoint, LatePoint, NothingLeft, Broken
      <3> QED
        BY <1>1, <1>4, <2>2, <3>2, EndedSound
    <2>3. CASE Holdend(s, "deadline", sc[s])
      BY <1>1, <1>3, <2>3, EndedSound
    <2> QED
      BY <1>6, <2>1, <2>2, <2>3 DEF HoldFixed
  <1> QED
    BY <1>5, <1>6 DEF HoldStep

\* Verify, Stop and Cleanup keep the first error and leave nothing behind.
LEMMA FinishingSound ==
  ASSUME ScenariosInv, NEW s \in Slot, Finishing(s)
  PROVE  Sound(sc'[s])
  <1> USE DEF Sound, Scenario, EarlyPoint, LatePoint, NothingLeft, Broken
  <1>1. PICK r : r = sc[s] /\ Sound(r)
    BY DEF ScenariosInv
  <1>0. Sound(r)
    BY <1>1
  <1>2. \A q : Set(s, q) => sc'[s] = q
    BY DEF Set, ScenariosInv
  <1>3. CASE Verify(s)
    <2>1. PICK verdict \in {"SUCCESS", "DEGRADED", "FAILED", "error"} :
            sc'[s] = [r EXCEPT !.pc = "stop", !.verdict = verdict,
                               !.warned = @ \/ verdict # "SUCCESS"]
      BY <1>1, <1>2, <1>3, Zenon DEF Verify
    <2>2. PICK v \in BOOLEAN : v = (r.warned \/ verdict # "SUCCESS")
      BY Zenon
    <2>3. sc'[s] = [r EXCEPT !.pc = "stop", !.verdict = verdict, !.warned = v]
      BY <2>1, <2>2, Zenon
    <2>4. r.pc = "verify"
      BY <1>1, <1>3, Zenon DEF Verify
    <2>5. sc'[s] \in Scenario
      BY <1>0, <2>3
    <2>6. /\ sc'[s].pc = "stop" /\ sc'[s].verdict = verdict
          /\ sc'[s].group = r.group /\ sc'[s].ended = r.ended /\ sc'[s].failed = r.failed
      BY <1>0, <2>3
    <2>7. verdict # "none"
      OBVIOUS
    <2> QED
      BY <1>0, <2>4, <2>5, <2>6, <2>7
  <1>4. CASE CancelGroup(s)
    <2>1. r.pc = "stop"
      BY <1>1, <1>4 DEF CancelGroup
    <2>2. CASE r.group = "none"
      <3>1. sc'[s] = [r EXCEPT !.pc = "report", !.group = "none"]
        BY <1>1, <1>2, <1>4, <2>2, Zenon DEF CancelGroup
      <3> QED
        BY <1>0, <2>1, <2>2, <3>1
    <2>3. CASE r.group # "none"
      <3>1. sc'[s] = [r EXCEPT !.pc = "stopping", !.group = "stopped"]
        <4>1. sc'[s] = [sc[s] EXCEPT
                 !.pc = IF sc[s].group = "none" THEN "report" ELSE "stopping",
                 !.group = IF @ = "none" THEN @ ELSE "stopped"]
          BY <1>2, <1>4, Zenon DEF CancelGroup
        <4> QED
          BY <1>1, <2>3, <4>1
      <3> QED
        BY <1>0, <2>1, <2>3, <3>1
    <2> QED
      BY <2>2, <2>3
  <1>5. CASE StopScenario(s)
    <2>1. PICK result \in {"nil", "error"} :
            sc'[s] = [r EXCEPT !.pc = "report", !.open = 0,
                               !.failed = @ \/ result # "nil"]
      BY <1>1, <1>2, <1>5, Zenon DEF StopScenario
    <2>2. PICK v \in BOOLEAN : v = (r.failed \/ result # "nil")
      BY Zenon
    <2>3. sc'[s] = [r EXCEPT !.pc = "report", !.open = 0, !.failed = v]
      BY <2>1, <2>2, Zenon
    <2>4. r.failed => v
      BY <2>2, Zenon
    <2>5. r.pc = "stopping" /\ r.alive = 0
      BY <1>1, <1>5 DEF StopScenario, Joined
    <2>6. 0 \in 0..Width
      BY ScenarioRunsConstants
    <2> QED
      BY <1>0, <2>2, <2>3, <2>4, <2>5, <2>6
  <1>6. CASE StopTimesOut(s)
    <2>1. r.pc = "stopping"
      BY <1>1, <1>6 DEF StopTimesOut
    <2>2. PICK o \in 0..Width :
            o = IF r.kind \in {"vacuum", "fixed", "churn"} THEN r.open ELSE 0
      BY <1>1, ScenarioRunsConstants
    <2>3. sc'[s] = [r EXCEPT !.pc = "report", !.failed = TRUE, !.open = o]
      BY <1>1, <1>2, <1>6, <2>2, Zenon DEF StopTimesOut
    <2> QED
      BY <1>0, <2>1, <2>2, <2>3
  <1>7. CASE Report(s)
    <2>1. r.pc = "report"
      BY <1>1, <1>7 DEF Report
    <2>2. sc'[s] = [r EXCEPT !.pc = "done", !.outcome = Outcome(s), !.warned = FALSE,
                             !.failed = FALSE, !.verdict = "none"]
      BY <1>1, <1>2, <1>7, Zenon DEF Report
    <2>3. Outcome(s) \in {"SUCCESS", "DEGRADED", "FAILED", "error",
                          "COMPLETED_WITH_WARNINGS"}
      BY <1>1, <2>1 DEF Outcome
    <2>4. r.failed \/ r.errs => Outcome(s) = "FAILED"
      BY <1>1, Zenon DEF Outcome
    <2> QED
      BY ZenonT(60), <1>0, <2>1, <2>2, <2>3, <2>4
  <1> QED
    BY <1>3, <1>4, <1>5, <1>6, <1>7 DEF Finishing, Verify, CancelGroup, StopScenario,
      StopTimesOut, Report, Joined

\* A scenario ramps once the runner has opened the barrier.
LEMMA PassBarrierSound ==
  ASSUME ScenariosInv, NEW s \in Slot, PassBarrier(s)
  PROVE  Sound(sc'[s]) /\ sc'[s].pc \in LatePoint /\ workload # "none"
  <1>1. PICK r : r = sc[s] /\ Sound(r)
    BY DEF ScenariosInv
  <1>2. \A q : Set(s, q) => sc'[s] = q
    BY DEF Set, ScenariosInv
  <1>3. r.pc = "prepared" /\ workload # "none"
    BY <1>1 DEF PassBarrier
  <1>4. CASE r.failed
    <2>1. sc'[s] = [r EXCEPT !.pc = "stop"]
      BY <1>1, <1>2, <1>4, Zenon DEF PassBarrier
    <2> QED
      BY <1>1, <1>3, <1>4, <2>1
      DEF Sound, Scenario, EarlyPoint, LatePoint, NothingLeft, Broken
  <1>5. CASE ~r.failed
    <2>1. sc'[s] = [r EXCEPT !.pc = "ramp"]
      BY <1>1, <1>2, <1>5, Zenon DEF PassBarrier
    <2> QED
      BY <1>1, <1>3, <1>5, <2>1
      DEF Sound, Scenario, EarlyPoint, LatePoint, NothingLeft, Broken
  <1> QED
    BY <1>4, <1>5

\* A scenario that is past the barrier is there because it opened.
LEMMA LateIsOpen ==
  ASSUME ScenariosInv, NEW s \in Slot, sc[s].pc \in LatePoint
  PROVE  workload # "none"
  BY DEF ScenariosInv, BarrierInv, EarlyPoint, LatePoint

\* Every step of a scenario of its own keeps the invariant.
LEMMA ScenarioKeepsInv ==
  ASSUME ScenariosInv, NEW s \in Slot,
         \/ Preparing(s) \/ PassBarrier(s) \/ Ramping(s) \/ Working(s)
         \/ HoldStep(s) \/ Finishing(s)
  PROVE  ScenariosInv'
  <1>1. CASE Preparing(s)
    <2>1. \E q : Set(s, q)
      BY <1>1 DEF Preparing, Refuse, Authorize, PrepareFixed, PrepareResource,
        PreparePressure, PrepareChildren, PrepareConnections, PrepareThreads,
        PrepareVacuum, Prepared
    <2>2. \A q : Set(s, q) => sc'[s] = q
      BY DEF Set, ScenariosInv
    <2>3. sc[s].pc \in {"preflight", "prepare"} /\ sc[s] \in Scenario
      BY <1>1 DEF Preparing, Refuse, Authorize, PrepareFixed, PrepareResource,
        PreparePressure, PrepareChildren, PrepareConnections, PrepareThreads,
        PrepareVacuum, Prepares, ScenariosInv, Sound
    <2>4. sc'[s].pc \in {"prepare", "prepared"}
      BY ZenonT(60), <1>1, <2>2, <2>3 DEF Preparing, Refuse, Authorize, PrepareFixed,
        PrepareResource, PreparePressure, PrepareChildren, PrepareConnections,
        PrepareThreads, PrepareVacuum, Prepared, Scenario
    <2> QED
      BY <1>1, <2>1, <2>3, <2>4, PreparingSound, MoveKeepsInv DEF Moves
  <1>2. CASE PassBarrier(s)
    BY <1>2, PassBarrierSound, MoveKeepsInv DEF Moves, PassBarrier
  <1>3. CASE Ramping(s)
    <2>1. \E q : Set(s, q)
      BY <1>3 DEF Ramping, RampWorkers, RampFixed, StartPressure, WaitForSessions,
        StopAllocating, RampThreads, OpenConnection, SampleConnections, RampVacuum,
        Rampend, Ended
    <2>2. sc[s].pc = "ramp"
      BY <1>3 DEF Ramping, RampWorkers, RampFixed, StartPressure, WaitForSessions,
        StopAllocating, RampThreads, OpenConnection, SampleConnections, RampVacuum, Ramps
    <2> QED
      BY <1>3, <2>1, <2>2, RampingSound, LateIsOpen, MoveKeepsInv DEF Moves, LatePoint
  <1>4. CASE Working(s)
    <2>1. \E q : Set(s, q)
      BY <1>4 DEF Working, OpenSession, CloseOwnSession, OperationFails, RetireWorker,
        GoroutineEnds
    <2>2. \A q : Set(s, q) => sc'[s] = q
      BY DEF Set, ScenariosInv
    <2>3. sc[s] \in Scenario
      BY DEF ScenariosInv, Sound
    <2>4. sc'[s].pc = sc[s].pc
      BY <1>4, <2>2, <2>3 DEF Working, OpenSession, CloseOwnSession, OperationFails,
        RetireWorker, GoroutineEnds, Scenario
    <2> QED
      BY <1>4, <2>1, <2>4, WorkingSound, MoveKeepsInv DEF Moves
  <1>5. CASE HoldStep(s)
    <2>1. \E q : Set(s, q)
      BY <1>5 DEF HoldStep, HoldWaits, HoldWatches, HoldVacuum, HoldFixed, Holdend,
        Ended
    <2>2. sc[s].pc = "hold"
      BY <1>5 DEF HoldStep, HoldWaits, HoldWatches, HoldVacuum, HoldFixed, Holds
    <2> QED
      BY <1>5, <2>1, <2>2, HoldSound, LateIsOpen, MoveKeepsInv DEF Moves, LatePoint
  <1>6. CASE Finishing(s)
    <2>1. \E q : Set(s, q)
      BY <1>6 DEF Finishing, Verify, CancelGroup, StopScenario, StopTimesOut, Report
    <2>2. \A q : Set(s, q) => sc'[s] = q
      BY DEF Set, ScenariosInv
    <2>3. sc[s] \in Scenario
      BY DEF ScenariosInv, Sound
    <2>4. sc[s].pc \in LatePoint
      BY <1>6, Zenon DEF Finishing, Verify, CancelGroup, StopScenario, Joined,
        StopTimesOut, Report, LatePoint
    <2>5. sc'[s].pc \in LatePoint
      BY ZenonT(60), <1>6, <2>2, <2>3 DEF Finishing, Verify, CancelGroup, StopScenario,
        StopTimesOut, Report, Scenario, LatePoint
    <2> QED
      BY <1>6, <2>1, <2>4, <2>5, FinishingSound, LateIsOpen, MoveKeepsInv DEF Moves
  <1> QED
    BY <1>1, <1>2, <1>3, <1>4, <1>5, <1>6

\* The runner's own steps: it starts the scenarios, opens the barrier once each
\* of them is prepared, and the contexts of the run end.
LEMMA RunnerKeepsInv ==
  ASSUME ScenariosInv,
         (\E plan \in Plans : StartRun(plan)) \/ OpenBarrier \/ CancelRun \/ DurationElapses
  PROVE  ScenariosInv'
  <1>1. CASE \E plan \in Plans : StartRun(plan)
    <2>1. PICK plan \in Plans : StartRun(plan)
      BY <1>1
    <2>2. \A s \in DOMAIN plan : plan[s] \in Kinds
      BY ScenarioRunsConstants
    <2>3. 0 \in 0..Width
      BY ScenarioRunsConstants
    <2>4. \A kind \in Kinds : Sound(FreshRun(kind))
      BY <2>3 DEF FreshRun, Sound, Scenario, EarlyPoint, LatePoint, NothingLeft, Broken
    <2>5. \A s \in Slot : sc'[s] = sc[s] \/ (\E kind \in Kinds : sc'[s] = FreshRun(kind))
      BY <2>1, <2>2 DEF StartRun
    <2>6. \A s \in Slot : Sound(sc'[s])
      BY <2>4, <2>5 DEF ScenariosInv
    <2>7. \A kind : FreshRun(kind).pc = "preflight"
      BY DEF FreshRun
    <2>8. workload = "none"
      BY <2>1 DEF StartRun, ScenariosInv, BarrierInv, Chosen
    <2>9. BarrierInv'
      BY <2>1, <2>5, <2>7, <2>8 DEF StartRun, ScenariosInv, BarrierInv, EarlyPoint
    <2>10. sc' = [s \in Slot |-> sc'[s]]
      BY <2>1 DEF StartRun
    <2> QED
      BY <2>1, <2>6, <2>9, <2>10 DEF StartRun, ScenariosInv
  <1>2. CASE OpenBarrier
    BY <1>2 DEF OpenBarrier, AllPrepared, Chosen, ScenariosInv, BarrierInv
  <1>3. CASE CancelRun \/ DurationElapses
    BY <1>3 DEF CancelRun, DurationElapses, Chosen, ScenariosInv, BarrierInv
  <1> QED
    BY <1>1, <1>2, <1>3

\* Before the run every scenario is idle.
LEMMA ScenariosInvInit ==
  ASSUME ScenariosInit
  PROVE  ScenariosInv
  <1>1. 0 \in 0..Width
    BY ScenarioRunsConstants
  <1>2. Sound([FreshRun("fixed") EXCEPT !.pc = "off"])
    BY <1>1 DEF FreshRun, Sound, Scenario, Kinds, EarlyPoint, LatePoint, NothingLeft,
      Broken
  <1>3. [FreshRun("fixed") EXCEPT !.pc = "off"].pc = "off"
    BY DEF FreshRun
  <1>4. \A s \in Slot : sc[s] = [FreshRun("fixed") EXCEPT !.pc = "off"]
    BY DEF ScenariosInit
  <1> QED
    BY <1>2, <1>3, <1>4 DEF ScenariosInit, ScenariosInv, BarrierInv, EarlyPoint

\* Every step of the runner or of a scenario keeps the invariant.
LEMMA ScenariosInvNext ==
  ASSUME ScenariosInv, [ScenariosNext]_scenarioVars
  PROVE  ScenariosInv'
  <1>1. CASE ScenariosNext
    BY <1>1, ScenarioKeepsInv, RunnerKeepsInv DEF ScenariosNext
  <1>2. CASE UNCHANGED scenarioVars
    BY <1>2 DEF scenarioVars, ScenariosInv, BarrierInv, Chosen
  <1> QED
    BY <1>1, <1>2

\* A run with any number of scenarios of any kinds puts no load on the database
\* before all of them are prepared; a scenario that is not reported as failed
\* joined all it started and closed every session; and neither a cancelled run
\* nor the error of a worker is ever reported as anything but a failure.
THEOREM ScenariosAreSafe == ScenariosSpec => []ScenariosSafety
  <1>1. ScenariosInv => ScenariosSafety
    <2> SUFFICES ASSUME ScenariosInv PROVE ScenariosSafety
      OBVIOUS
    <2>1. ScenariosTypeOK
      BY DEF ScenariosInv, Sound, Scenario, ScenariosTypeOK
    <2>2. BarrierHolds
      BY DEF ScenariosInv, BarrierInv, Sound, EarlyPoint, BarrierHolds, Past
    <2>3. CleanUnlessFailed
      BY DEF ScenariosInv, Sound, NothingLeft, CleanUnlessFailed
    <2>4. NoFalseSuccess
      BY DEF ScenariosInv, Sound, Broken, NoFalseSuccess
    <2> QED
      BY <2>1, <2>2, <2>3, <2>4 DEF ScenariosSafety
  <1> QED
    BY <1>1, ScenariosInvInit, ScenariosInvNext, PTL DEF ScenariosSpec

-----------------------------------------------------------------------------
(* FixedRun.  What is known of the run and of each lane.                      *)

BeforeGate == {"start", "prepare", "start workers"}
BeforeStop == BeforeGate \cup {"wait pressure", "announce", "hold", "run"}
AfterStop == {"held", "stop again", "end"}

FixedState ==
  [style : Styles \cup {"none"}, pc : BeforeStop \cup {"stop"} \cup AfterStop,
   ctx : {"live", "canceled"}, gate : BOOLEAN, late : BOOLEAN, err : FixedErrs,
   verdict : {"none", "SUCCESS", "FAILED"}, stop : {"idle", "running", "done"},
   closed : BOOLEAN]

LaneState ==
  [born : {0, Crew}, ready : 0..Crew, busy : 0..Crew, errs : 0..Crew, open : 0..Crew,
   bounded : BOOLEAN, over : BOOLEAN, final : 0..NoSnapshot]

Quiet(r) == r.ready = 0 /\ r.busy = 0

\* A worker is in one place; an operation needs the gate; and a lane whose
\* snapshot was taken is over for good.
LaneSound(f, r) ==
  /\ r \in LaneState
  /\ r.ready + r.busy + r.errs <= r.born
  /\ r.busy > 0 => f.gate
  /\ r.final # NoSnapshot => /\ f.stop # "idle"
                             /\ Quiet(r)
                             /\ r.open = 0 /\ r.final = r.errs
  /\ f.stop # "idle" => r.over
  /\ f.stop = "done" => r.final # NoSnapshot
  /\ f.gate /\ f.style # "workmem" => r.bounded

\* Stop is called once the run is given up or over; whoever returns without an
\* error has seen it done, and a success was given on its snapshots.
FixedSound(f) ==
  /\ f \in FixedState
  /\ f.pc \in BeforeGate => ~f.gate
  /\ f.pc # "start" => f.style # "none"
  /\ f.pc \in BeforeStop => f.stop = "idle"
  /\ f.pc \in AfterStop => f.stop # "idle"
  /\ f.pc \in AfterStop /\ f.err = "nil" => f.stop = "done"
  /\ f.verdict = "SUCCESS" => f.stop = "done" /\ f.pc \in AfterStop

FixedInv ==
  /\ FixedSound(fixed)
  /\ lane = [l \in Lane |-> lane[l]]
  /\ \A l \in Lane : LaneSound(fixed, lane[l])
  /\ fixed.verdict = "SUCCESS" => \A l \in Lane : lane[l].final = 0

\* A lane depends on the run by its gate, its Stop and its style only.
LEMMA LaneDepends ==
  ASSUME NEW f, NEW g, NEW r, LaneSound(f, r),
         g.gate = f.gate, g.stop = f.stop, g.style = f.style
  PROVE  LaneSound(g, r)
  BY DEF LaneSound

\* The director's own steps change no lane, nor what a lane depends on.
LEMMA QuietStepsKeepInv ==
  ASSUME FixedInv, FixedSound(fixed'), UNCHANGED lane,
         fixed'.gate = fixed.gate, fixed'.stop = fixed.stop, fixed'.style = fixed.style,
         fixed'.verdict = "SUCCESS" => \A l \in Lane : lane[l].final = 0
  PROVE  FixedInv'
  BY LaneDepends DEF FixedInv

\* The steps of the director that only wait, or note how the run ended.
LEMMA DirectorKeepsInv ==
  ASSUME FixedInv,
         \/ WaitPressureReady \/ Announce \/ HoldCanceled \/ DeadlinePasses \/ RunOver
         \/ RunStopped \/ StopAgain
  PROVE  FixedInv'
  <1>1. PICK f : f = fixed /\ FixedSound(f)
    BY DEF FixedInv
  <1>0. FixedSound(f)
    BY <1>1
  <1>2. CASE WaitPressureReady \/ Announce \/ HoldCanceled \/ RunOver
    <2>1. PICK pc \in {"hold", "stop"}, e \in {"canceled", "error", "nil"} :
            \/ fixed' = [f EXCEPT !.pc = "hold"]
            \/ fixed' = [f EXCEPT !.pc = "stop", !.err = e]
      BY <1>1, <1>2 DEF WaitPressureReady, Announce, HoldCanceled, RunOver, Goto,
        GiveUpWith
    <2>2. f.pc \in {"wait pressure", "announce", "hold", "run"} /\ UNCHANGED lane
      BY <1>1, <1>2 DEF WaitPressureReady, Announce, HoldCanceled, RunOver
    <2>3. FixedSound(fixed')
      BY ZenonT(60), <1>0, <2>1, <2>2 DEF FixedSound, FixedState, BeforeGate, BeforeStop,
        AfterStop, FixedErrs
    <2>4. fixed'.gate = f.gate /\ fixed'.stop = f.stop /\ fixed'.style = f.style
          /\ fixed'.verdict = f.verdict
      BY <1>0, <2>1 DEF FixedSound, FixedState
    <2> QED
      BY <1>1, <2>2, <2>3, <2>4, QuietStepsKeepInv DEF FixedInv
  <1>3. CASE DeadlinePasses
    <2>1. fixed' = [f EXCEPT !.late = TRUE] /\ UNCHANGED lane
      BY <1>1, <1>3 DEF DeadlinePasses
    <2>3. FixedSound(fixed')
      BY <1>0, <2>1 DEF FixedSound, FixedState
    <2>4. fixed'.gate = f.gate /\ fixed'.stop = f.stop /\ fixed'.style = f.style
          /\ fixed'.verdict = f.verdict
      BY <1>0, <2>1 DEF FixedSound, FixedState
    <2> QED
      BY <1>1, <2>1, <2>3, <2>4, QuietStepsKeepInv DEF FixedInv
  <1>4. CASE RunStopped \/ StopAgain
    <2>1. PICK pc \in {"held", "end"}, e \in FixedErrs :
            /\ fixed' = [f EXCEPT !.pc = pc, !.err = e]
            /\ e = "nil" => f.stop = "done"
            /\ f.stop # "idle"
            /\ pc = "held" => f.pc = "stop"
            /\ pc = "end" => f.pc = "stop again"
            /\ UNCHANGED lane
      <3>1. \A e : Worse(e) = IF f.err # "nil" THEN f.err ELSE e
        BY <1>1 DEF Worse
      <3>2. f.err \in FixedErrs
        BY <1>0 DEF FixedSound, FixedState
      <3>3. Worse(StopError) \in FixedErrs /\ Worse("deadline") \in FixedErrs \ {"nil"}
        BY <3>1, <3>2 DEF StopError, FixedErrs
      <3> QED
        BY <1>1, <1>4, <3>3 DEF RunStopped, StopAgain
    <2>2. FixedSound(fixed')
      BY <1>0, <2>1 DEF FixedSound, FixedState, BeforeGate, BeforeStop, AfterStop,
        FixedErrs
    <2>3. fixed'.gate = f.gate /\ fixed'.stop = f.stop /\ fixed'.style = f.style
          /\ fixed'.verdict = f.verdict
      BY <1>0, <2>1 DEF FixedSound, FixedState
    <2> QED
      BY <1>1, <2>1, <2>2, <2>3, QuietStepsKeepInv DEF FixedInv
  <1> QED
    BY <1>2, <1>3, <1>4

\* A success is given when Stop is done, on snapshots without an error.
LEMMA VerifyFixedKeepsInv ==
  ASSUME FixedInv, VerifyFixed
  PROVE  FixedInv'
  <1>1. PICK f : f = fixed /\ FixedSound(f)
    BY DEF FixedInv
  <1>0. FixedSound(f)
    BY <1>1
  <1>2. PICK v \in {"SUCCESS", "FAILED"} :
          /\ fixed' = [f EXCEPT !.pc = "stop again", !.verdict = v]
          /\ v = "SUCCESS" => f.err = "nil" /\ \A l \in Lane : ~(LaneErrors(l) > 0)
    BY <1>1 DEF VerifyFixed, Held
  <1>3. f.pc = "held" /\ UNCHANGED lane
    BY <1>1 DEF VerifyFixed
  <1>4. v = "SUCCESS" => f.stop = "done"
    BY <1>0, <1>2, <1>3 DEF FixedSound, AfterStop
  <1>5. FixedSound(fixed')
    BY <1>0, <1>2, <1>3, <1>4 DEF FixedSound, FixedState, BeforeGate, BeforeStop,
      AfterStop
  <1>6. fixed'.gate = f.gate /\ fixed'.stop = f.stop /\ fixed'.style = f.style
        /\ fixed'.verdict = v
    BY <1>0, <1>2 DEF FixedSound, FixedState
  <1>7. ASSUME v = "SUCCESS", NEW l \in Lane
        PROVE  lane[l].final = 0
    <2>1. lane[l].final # NoSnapshot /\ lane[l].final \in 0..NoSnapshot
      BY <1>1, <1>4, <1>7 DEF FixedInv, LaneSound, LaneState
    <2>2. ~(lane[l].final > 0)
      BY <1>2, <1>7, <2>1 DEF LaneErrors
    <2> QED
      BY <2>1, <2>2, FixedRunConstants DEF NoSnapshot
  <1> QED
    BY <1>1, <1>3, <1>5, <1>6, <1>7, QuietStepsKeepInv

\* The steps in which the run changes what lanes depend on, and the lanes do not.
LEMMA GateAndStopKeepInv ==
  ASSUME FixedInv,
         (\E style \in Styles : ChooseStyle(style)) \/ WaitReady \/ ReleaseWorkers \/ StopDone
  PROVE  FixedInv'
  <1>1. PICK f : f = fixed /\ FixedSound(f)
    BY DEF FixedInv
  <1>0. FixedSound(f)
    BY <1>1
  <1> USE DEF FixedState, BeforeGate, BeforeStop, AfterStop
  <1>2. CASE \E style \in Styles : ChooseStyle(style)
    <2>1. PICK style \in Styles :
            fixed' = [f EXCEPT !.style = style, !.pc = "prepare"] /\ f.pc = "start"
      BY <1>1, <1>2 DEF ChooseStyle
    <2>2. ~f.gate /\ f.verdict # "SUCCESS" /\ style # "none"
      BY <1>0, <2>1 DEF FixedSound, Styles
    <2>6. FixedSound(fixed')
      BY <1>0, <2>1, <2>2 DEF FixedSound
    <2>3. fixed'.gate = f.gate /\ fixed'.stop = f.stop /\ fixed'.verdict = f.verdict
      BY <1>0, <2>1 DEF FixedSound
    <2>4. \A r : LaneSound(f, r) => LaneSound(fixed', r)
      BY <2>2, <2>3 DEF LaneSound
    <2>5. UNCHANGED lane
      BY <1>2 DEF ChooseStyle
    <2> QED
      BY <1>1, <2>2, <2>3, <2>4, <2>5, <2>6 DEF FixedInv
  <1>3. CASE WaitReady
    <2>1. f.pc = "start workers" /\ UNCHANGED lane
      BY <1>1, <1>3 DEF WaitReady
    <2>2. CASE fixed' = [fixed EXCEPT !.pc = AfterReady, !.gate = fixed.style = "workmem"]
      <3>1. PICK g \in BOOLEAN : g = (f.style = "workmem")
        BY Zenon
      <3>2. f.style \in Styles
        BY <1>0, <2>1 DEF FixedSound
      <3>3. fixed' = [f EXCEPT !.pc = AfterReady, !.gate = g]
        BY <1>1, <2>2, <3>1, Zenon
      <3>4. AfterReady \in {"hold", "wait pressure", "announce"}
        BY <1>1, <3>2 DEF AfterReady, Styles
      <3>5. FixedSound(fixed')
        BY <1>0, <2>1, <3>3, <3>4 DEF FixedSound
      <3>6. fixed'.gate = g /\ fixed'.stop = f.stop /\ fixed'.style = f.style
            /\ fixed'.verdict = f.verdict
        BY <1>0, <3>3 DEF FixedSound
      <3>7. ~f.gate /\ f.verdict # "SUCCESS"
        BY <1>0, <2>1 DEF FixedSound
      <3>8. \A r : LaneSound(f, r) => LaneSound(fixed', r)
        BY <3>1, <3>6, <3>7 DEF LaneSound
      <3> QED
        BY <1>1, <2>1, <3>5, <3>6, <3>7, <3>8 DEF FixedInv
    <2>3. CASE GiveUpWith("canceled")
      <3>1. fixed' = [f EXCEPT !.pc = "stop", !.err = "canceled"]
        BY <1>1, <2>3 DEF GiveUpWith
      <3>2. FixedSound(fixed')
        BY <1>0, <2>1, <3>1 DEF FixedSound, FixedErrs
      <3>3. fixed'.gate = f.gate /\ fixed'.stop = f.stop /\ fixed'.style = f.style
            /\ fixed'.verdict = f.verdict
        BY <1>0, <3>1 DEF FixedSound
      <3> QED
        BY <1>1, <2>1, <3>2, <3>3, QuietStepsKeepInv DEF FixedInv
    <2> QED
      BY <1>3, <2>2, <2>3 DEF WaitReady
  <1>4. CASE ReleaseWorkers
    <2>1. fixed' = [f EXCEPT !.gate = TRUE, !.pc = "run"] /\ f.pc = "hold"
          /\ UNCHANGED lane /\ \A l \in Lane : lane[l].bounded
      BY <1>1, <1>4 DEF ReleaseWorkers, Bounded
    <2>2. FixedSound(fixed') /\ f.verdict # "SUCCESS"
      BY <1>0, <2>1 DEF FixedSound
    <2>3. fixed'.gate /\ fixed'.stop = f.stop /\ fixed'.verdict = f.verdict
      BY <1>0, <2>1 DEF FixedSound
    <2>4. \A r : LaneSound(f, r) /\ r.bounded => LaneSound(fixed', r)
      BY <2>3 DEF LaneSound
    <2> QED
      BY <1>1, <2>1, <2>2, <2>3, <2>4 DEF FixedInv
  <1>5. CASE StopDone
    <2>1. PICK c \in BOOLEAN : fixed' = [f EXCEPT !.stop = "done", !.closed = c]
      <3>1. PICK dirty \in BOOLEAN :
              fixed' = [f EXCEPT !.stop = "done", !.closed = ~dirty]
        BY <1>1, <1>5, Zenon DEF StopDone
      <3>2. PICK c \in BOOLEAN : c = ~dirty
        BY Zenon
      <3> QED
        BY <3>1, <3>2, Zenon
    <2>2. f.stop = "running" /\ UNCHANGED lane
          /\ \A l \in Lane : lane[l].final # NoSnapshot
      BY <1>1, <1>5, Zenon DEF StopDone
    <2>3. FixedSound(fixed')
      BY <1>0, <2>1, <2>2 DEF FixedSound
    <2>4. fixed'.gate = f.gate /\ fixed'.stop = "done" /\ fixed'.style = f.style
          /\ fixed'.verdict = f.verdict
      BY <1>0, <2>1 DEF FixedSound
    <2>5. \A r : LaneSound(f, r) /\ r.final # NoSnapshot => LaneSound(fixed', r)
      BY <2>2, <2>4 DEF LaneSound
    <2> QED
      BY <1>1, <2>2, <2>3, <2>4, <2>5 DEF FixedInv
  <1> QED
    BY <1>2, <1>3, <1>4, <1>5

\* A step of one lane.
LEMMA LaneStepKeepsInv ==
  ASSUME FixedInv, NEW l \in Lane, NEW q, lane' = [lane EXCEPT ![l] = q],
         UNCHANGED fixed, LaneSound(fixed, q),
         fixed.verdict = "SUCCESS" => q.final = 0
  PROVE  FixedInv'
  <1>1. lane' = [m \in Lane |-> IF m = l THEN q ELSE lane[m]]
    BY DEF FixedInv
  <1>2. \A m \in Lane : lane'[m] = IF m = l THEN q ELSE lane[m]
    BY <1>1
  <1>3. lane' = [m \in Lane |-> lane'[m]]
    BY <1>1
  <1>4. \A m \in Lane : LaneSound(fixed, lane'[m])
    BY <1>2 DEF FixedInv
  <1> QED
    BY <1>2, <1>3, <1>4 DEF FixedInv

\* Its workers may move while its snapshot has not been taken.
LEMMA WorkersMove ==
  ASSUME NEW f, NEW r, LaneSound(f, r), r.final = NoSnapshot,
         NEW q \in LaneState, q.ready + q.busy + q.errs <= q.born, q.busy > 0 => f.gate,
         q.final = r.final, q.over = r.over, q.bounded = r.bounded
  PROVE  LaneSound(f, q)
  BY DEF LaneSound

\* What the workers of a lane, its timer and its stop do.
LEMMA WorkersKeepInv ==
  ASSUME FixedInv, NEW l \in Lane,
         \/ SetTarget(l) \/ Initialise(l) \/ SetRunDeadline(l) \/ CloseInjection(l)
         \/ BeginOperation(l) \/ OperationFailed(l) \/ WorkerReturns(l) \/ StopLane(l)
  PROVE  FixedInv'
  <1>1. PICK r : r = lane[l] /\ LaneSound(fixed, r)
    BY DEF FixedInv
  <1>0. LaneSound(fixed, r)
    BY <1>1
  <1>2. UNCHANGED fixed
    BY DEF SetTarget, Initialise, SetRunDeadline, CloseInjection, BeginOperation,
      OperationFailed, WorkerReturns, StopLane
  <1>3. \A q : lane' = [lane EXCEPT ![l] = q] /\ LaneSound(fixed, q) /\ q.final = r.final
               => FixedInv'
    BY <1>1, <1>2, LaneStepKeepsInv DEF FixedInv
  <1>4. FixedSound(fixed)
    BY DEF FixedInv
  <1>5. r \in LaneState /\ Crew \in Nat \ {0} /\ NoSnapshot = Crew + 1
    BY <1>0, FixedRunConstants DEF LaneSound, NoSnapshot
  <1> USE DEF LaneState, Quiet
  <1>12. /\ r.ready \in 0..Crew /\ r.busy \in 0..Crew /\ r.errs \in 0..Crew
         /\ r.born \in 0..Crew /\ r.ready + r.busy + r.errs <= r.born
         /\ r.busy > 0 => fixed.gate
    BY <1>0, <1>5 DEF LaneSound
  <1>6. CASE SetTarget(l)
    <2>1. PICK q : /\ q = [r EXCEPT !.born = Crew] /\ lane' = [lane EXCEPT ![l] = q]
                   /\ r.born = 0 /\ fixed.pc = "start workers"
      BY <1>1, <1>6 DEF SetTarget
    <2>2. r.final = NoSnapshot
      BY <1>0, <1>4, <2>1 DEF LaneSound, FixedSound, BeforeStop, BeforeGate
    <2>3. q \in LaneState
      BY <1>5, <2>1
    <2>4. /\ q.born = Crew /\ q.ready = r.ready /\ q.busy = r.busy /\ q.errs = r.errs
          /\ q.final = r.final /\ q.over = r.over /\ q.bounded = r.bounded
      BY <1>5, <2>1
    <2>5. q.ready + q.busy + q.errs <= q.born /\ (q.busy > 0 => fixed.gate)
      BY <1>5, <1>12, <2>4
    <2> QED
      BY ZenonT(60), <1>0, <1>3, <2>1, <2>2, <2>3, <2>4, <2>5, WorkersMove
  <1>7. CASE Initialise(l)
    <2>1. lane' = [lane EXCEPT ![l] = [r EXCEPT !.ready = r.ready + 1]] /\ ~r.over
          /\ r.ready + r.busy + r.errs < r.born
      BY <1>1, <1>7 DEF Initialise, CrewStarted
    <2>2. r.ready + 1 \in 0..Crew
      BY <1>5, <2>1
    <2>3. LaneSound(fixed, [r EXCEPT !.ready = r.ready + 1])
      BY <1>0, <1>5, <2>1, <2>2 DEF LaneSound
    <2>4. [r EXCEPT !.ready = r.ready + 1].final = r.final
      BY <1>5
    <2> QED
      BY <1>3, <2>1, <2>3, <2>4
  <1>8. CASE SetRunDeadline(l)
    <2>1. PICK v \in BOOLEAN : v = (r.over \/ fixed.late)
      BY Zenon
    <2>2. lane' = [lane EXCEPT ![l] = [r EXCEPT !.bounded = TRUE, !.over = v]]
      <3>1. lane' = [lane EXCEPT ![l].bounded = TRUE, ![l].over = @ \/ fixed.late]
        BY <1>8, Zenon DEF SetRunDeadline
      <3>2. lane' = [lane EXCEPT ![l] =
                       [r EXCEPT !.bounded = TRUE, !.over = r.over \/ fixed.late]]
        BY <1>1, <3>1, Zenon
      <3> QED
        BY <2>1, <3>2, Zenon
    <2>3. fixed.stop = "idle"
      BY <1>4, <1>8, Zenon DEF FixedSound, BeforeStop, SetRunDeadline
    <2>4. LaneSound(fixed, [r EXCEPT !.bounded = TRUE, !.over = v])
      BY <1>0, <1>5, <2>3 DEF LaneSound
    <2>5. [r EXCEPT !.bounded = TRUE, !.over = v].final = r.final
      BY <1>5
    <2> QED
      BY <1>3, <2>2, <2>4, <2>5
  <1>9. CASE CloseInjection(l)
    <2>1. lane' = [lane EXCEPT ![l] = [r EXCEPT !.over = TRUE]]
      BY <1>1, <1>9 DEF CloseInjection
    <2>2. LaneSound(fixed, [r EXCEPT !.over = TRUE])
      BY <1>0, <1>5 DEF LaneSound
    <2>3. [r EXCEPT !.over = TRUE].final = r.final
      BY <1>5
    <2> QED
      BY <1>3, <2>1, <2>2, <2>3
  <1>10. CASE BeginOperation(l) \/ OperationFailed(l) \/ WorkerReturns(l)
    <2>1. PICK a \in 0..Crew, b \in 0..Crew, e \in 0..Crew :
            /\ lane' = [lane EXCEPT ![l] = [r EXCEPT !.ready = a, !.busy = b, !.errs = e]]
            /\ a + b + e <= r.ready + r.busy + r.errs /\ r.ready + r.busy > 0
            /\ b > 0 => fixed.gate
      <3>2. CASE BeginOperation(l)
        <4>1. lane' = [lane EXCEPT ![l] = [r EXCEPT !.ready = r.ready - 1, !.busy = r.busy + 1,
                                                    !.errs = r.errs]]
              /\ r.ready > 0 /\ fixed.gate
          BY <1>1, <1>5, <3>2 DEF BeginOperation
        <4>2. r.ready - 1 \in 0..Crew /\ r.busy + 1 \in 0..Crew
          BY <1>5, <1>12, <4>1
        <4>3. PICK a \in 0..Crew, b \in 0..Crew : a = r.ready - 1 /\ b = r.busy + 1
          BY <4>2
        <4>4. lane' = [lane EXCEPT ![l] = [r EXCEPT !.ready = a, !.busy = b, !.errs = r.errs]]
          BY <4>1, <4>3, Zenon
        <4>5. a + b + r.errs <= r.ready + r.busy + r.errs /\ r.ready + r.busy > 0
          BY <1>12, <4>1, <4>3
        <4> QED
          BY <1>12, <4>1, <4>4, <4>5
      <3>3. CASE OperationFailed(l) \/ WorkerReturns(l)
        <4>1. CASE r.ready > 0 /\ lane' = [lane EXCEPT ![l].ready = @ - 1]
          <5>0. r.ready > 0
            BY <4>1
          <5>1. PICK a \in 0..Crew : a = r.ready - 1
            BY <1>5, <1>12, <5>0
          <5>2. lane' = [lane EXCEPT ![l] = [r EXCEPT !.ready = a, !.busy = r.busy,
                                                      !.errs = r.errs]]
            BY <1>1, <1>5, <4>1, <5>1
          <5>3. /\ a + r.busy + r.errs <= r.ready + r.busy + r.errs /\ r.ready + r.busy > 0
                /\ r.busy > 0 => fixed.gate
            BY <1>5, <1>12, <5>0, <5>1
          <5> QED
            BY <1>12, <5>2, <5>3
        <4>2. CASE r.busy > 0 /\ lane' = [lane EXCEPT ![l].busy = @ - 1]
          <5>0. r.busy > 0
            BY <4>2
          <5>1. PICK b \in 0..Crew : b = r.busy - 1
            BY <1>5, <1>12, <5>0
          <5>2. lane' = [lane EXCEPT ![l] = [r EXCEPT !.ready = r.ready, !.busy = b,
                                                      !.errs = r.errs]]
            BY <1>1, <1>5, <4>2, <5>1
          <5>3. /\ r.ready + b + r.errs <= r.ready + r.busy + r.errs /\ r.ready + r.busy > 0
                /\ b > 0 => fixed.gate
            BY <1>5, <1>12, <5>0, <5>1
          <5> QED
            BY <1>12, <5>2, <5>3
        <4>3. CASE r.busy > 0 /\ lane' = [lane EXCEPT ![l].busy = @ - 1, ![l].errs = @ + 1]
          <5>0. r.busy > 0
            BY <4>3
          <5>1. PICK b \in 0..Crew, e \in 0..Crew : b = r.busy - 1 /\ e = r.errs + 1
            BY <1>5, <1>12, <5>0
          <5>2. lane' = [lane EXCEPT ![l] = [r EXCEPT !.ready = r.ready, !.busy = b,
                                                      !.errs = e]]
            BY <1>1, <1>5, <4>3, <5>1
          <5>3. /\ r.ready + b + e <= r.ready + r.busy + r.errs /\ r.ready + r.busy > 0
                /\ b > 0 => fixed.gate
            BY <1>5, <1>12, <5>0, <5>1
          <5> QED
            BY <1>12, <5>2, <5>3
        <4> QED
          BY <1>1, <3>3, <4>1, <4>2, <4>3 DEF OperationFailed, WorkerReturns
      <3> QED
        BY <1>10, <3>2, <3>3
    <2>2. PICK q : /\ q = [r EXCEPT !.ready = a, !.busy = b, !.errs = e]
                   /\ lane' = [lane EXCEPT ![l] = q]
      BY <2>1, Zenon
    <2>3. q \in LaneState
      BY <1>5, <2>2
    <2>4. /\ q.born = r.born /\ q.ready = a /\ q.busy = b /\ q.errs = e
          /\ q.final = r.final /\ q.over = r.over /\ q.bounded = r.bounded
      BY <1>5, <2>2
    <2>5. r.final = NoSnapshot
      BY <1>0, <1>12, <2>1 DEF LaneSound
    <2>6. q.ready + q.busy + q.errs <= q.born /\ (q.busy > 0 => fixed.gate)
      BY <1>5, <1>12, <2>1, <2>4
    <2>7. LaneSound(fixed, q)
      BY <1>0, <2>3, <2>4, <2>5, <2>6, WorkersMove
    <2> QED
      BY <1>3, <2>2, <2>4, <2>7
  <1>11. CASE StopLane(l)
    <2>1. PICK q : /\ q = [r EXCEPT !.open = 0, !.final = r.errs]
                   /\ lane' = [lane EXCEPT ![l] = q]
                   /\ r.final = NoSnapshot /\ fixed.stop = "running" /\ Quiet(r)
      BY <1>1, <1>11 DEF StopLane, Gone
    <2>0. r.errs \in 0..NoSnapshot /\ 0 \in 0..Crew
      BY <1>5
    <2>2. q \in LaneState
      BY <1>5, <2>0, <2>1
    <2>3. /\ q.ready = 0 /\ q.busy = 0 /\ q.errs = r.errs /\ q.born = r.born
          /\ q.open = 0 /\ q.final = q.errs /\ q.over = r.over /\ q.bounded = r.bounded
      BY <1>5, <2>1
    <2>4. q.ready + q.busy + q.errs <= q.born /\ q.final # NoSnapshot
      BY <1>0, <1>5, <2>1, <2>3 DEF LaneSound
    <2>5. LaneSound(fixed, q)
      BY <1>0, <2>1, <2>2, <2>3, <2>4 DEF LaneSound
    <2>6. fixed.verdict # "SUCCESS"
      BY <1>4, <2>1 DEF FixedSound
    <2> QED
      BY <1>2, <2>1, <2>5, <2>6, LaneStepKeepsInv
  <1> QED
    BY <1>6, <1>7, <1>8, <1>9, <1>10, <1>11

\* Steps of all lanes at once: sessions are opened, the context is cancelled,
\* Stop is called.
LEMMA AllLanesKeepInv ==
  ASSUME FixedInv, PrepareSessions \/ CancelFixed \/ CallStop
  PROVE  FixedInv'
  <1>1. PICK f : f = fixed /\ FixedSound(f)
    BY DEF FixedInv
  <1>0. FixedSound(f)
    BY <1>1
  <1> USE DEF FixedState, BeforeGate, BeforeStop, AfterStop
  <1>2. \A l \in Lane : LaneSound(f, lane[l]) /\ lane[l] \in LaneState
    BY <1>1 DEF FixedInv, LaneSound
  <1>3. CASE PrepareSessions
    <2>1. PICK opened \in [Lane -> 0..Crew] :
            lane' = [l \in Lane |-> [lane[l] EXCEPT !.open = opened[l]]]
      BY <1>3 DEF PrepareSessions
    <2>2. f.pc = "prepare" /\ (\/ fixed' = [f EXCEPT !.pc = "start workers"]
                               \/ fixed' = [f EXCEPT !.pc = "stop", !.err = "error"])
      BY <1>1, <1>3 DEF PrepareSessions, Goto, GiveUpWith
    <2>3. FixedSound(fixed') /\ f.stop = "idle" /\ f.verdict # "SUCCESS"
      BY <1>0, <2>2 DEF FixedSound, FixedErrs
    <2>4. fixed'.gate = f.gate /\ fixed'.stop = f.stop /\ fixed'.style = f.style
          /\ fixed'.verdict = f.verdict
      BY <1>0, <2>2 DEF FixedSound
    <2>5. ASSUME NEW l \in Lane PROVE LaneSound(fixed', lane'[l])
      <3>1. PICK r : r = lane[l] /\ LaneSound(f, r) /\ r \in LaneState
        BY <1>2
      <3>2. PICK o \in 0..Crew : lane'[l] = [r EXCEPT !.open = o]
        BY <2>1, <3>1
      <3>3. r.final = NoSnapshot
        BY <2>3, <3>1 DEF LaneSound
      <3>4. LaneSound(f, [r EXCEPT !.open = o])
        BY <3>1, <3>3 DEF LaneSound, LaneState
      <3> QED
        BY <2>4, <3>2, <3>4, LaneDepends
    <2>6. lane' = [l \in Lane |-> lane'[l]]
      BY <2>1
    <2> QED
      BY <2>3, <2>4, <2>5, <2>6 DEF FixedInv
  <1>4. CASE CancelFixed \/ CallStop
    <2>1. /\ \/ fixed' = [f EXCEPT !.ctx = "canceled"]
             \/ /\ fixed' = [f EXCEPT !.stop = "running"]
                /\ f.stop = "idle" /\ f.pc \in {"stop", "stop again"}
          /\ lane' = [l \in Lane |-> [lane[l] EXCEPT !.over = TRUE]]
      BY <1>1, <1>4 DEF CancelFixed, CallStop
    <2>2. FixedSound(fixed')
      BY <1>0, <2>1 DEF FixedSound
    <2>3. /\ fixed'.gate = f.gate /\ fixed'.style = f.style /\ fixed'.verdict = f.verdict
          /\ fixed'.stop \in {f.stop, "running"}
          /\ fixed'.stop = "done" => f.stop = "done"
          /\ f.stop # "idle" => fixed'.stop # "idle"
      <3>1. CASE fixed' = [f EXCEPT !.ctx = "canceled"]
        BY <1>0, <3>1 DEF FixedSound
      <3>2. CASE fixed' = [f EXCEPT !.stop = "running"] /\ f.stop = "idle"
        BY <1>0, <3>2 DEF FixedSound
      <3> QED
        BY <2>1, <3>1, <3>2
    <2>4. ASSUME NEW l \in Lane
          PROVE  LaneSound(fixed', lane'[l]) /\ lane'[l].final = lane[l].final
      <3>1. PICK r : r = lane[l] /\ LaneSound(f, r) /\ r \in LaneState
        BY <1>2
      <3>2. lane'[l] = [r EXCEPT !.over = TRUE]
        BY <2>1, <3>1
      <3>3. LaneSound(f, [r EXCEPT !.over = TRUE])
        BY <3>1 DEF LaneSound, LaneState
      <3>4. [r EXCEPT !.over = TRUE].over /\ [r EXCEPT !.over = TRUE].final = r.final
        BY <3>1 DEF LaneState
      <3>5. LaneSound(fixed', [r EXCEPT !.over = TRUE])
        BY <2>3, <3>3, <3>4 DEF LaneSound
      <3> QED
        BY <3>1, <3>2, <3>4, <3>5
    <2>5. lane' = [l \in Lane |-> lane'[l]]
      BY <2>1
    <2> QED
      BY <1>1, <2>2, <2>3, <2>4, <2>5 DEF FixedInv
  <1> QED
    BY <1>3, <1>4

\* Before the run there is no lane with a worker.
LEMMA FixedInvInit ==
  ASSUME FixedInit
  PROVE  FixedInv
  <1>1. FixedSound(fixed)
    BY DEF FixedInit, FixedSound, FixedState, BeforeGate, BeforeStop, AfterStop,
      FixedErrs
  <1>2. NewLane \in LaneState
    BY FixedRunConstants DEF NewLane, LaneState, NoSnapshot
  <1>3. LaneSound(fixed, NewLane)
    BY <1>2, FixedRunConstants DEF FixedInit, LaneSound, NewLane, NoSnapshot
  <1> QED
    BY <1>1, <1>3 DEF FixedInit, FixedInv

\* Every step of the director, of time or of a lane keeps the invariant.
LEMMA FixedInvNext ==
  ASSUME FixedInv, [FixedNext]_fixedVars
  PROVE  FixedInv'
  <1>1. CASE FixedNext
    BY <1>1, DirectorKeepsInv, VerifyFixedKeepsInv, GateAndStopKeepInv, WorkersKeepInv,
      AllLanesKeepInv DEF FixedNext, Director
  <1>2. CASE UNCHANGED fixedVars
    BY <1>2 DEF fixedVars, FixedInv
  <1> QED
    BY <1>1, <1>2

\* A run with any number of lanes and workers: no worker is in an operation
\* before every lane knows when to stop, unless the style opens the gate early;
\* a success is given on numbers that can no longer change; and a run that ends
\* without an error has joined every worker and closed every session.
THEOREM FixedRunIsSafe == FixedSpec => []FixedSafety
  <1>1. FixedInv => FixedSafety
    <2> SUFFICES ASSUME FixedInv PROVE FixedSafety
      OBVIOUS
    <2>1. FixedTypeOK
      BY DEF FixedInv, FixedSound, FixedState, LaneSound, LaneState, CrewStarted,
        FixedTypeOK
    <2>2. NoEarlyOperation
      BY DEF FixedInv, LaneSound, NoEarlyOperation
    <2>3. VerifiedIsFinal
      BY FixedRunConstants
      DEF FixedInv, FixedSound, LaneSound, Quiet, VerifiedIsFinal, Gone, NoSnapshot
    <2>4. StoppedIsClean
      BY DEF FixedInv, FixedSound, AfterStop, LaneSound, Quiet, StoppedIsClean, Gone
    <2> QED
      BY <2>1, <2>2, <2>3, <2>4 DEF FixedSafety
  <1> QED
    BY <1>1, FixedInvInit, FixedInvNext, PTL DEF FixedSpec

=============================================================================
