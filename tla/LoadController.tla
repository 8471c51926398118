--------------------------- MODULE LoadController ---------------------------
(* The load controller (controller.go): it raises and lowers the number of    *)
(* workers until a measured value is within a tolerance of its target.  Run   *)
(* stops once that held RequiredSamples times in a row; RunToMinimum only     *)
(* ever raises, until the value is at or over the target.  A step is one      *)
(* sample and what the loop does with it.                                     *)
(*                                                                            *)
(* The measured system is either steady (workers times a gain, up to a limit) *)
(* or noisy (any value of Noise, at any time unavailable or an error).        *)
EXTENDS Naturals, FiniteSets

CONSTANTS ControllerConfig, \* configurations, normalizedControllerConfig applied
          Gain,             \* gains of steady systems
          TopValue,         \* the largest value measured
          Noise             \* the values a noisy system may show

\* What normalizedControllerConfig makes of any configuration.
Positive == Nat \ {0}
Normalized ==
  [min : Positive, max : Positive, step : Positive, exploration : Nat, required : Positive,
   adjusting : Positive, maxSamples : Positive, target : Positive, tolerance : Nat]

ASSUME LoadControllerConstants ==
  /\ ControllerConfig # {} /\ ControllerConfig \subseteq Normalized
  /\ \A c \in ControllerConfig : c.min <= c.max
  /\ Gain \subseteq Nat /\ TopValue \in Nat /\ Noise \subseteq 0..TopValue

VARIABLES ctl,      \* the loop: its configuration, verdict and local variables
          workers,  \* the target of the actuator
          steady,   \* the gain of a steady system, 0 for a noisy one
          atTop     \* history: how many of the latest samples in a row fell short
                    \* of the target with the largest number of workers

controllerVars == <<ctl, workers, steady, atTop>>

Unavailable == TopValue + 1
Cfg == ctl.cfg

Lesser(a, b) == IF a < b THEN a ELSE b
Greater(a, b) == IF a > b THEN a ELSE b
Distance(a, b) == IF a < b THEN b - a ELSE a - b

\* The local variables of the loop at its start; 0 is an unknown bracket.
FreshLoad(mode, c) ==
  [mode |-> mode, cfg |-> c, verdict |-> "none", samples |-> 0, inBand |-> 0,
   ceiling |-> 0, lower |-> 0, upper |-> 0, direction |-> "none", pending |-> 0]

ControllerInit ==
  /\ ctl = FreshLoad("off", CHOOSE c \in ControllerConfig : TRUE)
  /\ workers = 0
  /\ steady = 0
  /\ atTop = 0

\* Run and RunToMinimum begin with MinWorkers.
StartController(mode, c, gain) ==
  /\ ctl.mode = "off"
  /\ ctl' = FreshLoad(mode, c)
  /\ workers' = c.min
  /\ steady' = gain
  /\ UNCHANGED atTop

\* What the sampler may return.
Readings ==
  IF steady = 0 THEN Noise \cup {Unavailable} ELSE {Lesser(TopValue, workers * steady)}

\* actuatorRampAdjustment: in proportion to the deviation, within 1..Step.
Adjustment(value) ==
  LET share == Lesser(Cfg.step, workers) * Distance(Cfg.target, value)
      ceil == (share + Cfg.target - 1) \div Cfg.target
  IN  IF value \in {0, Unavailable}
      THEN IF Cfg.exploration = 0 THEN Cfg.step ELSE Lesser(Cfg.step, Cfg.exploration)
      ELSE Greater(1, Lesser(Cfg.step, ceil))

\* MaxSamples taken: Run returns without a verdict.
Exhaust(c) ==
  IF c.verdict = "none" /\ c.mode = "run" /\ c.samples >= Cfg.maxSamples
  THEN [c EXCEPT !.verdict = "exhausted"]
  ELSE c

Become(c, target) ==
  /\ ctl' = Exhaust(c)
  /\ workers' = target
  /\ UNCHANGED steady

Taken == [ctl EXCEPT !.samples = IF ctl.mode = "run" THEN @ + 1 ELSE @]
Missed == [Taken EXCEPT !.inBand = 0]
ResetPending(c) == [c EXCEPT !.direction = "none", !.pending = 0]

\* adjustmentConfirmed: enough samples in a row called for this direction.
PendingNow(direction) == IF ctl.direction = direction THEN ctl.pending + 1 ELSE 1
Confirmed(direction) == PendingNow(direction) >= Cfg.adjusting
Ask(c, direction) ==
  IF Confirmed(direction) THEN ResetPending(c)
  ELSE [c EXCEPT !.direction = direction, !.pending = PendingNow(direction)]

\* One more sample at the ceiling; RequiredSamples of them end the loop.
AtCeiling(c) ==
  [c EXCEPT !.ceiling = @ + 1,
            !.verdict = IF c.ceiling + 1 >= Cfg.required THEN "ceiling" ELSE @]

\* One more sample that counts towards the target.
Towards(c) ==
  [c EXCEPT !.inBand = @ + 1, !.ceiling = 0,
            !.verdict = IF c.inBand + 1 >= Cfg.required THEN "reached" ELSE @]

FellShort(is) ==
  atTop' = IF is /\ workers = Cfg.max THEN Lesser(atTop + 1, Cfg.required) ELSE 0

Looping(mode) == ctl.mode = mode /\ ctl.verdict = "none"
InBand(v) == v # Unavailable /\ Distance(v, Cfg.target) <= Cfg.tolerance

\* ctx is done, or the sampler, a worker or the actuator reports an error.
ControllerFails ==
  /\ Looping("run") \/ Looping("minimum")
  /\ steady = 0
  /\ ctl' = [ctl EXCEPT !.verdict = "failed"]
  /\ UNCHANGED <<workers, steady, atTop>>

\* No value: the evidence so far is dropped, and the workers are raised blindly.
SampleUnavailable ==
  /\ Looping("run")
  /\ Unavailable \in Readings
  /\ IF workers >= Cfg.max
     THEN Become(AtCeiling(ResetPending(Missed)), workers)
     ELSE Become([ResetPending(Missed) EXCEPT !.ceiling = 0],
                 Lesser(Cfg.max, workers + Adjustment(Unavailable)))
  /\ FellShort(TRUE)

SampleInBand ==
  /\ Looping("run")
  /\ \E v \in Readings : InBand(v)
  /\ Become(ResetPending(Towards(Taken)), workers)
  /\ FellShort(FALSE)

\* Below the target: where to go up to, bisecting towards a known upper bracket.
UpTo(c, v, same) ==
  LET step == IF same \/ Cfg.exploration = 0 THEN Adjustment(v)
              ELSE Greater(Adjustment(v), Lesser(Cfg.step, Cfg.exploration))
  IN  IF c.upper > workers THEN workers + Greater(1, (c.upper - workers) \div 2)
      ELSE Lesser(Cfg.max, workers + step)

SampleBelow ==
  /\ Looping("run")
  /\ \E v \in Readings \ {Unavailable} :
        /\ ~InBand(v) /\ v < Cfg.target
        /\ LET same == workers = ctl.upper
               c == [Missed EXCEPT !.upper = IF workers > @ THEN 0 ELSE @,
                                   !.lower = IF workers > @ THEN workers ELSE @]
           IN
           IF workers >= Cfg.max THEN Become(AtCeiling(ResetPending(c)), workers)
           ELSE IF ~Confirmed("up") THEN Become(Ask(c, "up"), workers)
           ELSE Become([Ask(c, "up") EXCEPT !.ceiling = 0, !.upper = IF same THEN 0 ELSE @],
                       UpTo(c, v, same))
  /\ FellShort(TRUE)

\* Mutant: half of the workers, whatever the minimum.
HalveBlindly(c, v, same) == workers \div 2

\* Above the target: where to go down to, bisecting towards a known lower bracket.
DownTo(c, v, same) ==
  CASE c.lower # 0 /\ c.lower < workers -> c.lower + (workers - c.lower) \div 2
    [] same -> Greater(Cfg.min, workers - Lesser(workers, Adjustment(v)))
    [] OTHER -> Greater(Cfg.min, workers \div 2)

RestartCount(c) == [c EXCEPT !.ceiling = 0]

SampleAbove ==
  /\ Looping("run")
  /\ \E v \in Readings \ {Unavailable} :
        /\ ~InBand(v) /\ v > Cfg.target /\ workers > Cfg.min
        /\ LET same == workers = ctl.lower
               c == [RestartCount(Missed) EXCEPT
                       !.lower = IF workers < @ THEN 0 ELSE @,
                       !.upper = IF @ = 0 \/ workers < @ THEN workers ELSE @]
           IN
           IF ~Confirmed("down") THEN Become(Ask(c, "down"), workers)
           ELSE Become([Ask(c, "down") EXCEPT !.lower = IF same THEN 0 ELSE @], DownTo(c, v, same))
  /\ FellShort(FALSE)

\* Above the target with the fewest workers: nothing to be done.
SampleAboveMinimum ==
  /\ Looping("run")
  /\ \E v \in Readings \ {Unavailable} :
        ~InBand(v) /\ v > Cfg.target /\ workers <= Cfg.min
  /\ Become(ResetPending(RestartCount(Missed)), workers)
  /\ FellShort(FALSE)

\* RunToMinimum: RequiredSamples values in a row at or over the target.
SampleMinimum ==
  /\ Looping("minimum")
  /\ \E v \in Readings \ {Unavailable} :
       CASE v >= Cfg.target -> Become(Towards(Taken), workers)
         [] v < Cfg.target /\ workers >= Cfg.max ->
              Become([Missed EXCEPT !.verdict = "ceiling"], workers)
         [] OTHER -> Become(Missed, Lesser(Cfg.max, workers + Adjustment(v)))
  /\ UNCHANGED atTop

ControllerSample ==
  \/ SampleUnavailable \/ SampleInBand \/ SampleBelow
  \/ SampleAbove \/ SampleAboveMinimum \/ SampleMinimum

ControllerNext ==
  \/ \E mode \in {"run", "minimum"}, c \in ControllerConfig, gain \in Gain \cup {0} :
        StartController(mode, c, gain)
  \/ ControllerSample
  \/ ControllerFails

ControllerSpec == ControllerInit /\ [][ControllerNext]_controllerVars

-----------------------------------------------------------------------------
(* Properties.                                                                *)

\* Types; the actuator is never asked for more than MaxWorkers or fewer than
\* MinWorkers, whatever is measured (SetTarget refuses both with an error).
ControllerTypeOK ==
  /\ ctl.mode # "off" => workers \in Cfg.min..Cfg.max
  /\ ctl.verdict \in {"none", "reached", "ceiling", "failed", "exhausted"}
  /\ ctl.samples \in 0..Cfg.maxSamples
  /\ ctl.inBand \in 0..Cfg.required /\ ctl.ceiling \in 0..Cfg.required
  /\ ctl.lower \in 0..Cfg.max /\ ctl.upper \in 0..Cfg.max
  /\ steady \in Gain \cup {0}
  /\ atTop \in 0..Cfg.required

\* The verdict "the ceiling cannot reach the target" is given only after
\* RequiredSamples samples in a row fell short at MaxWorkers: several branches
\* leave the counter alone, so it might have been earned in between.
CeilingIsEarned ==
  ctl.mode = "run" /\ ctl.verdict = "ceiling" => atTop >= Cfg.required

\* Over a steady system Run finds the band whenever some number of workers is
\* in it, and RunToMinimum the level that reaches the target whenever there is
\* one: halving, bisecting and exploring neither oscillate nor pass it by.
Yield(n) == Lesser(TopValue, n * steady)
InReach ==
  \/ /\ ctl.mode = "run"
     /\ \E n \in Cfg.min..Cfg.max : Distance(Yield(n), Cfg.target) <= Cfg.tolerance
  \/ ctl.mode = "minimum" /\ Yield(Cfg.max) >= Cfg.target
SteadyIsNotRefused ==
  steady # 0 /\ InReach
    => ctl.verdict # "ceiling" /\ (ctl.mode = "minimum" => ctl.verdict # "exhausted")
SteadyIsFound ==
  /\ SteadyIsNotRefused
  /\ steady # 0 /\ InReach => ctl.verdict # "exhausted"

\* The three facts about the target above: it stays in its bounds, the verdict
\* "ceiling" is earned, and a steady system is found.
ControllerSafety ==
  /\ ControllerTypeOK
  /\ CeilingIsEarned
  /\ SteadyIsFound
=============================================================================
