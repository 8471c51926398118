------------------------- MODULE WorkMemCalibration -------------------------
(* Scenarios 201 and 202 look for the number of rows whose sort or hash takes *)
(* 70% to 97% of work_mem, by running the statement under EXPLAIN ANALYZE on  *)
(* one session (scenario_workmem.go): double until too much, then bisect, at  *)
(* most so many attempts, and keep the best reading that did not spill.       *)
EXTENDS Integers

CONSTANTS Target,       \* values of work_mem, in kB
          Divisor,      \* kind of operator -> kB a row is first taken to need, inverted
          MaxRange,     \* workMemCalibrationMaxRange
          MaxAttempts,  \* workMemCalibrationMaxAttempts
          Slope,        \* rows to memory: <<kB, rows>>, the last two are constants
          Step          \* sizes the memory of a hash comes in, in kB

ASSUME CalibrationConstants ==
  /\ Target \subseteq Nat \ {0} /\ Step \subseteq Nat \ {0}
  /\ MaxRange \in Nat \ {0} /\ MaxAttempts \in Nat \ {0}
  /\ \A k \in DOMAIN Divisor : Divisor[k] \in Nat \ {0}
  /\ Slope \subseteq (Nat \ {0}) \X (Nat \ {0})

VARIABLE cal

NoReading == [range |-> 0, used |-> 0, spilled |-> FALSE]

CalibrationInit ==
  cal = [pc |-> "open", target |-> 1, slope |-> <<1, 1>>, step |-> 1, low |-> 1,
         high |-> MaxRange, bracketed |-> FALSE, candidate |-> 1, attempt |-> 0,
         last |-> NoReading, below |-> NoReading, above |-> NoReading,
         met |-> FALSE, seen |-> {}]

AtMost(n, cap) == IF n > cap THEN cap ELSE n
AtLeast(n, floor) == IF n < floor THEN floor ELSE n

\* initialWorkMemRange.
FirstRange(target, kind) == AtMost(AtLeast(target \div Divisor[kind], 1), MaxRange)

StartCalibration(target, kind, slope, step) ==
  /\ cal.pc = "open"
  /\ cal' = [cal EXCEPT !.pc = "probe", !.target = target, !.slope = slope,
                        !.step = step, !.candidate = FirstRange(target, kind)]

\* The session, the mode of EXPLAIN or an attempt fails.
CalibrationFails ==
  /\ cal.pc \in {"open", "probe"}
  /\ cal' = [cal EXCEPT !.pc = "failed"]

LowerKB == (cal.target * 70 + 99) \div 100
UpperKB == AtLeast((cal.target * 97) \div 100, LowerKB)

\* What the operator takes grows with its rows, in steps; beyond work_mem it
\* spills and reports what it kept (a hash) or nothing (a sort).
Memory(range) == ((((range * cal.slope[1]) \div cal.slope[2]) \div cal.step) + 1) * cal.step

ObserveBand(r) ==
  LET m == Memory(cal.candidate)
  IN  IF m > cal.target
      THEN r.range = cal.candidate /\ r.spilled /\ r.used \in {0, cal.target}
      ELSE r = [range |-> cal.candidate, used |-> m, spilled |-> FALSE]

Probe ==
  /\ cal.pc = "probe"
  /\ cal.attempt < MaxAttempts
  /\ \E used \in {0, cal.target, Memory(cal.candidate)}, spilled \in BOOLEAN :
       LET r == [range |-> cal.candidate, used |-> used, spilled |-> spilled]
       IN  /\ ObserveBand(r)
           /\ cal' = [cal EXCEPT !.pc = "judge", !.attempt = @ + 1, !.last = r,
                                 !.seen = @ \cup {cal.candidate}]

Usable(r) == ~r.spilled /\ r.used > 0
InTarget(r) == ~r.spilled /\ r.used \in LowerKB..UpperKB

Better ==
  LET r == cal.last
  IN  [cal EXCEPT
        !.below = IF Usable(r) /\ r.used < LowerKB /\ r.used > @.used THEN r ELSE @,
        !.above = IF Usable(r) /\ r.used > UpperKB /\ (@.range = 0 \/ r.used < @.used)
                  THEN r ELSE @]

Accept ==
  /\ cal.pc = "judge" /\ InTarget(cal.last)
  /\ cal' = [cal EXCEPT !.pc = "done", !.met = TRUE]

TooMuch == cal.last.spilled \/ cal.last.used > UpperKB

\* Mutant: the upper end of the bisection is not excluded.
KeepHigh == [Better EXCEPT !.high = cal.candidate, !.bracketed = TRUE]

Less == [Better EXCEPT !.high = cal.candidate - 1, !.bracketed = TRUE]

More == [Better EXCEPT !.low = cal.candidate + 1]
Narrowed == IF TooMuch THEN Less ELSE More

Doubled(n) ==
  [n EXCEPT !.pc = "probe", !.candidate = AtMost(AtLeast(@ * 2, n.low), MaxRange)]
Bisected(n) ==
  [n EXCEPT !.pc = "probe", !.candidate = n.low + ((n.high - n.low) \div 2)]
Exhausted(n) == [n EXCEPT !.pc = "fallback"]

Narrow ==
  /\ cal.pc = "judge" /\ ~InTarget(cal.last)
  /\ LET n == Narrowed
     IN  cal' = IF n.bracketed
                THEN IF n.low > n.high THEN Exhausted(n) ELSE Bisected(n)
                ELSE IF cal.candidate >= MaxRange THEN Exhausted(n) ELSE Doubled(n)

AttemptsUsed ==
  /\ cal.pc = "probe" /\ cal.attempt = MaxAttempts
  /\ cal' = Exhausted(cal)

\* The best below the band, else the least above it, else an error.
Fallback ==
  /\ cal.pc = "fallback"
  /\ cal' = IF cal.below.range > 0 THEN [cal EXCEPT !.pc = "done", !.last = cal.below]
            ELSE IF cal.above.range > 0 THEN [cal EXCEPT !.pc = "done", !.last = cal.above]
            ELSE [cal EXCEPT !.pc = "failed"]

CalibrationNext ==
  \/ \E target \in Target, kind \in DOMAIN Divisor, slope \in Slope, step \in Step :
       StartCalibration(target, kind, slope, step)
  \/ CalibrationFails \/ Probe \/ Accept \/ Narrow \/ AttemptsUsed \/ Fallback

CalibrationSpec == CalibrationInit /\ [][CalibrationNext]_cal

-----------------------------------------------------------------------------
(* Properties.                                                                *)

\* Every attempt asks for a new number of rows within the data: the doubling
\* and the bisection never repeat themselves and never leave the table.
CalibrationAdvances ==
  cal.pc = "probe" => cal.candidate \in (1..MaxRange) \ cal.seen

\* What the workers will run never spilled, and when it misses the band no
\* other reading below it was nearer: 201 and 202 press on memory, not on disk.
CalibrationUsable ==
  cal.pc = "done" =>
    /\ ~cal.last.spilled
    /\ cal.last.used = Memory(cal.last.range)
    /\ ~cal.met => \A r \in cal.seen : Memory(r) < LowerKB => Memory(r) <= cal.last.used

\* The search does not miss: if it has ended without a hit and with attempts
\* to spare, no number of rows would have met the band.
BandIsFound ==
  cal.pc = "done" /\ ~cal.met /\ cal.attempt < MaxAttempts =>
    \A r \in 1..MaxRange : Memory(r) \notin LowerKB..UpperKB

\* What the search for a number of rows promises: new candidates only, a result
\* that never spilled, and no miss of a band that exists.
CalibrationSafety ==
  /\ CalibrationAdvances
  /\ CalibrationUsable
  /\ BandIsFound
=============================================================================
