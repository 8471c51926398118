---------------------------- MODULE AlarmPolicy ----------------------------
(***************************************************************************)
(* gstop's alarms (internal/alarm/alarm.go).  A breach of a threshold is   *)
(* reported each time a cycle finds it; the policy lets a report through   *)
(* to the alarm file when the breach recurred ReportThresh times within    *)
(* the observation window, and then holds its key back for the suppression *)
(* window.  The decision is taken under one lock, the line is written      *)
(* under another, and the clock is read before either: reporters may       *)
(* decide in another order than they read it, and a write may fail after   *)
(* the decision used up the window.                                        *)
(*                                                                         *)
(* Keys do not touch one another, so there is one.  Times are ages, which  *)
(* stop to count where no comparison tells them apart.                     *)
(***************************************************************************)
EXTENDS Integers, FiniteSets, Functions

CONSTANTS
    Reporter,        \* the goroutines that may report the key
    Kind,            \* the values of checkConsecutive a key may be reported with
    ObservationWindow,     \* alarm.observation_window
    SuppressionWindow,     \* alarm.suppression_window
    ReportThresh,    \* alarm.report_thresh; the code treats 0 and less like 1
    CycleGap,        \* bound: a breach is found again at least this often
    MaxLate          \* bound: the time a report takes from its clock to its end

\* A breach that lasts is found often enough to be observed.
ASSUME AlarmAssumption ==
    /\ ObservationWindow \in Nat
    /\ SuppressionWindow \in Nat
    /\ ReportThresh \in Nat \ {0}
    /\ CycleGap \in Nat
    /\ MaxLate \in Nat
    /\ (ReportThresh - 1) * CycleGap + MaxLate <= ObservationWindow

MinOf(a, b) == IF a < b THEN a ELSE b

MaxOf(a, b) == IF a < b THEN b ELSE a

VARIABLES
    policy,          \* of the key: checkConsecutive, age of lastReported, of occurrences
    reporter,        \* the reports under way
    alarmFile,       \* whether a write to the file succeeds
    breach,          \* whether there is a breach, and when it was found last
    record           \* what happened: ages of all occurrences, of the last line

alarmVars == <<policy, reporter, alarmFile, breach, record>>

\* The longest a lasting breach may go without a line in a file that works.
Patience == SuppressionWindow + ReportThresh * CycleGap + 2 * MaxLate

\* From here on no comparison tells an age apart from an older one.
Oldest == MaxOf(SuppressionWindow, ObservationWindow + 1) + MaxLate

Aged(age) == IF age < Oldest THEN age + 1 ELSE age

\* A list of times as a function from marks to ages: which comes first is
\* never asked.  One more age, and the ages up to a limit.
NoAges == [m \in {} |-> 0]

Added(ages, age) ==
    LET mark == CHOOSE m \in 1..(Cardinality(DOMAIN ages) + 1) : m \notin DOMAIN ages
    IN  [m \in DOMAIN ages \cup {mark} |-> IF m = mark THEN age ELSE ages[m]]

NoOlder(ages, limit) == Restrict(ages, {m \in DOMAIN ages : ages[m] <= limit})

Asleep == [pc |-> "idle", late |-> 0]

AlarmTypeOK ==
    /\ policy.last \in 0..Oldest
    /\ \A m \in DOMAIN policy.occurrences : policy.occurrences[m] \in 0..Oldest
    /\ reporter \in [Reporter -> [pc : {"idle", "decide", "write"}, late : 0..MaxLate]]
    /\ alarmFile \in BOOLEAN
    /\ Cardinality(DOMAIN policy.occurrences) < ReportThresh

AlarmInit ==
    /\ policy \in [consecutive : Kind, last : {Oldest}, occurrences : {NoAges}]
    /\ reporter = [r \in Reporter |-> Asleep]
    /\ alarmFile = TRUE
    /\ breach = [on |-> FALSE, found |-> 0, lasts |-> 0]
    /\ record = [seen |-> NoAges, quiet |-> 0, apart |-> Oldest, evidence |-> ReportThresh]

-----------------------------------------------------------------------------
\* A breach found a while ago is found again first, reports go on first.
TimePasses ==
    /\ breach.on => breach.found < CycleGap
    /\ \A r \in Reporter : reporter[r].pc # "idle" => reporter[r].late < MaxLate
    /\ policy' = [policy EXCEPT
           !.last = Aged(@),
           !.occurrences = [m \in DOMAIN @ |-> Aged(@[m])]]
    /\ reporter' = [r \in Reporter |->
           IF reporter[r].pc = "idle" THEN Asleep ELSE [reporter[r] EXCEPT !.late = @ + 1]]
    /\ breach' = [breach EXCEPT
           !.found = IF breach.on THEN @ + 1 ELSE 0,
           !.lasts = IF breach.on /\ alarmFile THEN MinOf(@ + 1, Patience + 1) ELSE 0]
    /\ record' = [record EXCEPT
           !.quiet = MinOf(@ + 1, Patience + 1),
           !.seen = NoOlder([m \in DOMAIN @ |-> @[m] + 1], ObservationWindow + MaxLate)]
    /\ UNCHANGED alarmFile

OutsideMoves ==
    /\ \/ /\ breach' = [on |-> ~breach.on, found |-> 0, lasts |-> 0]
          /\ UNCHANGED alarmFile
       \/ /\ alarmFile' = ~alarmFile
          /\ breach' = [breach EXCEPT !.lasts = 0]
    /\ UNCHANGED <<policy, reporter, record>>

\* CheckAndReport, up to the clock of ShouldReport.
Found(r) ==
    /\ reporter[r].pc = "idle"
    /\ breach.on
    /\ reporter' = [reporter EXCEPT ![r] = [pc |-> "decide", late |-> 0]]
    /\ breach' = [breach EXCEPT !.found = 0]
    /\ UNCHANGED <<policy, alarmFile, record>>

\* Mutant: a report held back holds the next ones back for as long.
HoldsLonger(r) == policy' = [policy EXCEPT !.last = reporter[r].late]

\* A report held back leaves no trace.
HoldsBack(r) == UNCHANGED policy

\* The report uses up the window and the occurrences.
LetsThrough(r) ==
    policy' = [policy EXCEPT !.last = reporter[r].late, !.occurrences = NoAges]

Suppressed(r) == policy.last - reporter[r].late < SuppressionWindow

Kept(r) ==
    Added(NoOlder(policy.occurrences, ObservationWindow + reporter[r].late), reporter[r].late)

\* The occurrences of the record that are in the window of the clock of r.
InWindow(r, seen) ==
    Cardinality(DOMAIN NoOlder(seen, ObservationWindow + reporter[r].late))

\* ShouldReport, under its lock.
ShouldReport(r) ==
    /\ reporter[r].pc = "decide"
    /\ LET seen == Added(record.seen, reporter[r].late)
       IN  \/ /\ Suppressed(r)
              /\ HoldsBack(r)
              /\ reporter' = [reporter EXCEPT ![r] = Asleep]
              /\ UNCHANGED record
           \/ /\ ~Suppressed(r)
              /\ ~policy.consecutive
              /\ policy' = [policy EXCEPT !.last = reporter[r].late]
              /\ reporter' = [reporter EXCEPT ![r].pc = "write"]
              /\ record' = [record EXCEPT !.apart = policy.last - reporter[r].late]
           \/ /\ ~Suppressed(r)
              /\ policy.consecutive
              /\ Cardinality(DOMAIN Kept(r)) >= ReportThresh
              /\ LetsThrough(r)
              /\ reporter' = [reporter EXCEPT ![r].pc = "write"]
              /\ record' = [record EXCEPT
                     !.seen = NoAges,
                     !.apart = policy.last - reporter[r].late,
                     !.evidence = InWindow(r, seen)]
           \/ /\ ~Suppressed(r)
              /\ policy.consecutive
              /\ Cardinality(DOMAIN Kept(r)) < ReportThresh
              /\ policy' = [policy EXCEPT !.occurrences = Kept(r)]
              /\ reporter' = [reporter EXCEPT ![r] = Asleep]
              /\ record' = [record EXCEPT !.seen = seen]
    /\ UNCHANGED <<alarmFile, breach>>

\* The line is written, or lost; the policy does not learn which.
WritesLine(r) ==
    /\ reporter[r].pc = "write"
    /\ reporter' = [reporter EXCEPT ![r] = Asleep]
    /\ record' = [record EXCEPT !.quiet = IF alarmFile THEN 0 ELSE @]
    /\ UNCHANGED <<policy, alarmFile, breach>>

AlarmNext ==
    \/ TimePasses
    \/ OutsideMoves
    \/ \E r \in Reporter : \/ Found(r)
                           \/ ShouldReport(r)
                           \/ WritesLine(r)

AlarmSpec == AlarmInit /\ [][AlarmNext]_alarmVars

-----------------------------------------------------------------------------
(* A breach that lasts gets a line in the file at least every Patience,    *)
(* counted from when the file works again: a report held back or a line    *)
(* lost after the decision costs one suppression window, never more        *)
(* (ShouldReport decides before CheckAndReport writes).                    *)
LastingBreachIsWritten == breach.lasts > Patience => record.quiet <= Patience

(* Two reports let through are a suppression window apart by their own     *)
(* clocks, in whatever order reporters reach the lock.                     *)
ReportsApart == record.apart >= SuppressionWindow

(* A consecutive report rests on ReportThresh occurrences in its window,   *)
(* none of which an earlier one was let through for.                       *)
ReportHasEvidence == record.evidence >= ReportThresh

\* What the alarm file promises: a line for a breach that lasts, reports kept
\* apart, and evidence for consecutive ones.
AlarmSafety ==
  /\ AlarmTypeOK
  /\ LastingBreachIsWritten
  /\ ReportsApart
  /\ ReportHasEvidence
=============================================================================
