---------------------------- MODULE LatencyProbe ---------------------------
(***************************************************************************)
(* The LatencyProbe sketch: a timer whose interrupt records how late it    *)
(* runs, while V-USB keeps interrupts disabled now and then, and a loop    *)
(* that starts it, stops it and reports.                                   *)
(*                                                                         *)
(* The timer counts to PROBE_TOP, sets its flag there and starts again.    *)
(* The hardware clears the flag when it enters the interrupt; the          *)
(* interrupt reads the count and the flag afterwards.                      *)
(***************************************************************************)
EXTENDS Integers, FiniteSetsExt

CONSTANTS
    MIN_PERIOD,     \* the period is MIN_PERIOD to 2 * MIN_PERIOD - 1 ticks (128)
    Wrap,           \* values of the timer's count: 256, or 65536 on the Digispark Pro
    BINS,
    Commands,       \* of the host: some of "i", "t", "r", "b" and "^C", others
    MaxMatches      \* bound: matches of the timer in one run

ASSUME ProbeAssumption ==
    /\ MIN_PERIOD \in 1..128
    /\ Wrap \in Nat /\ Wrap >= 2 * MIN_PERIOD
    /\ BINS \in Nat \ {0} /\ MaxMatches \in Nat

VARIABLES
    PROBE_COUNT, PROBE_TOP, PROBE_FLAG, PROBE_ENABLE, running,      \* the timer
    blocked,            \* V-USB has interrupts disabled
    entered,            \* the timer's interrupt has been entered
    hist, samples, late, maxTicks,
    pc, ctrlCs,
    report,             \* what it has printed of the counts
    \* History.
    matches,
    delay,              \* ticks since the match the interrupt has to serve
    missed              \* the timer has matched again since

timerVars == <<PROBE_COUNT, PROBE_TOP, PROBE_FLAG, PROBE_ENABLE, running>>
statVars == <<hist, samples, late, maxTicks>>
sketchVars == <<pc, ctrlCs, report>>
historyVars == <<matches, delay, missed>>
vars == <<timerVars, blocked, entered, statVars, sketchVars, historyVars>>

Bins == 0..(BINS - 1)
Periods == MIN_PERIOD..(2 * MIN_PERIOD - 1)

-----------------------------------------------------------------------------
\* Variants of the definitions below: mistakes this sketch could contain.
PeriodWithoutMinimum(lfsr) == lfsr % MIN_PERIOD
FlagKept == PROBE_FLAG
StillEnabled == PROBE_ENABLE
-----------------------------------------------------------------------------

\* MIN_PERIOD | lfsr; lfsr runs through all values but 0.
Period(lfsr) == MIN_PERIOD + (lfsr % MIN_PERIOD)

\* The last bin holds all that is longer.
Bin(ticks) == IF ticks < BINS THEN ticks ELSE BINS - 1

\* CTC mode.  If PROBE_TOP is set below the count, that goes on and wraps.
Tick ==
    /\ running
    /\ IF PROBE_COUNT = PROBE_TOP
       THEN /\ matches < MaxMatches
            /\ matches' = matches + 1
            /\ PROBE_COUNT' = 0 /\ PROBE_FLAG' = TRUE
            /\ missed' = (missed \/ PROBE_FLAG \/ entered)
            /\ delay' = IF PROBE_FLAG \/ entered THEN delay + 1 ELSE 0
       ELSE /\ PROBE_COUNT' = (PROBE_COUNT + 1) % Wrap
            /\ delay' = IF PROBE_FLAG \/ entered THEN delay + 1 ELSE delay
            /\ UNCHANGED <<matches, PROBE_FLAG, missed>>
    /\ UNCHANGED <<PROBE_TOP, PROBE_ENABLE, running, blocked, entered, statVars, sketchVars>>

UsbInterrupt ==
    /\ ~entered
    /\ blocked' = ~blocked
    /\ UNCHANGED <<timerVars, entered, statVars, sketchVars, historyVars>>

EnterInterrupt ==
    /\ PROBE_FLAG /\ PROBE_ENABLE /\ ~blocked /\ ~entered
    /\ entered' = TRUE
    /\ PROBE_FLAG' = FALSE
    /\ UNCHANGED <<PROBE_COUNT, PROBE_TOP, PROBE_ENABLE, running, blocked, statVars, sketchVars,
                   historyVars>>

\* ISR(PROBE_VECTOR): a late one if the flag is set again, else a sample.
Isr ==
    /\ entered /\ entered' = FALSE
    /\ IF PROBE_FLAG
       THEN late' = late + 1 /\ UNCHANGED <<hist, samples, maxTicks>>
       ELSE /\ hist' = [hist EXCEPT ![Bin(PROBE_COUNT)] = @ + 1]
            /\ samples' = samples + 1
            /\ maxTicks' = IF PROBE_COUNT > maxTicks THEN PROBE_COUNT ELSE maxTicks
            /\ UNCHANGED late
    /\ PROBE_FLAG' = FALSE
    /\ \E lfsr \in 1..(2 * MIN_PERIOD - 1) : PROBE_TOP' = Period(lfsr)
    /\ missed' = FALSE /\ delay' = 0
    /\ UNCHANGED <<PROBE_COUNT, PROBE_ENABLE, running, blocked, sketchVars, matches>>

\* PROBE_TIFR in startProbe(): a match of the run before is forgotten.
FlagAfterStart == FALSE

startProbe ==
    /\ hist' = [b \in Bins |-> 0] /\ samples' = 0 /\ late' = 0 /\ maxTicks' = 0
    /\ PROBE_COUNT' = 0 /\ PROBE_TOP' \in Periods       \* 200
    /\ PROBE_FLAG' = FlagAfterStart /\ PROBE_ENABLE' = TRUE /\ running' = TRUE
    /\ matches' = 0
    /\ delay' = (IF FlagAfterStart THEN delay ELSE 0) /\ missed' = (FlagAfterStart /\ missed)

enterBootloader ==
    /\ PROBE_ENABLE' = FALSE /\ running' = FALSE
    /\ UNCHANGED <<PROBE_COUNT, PROBE_TOP, PROBE_FLAG, statVars, historyVars>>

\* loop(): Ctrl-C three times in a row enters the bootloader, a mode's name
\* starts a run.
Loop ==
    /\ pc = "loop" /\ ~entered
    /\ \E c \in Commands :
           /\ ctrlCs' = IF c = "^C" THEN ctrlCs + 1 ELSE 0
           /\ pc' = IF ctrlCs' = 3 THEN "bootloader"
                    ELSE IF c \in {"i", "t", "r", "b"} THEN "run" ELSE "loop"
    /\ IF pc' = "run" THEN startProbe
       ELSE IF pc' = "bootloader" THEN enterBootloader
       ELSE UNCHANGED <<timerVars, statVars, historyVars>>
    /\ UNCHANGED <<blocked, entered, report>>

\* stopProbe() masks the interrupt and stops the timer.
EnabledAfterStop == FALSE
stopProbe == PROBE_ENABLE' = EnabledAfterStop /\ running' = FALSE

\* The end of run()'s loop.
Stop ==
    /\ pc = "run" /\ ~entered
    /\ pc' = "drain"
    /\ stopProbe
    /\ UNCHANGED <<PROBE_COUNT, PROBE_TOP, PROBE_FLAG, blocked, entered, statVars, ctrlCs, report,
                   historyVars>>

\* After flush() and the drain the counts are printed, then the bins.
PrintCounts ==
    /\ pc = "drain" /\ ~entered
    /\ pc' = "bins"
    /\ report' = [samples |-> samples, late |-> late, maxTicks |-> maxTicks]
    /\ UNCHANGED <<timerVars, blocked, entered, statVars, ctrlCs, historyVars>>

PrintBins ==
    /\ pc = "bins" /\ ~entered
    /\ pc' = "loop"
    /\ UNCHANGED <<timerVars, blocked, entered, statVars, ctrlCs, report, historyVars>>

Init ==
    /\ PROBE_COUNT = 0 /\ PROBE_TOP = MIN_PERIOD /\ PROBE_FLAG = FALSE
    /\ PROBE_ENABLE = FALSE /\ running = FALSE
    /\ blocked = FALSE /\ entered = FALSE
    /\ hist = [b \in Bins |-> 0] /\ samples = 0 /\ late = 0 /\ maxTicks = 0
    /\ pc = "loop" /\ ctrlCs = 0
    /\ report = [samples |-> 0, late |-> 0, maxTicks |-> 0]
    /\ matches = 0 /\ delay = 0 /\ missed = FALSE

Next ==
    \/ Tick \/ UsbInterrupt \/ EnterInterrupt \/ Isr
    \/ Loop \/ Stop \/ PrintCounts \/ PrintBins

Spec == Init /\ [][Next]_vars

-----------------------------------------------------------------------------
(* Properties.                                                             *)

\* The variables keep their types; the period stays within its limits and no
\* sample is longer than a period.
TypeOK ==
    /\ PROBE_COUNT \in 0..(Wrap - 1) /\ PROBE_TOP \in Periods
    /\ {PROBE_FLAG, PROBE_ENABLE, running, blocked, entered, missed} \subseteq BOOLEAN
    /\ hist \in [Bins -> Nat] /\ {samples, late, matches, delay} \subseteq Nat
    /\ maxTicks \in 0..(2 * MIN_PERIOD - 1)
    /\ pc \in {"loop", "run", "drain", "bins", "bootloader"} /\ ctrlCs \in 0..3
    /\ report \in [samples : Nat, late : Nat, maxTicks : Nat]

\* total[b] are those below bin b.
AddUpTo(bins, n) ==
    \E total \in [0..BINS -> 0..n] :
        /\ total[0] = 0 /\ total[BINS] = n
        /\ \A b \in Bins : total[b + 1] = total[b] + bins[b]

\* The counts the sketch prints and the bins it prints after them belong
\* together: the bins add up to the samples.
ReportAddsUp == pc = "bins" => AddUpTo(hist, report.samples)

\* The longest sample it prints is in the last bin that is not empty, and the
\* samples and the late interrupts are no more than the matches of the run.
ReportTrue ==
    pc = "bins" =>
        /\ report.samples > 0 => Max({b \in Bins : hist[b] > 0}) = Bin(report.maxTicks)
        /\ report.samples + report.late <= matches

Recorded == samples' # samples /\ samples' # 0

\* A sample is the time since the match it serves, also the first of a run,
\* unless the timer has matched again in the meantime.
SamplesTrue ==
    [][Recorded /\ ~missed =>
           hist' = [hist EXCEPT ![Bin(delay)] = @ + 1]]_vars

\* "interrupts delayed by a whole period or more, whose count has wrapped, are
\* counted separately as "late"": they are not recorded as samples.
LateCounted == [][Recorded => ~missed]_vars
=============================================================================
