------------------------- MODULE LatencyProbeProofs -------------------------
(***************************************************************************)
(* Proofs about the LatencyProbe sketch, for every period, number of bins  *)
(* and width of the timer's count, and for runs of any length.             *)
(***************************************************************************)
EXTENDS LatencyProbe, TLAPS

-----------------------------------------------------------------------------
(* Types.                                                                  *)

\* While a match waits for its interrupt the period is not changed, so that the
\* count stays within it; only afterwards may it run on to the end of its range.
CountInv == PROBE_FLAG \/ entered => PROBE_COUNT <= PROBE_TOP

TimerType ==
    /\ PROBE_COUNT \in 0..(Wrap - 1) /\ PROBE_TOP \in Periods
    /\ PROBE_FLAG \in BOOLEAN /\ PROBE_ENABLE \in BOOLEAN /\ running \in BOOLEAN
    /\ blocked \in BOOLEAN /\ entered \in BOOLEAN

StatType ==
    /\ hist \in [Bins -> Nat] /\ samples \in Nat /\ late \in Nat
    /\ maxTicks \in 0..(2 * MIN_PERIOD - 1)

HistoryType == matches \in Nat /\ delay \in Nat /\ missed \in BOOLEAN

SketchType ==
    /\ pc \in {"loop", "run", "drain", "bins", "bootloader"}
    /\ ctrlCs \in 0..3 /\ (ctrlCs = 3 => pc = "bootloader")
    /\ report \in [samples : Nat, late : Nat, maxTicks : Nat]

TypeInv == TimerType /\ StatType /\ HistoryType /\ SketchType /\ CountInv

Constants ==
    /\ MIN_PERIOD \in Nat /\ MIN_PERIOD >= 1 /\ Wrap \in Nat /\ Wrap >= 2 * MIN_PERIOD
    /\ BINS \in Nat /\ BINS >= 1

LEMMA ConstantTypes == Constants
BY ProbeAssumption DEF Constants

LEMMA Modulo ==
    ASSUME NEW a \in Nat, NEW n \in Nat, n >= 1
    PROVE  a % n \in 0..(n - 1)
BY SMT

LEMMA ModuloSmall ==
    ASSUME NEW a \in Nat, NEW n \in Nat, a < n
    PROVE  a % n = a
BY SMT

LEMMA PeriodType ==
    ASSUME NEW lfsr \in Nat
    PROVE  Period(lfsr) \in Periods
<1> DEFINE r == lfsr % MIN_PERIOD
<1>1. r \in 0..(MIN_PERIOD - 1) /\ MIN_PERIOD \in Nat
    BY ConstantTypes, Modulo DEF Constants
<1> HIDE DEF r
<1>2. MIN_PERIOD + r \in MIN_PERIOD..(2 * MIN_PERIOD - 1)
    BY <1>1
<1> QED
    BY <1>2 DEF Period, Periods, r

LEMMA BinType ==
    ASSUME NEW ticks \in Nat
    PROVE  Bin(ticks) \in Bins
BY ConstantTypes DEF Constants, Bin, Bins

LEMMA TypeInit == Init => TypeInv
<1> SUFFICES ASSUME Init PROVE TypeInv
    OBVIOUS
<1>1. 0 \in 0..(Wrap - 1) /\ MIN_PERIOD \in Periods /\ 0 \in 0..(2 * MIN_PERIOD - 1)
    BY ConstantTypes DEF Constants, Periods
<1>2. hist \in [Bins -> Nat] /\ report \in [samples : Nat, late : Nat, maxTicks : Nat]
    BY DEF Init
<1>3. TimerType /\ CountInv
    BY <1>1 DEF Init, TimerType, CountInv
<1>4. StatType
    BY <1>1, <1>2 DEF Init, StatType
<1>5. HistoryType
    BY DEF Init, HistoryType
<1>6. SketchType
    BY <1>2 DEF Init, SketchType
<1> QED
    BY <1>3, <1>4, <1>5, <1>6 DEF TypeInv

\* What a tick does to the count.
LEMMA TickCount ==
    ASSUME TypeInv, Tick
    PROVE  /\ PROBE_COUNT' \in 0..(Wrap - 1)
           /\ (PROBE_FLAG \/ entered) /\ PROBE_COUNT # PROBE_TOP => PROBE_COUNT' = PROBE_COUNT + 1
           /\ CountInv'
<1>1. /\ PROBE_COUNT \in Nat /\ PROBE_COUNT < Wrap /\ PROBE_TOP \in Nat /\ PROBE_TOP < Wrap
      /\ Wrap \in Nat /\ Wrap >= 1
    BY ConstantTypes DEF TypeInv, TimerType, Constants, Periods
<1>2. UNCHANGED <<PROBE_TOP, entered>>
    BY DEF Tick
<1>3. CASE PROBE_COUNT = PROBE_TOP
    <2>1. PROBE_COUNT' = 0
        BY <1>3 DEF Tick
    <2> QED
        BY <1>1, <1>2, <1>3, <2>1 DEF CountInv
<1>4. CASE PROBE_COUNT # PROBE_TOP
    <2>1. PROBE_COUNT' = (PROBE_COUNT + 1) % Wrap /\ PROBE_FLAG' = PROBE_FLAG
        BY <1>4 DEF Tick
    <2>2. (PROBE_COUNT + 1) % Wrap \in 0..(Wrap - 1)
        BY <1>1, Modulo
    <2>3. ASSUME PROBE_FLAG \/ entered
          PROVE  PROBE_COUNT' = PROBE_COUNT + 1 /\ PROBE_COUNT + 1 <= PROBE_TOP
        <3>1. PROBE_COUNT <= PROBE_TOP
            BY <2>3 DEF TypeInv, CountInv
        <3>2. PROBE_COUNT + 1 < Wrap /\ PROBE_COUNT + 1 \in Nat /\ PROBE_COUNT + 1 <= PROBE_TOP
            BY <1>1, <1>4, <3>1
        <3> QED
            BY <1>1, <2>1, <3>2, ModuloSmall
    <2>4. CountInv'
        BY <1>2, <2>1, <2>3 DEF CountInv
    <2> QED
        BY <2>1, <2>2, <2>3, <2>4
<1> QED
    BY <1>3, <1>4

LEMMA TimerStep == TypeInv /\ [Next]_vars => TimerType' /\ CountInv'
<1> SUFFICES ASSUME TypeInv, [Next]_vars PROVE TimerType' /\ CountInv'
    OBVIOUS
<1>a. TimerType /\ CountInv
    BY DEF TypeInv
<1>1. CASE Tick
    <2>1. PROBE_COUNT' \in 0..(Wrap - 1) /\ CountInv'
        BY <1>1, TickCount
    <2>2. /\ UNCHANGED <<PROBE_TOP, PROBE_ENABLE, running, blocked, entered>>
          /\ PROBE_FLAG' = TRUE \/ PROBE_FLAG' = PROBE_FLAG
        BY <1>1 DEF Tick
    <2> QED
        BY <1>a, <2>1, <2>2 DEF TimerType
<1>2. CASE UsbInterrupt
    BY <1>2, <1>a DEF UsbInterrupt, timerVars, TimerType, CountInv
<1>3. CASE EnterInterrupt
    BY <1>3, <1>a DEF EnterInterrupt, TimerType, CountInv
<1>4. CASE Isr
    <2>1. PICK lfsr \in 1..(2 * MIN_PERIOD - 1) : PROBE_TOP' = Period(lfsr)
        BY <1>4 DEF Isr
    <2>2. PROBE_TOP' \in Periods
        BY <2>1, PeriodType
    <2>3. /\ UNCHANGED <<PROBE_COUNT, PROBE_ENABLE, running, blocked>>
          /\ PROBE_FLAG' = FALSE /\ entered' = FALSE
        BY <1>4 DEF Isr
    <2> QED
        BY <1>a, <2>2, <2>3 DEF TimerType, CountInv
<1>5. CASE Loop
    <2>1. UNCHANGED <<blocked, entered>> /\ (startProbe \/ enterBootloader \/ UNCHANGED timerVars)
        BY <1>5 DEF Loop
    <2>2. CASE startProbe
        <3>1. /\ PROBE_COUNT' = 0 /\ PROBE_TOP' \in Periods /\ PROBE_FLAG' = FALSE
              /\ PROBE_ENABLE' = TRUE /\ running' = TRUE
            BY <2>2 DEF startProbe, FlagAfterStart
        <3>2. 0 \in 0..(Wrap - 1) /\ \A p \in Periods : 0 <= p
            BY ConstantTypes DEF Constants, Periods
        <3> QED
            BY <1>a, <2>1, <3>1, <3>2 DEF TimerType, CountInv
    <2>3. CASE enterBootloader
        BY <1>a, <2>1, <2>3 DEF enterBootloader, TimerType, CountInv
    <2>4. CASE UNCHANGED timerVars
        BY <1>a, <2>1, <2>4 DEF timerVars, TimerType, CountInv
    <2> QED
        BY <2>1, <2>2, <2>3, <2>4
<1>6. CASE Stop
    BY <1>6, <1>a DEF Stop, stopProbe, EnabledAfterStop, TimerType, CountInv
<1>7. CASE PrintCounts \/ PrintBins \/ UNCHANGED vars
    BY <1>7, <1>a DEF PrintCounts, PrintBins, vars, timerVars, TimerType, CountInv
<1> QED
    BY <1>1, <1>2, <1>3, <1>4, <1>5, <1>6, <1>7 DEF Next

\* What the interrupt counts.
LEMMA IsrCounts ==
    ASSUME TypeInv, Isr
    PROVE  /\ PROBE_COUNT \in 0..(2 * MIN_PERIOD - 1) /\ Bin(PROBE_COUNT) \in Bins
           /\ \/ PROBE_FLAG /\ late' = late + 1 /\ UNCHANGED <<hist, samples, maxTicks>>
              \/ /\ ~PROBE_FLAG
                 /\ hist' = [hist EXCEPT ![Bin(PROBE_COUNT)] = hist[Bin(PROBE_COUNT)] + 1]
                 /\ samples' = samples + 1 /\ late' = late
                 /\ maxTicks' = IF PROBE_COUNT > maxTicks THEN PROBE_COUNT ELSE maxTicks
<1>1. PROBE_COUNT <= PROBE_TOP /\ PROBE_COUNT \in Nat /\ PROBE_TOP \in Periods
    BY DEF TypeInv, TimerType, CountInv, Isr
<1>2. PROBE_COUNT \in 0..(2 * MIN_PERIOD - 1)
    BY <1>1, ConstantTypes DEF Constants, Periods
<1>3. Bin(PROBE_COUNT) \in Bins
    BY <1>1, BinType
<1> QED
    BY <1>2, <1>3 DEF Isr

LEMMA StatStep == TypeInv /\ [Next]_vars => StatType'
<1> SUFFICES ASSUME TypeInv, [Next]_vars PROVE StatType'
    OBVIOUS
<1>a. StatType
    BY DEF TypeInv
<1>1. CASE Isr
    <2>1. CASE PROBE_FLAG
        BY <1>1, <1>a, <2>1, IsrCounts DEF StatType
    <2>2. CASE ~PROBE_FLAG
        <3> DEFINE b == Bin(PROBE_COUNT)
        <3>1. /\ PROBE_COUNT \in 0..(2 * MIN_PERIOD - 1) /\ b \in Bins
              /\ hist' = [hist EXCEPT ![b] = hist[b] + 1]
              /\ samples' = samples + 1 /\ late' = late
              /\ maxTicks' = IF PROBE_COUNT > maxTicks THEN PROBE_COUNT ELSE maxTicks
            BY <1>1, <2>2, IsrCounts
        <3> HIDE DEF b
        <3>2. hist' \in [Bins -> Nat]
            BY <1>a, <3>1 DEF StatType
        <3>3. maxTicks' \in 0..(2 * MIN_PERIOD - 1)
            BY <1>a, <3>1 DEF StatType
        <3> QED
            BY <1>a, <3>1, <3>2, <3>3 DEF StatType
    <2> QED
        BY <2>1, <2>2
<1>2. CASE Loop
    <2>1. CASE startProbe
        <3>1. hist' = [b \in Bins |-> 0] /\ samples' = 0 /\ late' = 0 /\ maxTicks' = 0
            BY <2>1 DEF startProbe
        <3>2. hist' \in [Bins -> Nat] /\ 0 \in 0..(2 * MIN_PERIOD - 1)
            BY <3>1, ConstantTypes DEF Constants
        <3> QED
            BY <3>1, <3>2 DEF StatType
    <2>2. CASE ~startProbe
        <3>1. UNCHANGED statVars
            BY <1>2, <2>2 DEF Loop, enterBootloader
        <3> QED
            BY <1>a, <3>1 DEF statVars, StatType
    <2> QED
        BY <2>1, <2>2
<1>3. CASE Tick \/ UsbInterrupt \/ EnterInterrupt \/ Stop \/ PrintCounts \/ PrintBins \/ UNCHANGED vars
    <2>1. UNCHANGED statVars
        BY <1>3 DEF Tick, UsbInterrupt, EnterInterrupt, Stop, PrintCounts, PrintBins, vars
    <2> QED
        BY <1>a, <2>1 DEF statVars, StatType
<1> QED
    BY <1>1, <1>2, <1>3 DEF Next

LEMMA HistoryStep == TypeInv /\ [Next]_vars => HistoryType'
<1> SUFFICES ASSUME TypeInv, [Next]_vars PROVE HistoryType'
    OBVIOUS
<1>a. HistoryType
    BY DEF TypeInv
<1>1. CASE Tick
    <2>1. /\ matches' = matches \/ matches' = matches + 1
          /\ delay' = 0 \/ delay' = delay \/ delay' = delay + 1
        BY <1>1 DEF Tick
    <2>2. missed' = missed \/ missed' = (missed \/ PROBE_FLAG \/ entered)
        BY <1>1 DEF Tick
    <2>3. missed' \in BOOLEAN
        BY <1>a, <2>2 DEF HistoryType
    <2> QED
        BY <1>a, <2>1, <2>3 DEF HistoryType
<1>2. CASE Isr
    BY <1>2, <1>a DEF Isr, HistoryType
<1>3. CASE Loop
    <2>1. CASE startProbe
        BY <2>1 DEF startProbe, FlagAfterStart, HistoryType
    <2>2. CASE ~startProbe
        <3>1. UNCHANGED historyVars
            BY <1>3, <2>2 DEF Loop, enterBootloader
        <3> QED
            BY <1>a, <3>1 DEF historyVars, HistoryType
    <2> QED
        BY <2>1, <2>2
<1>4. CASE UsbInterrupt \/ EnterInterrupt \/ Stop \/ PrintCounts \/ PrintBins \/ UNCHANGED vars
    <2>1. UNCHANGED historyVars
        BY <1>4 DEF UsbInterrupt, EnterInterrupt, Stop, PrintCounts, PrintBins, vars
    <2> QED
        BY <1>a, <2>1 DEF historyVars, HistoryType
<1> QED
    BY <1>1, <1>2, <1>3, <1>4 DEF Next

LEMMA SketchStep == TypeInv /\ [Next]_vars => SketchType'
<1> SUFFICES ASSUME TypeInv, [Next]_vars PROVE SketchType'
    OBVIOUS
<1>a. SketchType
    BY DEF TypeInv
<1>1. CASE Loop
    <2>1. PICK c \in Commands :
              /\ ctrlCs' = IF c = "^C" THEN ctrlCs + 1 ELSE 0
              /\ pc' = IF ctrlCs' = 3 THEN "bootloader"
                       ELSE IF c \in {"i", "t", "r", "b"} THEN "run" ELSE "loop"
        BY <1>1 DEF Loop
    <2>2. pc = "loop" /\ report' = report
        BY <1>1 DEF Loop
    <2>3. ctrlCs \in 0..3 /\ ctrlCs # 3
        BY <1>a, <2>2 DEF SketchType
    <2>4. ctrlCs' \in 0..3
        BY <2>1, <2>3
    <2> QED
        BY <1>a, <2>1, <2>2, <2>4 DEF SketchType
<1>2. CASE PrintCounts
    <2>1. [samples |-> samples, late |-> late, maxTicks |-> maxTicks]
              \in [samples : Nat, late : Nat, maxTicks : Nat]
        BY DEF TypeInv, StatType
    <2> QED
        BY <1>2, <1>a, <2>1 DEF PrintCounts, SketchType
<1>3. CASE Stop \/ PrintBins
    BY <1>3, <1>a DEF Stop, PrintBins, SketchType
<1>4. CASE Tick \/ UsbInterrupt \/ EnterInterrupt \/ Isr \/ UNCHANGED vars
    BY <1>4, <1>a DEF Tick, UsbInterrupt, EnterInterrupt, Isr, vars, sketchVars, SketchType
<1> QED
    BY <1>1, <1>2, <1>3, <1>4 DEF Next

LEMMA TypeStep == TypeInv /\ [Next]_vars => TypeInv'
BY TimerStep, StatStep, HistoryStep, SketchStep DEF TypeInv

\* TypeOK: the count, the period and the bins stay within their limits, and no
\* sample is longer than the longest period, whatever the timer's width.
THEOREM TypeCorrect == Spec => []TypeOK
<1>1. TypeInv => TypeOK
    BY DEF TypeInv, TimerType, StatType, HistoryType, SketchType, TypeOK
<1> QED
    BY TypeInit, TypeStep, <1>1, PTL DEF Spec

-----------------------------------------------------------------------------
(* A sample is the time since the match it serves.                         *)

\* While a match waits, alone, the count is the time since then.
DelayInv == (PROBE_FLAG \/ entered) /\ ~missed => delay = PROBE_COUNT

LEMMA DelayStep == TypeInv /\ DelayInv /\ [Next]_vars => DelayInv'
<1> SUFFICES ASSUME TypeInv, DelayInv, [Next]_vars PROVE DelayInv'
    OBVIOUS
<1>1. CASE Tick
    <2>1. UNCHANGED entered
        BY <1>1 DEF Tick
    <2>2. CASE PROBE_COUNT = PROBE_TOP
        <3>1. /\ PROBE_COUNT' = 0
              /\ missed' = (missed \/ PROBE_FLAG \/ entered)
              /\ delay' = IF PROBE_FLAG \/ entered THEN delay + 1 ELSE 0
            BY <1>1, <2>2 DEF Tick
        <3> QED
            BY <3>1 DEF DelayInv
    <2>3. CASE PROBE_COUNT # PROBE_TOP
        <3>1. /\ PROBE_FLAG' = PROBE_FLAG /\ missed' = missed
              /\ delay' = IF PROBE_FLAG \/ entered THEN delay + 1 ELSE delay
            BY <1>1, <2>3 DEF Tick
        <3>2. PROBE_FLAG \/ entered => PROBE_COUNT' = PROBE_COUNT + 1
            BY <1>1, <2>3, TickCount
        <3> QED
            BY <2>1, <3>1, <3>2 DEF DelayInv
    <2> QED
        BY <2>2, <2>3
<1>2. CASE EnterInterrupt
    BY <1>2 DEF EnterInterrupt, historyVars, DelayInv
<1>3. CASE Isr
    BY <1>3 DEF Isr, DelayInv
<1>4. CASE Loop
    <2>1. UNCHANGED entered /\ ~entered
        BY <1>4 DEF Loop
    <2>2. CASE startProbe
        BY <2>1, <2>2 DEF startProbe, FlagAfterStart, DelayInv
    <2>3. CASE ~startProbe
        <3>1. UNCHANGED <<PROBE_COUNT, PROBE_FLAG, historyVars>>
            BY <1>4, <2>3 DEF Loop, enterBootloader, timerVars
        <3> QED
            BY <2>1, <3>1 DEF historyVars, DelayInv
    <2> QED
        BY <2>2, <2>3
<1>5. CASE UsbInterrupt \/ Stop \/ PrintCounts \/ PrintBins \/ UNCHANGED vars
    BY <1>5 DEF UsbInterrupt, Stop, PrintCounts, PrintBins, vars, timerVars, historyVars, DelayInv
<1> QED
    BY <1>1, <1>2, <1>3, <1>4, <1>5 DEF Next

\* Only the interrupt records a sample; a new run starts from none.
LEMMA RecordedByIsr ==
    ASSUME [Next]_vars, Recorded
    PROVE  Isr /\ ~PROBE_FLAG /\ entered
<1>1. ~(Tick \/ UsbInterrupt \/ EnterInterrupt \/ Stop \/ PrintCounts \/ PrintBins \/ UNCHANGED vars)
    BY DEF Recorded, Tick, UsbInterrupt, EnterInterrupt, Stop, PrintCounts, PrintBins, vars, statVars
<1>2. ~Loop
    BY DEF Recorded, Loop, startProbe, enterBootloader, statVars
<1>3. Isr
    BY <1>1, <1>2 DEF Next
<1> QED
    BY <1>3 DEF Isr, Recorded

\* SamplesTrue: a sample is the time since the match it serves, unless the
\* timer has matched again in the meantime.
THEOREM SamplesCorrect == Spec => SamplesTrue
<1>1. Init => DelayInv
    BY DEF Init, DelayInv
<1>2. TypeInv /\ DelayInv /\ [Next]_vars
          => [Recorded /\ ~missed => hist' = [hist EXCEPT ![Bin(delay)] = @ + 1]]_vars
    <2> SUFFICES ASSUME DelayInv, [Next]_vars, Recorded, ~missed
                 PROVE  hist' = [hist EXCEPT ![Bin(delay)] = @ + 1]
        OBVIOUS
    <2>1. Isr /\ ~PROBE_FLAG /\ entered
        BY RecordedByIsr
    <2>2. delay = PROBE_COUNT
        BY <2>1 DEF DelayInv
    <2> QED
        BY <2>1, <2>2 DEF Isr
<1> QED
    BY TypeInit, TypeStep, DelayStep, <1>1, <1>2, PTL DEF Spec, SamplesTrue

-----------------------------------------------------------------------------
(* The report of a run is consistent.                                      *)

\* Outside of a run the interrupt is masked and none is being served.
IdleInv == pc # "run" => ~PROBE_ENABLE /\ ~entered

\* The bins are printed after the counts: these are still the same.
ReportInv == pc = "bins" => report = [samples |-> samples, late |-> late, maxTicks |-> maxTicks]

\* Matches that have not been counted: one may wait for the interrupt and one
\* be served by it.
Waiting == (IF PROBE_FLAG THEN 1 ELSE 0) + (IF entered THEN 1 ELSE 0)
MatchInv == samples + late + Waiting <= matches

\* The longest sample is in the last bin with any.
HistInv ==
    /\ samples = 0 => maxTicks = 0 /\ \A b \in Bins : hist[b] = 0
    /\ samples > 0 => hist[Bin(maxTicks)] > 0
    /\ \A b \in Bins : b > Bin(maxTicks) => hist[b] = 0

LEMMA IdleStep == IdleInv /\ [Next]_vars => IdleInv'
<1> SUFFICES ASSUME IdleInv, [Next]_vars PROVE IdleInv'
    OBVIOUS
<1>1. CASE Tick \/ UsbInterrupt \/ PrintCounts \/ PrintBins \/ UNCHANGED vars
    BY <1>1 DEF Tick, UsbInterrupt, PrintCounts, PrintBins, vars, timerVars, sketchVars, IdleInv
<1>2. CASE EnterInterrupt \/ Isr
    BY <1>2 DEF EnterInterrupt, Isr, sketchVars, IdleInv
<1>3. CASE Loop
    <2>1. pc = "loop" /\ ~entered /\ UNCHANGED entered
        BY <1>3 DEF Loop
    <2>2. CASE pc' = "run"
        BY <2>2 DEF IdleInv
    <2>3. CASE pc' # "run"
        <3>1. enterBootloader \/ UNCHANGED timerVars
            BY <1>3, <2>3 DEF Loop
        <3> QED
            BY <2>1, <3>1 DEF enterBootloader, timerVars, IdleInv
    <2> QED
        BY <2>2, <2>3
<1>4. CASE Stop
    BY <1>4 DEF Stop, stopProbe, EnabledAfterStop, IdleInv
<1> QED
    BY <1>1, <1>2, <1>3, <1>4 DEF Next

LEMMA ReportStep == IdleInv /\ ReportInv /\ [Next]_vars => ReportInv'
<1> SUFFICES ASSUME IdleInv, ReportInv, [Next]_vars PROVE ReportInv'
    OBVIOUS
<1>1. CASE Isr
    BY <1>1 DEF Isr, sketchVars, IdleInv, ReportInv
<1>2. CASE Loop \/ Stop \/ PrintBins
    <2>1. pc' # "bins"
        BY <1>2 DEF Loop, Stop, PrintBins
    <2> QED
        BY <2>1 DEF ReportInv
<1>3. CASE PrintCounts
    BY <1>3 DEF PrintCounts, statVars, ReportInv
<1>4. CASE Tick \/ UsbInterrupt \/ EnterInterrupt \/ UNCHANGED vars
    <2>1. UNCHANGED <<statVars, sketchVars>>
        BY <1>4 DEF Tick, UsbInterrupt, EnterInterrupt, vars
    <2> QED
        BY <2>1 DEF statVars, sketchVars, ReportInv
<1> QED
    BY <1>1, <1>2, <1>3, <1>4 DEF Next

LEMMA MatchStep == TypeInv /\ MatchInv /\ [Next]_vars => MatchInv'
<1> SUFFICES ASSUME TypeInv, MatchInv, [Next]_vars PROVE MatchInv'
    OBVIOUS
<1>a. /\ samples \in Nat /\ late \in Nat /\ matches \in Nat
      /\ PROBE_FLAG \in BOOLEAN /\ entered \in BOOLEAN
    BY DEF TypeInv, TimerType, StatType, HistoryType
<1>1. CASE Tick
    <2>1. UNCHANGED <<samples, late, entered>>
        BY <1>1 DEF Tick, statVars
    <2>2. \/ matches' = matches + 1 /\ PROBE_FLAG' = TRUE
          \/ matches' = matches /\ PROBE_FLAG' = PROBE_FLAG
        BY <1>1 DEF Tick
    <2> QED
        BY <1>a, <2>1, <2>2 DEF MatchInv, Waiting
<1>2. CASE EnterInterrupt
    <2>1. /\ UNCHANGED <<samples, late, matches>>
          /\ PROBE_FLAG /\ ~entered /\ PROBE_FLAG' = FALSE /\ entered' = TRUE
        BY <1>2 DEF EnterInterrupt, statVars, historyVars
    <2> QED
        BY <1>a, <2>1 DEF MatchInv, Waiting
<1>3. CASE Isr
    <2>1. entered /\ entered' = FALSE /\ PROBE_FLAG' = FALSE /\ matches' = matches
        BY <1>3 DEF Isr
    <2>2. \/ samples' = samples /\ late' = late + 1
          \/ samples' = samples + 1 /\ late' = late
        BY <1>3, IsrCounts
    <2> QED
        BY <1>a, <2>1, <2>2 DEF MatchInv, Waiting
<1>4. CASE Loop
    <2>1. ~entered /\ UNCHANGED entered
        BY <1>4 DEF Loop
    <2>2. CASE startProbe
        <3>1. samples' = 0 /\ late' = 0 /\ matches' = 0 /\ PROBE_FLAG' = FALSE
            BY <2>2 DEF startProbe, FlagAfterStart
        <3> QED
            BY <2>1, <3>1 DEF MatchInv, Waiting
    <2>3. CASE ~startProbe
        <3>1. UNCHANGED <<samples, late, matches, PROBE_FLAG>>
            BY <1>4, <2>3 DEF Loop, enterBootloader, timerVars, statVars, historyVars
        <3> QED
            BY <2>1, <3>1 DEF MatchInv, Waiting
    <2> QED
        BY <2>2, <2>3
<1>5. CASE UsbInterrupt \/ Stop \/ PrintCounts \/ PrintBins \/ UNCHANGED vars
    <2>1. UNCHANGED <<samples, late, matches, PROBE_FLAG, entered>>
        BY <1>5 DEF UsbInterrupt, Stop, PrintCounts, PrintBins, vars, timerVars, statVars, historyVars
    <2> QED
        BY <2>1 DEF MatchInv, Waiting
<1> QED
    BY <1>1, <1>2, <1>3, <1>4, <1>5 DEF Next

LEMMA BinMonotone ==
    ASSUME NEW a \in Nat, NEW b \in Nat, a <= b
    PROVE  Bin(a) <= Bin(b)
BY ConstantTypes DEF Constants, Bin

\* One more sample leaves the longest in the last bin with any.
LEMMA HistSample ==
    ASSUME StatType, HistInv, NEW c \in Nat,
           hist' = [hist EXCEPT ![Bin(c)] = hist[Bin(c)] + 1],
           samples' = samples + 1,
           maxTicks' = IF c > maxTicks THEN c ELSE maxTicks
    PROVE  HistInv'
<1> DEFINE new == Bin(c)
           old == Bin(maxTicks)
<1>1. /\ maxTicks \in Nat /\ samples \in Nat /\ hist \in [Bins -> Nat]
      /\ new \in Bins /\ old \in Bins
    BY ConstantTypes, BinType DEF Constants, StatType
<1>2. /\ new \in Int /\ old \in Int
      /\ \A b \in Bins : b \in Int /\ hist[b] \in Nat
    BY <1>1 DEF Bins
<1>3. \A b \in Bins : hist'[b] = IF b = new THEN hist[b] + 1 ELSE hist[b]
    BY <1>1
<1>4. samples' # 0
    BY <1>1
<1>5. CASE c > maxTicks
    <2>1. maxTicks' = c /\ Bin(maxTicks') = new
        BY <1>5
    <2>2. old <= new
        BY <1>1, <1>5, BinMonotone
    <2> HIDE DEF new, old
    <2>3. hist'[new] > 0
        BY <1>1, <1>2, <1>3
    <2>4. ASSUME NEW b \in Bins, b > new
          PROVE  hist'[b] = 0
        <3>1. b > old /\ b # new
            BY <1>2, <2>2, <2>4
        <3>2. hist[b] = 0
            BY <3>1 DEF HistInv, old
        <3> QED
            BY <1>3, <3>1, <3>2
    <2> QED
        BY <1>4, <2>1, <2>3, <2>4 DEF HistInv
<1>6. CASE ~(c > maxTicks)
    <2>1. maxTicks' = maxTicks /\ Bin(maxTicks') = old
        BY <1>6
    <2>2. new <= old
        BY <1>1, <1>6, BinMonotone
    <2>3. samples = 0 => new = old
        BY <1>1, <1>6 DEF HistInv
    <2>4. samples > 0 => hist[old] > 0
        BY DEF HistInv
    <2>5. \A b \in Bins : b > old => hist[b] = 0
        BY DEF HistInv
    <2> HIDE DEF new, old
    <2>6. hist'[old] > 0
        <3>1. CASE new = old
            BY <1>1, <1>2, <1>3, <3>1
        <3>2. CASE new # old
            <4>1. hist[old] > 0
                BY <1>1, <2>3, <2>4, <3>2
            <4> QED
                BY <1>1, <1>3, <3>2, <4>1
        <3> QED
            BY <3>1, <3>2
    <2>7. ASSUME NEW b \in Bins, b > old
          PROVE  hist'[b] = 0
        <3>1. b # new
            BY <1>2, <2>2, <2>7
        <3> QED
            BY <1>3, <2>5, <2>7, <3>1
    <2> QED
        BY <1>4, <2>1, <2>6, <2>7 DEF HistInv
<1> QED
    BY <1>5, <1>6

LEMMA HistStep == TypeInv /\ HistInv /\ [Next]_vars => HistInv'
<1> SUFFICES ASSUME TypeInv, HistInv, [Next]_vars PROVE HistInv'
    OBVIOUS
<1>1. CASE Isr
    <2>1. CASE PROBE_FLAG
        <3>1. UNCHANGED <<hist, samples, maxTicks>>
            BY <1>1, <2>1, IsrCounts
        <3> QED
            BY <3>1 DEF HistInv
    <2>2. CASE ~PROBE_FLAG
        <3>1. /\ PROBE_COUNT \in Nat
              /\ hist' = [hist EXCEPT ![Bin(PROBE_COUNT)] = hist[Bin(PROBE_COUNT)] + 1]
              /\ samples' = samples + 1
              /\ maxTicks' = IF PROBE_COUNT > maxTicks THEN PROBE_COUNT ELSE maxTicks
            BY <1>1, <2>2, IsrCounts DEF TypeInv, TimerType
        <3> QED
            BY <3>1, HistSample DEF TypeInv
    <2> QED
        BY <2>1, <2>2
<1>2. CASE Loop
    <2>1. CASE startProbe
        <3>1. hist' = [b \in Bins |-> 0] /\ samples' = 0 /\ maxTicks' = 0
            BY <2>1 DEF startProbe
        <3> QED
            BY <3>1 DEF HistInv
    <2>2. CASE ~startProbe
        <3>1. UNCHANGED statVars
            BY <1>2, <2>2 DEF Loop, enterBootloader
        <3> QED
            BY <3>1 DEF statVars, HistInv
    <2> QED
        BY <2>1, <2>2
<1>3. CASE Tick \/ UsbInterrupt \/ EnterInterrupt \/ Stop \/ PrintCounts \/ PrintBins \/ UNCHANGED vars
    <2>1. UNCHANGED statVars
        BY <1>3 DEF Tick, UsbInterrupt, EnterInterrupt, Stop, PrintCounts, PrintBins, vars
    <2> QED
        BY <2>1 DEF statVars, HistInv
<1> QED
    BY <1>1, <1>2, <1>3 DEF Next

LEMMA LastBin ==
    ASSUME TypeInv, HistInv, samples > 0
    PROVE  Max({b \in Bins : hist[b] > 0}) = Bin(maxTicks)
<1> DEFINE last == Bin(maxTicks)
           used == {b \in Bins : hist[b] > 0}
<1>1. maxTicks \in Nat /\ last \in Bins
    BY ConstantTypes, BinType DEF Constants, TypeInv, StatType
<1>2. hist[last] > 0 /\ \A b \in Bins : b > last => hist[b] = 0
    BY DEF HistInv
<1> HIDE DEF last
<1>3. last \in used
    BY <1>1, <1>2
<1>4. \A b \in used : last >= b
    BY <1>1, <1>2 DEF Bins
<1>5. \A b \in used : b \in Int
    BY DEF Bins
<1> HIDE DEF used
<1>6. \A m \in used : (\A b \in used : m >= b) => m = last
    BY <1>3, <1>4, <1>5
<1>7. Max(used) = last
    BY <1>3, <1>4, <1>6, Zenon DEF Max
<1> QED
    BY <1>7 DEF used, last

LEMMA NoSamples == AddUpTo([b \in Bins |-> 0], 0)
<1> DEFINE total == [b \in 0..BINS |-> 0]
<1>1. /\ total \in [0..BINS -> 0..0]
      /\ BINS \in 0..BINS /\ 0 \in 0..BINS
      /\ \A b \in Bins : b \in 0..BINS /\ b + 1 \in 0..BINS
    BY ConstantTypes DEF Constants, Bins
<1>2. \A b \in 0..BINS : total[b] = 0
    OBVIOUS
<1> HIDE DEF total
<1>3. total[0] = 0 /\ total[BINS] = 0
    BY <1>1, <1>2
<1>4. \A b \in Bins : total[b + 1] = total[b] + [c \in Bins |-> 0][b]
    BY <1>1, <1>2
<1> QED
    BY <1>1, <1>3, <1>4 DEF AddUpTo

\* One more sample adds one to the sums behind its bin.
LEMMA OneMore ==
    ASSUME NEW bins \in [Bins -> Nat], NEW n \in Nat, NEW k \in Bins, AddUpTo(bins, n)
    PROVE  AddUpTo([bins EXCEPT ![k] = bins[k] + 1], n + 1)
<1>1. PICK total \in [0..BINS -> 0..n] :
          /\ total[0] = 0 /\ total[BINS] = n
          /\ \A b \in Bins : total[b + 1] = total[b] + bins[b]
    BY DEF AddUpTo
<1> DEFINE new == [b \in 0..BINS |-> IF b > k THEN total[b] + 1 ELSE total[b]]
           more == [bins EXCEPT ![k] = bins[k] + 1]
<1>2. /\ BINS \in Nat /\ k \in Nat /\ k < BINS
      /\ \A b \in 0..BINS : total[b] \in 0..n
    BY <1>1, ConstantTypes DEF Constants, Bins
<1>3. new \in [0..BINS -> 0..(n + 1)]
    BY <1>2
<1>4. \A b \in 0..BINS : new[b] = IF b > k THEN total[b] + 1 ELSE total[b]
    OBVIOUS
<1>5. \A b \in Bins : more[b] = IF b = k THEN bins[b] + 1 ELSE bins[b]
    OBVIOUS
<1> HIDE DEF new, more
<1>6. new[0] = 0 /\ new[BINS] = n + 1
    BY <1>1, <1>2, <1>4
<1>7. ASSUME NEW b \in Bins
      PROVE  new[b + 1] = new[b] + more[b]
    <2>1. /\ b \in 0..BINS /\ b + 1 \in 0..BINS
          /\ total[b + 1] = total[b] + bins[b]
        BY <1>1, <1>2 DEF Bins
    <2>2. PICK t \in Nat, d \in Nat : t = total[b] /\ d = bins[b]
        BY <1>2, <2>1
    <2>3. b + 1 > k <=> b > k \/ b = k
        BY <1>2, <2>1
    <2>4. new[b + 1] = IF b > k \/ b = k THEN t + d + 1 ELSE t + d
        BY <1>4, <2>1, <2>2, <2>3
    <2>5. new[b] = (IF b > k THEN t + 1 ELSE t) /\ more[b] = (IF b = k THEN d + 1 ELSE d)
        BY <1>4, <1>5, <2>1, <2>2
    <2> QED
        BY <1>2, <2>1, <2>4, <2>5
<1> QED
    BY <1>3, <1>6, <1>7 DEF AddUpTo, more

\* The bins add up to the samples.
SumInv == AddUpTo(hist, samples)

LEMMA SumStep == TypeInv /\ SumInv /\ [Next]_vars => SumInv'
<1> SUFFICES ASSUME TypeInv, SumInv, [Next]_vars PROVE SumInv'
    OBVIOUS
<1>1. CASE Isr /\ ~PROBE_FLAG
    <2>1. /\ hist' = [hist EXCEPT ![Bin(PROBE_COUNT)] = hist[Bin(PROBE_COUNT)] + 1]
          /\ samples' = samples + 1 /\ Bin(PROBE_COUNT) \in Bins
        BY <1>1, IsrCounts
    <2> QED
        BY <2>1, OneMore DEF TypeInv, StatType, SumInv
<1>2. CASE startProbe
    BY <1>2, NoSamples DEF startProbe, SumInv
<1>3. CASE UNCHANGED <<samples, hist>>
    BY <1>3 DEF SumInv
<1>4. \/ Isr /\ ~PROBE_FLAG
      \/ startProbe
      \/ UNCHANGED <<samples, hist>>
    <2>1. CASE Isr
        BY <2>1, IsrCounts
    <2>2. CASE Loop
        BY <2>2 DEF Loop, enterBootloader, statVars
    <2>3. CASE ~Isr /\ ~Loop
        BY <2>3 DEF Next, Tick, UsbInterrupt, EnterInterrupt, Stop, PrintCounts, PrintBins, vars, statVars
    <2> QED
        BY <2>1, <2>2, <2>3
<1> QED
    BY <1>1, <1>2, <1>3, <1>4

\* ReportAddsUp: the bins the sketch prints add up to the samples it has printed
\* before, although it sends and receives in between.
THEOREM AddsUpCorrect == Spec => []ReportAddsUp
<1> DEFINE Inv == IdleInv /\ ReportInv /\ SumInv
<1>1. Init => Inv
    <2>1. Init => IdleInv /\ ReportInv
        BY DEF Init, IdleInv, ReportInv
    <2>2. Init => SumInv
        BY NoSamples DEF Init, SumInv
    <2> QED
        BY <2>1, <2>2
<1>2. TypeInv /\ Inv /\ [Next]_vars => Inv'
    BY IdleStep, ReportStep, SumStep
<1>3. Inv => ReportAddsUp
    <2> SUFFICES ASSUME ReportInv, SumInv, pc = "bins"
                 PROVE  AddUpTo(hist, report.samples)
        BY DEF ReportAddsUp
    <2>1. report.samples = samples
        BY DEF ReportInv
    <2> QED
        BY <2>1 DEF SumInv
<1> HIDE DEF Inv
<1> QED
    BY TypeInit, TypeStep, <1>1, <1>2, <1>3, PTL DEF Spec

\* ReportTrue: what the sketch prints of a run is of that run and consistent:
\* the longest sample lies in the last bin that is not empty, and no match is
\* counted twice.
THEOREM ReportCorrect == Spec => []ReportTrue
<1> DEFINE Inv == IdleInv /\ ReportInv /\ MatchInv /\ HistInv
<1>1. Init => Inv
    <2> SUFFICES ASSUME Init PROVE Inv
        OBVIOUS
    <2>1. IdleInv /\ ReportInv
        BY DEF Init, IdleInv, ReportInv
    <2>2. MatchInv
        BY DEF Init, MatchInv, Waiting
    <2>3. HistInv
        BY DEF Init, HistInv
    <2> QED
        BY <2>1, <2>2, <2>3
<1>2. TypeInv /\ Inv /\ [Next]_vars => Inv'
    BY IdleStep, ReportStep, MatchStep, HistStep
<1>3. TypeInv /\ Inv => ReportTrue
    <2> SUFFICES ASSUME TypeInv, Inv, pc = "bins"
                 PROVE  /\ report.samples > 0 =>
                               Max({b \in Bins : hist[b] > 0}) = Bin(report.maxTicks)
                        /\ report.samples + report.late <= matches
        BY DEF ReportTrue
    <2>1. report.samples = samples /\ report.late = late /\ report.maxTicks = maxTicks
        BY DEF ReportInv
    <2>2. samples + late <= matches
        BY DEF MatchInv, Waiting, TypeInv, TimerType, StatType, HistoryType
    <2> QED
        BY <2>1, <2>2, LastBin
<1> HIDE DEF Inv
<1> QED
    BY TypeInit, TypeStep, <1>1, <1>2, <1>3, PTL DEF Spec
=============================================================================
