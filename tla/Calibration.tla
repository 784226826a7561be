---------------------------- MODULE Calibration ----------------------------
(***************************************************************************)
(* Oscillator calibration after a bus reset.                               *)
(*                                                                         *)
(* At the end of usbPoll(), usbHandleResetHook() compares the state of the *)
(* bus with the one it saw before; when a reset is over, USB_RESET_HOOK    *)
(* calls calibrateOscillator() with interrupts disabled.  It measures the  *)
(* host's frame with the CPU's clock for different values of OSCCAL: first *)
(* a binary search, then the values next to the result.                    *)
(*                                                                         *)
(* One action is one measurement.  uchar has Byte values.  A reset during  *)
(* the calibration spoils the measurements that overlap it.                *)
(***************************************************************************)
EXTENDS Integers, FiniteSets

CONSTANTS
    Byte,           \* the number of values of uchar, a power of two (256)
    targetValue,    \* the frame length at F_CPU
    Shortest,       \* the least frame length
    Rises,          \* an RC oscillator: how often its frequency rises over OSCCAL's values
    Fall,           \* and by how much it may fall in the middle of them
    MaxResets       \* bound: bus resets

ASSUME CalibrationAssumption ==
    /\ Byte \in {8, 16, 32, 64, 128, 256}
    /\ {targetValue, Shortest, Rises, Fall, MaxResets} \subseteq Nat
    /\ Fall <= Shortest

VARIABLES
    length,             \* the frame length at each value of OSCCAL
    bus, wasReset, pc,
    OSCCAL, step, trialValue, x, optimumValue, optimumDev,
    resets, calibrations,   \* history
    disturbed,              \* a measurement of the calibration was spoiled
    due                     \* the last reset has had no calibration, nor lay within one

searchVars == <<OSCCAL, step, trialValue, x, optimumValue, optimumDev>>
vars == <<length, bus, wasReset, pc, searchVars, resets, calibrations, disturbed, due>>

-----------------------------------------------------------------------------
\* Variants of the definitions below: mistakes this code could contain.
LastExclusive == trialValue
HookAlways(isReset) == ~isReset
HookFirstOnly(isReset) == wasReset /\ ~isReset /\ calibrations = 0
NextStepTruncated == step - step \div 4
NextWide == OSCCAL + 1
-----------------------------------------------------------------------------

Values == 0..(Byte - 1)
Half == Byte \div 2

\* How far the CPU's clock is off.
Deviation(frame) == IF frame < targetValue THEN targetValue - frame ELSE frame - targetValue

\* An RC oscillator gets faster with OSCCAL, but may fall back in the middle,
\* and reaches F_CPU well inside.  A crystal (Rises = 0) ignores OSCCAL.
Oscillators ==
    {[v \in Values |-> Shortest + Cardinality({k \in 1..Rises : rise[k] <= v})
                                - (IF v < Half THEN 0 ELSE fall)] :
        rise \in [1..Rises -> 0..Byte], fall \in 0..Fall}

InRange(f) == f[1] < targetValue /\ targetValue <= f[Byte - 2]

\* A step of OSCCAL changes its frequency by less than F_CPU itself.  So the
\* frame that the binary search measured last, with which the neighbourhood
\* search starts, "is certainly far away from optimum".
Gradual(f) == \A v \in 0..(Byte - 2) : f[v + 1] < f[v] + targetValue

\* usbMeasureFrameLength(): a reset can cut the frame short, or make the
\* measurement time out with 0.
usbMeasureFrameLength(v) ==
    IF bus = "reset" THEN {0, length[v] \div 2, length[v]} ELSE {length[v]}

\* "if(wasReset != isReset)", and USB_RESET_HOOK: the reset has ended.
HookCalibrates(isReset) == wasReset /\ ~isReset

\* The end of usbPoll().
Poll ==
    /\ pc = "main"
    /\ LET isReset == bus = "reset"
       IN  IF HookCalibrates(isReset)
           THEN /\ pc' = "search"
                /\ step' = Half /\ trialValue' = 0
                /\ calibrations' = calibrations + 1 /\ disturbed' = FALSE /\ due' = FALSE
                /\ UNCHANGED wasReset
           ELSE /\ wasReset' = isReset
                /\ UNCHANGED <<pc, step, trialValue, calibrations, disturbed, due>>
    /\ UNCHANGED <<length, bus, OSCCAL, x, optimumValue, optimumDev, resets>>

NextStep == step \div 2

\* One round of the binary search, and after the last one the start of the
\* neighbourhood search.
Search ==
    /\ pc = "search"
    /\ \E frame \in usbMeasureFrameLength((trialValue + step) % Byte) :
           /\ x' = frame
           /\ trialValue' = IF frame < targetValue THEN (trialValue + step) % Byte ELSE trialValue
    /\ step' = NextStep
    /\ IF NextStep > 0
       THEN /\ OSCCAL' = (trialValue + step) % Byte
            /\ UNCHANGED <<pc, optimumValue, optimumDev>>
       ELSE /\ pc' = "neighbours"
            /\ optimumValue' = trialValue' /\ optimumDev' = x'
            /\ OSCCAL' = (trialValue' - 1) % Byte
    /\ disturbed' = (disturbed \/ bus = "reset")
    /\ UNCHANGED <<length, bus, wasReset, resets, calibrations, due>>

\* The loop's bound is an int; OSCCAL is a uchar.
Last == trialValue + 1
OSCCALNext == (OSCCAL + 1) % Byte

Optimum(dev) == IF dev < optimumDev THEN OSCCAL ELSE optimumValue

Neighbours ==
    /\ pc = "neighbours" /\ OSCCAL <= Last
    /\ \E frame \in usbMeasureFrameLength(OSCCAL) :
           /\ x' = Deviation(frame)
           /\ optimumValue' = Optimum(x')
           /\ optimumDev' = IF x' < optimumDev THEN x' ELSE optimumDev
    /\ OSCCAL' = OSCCALNext
    /\ disturbed' = (disturbed \/ bus = "reset")
    /\ UNCHANGED <<length, bus, wasReset, pc, step, trialValue, resets, calibrations, due>>

\* The calibration returns, and the hook's caller notes the state of the bus.
Finish ==
    /\ pc = "neighbours" /\ OSCCAL > Last
    /\ pc' = "main"
    /\ OSCCAL' = optimumValue
    /\ wasReset' = FALSE
    /\ UNCHANGED <<length, bus, step, trialValue, x, optimumValue, optimumDev, resets,
                   calibrations, disturbed, due>>

HostResets ==
    /\ bus = "idle" /\ resets < MaxResets
    /\ bus' = "reset" /\ resets' = resets + 1 /\ due' = TRUE
    /\ UNCHANGED <<length, wasReset, pc, searchVars, calibrations, disturbed>>

\* A reset lasts for a whole usbPoll(), unless that calibrates; then no usbPoll()
\* may see it.
ResetEnds ==
    /\ bus = "reset" /\ (pc = "main" => wasReset)
    /\ bus' = "idle" /\ due' = (due /\ pc = "main")
    /\ UNCHANGED <<length, wasReset, pc, searchVars, resets, calibrations, disturbed>>

Init ==
    /\ length \in {f \in Oscillators : Rises > 0 => InRange(f) /\ Gradual(f)}
    /\ bus = "idle" /\ wasReset = FALSE /\ pc = "main"
    /\ OSCCAL = Half /\ step = 0 /\ trialValue = 0 /\ x = 0 /\ optimumValue = 0 /\ optimumDev = 0
    /\ resets = 0 /\ calibrations = 0 /\ disturbed = FALSE /\ due = FALSE

Device == Poll \/ Search \/ Neighbours \/ Finish
Next == Device \/ HostResets \/ ResetEnds

Spec == Init /\ [][Next]_vars

\* The sketch keeps calling usbPollWrapper(), and a reset ends.
FairSpec == Spec /\ WF_vars(Device) /\ WF_vars(ResetEnds)

-----------------------------------------------------------------------------
(* Properties.                                                             *)

\* The variables keep their types, OSCCAL and trialValue those of a uchar.
TypeOK ==
    /\ length \in [Values -> Nat]
    /\ bus \in {"idle", "reset"} /\ wasReset \in BOOLEAN
    /\ pc \in {"main", "search", "neighbours"}
    /\ {OSCCAL, trialValue, optimumValue} \subseteq Values
    /\ step \in 0..Half
    /\ {x, optimumDev, resets, calibrations} \subseteq Nat
    /\ disturbed \in BOOLEAN /\ due \in BOOLEAN

\* "It is guaranteed to find the best match among neighboring values": when the
\* calibration is over, OSCCAL is the best of the binary search's result and the
\* values next to it, and if the oscillator is continuous the best of all.
BestMatch ==
    pc = "main" /\ calibrations > 0 /\ ~disturbed =>
        \A v \in Values :
            \/ Deviation(length[OSCCAL]) <= Deviation(length[v])
            \/ v \notin (trialValue - 1)..(trialValue + 1)
               /\ \E u \in 0..(Byte - 2) : length[u + 1] < length[u]

\* Every calibration, during which the device is deaf, follows a reset of its own.
OncePerReset == calibrations <= resets

\* The last reset is answered by a calibration, if it did not begin and end
\* within the calibration that answers the one before: the hook is not called
\* meanwhile, and afterwards wasReset says nothing of it.
LastResetAnswered == pc = "main" /\ bus = "idle" /\ ~wasReset => ~due

\* An upper bound for the steps to the end of the calibration.
StepsLeft ==
    CASE pc = "search" -> step + 4
      [] pc = "neighbours" -> IF OSCCAL > Last THEN 1 ELSE trialValue + 3 - OSCCAL
      [] OTHER -> 0

\* Every step of a calibration brings it nearer to its end, with any oscillator
\* and whatever resets do to its measurements.  Only with a trial value of 254
\* or 255 does OSCCAL wrap around before it has passed Last; there an RC
\* oscillator's search ends only if a reset has spoiled it.
CalibrationAdvances ==
    [][pc # "main" /\ bus' = bus =>
           \/ StepsLeft' < StepsLeft
           \/ trialValue' >= Byte - 2 /\ (disturbed' \/ Rises = 0)]_vars

\* After a reset that usbPoll() has seen the device is calibrated and goes on,
\* unless another one spoils the measurements.
CalibrationEnds == wasReset ~> ~wasReset \/ disturbed
=============================================================================
