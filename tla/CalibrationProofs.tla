-------------------------- MODULE CalibrationProofs --------------------------
(***************************************************************************)
(* Proofs about the calibration of the oscillator, for every width of      *)
(* OSCCAL from 3 to 8 bits, every target and oscillator, and any number of *)
(* bus resets.                                                             *)
(***************************************************************************)
EXTENDS Calibration, FiniteSetTheorems, TLAPS

-----------------------------------------------------------------------------
(* Constants and oscillators.                                              *)

Powers == {1, 2, 4, 8, 16, 32, 64, 128}

Constants ==
    /\ Byte \in Nat /\ Byte >= 8 /\ Half \in Nat /\ Byte = 2 * Half /\ Half \in Powers
    /\ targetValue \in Nat /\ Shortest \in Nat /\ Rises \in Nat /\ Fall \in Nat
    /\ Fall <= Shortest

LEMMA ConstantTypes == Constants
<1>1. Byte \in {8, 16, 32, 64, 128, 256}
    BY CalibrationAssumption
<1>2. Half \in Powers /\ Byte = 2 * Half
    BY <1>1, SMT DEF Half, Powers
<1>3. Byte \in Nat /\ Byte >= 8 /\ Half \in Nat
    BY <1>1, <1>2, SMT DEF Powers
<1>4. targetValue \in Nat /\ Shortest \in Nat /\ Rises \in Nat /\ Fall \in Nat /\ Fall <= Shortest
    BY CalibrationAssumption
<1> QED
    BY <1>2, <1>3, <1>4 DEF Constants

LEMMA Modulo ==
    ASSUME NEW a \in Int
    PROVE  a % Byte \in Values /\ (a \in Values => a % Byte = a)
<1>1. \A n \in Nat : n >= 1 => a % n \in 0..(n - 1) /\ (a \in 0..(n - 1) => a % n = a)
    BY SMT
<1>2. Byte \in Nat /\ Byte >= 1
    BY ConstantTypes DEF Constants
<1> QED
    BY <1>1, <1>2 DEF Values

LEMMA DeviationType ==
    ASSUME NEW frame \in Nat
    PROVE  Deviation(frame) \in Nat
BY ConstantTypes DEF Constants, Deviation

\* Within each half an oscillator gets faster, and one without rises does not
\* change but for falling back in the middle.
LEMMA Oscillator ==
    ASSUME NEW f \in Oscillators
    PROVE  /\ f \in [Values -> Nat]
           /\ \A a, b \in Values : a <= b /\ (b < Half \/ Half <= a) => f[a] <= f[b]
           /\ Rises = 0 => \A a, b \in Values : a <= b => f[b] <= f[a]
<1> DEFINE frames(rise, fall) ==
               [v \in Values |-> Shortest + Cardinality({k \in 1..Rises : rise[k] <= v})
                                 - (IF v < Half THEN 0 ELSE fall)]
<1>0. Oscillators = {frames(rise, fall) : rise \in [1..Rises -> 0..Byte], fall \in 0..Fall}
    BY DEF Oscillators
<1> HIDE DEF frames
<1>1. PICK rise \in [1..Rises -> 0..Byte], fall \in 0..Fall : f = frames(rise, fall)
    BY <1>0
<1> USE DEF frames
<1> DEFINE risen(v) == {k \in 1..Rises : rise[k] <= v}
           count(v) == Cardinality(risen(v))
           back(v) == IF v < Half THEN 0 ELSE fall
<1>2. /\ Rises \in Nat /\ Shortest \in Nat /\ fall \in Nat /\ fall <= Shortest
      /\ Half \in Nat /\ Byte \in Nat /\ Half <= Byte
      /\ \A v \in Values : v \in Nat
    BY ConstantTypes, <1>1 DEF Constants, Values
<1>3. IsFiniteSet(1..Rises)
    BY <1>2, FS_Interval
<1>4. \A v \in Values : IsFiniteSet(risen(v)) /\ count(v) \in Nat
    BY <1>3, FS_Subset, FS_CardinalityType
<1>5. \A a, b \in Values : a <= b => count(a) <= count(b)
    <2> SUFFICES ASSUME NEW a \in Values, NEW b \in Values, a <= b
                 PROVE  count(a) <= count(b)
        OBVIOUS
    <2>1. \A k \in 1..Rises : rise[k] \in Int
        BY <1>1, <1>2
    <2>2. risen(a) \subseteq risen(b)
        BY <1>2, <2>1
    <2> QED
        BY <1>4, <2>2, FS_Subset
<1>6. Rises = 0 => \A v \in Values : count(v) = 0
    <2>1. Rises = 0 => \A v \in Values : risen(v) = {}
        OBVIOUS
    <2> QED
        BY <2>1, FS_EmptySet
<1>7. \A v \in Values : f[v] = Shortest + count(v) - back(v)
    BY <1>1
<1>8. \A v \in Values : back(v) \in Nat /\ back(v) <= Shortest
    BY <1>2
<1>9. DOMAIN f = Values /\ f = [v \in Values |-> f[v]]
    BY <1>1
<1> HIDE DEF count
<1>10. \A v \in Values : f[v] \in Nat
    <2> SUFFICES ASSUME NEW v \in Values PROVE f[v] \in Nat
        OBVIOUS
    <2> HIDE DEF back
    <2>1. PICK c \in Nat, d \in Nat : c = count(v) /\ d = back(v) /\ d <= Shortest
        BY <1>4, <1>8
    <2>2. f[v] = Shortest + c - d
        BY <1>7, <2>1
    <2>3. Shortest \in Nat /\ d <= Shortest
        BY <1>2, <2>1
    <2>4. Shortest + c - d \in Nat
        BY <2>3
    <2> QED
        BY <2>2, <2>4
<1>11. f \in [Values -> Nat]
    BY <1>9, <1>10
<1>12. ASSUME NEW a \in Values, NEW b \in Values, a <= b, b < Half \/ Half <= a
       PROVE  f[a] <= f[b]
    <2>1. back(a) = back(b) /\ back(a) \in Nat
        BY <1>2, <1>12
    <2>2. count(a) <= count(b) /\ count(a) \in Nat /\ count(b) \in Nat
        BY <1>4, <1>5, <1>12
    <2> HIDE DEF back
    <2> QED
        BY <1>2, <1>7, <2>1, <2>2
<1>13. ASSUME Rises = 0, NEW a \in Values, NEW b \in Values, a <= b
       PROVE  f[b] <= f[a]
    <2>1. back(a) <= back(b) /\ back(a) \in Nat /\ back(b) \in Nat
        BY <1>2, <1>13
    <2>2. f[a] = Shortest + 0 - back(a) /\ f[b] = Shortest + 0 - back(b)
        BY <1>6, <1>7, <1>13
    <2> HIDE DEF back
    <2> QED
        BY <1>2, <2>1, <2>2
<1> QED
    BY <1>11, <1>12, <1>13

-----------------------------------------------------------------------------
(* Types.                                                                  *)

TypeInv ==
    /\ length \in [Values -> Nat]
    /\ bus \in {"idle", "reset"} /\ wasReset \in BOOLEAN
    /\ pc \in {"main", "search", "neighbours"}
    /\ OSCCAL \in Values /\ trialValue \in Values /\ optimumValue \in Values
    /\ step \in 0..Half
    /\ x \in Nat /\ optimumDev \in Nat /\ resets \in Nat /\ calibrations \in Nat
    /\ disturbed \in BOOLEAN /\ due \in BOOLEAN

\* A measurement that no reset disturbs is the length of the frame.
LEMMA Frames ==
    ASSUME length \in [Values -> Nat], NEW v \in Values, NEW frame \in usbMeasureFrameLength(v)
    PROVE  frame \in Nat /\ (bus # "reset" => frame = length[v])
<1>1. length[v] \in Nat
    OBVIOUS
<1>2. length[v] \div 2 \in Nat
    BY <1>1
<1> QED
    BY <1>1, <1>2 DEF usbMeasureFrameLength

\* What a round of the binary search does.
LEMMA SearchRound ==
    ASSUME TypeInv, Search
    PROVE  \E trial \in Values, frame \in Nat :
               /\ trial = (trialValue + step) % Byte
               /\ bus # "reset" => frame = length[trial]
               /\ x' = frame
               /\ trialValue' = IF frame < targetValue THEN trial ELSE trialValue
<1>1. (trialValue + step) % Byte \in Values
    <2>1. trialValue \in Int /\ step \in Int
        BY ConstantTypes DEF Constants, TypeInv, Values
    <2> QED
        BY <2>1, Modulo
<1>2. PICK frame \in usbMeasureFrameLength((trialValue + step) % Byte) :
          /\ x' = frame
          /\ trialValue' = IF frame < targetValue THEN (trialValue + step) % Byte ELSE trialValue
    BY DEF Search
<1>3. frame \in Nat /\ (bus # "reset" => frame = length[(trialValue + step) % Byte])
    BY <1>1, <1>2, Frames DEF TypeInv
<1> QED
    BY <1>1, <1>2, <1>3

LEMMA NeighbourRound ==
    ASSUME TypeInv, Neighbours
    PROVE  \E frame \in Nat :
               /\ bus # "reset" => frame = length[OSCCAL]
               /\ x' = Deviation(frame)
               /\ optimumValue' = Optimum(x')
               /\ optimumDev' = IF x' < optimumDev THEN x' ELSE optimumDev
BY Frames DEF Neighbours, TypeInv

LEMMA TypeInit == Init => TypeInv
<1> SUFFICES ASSUME Init PROVE TypeInv
    OBVIOUS
<1>1. length \in [Values -> Nat]
    BY Oscillator DEF Init
<1>2. 0 \in Values /\ Half \in Values /\ 0 \in 0..Half
    BY ConstantTypes DEF Constants, Values
<1> QED
    BY <1>1, <1>2 DEF Init, TypeInv

LEMMA TypeStep == TypeInv /\ [Next]_vars => TypeInv'
<1> SUFFICES ASSUME TypeInv, [Next]_vars PROVE TypeInv'
    OBVIOUS
<1>0. 0 \in Values /\ Half \in 0..Half /\ Half \in Nat /\ \A v \in Values : v \in Int
    BY ConstantTypes DEF Constants, Values
<1>1. CASE Poll
    <2>1. \/ /\ pc' = "search" /\ step' = Half /\ trialValue' = 0
             /\ calibrations' = calibrations + 1 /\ disturbed' = FALSE /\ due' = FALSE
             /\ wasReset' = wasReset
          \/ /\ wasReset' = (bus = "reset")
             /\ UNCHANGED <<pc, step, trialValue, calibrations, disturbed, due>>
        BY <1>1 DEF Poll
    <2>2. UNCHANGED <<length, bus, OSCCAL, x, optimumValue, optimumDev, resets>>
        BY <1>1 DEF Poll
    <2>3. wasReset' \in BOOLEAN /\ disturbed' \in BOOLEAN /\ due' \in BOOLEAN
        BY <2>1 DEF TypeInv
    <2> QED
        BY <1>0, <2>1, <2>2, <2>3 DEF TypeInv
<1>2. CASE Search
    <2>1. PICK trial \in Values, frame \in Nat :
              /\ trial = (trialValue + step) % Byte
              /\ x' = frame
              /\ trialValue' = IF frame < targetValue THEN trial ELSE trialValue
        BY <1>2, SearchRound
    <2>2. trialValue' \in Values /\ x' \in Nat
        BY <2>1 DEF TypeInv
    <2>3. step' \in 0..Half
        BY <1>0, <1>2 DEF Search, NextStep, TypeInv
    <2>4. (trialValue' - 1) % Byte \in Values
        BY <1>0, <2>2, Modulo
    <2>5. \/ OSCCAL' = trial /\ UNCHANGED <<pc, optimumValue, optimumDev>>
          \/ /\ pc' = "neighbours" /\ optimumValue' = trialValue' /\ optimumDev' = x'
             /\ OSCCAL' = (trialValue' - 1) % Byte
        BY <1>2, <2>1 DEF Search
    <2>6. /\ UNCHANGED <<length, bus, wasReset, resets, calibrations, due>>
          /\ disturbed' = (disturbed \/ bus = "reset")
        BY <1>2 DEF Search
    <2> QED
        BY <2>1, <2>2, <2>3, <2>4, <2>5, <2>6 DEF TypeInv
<1>3. CASE Neighbours
    <2>1. PICK frame \in Nat :
              /\ x' = Deviation(frame)
              /\ optimumValue' = Optimum(x')
              /\ optimumDev' = IF x' < optimumDev THEN x' ELSE optimumDev
        BY <1>3, NeighbourRound
    <2>2. x' \in Nat /\ optimumDev' \in Nat
        BY <2>1, DeviationType DEF TypeInv
    <2>3. optimumValue' \in Values
        BY <2>1 DEF Optimum, TypeInv
    <2>4. OSCCAL' \in Values
        BY <1>0, <1>3, Modulo DEF Neighbours, OSCCALNext, TypeInv
    <2>5. /\ UNCHANGED <<length, bus, wasReset, pc, step, trialValue, resets, calibrations, due>>
          /\ disturbed' = (disturbed \/ bus = "reset")
        BY <1>3 DEF Neighbours
    <2> QED
        BY <2>2, <2>3, <2>4, <2>5 DEF TypeInv
<1>4. CASE Finish
    BY <1>4 DEF Finish, TypeInv
<1>5. CASE HostResets
    BY <1>5 DEF HostResets, searchVars, TypeInv
<1>6. CASE ResetEnds
    <2>1. due' \in BOOLEAN
        BY <1>6 DEF ResetEnds
    <2> QED
        BY <1>6, <2>1 DEF ResetEnds, searchVars, TypeInv
<1>7. CASE UNCHANGED vars
    BY <1>7 DEF vars, searchVars, TypeInv
<1> QED
    BY <1>1, <1>2, <1>3, <1>4, <1>5, <1>6, <1>7 DEF Next, Device

\* TypeOK: the search never leaves the range of OSCCAL and its own variables
\* that of a uchar, whatever it measures.
THEOREM TypeCorrect == Spec => []TypeOK
<1>1. TypeInv => TypeOK
    BY DEF TypeInv, TypeOK
<1> QED
    BY TypeInit, TypeStep, <1>1, PTL DEF Spec

-----------------------------------------------------------------------------
(* A calibration follows a reset of its own.                               *)

\* A reset that has not led to a calibration yet: it goes on, or usbPoll() has
\* only seen its beginning.
Pending == IF bus = "reset" \/ (pc = "main" /\ wasReset) THEN 1 ELSE 0
ResetInv == calibrations + Pending <= resets

\* OncePerReset: however the polls fall, no reset leads to two calibrations.
THEOREM OnceCorrect == Spec => []OncePerReset
<1>1. Init => ResetInv
    BY DEF Init, ResetInv, Pending
<1>2. TypeInv /\ ResetInv /\ [Next]_vars => ResetInv'
    <2> SUFFICES ASSUME TypeInv, ResetInv, [Next]_vars PROVE ResetInv'
        OBVIOUS
    <2>0. calibrations \in Nat /\ resets \in Nat /\ wasReset \in BOOLEAN /\ bus \in {"idle", "reset"}
        BY DEF TypeInv
    <2>1. CASE Poll
        <3>1. pc = "main" /\ UNCHANGED <<bus, resets>>
            BY <2>1 DEF Poll
        <3>2. CASE HookCalibrates(bus = "reset")
            <4>1. pc' = "search" /\ calibrations' = calibrations + 1
                BY <2>1, <3>2 DEF Poll
            <4> QED
                BY <2>0, <3>1, <3>2, <4>1 DEF HookCalibrates, ResetInv, Pending
        <3>3. CASE ~HookCalibrates(bus = "reset")
            <4>1. pc' = pc /\ calibrations' = calibrations /\ wasReset' = (bus = "reset")
                BY <2>1, <3>3 DEF Poll
            <4> QED
                BY <2>0, <3>1, <4>1 DEF ResetInv, Pending
        <3> QED
            BY <3>2, <3>3
    <2>2. CASE Search
        <3>1. pc = "search" /\ pc' # "main" /\ UNCHANGED <<bus, resets, calibrations>>
            BY <2>2 DEF Search
        <3> QED
            BY <3>1 DEF ResetInv, Pending
    <2>3. CASE Neighbours
        <3>1. pc' = pc /\ UNCHANGED <<bus, wasReset, resets, calibrations>>
            BY <2>3 DEF Neighbours
        <3> QED
            BY <3>1 DEF ResetInv, Pending
    <2>4. CASE Finish
        <3>1. pc # "main" /\ ~wasReset' /\ UNCHANGED <<bus, resets, calibrations>>
            BY <2>4 DEF Finish
        <3> QED
            BY <3>1 DEF ResetInv, Pending
    <2>5. CASE HostResets
        <3>1. /\ bus = "idle" /\ bus' = "reset" /\ resets' = resets + 1
              /\ calibrations' = calibrations
            BY <2>5 DEF HostResets
        <3> QED
            BY <2>0, <3>1 DEF ResetInv, Pending
    <2>6. CASE ResetEnds
        <3>1. /\ bus = "reset" /\ UNCHANGED <<pc, wasReset, resets, calibrations>>
            BY <2>6 DEF ResetEnds
        <3> QED
            BY <2>0, <3>1 DEF ResetInv, Pending
    <2>7. CASE UNCHANGED vars
        BY <2>7 DEF vars, ResetInv, Pending
    <2> QED
        BY <2>1, <2>2, <2>3, <2>4, <2>5, <2>6, <2>7 DEF Next, Device
<1>3. TypeInv /\ ResetInv => OncePerReset
    BY DEF TypeInv, ResetInv, Pending, OncePerReset
<1> QED
    BY TypeInit, TypeStep, <1>1, <1>2, <1>3, PTL DEF Spec

\* A reset without a calibration goes on, or usbPoll() has seen it begin.
DueInv == due => bus = "reset" \/ (pc = "main" /\ wasReset)

\* LastResetAnswered: whenever the hook has nothing left to do, the last reset has
\* had its calibration or lay within one, for any number of resets.
THEOREM AnsweredCorrect == Spec => []LastResetAnswered
<1>1. Init => DueInv
    BY DEF Init, DueInv
<1>2. TypeInv /\ DueInv /\ [Next]_vars => DueInv'
    <2> SUFFICES ASSUME TypeInv, DueInv, [Next]_vars, due'
                 PROVE  bus' = "reset" \/ (pc' = "main" /\ wasReset')
        BY DEF DueInv
    <2>1. CASE Poll
        <3>1. CASE HookCalibrates(bus = "reset")
            BY <2>1, <3>1 DEF Poll
        <3>2. CASE ~HookCalibrates(bus = "reset")
            <4>1. due /\ pc = "main" /\ bus' = bus
                BY <2>1, <3>2 DEF Poll
            <4>2. bus = "reset" \/ wasReset
                BY <4>1 DEF DueInv
            <4>3. bus = "reset"
                BY <3>2, <4>2 DEF HookCalibrates
            <4> QED
                BY <4>1, <4>3
        <3> QED
            BY <3>1, <3>2
    <2>2. CASE Search \/ Neighbours \/ Finish
        <3>1. due /\ pc # "main" /\ bus' = bus
            BY <2>2 DEF Search, Neighbours, Finish
        <3> QED
            BY <3>1 DEF DueInv
    <2>3. CASE HostResets
        BY <2>3 DEF HostResets
    <2>4. CASE ResetEnds
        BY <2>4 DEF ResetEnds
    <2>5. CASE UNCHANGED vars
        <3>1. UNCHANGED <<due, bus, pc, wasReset>>
            BY <2>5 DEF vars
        <3> QED
            BY <3>1 DEF DueInv
    <2> QED
        BY <2>1, <2>2, <2>3, <2>4, <2>5 DEF Next, Device
<1>3. DueInv => LastResetAnswered
    BY DEF DueInv, LastResetAnswered
<1> QED
    BY TypeInit, TypeStep, <1>1, <1>2, <1>3, PTL DEF Spec

-----------------------------------------------------------------------------
(* The best match.                                                         *)

LengthInv ==
    /\ length \in Oscillators
    /\ Rises > 0 => InRange(length) /\ Gradual(length)

\* F_CPU is reached after low and not after high.
Bracket(low, high) ==
    /\ low = 0 \/ length[low] < targetValue
    /\ high = Byte \/ targetValue <= length[high]

\* The binary search's invariant: OSCCAL's value is sought among the 2 * step
\* values from trialValue on.
SearchInv ==
    pc = "search" /\ ~disturbed =>
        /\ step \in Powers
        /\ trialValue + 2 * step <= Byte
        /\ Bracket(trialValue, trialValue + 2 * step)

\* The search has found where the frequency passes F_CPU ...
Passes(t) ==
    /\ t \in 1..(Byte - 3)
    /\ length[t] < targetValue /\ targetValue <= length[t + 1]

\* ... and the neighbourhood search has come to OSCCAL: it has the best of the
\* values before, or still begins with one that is worse than trialValue + 1.
Found ==
    /\ Passes(trialValue)
    /\ OSCCAL \in (trialValue - 1)..(trialValue + 2)
    /\ \A v \in (trialValue - 1)..(OSCCAL - 1) : optimumDev <= Deviation(length[v])
    /\ \/ optimumDev = Deviation(length[optimumValue])
       \/ Deviation(length[trialValue + 1]) < optimumDev

\* A crystal: the binary search ends at one end of the range.  From 0 on the
\* neighbourhood search's OSCCAL starts behind its end; from the other it does
\* not reach it.
AtOneEnd ==
    \/ trialValue = 0 /\ optimumValue = 0 /\ OSCCAL = Byte - 1
    \/ trialValue = Byte - 1

NeighboursInv ==
    pc = "neighbours" /\ ~disturbed => IF Rises > 0 THEN Found ELSE AtOneEnd

LEMMA LengthType ==
    ASSUME LengthInv
    PROVE  /\ length \in [Values -> Nat]
           /\ \A v \in Values : length[v] \in Nat
           /\ \A a, b \in Values : a <= b /\ (b < Half \/ Half <= a) => length[a] <= length[b]
           /\ Rises = 0 => \A a, b \in Values : a <= b => length[b] <= length[a]
BY Oscillator DEF LengthInv

LEMMA LengthStep == LengthInv /\ [Next]_vars => LengthInv'
<1> SUFFICES ASSUME LengthInv, [Next]_vars PROVE LengthInv'
    OBVIOUS
<1>1. length' = length
    BY DEF Next, Device, Poll, Search, Neighbours, Finish, HostResets, ResetEnds, vars
<1> QED
    BY <1>1 DEF LengthInv, InRange, Gradual

\* A round of the binary search halves the bracket, and measures one end of
\* what remains.
LEMMA RoundBracket ==
    ASSUME TypeInv, LengthInv, SearchInv, Search, ~disturbed'
    PROVE  /\ step \in Powers /\ trialValue' \in Values /\ trialValue' + step <= Byte
           /\ Bracket(trialValue', trialValue' + step)
           /\ \/ x' = length[trialValue']
              \/ trialValue' + step \in Values /\ x' = length[trialValue' + step]
<1>1. pc = "search" /\ ~disturbed /\ bus # "reset"
    BY DEF Search
<1>2. /\ step \in Powers
      /\ trialValue + 2 * step <= Byte
      /\ Bracket(trialValue, trialValue + 2 * step)
    BY <1>1 DEF SearchInv
<1>3. /\ Byte \in Nat /\ trialValue \in Nat /\ trialValue \in Values
      /\ step \in Nat /\ step >= 1 /\ targetValue \in Nat
    BY <1>2, ConstantTypes DEF Constants, TypeInv, Values, Powers
<1>4. trialValue + step \in Values
    BY <1>2, <1>3 DEF Values
<1>5. PICK trial \in Values, frame \in Nat :
          /\ trial = (trialValue + step) % Byte
          /\ bus # "reset" => frame = length[trial]
          /\ x' = frame
          /\ trialValue' = IF frame < targetValue THEN trial ELSE trialValue
    BY SearchRound
<1>6. trial = trialValue + step
    BY <1>3, <1>4, <1>5, Modulo
<1>7. length[trial] \in Nat /\ x' = length[trial]
    BY <1>1, <1>5
<1>8. CASE length[trial] < targetValue
    <2>1. trialValue' = trial
        BY <1>1, <1>5, <1>8
    <2>2. trial + step = trialValue + 2 * step
        BY <1>3, <1>6
    <2>3. Bracket(trial, trial + step)
        BY <1>2, <1>8, <2>2 DEF Bracket
    <2> QED
        BY <1>2, <1>5, <1>7, <2>1, <2>2, <2>3
<1>9. CASE ~(length[trial] < targetValue)
    <2>1. trialValue' = trialValue
        BY <1>1, <1>5, <1>9
    <2>2. targetValue <= length[trial]
        BY <1>3, <1>7, <1>9
    <2>3. Bracket(trialValue, trialValue + step)
        BY <1>2, <1>6, <2>2 DEF Bracket
    <2>4. trialValue + step <= Byte
        BY <1>2, <1>3
    <2> QED
        BY <1>2, <1>3, <1>4, <1>6, <1>7, <2>1, <2>3, <2>4
<1> QED
    BY <1>8, <1>9

\* A bracket of one value within the range of an oscillator is where it passes
\* F_CPU, and what was measured there is far away from the optimum.
LEMMA BracketPasses ==
    ASSUME LengthInv, Rises > 0, NEW t \in Values, Bracket(t, t + 1)
    PROVE  /\ Passes(t)
           /\ Deviation(length[t + 1]) < length[t]
           /\ Deviation(length[t + 1]) < length[t + 1]
<1>1. /\ Byte \in Nat /\ Byte >= 8 /\ Half \in Nat /\ Byte = 2 * Half /\ targetValue \in Nat
      /\ t \in Nat /\ t <= Byte - 1
    BY ConstantTypes DEF Constants, Values
<1>2. length[1] < targetValue /\ targetValue <= length[Byte - 2]
    BY DEF LengthInv, InRange
<1>3. 1 \in Values /\ Byte - 2 \in Values /\ Byte - 1 \in Values
    BY <1>1 DEF Values
<1>4. \A v \in Values : length[v] \in Nat
    BY LengthType
<1>5. targetValue <= length[Byte - 1]
    <2>1. length[Byte - 2] <= length[Byte - 1]
        BY <1>1, <1>3, LengthType
    <2> QED
        BY <1>1, <1>2, <1>3, <1>4, <2>1
<1>6. t # Byte - 1 /\ t # Byte - 2
    BY <1>1, <1>2, <1>3, <1>4, <1>5 DEF Bracket
<1>7. t + 1 \in Values /\ t + 1 # Byte /\ t \in 0..(Byte - 2)
    BY <1>1, <1>6 DEF Values
<1>8. targetValue <= length[t + 1]
    BY <1>7 DEF Bracket
<1>9. t # 0
    <2>1. t = 0 => t + 1 = 1
        OBVIOUS
    <2> QED
        BY <1>1, <1>2, <1>3, <1>4, <1>8, <2>1
<1>10. length[t] < targetValue
    BY <1>9 DEF Bracket
<1>11. t \in 1..(Byte - 3)
    BY <1>1, <1>6, <1>9
<1>12. length[t + 1] < length[t] + targetValue
    BY <1>7 DEF LengthInv, Gradual
<1>13. PICK f \in Nat, g \in Nat : f = length[t] /\ g = length[t + 1]
    BY <1>4, <1>7
<1>14. f < targetValue /\ targetValue <= g /\ g < f + targetValue
    BY <1>8, <1>10, <1>12, <1>13
<1>15. Deviation(g) = g - targetValue
    BY <1>1, <1>14 DEF Deviation
<1>16. Deviation(g) < f /\ Deviation(g) < g
    BY <1>1, <1>14, <1>15
<1> QED
    BY <1>8, <1>10, <1>11, <1>13, <1>16 DEF Passes

LEMMA BracketAtEnd ==
    ASSUME LengthInv, Rises = 0, NEW t \in Values, Bracket(t, t + 1)
    PROVE  t = 0 \/ t = Byte - 1
<1> SUFFICES ASSUME t # 0, t # Byte - 1 PROVE FALSE
    OBVIOUS
<1>1. Byte \in Nat /\ targetValue \in Nat /\ t \in Nat /\ t + 1 \in Values /\ t + 1 # Byte
    BY ConstantTypes DEF Constants, Values
<1>2. length[t] < targetValue /\ targetValue <= length[t + 1]
    BY <1>1 DEF Bracket
<1>3. length[t + 1] <= length[t] /\ length[t] \in Nat /\ length[t + 1] \in Nat
    BY <1>1, LengthType
<1> QED
    BY <1>1, <1>2, <1>3

LEMMA SearchStep ==
    TypeInv /\ LengthInv /\ SearchInv /\ [Next]_vars => SearchInv'
<1> SUFFICES ASSUME TypeInv, LengthInv, SearchInv, [Next]_vars, pc' = "search", ~disturbed'
             PROVE  /\ step' \in Powers
                    /\ trialValue' + 2 * step' <= Byte
                    /\ Bracket(trialValue, trialValue + 2 * step)'
    BY DEF SearchInv
<1>0. length' = length
    BY DEF Next, Device, Poll, Search, Neighbours, Finish, HostResets, ResetEnds, vars
<1>1. CASE Poll
    <2>1. CASE HookCalibrates(bus = "reset")
        <3>1. step' = Half /\ trialValue' = 0
            BY <1>1, <2>1 DEF Poll
        <3>2. Half \in Powers /\ 0 + 2 * Half = Byte /\ Byte \in Nat
            BY ConstantTypes DEF Constants
        <3> QED
            BY <3>1, <3>2 DEF Bracket
    <2>2. CASE ~HookCalibrates(bus = "reset")
        BY <1>1, <2>2 DEF Poll
    <2> QED
        BY <2>1, <2>2
<1>2. CASE Search
    <2>1. /\ step \in Powers /\ trialValue' \in Values /\ trialValue' + step <= Byte
          /\ Bracket(trialValue', trialValue' + step)
        BY <1>2, RoundBracket
    <2>2. step' = step \div 2 /\ step' > 0
        BY <1>2 DEF Search, NextStep
    <2>3. PICK half \in Powers : step = 2 * half /\ step \div 2 = half
        BY <2>1, <2>2, SMT DEF Powers
    <2>4. step' = half
        BY <2>2, <2>3
    <2> QED
        BY <1>0, <2>1, <2>3, <2>4 DEF Bracket
<1>3. CASE Neighbours \/ Finish
    BY <1>3 DEF Neighbours, Finish
<1>4. CASE HostResets \/ ResetEnds \/ UNCHANGED vars
    <2>1. UNCHANGED <<pc, step, trialValue, disturbed>>
        BY <1>4 DEF HostResets, ResetEnds, vars, searchVars
    <2> QED
        BY <1>0, <2>1 DEF SearchInv, Bracket
<1> QED
    BY <1>1, <1>2, <1>3, <1>4 DEF Next, Device

\* The neighbourhood search begins.
LEMMA NeighboursBegin ==
    ASSUME TypeInv, LengthInv, SearchInv, Search, pc' = "neighbours", ~disturbed'
    PROVE  IF Rises > 0 THEN Found' ELSE AtOneEnd'
<1>1. /\ step \in Powers /\ trialValue' \in Values
      /\ Bracket(trialValue', trialValue' + step)
      /\ \/ x' = length[trialValue']
         \/ trialValue' + step \in Values /\ x' = length[trialValue' + step]
    BY RoundBracket
<1>2. /\ ~(NextStep > 0) /\ length' = length
      /\ optimumValue' = trialValue' /\ optimumDev' = x' /\ OSCCAL' = (trialValue' - 1) % Byte
    BY DEF Search
<1>3. step = 1
    BY <1>1, <1>2, SMT DEF NextStep, Powers
<1>4. PICK t \in Values : t = trialValue'
    BY <1>1
<1>5. Bracket(t, t + 1) /\ (x' = length[t] \/ x' = length[t + 1])
    BY <1>1, <1>3, <1>4
<1>6. CASE Rises > 0
    <2>1. /\ Passes(t)
          /\ Deviation(length[t + 1]) < length[t]
          /\ Deviation(length[t + 1]) < length[t + 1]
        BY <1>5, <1>6, BracketPasses
    <2>2. Byte \in Nat /\ t \in Nat /\ t - 1 \in Values /\ t - 1 \in Int
        BY <2>1, ConstantTypes DEF Constants, Passes, Values
    <2>3. OSCCAL' = t - 1
        BY <1>2, <1>4, <2>2, Modulo
    <2>4. OSCCAL' \in (t - 1)..(t + 2) /\ (t - 1)..(OSCCAL' - 1) = {}
        BY <2>2, <2>3
    <2>5. Deviation(length[t + 1]) < optimumDev'
        BY <1>2, <1>5, <2>1
    <2>6. Passes(trialValue)'
        BY <1>2, <1>4, <2>1 DEF Passes
    <2> QED
        BY <1>2, <1>4, <1>6, <2>4, <2>5, <2>6 DEF Found, Deviation
<1>7. CASE ~(Rises > 0)
    <2>1. Rises = 0
        BY <1>7, ConstantTypes DEF Constants
    <2>2. t = 0 \/ t = Byte - 1
        BY <1>5, <2>1, BracketAtEnd
    <2>3. (0 - 1) % Byte = Byte - 1
        BY ConstantTypes, SMT DEF Constants, Powers
    <2> QED
        BY <1>2, <1>4, <1>7, <2>2, <2>3 DEF AtOneEnd
<1> QED
    BY <1>6, <1>7

\* The neighbourhood search goes on.
LEMMA NeighboursGoOn ==
    ASSUME TypeInv, NeighboursInv, Neighbours, ~disturbed'
    PROVE  IF Rises > 0 THEN Found' ELSE AtOneEnd'
<1>1. /\ pc = "neighbours" /\ ~disturbed /\ bus # "reset" /\ OSCCAL <= trialValue + 1
      /\ OSCCAL' = (OSCCAL + 1) % Byte
      /\ UNCHANGED <<length, trialValue>>
    BY DEF Neighbours, Last, OSCCALNext
<1>2. PICK frame \in Nat :
          /\ bus # "reset" => frame = length[OSCCAL]
          /\ x' = Deviation(frame)
          /\ optimumValue' = Optimum(x')
          /\ optimumDev' = IF x' < optimumDev THEN x' ELSE optimumDev
    BY NeighbourRound
<1>3. /\ Byte \in Nat /\ Byte >= 8 /\ OSCCAL \in Nat /\ OSCCAL <= Byte - 1
      /\ trialValue \in Nat
    BY ConstantTypes DEF Constants, TypeInv, Values
<1>4. CASE Rises > 0
    <2>0. Found
        BY <1>1, <1>4 DEF NeighboursInv
    <2>1. trialValue \in 1..(Byte - 3) /\ OSCCAL >= trialValue - 1
        BY <1>3, <2>0 DEF Found, Passes
    <2>2. OSCCAL + 1 \in Values
        BY <1>1, <1>3, <2>1 DEF Values
    <2>3. OSCCAL' = OSCCAL + 1
        BY <1>1, <1>3, <2>2, Modulo
    <2>4. PICK d \in Nat : d = Deviation(length[OSCCAL])
        BY DeviationType DEF TypeInv
    <2>5. x' = d /\ optimumDev' = (IF d < optimumDev THEN d ELSE optimumDev)
        BY <1>1, <1>2, <2>4
    <2>6. optimumValue' = (IF d < optimumDev THEN OSCCAL ELSE optimumValue)
        BY <1>2, <2>5 DEF Optimum
    <2>7. optimumDev \in Nat /\ optimumDev' \in Nat /\ optimumDev' <= d /\ optimumDev' <= optimumDev
        BY <2>4, <2>5 DEF TypeInv
    <2>8. ASSUME NEW v \in (trialValue - 1)..OSCCAL
          PROVE  optimumDev' <= Deviation(length[v])
        <3>1. CASE v = OSCCAL
            BY <2>4, <2>7, <3>1
        <3>2. CASE v # OSCCAL
            <4>1. v \in (trialValue - 1)..(OSCCAL - 1) /\ v \in Values
                BY <1>3, <2>1, <2>8, <3>2 DEF Values
            <4>2. optimumDev <= Deviation(length[v])
                BY <2>0, <4>1 DEF Found
            <4>3. PICK e \in Nat : e = Deviation(length[v])
                BY <4>1, DeviationType DEF TypeInv
            <4> QED
                BY <2>7, <4>2, <4>3
        <3> QED
            BY <3>1, <3>2
    <2>9. \/ optimumDev' = Deviation(length[optimumValue'])
          \/ Deviation(length[trialValue + 1]) < optimumDev'
        <3>1. CASE d < optimumDev
            BY <2>4, <2>5, <2>6, <3>1
        <3>2. CASE ~(d < optimumDev)
            BY <2>0, <2>5, <2>6, <3>2 DEF Found
        <3> QED
            BY <3>1, <3>2
    <2>10. OSCCAL' \in (trialValue - 1)..(trialValue + 2) /\ OSCCAL' - 1 = OSCCAL
        BY <1>1, <1>3, <2>1, <2>3
    <2>11. Passes(trialValue)'
        BY <1>1, <2>0 DEF Found, Passes
    <2> QED
        BY <1>1, <1>4, <2>8, <2>9, <2>10, <2>11 DEF Found, Deviation
<1>5. CASE ~(Rises > 0)
    <2>1. AtOneEnd
        BY <1>1, <1>5 DEF NeighboursInv
    <2>2. CASE trialValue = Byte - 1
        BY <1>1, <1>5, <2>2 DEF AtOneEnd
    <2>3. CASE trialValue = 0 /\ OSCCAL = Byte - 1
        BY <1>1, <1>3, <2>3
    <2> QED
        BY <2>1, <2>2, <2>3 DEF AtOneEnd
<1> QED
    BY <1>4, <1>5

LEMMA NeighboursStep ==
    TypeInv /\ LengthInv /\ SearchInv /\ NeighboursInv /\ [Next]_vars => NeighboursInv'
<1> SUFFICES ASSUME TypeInv, LengthInv, SearchInv, NeighboursInv, [Next]_vars,
                    pc' = "neighbours", ~disturbed'
             PROVE  IF Rises > 0 THEN Found' ELSE AtOneEnd'
    BY DEF NeighboursInv
<1>1. CASE Poll \/ Finish
    BY <1>1 DEF Poll, Finish
<1>2. CASE Search
    BY <1>2, NeighboursBegin
<1>3. CASE Neighbours
    BY <1>3, NeighboursGoOn
<1>4. CASE HostResets \/ ResetEnds \/ UNCHANGED vars
    <2>1. UNCHANGED <<length, pc, searchVars, disturbed>>
        BY <1>4 DEF HostResets, ResetEnds, vars
    <2>2. IF Rises > 0 THEN Found ELSE AtOneEnd
        BY <2>1 DEF NeighboursInv
    <2> QED
        BY <2>1, <2>2 DEF searchVars, Found, Passes, AtOneEnd, Deviation
<1> QED
    BY <1>1, <1>2, <1>3, <1>4 DEF Next, Device

Continuous == \A u \in 0..(Byte - 2) : length[u] <= length[u + 1]

\* What BestMatch says of a value.
Best(value, t) ==
    \A v \in Values :
        \/ Deviation(length[value]) <= Deviation(length[v])
        \/ v \notin (t - 1)..(t + 1)
           /\ \E u \in 0..(Byte - 2) : length[u + 1] < length[u]

\* An oscillator that does not fall back in the middle does not fall at all.
LEMMA Ascending ==
    ASSUME LengthInv, Continuous, NEW a \in Values, NEW b \in Values, a <= b
    PROVE  length[a] <= length[b]
<1>1. CASE b < Half \/ Half <= a
    BY <1>1, LengthType
<1>2. CASE a < Half /\ Half <= b
    <2>1. /\ Half \in Values /\ Half - 1 \in Values /\ Half - 1 \in 0..(Byte - 2)
          /\ a <= Half - 1 /\ Half - 1 < Half /\ (Half - 1) + 1 = Half
        BY <1>2, ConstantTypes DEF Constants, Values
    <2>2. length[a] <= length[Half - 1] /\ length[Half] <= length[b]
        BY <1>2, <2>1, LengthType
    <2>3. length[Half - 1] <= length[Half]
        BY <2>1 DEF Continuous
    <2>4. /\ length[a] \in Nat /\ length[Half - 1] \in Nat
          /\ length[Half] \in Nat /\ length[b] \in Nat
        BY <2>1, LengthType
    <2> QED
        BY <2>2, <2>3, <2>4
<1>3. a \in Int /\ b \in Int /\ Half \in Int
    BY ConstantTypes DEF Constants, Values
<1> QED
    BY <1>1, <1>2, <1>3

\* Where it passes F_CPU, the better of the two values is the best of all.
LEMMA PassBest ==
    ASSUME LengthInv, NEW t, Passes(t), NEW value \in Values,
           \A v \in (t - 1)..(t + 1) : Deviation(length[value]) <= Deviation(length[v])
    PROVE  Best(value, t)
<1>1. /\ Byte \in Nat /\ targetValue \in Nat /\ t \in Nat
      /\ t \in Values /\ t + 1 \in Values /\ t \in (t - 1)..(t + 1) /\ t + 1 \in (t - 1)..(t + 1)
    BY ConstantTypes DEF Constants, Passes, Values
<1>2. \A v \in Values : v \in Int /\ length[v] \in Nat
    BY LengthType DEF Values
<1>3. ASSUME NEW v \in Values, v \notin (t - 1)..(t + 1), Continuous
      PROVE  Deviation(length[value]) <= Deviation(length[v])
    <2>1. PICK d \in Nat, e \in Nat, lo \in Nat, hi \in Nat, f \in Nat :
              /\ d = Deviation(length[value]) /\ e = Deviation(length[v])
              /\ lo = length[t] /\ hi = length[t + 1] /\ f = length[v]
        BY <1>1, <1>2, DeviationType
    <2>2. lo < targetValue /\ targetValue <= hi
        BY <2>1 DEF Passes
    <2>3. d <= Deviation(lo) /\ d <= Deviation(hi)
        BY <1>1, <2>1
    <2>4. Deviation(lo) = targetValue - lo /\ Deviation(hi) = hi - targetValue
        BY <1>1, <2>2 DEF Deviation
    <2>5. e = IF f < targetValue THEN targetValue - f ELSE f - targetValue
        BY <2>1 DEF Deviation
    <2>6. CASE v < t
        <3>1. f <= lo
            BY <1>1, <1>3, <2>1, <2>6, Ascending
        <3> QED
            BY <1>1, <2>1, <2>2, <2>3, <2>4, <2>5, <3>1
    <2>7. CASE v > t + 1
        <3>1. hi <= f
            BY <1>1, <1>2, <1>3, <2>1, <2>7, Ascending
        <3> QED
            BY <1>1, <2>1, <2>2, <2>3, <2>4, <2>5, <3>1
    <2> QED
        BY <1>1, <1>2, <1>3, <2>6, <2>7
<1>4. ~Continuous => \E u \in 0..(Byte - 2) : length[u + 1] < length[u]
    <2> SUFFICES ASSUME NEW u \in 0..(Byte - 2), ~(length[u] <= length[u + 1])
                 PROVE  length[u + 1] < length[u]
        BY DEF Continuous
    <2>1. u \in Values /\ u + 1 \in Values
        BY <1>1 DEF Values
    <2> QED
        BY <1>2, <2>1
<1> QED
    BY <1>3, <1>4 DEF Best

\* A crystal: no value is better than any other, up to where it falls back.
LEMMA CrystalBest ==
    ASSUME LengthInv, Rises = 0
    PROVE  Best(0, 0)
<1>1. /\ Byte \in Nat /\ Byte >= 8 /\ Half \in Nat /\ Half >= 4 /\ Byte = 2 * Half
      /\ 0 \in Values /\ Half \in Values /\ Half - 1 \in Values /\ Half - 1 \in 0..(Byte - 2)
      /\ (Half - 1) + 1 = Half
    BY ConstantTypes DEF Constants, Values
<1>2. \A v \in Values : v \in Nat /\ length[v] \in Nat
    BY LengthType DEF Values
<1>3. \A a, b \in Values : a <= b => length[b] <= length[a]
    BY LengthType
<1>4. \A a, b \in Values : a <= b /\ (b < Half \/ Half <= a) => length[a] = length[b]
    BY <1>2, <1>3, LengthType
<1> SUFFICES ASSUME NEW v \in Values
             PROVE  \/ Deviation(length[0]) <= Deviation(length[v])
                    \/ v \notin (0 - 1)..(0 + 1)
                       /\ \E u \in 0..(Byte - 2) : length[u + 1] < length[u]
    BY DEF Best
<1>5. Deviation(length[0]) \in Nat
    BY <1>1, <1>2, DeviationType
<1>6. CASE length[v] = length[0]
    BY <1>5, <1>6
<1>7. CASE length[v] # length[0]
    <2>1. v \in Nat /\ Half <= v
        BY <1>1, <1>2, <1>4, <1>7
    <2>2. length[v] = length[Half] /\ length[0] = length[Half - 1]
        BY <1>1, <1>2, <1>4, <2>1
    <2>3. length[Half] < length[Half - 1]
        <3>1. length[Half] <= length[Half - 1]
            BY <1>1, <1>3
        <3> QED
            BY <1>1, <1>2, <1>7, <2>2, <3>1
    <2>4. \E u \in 0..(Byte - 2) : length[u + 1] < length[u]
        BY <1>1, <2>3
    <2>5. v \notin (0 - 1)..(0 + 1)
        BY <1>1, <2>1
    <2> QED
        BY <2>4, <2>5
<1> QED
    BY <1>6, <1>7

\* The calibration returns with the best match.
LEMMA FinishBest ==
    ASSUME TypeInv, LengthInv, NeighboursInv, Finish, ~disturbed
    PROVE  Best(optimumValue, trialValue)
<1>1. pc = "neighbours" /\ OSCCAL > trialValue + 1
    BY DEF Finish, Last
<1>2. /\ Byte \in Nat /\ OSCCAL \in Nat /\ OSCCAL <= Byte - 1 /\ Rises \in Nat
      /\ trialValue \in Values /\ trialValue \in Nat /\ optimumValue \in Values
    BY ConstantTypes DEF Constants, TypeInv, Values
<1>3. CASE Rises > 0
    <2>1. Found
        BY <1>1, <1>3 DEF NeighboursInv
    <2>2. OSCCAL = trialValue + 2
        BY <1>1, <1>2, <2>1 DEF Found
    <2>3. (trialValue - 1)..(OSCCAL - 1) = (trialValue - 1)..(trialValue + 1)
        BY <1>2, <2>2
    <2>4. \A v \in (trialValue - 1)..(trialValue + 1) : optimumDev <= Deviation(length[v])
        BY <2>1, <2>3 DEF Found
    <2>5. optimumDev = Deviation(length[optimumValue])
        <3>1. trialValue + 1 \in Values /\ trialValue + 1 \in (trialValue - 1)..(trialValue + 1)
            BY <1>2, <2>1 DEF Found, Passes, Values
        <3>2. PICK d \in Nat : d = Deviation(length[trialValue + 1])
            BY <3>1, LengthType, DeviationType
        <3>3. optimumDev <= d /\ optimumDev \in Nat
            BY <2>4, <3>1, <3>2 DEF TypeInv
        <3> QED
            BY <2>1, <3>2, <3>3 DEF Found
    <2>6. Passes(trialValue)
        BY <2>1 DEF Found
    <2> QED
        BY <1>2, <2>4, <2>5, <2>6, PassBest
<1>4. CASE Rises = 0
    <2>1. AtOneEnd
        BY <1>1, <1>4 DEF NeighboursInv
    <2>2. trialValue = 0 /\ optimumValue = 0
        BY <1>1, <1>2, <2>1 DEF AtOneEnd
    <2> QED
        BY <1>4, <2>2, CrystalBest
<1> QED
    BY <1>2, <1>3, <1>4

BestInv == pc = "main" /\ calibrations > 0 /\ ~disturbed => Best(OSCCAL, trialValue)

\* BestMatch: a calibration that no reset disturbs ends at the best of the
\* values around the search's result, and of all if the oscillator does not
\* fall back; for every oscillator, target and width of OSCCAL.
THEOREM BestCorrect == Spec => []BestMatch
<1> DEFINE Inv == LengthInv /\ SearchInv /\ NeighboursInv /\ BestInv
<1>1. Init => Inv
    BY DEF Init, LengthInv, SearchInv, NeighboursInv, BestInv
<1>2. TypeInv /\ Inv /\ [Next]_vars => BestInv'
    <2> SUFFICES ASSUME TypeInv, Inv, [Next]_vars, pc' = "main", calibrations' > 0, ~disturbed'
                 PROVE  Best(OSCCAL, trialValue)'
        BY DEF BestInv
    <2>0. length' = length
        BY DEF Next, Device, Poll, Search, Neighbours, Finish, HostResets, ResetEnds, vars
    <2>1. CASE Finish
        <3>1. OSCCAL' = optimumValue /\ trialValue' = trialValue /\ ~disturbed
            BY <2>1 DEF Finish
        <3> QED
            BY <2>0, <2>1, <3>1, FinishBest DEF Best, Deviation
    <2>2. CASE Search \/ Neighbours
        BY <2>2 DEF Search, Neighbours
    <2>3. CASE Poll \/ HostResets \/ ResetEnds \/ UNCHANGED vars
        <3>1. UNCHANGED <<pc, OSCCAL, trialValue, calibrations, disturbed>>
            BY <2>3 DEF Poll, HostResets, ResetEnds, vars, searchVars
        <3> QED
            BY <2>0, <3>1 DEF BestInv, Best, Deviation
    <2> QED
        BY <2>1, <2>2, <2>3 DEF Next, Device
<1>3. TypeInv /\ Inv /\ [Next]_vars => Inv'
    BY <1>2, LengthStep, SearchStep, NeighboursStep
<1> HIDE DEF Inv
<1>4. Inv => BestMatch
    BY DEF Inv, BestInv, Best, BestMatch
<1> QED
    BY TypeInit, TypeStep, <1>1, <1>3, <1>4, PTL DEF Spec

-----------------------------------------------------------------------------
(* Progress.                                                               *)

\* While the binary search goes on there is a step to be made.
StepInv == pc = "search" => step > 0

LEMMA StepStep == TypeInv /\ StepInv /\ [Next]_vars => StepInv'
<1> SUFFICES ASSUME TypeInv, StepInv, [Next]_vars, pc' = "search"
             PROVE  step' > 0
    BY DEF StepInv
<1>1. CASE Poll
    <2>1. CASE HookCalibrates(bus = "reset")
        <3>1. step' = Half
            BY <1>1, <2>1 DEF Poll
        <3>2. Half > 0
            BY ConstantTypes DEF Constants
        <3> QED
            BY <3>1, <3>2
    <2>2. CASE ~HookCalibrates(bus = "reset")
        BY <1>1, <2>2 DEF Poll
    <2> QED
        BY <2>1, <2>2
<1>2. CASE Search
    BY <1>2 DEF Search
<1>3. CASE Neighbours \/ Finish
    BY <1>3 DEF Neighbours, Finish
<1>4. CASE HostResets \/ ResetEnds \/ UNCHANGED vars
    <2>1. UNCHANGED <<pc, step>>
        BY <1>4 DEF HostResets, ResetEnds, vars, searchVars
    <2> QED
        BY <2>1 DEF StepInv
<1> QED
    BY <1>1, <1>2, <1>3, <1>4 DEF Next, Device

\* A round of the binary search.
LEMMA SearchAdvances ==
    ASSUME TypeInv, StepInv, Search
    PROVE  StepsLeft' < StepsLeft
<1>1. PICK n \in 1..Half : n = step
    BY ConstantTypes DEF Search, StepInv, TypeInv, Constants
<1>2. pc = "search" /\ step' = n \div 2 /\ n \in Nat /\ n > 0
    BY <1>1, ConstantTypes DEF Search, NextStep, Constants
<1>3. StepsLeft = n + 4
    BY <1>1, <1>2 DEF StepsLeft
<1>4. CASE NextStep > 0
    <2>1. pc' = "search"
        BY <1>2, <1>4 DEF Search
    <2>2. StepsLeft' = n \div 2 + 4
        BY <1>2, <2>1 DEF StepsLeft
    <2> QED
        BY <1>2, <1>3, <2>2
<1>5. CASE ~(NextStep > 0)
    <2>1. pc' = "neighbours" /\ OSCCAL' = (trialValue' - 1) % Byte
        BY <1>5 DEF Search
    <2>2. TypeInv'
        BY TypeStep DEF Next, Device
    <2>3. PICK t \in Values, o \in Values : t = trialValue' /\ o = OSCCAL'
        BY <2>2 DEF TypeInv
    <2>4. Byte \in Nat /\ Byte >= 8 /\ t \in Nat /\ t <= Byte - 1 /\ o \in Nat
        BY <2>3, ConstantTypes DEF Constants, Values
    <2>5. StepsLeft' = IF o > t + 1 THEN 1 ELSE t + 3 - o
        BY <2>1, <2>3 DEF StepsLeft, Last
    <2>6. CASE t = 0
        <3>1. (0 - 1) % Byte = Byte - 1
            BY ConstantTypes, SMT DEF Constants, Powers
        <3>2. o = Byte - 1
            BY <2>1, <2>3, <2>6, <3>1
        <3> QED
            BY <1>2, <1>3, <2>4, <2>5, <2>6, <3>2
    <2>7. CASE t # 0
        <3>1. t - 1 \in Values /\ t - 1 \in Int
            BY <2>4, <2>7 DEF Values
        <3>2. o = t - 1
            BY <2>1, <2>3, <3>1, Modulo
        <3> QED
            BY <1>2, <1>3, <2>4, <2>5, <3>2
    <2> QED
        BY <2>6, <2>7
<1> QED
    BY <1>4, <1>5

\* A round of the neighbourhood search, below 254.
LEMMA NeighboursAdvance ==
    ASSUME TypeInv, Neighbours, trialValue < Byte - 2
    PROVE  StepsLeft' < StepsLeft
<1>1. PICK t \in Values, o \in Values : t = trialValue /\ o = OSCCAL
    BY DEF TypeInv
<1>2. Byte \in Nat /\ t \in Nat /\ t < Byte - 2 /\ o \in Nat /\ o <= t + 1
    BY <1>1, ConstantTypes DEF Constants, Values, Neighbours, Last
<1>3. o + 1 \in Values /\ o + 1 \in Int
    BY <1>2 DEF Values
<1>4. OSCCAL' = o + 1
    BY <1>1, <1>3, Modulo DEF Neighbours, OSCCALNext
<1>5. pc = "neighbours" /\ pc' = "neighbours" /\ trialValue' = t
    BY <1>1 DEF Neighbours
<1>6. StepsLeft = IF o > t + 1 THEN 1 ELSE t + 3 - o
    BY <1>1, <1>5 DEF StepsLeft, Last
<1>7. StepsLeft' = IF o + 1 > t + 1 THEN 1 ELSE t + 3 - (o + 1)
    BY <1>4, <1>5 DEF StepsLeft, Last
<1> QED
    BY <1>2, <1>6, <1>7

\* An RC oscillator comes to 254 only if a reset has disturbed the search.
LEMMA BelowEnd ==
    ASSUME TypeInv, NeighboursInv, pc = "neighbours", trialValue >= Byte - 2
    PROVE  disturbed \/ Rises = 0
<1>1. SUFFICES ASSUME ~disturbed, Rises # 0 PROVE FALSE
    OBVIOUS
<1>2. Rises > 0 /\ Byte \in Nat
    BY <1>1, ConstantTypes DEF Constants
<1>3. trialValue \in 1..(Byte - 3)
    BY <1>1, <1>2 DEF NeighboursInv, Found, Passes
<1> QED
    BY <1>2, <1>3

CalibrationAdvance ==
    pc # "main" /\ bus' = bus =>
        \/ StepsLeft' < StepsLeft
        \/ trialValue' >= Byte - 2 /\ (disturbed' \/ Rises = 0)

\* CalibrationAdvances: every step of a calibration brings it nearer to its end,
\* except at 254 and 255, which no undisturbed search for an RC oscillator
\* reaches; for every width, oscillator and target.
THEOREM AdvancesCorrect == Spec => CalibrationAdvances
<1> DEFINE Inv == LengthInv /\ SearchInv /\ NeighboursInv /\ StepInv
<1>1. Init => Inv
    BY DEF Init, LengthInv, SearchInv, NeighboursInv, StepInv
<1>2. TypeInv /\ Inv /\ [Next]_vars => Inv'
    BY LengthStep, SearchStep, NeighboursStep, StepStep
<1>3. TypeInv /\ Inv /\ [Next]_vars => [CalibrationAdvance]_vars
    <2> SUFFICES ASSUME TypeInv, Inv, Next, pc # "main", bus' = bus
                 PROVE  \/ StepsLeft' < StepsLeft
                        \/ trialValue' >= Byte - 2 /\ (disturbed' \/ Rises = 0)
        BY DEF CalibrationAdvance
    <2>1. CASE Poll
        BY <2>1 DEF Poll
    <2>2. CASE Search
        BY <2>2, SearchAdvances
    <2>3. CASE Neighbours
        <3>1. CASE trialValue < Byte - 2
            BY <2>3, <3>1, NeighboursAdvance
        <3>2. CASE ~(trialValue < Byte - 2)
            <4>1. trialValue >= Byte - 2
                BY <3>2, ConstantTypes DEF Constants, TypeInv, Values
            <4>2. pc = "neighbours" /\ trialValue' = trialValue
                BY <2>3 DEF Neighbours
            <4>3. disturbed \/ Rises = 0
                BY <4>1, <4>2, BelowEnd
            <4>4. disturbed => disturbed'
                BY <2>3 DEF Neighbours
            <4> QED
                BY <4>1, <4>2, <4>3, <4>4
        <3> QED
            BY <3>1, <3>2
    <2>4. CASE Finish
        <3>1. pc = "neighbours" /\ OSCCAL > Last /\ pc' = "main"
            BY <2>4 DEF Finish
        <3>2. StepsLeft = 1 /\ StepsLeft' = 0
            BY <3>1 DEF StepsLeft
        <3> QED
            BY <3>2
    <2>5. CASE HostResets \/ ResetEnds
        BY <2>5 DEF HostResets, ResetEnds
    <2> QED
        BY <2>1, <2>2, <2>3, <2>4, <2>5 DEF Next, Device
<1> HIDE DEF Inv
<1>4. Spec => [][CalibrationAdvance]_vars
    BY TypeInit, TypeStep, <1>1, <1>2, <1>3, PTL DEF Spec
<1> QED
    BY <1>4 DEF CalibrationAdvances, CalibrationAdvance
=============================================================================
