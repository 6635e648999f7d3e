----------------------------- MODULE DioFilter -----------------------------
(***************************************************************************)
(* The low-pass filter of a band of DIO: the spectrum of the signal is     *)
(* multiplied by that of a window, and the product transformed back into   *)
(* the buffer of the window, where the delay of the filter is removed.     *)
(* One step is one loop or one transform of rawEventByDio().               *)
(*                                                                         *)
(* Samples are not modelled, only which of them an element is made of.     *)
(***************************************************************************)
EXTENDS Integers

CONSTANTS
    FilterRates,    \* fs, of the wav; multiples of 5
    FilterLengths,  \* xLen
    FilterBands     \* numbers of boundaryF0List

ASSUME FilterAssumption ==
    /\ FilterRates \subseteq {filterFs \in Nat : filterFs >= 4000 /\ filterFs % 5 = 0}
    /\ FilterLengths \subseteq Nat \ {0} /\ FilterBands \subseteq 0..6

VARIABLES
    filterFs, filterXLen, band,
    filterFftl, filterHalfAverageLength,
    equivalentFIR,  \* of each element, what it holds
    eSpec,          \* the bins: "signal * window", or "garbage"
    filterPc

filterVars == <<filterFs, filterXLen, band, filterFftl, filterHalfAverageLength,
                equivalentFIR, eSpec, filterPc>>

filterDecimationRatio == filterFs \div 4000
filterYLen == 1 + filterXLen \div filterDecimationRatio

\* The band begins at 80 * 2^(band / 2) Hz, and half of its period, in
\* samples of the decimated signal, is rounded.
HalfAverageLength(n) ==
    LET Square(m) == m * m
        squared == Square(filterFs \div 5) \div (256 * Square(filterDecimationRatio))
    IN  /\ n > 0 => squared >= Square(2 * n - 1) * 2 ^ band
        /\ squared < Square(2 * n + 1) * 2 ^ band
indexBias == 2 * filterHalfAverageLength

\* A buffer for the signal alone.
AboveSignal(p) == filterYLen < p /\ p <= 2 * filterYLen

\* The power of two above the signal and the window of the lowest band.
Above(p) ==
    LET longest == filterYLen + 4 * (1 + filterFs \div 160)
    IN  longest < p /\ p <= 2 * longest

Zero == <<"zero", 0>>
Garbage == <<"garbage", 0>>
Window(k) == <<"window", k>>
Filtered(n) == <<"filtered", n>>
Elements == 0..(filterFftl - 1)

FilterInit ==
    /\ filterFs \in FilterRates /\ filterXLen \in FilterLengths /\ band \in FilterBands
    /\ \E p \in {2 ^ k : k \in 1..30} : Above(p) /\ filterFftl = p
    /\ \E n \in 0..50 : HalfAverageLength(n) /\ filterHalfAverageLength = n
    /\ equivalentFIR = [n \in Elements |-> Garbage]
    /\ eSpec = [n \in Elements |-> "garbage"]
    /\ filterPc = "window"

\* The buffer is cleared from element 2 * halfAverageLength on, and the window
\* written over twice as many elements.
MakeWindow ==
    /\ filterPc = "window"
    /\ equivalentFIR' = [n \in Elements |->
                           IF n < 4 * filterHalfAverageLength THEN Window(n)
                           ELSE IF n >= 2 * filterHalfAverageLength THEN Zero
                           ELSE equivalentFIR[n]]
    /\ filterPc' = "multiply"
    /\ UNCHANGED <<filterFs, filterXLen, band, filterFftl,
                   filterHalfAverageLength, eSpec>>

\* The window, and zeros after it.
Padded ==
    \A n \in Elements :
        equivalentFIR[n] = IF n < 4 * filterHalfAverageLength THEN Window(n) ELSE Zero

\* Both transforms wrote the bins up to fftl / 2; all are multiplied.
Multiply ==
    /\ filterPc = "multiply"
    /\ LET padded == Padded
       IN  eSpec' = [n \in Elements |-> IF n <= filterFftl \div 2 /\ padded
                                        THEN "signal * window" ELSE "garbage"]
    /\ filterPc' = "inverse"
    /\ UNCHANGED <<filterFs, filterXLen, band, filterFftl,
                   filterHalfAverageLength, equivalentFIR>>

\* The bins up to fftl / 2 are read.
InverseTransform ==
    /\ filterPc = "inverse"
    /\ LET product == \A k \in 0..(filterFftl \div 2) : eSpec[k] = "signal * window"
       IN  equivalentFIR' = [n \in Elements |->
                               IF product THEN Filtered(n) ELSE Garbage]
    /\ filterPc' = "shift"
    /\ UNCHANGED <<filterFs, filterXLen, band, filterFftl,
                   filterHalfAverageLength, eSpec>>

At(n) == IF n \in Elements THEN equivalentFIR[n] ELSE Garbage

\* By half of the delay.
ShiftHalf ==
    /\ filterPc = "shift"
    /\ equivalentFIR' = [n \in Elements |->
                           IF n < filterYLen THEN At(n + filterHalfAverageLength)
                           ELSE equivalentFIR[n]]
    /\ filterPc' = "done"
    /\ UNCHANGED <<filterFs, filterXLen, band, filterFftl,
                   filterHalfAverageLength, eSpec>>

\* The loop goes upwards, and has not yet written what it reads.
Shift ==
    /\ filterPc = "shift"
    /\ equivalentFIR' = [n \in Elements |->
                           IF n < filterYLen THEN At(n + indexBias)
                           ELSE equivalentFIR[n]]
    /\ filterPc' = "done"
    /\ UNCHANGED <<filterFs, filterXLen, band, filterFftl,
                   filterHalfAverageLength, eSpec>>

FilterEnded == filterPc = "done" /\ UNCHANGED filterVars

FilterNext == MakeWindow \/ Multiply \/ InverseTransform \/ Shift \/ FilterEnded

FilterSpec == FilterInit /\ [][FilterNext]_filterVars
-----------------------------------------------------------------------------
FilterTypeOK ==
    /\ filterFs \in FilterRates /\ filterXLen \in FilterLengths /\ band \in FilterBands
    /\ \A n \in Elements :
         \/ equivalentFIR[n] \in {Zero, Garbage, Filtered(n), Filtered(n + indexBias)}
         \/ n < 4 * filterHalfAverageLength /\ equivalentFIR[n] = Window(n)
    /\ \A n \in Elements : eSpec[n] \in {"signal * window", "garbage"}
    /\ filterPc \in {"window", "multiply", "inverse", "shift", "done"}

\* The samples of the signal the product of the spectra takes into element n:
\* the signal and the window go round the buffer.
Made(n) ==
    {m \in 0..(filterYLen - 1) :
        (n - m) % filterFftl < 4 * filterHalfAverageLength}

(***************************************************************************)
(* Every filtered sample is made of the 4 * halfAverageLength samples      *)
(* around it that there are, as many before it as after it, at both ends   *)
(* of the signal and in every band: nothing of one end comes round to the  *)
(* other, nothing is read past the buffer, and of the bins never written   *)
(* none is used.  The crossings of all bands are then at the same times.   *)
(***************************************************************************)
CentredOnSample ==
    filterPc = "done" => \A n \in 0..(filterYLen - 1) :
        /\ equivalentFIR[n] = Filtered(n + indexBias)
        /\ Made(n + indexBias) = {m \in 0..(filterYLen - 1) :
                                    n - indexBias < m /\ m <= n + indexBias}
=============================================================================
