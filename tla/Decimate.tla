------------------------------ MODULE Decimate ------------------------------
(***************************************************************************)
(* The buffers of dio(): the signal is brought down to about 4 kHz by      *)
(* m_decimateForF0(), which extends it by nfact samples at both ends,      *)
(* filters it in both directions, and keeps every r-th sample.  One step   *)
(* is one phase of it, and for the last one, one sample kept.              *)
(*                                                                         *)
(* Samples are not modelled, only where they are read and written.         *)
(***************************************************************************)
EXTENDS Integers

CONSTANTS
    Rates,   \* sampling rates of the wav
    Lengths  \* and its samples

\* The reflection at the ends takes nfact + 1 samples of the signal.
ASSUME RateAssumption == Rates \subseteq Nat
ASSUME DecimateLengthAssumption == Lengths \subseteq {n \in Nat : n >= 10}

VARIABLES
    fs, xLen,
    coefficients,              \* of the filter: "set", or "garbage"
    decimateI, decimateCount,  \* the loop that keeps samples
    reads,                     \* indices of x read so far
    decimatePc                 \* "start", "extended", "filtered", "keep",
                               \* "done", "trapped"

decimateVars == <<fs, xLen, coefficients, decimateI, decimateCount, reads,
                  decimatePc>>

nfact == 9
decimationRatio == fs \div 4000
decimateYLen == 1 + xLen \div decimationRatio
TmpLen == xLen + 2 * nfact

\* A buffer for the signal alone.
fftlOfSignal ==
    CHOOSE p \in {2 ^ k : k \in 1 .. 30} : decimateYLen < p /\ p <= 2 * decimateYLen

\* The power of two above all that is put into a buffer of fftl.
Longest == decimateYLen + 4 * (1 + fs \div 160)
fftl == CHOOSE p \in {2 ^ k : k \in 1 .. 30} : Longest < p /\ p <= 2 * Longest

\* The average length of the lowest band, in samples of y.
halfAverageLength == (fs \div decimationRatio + 80) \div 160

DecimateInit ==
    /\ fs \in Rates /\ xLen \in Lengths
    /\ coefficients = "garbage"
    /\ decimateI = 0 /\ decimateCount = 0 /\ reads = {}
    /\ decimatePc = "start"

\* Below 4 kHz the ratio is 0, and xLen is divided by it.
Trap ==
    /\ decimatePc = "start" /\ decimationRatio = 0
    /\ decimatePc' = "trapped"
    /\ UNCHANGED <<fs, xLen, coefficients, decimateI, decimateCount, reads>>

\* tmp1 is x with its mirror image on both sides.
Extend ==
    /\ decimatePc = "start" /\ decimationRatio > 0
    /\ reads' = {0} \cup {nfact - k : k \in 0 .. nfact - 1}
                \cup 0 .. xLen - 1
                \cup {xLen - 2 - k : k \in 0 .. nfact - 1}
    /\ decimatePc' = "extended"
    /\ UNCHANGED <<fs, xLen, coefficients, decimateI, decimateCount>>

\* FilterForDecimate() knows the ratios of some rates; for all others a and b
\* keep what was on the stack.
Filter ==
    /\ decimatePc = "extended"
    /\ coefficients' = IF decimationRatio \in {2, 4, 6, 8, 11, 12} THEN "set"
                       ELSE "garbage"
    /\ decimatePc' = "filtered"
    /\ UNCHANGED <<fs, xLen, decimateI, decimateCount, reads>>

nout == xLen \div decimationRatio + 1
nbeg == decimationRatio - (decimationRatio * nout - xLen)

\* The loop begins at the ratio.
BeginKeepAtRatio ==
    /\ decimatePc = "filtered"
    /\ decimateI' = decimationRatio /\ decimateCount' = 0
    /\ decimatePc' = "keep"
    /\ UNCHANGED <<fs, xLen, coefficients, reads>>

BeginKeep ==
    /\ decimatePc = "filtered"
    /\ decimateI' = nbeg /\ decimateCount' = 0
    /\ decimatePc' = "keep"
    /\ UNCHANGED <<fs, xLen, coefficients, reads>>

\* Only the samples of the signal itself.
LimitAtEnd == xLen - 1

\* Where the loop ends: the extension is kept from, too.
Limit == xLen + nfact

Keep ==
    /\ decimatePc = "keep" /\ decimateI < Limit
    /\ decimateI' = decimateI + decimationRatio /\ decimateCount' = decimateCount + 1
    /\ UNCHANGED <<fs, xLen, coefficients, reads, decimatePc>>

DecimateReturn ==
    /\ decimatePc = "keep" /\ decimateI >= Limit
    /\ decimatePc' = "done"
    /\ UNCHANGED <<fs, xLen, coefficients, decimateI, decimateCount, reads>>

DecimateFinished == decimatePc \in {"done", "trapped"} /\ UNCHANGED decimateVars

DecimateNext ==
    \/ Trap \/ Extend \/ Filter \/ BeginKeep \/ Keep
    \/ DecimateReturn \/ DecimateFinished
DecimateSpec ==
    DecimateInit /\ [][DecimateNext]_decimateVars /\ WF_decimateVars(DecimateNext)

-----------------------------------------------------------------------------
(* Properties *)

DecimateTypeOK ==
    /\ fs \in Rates /\ xLen \in Lengths
    /\ coefficients \in {"set", "garbage"}
    /\ decimateI \in Nat /\ decimateCount \in Nat
    /\ reads \subseteq 0 .. xLen - 1
    /\ decimatePc \in {"start", "extended", "filtered", "keep", "done", "trapped"}

\* dio() takes the mean of y over yLen samples: the loop has written at least
\* these when it ends, wherever it began, and not many more.
MeanOfWritten == decimatePc = "done" =>
    decimateYLen <= decimateCount /\ decimateCount < decimateYLen + nfact

\* Every sample is kept from the extended signal, and put inside y.
KeepsInside == decimatePc = "keep" /\ decimateI < Limit =>
    /\ decimateI + nfact - 1 \in 0 .. TmpLen - 1
    /\ decimateCount < fftl

\* The window of the lowest band, and what rawEventByDio() reads past the delay
\* of the filter, are inside the FFT buffer.
FilterFits == decimatePc = "done" =>
    /\ 4 * halfAverageLength <= fftl
    /\ decimateYLen - 1 + 2 * halfAverageLength < fftl

\* Where the loop is, for the proof of MeanOfWritten.
KeepInv ==
    decimatePc \in {"keep", "done"} =>
        /\ decimationRatio \in Nat \ {0}
        /\ decimateI = nbeg + decimationRatio * decimateCount
        /\ decimateI < Limit + decimationRatio
        /\ decimatePc = "done" => decimateI >= Limit

\* The loop that keeps every decimationRatio-th sample and the FFT buffer fit each
\* other, though the buffer is sized before either is known: no sample is kept
\* from outside the extended signal, none is put outside y, and the windows of
\* the bands are inside it.
BuffersFit == KeepsInside /\ FilterFits
=============================================================================
