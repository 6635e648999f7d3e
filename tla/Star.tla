-------------------------------- MODULE Star --------------------------------
(***************************************************************************)
(* starGeneralBody() for one frame: a segment of three periods is taken    *)
(* around it, its power spectrum is mirrored at both ends, and the sum     *)
(* over the mirrored spectrum is read half a pitch below and above every   *)
(* bin.  One step is one of these; the values are left out, and what is    *)
(* modelled is which sample and which bin each is made of.                 *)
(*                                                                         *)
(* Pitches are whole Hz, times are in parts of a sample.                   *)
(***************************************************************************)
EXTENDS Integers

CONSTANTS
    Rates,    \* fs
    Pitches,  \* f0, of the frames that are voiced
    Lengths,  \* xLen
    Times,    \* t * fs, of the frame
    Den,      \* in so many parts of a sample
    FLOOR_F0, DEFAULT_F0,
    Powers    \* the powers of two fftl may be

ASSUME StarAssumption ==
    /\ Rates \subseteq Nat \ {0} /\ Pitches \subseteq Nat
    /\ Lengths \subseteq Nat \ {0} /\ Times \subseteq Nat /\ Den \in Nat \ {0}
    /\ FLOOR_F0 \in Nat \ {0} /\ DEFAULT_F0 \in Nat /\ FLOOR_F0 < DEFAULT_F0
    /\ \A p \in Powers : p \in Nat /\ p % 2 = 0

\* dio() runs at 4 kHz or more and finds pitches up to 640 Hz.
ASSUME NyquistAssumption ==
    \A fs \in Rates, f0 \in Pitches \cup {DEFAULT_F0} : 4 * f0 < fs

VARIABLES
    fs, xLen, time, f0,
    fftl,
    segment,    \* of each element, the sample of x; then waveform
    dSpectrum,  \* of each element, the bin of powerSpec
    low, high,  \* of each bin, the element of dSegment read for it
    starPc      \* "segment", "spectrum", "smooth", "done"

starVars == <<fs, xLen, time, f0, fftl, segment, dSpectrum, low, high, starPc>>

\* fftl is the power of two above 3 * fs / FLOOR_F0 + 1.
Above(p, rate) == 3 * rate + FLOOR_F0 < p * FLOOR_F0

StarInit ==
    /\ fs \in Rates /\ xLen \in Lengths /\ time \in Times
    /\ \E pitch \in Pitches \cup {0} :
           f0 = IF pitch <= FLOOR_F0 THEN DEFAULT_F0 ELSE pitch
    /\ fftl \in Powers /\ Above(fftl, fs) /\ ~ Above(fftl \div 2, fs)
    /\ segment = <<>> /\ dSpectrum = <<>> /\ low = <<>> /\ high = <<>>
    /\ starPc = "segment"

nFragment == (f0 + 3 * fs) \div (2 * f0)

\* m_round, half away from 0.
m_round(n) == IF n > 0 THEN (2 * n + Den) \div (2 * Den)
              ELSE -((Den - 2 * n) \div (2 * Den))

Least(a, b) == IF a < b THEN a ELSE b
Greatest(a, b) == IF a > b THEN a ELSE b

\* As if the samples were counted from 0.
IndexShifted(base) == Least(xLen, Greatest(1, m_round(time + Den * base))) - 1
Index(base) == Least(xLen, Greatest(1, m_round(time + Den * (1 + base)))) - 1

Segment ==
    /\ starPc = "segment"
    /\ segment' = [j \in 0 .. 2 * nFragment |-> Index(j - nFragment)]
    /\ starPc' = "spectrum"
    /\ UNCHANGED <<fs, xLen, time, f0, fftl, dSpectrum, low, high>>

Half == fftl \div 2
limitRounded == (2 * f0 * fftl + fs) \div (2 * fs)
limit == (f0 * fftl) \div fs + 1

\* The bin of powerSpec that element i of dSpectrum is a copy of.
Mirror(i) ==
    IF i < limit THEN limit - i
    ELSE IF i < Half + limit THEN i - limit
    ELSE Half - 1 - (i - Half - limit)

Spectrum ==
    /\ starPc = "spectrum"
    /\ dSpectrum' = [i \in 0 .. Half + 2 * limit |-> Mirror(i)]
    /\ starPc' = "smooth"
    /\ UNCHANGED <<fs, xLen, time, f0, fftl, segment, low, high>>

\* m_interp1Q: the element below centre frequency bin * fs / fftl + shift * f0 / 2,
\* on an axis that begins at -(limit - 0.5) * fs / fftl.
Base(bin, shift) == bin + (2 * fs * limit - fs + shift * f0 * fftl) \div (2 * fs)

Smooth ==
    /\ starPc = "smooth"
    /\ low' = [bin \in 0 .. Half |-> Base(bin, -1)]
    /\ high' = [bin \in 0 .. Half |-> Base(bin, 1)]
    /\ starPc' = "done"
    /\ UNCHANGED <<fs, xLen, time, f0, fftl, segment, dSpectrum>>

StarFinished == starPc = "done" /\ UNCHANGED starVars

StarNext == Segment \/ Spectrum \/ Smooth \/ StarFinished
StarSpec == StarInit /\ [][StarNext]_starVars

-----------------------------------------------------------------------------
(* Properties *)

StarTypeOK ==
    /\ fs \in Rates /\ xLen \in Lengths /\ time \in Times /\ fftl \in Powers
    /\ f0 \in Pitches \cup {DEFAULT_F0} /\ f0 > FLOOR_F0
    /\ starPc \in {"segment", "spectrum", "smooth", "done"}
    /\ starPc # "segment" => segment \in [0 .. 2 * nFragment -> 0 .. xLen - 1]
    /\ starPc \notin {"segment", "spectrum"} =>
           dSpectrum \in [0 .. Half + 2 * limit -> 0 .. Half]

\* The segment, at least three periods of the lowest pitch, fits into the FFT.
SegmentFits == 2 * nFragment + 1 <= fftl

\* The middle of the segment is the sample of the frame, and where the signal does
\* not end, its samples follow one another.
SegmentCentred == starPc # "segment" =>
    LET centre == m_round(time)
    IN \A j \in DOMAIN segment :
          centre + j - nFragment \in 0 .. xLen - 1 =>
              segment[j] = centre + j - nFragment

\* The spectrum is continued evenly: at bin 0 around the bin, at the other end
\* around the middle between two bins, as bin fftl / 2 is left out.
Even == starPc \in {"smooth", "done"} =>
    /\ \A k \in 1 .. limit : dSpectrum[limit - k] = dSpectrum[limit + k]
    /\ \A k \in 0 .. limit :
          dSpectrum[limit + Half - 1 - k] = dSpectrum[limit + Half + k]
    /\ \A k \in 1 .. Half + 2 * limit :
          dSpectrum[k] - dSpectrum[k - 1] \in {-1, 0, 1}

\* What m_interp1Q reads for any bin is inside the sum, a pitch apart, and as far
\* below the bin as above it, as far as elements go.
SmoothInside == starPc = "done" =>
    \A bin \in 0 .. Half :
        /\ low[bin] \in 0 .. Half + 2 * limit /\ high[bin] \in 0 .. Half + 2 * limit
        /\ high[bin] - low[bin] \in {limit - 1, limit}
        /\ low[bin] + high[bin] - 2 * (limit + bin) \in {-2, -1}

\* Neither the segment of a frame nor the smoothing of its spectrum leaves the
\* buffers, which are sized from the floor pitch and not from that of the frame.
StarInside == SegmentFits /\ SmoothInside

\* The frame is analysed around its own sample, and its spectrum smoothed as an
\* even one: neither is shifted by a sample or a bin.
StarSymmetric == SegmentCentred /\ Even
=============================================================================
