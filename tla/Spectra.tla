------------------------------ MODULE Spectra ------------------------------
(***************************************************************************)
(* The spectra of a frame on their way through PLATINUM and the synthesis. *)
(* PLATINUM divides the spectrum of a segment of the wav by the minimum    *)
(* phase spectrum of its STAR envelope, and keeps the quotient as a row of *)
(* real numbers.  One array takes the quotients of all frames: a frame     *)
(* without a segment is given what it holds of a frame before.  The        *)
(* synthesis multiplies the minimum phase spectrum of a frame by its row   *)
(* and transforms the product back.  Both take plans of the FFT wrapper,   *)
(* which says what is read and written by each transform.                  *)
(*                                                                         *)
(* An element of an array is what it is made of: of which quantity, frame  *)
(* and bin, with which weight.  What a transform yields of anything but    *)
(* all the elements it should is noise.                                    *)
(***************************************************************************)
EXTENDS Integers, FiniteSets

CONSTANTS
    FFTLengths,   \* fftl, powers of two
    NFrames,      \* tLen, of the wav
    MaxResponses  \* bound on the responses of a run

ASSUME SpectraAssumption ==
    /\ FFTLengths \subseteq {n \in Nat : n >= 4 /\ n % 4 = 0}
    /\ NFrames \in Nat \ {0} /\ MaxResponses \in Nat

SpectraFrames == 0..(NFrames - 1)

VARIABLES
    fftl,
    mem,               \* the arrays plans are made for
    residualSpecgram,
    tmpResidualSpec,   \* the quotients of the last frame that had a window
    plan,              \* the plans, by the names of their variables
    plans,             \* how many were made and not destroyed
    spectraFrame,      \* the frame of the response or of the row at work on
    count,             \* responses begun
    whole,             \* the frames that had a window inside the wav
    who, spectraPc

spectraVars == <<fftl, mem, residualSpecgram, tmpResidualSpec, plan, plans,
                 spectraFrame, count, whole, who, spectraPc>>

Value(of, f, k, weight) == <<of, f, k, weight>>
Noise == Value("noise", 0, 0, 0)
Zero == Value("zero", 0, 0, 0)
Garbage == [i \in 0..(fftl - 1) |-> Noise]

Complex == {"spectrum", "cepstrum", "tmpSpec"}
Real == {"tmpWave", "response"}
-----------------------------------------------------------------------------
\* The FFT wrapper.  A plan holds pointers of which two are NULL.
FFT_FORWARD == 1
FFT_BACKWARD == 2
NULL == "NULL"

fft_plan_dft_1d(from, to, direction) ==
    [in |-> NULL, c_in |-> from, out |-> NULL, c_out |-> to, sign |-> direction]
fft_plan_dft_c2r_1d(from, to) ==
    [in |-> NULL, c_in |-> from, out |-> to, c_out |-> NULL, sign |-> FFT_BACKWARD]
fft_plan_dft_r2c_1d(from, to) ==
    [in |-> from, c_in |-> NULL, out |-> NULL, c_out |-> to, sign |-> FFT_FORWARD]
NoPlan == [in |-> NULL, c_in |-> NULL, out |-> NULL, c_out |-> NULL, sign |-> 0]

\* Transforms of complex arrays.  The log amplitudes of all bins give a real
\* cepstrum only when they are even.  A cepstrum of which one half was
\* doubled and the other cleared gives the minimum phase spectrum, one half
\* forwards and the other backwards.
HalfKept(a, f, keep, clear) ==
    /\ a[0] = Value("cepstrum", f, 0, 1)
    /\ \A i \in keep : a[i] = Value("cepstrum", f, i, 2)
    /\ \A i \in clear : a[i] = Zero

Lower == 1..(fftl \div 2 - 1)
Upper == (fftl \div 2 + 1)..(fftl - 1)

dft(a, sign) ==
    [k \in 0..(fftl - 1) |->
        CASE \E f \in SpectraFrames : sign = FFT_FORWARD
               /\ \A i \in 0..(fftl - 1) :
                    a[i] = Value("log", f, IF i <= fftl \div 2 THEN i ELSE fftl - i, 1)
               -> Value("cepstrum", a[0][2], k, 1)
          [] \E f \in SpectraFrames :
               HalfKept(a, f, IF sign = FFT_FORWARD THEN Lower ELSE Upper,
                              IF sign = FFT_FORWARD THEN Upper ELSE Lower)
               -> Value("minimum", a[0][2], k, 1)
          [] OTHER -> Noise]

\* A real transform writes, and reads, the bins up to n / 2 only.
ForwardFFT(p) ==
    IF p.c_in = NULL
    THEN [mem EXCEPT ![p.c_out] = [k \in 0..(fftl - 1) |->
            IF k > fftl \div 2 THEN @[k]
            ELSE IF \E f \in SpectraFrames : \A i \in 0..(fftl - 1) :
                      mem[p.in][i] = Value("wave", f, i, 1)
                 THEN Value("segment", mem[p.in][0][2], k, 1) ELSE Noise]]
    ELSE [mem EXCEPT ![p.c_out] = dft(mem[p.c_in], FFT_FORWARD)]

\* Of the real array, each element is made of all the bins that were read.
BackwardFFT(p) ==
    IF p.c_out = NULL
    THEN [mem EXCEPT ![p.out] = [k \in 0..(fftl \div 2) |-> mem[p.c_in][k]]]
    ELSE [mem EXCEPT ![p.c_out] = dft(mem[p.c_in], FFT_BACKWARD)]

fft_execute(p) ==
    mem' = IF p.sign = FFT_FORWARD THEN ForwardFFT(p) ELSE BackwardFFT(p)
-----------------------------------------------------------------------------
\* platinum() gives frame 0 silence and begins with frame 1.  Its array for the
\* quotients is not initialised.
SpectraInit ==
    /\ fftl \in FFTLengths
    /\ mem = [a \in Complex \cup Real |-> Garbage]
    /\ residualSpecgram = [f \in SpectraFrames |-> [k \in 0..fftl |-> Zero]]
    /\ tmpResidualSpec = Garbage
    /\ plan = [p \in {"forwardFFT", "inverseFFT", "inverseFFT_RP"} |-> NoPlan]
    /\ plans = 0 /\ spectraFrame = 1 /\ count = 0 /\ whole = {}
    /\ who = "platinum" /\ spectraPc = "begin"

\* A frame of platinum(): its arrays are new.
Window ==
    /\ who = "platinum" /\ spectraPc = "begin" /\ spectraFrame \in SpectraFrames
    /\ mem' = [a \in Complex \cup Real |->
                IF a = "tmpWave" THEN [i \in 0..(fftl - 1) |-> Value("wave", spectraFrame, i, 1)]
                ELSE Garbage]
    /\ whole' = whole \cup {spectraFrame}
    /\ spectraPc' = "plans"
    /\ UNCHANGED <<fftl, residualSpecgram, tmpResidualSpec, plan, plans,
                   spectraFrame, count, who>>

\* A row is written with fftl values, whatever it has room for.
StoreRow(a) ==
    residualSpecgram' = [residualSpecgram EXCEPT ![spectraFrame] =
                           [e \in 0..fftl |-> IF e < fftl THEN a[e] ELSE @[e]]]

\* The window would reach past the wav: the quotients are not computed, and the
\* row is given those that are there.
NoWindow ==
    /\ who = "platinum" /\ spectraPc = "begin" /\ spectraFrame \in SpectraFrames
    /\ StoreRow(tmpResidualSpec)
    /\ spectraFrame' = spectraFrame + 1
    /\ UNCHANGED <<fftl, mem, tmpResidualSpec, plan, plans, count, whole, who,
                   spectraPc>>

\* The rows are written and read, or kept; synthesis() allocates its arrays.
Synthesis ==
    /\ who = "platinum" /\ spectraPc = "begin" /\ spectraFrame \notin SpectraFrames
    /\ mem' = [a \in Complex \cup Real |-> Garbage]
    /\ who' = "synthesis"
    /\ UNCHANGED <<fftl, residualSpecgram, tmpResidualSpec, plan, plans,
                   spectraFrame, count, whole, spectraPc>>

\* A response, of any frame.
Begin ==
    /\ who = "synthesis" /\ spectraPc = "begin" /\ count < MaxResponses
    /\ spectraFrame' \in SpectraFrames
    /\ count' = count + 1
    /\ plan' = [plan EXCEPT !["inverseFFT_RP"] =
                  fft_plan_dft_c2r_1d("spectrum", "response")]
    /\ plans' = plans + 1
    /\ spectraPc' = "plans"
    /\ UNCHANGED <<fftl, mem, residualSpecgram, tmpResidualSpec, whole, who>>

-----------------------------------------------------------------------------
\* getMinimumPhaseSpectrum, for both.  Its plans are not destroyed.
MakePlans ==
    /\ spectraPc = "plans"
    /\ plan' = [plan EXCEPT
          !["forwardFFT"] = fft_plan_dft_1d("spectrum", "cepstrum", FFT_FORWARD),
          !["inverseFFT"] = fft_plan_dft_1d("cepstrum", "spectrum", FFT_BACKWARD)]
    /\ plans' = plans + 2
    /\ spectraPc' = "log"
    /\ UNCHANGED <<fftl, mem, residualSpecgram, tmpResidualSpec, spectraFrame,
                   count, whole, who>>

\* The upper half by one bin off.
MirrorOff(a) ==
    [i \in 0..(fftl - 1) |-> IF i <= fftl \div 2 THEN a[i] ELSE a[fftl - i + 1]]

Mirror(a) == [i \in 0..(fftl - 1) |-> IF i <= fftl \div 2 THEN a[i] ELSE a[fftl - i]]

LogAmplitude ==
    /\ spectraPc = "log"
    /\ mem' = [mem EXCEPT !["spectrum"] =
                 Mirror([i \in 0..(fftl - 1) |-> Value("log", spectraFrame, i, 1)])]
    /\ spectraPc' = "forward"
    /\ UNCHANGED <<fftl, residualSpecgram, tmpResidualSpec, plan, plans,
                   spectraFrame, count, whole, who>>

Forward ==
    /\ spectraPc = "forward"
    /\ fft_execute(plan["forwardFFT"])
    /\ spectraPc' = "fold"
    /\ UNCHANGED <<fftl, residualSpecgram, tmpResidualSpec, plan, plans,
                   spectraFrame, count, whole, who>>

Doubled(c) == IF c[1] = "cepstrum" THEN [c EXCEPT ![4] = 2 * @] ELSE Noise

\* The half with positive quefrencies kept.
FoldLower(a) ==
    [i \in 0..(fftl - 1) |-> IF i = 0 THEN a[i]
                             ELSE IF i <= fftl \div 2 THEN Doubled(a[i]) ELSE Zero]

Fold(a) ==
    [i \in 0..(fftl - 1) |-> IF i = 0 THEN a[i]
                             ELSE IF i < fftl \div 2 THEN Zero ELSE Doubled(a[i])]

FoldCepstrum ==
    /\ spectraPc = "fold"
    /\ mem' = [mem EXCEPT !["cepstrum"] = Fold(@)]
    /\ spectraPc' = "inverse"
    /\ UNCHANGED <<fftl, residualSpecgram, tmpResidualSpec, plan, plans,
                   spectraFrame, count, whole, who>>

\* With the exponential of each bin.
InverseTransform ==
    /\ spectraPc = "inverse"
    /\ fft_execute(plan["inverseFFT"])
    /\ spectraPc' = IF who = "platinum" THEN "segment" ELSE "multiply"
    /\ UNCHANGED <<fftl, residualSpecgram, tmpResidualSpec, plan, plans,
                   spectraFrame, count, whole, who>>

-----------------------------------------------------------------------------
\* getOneFrameResidualSpec.  Its plan is not destroyed.
Segment ==
    /\ spectraPc = "segment"
    /\ plan' = [plan EXCEPT !["forwardFFT"] = fft_plan_dft_r2c_1d("tmpWave", "tmpSpec")]
    /\ fft_execute(fft_plan_dft_r2c_1d("tmpWave", "tmpSpec"))
    /\ plans' = plans + 1
    /\ spectraPc' = "divide"
    /\ UNCHANGED <<fftl, residualSpecgram, tmpResidualSpec, spectraFrame,
                   count, whole, who>>

\* The quotient of a bin, its real or its imaginary part.
QuotientOf(part, k) ==
    IF /\ mem["tmpSpec"][k] = Value("segment", spectraFrame, k, 1)
       /\ mem["spectrum"][k] = Value("minimum", spectraFrame, k, 1)
    THEN Value(part, spectraFrame, k, 1) ELSE Noise

\* The quotients: bins 0 and fftl / 2 are real, those between have both parts.
Row ==
    [e \in 0..(fftl - 1) |->
        CASE e = 0 -> QuotientOf("real", 0)
          [] e = fftl - 1 -> QuotientOf("real", fftl \div 2)
          [] e \in 1..(fftl - 2) /\ e % 2 = 1 -> QuotientOf("real", (e + 1) \div 2)
          [] OTHER -> QuotientOf("imaginary", e \div 2)]

Divide ==
    /\ spectraPc = "divide"
    /\ tmpResidualSpec' = Row
    /\ StoreRow(Row)
    /\ spectraFrame' = spectraFrame + 1
    /\ spectraPc' = "begin"
    /\ UNCHANGED <<fftl, mem, plan, plans, count, whole, who>>

-----------------------------------------------------------------------------
\* getOneFrameSegment.  With its own quotients the spectrum of a frame becomes
\* that of the segment they were made of; with those of a frame before, what is
\* carried over from that.
Product(k, real, imaginary) ==
    LET g == real[2]
    IN  IF /\ mem["spectrum"][k] = Value("minimum", spectraFrame, k, 1)
           /\ real = Value("real", g, k, 1)
           /\ imaginary = IF k \in Lower THEN Value("imaginary", g, k, 1) ELSE Zero
        THEN Value(IF g = spectraFrame THEN "segment" ELSE "carried", g, k, 1)
        ELSE IF real = Zero /\ imaginary = Zero THEN Zero ELSE Noise

\* The real parts counted from 0.
ProductsShifted ==
    [k \in 0..(fftl - 1) |->
        CASE k = 0 -> Product(0, residualSpecgram[spectraFrame][0], Zero)
          [] k = fftl \div 2 -> Product(k, residualSpecgram[spectraFrame][fftl - 1], Zero)
          [] k \in Lower ->
               Product(k, residualSpecgram[spectraFrame][k * 2],
                       residualSpecgram[spectraFrame][k * 2 + 1])
          [] OTHER -> mem["spectrum"][k]]

Products ==
    [k \in 0..(fftl - 1) |->
        CASE k = 0 -> Product(0, residualSpecgram[spectraFrame][0], Zero)
          [] k = fftl \div 2 -> Product(k, residualSpecgram[spectraFrame][fftl - 1], Zero)
          [] k \in Lower ->
               Product(k, residualSpecgram[spectraFrame][(k - 1) * 2 + 1],
                       residualSpecgram[spectraFrame][k * 2])
          [] OTHER -> mem["spectrum"][k]]

Multiply ==
    /\ spectraPc = "multiply"
    /\ mem' = [mem EXCEPT !["spectrum"] = Products]
    /\ spectraPc' = "response"
    /\ UNCHANGED <<fftl, residualSpecgram, tmpResidualSpec, plan, plans,
                   spectraFrame, count, whole, who>>

SpectraResponse ==
    /\ spectraPc = "response"
    /\ fft_execute(plan["inverseFFT_RP"])
    /\ plans' = plans - 1
    /\ spectraPc' = "add"
    /\ UNCHANGED <<fftl, residualSpecgram, tmpResidualSpec, plan, spectraFrame,
                   count, whole, who>>

\* It is added to the output, and cleared.
Add ==
    /\ spectraPc = "add"
    /\ mem' = [mem EXCEPT !["response"] = [k \in 0..(fftl - 1) |-> Zero]]
    /\ spectraPc' = "begin"
    /\ UNCHANGED <<fftl, residualSpecgram, tmpResidualSpec, plan, plans,
                   spectraFrame, count, whole, who>>

SpectraEnded ==
    /\ who = "synthesis" /\ spectraPc = "begin" /\ count = MaxResponses
    /\ UNCHANGED spectraVars

SpectraNext ==
    \/ Window \/ NoWindow \/ Synthesis \/ Begin
    \/ MakePlans \/ LogAmplitude \/ Forward \/ FoldCepstrum \/ InverseTransform
    \/ Segment \/ Divide
    \/ Multiply \/ SpectraResponse \/ Add
    \/ SpectraEnded

SpectraSpec == SpectraInit /\ [][SpectraNext]_spectraVars
-----------------------------------------------------------------------------
Quantity == {"noise", "zero", "wave", "log", "cepstrum", "minimum", "segment",
             "carried", "real", "imaginary"}
IsValue(v) ==
    /\ v[1] \in Quantity /\ v[2] \in SpectraFrames
    /\ v[3] \in 0..fftl /\ v[4] \in 0..2

SpectraTypeOK ==
    /\ \A a \in Complex \cup {"tmpWave"} :
         DOMAIN mem[a] = 0..(fftl - 1) /\ \A i \in 0..(fftl - 1) : IsValue(mem[a][i])
    /\ \A f \in SpectraFrames :
         DOMAIN residualSpecgram[f] = 0..fftl /\ \A e \in 0..fftl : IsValue(residualSpecgram[f][e])
    /\ DOMAIN tmpResidualSpec = 0..(fftl - 1)
    /\ \A i \in 0..(fftl - 1) : IsValue(tmpResidualSpec[i])
    /\ plans \in Nat /\ spectraFrame \in Nat /\ count \in 0..MaxResponses
    /\ whole \subseteq SpectraFrames \ {0}

\* Frame g is the last one up to frame f that had a window.
LastWhole(g, f) == g \in whole /\ g <= f /\ \A h \in whole : h <= f => h <= g

(***************************************************************************)
(* The response of a frame that had a window is the segment the wav had    *)
(* there, every bin of it and of no other frame: what PLATINUM divides by, *)
(* the synthesis multiplies by, the row is packed and unpacked alike, and  *)
(* nothing is left in the shared arrays of the response before it.  A      *)
(* frame that had none sounds with the quotients of the last frame before  *)
(* it that did, whole and of that frame only; where there is none, with    *)
(* memory that was never written, of which nothing is said.  Frame 0 is    *)
(* silent.                                                                 *)
(***************************************************************************)
SegmentReproduced ==
    spectraPc = "add" => \A k \in 0..(fftl \div 2) :
        /\ spectraFrame = 0 => mem["response"][k] = Zero
        /\ \A g \in whole : LastWhole(g, spectraFrame) =>
              mem["response"][k] =
                 Value(IF g = spectraFrame THEN "segment" ELSE "carried", g, k, 1)

(***************************************************************************)
(* getMinimumPhaseSpectrum destroys neither of its plans and PLATINUM not  *)
(* its own: between frames, three are left over for each row computed and  *)
(* two for each response, and never more.                                  *)
(***************************************************************************)
PlansLeft == spectraPc = "begin" => plans = 3 * Cardinality(whole) + 2 * count

\* The response is right, and so is the count of plans it leaves behind.
ResponsesSound == SegmentReproduced /\ PlansLeft
=============================================================================
