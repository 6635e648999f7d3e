----------------------------- MODULE DioProofs -----------------------------
(***************************************************************************)
(* The stages of dio(), each for all values of its constants: the buffers  *)
(* of Decimate, the delay of DioFilter, the trains of ZeroCrossing, the    *)
(* interpolation of Interp1, the choice of DioBands and the islands of     *)
(* DioPostprocess; and the types of whichever stage runs.                  *)
(***************************************************************************)
EXTENDS MCDio, CommonLemmas
-----------------------------------------------------------------------------
(* Decimate *)

DecimateTypes ==
    /\ fs \in Nat /\ xLen \in Nat /\ xLen >= 10
    /\ decimateI \in Nat /\ decimateCount \in Nat
    /\ decimatePc \in {"start", "extended", "filtered", "keep", "done", "trapped"}
    /\ decimatePc \notin {"start", "trapped"} => decimationRatio > 0

DecimateFullInv == DecimateTypes /\ KeepInv

\* The loop begins inside the first step: nbeg is xLen % decimationRatio.
LEMMA BeginInStep ==
    ASSUME DecimateTypes, decimationRatio > 0
    PROVE  /\ decimationRatio \in Nat \ {0}
           /\ xLen \div decimationRatio \in Nat
           /\ nbeg \in 0 .. decimationRatio - 1
           /\ nbeg = xLen - decimationRatio * (xLen \div decimationRatio)
<1>1. decimationRatio \in Nat \ {0} BY DEF DecimateTypes, decimationRatio
<1>2. PICK r \in Nat \ {0} : r = decimationRatio BY <1>1
<1>3. PICK n \in Nat : n = xLen BY DEF DecimateTypes
<1>4. PICK q \in Int : q = n \div r BY <1>2, <1>3
<1>5. /\ n = r * q + (n % r)
      /\ n % r \in 0 .. r - 1
    BY <1>2, <1>3, <1>4
<1>6. q \in Nat BY <1>2, <1>3, <1>4, <1>5
<1>7. nbeg = r - (r * (q + 1) - n) BY <1>2, <1>3, <1>4 DEF nbeg, nout
<1>8. r * (q + 1) = r * q + r BY <1>2, <1>4
<1>9. r * q \in Int BY <1>2, <1>4
<1>10. nbeg = n - r * q BY <1>2, <1>3, <1>7, <1>8, <1>9
<1> QED BY <1>1, <1>2, <1>3, <1>4, <1>5, <1>6, <1>9, <1>10

LEMMA DecimateStart == DecimateInit => DecimateFullInv
BY RateAssumption, DecimateLengthAssumption
   DEF DecimateInit, DecimateFullInv, DecimateTypes, KeepInv

LEMMA DecimateStep == DecimateFullInv /\ [DecimateNext]_decimateVars => DecimateFullInv'
<1> SUFFICES ASSUME DecimateFullInv, [DecimateNext]_decimateVars
             PROVE DecimateFullInv' OBVIOUS
<1>0. DecimateTypes /\ KeepInv BY DEF DecimateFullInv
<1>1. CASE Trap
  BY <1>0, <1>1 DEF DecimateFullInv, DecimateTypes, KeepInv, Trap, decimationRatio
<1>2. CASE Extend
    BY <1>0, <1>2 DEF DecimateFullInv, DecimateTypes, KeepInv, Extend, decimationRatio
<1>3. CASE Filter
    BY <1>0, <1>3 DEF DecimateFullInv, DecimateTypes, KeepInv, Filter, decimationRatio
<1>4. CASE BeginKeep
    <2>1. /\ decimationRatio \in Nat \ {0}
          /\ nbeg \in 0 .. decimationRatio - 1
        BY <1>0, <1>4, BeginInStep DEF DecimateTypes, BeginKeep
    <2>2. /\ decimationRatio' = decimationRatio /\ nbeg' = nbeg /\ Limit' = Limit
        BY <1>4 DEF BeginKeep, decimationRatio, nbeg, nout, Limit
    <2>3. DecimateTypes' BY <1>0, <1>4, <2>1, <2>2 DEF DecimateTypes, BeginKeep
    <2>4. decimationRatio * 0 = 0 BY <2>1
    <2>5. Limit \in Nat BY <1>0 DEF DecimateTypes, Limit, nfact
    <2>6. KeepInv'
        BY <1>4, <2>1, <2>2, <2>4, <2>5 DEF KeepInv, BeginKeep
    <2> QED BY <2>3, <2>6 DEF DecimateFullInv
<1>5. CASE Keep
    <2>1. /\ decimationRatio \in Nat \ {0}
          /\ nbeg \in 0 .. decimationRatio - 1
        BY <1>0, <1>5, BeginInStep DEF DecimateTypes, Keep
    <2>2. /\ decimationRatio' = decimationRatio /\ nbeg' = nbeg /\ Limit' = Limit
        BY <1>5 DEF Keep, decimationRatio, nbeg, nout, Limit
    <2>3. DecimateTypes' BY <1>0, <1>5, <2>1, <2>2 DEF DecimateTypes, Keep
    <2>4. decimationRatio * (decimateCount + 1)
            = decimationRatio * decimateCount + decimationRatio
        BY <1>0, <2>1 DEF DecimateTypes
    <2>5. /\ decimateI = nbeg + decimationRatio * decimateCount
          /\ decimationRatio * decimateCount \in Int
        BY <1>0, <1>5, <2>1 DEF DecimateTypes, KeepInv, Keep
    <2>6. Limit \in Nat BY <1>0 DEF DecimateTypes, Limit, nfact
    <2>7. decimateI' = nbeg + decimationRatio * decimateCount'
        BY <1>0, <1>5, <2>1, <2>4, <2>5 DEF Keep, DecimateTypes
    <2>8. decimateI' < Limit + decimationRatio
        BY <1>0, <1>5, <2>1, <2>6 DEF Keep, DecimateTypes
    <2>9. KeepInv' BY <1>5, <2>1, <2>2, <2>7, <2>8 DEF KeepInv, Keep
    <2> QED BY <2>3, <2>9 DEF DecimateFullInv
<1>6. CASE DecimateReturn
    <2>1. /\ decimationRatio' = decimationRatio /\ nbeg' = nbeg /\ Limit' = Limit
        BY <1>6 DEF DecimateReturn, decimationRatio, nbeg, nout, Limit
    <2> QED
      BY <1>0, <1>6, <2>1 DEF DecimateFullInv, DecimateTypes, KeepInv, DecimateReturn
<1>7. CASE UNCHANGED decimateVars
    <2>1. /\ decimationRatio' = decimationRatio /\ nbeg' = nbeg /\ Limit' = Limit
        BY <1>7 DEF decimateVars, decimationRatio, nbeg, nout, Limit
    <2> QED
      BY <1>0, <1>7, <2>1 DEF DecimateFullInv, DecimateTypes, KeepInv, decimateVars
<1> QED BY <1>1, <1>2, <1>3, <1>4, <1>5, <1>6, <1>7 DEF DecimateNext, DecimateFinished

\* The samples kept are enough for the mean, and at most eight more: the loop
\* ends between nfact and nfact + decimationRatio samples past the signal.
LEMMA InvMean == DecimateFullInv => MeanOfWritten
<1> SUFFICES ASSUME DecimateFullInv, decimatePc = "done"
             PROVE  decimateYLen <= decimateCount /\ decimateCount < decimateYLen + nfact
    BY DEF MeanOfWritten
<1>0. DecimateTypes /\ KeepInv BY DEF DecimateFullInv
<1>1. /\ decimationRatio \in Nat \ {0}
      /\ xLen \div decimationRatio \in Nat
      /\ nbeg = xLen - decimationRatio * (xLen \div decimationRatio)
    BY <1>0, BeginInStep DEF DecimateTypes
<1>2. PICK r \in Nat \ {0} : r = decimationRatio BY <1>1
<1>3. PICK q \in Nat : q = xLen \div decimationRatio BY <1>1
<1>4. PICK n \in Nat : n = xLen BY <1>0 DEF DecimateTypes
<1>5. PICK c \in Nat : c = decimateCount BY <1>0 DEF DecimateTypes
<1>6. r * c \in Int /\ r * q \in Int BY <1>2, <1>3, <1>5
<1>7. decimateI = n - r * q + r * c
    BY <1>0, <1>1, <1>2, <1>3, <1>4, <1>5, <1>6 DEF KeepInv
<1>8. decimateI >= n + 9 /\ decimateI < n + 9 + r
    BY <1>0, <1>2, <1>4 DEF KeepInv, Limit, nfact
<1>9. r * c >= r * q + 9 BY <1>4, <1>6, <1>7, <1>8
<1>10. q < c BY <1>2, <1>3, <1>5, <1>6, <1>9, ProductSign
<1>11. r * c < r * q + 9 + r BY <1>2, <1>4, <1>6, <1>7, <1>8
<1>12. r * (q + 10) = r * q + r * 9 + r /\ r * 9 \in Int /\ r * 9 >= 9
    BY <1>2, <1>3
<1>13. r * c < r * (q + 10) BY <1>2, <1>6, <1>11, <1>12
<1>14. c < q + 10 BY <1>2, <1>3, <1>5, <1>13, ProductSign
<1> QED BY <1>3, <1>5, <1>10, <1>14 DEF decimateYLen, nfact

\* For every wav of ten samples or more, at every rate: dio() takes the mean
\* over samples of y that m_decimateForF0() has written, all of them.
THEOREM MeanDefined == DecimateSpec => []MeanOfWritten
<1>1. DecimateSpec => []DecimateFullInv
  BY DecimateStart, DecimateStep, PTL DEF DecimateSpec
<1> QED BY <1>1, InvMean, PTL

\* The length that the buffer is sized for is one whose double is an int.
LengthIsInt == Longest < 2 ^ 30

LEMMA FftlIs ==
    ASSUME DecimateTypes, decimationRatio > 0, LengthIsInt
    PROVE  /\ fftl \in Nat /\ Longest < fftl
           /\ Longest = decimateYLen + 4 * (1 + fs \div 160)
           /\ decimateYLen = 1 + xLen \div decimationRatio
           /\ xLen \div decimationRatio \in Nat /\ fs \div 160 \in Nat
           /\ decimationRatio \in Nat \ {0} /\ fs >= 4000
<1>1. /\ decimationRatio \in Nat \ {0} /\ xLen \div decimationRatio \in Nat
  BY BeginInStep
<1>2. fs \in Nat /\ fs \div 160 \in Nat /\ fs >= 4000
  BY DEF DecimateTypes, decimationRatio
<1>3. Longest \in Nat /\ Longest >= 1
  BY <1>1, <1>2 DEF Longest, decimateYLen
<1>4. PICK n \in Nat : n = Longest
  BY <1>3
<1>5. \E p \in {2 ^ k : k \in 1 .. 30} : n < p /\ p <= 2 * n
  BY <1>3, <1>4, PowerAbove DEF LengthIsInt
<1>6. fftl \in {2 ^ k : k \in 1 .. 30} /\ Longest < fftl
  BY <1>4, <1>5 DEF fftl
<1>7. fftl \in Nat
  BY <1>6, PowersAreNat
<1> QED BY <1>1, <1>2, <1>6, <1>7 DEF Longest, decimateYLen

LEMMA InvKeeps == DecimateFullInv /\ LengthIsInt => KeepsInside
<1>1. SUFFICES ASSUME DecimateFullInv, LengthIsInt, decimatePc = "keep", decimateI < Limit
               PROVE  /\ decimateI + nfact - 1 \in 0 .. TmpLen - 1
                      /\ decimateCount < fftl
  BY DEF KeepsInside
<1>2. decimationRatio > 0 /\ DecimateTypes /\ KeepInv
  BY <1>1 DEF DecimateFullInv, DecimateTypes
<1>3. PICK n \in Nat, r \in Nat \ {0}, q \in Nat, c \in Nat :
         n = xLen /\ r = decimationRatio /\ q = xLen \div decimationRatio /\ c = decimateCount
  BY <1>2, BeginInStep DEF DecimateTypes
<1>4. nbeg = n - r * q /\ decimateI = nbeg + r * c /\ decimateI < n + 9 /\ decimateI \in Nat
  BY <1>1, <1>2, <1>3, BeginInStep DEF KeepInv, Limit, nfact, DecimateTypes
<1>5. r * q \in Int /\ r * c \in Int
  OBVIOUS
<1>6. r * c < r * q + 9
  BY <1>3, <1>4, <1>5
<1>7. r * (q + 9) = r * q + r * 9 /\ r * 9 \in Int /\ r * 9 >= 9
  OBVIOUS
<1>8. c < q + 9
  BY <1>5, <1>6, <1>7, ProductSign
<1>9. decimateCount < fftl
  <2>1. PICK d \in Nat, l \in Nat : /\ d = fs \div 160 /\ l = fftl /\ fs \in Nat /\ fs >= 4000
                                     /\ 1 + q + 4 * (1 + d) < l
    BY <1>1, <1>2, <1>3, FftlIs DEF DecimateTypes
  <2>2. d >= 25
    BY <2>1
  <2> QED BY <1>3, <1>8, <2>1, <2>2
<1>10. decimateI + nfact - 1 \in 0 .. TmpLen - 1
  BY <1>3, <1>4 DEF nfact, TmpLen
<1> QED BY <1>9, <1>10

LEMMA InvFits == DecimateFullInv /\ LengthIsInt => FilterFits
<1>1. SUFFICES ASSUME DecimateFullInv, LengthIsInt, decimatePc = "done"
               PROVE  /\ 4 * halfAverageLength <= fftl
                      /\ decimateYLen - 1 + 2 * halfAverageLength < fftl
  BY DEF FilterFits
<1>2. decimationRatio > 0 /\ DecimateTypes
  BY <1>1 DEF DecimateFullInv, DecimateTypes
<1>3. PICK f \in Nat, r \in Nat \ {0}, d \in Nat :
         f = fs /\ r = decimationRatio /\ d = fs \div 160 /\ f < 160 * d + 160
  BY <1>1, <1>2, FftlIs, DividedBy DEF DecimateTypes
<1>4. PICK a \in Nat : a = f \div r /\ a <= f
  <2>1. f \div r \in Nat /\ r * (f \div r) <= f
    BY DividedBy
  <2>2. PICK a \in Nat, k \in Nat : a = f \div r /\ r = k + 1
    <3>1. r - 1 \in Nat /\ r = (r - 1) + 1
      OBVIOUS
    <3> QED BY <2>1, <3>1
  <2>3. r * a = k * a + a /\ k * a \in Nat
    BY <2>2
  <2> QED BY <2>1, <2>2, <2>3
<1>5. PICK w \in Nat : w = (a + 80) \div 160 /\ 160 * w <= a + 80
  OBVIOUS
<1>6. w = halfAverageLength
  BY <1>3, <1>4, <1>5 DEF halfAverageLength
<1>7. w <= d + 1
  BY <1>3, <1>4, <1>5
<1> QED BY <1>1, <1>2, <1>3, <1>6, <1>7, FftlIs

\* For every wav of ten samples or more, at every rate, as long as the size of the
\* buffer is an int: the loop keeps samples of the extended signal and puts them
\* inside y, and the windows of the bands are inside the buffer.
THEOREM BuffersAreFit == DecimateSpec => [](LengthIsInt => BuffersFit)
<1>1. DecimateSpec => []DecimateFullInv
  BY DecimateStart, DecimateStep, PTL DEF DecimateSpec
<1>2. DecimateFullInv => (LengthIsInt => BuffersFit)
  BY InvKeeps, InvFits DEF BuffersFit
<1> QED BY <1>1, <1>2, PTL

-----------------------------------------------------------------------------
(* DioFilter *)

\* The bands are a power of two apart.
LEMMA BandPower == \A b \in 0 .. 6 : 2 ^ b \in Nat \ {0}
<1>1. /\ 2 ^ 0 \in Nat \ {0} /\ 2 ^ 1 \in Nat \ {0} /\ 2 ^ 2 \in Nat \ {0}
      /\ 2 ^ 3 \in Nat \ {0} /\ 2 ^ 4 \in Nat \ {0} /\ 2 ^ 5 \in Nat \ {0}
      /\ 2 ^ 6 \in Nat \ {0}
  OBVIOUS
<1>2. \A b \in 0 .. 6 : b = 0 \/ b = 1 \/ b = 2 \/ b = 3 \/ b = 4 \/ b = 5 \/ b = 6
  OBVIOUS
<1> QED BY <1>1, <1>2

LEMMA SquareOrder ==
    ASSUME NEW a \in Nat, NEW b \in Nat, a * a <= b * b
    PROVE  a <= b
<1>1. SUFFICES ASSUME b < a PROVE FALSE
  OBVIOUS
<1>2. PICK k \in Nat \ {0} : a = b + k
  <2>1. a - b \in Nat \ {0} /\ a = b + (a - b)
    BY <1>1
  <2> QED BY <2>1
<1>3. a * a = b * b + b * k + k * b + k * k
  BY <1>2
<1>4. b * k \in Nat /\ k * b \in Nat /\ k * k \in Nat /\ b * b \in Nat /\ k * k > 0
  OBVIOUS
<1> QED BY <1>3, <1>4

\* The window of any band is no longer than what the buffer was made for.
LEMMA WindowShort ==
    ASSUME NEW rate \in Nat, rate >= 4000, rate % 5 = 0, NEW r \in Nat \ {0},
           NEW k \in Nat, k > 0,
           NEW power \in Nat \ {0},
           ((rate \div 5) * (rate \div 5)) \div (256 * (r * r))
             >= ((2 * k - 1) * (2 * k - 1)) * power
    PROVE  2 * k <= 2 * (1 + rate \div 160)
<1>1. PICK v \in Nat : v = rate \div 5 /\ rate = 5 * v
  OBVIOUS
<1>2. PICK d \in Nat : d = rate \div 160 /\ rate < 160 * d + 160
  OBVIOUS
<1>3. PICK m \in Nat : m = 2 * k - 1
  OBVIOUS
<1>4. PICK s \in Nat, q \in Nat \ {0}, w \in Nat : s = m * m /\ q = r * r /\ w = v * v
  <2>1. m * m \in Nat /\ r * r \in Nat \ {0} /\ v * v \in Nat
    OBVIOUS
  <2> QED BY <2>1
<1>5. w \div (256 * q) >= s * power
  BY <1>1, <1>3, <1>4
<1>6. (256 * q) * (w \div (256 * q)) <= w /\ w \div (256 * q) \in Nat
  <2>1. PICK g \in Nat \ {0} : g = 256 * q
    OBVIOUS
  <2>2. g * (w \div g) <= w /\ w \div g \in Nat
    BY DividedBy
  <2> QED BY <2>1, <2>2
<1>7. s <= s * power
  <2>1. PICK p \in Nat : power = p + 1
    <3>1. power - 1 \in Nat /\ power = (power - 1) + 1
      OBVIOUS
    <3> QED BY <3>1
  <2>2. s * power = s * p + s /\ s * p \in Nat
    BY <2>1
  <2> QED BY <2>2
<1>8. 256 * s <= w
  <2>1. PICK u \in Nat : u = w \div (256 * q)
    BY <1>6
  <2>2. s <= u
    <3>1. s * power \in Nat
      OBVIOUS
    <3> QED BY <1>5, <1>7, <2>1, <3>1
  <2>3. 256 * u <= (256 * q) * u
    <3>1. PICK p \in Nat : q = p + 1
      <4>1. q - 1 \in Nat /\ q = (q - 1) + 1
        OBVIOUS
      <4> QED BY <4>1
    <3>2. (256 * q) * u = 256 * (p * u) + 256 * u /\ p * u \in Nat
      BY <3>1
    <3> QED BY <3>2
  <2>4. (256 * q) * u \in Nat
    OBVIOUS
  <2> QED BY <1>6, <2>1, <2>2, <2>3, <2>4
<1>9. (16 * m) * (16 * m) <= v * v
  <2>1. (16 * m) * (16 * m) = 256 * (m * m)
    OBVIOUS
  <2> QED BY <1>4, <1>8, <2>1
<1>10. 16 * m <= v
  <2>1. 16 * m \in Nat
    OBVIOUS
  <2> QED BY <1>9, <2>1, SquareOrder
<1> QED BY <1>1, <1>2, <1>3, <1>10

FilterInv ==
    /\ filterYLen \in Nat \ {0} /\ filterFftl \in Nat /\ filterHalfAverageLength \in Nat
    /\ filterYLen + 2 * filterHalfAverageLength < filterFftl
    /\ filterPc \in {"window", "multiply", "inverse", "shift", "done"}
    /\ filterPc = "multiply" => Padded
    /\ filterPc = "inverse" =>
          \A n \in Elements : n <= filterFftl \div 2 => eSpec[n] = "signal * window"
    /\ filterPc = "shift" => \A n \in Elements : equivalentFIR[n] = Filtered(n)
    /\ filterPc = "done" =>
          \A n \in 0 .. filterYLen - 1 : equivalentFIR[n] = Filtered(n + indexBias)

LEMMA FilterStart == FilterInit => FilterInv
<1>. SUFFICES ASSUME FilterInit PROVE FilterInv
  OBVIOUS
<1>1. /\ filterFs \in Nat /\ filterFs >= 4000 /\ filterFs % 5 = 0
      /\ filterXLen \in Nat /\ band \in 0 .. 6
  BY FilterAssumption DEF FilterInit
<1>2. filterDecimationRatio \in Nat \ {0}
  BY <1>1 DEF filterDecimationRatio
<1>3. filterYLen \in Nat \ {0}
  <2>1. filterXLen \div filterDecimationRatio \in Nat
    BY <1>1, <1>2, DividedBy
  <2> QED BY <2>1 DEF filterYLen
<1>4. PICK k \in 1 .. 30 : Above(2 ^ k) /\ filterFftl = 2 ^ k
  BY DEF FilterInit
<1>5. filterFftl \in Nat /\ filterYLen + 4 * (1 + filterFs \div 160) < filterFftl
  BY <1>4, PowersAreNat DEF Above
<1>6. filterHalfAverageLength \in Nat /\ HalfAverageLength(filterHalfAverageLength)
  BY DEF FilterInit
<1>7. 2 * filterHalfAverageLength <= 4 * (1 + filterFs \div 160)
  <2>1. filterFs \div 160 \in Nat
    BY <1>1
  <2>2. CASE filterHalfAverageLength = 0
    BY <2>1, <2>2
  <2>3. CASE filterHalfAverageLength > 0
    <3>0. PICK b \in 0 .. 6 : b = band
      BY <1>1
    <3>1. PICK power \in Nat \ {0} : power = 2 ^ band
      BY <3>0, BandPower
    <3>2. 2 * filterHalfAverageLength <= 2 * (1 + filterFs \div 160)
      BY <1>1, <1>2, <1>6, <2>3, <3>1, WindowShort DEF HalfAverageLength
    <3> QED BY <1>6, <2>1, <3>2
  <2> QED BY <1>6, <2>2, <2>3
<1>8. filterPc = "window"
  BY DEF FilterInit
<1>9. filterFs \div 160 \in Nat
  BY <1>1
<1> QED BY <1>3, <1>5, <1>6, <1>7, <1>8, <1>9 DEF FilterInv

LEMMA FilterStep ==
    ASSUME FilterInv, [FilterNext]_filterVars
    PROVE  FilterInv'
<1>0. /\ filterYLen \in Nat \ {0} /\ filterFftl \in Nat /\ filterHalfAverageLength \in Nat
      /\ filterYLen + 2 * filterHalfAverageLength < filterFftl
      /\ Elements = 0 .. filterFftl - 1
  BY DEF FilterInv, Elements
<1>1. ASSUME UNCHANGED <<filterFs, filterXLen, band, filterFftl, filterHalfAverageLength>>
      PROVE  /\ filterYLen' = filterYLen /\ Elements' = Elements /\ indexBias' = indexBias
             /\ filterFftl' = filterFftl /\ filterHalfAverageLength' = filterHalfAverageLength
  BY <1>1 DEF filterYLen, filterDecimationRatio, Elements, indexBias
<1>2. CASE MakeWindow
  <2>1. Padded'
    <3>1. \A n \in Elements : ~(n < 4 * filterHalfAverageLength) =>
                                 n >= 2 * filterHalfAverageLength
      BY <1>0
    <3> QED BY <1>1, <1>2, <3>1 DEF MakeWindow, Padded
  <2> QED BY <1>0, <1>1, <1>2, <2>1 DEF MakeWindow, FilterInv
<1>3. CASE Multiply
  BY <1>0, <1>1, <1>3 DEF Multiply, FilterInv
<1>4. CASE InverseTransform
  <2>1. \A k \in 0 .. filterFftl \div 2 : k \in Elements /\ k <= filterFftl \div 2
    BY <1>0
  <2>2. \A k \in 0 .. filterFftl \div 2 : eSpec[k] = "signal * window"
    <3>1. filterPc = "inverse"
      BY <1>4 DEF InverseTransform
    <3>2. \A n \in Elements : n <= filterFftl \div 2 => eSpec[n] = "signal * window"
      BY <3>1 DEF FilterInv
    <3> QED BY <2>1, <3>2
  <2>3. /\ filterPc' = "shift" /\ equivalentFIR' = [n \in Elements |-> Filtered(n)]
        /\ UNCHANGED <<filterFs, filterXLen, band, filterFftl, filterHalfAverageLength>>
    BY <1>4, <2>2 DEF InverseTransform
  <2> QED BY <1>0, <1>1, <2>3 DEF FilterInv
<1>5. CASE Shift
  <2>1. ASSUME NEW n \in 0 .. filterYLen - 1
        PROVE  n \in Elements /\ n < filterYLen /\ n + indexBias \in Elements
    BY <1>0 DEF indexBias
  <2>2. \A n \in 0 .. filterYLen - 1 : equivalentFIR'[n] = Filtered(n + indexBias)
    BY <1>5, <2>1 DEF Shift, At, FilterInv
  <2> QED BY <1>0, <1>1, <1>5, <2>2 DEF Shift, FilterInv
<1>6. CASE UNCHANGED filterVars
  <2>1. UNCHANGED <<filterFs, filterXLen, band, filterFftl, filterHalfAverageLength,
                    equivalentFIR, eSpec, filterPc>>
    BY <1>6 DEF filterVars
  <2>2. Padded' = Padded
    BY <1>1, <2>1 DEF Padded
  <2>3. \A n : Filtered(n + indexBias)' = Filtered(n + indexBias)
    BY <1>1, <2>1
  <2> QED BY <1>0, <1>1, <2>1, <2>2, <2>3 DEF FilterInv
<1> QED BY <1>2, <1>3, <1>4, <1>5, <1>6 DEF FilterNext, FilterEnded

LEMMA FilterInvariant == FilterSpec => []FilterInv
BY FilterStart, FilterStep, PTL DEF FilterSpec

\* What is less than the buffer before or after 0 goes round it once.
LEMMA Round ==
    ASSUME NEW p \in Nat, NEW a \in Int, -p < a, a < p
    PROVE  a % p = IF a >= 0 THEN a ELSE p + a
<1>1. PICK q \in Int : q = a \div p
  OBVIOUS
<1>2. a = p * q + (a % p) /\ a % p \in 0 .. p - 1
  BY <1>1
<1>3. CASE q >= 1
  <2>1. PICK k \in Nat : q = 1 + k
    <3>1. q - 1 \in Nat /\ q = 1 + (q - 1)
      BY <1>3
    <3> QED BY <3>1
  <2>2. p * q = p + p * k /\ p * k \in Nat
    BY <2>1
  <2> QED BY <1>2, <2>2
<1>4. CASE q <= -2
  <2>1. PICK k \in Nat : q = -2 - k
    <3>1. -2 - q \in Nat /\ q = -2 - (-2 - q)
      BY <1>4
    <3> QED BY <3>1
  <2>2. p * q = -(2 * p) - p * k /\ p * k \in Nat
    BY <2>1
  <2> QED BY <1>2, <2>2
<1>5. CASE q = 0
  <2>1. p * q = 0
    BY <1>5
  <2> QED BY <1>2, <2>1
<1>6. CASE q = -1
  <2>1. p * q = -p
    BY <1>6
  <2> QED BY <1>2, <2>1
<1> QED BY <1>1, <1>3, <1>4, <1>5, <1>6

\* For every rate from 4 kHz on, every length and band: each sample of the output is
\* made of the samples around its own, and of them all.
THEOREM FilterIsCentred == FilterSpec => []CentredOnSample
<1>1. ASSUME FilterInv PROVE CentredOnSample
  <2>1. SUFFICES ASSUME filterPc = "done", NEW n \in 0 .. filterYLen - 1
                 PROVE  /\ equivalentFIR[n] = Filtered(n + indexBias)
                        /\ Made(n + indexBias) =
                              {m \in 0 .. filterYLen - 1 :
                                 n - indexBias < m /\ m <= n + indexBias}
    BY DEF CentredOnSample
  <2>2. PICK p \in Nat, w \in Nat, l \in Nat :
           /\ p = filterFftl /\ w = filterHalfAverageLength /\ l = filterYLen
           /\ l + 2 * w < p
    BY <1>1 DEF FilterInv
  <2>3. n \in Nat /\ n < l /\ indexBias = 2 * w
    BY <2>2 DEF indexBias
  <2>4. ASSUME NEW m \in 0 .. l - 1
        PROVE  ((n + 2 * w) - m) % p < 4 * w <=> n - 2 * w < m /\ m <= n + 2 * w
    <3>1. PICK a \in Int : a = (n + 2 * w) - m
      BY <2>3
    <3>2. -p < a /\ a < p
      BY <2>2, <2>3, <3>1
    <3>3. a % p = IF a >= 0 THEN a ELSE p + a
      BY <3>2, Round
    <3> QED BY <2>2, <2>3, <3>1, <3>3
  <2>5. \A m \in 0 .. filterYLen - 1 :
           ((n + indexBias) - m) % filterFftl < 4 * filterHalfAverageLength
             <=> n - indexBias < m /\ m <= n + indexBias
    BY <2>2, <2>3, <2>4
  <2>6. Made(n + indexBias) =
           {m \in 0 .. filterYLen - 1 : n - indexBias < m /\ m <= n + indexBias}
    <3>1. \A m : m \in Made(n + indexBias) <=>
             /\ m \in 0 .. filterYLen - 1
             /\ ((n + indexBias) - m) % filterFftl < 4 * filterHalfAverageLength
      BY DEF Made
    <3> QED BY <2>5, <3>1
  <2> QED BY <1>1, <2>1, <2>6 DEF FilterInv
<1> QED BY <1>1, FilterInvariant, PTL

-----------------------------------------------------------------------------
(* ZeroCrossing *)

LEMMA NegativeProduct ==
    ASSUME NEW a \in Int, NEW b \in Int, a * b < 0, b < a
    PROVE  a > 0 /\ b < 0
<1>1. CASE a <= 0
    <2>1. a * b >= 0 BY <1>1
    <2> QED BY <2>1
<1>2. CASE b >= 0
    <2>1. a * b >= 0 BY <1>2
    <2> QED BY <2>1
<1> QED BY <1>1, <1>2

\* A crossing lies between the samples around it.
LEMMA FinePlace ==
    ASSUME NEW s \in [0 .. Length - 1 -> Int], NEW n \in 0 .. Length,
           NEW e \in Edges(s, n)
    PROVE  /\ e \in 1 .. Length - 1 /\ s[e - 1] > 0 /\ s[e] < 0
           /\ Fine(s, e) \in Int
           /\ Unit * e <= Fine(s, e) /\ Fine(s, e) < Unit * e + Unit
<1>1. /\ e \in 1 .. n - 1 /\ e - 1 \in 0 .. Length - 1 /\ e \in 0 .. Length - 1
      /\ s[e - 1] * s[e] < 0 /\ s[e] < s[e - 1]
    BY CrossingLengthAssumption DEF Edges
<1>2. PICK a \in Int : a = s[e - 1] BY <1>1
<1>3. PICK b \in Int : b = s[e] BY <1>1
<1>4. a > 0 /\ b < 0 BY <1>1, <1>2, <1>3, NegativeProduct
<1>5. PICK d \in Nat \ {0} : d = a - b BY <1>4
<1>6. PICK u \in Nat \ {0} : u = Unit BY UnitAssumption
<1>7. PICK m \in Nat : m = u * a BY <1>4
<1>8. PICK q \in Int : q = m \div d BY <1>5
<1>9. /\ m = d * q + (m % d)
      /\ m % d \in 0 .. d - 1
    BY <1>5, <1>7, <1>8
<1>10. u * d = m + u * (-b) /\ u * (-b) > 0 BY <1>3, <1>4, <1>5, <1>6, <1>7
<1>11. d * q < d * u
    <2>1. d * u = u * d /\ d * q \in Int /\ u * (-b) \in Int BY <1>3, <1>5, <1>6, <1>8
    <2> QED BY <1>7, <1>9, <1>10, <2>1
<1>12. q < u BY <1>5, <1>6, <1>8, <1>11, ProductSign
<1>13. q >= 0
    <2>1. SUFFICES ASSUME q < 0 PROVE FALSE OBVIOUS
    <2>2. PICK j \in Nat : q = -1 - j BY <2>1
    <2>3. d * q = -d - d * j /\ d * j >= 0 /\ d * j \in Int BY <1>5, <2>2
    <2> QED BY <1>9, <2>3
<1>14. Fine(s, e) = Unit * e + q
    BY <1>2, <1>3, <1>5, <1>6, <1>7, <1>8 DEF Fine
<1>15. Unit * e \in Int BY <1>1, <1>6
<1> QED BY <1>1, <1>2, <1>3, <1>4, <1>6, <1>12, <1>13, <1>14, <1>15

\* Below a crossing downwards comes at least one sample before the next.
LEMMA FineApart ==
    ASSUME NEW s \in [0 .. Length - 1 -> Int], NEW n \in 0 .. Length,
           NEW d \in Edges(s, n), NEW e \in Edges(s, n),
           Fine(s, d) < Fine(s, e)
    PROVE  Fine(s, e) - Fine(s, d) > Unit
<1>1. /\ d \in 1 .. Length - 1 /\ s[d - 1] > 0 /\ s[d] < 0
      /\ Fine(s, d) \in Int
      /\ Unit * d <= Fine(s, d) /\ Fine(s, d) < Unit * d + Unit
    BY FinePlace
<1>2. /\ e \in 1 .. Length - 1 /\ s[e - 1] > 0 /\ s[e] < 0
      /\ Fine(s, e) \in Int
      /\ Unit * e <= Fine(s, e) /\ Fine(s, e) < Unit * e + Unit
    BY FinePlace
<1>3. PICK u \in Nat \ {0} : u = Unit BY UnitAssumption
<1>4. PICK v \in Int, w \in Int : v = Fine(s, d) /\ w = Fine(s, e) BY <1>1, <1>2
<1>5. PICK pd \in Int, pe \in Int : pd = u * d /\ pe = u * e BY <1>1, <1>2
<1>6. pd <= v /\ v < pd + u /\ pe <= w /\ w < pe + u /\ v < w
    BY <1>1, <1>2, <1>3, <1>4, <1>5
<1>7. d < e
    <2>1. SUFFICES ASSUME e <= d PROVE FALSE BY <1>1, <1>2
    <2>2. e # d BY <1>4, <1>6
    <2>3. PICK k \in Nat : d = e + 1 + k BY <1>1, <1>2, <2>1, <2>2
    <2>4. PICK r \in Nat : r = u * k OBVIOUS
    <2>5. pd = pe + u + r BY <1>2, <1>5, <2>3, <2>4
    <2> QED BY <1>6, <2>5
<1>8. e # d + 1 BY <1>1, <1>2
<1>9. PICK k \in Nat : e = d + 2 + k BY <1>1, <1>2, <1>7, <1>8
<1>10. PICK r \in Nat : r = u * k OBVIOUS
<1>11. pe = pd + u + u + r BY <1>1, <1>5, <1>9, <1>10
<1>12. w - v > u BY <1>6, <1>11
<1> QED BY <1>3, <1>4, <1>12

\* The signals that the four searches are made of.
Indices == 0 .. Length - 1
Negative(s) == [k \in Indices |-> -s[k]]
Rises(s) == [k \in Indices |-> IF k < Length - 1 THEN s[k + 1] - s[k] ELSE -s[k]]
Falls(s) == [k \in Indices |-> IF k < Length - 1 THEN s[k] - s[k + 1] ELSE -s[k]]

SignalOf(t) ==
    CASE t = "n" -> filtered
      [] t = "p" -> Negative(filtered)
      [] t = "dn" -> Rises(filtered)
      [] t = "dp" -> Falls(filtered)
LengthOf(t) == IF t \in {"n", "p"} THEN Length ELSE Length - 1
Searched ==
    CASE crossingPc = "n" -> {}
      [] crossingPc = "p" -> {"n"}
      [] crossingPc = "dn" -> {"n", "p"}
      [] crossingPc = "dp" -> {"n", "p", "dn"}
      [] OTHER -> Trains

FineEdges(s, n) == {Fine(s, e) : e \in Edges(s, n)}

CrossingInv ==
    /\ filtered \in [Indices -> Int] /\ edges \in [Trains -> SUBSET Int]
    /\ crossingPc \in Trains \cup {"decide", "done"}
    /\ crossingPc \in Trains => crossingX = SignalOf(crossingPc)
    /\ \A t \in Trains :
          edges[t] = IF t \in Searched THEN FineEdges(SignalOf(t), LengthOf(t)) ELSE {}
    /\ \A t \in outside : t \in Searched /\ edges[t] = {}
    /\ usable \in BOOLEAN
    /\ usable => crossingPc = "done" /\ \A t \in Trains : iLen(t) - 2 > 0
    /\ crossingPc = "done" /\ ~usable => \E t \in Trains : ~(iLen(t) - 2 > 0)

LEMMA SignalsAre ==
    ASSUME NEW s \in [Indices -> Int]
    PROVE  /\ Negative(s) \in [Indices -> Int]
           /\ Rises(s) \in [Indices -> Int]
           /\ Falls(s) \in [Indices -> Int]
<1>1. \A k \in Indices : k < Length - 1 => k + 1 \in Indices
  BY CrossingLengthAssumption DEF Indices
<1> QED BY <1>1 DEF Negative, Rises, Falls

LEMMA SignalIs ==
    ASSUME filtered \in [Indices -> Int], NEW t \in Trains
    PROVE  /\ SignalOf(t) \in [0 .. Length - 1 -> Int]
           /\ LengthOf(t) \in 0 .. Length
<1>1. LengthOf(t) \in 0 .. Length
  BY CrossingLengthAssumption DEF LengthOf
<1>2. SignalOf(t) \in [Indices -> Int]
  BY SignalsAre DEF SignalOf, Trains
<1> QED BY <1>1, <1>2 DEF Indices

LEMMA CrossingStart == CrossingInit => CrossingInv
<1>. SUFFICES ASSUME CrossingInit PROVE CrossingInv
  OBVIOUS
<1>1. filtered \in [Indices -> Int]
  BY SampleAssumption DEF CrossingInit, Indices
<1>2. Searched = {}
  BY DEF Searched, CrossingInit
<1> QED BY <1>1, <1>2 DEF CrossingInit, CrossingInv, SignalOf, Trains

\* One search makes one train and leaves the others.
LEMMA SearchInv ==
    ASSUME CrossingInv, NEW t \in Trains, crossingPc = t, Search(t, LengthOf(t)),
           UNCHANGED <<filtered, usable>>,
           crossingPc' \in Trains \cup {"decide"}, t \notin Searched,
           Searched' = Searched \cup {t},
           crossingPc' \in Trains => crossingX' = SignalOf(crossingPc')
    PROVE  CrossingInv'
<1>1. \A r \in Trains : SignalOf(r)' = SignalOf(r)
  BY DEF SignalOf
<1>2. SignalOf(t) \in [0 .. Length - 1 -> Int] /\ LengthOf(t) \in 0 .. Length
  BY SignalIs DEF CrossingInv
<1>3. FineEdges(SignalOf(t), LengthOf(t)) \in SUBSET Int
  BY <1>2, FinePlace DEF FineEdges
<1>4. edges' = [edges EXCEPT ![t] = FineEdges(SignalOf(t), LengthOf(t))]
  BY DEF Search, FineEdges, CrossingInv
<1>5. edges' \in [Trains -> SUBSET Int]
  BY <1>3, <1>4 DEF CrossingInv
<1>6. ASSUME NEW r \in Trains
      PROVE  edges'[r] = IF r \in Searched' THEN FineEdges(SignalOf(r)', LengthOf(r)) ELSE {}
  <2>1. edges \in [Trains -> SUBSET Int]
    BY DEF CrossingInv
  <2>2. CASE r = t
    BY <1>1, <1>4, <2>1, <2>2
  <2>3. CASE r # t
    BY <1>1, <1>4, <2>1, <2>3 DEF CrossingInv
  <2> QED BY <2>2, <2>3
<1>7. ASSUME NEW r \in outside' PROVE r \in Searched' /\ edges'[r] = {}
  <2>1. outside' = outside \cup Missed(t, LengthOf(t)) /\ edges \in [Trains -> SUBSET Int]
    BY DEF Search, CrossingInv
  <2>2. CASE r \in outside
    <3>1. r \in Searched /\ edges[r] = {} /\ r # t
      BY <2>2 DEF CrossingInv
    <3> QED BY <1>4, <2>1, <3>1
  <2>3. CASE r \in Missed(t, LengthOf(t))
    <3>1. r = t /\ Edges(SignalOf(t), LengthOf(t)) = {}
      BY <2>3 DEF Missed, CrossingInv
    <3>2. FineEdges(SignalOf(t), LengthOf(t)) = {}
      BY <3>1 DEF FineEdges
    <3> QED BY <1>4, <2>1, <3>1, <3>2
  <2> QED BY <2>1, <2>2, <2>3
<1>8. usable = FALSE /\ usable' = FALSE
  BY DEF CrossingInv, Trains
<1>9. \A r \in Trains : crossingPc' = r => SignalOf(crossingPc)' = SignalOf(crossingPc')
  BY DEF SignalOf
<1>10. crossingPc' # "done"
  BY DEF Trains
<1>. HIDE DEF Trains
<1> QED BY <1>5, <1>6, <1>7, <1>8, <1>9, <1>10 DEF CrossingInv

LEMMA CrossingStep ==
    ASSUME CrossingInv, [CrossingNext]_crossingVars
    PROVE  CrossingInv'
<1>0. /\ filtered \in [Indices -> Int] /\ Length \in Nat
      /\ \A k \in Indices : k \in Int
      /\ \A k \in Indices : k < Length - 1 => k + 1 \in Indices
  BY CrossingLengthAssumption DEF CrossingInv, Indices
<1>1. CASE SearchNegative
  <2>1. crossingPc = "n" /\ crossingX = filtered /\ crossingPc' = "p"
        /\ UNCHANGED <<filtered, usable>>
    BY <1>1 DEF SearchNegative, CrossingInv, SignalOf, Trains
  <2>2. crossingX' = SignalOf(crossingPc')
    BY <1>0, <1>1, <2>1 DEF SearchNegative, SignalOf, Negative
  <2>3. Searched = {} /\ Searched' = {"n"}
    BY <2>1 DEF Searched
  <2>4. Search("n", LengthOf("n")) /\ "n" \in Trains /\ "p" \in Trains
    BY <1>1 DEF SearchNegative, LengthOf, Trains
  <2> QED BY <2>1, <2>2, <2>3, <2>4, SearchInv
<1>2. CASE SearchPositive
  <2>1. crossingPc = "p" /\ crossingX = Negative(filtered) /\ crossingPc' = "dn"
        /\ UNCHANGED <<filtered, usable>>
    BY <1>2 DEF SearchPositive, CrossingInv, SignalOf, Trains
  <2>2. crossingX' = Rises(filtered)
    <3>1. \A k \in Indices : k < Length - 1 =>
             Negative(filtered)[k] - Negative(filtered)[k + 1] = filtered[k + 1] - filtered[k]
      BY <1>0 DEF Negative
    <3>2. crossingX' = [k \in Indices |-> IF k < Length - 1
             THEN Negative(filtered)[k] - Negative(filtered)[k + 1] ELSE Negative(filtered)[k]]
      BY <1>2, <2>1 DEF SearchPositive, Negative
    <3>3. \A k \in Indices : Negative(filtered)[k] = -filtered[k]
      BY DEF Negative
    <3> QED BY <3>1, <3>2, <3>3 DEF Rises
  <2>3. Searched = {"n"} /\ Searched' = {"n", "p"} /\ crossingX' = SignalOf(crossingPc')
    BY <2>1, <2>2 DEF Searched, SignalOf
  <2>4. Search("p", LengthOf("p")) /\ "p" \in Trains /\ "dn" \in Trains
    BY <1>2 DEF SearchPositive, LengthOf, Trains
  <2> QED BY <2>1, <2>3, <2>4, SearchInv
<1>3. CASE SearchPeaks
  <2>1. crossingPc = "dn" /\ crossingX = Rises(filtered) /\ crossingPc' = "dp"
        /\ UNCHANGED <<filtered, usable>>
    BY <1>3 DEF SearchPeaks, CrossingInv, SignalOf, Trains
  <2>2. crossingX' = Falls(filtered)
    <3>1. \A k \in Indices : k < Length - 1 =>
             -(Rises(filtered)[k]) = filtered[k] - filtered[k + 1]
      BY <1>0 DEF Rises
    <3>2. crossingX' = [k \in Indices |-> IF k < Length - 1
             THEN -(Rises(filtered)[k]) ELSE Rises(filtered)[k]]
      BY <1>3, <2>1 DEF SearchPeaks, Rises
    <3>3. \A k \in Indices : ~(k < Length - 1) => Rises(filtered)[k] = -filtered[k]
      BY DEF Rises
    <3> QED BY <3>1, <3>2, <3>3 DEF Falls
  <2>3. Searched = {"n", "p"} /\ Searched' = {"n", "p", "dn"}
        /\ crossingX' = SignalOf(crossingPc')
    BY <2>1, <2>2 DEF Searched, SignalOf
  <2>4. Search("dn", LengthOf("dn")) /\ "dn" \in Trains /\ "dp" \in Trains
    BY <1>3 DEF SearchPeaks, LengthOf, Trains
  <2> QED BY <2>1, <2>3, <2>4, SearchInv
<1>4. CASE SearchValleys
  <2>1. crossingPc = "dp" /\ crossingPc' = "decide" /\ UNCHANGED <<filtered, usable>>
    BY <1>4 DEF SearchValleys
  <2>2. Searched = {"n", "p", "dn"} /\ Searched' = Trains
    BY <2>1 DEF Searched
  <2>3. Searched' = Searched \cup {"dp"} /\ "decide" \notin Trains
    BY <2>2 DEF Trains
  <2>4. Search("dp", LengthOf("dp")) /\ "dp" \in Trains
    BY <1>4 DEF SearchValleys, LengthOf, Trains
  <2> QED BY <2>1, <2>2, <2>3, <2>4, SearchInv
<1>5. CASE Decide
  <2>1. /\ crossingPc = "decide" /\ crossingPc' = "done"
        /\ UNCHANGED <<filtered, crossingX, edges, outside>>
        /\ usable' = (\A t \in Trains : iLen(t) - 2 > 0)
    BY <1>5 DEF Decide
  <2>2. Searched' = Searched /\ \A t \in Trains : SignalOf(t)' = SignalOf(t)
    BY <2>1 DEF Searched, SignalOf
  <2>3. \A t \in Trains : iLen(t)' = iLen(t)
    BY <2>1 DEF iLen
  <2>4. "done" \notin Trains
    BY DEF Trains
  <2>. HIDE DEF Trains
  <2> QED BY <2>1, <2>2, <2>3, <2>4 DEF CrossingInv
<1>6. CASE UNCHANGED crossingVars
  <2>1. UNCHANGED <<filtered, crossingX, edges, outside, usable, crossingPc>>
    BY <1>6 DEF crossingVars
  <2>2. /\ Searched' = Searched /\ SignalOf(crossingPc)' = SignalOf(crossingPc)
        /\ \A t \in Trains : SignalOf(t)' = SignalOf(t) /\ iLen(t)' = iLen(t)
    BY <2>1 DEF Searched, SignalOf, iLen
  <2>. HIDE DEF Trains
  <2> QED BY <2>1, <2>2 DEF CrossingInv
<1> QED BY <1>1, <1>2, <1>3, <1>4, <1>5, <1>6 DEF CrossingNext, CrossingFinished

LEMMA CrossingInvariant == CrossingSpec => []CrossingInv
BY CrossingStart, CrossingStep, PTL DEF CrossingSpec

\* The train t as a search made it, of a signal of integers.
LEMMA TrainIs ==
    ASSUME CrossingInv, NEW t \in Trains, edges[t] # {}
    PROVE  /\ SignalOf(t) \in [0 .. Length - 1 -> Int] /\ LengthOf(t) \in 0 .. Length
           /\ edges[t] = FineEdges(SignalOf(t), LengthOf(t))
BY SignalIs DEF CrossingInv

LEMMA InvApart == CrossingInv => Apart
<1> SUFFICES ASSUME CrossingInv, NEW t \in Trains, NEW d \in edges[t], NEW e \in edges[t],
                    d < e
             PROVE  e - d > Unit
    BY DEF Apart
<1>1. PICK s \in [0 .. Length - 1 -> Int], n \in 0 .. Length : edges[t] = FineEdges(s, n)
  BY TrainIs
<1>2. PICK b \in Edges(s, n) : d = Fine(s, b)
  BY <1>1 DEF FineEdges
<1>3. PICK c \in Edges(s, n) : e = Fine(s, c)
  BY <1>1 DEF FineEdges
<1> QED BY <1>2, <1>3, FineApart

\* Places are in the order of the samples they are of.
LEMMA FineOrder ==
    ASSUME NEW d \in Int, NEW e \in Int, NEW v \in Int, NEW w \in Int,
           Unit * d <= v, v < Unit * d + Unit, Unit * e <= w, w < Unit * e + Unit
    PROVE  /\ v < w => d <= e
           /\ d < e => v < w
<1>1. PICK u \in Nat \ {0} : u = Unit
  BY UnitAssumption
<1>2. PICK p \in Int, q \in Int : p = u * d /\ q = u * e
  OBVIOUS
<1>3. ASSUME d < e PROVE v < w
  <2>1. PICK k \in Nat : e = d + 1 + k
    BY <1>3
  <2>2. PICK r \in Nat : r = u * k
    OBVIOUS
  <2>3. q = p + u + r
    BY <1>2, <2>1, <2>2
  <2> QED BY <1>1, <1>2, <2>3
<1>4. ASSUME e < d PROVE w < v
  <2>1. PICK k \in Nat : d = e + 1 + k
    BY <1>4
  <2>2. PICK r \in Nat : r = u * k
    OBVIOUS
  <2>3. p = q + u + r
    BY <1>2, <2>1, <2>2
  <2> QED BY <1>1, <1>2, <2>3
<1> QED BY <1>3, <1>4

LEMMA TrainFinite ==
    ASSUME CrossingInv, NEW t \in Trains
    PROVE  IsFiniteSet(edges[t]) /\ edges[t] \in SUBSET Nat
<1>1. CASE edges[t] = {}
  BY <1>1, FS_EmptySet
<1>2. CASE edges[t] # {}
  <2>1. PICK s \in [0 .. Length - 1 -> Int], n \in 0 .. Length : edges[t] = FineEdges(s, n)
    BY <1>2, TrainIs
  <2>2. IsFiniteSet(Edges(s, n))
    <3>1. n \in Nat
      BY CrossingLengthAssumption
    <3>2. IsFiniteSet(1 .. n - 1) /\ Edges(s, n) \in SUBSET (1 .. n - 1)
      BY <3>1, FS_Interval DEF Edges
    <3> QED BY <3>2, FS_Subset
  <2>. DEFINE f == [e \in Edges(s, n) |-> Fine(s, e)]
  <2>3. IsFiniteSet(edges[t])
    <3>1. \A v \in edges[t] : \E e \in Edges(s, n) : v = f[e]
      BY <2>1 DEF FineEdges
    <3>. HIDE DEF f
    <3> QED BY <2>2, <3>1, ImageFinite
  <2>4. \A e \in Edges(s, n) : Fine(s, e) \in Nat
    <3>1. ASSUME NEW e \in Edges(s, n) PROVE Fine(s, e) \in Nat
      <4>1. e \in Nat /\ Fine(s, e) \in Int /\ Unit * e <= Fine(s, e)
        BY FinePlace, CrossingLengthAssumption
      <4>2. Unit * e \in Nat
        BY <4>1, UnitAssumption
      <4> QED BY <4>1, <4>2
    <3> QED BY <3>1
  <2> QED BY <2>1, <2>3, <2>4 DEF FineEdges
<1> QED BY <1>1, <1>2

-----------------------------------------------------------------------------
(* The intervals of a train *)

NeighboursIn(S) ==
    {p \in S \X S : p[1] < p[2] /\ ~ \E e \in S : p[1] < e /\ e < p[2]}

\* All members but one have a next.
LEMMA NextInSet ==
    ASSUME NEW S \in SUBSET Nat, NEW a \in S, NEW b \in S, a < b
    PROVE  \E c \in S : <<a, c>> \in NeighboursIn(S)
<1>. DEFINE T == {c \in S : a < c}
<1>1. PICK c \in T : \A d \in T : c <= d
  <2>1. b \in T /\ T \in SUBSET Nat
    OBVIOUS
  <2> QED BY <2>1, LeastMember
<1>2. c \in S /\ a < c
  BY <1>1
<1>3. ~ \E e \in S : a < e /\ e < c
  <2>1. ASSUME NEW e \in S, a < e, e < c PROVE FALSE
    <3>1. c <= e
      BY <1>1, <2>1
    <3> QED BY <1>2, <2>1, <3>1
  <2> QED BY <2>1
<1>4. <<a, c>> \in S \X S /\ <<a, c>>[1] = a /\ <<a, c>>[2] = c
  BY <1>2
<1> QED BY <1>2, <1>3, <1>4 DEF NeighboursIn

LEMMA NeighboursCount ==
    ASSUME NEW S \in SUBSET Nat, IsFiniteSet(S), Cardinality(S) > 0
    PROVE  IsFiniteSet(NeighboursIn(S)) /\ Cardinality(NeighboursIn(S)) >= Cardinality(S) - 1
<1>. DEFINE N == NeighboursIn(S)
            W == {p[1] : p \in N}
<1>1. IsFiniteSet(N)
  <2>1. IsFiniteSet(S \X S) /\ N \in SUBSET (S \X S)
    BY FS_Product DEF NeighboursIn
  <2> QED BY <2>1, FS_Subset
<1>2. IsFiniteSet(W) /\ Cardinality(W) <= Cardinality(N)
  <2>. DEFINE f == [p \in N |-> p[1]]
  <2>1. \A v \in W : \E p \in N : v = f[p]
    OBVIOUS
  <2> QED BY <1>1, <2>1, ImageFinite
<1>3. W \in SUBSET S
  BY DEF NeighboursIn
<1>4. \A a \in S, b \in S : a < b => a \in W
  <2>1. ASSUME NEW a \in S, NEW b \in S, a < b PROVE a \in W
    <3>1. PICK c \in S : <<a, c>> \in N
      BY <2>1, NextInSet
    <3>2. <<a, c>>[1] = a
      OBVIOUS
    <3> QED BY <3>1, <3>2
  <2> QED BY <2>1
<1>5. Cardinality(W) \in Nat /\ Cardinality(N) \in Nat /\ Cardinality(S) \in Nat
  BY <1>1, <1>2, FS_CardinalityType
<1>. HIDE DEF N, W
<1>6. CASE W = S
  BY <1>1, <1>2, <1>5, <1>6 DEF N
<1>7. CASE W # S
  <2>1. PICK m \in S : m \notin W
    BY <1>3, <1>7
  <2>2. \A a \in S : a # m => a \in W
    <3>1. ASSUME NEW a \in S, a # m, a \notin W PROVE FALSE
      <4>1. ~(a < m) /\ ~(m < a) /\ a \in Nat /\ m \in Nat
        BY <1>4, <2>1, <3>1
      <4> QED BY <3>1, <4>1
    <3> QED BY <3>1
  <2>3. W = S \ {m}
    BY <1>3, <2>1, <2>2
  <2>4. Cardinality(W) = Cardinality(S) - 1
    BY <2>1, <2>3, FS_RemoveElement
  <2> QED BY <1>1, <1>2, <1>5, <2>4 DEF N
<1> QED BY <1>1, <1>6, <1>7 DEF N

LEMMA InvGrids == CrossingInv => GridsSorted
<1>1. SUFFICES ASSUME CrossingInv, usable, NEW t \in Trains
               PROVE  /\ Cardinality(Neighbours(t)) >= 3
                      /\ \A p, q \in Neighbours(t) : p[1] < q[1] => p[1] + p[2] < q[1] + q[2]
  BY DEF GridsSorted
<1>2. edges[t] \in SUBSET Nat /\ IsFiniteSet(edges[t]) /\ Cardinality(edges[t]) \in Nat
  BY <1>1, TrainFinite, FS_CardinalityType
<1>3. Neighbours(t) = NeighboursIn(edges[t])
  BY DEF Neighbours, NeighboursIn
<1>4. Cardinality(edges[t]) - 1 - 2 > 0
  BY <1>1 DEF CrossingInv, iLen
<1>5. Cardinality(Neighbours(t)) >= 3
  <2>1. Cardinality(NeighboursIn(edges[t])) >= Cardinality(edges[t]) - 1
        /\ IsFiniteSet(NeighboursIn(edges[t]))
    BY <1>2, <1>4, NeighboursCount
  <2>2. Cardinality(NeighboursIn(edges[t])) \in Nat
    BY <2>1, FS_CardinalityType
  <2> QED BY <1>2, <1>3, <1>4, <2>1, <2>2
<1>6. ASSUME NEW p \in Neighbours(t), NEW q \in Neighbours(t), p[1] < q[1]
      PROVE  p[1] + p[2] < q[1] + q[2]
  <2>1. /\ p[1] \in edges[t] /\ p[2] \in edges[t] /\ q[1] \in edges[t] /\ q[2] \in edges[t]
        /\ p[1] < p[2] /\ q[1] < q[2] /\ ~ \E e \in edges[t] : p[1] < e /\ e < p[2]
    BY DEF Neighbours
  <2>2. ~(q[1] < p[2])
    BY <1>6, <2>1
  <2>3. p[1] \in Nat /\ p[2] \in Nat /\ q[1] \in Nat /\ q[2] \in Nat
    BY <1>2, <2>1
  <2> QED BY <1>6, <2>1, <2>2, <2>3
<1> QED BY <1>5, <1>6

-----------------------------------------------------------------------------
(* What the crossings are *)

\* Between two crossings downwards a signal without zeros goes upwards.
LEMMA Between ==
    ASSUME NEW s \in [0 .. Length - 1 -> Int], \A k \in 0 .. Length - 1 : s[k] # 0,
           NEW a \in Edges(s, Length), NEW b \in Edges(s, Length), Fine(s, a) < Fine(s, b)
    PROVE  \E c \in Edges(Negative(s), Length) :
               /\ Fine(s, a) < Fine(Negative(s), c)
               /\ Fine(Negative(s), c) < Fine(s, b)
<1>1. /\ a \in 1 .. Length - 1 /\ s[a] < 0 /\ b \in 1 .. Length - 1 /\ s[b - 1] > 0
      /\ Fine(s, a) \in Int /\ Unit * a <= Fine(s, a) /\ Fine(s, a) < Unit * a + Unit
      /\ Fine(s, b) \in Int /\ Unit * b <= Fine(s, b) /\ Fine(s, b) < Unit * b + Unit
  <2>1. Length \in 0 .. Length
    BY CrossingLengthAssumption
  <2> QED BY <2>1, FinePlace
<1>2. a \in Nat /\ b \in Nat /\ Length \in Nat /\ a <= b
  BY <1>1, FineOrder, CrossingLengthAssumption
<1>. DEFINE T == {c \in Nat : a <= c /\ c < b /\ s[c] > 0}
<1>3. b - 1 \in T
  <2>1. a # b
    <3>1. Fine(s, a) # Fine(s, b)
      BY <1>1
    <3> QED BY <3>1
  <2> QED BY <1>1, <1>2, <2>1
<1>4. PICK c \in T : \A d \in T : c <= d
  <2>1. T \in SUBSET Nat
    OBVIOUS
  <2> QED BY <1>3, <2>1, LeastMember
<1>5. c \in Nat /\ a <= c /\ c < b /\ s[c] > 0
  BY <1>4
<1>6. a < c /\ c \in 1 .. Length - 1 /\ c - 1 \in 0 .. Length - 1 /\ c \in 0 .. Length - 1
  <2>1. c # a
    BY <1>1, <1>5
  <2> QED BY <1>1, <1>2, <1>5, <2>1
<1>7. s[c - 1] < 0 /\ s[c] \in Int /\ s[c - 1] \in Int
  <2>1. c - 1 \notin T
    <3>1. ~(c <= c - 1)
      BY <1>5
    <3> QED BY <1>4, <3>1
  <2>2. ~(s[c - 1] > 0)
    BY <1>2, <1>5, <1>6, <2>1
  <2>3. s[c - 1] # 0 /\ s[c - 1] \in Int
    BY <1>6
  <2> QED BY <1>6, <2>2, <2>3
<1>8. Negative(s)[c - 1] = -s[c - 1] /\ Negative(s)[c] = -s[c]
  BY <1>6 DEF Negative, Indices
<1>9. PICK u \in Int, v \in Int : u = -s[c - 1] /\ v = -s[c] /\ u > 0 /\ v < 0
  BY <1>5, <1>7
<1>10. u * v < 0
  BY <1>9
<1>11. c \in Edges(Negative(s), Length)
  BY <1>6, <1>8, <1>9, <1>10 DEF Edges
<1>12. /\ Fine(Negative(s), c) \in Int /\ Unit * c <= Fine(Negative(s), c)
       /\ Fine(Negative(s), c) < Unit * c + Unit
  <2>1. Negative(s) \in [0 .. Length - 1 -> Int] /\ Length \in 0 .. Length
    BY <1>2, SignalsAre DEF Indices
  <2> QED BY <1>11, <2>1, FinePlace
<1>13. Fine(s, a) < Fine(Negative(s), c) /\ Fine(Negative(s), c) < Fine(s, b)
  BY <1>1, <1>2, <1>5, <1>6, <1>12, FineOrder
<1> QED BY <1>11, <1>13

LEMMA InvAlternating == CrossingInv => Alternating
<1>1. SUFFICES ASSUME CrossingInv, crossingPc \notin {"n", "p"},
                      \A k \in DOMAIN filtered : filtered[k] # 0,
                      NEW s \in {"n", "p"}, NEW t \in {"n", "p"}, s # t,
                      NEW q \in Neighbours(s)
               PROVE  \E e \in edges[t] : q[1] < e /\ e < q[2]
  BY DEF Alternating
<1>2. "n" \in Searched /\ "p" \in Searched /\ "n" \in Trains /\ "p" \in Trains
  BY <1>1 DEF Searched, Trains
<1>3. /\ edges["n"] = FineEdges(filtered, Length)
      /\ edges["p"] = FineEdges(Negative(filtered), Length)
  BY <1>1, <1>2 DEF CrossingInv, SignalOf, LengthOf
<1>4. /\ filtered \in [0 .. Length - 1 -> Int] /\ \A k \in 0 .. Length - 1 : filtered[k] # 0
      /\ Negative(filtered) \in [0 .. Length - 1 -> Int]
      /\ \A k \in 0 .. Length - 1 : Negative(filtered)[k] = -filtered[k]
  BY <1>1, SignalsAre DEF CrossingInv, Indices, Negative
<1>5. \A k \in 0 .. Length - 1 : Negative(filtered)[k] # 0
  BY <1>4
<1>6. Negative(Negative(filtered)) = filtered
  <2>1. \A k \in 0 .. Length - 1 : -(Negative(filtered)[k]) = filtered[k]
    BY <1>4
  <2> QED BY <1>4, <2>1 DEF Negative, Indices
<1>7. PICK g \in [0 .. Length - 1 -> Int] :
         /\ \A k \in 0 .. Length - 1 : g[k] # 0
         /\ edges[s] = FineEdges(g, Length) /\ edges[t] = FineEdges(Negative(g), Length)
  <2>1. CASE s = "n"
    BY <1>1, <1>3, <1>4, <2>1
  <2>2. CASE s = "p"
    BY <1>1, <1>3, <1>4, <1>5, <1>6, <2>2
  <2> QED BY <1>1, <2>1, <2>2
<1>8. q[1] \in edges[s] /\ q[2] \in edges[s] /\ q[1] < q[2]
  BY DEF Neighbours
<1>9. PICK a \in Edges(g, Length), b \in Edges(g, Length) :
         q[1] = Fine(g, a) /\ q[2] = Fine(g, b)
  BY <1>7, <1>8 DEF FineEdges
<1>10. PICK c \in Edges(Negative(g), Length) :
          Fine(g, a) < Fine(Negative(g), c) /\ Fine(Negative(g), c) < Fine(g, b)
  BY <1>7, <1>8, <1>9, Between
<1> QED BY <1>7, <1>9, <1>10 DEF FineEdges

\* The place of a crossing, without what is between the samples.
LEMMA PlaceOf ==
    ASSUME NEW e \in Nat, NEW v \in Int, Unit * e <= v, v < Unit * e + Unit
    PROVE  v \div Unit = e
<1>1. PICK u \in Nat \ {0} : u = Unit
  BY UnitAssumption
<1>2. PICK q \in Int : q = v \div u
  BY <1>1
<1>3. v = u * q + (v % u) /\ v % u \in 0 .. u - 1
  BY <1>1, <1>2
<1>4. u * q <= v /\ v < u * q + u /\ u * q \in Int
  BY <1>1, <1>2, <1>3
<1>5. u * e \in Int /\ u * e <= v /\ v < u * e + u
  BY <1>1
<1>6. CASE q < e
  <2>1. PICK k \in Nat : e = q + 1 + k
    <3>1. e - q - 1 \in Nat /\ e = q + 1 + (e - q - 1)
      BY <1>2, <1>6
    <3> QED BY <3>1
  <2>2. u * e = u * q + u + u * k /\ u * k \in Nat
    BY <1>1, <1>2, <2>1
  <2> QED BY <1>1, <1>4, <1>5, <2>2
<1>7. CASE e < q
  <2>1. PICK k \in Nat : q = e + 1 + k
    <3>1. q - e - 1 \in Nat /\ q = e + 1 + (q - e - 1)
      BY <1>2, <1>7
    <3> QED BY <3>1
  <2>2. u * q = u * e + u + u * k /\ u * k \in Nat
    BY <1>1, <1>2, <2>1
  <2> QED BY <1>1, <1>4, <1>5, <2>2
<1> QED BY <1>1, <1>2, <1>6, <1>7

LEMMA InvPeaks == CrossingInv => PeaksAndValleys
<1>1. SUFFICES ASSUME CrossingInv, crossingPc \in {"decide", "done"}
               PROVE  /\ \A e \in edges["dn"] :
                            /\ filtered[e \div Unit] > filtered[e \div Unit - 1]
                            /\ filtered[e \div Unit] > filtered[e \div Unit + 1]
                      /\ \A e \in edges["dp"] :
                            /\ filtered[e \div Unit] < filtered[e \div Unit - 1]
                            /\ filtered[e \div Unit] < filtered[e \div Unit + 1]
  BY DEF PeaksAndValleys
<1>2. Searched = Trains /\ "dn" \in Trains /\ "dp" \in Trains
  BY <1>1 DEF Searched, Trains
<1>3. /\ edges["dn"] = FineEdges(Rises(filtered), Length - 1)
      /\ edges["dp"] = FineEdges(Falls(filtered), Length - 1)
      /\ filtered \in [Indices -> Int]
  BY <1>1, <1>2 DEF CrossingInv, SignalOf, LengthOf
<1>4. /\ Rises(filtered) \in [0 .. Length - 1 -> Int]
      /\ Falls(filtered) \in [0 .. Length - 1 -> Int] /\ Length - 1 \in 0 .. Length
  BY <1>3, SignalsAre, CrossingLengthAssumption DEF Indices
<1>5. \A c \in 1 .. Length - 2 : /\ c \in Nat /\ (c - 1) + 1 = c
                                 /\ c - 1 \in Indices /\ c \in Indices /\ c + 1 \in Indices
                                 /\ c - 1 < Length - 1 /\ c < Length - 1
  BY CrossingLengthAssumption DEF Indices
<1>6. ASSUME NEW e \in edges["dn"]
      PROVE  /\ filtered[e \div Unit] > filtered[e \div Unit - 1]
             /\ filtered[e \div Unit] > filtered[e \div Unit + 1]
  <2>1. PICK c \in Edges(Rises(filtered), Length - 1) : e = Fine(Rises(filtered), c)
    BY <1>3 DEF FineEdges
  <2>2. c \in 1 .. Length - 2
    BY CrossingLengthAssumption DEF Edges
  <2>3. /\ Rises(filtered)[c - 1] > 0 /\ Rises(filtered)[c] < 0
        /\ e \in Int /\ Unit * c <= e /\ e < Unit * c + Unit
    BY <1>4, <2>1, FinePlace
  <2>4. e \div Unit = c
    BY <1>5, <2>2, <2>3, PlaceOf
  <2>5. /\ Rises(filtered)[c - 1] = filtered[c] - filtered[c - 1]
        /\ Rises(filtered)[c] = filtered[c + 1] - filtered[c]
    BY <1>5, <2>2 DEF Rises
  <2>6. filtered[c - 1] \in Int /\ filtered[c] \in Int /\ filtered[c + 1] \in Int
    BY <1>3, <1>5, <2>2
  <2> QED BY <2>3, <2>4, <2>5, <2>6
<1>7. ASSUME NEW e \in edges["dp"]
      PROVE  /\ filtered[e \div Unit] < filtered[e \div Unit - 1]
             /\ filtered[e \div Unit] < filtered[e \div Unit + 1]
  <2>1. PICK c \in Edges(Falls(filtered), Length - 1) : e = Fine(Falls(filtered), c)
    BY <1>3 DEF FineEdges
  <2>2. c \in 1 .. Length - 2
    BY CrossingLengthAssumption DEF Edges
  <2>3. /\ Falls(filtered)[c - 1] > 0 /\ Falls(filtered)[c] < 0
        /\ e \in Int /\ Unit * c <= e /\ e < Unit * c + Unit
    BY <1>4, <2>1, FinePlace
  <2>4. e \div Unit = c
    BY <1>5, <2>2, <2>3, PlaceOf
  <2>5. /\ Falls(filtered)[c - 1] = filtered[c - 1] - filtered[c]
        /\ Falls(filtered)[c] = filtered[c] - filtered[c + 1]
    BY <1>5, <2>2 DEF Falls
  <2>6. filtered[c - 1] \in Int /\ filtered[c] \in Int /\ filtered[c + 1] \in Int
    BY <1>3, <1>5, <2>2
  <2> QED BY <2>3, <2>4, <2>5, <2>6
<1> QED BY <1>6, <1>7

LEMMA InvOutside == CrossingInv /\ outside \in SUBSET Trains => OutsideUnused
<1>1. SUFFICES ASSUME CrossingInv, outside \in SUBSET Trains, outside # {}, usable
               PROVE  FALSE
  BY DEF OutsideUnused
<1>2. PICK t \in outside : t \in Trains /\ edges[t] = {}
  BY <1>1 DEF CrossingInv
<1>3. iLen(t) = -1
  BY <1>2, FS_EmptySet DEF iLen
<1>4. iLen(t) - 2 > 0
  BY <1>1, <1>2 DEF CrossingInv
<1> QED BY <1>3, <1>4

\* For every output of the filter: two crossings of a train are more than a
\* sample apart, and no interval that zeroCrossingEngine() divides by is 0.
THEOREM CrossingsApart == CrossingSpec => []Apart
BY CrossingInvariant, InvApart, PTL

\* For every output of the filter: a band that is used has three intervals or
\* more in every train, sorted; its crossings go down and up in turn; its peaks
\* and valleys are the signal's; and what is read from outside the arrays is not used.
THEOREM TrainsAreSound == CrossingSpec => []TrainsSound
<1>1. CrossingInv => TrainsSound
  <2>1. CrossingInv => outside \in SUBSET Trains
    <3>1. Searched \in SUBSET Trains
      BY DEF Searched, Trains
    <3> QED BY <3>1 DEF CrossingInv
  <2> QED BY <2>1, InvGrids, InvAlternating, InvPeaks, InvOutside DEF TrainsSound
<1> QED BY <1>1, CrossingInvariant, PTL


-----------------------------------------------------------------------------
(* DioBands *)

\* What a band has of the pitch it measured.
KeptPitch(b) == IF Refused(measured[b], b) THEN 0 ELSE measured[b]

BestSoFar(m) == 
    /\ tmp = stabilityMap[m] /\ bestF0 = f0Map[m]
    /\ bandsPc # "bands" => \A c \in Bands : c < bandsI => ~Steadier(stabilityMap[c], tmp)

BandsInv ==
    /\ bandsPc \in {"bands", "best", "done"}
    /\ bandsI \in Nat /\ bandsI <= nBands + 1
    /\ bandsPc = "bands" => bandsI <= nBands
    /\ bandsPc = "done" => bandsI > nBands
    /\ f0Deviations \in Nat /\ interpolatedF0 \in Int
    /\ measured \in [Bands -> Int] /\ f0Map \in [Bands -> Nat]
    /\ stabilityMap \in [Bands -> [dev : Nat, f0 : Nat]]
    /\ \A b \in Bands :
          /\ f0Map[b] = KeptPitch(b) /\ stabilityMap[b].f0 = f0Map[b]
          /\ bandsPc = "bands" /\ b >= bandsI => measured[b] = NotMeasured
    /\ IF bandsPc = "bands" THEN BestSoFar(0) ELSE \E m \in Bands : BestSoFar(m)

LEMMA BandsAre ==
    /\ nBands \in Nat \ {0} /\ Bands \in SUBSET Nat /\ 0 \in Bands
    /\ \A b \in Nat : b \in Bands <=> b <= nBands
    /\ FLOOR_F0 \in Nat /\ FLOOR_F0 > 0
    /\ \A b \in Bands : boundaryF0(b) \in Nat
<1>1. nBands \in Nat \ {0}
  BY BandAssumption DEF nBands
<1>2. ASSUME NEW b \in Bands PROVE boundaryF0(b) \in Nat
  <2>1. b + 1 \in 1 .. Len(Boundaries)
    BY <1>1 DEF Bands, nBands
  <2>2. Boundaries \in Seq(Nat)
    BY BandAssumption
  <2> QED BY <2>1, <2>2 DEF boundaryF0
<1>3. 0 \in Bands
  BY <1>1 DEF Bands
<1> QED BY <1>1, <1>2, <1>3, BandAssumption DEF Bands

LEMMA RefusedNothing == \A b : Refused(NotMeasured, b)
<1>1. NotMeasured < FLOOR_F0
  BY BandsAre DEF NotMeasured
<1> QED BY <1>1 DEF Refused

\* A pitch that is not refused is in the range, above its floor.
LEMMA KeptIs ==
    ASSUME NEW mean \in Int, NEW b \in Bands
    PROVE  ~Refused(mean, b) => mean \in Nat /\ mean > 0 /\ Candidate(b, mean)
<1>1. boundaryF0(b) \in Nat /\ FLOOR_F0 \in Nat /\ FLOOR_F0 > 0
  BY BandsAre
<1> QED BY <1>1 DEF Refused, Candidate

\* If the second is steadier than the third and the first is not, the first is
\* not steadier than the second.
LEMMA SteadierProducts ==
    ASSUME NEW a \in Nat, NEW d \in Nat, NEW e \in Nat,
           NEW p \in Nat \ {0}, NEW q \in Nat \ {0}, NEW r \in Nat \ {0},
           d * r < e * q, e * p <= a * r
    PROVE  ~(a * q < d * p)
<1>1. SUFFICES ASSUME a * q < d * p PROVE FALSE
  OBVIOUS
<1>2. \A u \in Nat, v \in Nat, w \in Nat \ {0} : u < v => u * w < v * w
  <2>1. ASSUME NEW u \in Nat, NEW v \in Nat, NEW w \in Nat \ {0}, u < v
        PROVE u * w < v * w
    <3>1. PICK n \in Nat \ {0} : v = u + n
      BY <2>1
    <3>2. v * w = u * w + n * w /\ n * w > 0 /\ n * w \in Nat /\ u * w \in Nat
      BY <3>1
    <3> QED BY <3>2
  <2> QED BY <2>1
<1>3. \A u \in Nat, v \in Nat, w \in Nat \ {0} : u <= v => u * w <= v * w
  <2>1. ASSUME NEW u \in Nat, NEW v \in Nat, NEW w \in Nat \ {0}, u <= v
        PROVE u * w <= v * w
    <3>1. PICK n \in Nat : v = u + n
      BY <2>1
    <3>2. v * w = u * w + n * w /\ n * w \in Nat /\ u * w \in Nat
      BY <3>1
    <3> QED BY <3>2
  <2> QED BY <2>1
<1>4. a * q \in Nat /\ d * p \in Nat /\ d * r \in Nat /\ e * q \in Nat /\ e * p \in Nat
      /\ a * r \in Nat
  OBVIOUS
<1>5. (a * q) * r < (d * p) * r
  BY <1>1, <1>2, <1>4
<1>6. (d * r) * p < (e * q) * p
  BY <1>2, <1>4
<1>7. (e * p) * q <= (a * r) * q
  BY <1>3, <1>4
<1>8. (d * p) * r = (d * r) * p /\ (e * q) * p = (e * p) * q /\ (a * r) * q = (a * q) * r
  <2>1. \A u \in Nat, v \in Nat, w \in Nat : (u * v) * w = (u * w) * v
    BY SMT
  <2> QED BY <2>1
<1>9. /\ (a * q) * r \in Nat /\ (d * p) * r \in Nat /\ (e * q) * p \in Nat
  BY <1>4
<1> QED BY <1>5, <1>6, <1>7, <1>8, <1>9

LEMMA SteadierOrder ==
    ASSUME NEW p \in [dev : Nat, f0 : Nat], NEW q \in [dev : Nat, f0 : Nat],
           NEW r \in [dev : Nat, f0 : Nat], Steadier(q, r), ~Steadier(p, r)
    PROVE  ~Steadier(p, q)
<1>1. SUFFICES ASSUME Steadier(p, q) PROVE FALSE
  OBVIOUS
<1>2. p.f0 # 0 /\ q.f0 # 0 /\ r.f0 # 0
  BY <1>1 DEF Steadier
<1>3. p.dev * q.f0 < q.dev * p.f0 /\ q.dev * r.f0 < r.dev * q.f0
      /\ ~(p.dev * r.f0 < r.dev * p.f0)
  BY <1>1, <1>2 DEF Steadier
<1>4. /\ p.dev \in Nat /\ q.dev \in Nat /\ r.dev \in Nat
      /\ p.f0 \in Nat \ {0} /\ q.f0 \in Nat \ {0} /\ r.f0 \in Nat \ {0}
  BY <1>2
<1>5. r.dev * p.f0 <= p.dev * r.f0
  <2>1. r.dev * p.f0 \in Nat /\ p.dev * r.f0 \in Nat
    BY <1>4
  <2> QED BY <1>3, <2>1
<1> QED BY <1>3, <1>4, <1>5, SteadierProducts

LEMMA SteadierSelf == \A p \in [dev : Nat, f0 : Nat] : ~Steadier(p, p)
<1>1. ASSUME NEW p \in [dev : Nat, f0 : Nat] PROVE ~Steadier(p, p)
  <2>1. p.dev * p.f0 \in Nat
    OBVIOUS
  <2>2. ~(p.dev * p.f0 < p.dev * p.f0)
    BY <2>1
  <2> QED BY <2>2 DEF Steadier
<1> QED BY <1>1

LEMMA BandsStart == BandsInit => BandsInv
<1>. SUFFICES ASSUME BandsInit PROVE BandsInv
  OBVIOUS
<1>1. NoPitch \in [dev : Nat, f0 : Nat] /\ NoPitch.f0 = 0
  BY DEF NoPitch, Unusable
<1>2. \A b \in Bands : KeptPitch(b) = 0
  BY RefusedNothing DEF KeptPitch, BandsInit
<1>3. BestSoFar(0)
  BY BandsAre DEF BandsInit, BestSoFar
<1>4. NotMeasured \in Int
  BY DEF NotMeasured
<1> QED BY <1>1, <1>2, <1>3, <1>4, BandsAre, ReadingAssumption DEF BandsInit, BandsInv

\* One band records what it measured, if it may.
LEMMA Recorded ==
    ASSUME BandsInv, bandsPc = "bands", NEW m \in Int, NEW dev \in Nat,
           Record(dev, IF Refused(m, bandsI) THEN 0 ELSE m), NextBand,
           measured' = [measured EXCEPT ![bandsI] = m]
    PROVE  BandsInv'
<1>1. PICK k \in Bands : k = bandsI /\ k \in Nat /\ k <= nBands
  BY BandsAre DEF BandsInv
<1>. DEFINE f == IF Refused(m, k) THEN 0 ELSE m
<1>2. f \in Nat
  BY KeptIs
<1>3. /\ measured' = [measured EXCEPT ![k] = m]
      /\ f0Map' = [f0Map EXCEPT ![k] = f]
      /\ stabilityMap' = [stabilityMap EXCEPT ![k] = [dev |-> dev, f0 |-> f]]
      /\ f0Deviations' = dev /\ interpolatedF0' = f
  BY <1>1 DEF Record
<1>4. /\ measured' \in [Bands -> Int] /\ f0Map' \in [Bands -> Nat]
      /\ stabilityMap' \in [Bands -> [dev : Nat, f0 : Nat]]
      /\ f0Deviations' \in Nat /\ interpolatedF0' \in Int
  <2>1. [dev |-> dev, f0 |-> f] \in [dev : Nat, f0 : Nat]
    BY <1>2
  <2>. HIDE DEF f
  <2>2. f0Map' \in [Bands -> Nat] /\ measured' \in [Bands -> Int]
    BY <1>2, <1>3 DEF BandsInv
  <2>3. stabilityMap' \in [Bands -> [dev : Nat, f0 : Nat]]
    BY <1>3, <2>1 DEF BandsInv
  <2> QED BY <1>2, <1>3, <2>2, <2>3
<1>5. ASSUME NEW b \in Bands
      PROVE  f0Map'[b] = KeptPitch(b)' /\ stabilityMap'[b].f0 = f0Map'[b]
  <2>1. CASE b = k
    BY <1>3, <2>1 DEF BandsInv, KeptPitch
  <2>2. CASE b # k
    <3>1. measured'[b] = measured[b] /\ f0Map'[b] = f0Map[b]
          /\ stabilityMap'[b] = stabilityMap[b]
      BY <1>3, <2>2 DEF BandsInv
    <3> QED BY <3>1 DEF BandsInv, KeptPitch
  <2> QED BY <2>1, <2>2
<1>6. tmp' = stabilityMap'[0] /\ bestF0' = f0Map'[0]
  BY DEF NextBand
<1>7. CASE k < nBands
  <2>1. bandsI' = k + 1 /\ bandsPc' = "bands" /\ k + 1 <= nBands
    BY <1>1, <1>7, BandsAre DEF NextBand
  <2>2. ASSUME NEW b \in Bands, b >= k + 1 PROVE measured'[b] = NotMeasured
    <3>1. b # k /\ b >= k
      BY <1>1, <2>2, BandsAre
    <3>2. measured[b] = NotMeasured
      BY <1>1, <3>1 DEF BandsInv
    <3> QED BY <1>3, <3>1, <3>2 DEF BandsInv
  <2>3. BestSoFar(0)'
    BY <1>6, <2>1 DEF BestSoFar
  <2> QED BY <1>1, <1>4, <1>5, <2>1, <2>2, <2>3, BandsAre DEF BandsInv
<1>8. CASE ~(k < nBands)
  <2>1. bandsI' = 1 /\ bandsPc' = "best" /\ 1 <= nBands
    BY <1>1, <1>8, BandsAre DEF NextBand
  <2>2. BestSoFar(0)'
    <3>1. ASSUME NEW c \in Bands, c < 1 PROVE c = 0
      BY <3>1, BandsAre
    <3>2. ~Steadier(stabilityMap'[0], stabilityMap'[0])
      BY <1>4, BandsAre, SteadierSelf
    <3> QED BY <1>6, <2>1, <3>1, <3>2 DEF BestSoFar
  <2> QED BY <1>4, <1>5, <2>1, <2>2, BandsAre DEF BandsInv
<1> QED BY <1>7, <1>8

LEMMA BandsStep ==
    ASSUME BandsInv, [BandsNext]_bandsVars
    PROVE  BandsInv'
<1>1. CASE UnusableBand
  <2>1. measured' = [measured EXCEPT ![bandsI] = NotMeasured] /\ NotMeasured \in Int
    <3>1. bandsI \in Bands /\ measured[bandsI] = NotMeasured
      BY <1>1, BandsAre DEF BandsInv, UnusableBand
    <3> QED BY <1>1, <3>1 DEF BandsInv, UnusableBand, NotMeasured
  <2>2. Refused(NotMeasured, bandsI) /\ Unusable \in Nat
    BY RefusedNothing DEF Unusable
  <2> QED BY <1>1, <2>1, <2>2, Recorded DEF UnusableBand
<1>2. CASE UsableBand
  <2>1. PICK mean \in Means, dev \in Deviations :
           /\ measured' = [measured EXCEPT ![bandsI] = mean]
           /\ IF Refused(mean, bandsI) THEN Record(Unusable, 0) ELSE Record(dev, mean)
    BY <1>2 DEF UsableBand
  <2>2. mean \in Int /\ dev \in Nat /\ Unusable \in Nat
    BY ReadingAssumption DEF Unusable
  <2>3. \E d \in Nat : Record(d, IF Refused(mean, bandsI) THEN 0 ELSE mean)
    BY <2>1, <2>2
  <2> QED BY <1>2, <2>1, <2>2, <2>3, Recorded DEF UsableBand
<1>3. CASE Best
  <2>1. PICK k \in Bands : k = bandsI /\ k \in Nat /\ bandsPc = "best"
    BY <1>3, BandsAre DEF BandsInv, Best
  <2>2. PICK m \in Bands : BestSoFar(m)
    BY <2>1 DEF BandsInv
  <2>3. UNCHANGED <<measured, f0Deviations, interpolatedF0, f0Map, stabilityMap, bandsPc>>
        /\ bandsI' = k + 1
    BY <1>3, <2>1 DEF Best
  <2>4. \A c \in Bands : c < k + 1 => c < k \/ c = k
    BY <2>1, BandsAre
  <2>5. CASE Steadier(stabilityMap[k], tmp)
    <3>1. tmp' = stabilityMap[k] /\ bestF0' = f0Map[k]
      BY <1>3, <2>1, <2>5 DEF Best
    <3>2. ASSUME NEW c \in Bands, c < k + 1
          PROVE ~Steadier(stabilityMap[c], stabilityMap[k])
      <4>1. /\ stabilityMap[c] \in [dev : Nat, f0 : Nat]
            /\ stabilityMap[k] \in [dev : Nat, f0 : Nat]
            /\ tmp \in [dev : Nat, f0 : Nat]
        BY <2>2 DEF BandsInv, BestSoFar
      <4>2. CASE c < k
        <5>1. ~Steadier(stabilityMap[c], tmp)
          BY <2>1, <2>2, <4>2 DEF BestSoFar
        <5> QED BY <2>5, <4>1, <5>1, SteadierOrder
      <4>3. CASE c = k
        BY <4>1, <4>3, SteadierSelf
      <4> QED BY <2>4, <3>2, <4>2, <4>3
    <3>3. BestSoFar(k)'
      BY <2>3, <3>1, <3>2 DEF BestSoFar
    <3> QED BY <2>1, <2>3, <3>3, BandsAre DEF BandsInv, KeptPitch
  <2>6. CASE ~Steadier(stabilityMap[k], tmp)
    <3>1. UNCHANGED <<tmp, bestF0>>
      BY <1>3, <2>1, <2>6 DEF Best
    <3>2. BestSoFar(m)'
      BY <2>1, <2>2, <2>3, <2>4, <2>6, <3>1 DEF BestSoFar
    <3> QED BY <2>1, <2>3, <3>2, BandsAre DEF BandsInv, KeptPitch
  <2> QED BY <2>5, <2>6
<1>4. CASE BandsReturn
  <2>1. PICK m \in Bands : BestSoFar(m)
    BY <1>4 DEF BandsInv, BandsReturn
  <2>2. /\ bandsPc = "best" /\ bandsPc' = "done" /\ bandsI > nBands
        /\ UNCHANGED <<measured, f0Deviations, interpolatedF0, f0Map, stabilityMap,
                       tmp, bestF0, bandsI>>
    BY <1>4 DEF BandsReturn
  <2>3. BestSoFar(m)'
    BY <2>1, <2>2 DEF BestSoFar
  <2> QED BY <2>2, <2>3 DEF BandsInv, KeptPitch
<1>5. CASE UNCHANGED bandsVars
  <2>1. UNCHANGED <<measured, f0Deviations, interpolatedF0, f0Map, stabilityMap,
                    tmp, bestF0, bandsI, bandsPc>>
    BY <1>5 DEF bandsVars
  <2>2. \A m \in Bands : BestSoFar(m) => BestSoFar(m)'
    BY <2>1 DEF BestSoFar
  <2> QED BY <2>1, <2>2, BandsAre DEF BandsInv, KeptPitch
<1> QED BY <1>1, <1>2, <1>3, <1>4, <1>5 DEF BandsNext, BandsFinished

LEMMA BandsInvariant == BandsSpec => []BandsInv
BY BandsStart, BandsStep, PTL DEF BandsSpec

\* A pitch of the range is in the upper half of the lowest band that is not
\* below it.
LEMMA BandOf ==
    ASSUME NEW p \in FLOOR_F0 .. f0Ceil
    PROVE  \E b \in Bands : ~Refused(p, b)
<1>. DEFINE T == {b \in Nat : b \in Bands /\ p <= boundaryF0(b)}
<1>1. p \in Nat /\ FLOOR_F0 <= p /\ p <= f0Ceil
  BY BandsAre
<1>2. nBands \in T
  BY <1>1, BandsAre DEF f0Ceil
<1>3. PICK b \in T : \A c \in T : b <= c
  BY <1>2, LeastMember
<1>4. b \in Bands /\ b \in Nat /\ p <= boundaryF0(b)
  BY <1>3
<1>5. boundaryF0(b) <= 2 * p
  <2>1. CASE b = 0
    BY <1>1, <1>4, <2>1, BandsAre, OverlapAssumption
  <2>2. CASE b # 0
    <3>1. b - 1 \in Bands /\ b - 1 \in Nat /\ ~(b <= b - 1)
      BY <1>4, <2>2, BandsAre
    <3>2. ~(p <= boundaryF0(b - 1))
      BY <1>3, <3>1
    <3>3. boundaryF0(b) <= 2 * boundaryF0(b - 1)
      BY <1>4, <2>2, OverlapAssumption
    <3> QED BY <1>1, <1>4, <3>1, <3>2, <3>3, BandsAre
  <2> QED BY <2>1, <2>2
<1>6. ~Refused(p, b)
  <2>1. boundaryF0(b) \in Nat /\ f0Ceil \in Nat /\ FLOOR_F0 \in Nat
    BY <1>4, BandsAre DEF f0Ceil
  <2> QED BY <1>1, <1>4, <1>5, <2>1 DEF Refused
<1> QED BY <1>4, <1>6

\* For every list of bands whose upper halves overlap and all that they measure:
\* the pitch is that of a band that none is steadier than, no pitch is lost between
\* two of them, and none is handed on.
THEOREM BandIsChosen == BandsSpec => []BandChosen
<1>1. ASSUME BandsInv PROVE BandChosen
  <2>1. SteadiestBand
    <3>1. SUFFICES ASSUME bandsPc = "done"
                   PROVE  \/ bestF0 = 0 /\ \A b \in Bands : f0Map[b] = 0
                          \/ \E b \in Bands :
                                /\ bestF0 = f0Map[b] /\ f0Map[b] # 0
                                /\ \A c \in Bands :
                                      ~Steadier(stabilityMap[c], stabilityMap[b])
      BY DEF SteadiestBand
    <3>2. PICK m \in Bands : BestSoFar(m)
      BY <1>1, <3>1 DEF BandsInv
    <3>3. \A c \in Bands : ~Steadier(stabilityMap[c], stabilityMap[m])
      <4>1. \A c \in Bands : c < bandsI
        BY <1>1, <3>1, BandsAre DEF BandsInv
      <4> QED BY <3>1, <3>2, <4>1 DEF BestSoFar
    <3>4. bestF0 = f0Map[m]
      BY <3>2 DEF BestSoFar
    <3>5. CASE f0Map[m] = 0
      <4>1. ASSUME NEW c \in Bands PROVE f0Map[c] = 0
        BY <1>1, <3>3, <3>5 DEF Steadier, BandsInv
      <4> QED BY <3>4, <3>5, <4>1
    <3> QED BY <3>3, <3>4, <3>5
  <2>2. NoPitchBetween
    <3>1. SUFFICES ASSUME bandsPc = "done", NEW p \in FLOOR_F0 .. f0Ceil,
                          \A b \in Bands : measured[b] = p
                   PROVE  bestF0 = p
      BY DEF NoPitchBetween
    <3>2. PICK b \in Bands : ~Refused(p, b)
      BY BandOf
    <3>3. f0Map[b] = p /\ p # 0
      <4>1. p # 0
        BY BandsAre
      <4> QED BY <1>1, <3>1, <3>2, <4>1 DEF BandsInv, KeptPitch
    <3>4. PICK c \in Bands : bestF0 = f0Map[c] /\ f0Map[c] # 0
      BY <2>1, <3>1, <3>3 DEF SteadiestBand
    <3> QED BY <1>1, <3>1, <3>4 DEF BandsInv, KeptPitch
  <2>3. NothingHandedOn
    BY <1>1, RefusedNothing DEF NothingHandedOn, BandsInv, KeptPitch
  <2> QED BY <2>1, <2>2, <2>3 DEF BandChosen
<1> QED BY <1>1, BandsInvariant, PTL

-----------------------------------------------------------------------------
(* Interp1: m_interp1 gives every point its interval, for all sorted grids of
   two points or more and all sorted points. *)

PlacesSorted ==
    /\ \A j, k \in Grid : j < k => x[j] < x[k]
    /\ \A j, k \in Points : j < k => y[j] <= y[k]

InterpolationInv == Interp1TypeOK /\ PlacesSorted /\ IInv

LEMMA InterpolationTypes ==
    ASSUME Interp1TypeOK
    PROVE  /\ x_length \in Nat /\ x_length >= 2 /\ yLen \in Nat
           /\ x \in [Grid -> Int] /\ y \in [Points -> Int]
           /\ index \in [Points -> 0 .. x_length]
           /\ i \in Nat /\ i <= yLen /\ count \in Nat /\ count <= x_length
           /\ 0 \in Grid /\ 1 \in Grid
<1>1. /\ x_length \in Nat /\ x_length # 0 /\ x_length # 1 /\ yLen \in Nat
  BY Interp1LengthAssumption DEF Interp1TypeOK
<1>2. x \in [Grid -> Int] /\ y \in [Points -> Int]
  BY CoordinateAssumption DEF Interp1TypeOK
<1> QED BY <1>1, <1>2 DEF Interp1TypeOK, Grid, Points

LEMMA InterpolationInit == Interp1Init => InterpolationInv
<1>. SUFFICES ASSUME Interp1Init PROVE InterpolationInv
  OBVIOUS
<1>1. x_length \in Nat /\ x_length # 0 /\ x_length # 1 /\ yLen \in Nat
  BY Interp1LengthAssumption DEF Interp1Init
<1>2. Interp1TypeOK
  BY <1>1 DEF Interp1Init, Interp1TypeOK, Points
<1>3. IInv
  BY <1>1 DEF Interp1Init, IInv, Points
<1> QED BY <1>2, <1>3 DEF Interp1Init, InterpolationInv, PlacesSorted

LEMMA BelowStep ==
    ASSUME InterpolationInv, Below
    PROVE  InterpolationInv'
<1>1. /\ x_length \in Nat /\ x_length >= 2 /\ yLen \in Nat
      /\ x \in [Grid -> Int] /\ y \in [Points -> Int]
      /\ index \in [Points -> 0 .. x_length]
      /\ i \in Nat /\ 0 \in Grid /\ 1 \in Grid
  BY InterpolationTypes DEF InterpolationInv
<1>2. /\ i \in Points /\ count = 1 /\ interp1Pc = "below" /\ i < yLen
      /\ UNCHANGED <<x_length, x, yLen, y, count, Grid, Points>>
      /\ index' = [index EXCEPT ![i] = 1]
  BY <1>1 DEF Below, Points, Grid, InterpolationInv, IInv
<1>3. index' \in [Points -> 0 .. x_length] /\ index'[i] = 1
      /\ \A j \in Points : j # i => index'[j] = index[j]
  BY <1>1, <1>2
<1>4. PlacesSorted'
  BY <1>2 DEF PlacesSorted, InterpolationInv
<1>5. ASSUME NEW j \in Points, j < i
      PROVE  Placed(j)'
  <2>1. Placed(j) /\ index'[j] = index[j]
    BY <1>1, <1>2, <1>3, <1>5 DEF InterpolationInv, IInv, Points
  <2> QED BY <1>2, <2>1 DEF Placed
<1>6. CASE y[i] >= x[0]
  <2>1. i' = i /\ interp1Pc' = "find"
    BY <1>6 DEF Below
  <2>2. Interp1TypeOK'
    BY <1>1, <1>2, <1>3, <2>1 DEF InterpolationInv, Interp1TypeOK
  <2>3. IInv'
    BY <1>1, <1>2, <1>5, <1>6, <2>1 DEF IInv
  <2> QED BY <1>4, <2>2, <2>3 DEF InterpolationInv
<1>7. CASE ~(y[i] >= x[0])
  <2>1. i' = i + 1 /\ interp1Pc' = "below"
    BY <1>2, <1>7 DEF Below
  <2>2. Interp1TypeOK'
    BY <1>1, <1>2, <1>3, <2>1 DEF InterpolationInv, Interp1TypeOK
  <2>3. y[i] < x[1]
    <3>1. x[0] < x[1]
      BY <1>1 DEF InterpolationInv, PlacesSorted
    <3>2. x[0] \in Int /\ x[1] \in Int /\ y[i] \in Int
      BY <1>1, <1>2
    <3> QED BY <1>7, <3>1, <3>2
  <2>5. ASSUME NEW j \in Points, j < i + 1
        PROVE  Placed(j)'
    <3>1. CASE j = i
      BY <1>2, <1>3, <2>3, <1>1, <3>1 DEF Placed
    <3>2. CASE j # i
      BY <1>1, <1>5, <2>5, <3>2 DEF Points
    <3> QED BY <3>1, <3>2
  <2>6. IInv'
    BY <1>2, <2>1, <2>5 DEF IInv
  <2> QED BY <1>4, <2>2, <2>6 DEF InterpolationInv
<1> QED BY <1>6, <1>7

LEMMA FindStep ==
    ASSUME InterpolationInv, Find
    PROVE  InterpolationInv'
<1>1. /\ x_length \in Nat /\ x_length >= 2 /\ yLen \in Nat
      /\ x \in [Grid -> Int] /\ y \in [Points -> Int]
      /\ index \in [Points -> 0 .. x_length]
      /\ i \in Nat /\ count \in Nat
  BY InterpolationTypes DEF InterpolationInv
<1>2. /\ i \in Points /\ count \in 1 .. x_length - 1 /\ interp1Pc = "find" /\ i < yLen
      /\ UNCHANGED <<x_length, x, yLen, y, Grid, Points>>
      /\ index' = [index EXCEPT ![i] = count]
      /\ x[count - 1] <= y[i]
  BY <1>1 DEF Find, Points, Grid, InterpolationInv, IInv
<1>3. index' \in [Points -> 0 .. x_length] /\ index'[i] = count
      /\ \A j \in Points : j # i => index'[j] = index[j]
  BY <1>1, <1>2
<1>4. count \in Grid /\ count - 1 \in Grid
      /\ x[count] \in Int /\ x[count - 1] \in Int /\ y[i] \in Int
  BY <1>1, <1>2 DEF Grid
<1>5. PlacesSorted'
  BY <1>2 DEF PlacesSorted, InterpolationInv
<1>6. ASSUME NEW j \in Points, j < i
      PROVE  Placed(j)'
  <2>1. Placed(j) /\ index'[j] = index[j]
    BY <1>1, <1>2, <1>3, <1>6 DEF InterpolationInv, IInv, Points
  <2> QED BY <1>2, <2>1 DEF Placed
<1>7. CASE y[i] < x[count]
  <2>1. i' = i + 1 /\ interp1Pc' = "find" /\ count' = count
    BY <1>2, <1>7 DEF Find
  <2>2. Interp1TypeOK'
    BY <1>1, <1>2, <1>3, <2>1 DEF InterpolationInv, Interp1TypeOK
  <2>3. ASSUME NEW j \in Points, j < i + 1
        PROVE  Placed(j)'
    <3>1. CASE j = i
      BY <1>1, <1>2, <1>3, <1>7, <3>1 DEF Placed
    <3>2. CASE j # i
      BY <1>1, <1>6, <2>3, <3>2 DEF Points
    <3> QED BY <3>1, <3>2
  <2>4. i + 1 < yLen => x[count - 1] <= y[i + 1]
    <3>. SUFFICES ASSUME i + 1 < yLen PROVE x[count - 1] <= y[i + 1]
      OBVIOUS
    <3>1. i + 1 \in Points /\ y[i + 1] \in Int
      BY <1>1 DEF Points
    <3>2. y[i] <= y[i + 1]
      BY <1>1, <1>2, <3>1 DEF InterpolationInv, PlacesSorted
    <3> QED BY <1>2, <1>4, <3>1, <3>2
  <2>5. IInv'
    BY <1>2, <2>1, <2>3, <2>4 DEF IInv
  <2> QED BY <1>5, <2>2, <2>5 DEF InterpolationInv
<1>8. CASE ~(y[i] < x[count])
  <2>1. /\ i' = i /\ count' = count + 1
        /\ interp1Pc' = IF count + 1 = x_length THEN "rest" ELSE "find"
    BY <1>8 DEF Find
  <2>2. Interp1TypeOK'
    BY <1>1, <1>2, <1>3, <2>1 DEF InterpolationInv, Interp1TypeOK
  <2>3. x[count' - 1] <= y[i]
    BY <1>1, <1>4, <1>8, <2>1
  <2>4. IInv'
    BY <1>1, <1>2, <1>6, <2>1, <2>3 DEF IInv
  <2> QED BY <1>5, <2>2, <2>4 DEF InterpolationInv
<1> QED BY <1>7, <1>8

LEMMA RestStep ==
    ASSUME InterpolationInv, Rest
    PROVE  InterpolationInv'
<1>1. /\ x_length \in Nat /\ x_length >= 2 /\ yLen \in Nat
      /\ x \in [Grid -> Int] /\ y \in [Points -> Int]
      /\ index \in [Points -> 0 .. x_length]
      /\ i \in Nat /\ i <= yLen /\ count \in Nat /\ count <= x_length
  BY InterpolationTypes DEF InterpolationInv
<1>2. /\ UNCHANGED <<x_length, x, yLen, y, i, Grid, Points>>
      /\ count' = count - 1 /\ interp1Pc' = "done"
      /\ index' = [j \in Points |-> IF j >= i THEN count - 1 ELSE index[j]]
  BY DEF Rest, Points, Grid
<1>3. /\ count \in 1 .. x_length
      /\ i < yLen => count = x_length /\ i \in Points /\ x[count - 1] <= y[i]
  BY <1>1 DEF InterpolationInv, IInv, Rest, Interp1TypeOK, Points
<1>4. Interp1TypeOK'
  BY <1>1, <1>2, <1>3 DEF InterpolationInv, Interp1TypeOK
<1>5. PlacesSorted'
  BY <1>2 DEF PlacesSorted, InterpolationInv
<1>6. ASSUME NEW j \in Points
      PROVE  Placed(j)'
  <2>1. CASE j < i
    <3>1. Placed(j) /\ index'[j] = index[j]
      BY <1>1, <1>2, <2>1 DEF InterpolationInv, IInv, Points
    <3> QED BY <1>2, <3>1 DEF Placed
  <2>2. CASE ~(j < i)
    <3>1. /\ i < yLen /\ j >= i /\ count = x_length /\ i \in Points
          /\ x[x_length - 1] <= y[i] /\ index'[j] = x_length - 1
      BY <1>1, <1>2, <1>3, <2>2 DEF Points
    <3>2. /\ x_length - 1 \in Grid /\ x_length - 2 \in Grid
          /\ x[x_length - 1] \in Int /\ x[x_length - 2] \in Int
          /\ y[i] \in Int /\ y[j] \in Int
      BY <1>1, <3>1 DEF Grid
    <3>3. y[i] <= y[j]
      BY <3>1, <3>2 DEF InterpolationInv, PlacesSorted, Points
    <3>4. x[x_length - 2] < x[x_length - 1]
      BY <1>1, <3>2 DEF InterpolationInv, PlacesSorted
    <3>5. x[x_length - 2] <= y[j]
      BY <3>1, <3>2, <3>3, <3>4
    <3> QED BY <1>1, <1>2, <3>1, <3>5 DEF Placed
  <2> QED BY <2>1, <2>2
<1>7. IInv'
  BY <1>2, <1>6 DEF IInv
<1> QED BY <1>4, <1>5, <1>7 DEF InterpolationInv

LEMMA InterpolationStays == Interp1Spec => []InterpolationInv
<1>1. InterpolationInv /\ UNCHANGED interp1Vars => InterpolationInv'
  BY DEF InterpolationInv, Interp1TypeOK, PlacesSorted, IInv, Placed, Grid, Points, interp1Vars
<1>2. InterpolationInv /\ [Interp1Next]_interp1Vars => InterpolationInv'
  BY <1>1, BelowStep, FindStep, RestStep DEF Interp1Next, Step, Interp1Finished
<1>. QED  BY InterpolationInit, <1>2, PTL DEF Interp1Spec

\* For all grids and points, each point is given the interval it lies in.
THEOREM IntervalsFound == Interp1Spec => []IntervalFound
<1>1. InterpolationInv => IntervalFound
  BY DEF InterpolationInv, IInv, IntervalFound
<1>. QED  BY InterpolationStays, <1>1, PTL

LEMMA IntervalBelow ==
    ASSUME NEW a \in Int, NEW b \in Int, NEW d \in Int
    PROVE  a * d + d * (b - a) = b * d
OBVIOUS

\* For all grids and values, m_interp1 reproduces the values at grid points.
THEOREM ExactAtGridPoints == Interp1Spec => []ExactOnGrid
<1>1. InterpolationInv => ExactOnGrid
  <2>. SUFFICES ASSUME InterpolationInv, interp1Pc = "done",
                       NEW j \in Points, NEW k \in Grid, y[j] = x[k]
                PROVE  h(index[j]) > 0 /\ y1(j) = Value[k] * h(index[j])
    BY DEF ExactOnGrid
  <2>. DEFINE m == index[j]
  <2>1. Placed(j)
    BY DEF InterpolationInv, IInv
  <2>2. /\ m \in 1 .. x_length - 1 /\ m \in Grid /\ m - 1 \in Grid
        /\ x[m] \in Int /\ x[m - 1] \in Int /\ x[m - 1] < x[m]
        /\ Value[m] \in Int /\ Value[m - 1] \in Int
        /\ x_length \in Nat /\ x[k] \in Int /\ y[j] = x[k]
    <3>1. /\ x_length \in XLengths /\ x_length \in Nat /\ x_length >= 2
          /\ x \in [Grid -> Int]
      BY InterpolationTypes DEF InterpolationInv, Interp1TypeOK
    <3>2. m \in 1 .. x_length - 1 /\ m \in Grid /\ m - 1 \in Grid
      BY <2>1, <3>1 DEF Placed, Grid
    <3>3. x[m - 1] < x[m]
      BY <3>1, <3>2 DEF InterpolationInv, PlacesSorted
    <3>4. Value[m] \in Int /\ Value[m - 1] \in Int
      BY <3>1, <3>2, ValueAssumption DEF Grid
    <3> QED BY <3>1, <3>2, <3>3, <3>4
  <2>3. h(m) \in Int /\ h(m) > 0
    BY <2>2 DEF h
  <2>4. k = m - 1 \/ k = m
    <3>1. ~(k < m - 1)
      <4>. SUFFICES ASSUME k < m - 1 PROVE FALSE
        OBVIOUS
      <4>1. x[k] < x[m - 1]
        BY <2>2 DEF InterpolationInv, PlacesSorted
      <4>2. m > 1
        BY <2>2 DEF Grid
      <4>3. x[m - 1] <= x[k]
        BY <2>1, <2>2, <4>2 DEF Placed
      <4>. QED  BY <2>2, <4>1, <4>3
    <3>2. ~(k > m)
      <4>. SUFFICES ASSUME k > m PROVE FALSE
        OBVIOUS
      <4>1. x[m] < x[k]
        BY <2>2 DEF InterpolationInv, PlacesSorted
      <4>2. m < x_length - 1
        <5>1. k <= x_length - 1 /\ k \in Int
          BY <2>2 DEF Grid
        <5>. QED  BY <2>2, <5>1
      <4>3. x[k] < x[m]
        BY <2>1, <2>2, <4>2 DEF Placed
      <4>. QED  BY <2>2, <4>1, <4>3
    <3>. QED  BY <2>2, <3>1, <3>2 DEF Grid
  <2>5. CASE k = m - 1
    <3>1. y1(j) = Value[m - 1] * h(m) + 0 * (Value[m] - Value[m - 1])
      BY <2>2, <2>5 DEF y1
    <3>. QED  BY <2>2, <2>3, <2>5, <3>1
  <2>6. CASE k = m
    <3>1. y1(j) = Value[m - 1] * h(m) + h(m) * (Value[m] - Value[m - 1])
      BY <2>2, <2>6 DEF y1, h
    <3>2. @ = Value[m] * h(m)
      BY <2>2, <2>3, IntervalBelow
    <3>. QED  BY <2>3, <2>6, <3>1, <3>2
  <2>. QED  BY <2>4, <2>5, <2>6
<1>. QED  BY InterpolationStays, <1>1, PTL

\* Both together, for all sorted grids of two places or more, all sorted points
\* and all values: what m_interp1 promises the bands of dio().
THEOREM Interpolates == Interp1Spec => []Interpolated
<1>1. IntervalFound /\ ExactOnGrid => Interpolated
  BY DEF Interpolated
<1> QED BY <1>1, IntervalsFound, ExactAtGridPoints, PTL

-----------------------------------------------------------------------------
(* The lists of the islands *)

LEMMA ListedIs ==
    ASSUME NEW S \in SUBSET Frames
    PROVE  /\ Listed(S) \in [Frames -> Frames \cup {Unset}]
           /\ Cardinality(S) \in 0 .. f0Len
           /\ \A k \in 0 .. Cardinality(S) - 1 :
                 k \in Frames /\ Listed(S)[k] \in S /\ Rank(S, Listed(S)[k]) = k
<1>1. PICK n \in Nat : n = f0Len - 1
  BY PostprocessLengthAssumption DEF voiceRangeMinimum
<1>2. Frames = 0 .. n /\ n + 1 = f0Len
  BY <1>1, PostprocessLengthAssumption DEF Frames
<1>3. Cardinality(S) \in 0 .. f0Len
  BY <1>2, RankAll
<1>4. Listed(S) = [k \in Frames |->
         IF \E z \in S : Rank(S, z) = k THEN CHOOSE z \in S : Rank(S, z) = k ELSE Unset]
  BY DEF Listed, Rank, Preceding
<1>5. Listed(S) \in [Frames -> Frames \cup {Unset}]
  BY <1>4
<1>6. ASSUME NEW k \in 0 .. Cardinality(S) - 1
      PROVE  k \in Frames /\ Listed(S)[k] \in S /\ Rank(S, Listed(S)[k]) = k
  <2>1. k \in Nat /\ k < Cardinality(S) /\ k \in Frames
    BY <1>2, <1>3
  <2>2. \E z \in S : Rank(S, z) = k
    BY <1>2, <2>1, RankTaken
  <2> QED BY <1>4, <2>1, <2>2
<1> QED BY <1>3, <1>5, <1>6

\* A track as the second step leaves it: unvoiced at both ends.
Margins ==
    /\ track \in [Frames -> Nat]
    /\ track[0] = 0
    /\ \A z \in Frames : z >= f0Len - voiceRangeMinimum => track[z] = 0

LEMMA FramesAre ==
    \E n \in Nat : /\ Frames = 0 .. n /\ n + 1 = f0Len /\ n >= 1
                   /\ Starts \in SUBSET (1 .. n) /\ Ends \in SUBSET (0 .. n)
<1>1. PICK n \in Nat : n = f0Len - 1 /\ n >= 1
  BY PostprocessLengthAssumption DEF voiceRangeMinimum
<1>2. Frames = 0 .. n /\ n + 1 = f0Len
  BY <1>1, PostprocessLengthAssumption DEF Frames
<1>3. Starts \in SUBSET (1 .. n) /\ Ends \in SUBSET (0 .. n)
  BY <1>2 DEF Starts, Ends
<1> QED BY <1>1, <1>2, <1>3

\* Starts and ends alternate: up to a frame there is one start more than ends
\* before it if the frame is voiced, as many otherwise.
LEMMA Alternate ==
    ASSUME Margins, NEW z \in Frames
    PROVE  Rank(Starts, z + 1) = Rank(Ends, z) + (IF track[z] # 0 THEN 1 ELSE 0)
<1>1. PICK n \in Nat : /\ Frames = 0 .. n /\ n + 1 = f0Len /\ n >= 1
                       /\ Starts \in SUBSET (1 .. n) /\ Ends \in SUBSET (0 .. n)
  BY FramesAre
<1>2. Starts \in SUBSET (0 .. n) /\ 0 \notin Starts
  BY <1>1
<1>a. RankSteps(Starts) /\ RankSteps(Ends)
  BY <1>1, <1>2, Ranks
<1>. DEFINE Even(j) == Rank(Starts, j + 1) = Rank(Ends, j) + (IF track[j] # 0 THEN 1 ELSE 0)
            S == {j \in Nat : j \in Frames => Even(j)}
<1>3. 0 \in S
  <2>1. Rank(Starts, 0) = 0 /\ Rank(Ends, 0) = 0
    BY <1>a DEF RankSteps
  <2>2. Rank(Starts, 0 + 1) = 0
    BY <1>2, <1>a, <2>1 DEF RankSteps
  <2> QED BY <2>1, <2>2 DEF Margins
<1>4. ASSUME NEW j \in Nat, j \in S PROVE j + 1 \in S
  <2>1. SUFFICES ASSUME j + 1 \in Frames PROVE Even(j + 1)
    OBVIOUS
  <2>2. j \in Frames /\ Even(j) /\ j + 1 < f0Len /\ (j + 1) - 1 = j
    BY <1>1, <1>4, <2>1
  <2>3. /\ j + 1 \in Starts => Rank(Starts, (j + 1) + 1) = Rank(Starts, j + 1) + 1
        /\ j + 1 \notin Starts => Rank(Starts, (j + 1) + 1) = Rank(Starts, j + 1)
        /\ Rank(Starts, j + 1) \in Nat
    BY <1>a DEF RankSteps
  <2>4. /\ j \in Ends => Rank(Ends, j + 1) = Rank(Ends, j) + 1
        /\ j \notin Ends => Rank(Ends, j + 1) = Rank(Ends, j)
        /\ Rank(Ends, j) \in Nat
    BY <1>a DEF RankSteps
  <2>5. j + 1 \in Starts <=> track[j] = 0 /\ track[j + 1] # 0
    BY <2>1, <2>2 DEF Starts
  <2>6. j \in Ends <=> track[j] # 0 /\ track[j + 1] = 0
    BY <2>1, <2>2 DEF Ends
  <2> QED BY <2>2, <2>3, <2>4, <2>5, <2>6
<1>. HIDE DEF S
<1>5. \A j \in Nat : j \in S
  BY <1>3, <1>4, Induction
<1>6. z \in S /\ z \in Nat
  BY <1>1, <1>5
<1> QED BY <1>6 DEF S

\* What the lists hold once they are made.
ListsMade(p, e, n) ==
    /\ p \in [Frames -> Frames \cup {Unset}] /\ e \in [Frames -> Frames \cup {Unset}]
    /\ n \in 0 .. f0Len
    /\ \A k \in 0 .. n - 1 :
          /\ k \in Frames /\ p[k] \in Frames /\ e[k] \in Frames
          /\ k < p[k] /\ p[k] < f0Len - voiceRangeMinimum
          /\ p[k] <= e[k]
          /\ k > 0 => e[k - 1] < p[k] - 1

LEMMA ListsPaired ==
    ASSUME Margins
    PROVE  /\ Cardinality(Ends) = Cardinality(Starts)
           /\ ListsMade(Listed(Starts), Listed(Ends), Cardinality(Starts))
<1>1. PICK n \in Nat : /\ Frames = 0 .. n /\ n + 1 = f0Len /\ n >= 1
                       /\ Starts \in SUBSET (1 .. n) /\ Ends \in SUBSET (0 .. n)
  BY FramesAre
<1>2. Starts \in SUBSET (0 .. n) /\ Starts \in SUBSET Frames /\ Ends \in SUBSET Frames
  BY <1>1
<1>3. Cardinality(Ends) = Cardinality(Starts)
  <2>1. Rank(Starts, n + 1) = Rank(Ends, n) + (IF track[n] # 0 THEN 1 ELSE 0)
    BY <1>1, Alternate
  <2>2. track[n] = 0 /\ n \notin Ends
    BY <1>1 DEF Margins, Ends, voiceRangeMinimum
  <2>3. Rank(Ends, n + 1) = Rank(Ends, n) /\ Rank(Ends, n) \in Nat
    BY <1>1, <2>2, RankStep
  <2>4. Rank(Ends, n + 1) = Cardinality(Ends) /\ Rank(Starts, n + 1) = Cardinality(Starts)
    BY <1>1, <1>2, RankAll
  <2> QED BY <2>1, <2>2, <2>3, <2>4
<1>. DEFINE c == Cardinality(Starts)  p == Listed(Starts)  e == Listed(Ends)
<1>4. /\ c \in 0 .. f0Len
      /\ p \in [Frames -> Frames \cup {Unset}] /\ e \in [Frames -> Frames \cup {Unset}]
      /\ \A k \in 0 .. c - 1 : /\ k \in Frames
                               /\ p[k] \in Starts /\ Rank(Starts, p[k]) = k
                               /\ e[k] \in Ends /\ Rank(Ends, e[k]) = k
  BY <1>2, <1>3, ListedIs
<1>. HIDE DEF c, p, e
<1>5. ASSUME NEW k \in 0 .. c - 1 PROVE p[k] <= e[k]
  <2>1. PICK s \in Starts : s = p[k] /\ Rank(Starts, s) = k
    BY <1>4
  <2>2. PICK t \in Ends : t = e[k] /\ Rank(Ends, t) = k
    BY <1>4
  <2>3. s \in Frames /\ s \in Nat /\ t \in Nat /\ track[s] # 0 /\ k \in Nat
    BY <1>1, <1>2, <1>4 DEF Starts
  <2>4. Rank(Starts, s + 1) = k + 1
    <3>1. RankSteps(Starts)
      BY <1>2, Ranks
    <3> QED BY <2>1, <2>3, <3>1 DEF RankSteps
  <2>5. Rank(Ends, s) = k
    <3>1. Rank(Starts, s + 1) = Rank(Ends, s) + 1
      BY <2>3, Alternate
    <3>2. Rank(Ends, s) \in Nat
      BY <1>1, <2>3, RankStep
    <3> QED BY <2>3, <2>4, <3>1, <3>2
  <2>6. ~(t < s)
    <3>1. SUFFICES ASSUME t < s PROVE FALSE
      OBVIOUS
    <3>2. Rank(Ends, t) < Rank(Ends, s)
      BY <1>1, <2>3, <3>1, RankInjective
    <3> QED BY <2>2, <2>3, <2>5, <3>2
  <2> QED BY <2>1, <2>2, <2>3, <2>6
<1>6. ASSUME NEW k \in 0 .. c - 1, k > 0 PROVE e[k - 1] < p[k] - 1
  <2>0. k - 1 \in 0 .. c - 1 /\ k - 1 \in Nat /\ k \in Nat
    BY <1>4, <1>6
  <2>1. PICK s \in Starts : s = p[k] /\ Rank(Starts, s) = k
    BY <1>4
  <2>2. PICK t \in Ends : t = e[k - 1] /\ Rank(Ends, t) = k - 1
    BY <1>4, <2>0
  <2>3. s \in Nat /\ t \in Frames /\ t \in Nat /\ track[t] # 0
    BY <1>1, <1>2 DEF Ends
  <2>4. Rank(Starts, t + 1) = k
    <3>1. Rank(Starts, t + 1) = Rank(Ends, t) + 1
      BY <2>3, Alternate
    <3> QED BY <2>0, <2>2, <3>1
  <2>5. ~(s <= t)
    <3>1. SUFFICES ASSUME s <= t PROVE FALSE
      OBVIOUS
    <3>2. s < t + 1 /\ t + 1 \in Nat
      BY <2>3, <3>1
    <3>3. Rank(Starts, s) < Rank(Starts, t + 1)
      BY <1>2, <3>2, RankInjective
    <3> QED BY <2>0, <2>1, <2>4, <3>3
  <2>6. track[s - 1] = 0 /\ track[s] # 0 /\ track[t + 1] = 0
    BY DEF Starts, Ends
  <2>7. s # t + 1 /\ s - 1 # t
    BY <2>3, <2>6
  <2>8. t < s - 1
    BY <2>3, <2>5, <2>7
  <2> QED BY <2>1, <2>2, <2>8
<1>7. ASSUME NEW k \in 0 .. c - 1
      PROVE  /\ p[k] \in Frames /\ e[k] \in Frames
             /\ k < p[k] /\ p[k] < f0Len - voiceRangeMinimum
  <2>1. PICK s \in Starts : s = p[k] /\ Rank(Starts, s) = k
    BY <1>4
  <2>2. s \in Frames /\ track[s] # 0 /\ e[k] \in Frames
    BY <1>2, <1>4 DEF Starts
  <2>3. k < s
    BY <1>1, <2>1, RankBelow
  <2>4. ~(s >= f0Len - voiceRangeMinimum)
    BY <2>2 DEF Margins
  <2>5. s < f0Len - voiceRangeMinimum
    BY <1>1, <2>2, <2>4 DEF voiceRangeMinimum
  <2> QED BY <2>1, <2>2, <2>3, <2>5
<1>8. ListsMade(p, e, c)
  BY <1>4, <1>5, <1>6, <1>7 DEF ListsMade
<1> QED BY <1>3, <1>8 DEF p, e, c

-----------------------------------------------------------------------------
(* The loops over the candidates *)

\* The loops over the candidates end with the value of one of them, or the
\* value the frame had.
NearestBy(g, j, k) ==
    IF k = 0 THEN [error |-> ErrorValue(0, j), value |-> track[j]]
    ELSE IF ErrorValue(k, j) < g[k - 1].error
         THEN [error |-> ErrorValue(k, j), value |-> column[j].cand[k]]
         ELSE g[k - 1]

FirstWithinBy(g, j, k) ==
    IF k = 0 THEN [error |-> ErrorValue(0, j + 2), value |-> track[j]]
    ELSE IF TooFar(g[k - 1].error)
         THEN [error |-> ErrorValue(k, j), value |-> column[j].cand[k]]
         ELSE g[k - 1]

LEMMA CandidatesAre == \E n \in Nat : K = 0 .. n /\ n = Candidates - 1
BY CandidatesAssumption DEF K

LEMMA NearestIs ==
    ASSUME NEW j
    PROVE  \E g : /\ \A k \in K : g[k] = NearestBy(g, j, k)
                  /\ Nearest(j) = g[Candidates - 1]
<1>1. PICK n \in Nat : K = 0 .. n /\ n = Candidates - 1
  BY CandidatesAre
<1>. DEFINE Of(k) == [error |-> ErrorValue(k, j), value |-> column[j].cand[k]]
            a == [error |-> ErrorValue(0, j), value |-> track[j]]
            V == {a} \cup {Of(k) : k \in K}
            F == [v \in V \X Nat |->
                    IF v[2] \in K /\ ErrorValue(v[2], j) < v[1].error THEN Of(v[2])
                    ELSE v[1]]
<1>2. a \in V /\ F \in [V \X Nat -> V]
  OBVIOUS
<1>3. \A v \in V, k \in K : F[<<v, k>>] =
         IF ErrorValue(k, j) < v.error THEN Of(k) ELSE v
  BY <1>1
<1>. HIDE DEF V, F, a
<1>4. PICK f \in [0 .. n -> V] : f[0] = a /\ \A k \in 1 .. n : f[k] = F[<<f[k - 1], k>>]
  <2>1. \E f : Recursive(f, n, V, a, F)
    BY <1>2, Recursion
  <2> QED BY <2>1 DEF Recursive
<1>5. ASSUME NEW k \in K PROVE f[k] = NearestBy(f, j, k)
  <2>1. CASE k = 0
    BY <1>1, <1>4, <2>1 DEF NearestBy, a
  <2>2. CASE k # 0
    <3>1. k - 1 \in 0 .. n /\ f[k - 1] \in V
      BY <1>1, <2>2
    <3>2. f[k] = F[<<f[k - 1], k>>]
      BY <1>1, <1>4, <2>2
    <3>3. f[k] = IF ErrorValue(k, j) < f[k - 1].error THEN Of(k) ELSE f[k - 1]
      BY <1>3, <3>1, <3>2
    <3> QED BY <2>2, <3>3 DEF NearestBy
  <2> QED BY <2>1, <2>2
<1>6. f = [k \in K |-> NearestBy(f, j, k)]
  <2>1. f = [k \in K |-> f[k]]
    BY <1>1
  <2> QED BY <1>5, <2>1
<1>7. Nearest(j) = (CHOOSE g : g = [k \in K |-> NearestBy(g, j, k)])[Candidates - 1]
  BY DEF Nearest, NearestBy
<1>8. PICK g : g = [k \in K |-> NearestBy(g, j, k)] /\ Nearest(j) = g[Candidates - 1]
  BY <1>6, <1>7
<1> QED BY <1>8

LEMMA FirstWithinIs ==
    ASSUME NEW j
    PROVE  \E g : /\ \A k \in K : g[k] = FirstWithinBy(g, j, k)
                  /\ FirstWithin(j) = g[Candidates - 1]
<1>1. PICK n \in Nat : K = 0 .. n /\ n = Candidates - 1
  BY CandidatesAre
<1>. DEFINE Of(k) == [error |-> ErrorValue(k, j), value |-> column[j].cand[k]]
            a == [error |-> ErrorValue(0, j + 2), value |-> track[j]]
            V == {a} \cup {Of(k) : k \in K}
            F == [v \in V \X Nat |->
                    IF v[2] \in K /\ TooFar(v[1].error) THEN Of(v[2])
                    ELSE v[1]]
<1>2. a \in V /\ F \in [V \X Nat -> V]
  OBVIOUS
<1>3. \A v \in V, k \in K : F[<<v, k>>] =
         IF TooFar(v.error) THEN Of(k) ELSE v
  BY <1>1
<1>. HIDE DEF V, F, a
<1>4. PICK f \in [0 .. n -> V] : f[0] = a /\ \A k \in 1 .. n : f[k] = F[<<f[k - 1], k>>]
  <2>1. \E f : Recursive(f, n, V, a, F)
    BY <1>2, Recursion
  <2> QED BY <2>1 DEF Recursive
<1>5. ASSUME NEW k \in K PROVE f[k] = FirstWithinBy(f, j, k)
  <2>1. CASE k = 0
    BY <1>1, <1>4, <2>1 DEF FirstWithinBy, a
  <2>2. CASE k # 0
    <3>1. k - 1 \in 0 .. n /\ f[k - 1] \in V
      BY <1>1, <2>2
    <3>2. f[k] = F[<<f[k - 1], k>>]
      BY <1>1, <1>4, <2>2
    <3>3. f[k] = IF TooFar(f[k - 1].error) THEN Of(k) ELSE f[k - 1]
      BY <1>3, <3>1, <3>2
    <3> QED BY <2>2, <3>3 DEF FirstWithinBy
  <2> QED BY <2>1, <2>2
<1>6. f = [k \in K |-> FirstWithinBy(f, j, k)]
  <2>1. f = [k \in K |-> f[k]]
    BY <1>1
  <2> QED BY <1>5, <2>1
<1>7. FirstWithin(j) = (CHOOSE g : g = [k \in K |-> FirstWithinBy(g, j, k)])[Candidates - 1]
  BY DEF FirstWithin, FirstWithinBy
<1>8. PICK g : /\ g = [k \in K |-> FirstWithinBy(g, j, k)]
               /\ FirstWithin(j) = g[Candidates - 1]
  BY <1>6, <1>7
<1> QED BY <1>8

\* Every step of the scan keeps the value or takes that of a candidate.
LEMMA ScanValue ==
    ASSUME NEW g, NEW j, g[0].value = track[j],
           \A k \in K \ {0} : g[k] = g[k - 1] \/ g[k].value = column[j].cand[k]
    PROVE  LET v == g[Candidates - 1].value
           IN v = track[j] \/ \E k \in K : v = column[j].cand[k]
<1>1. PICK n \in Nat : K = 0 .. n /\ n = Candidates - 1
  BY CandidatesAre
<1>. DEFINE Known(v) == v = track[j] \/ \E k \in K : v = column[j].cand[k]
            S == {m \in Nat : m \in K => Known(g[m].value)}
<1>2. 0 \in S
  OBVIOUS
<1>3. ASSUME NEW m \in Nat, m \in S PROVE m + 1 \in S
  <2>1. SUFFICES ASSUME m + 1 \in K PROVE Known(g[m + 1].value)
    OBVIOUS
  <2>2. m \in K /\ m + 1 # 0 /\ (m + 1) - 1 = m
    BY <1>1, <2>1
  <2>3. Known(g[m].value)
    BY <1>3, <2>2
  <2> QED BY <2>1, <2>2, <2>3
<1>. HIDE DEF S
<1>4. n \in S
  BY <1>2, <1>3, Induction
<1> QED BY <1>1, <1>4 DEF S

LEMMA ExtensionsKnown ==
    ASSUME NEW j
    PROVE  LET Known(v) == v = track[j] \/ \E k \in K : v = column[j].cand[k]
           IN Known(Nearest(j).value) /\ Known(FirstWithin(j).value)
<1>0. 0 \in K
  BY CandidatesAre
<1>1. PICK g : (\A k \in K : g[k] = NearestBy(g, j, k)) /\ Nearest(j) = g[Candidates - 1]
  BY NearestIs
<1>2. /\ g[0].value = track[j]
      /\ \A k \in K \ {0} : g[k] = g[k - 1] \/ g[k].value = column[j].cand[k]
  <2>1. NearestBy(g, j, 0).value = track[j]
    BY DEF NearestBy
  <2>2. ASSUME NEW k \in K \ {0}
        PROVE  LET v == NearestBy(g, j, k) IN v = g[k - 1] \/ v.value = column[j].cand[k]
    BY DEF NearestBy
  <2> QED BY <1>0, <1>1, <2>1, <2>2
<1>3. PICK q : /\ \A k \in K : q[k] = FirstWithinBy(q, j, k)
               /\ FirstWithin(j) = q[Candidates - 1]
  BY FirstWithinIs
<1>4. /\ q[0].value = track[j]
      /\ \A k \in K \ {0} : q[k] = q[k - 1] \/ q[k].value = column[j].cand[k]
  <2>1. FirstWithinBy(q, j, 0).value = track[j]
    BY DEF FirstWithinBy
  <2>2. ASSUME NEW k \in K \ {0}
        PROVE  LET v == FirstWithinBy(q, j, k) IN v = q[k - 1] \/ v.value = column[j].cand[k]
    BY DEF FirstWithinBy
  <2> QED BY <1>0, <1>3, <2>1, <2>2
<1> QED BY <1>1, <1>2, <1>3, <1>4, ScanValue

-----------------------------------------------------------------------------
(* The invariant *)

\* What the lists hold while they are read: the forward extension may have lost
\* the end of an island.
ListsKept(p, e, n) ==
    /\ p \in [Frames -> Frames \cup {Unset}] /\ e \in [Frames -> Frames \cup {Unset}]
    /\ n \in 0 .. f0Len
    /\ \A k \in 0 .. n - 1 :
          /\ k \in Frames /\ p[k] \in Frames /\ e[k] \in Frames \ {0}
          /\ k < p[k] /\ p[k] < f0Len - voiceRangeMinimum
          /\ p[k] <= e[k] \/ e[k] = k
          /\ k > 0 => e[k - 1] < p[k] - 1

Lists ==
    /\ postprocessCount.negative = postprocessCount.positive
    /\ ListsKept(positiveIndex, negativeIndex, postprocessCount.positive)

\* Where the loops are.
Extending ==
    /\ island \in 0 .. postprocessCount.positive - 1
    /\ postprocessPc = "forward" => frame \in Frames \ {0}
    /\ postprocessPc = "backward" => frame \in Frames \ {0} /\ frame + 1 \in Frames

Track == track \in [Frames -> Nat] /\ TrackKept

PostprocessInv ==
    /\ PostprocessTypeOK /\ Track
    /\ postprocessPc = "detect" => Margins
    /\ postprocessPc \notin {"cut", "detect"} => Lists
    /\ postprocessPc \in {"forward", "backward"} => Extending

LEMMA MadeKept == \A p, e, n : ListsMade(p, e, n) => ListsKept(p, e, n)
<1>1. PICK n \in Nat : Frames = 0 .. n
  BY FramesAre
<1>2. ASSUME NEW p, NEW e, NEW m, ListsMade(p, e, m) PROVE ListsKept(p, e, m)
  <2>1. ASSUME NEW k \in 0 .. m - 1 PROVE e[k] \in Frames \ {0}
    <3>1. e[k] \in 0 .. n /\ p[k] \in 0 .. n /\ k \in Nat /\ k < p[k] /\ p[k] <= e[k]
      BY <1>1, <1>2 DEF ListsMade
    <3> QED BY <1>1, <3>1
  <2> QED BY <1>2, <2>1 DEF ListsMade, ListsKept
<1> QED BY <1>2

LEMMA InFrames ==
    /\ Frames \in SUBSET Nat
    /\ \A z \in Frames : z # 0 => z - 1 \in Frames /\ ~(z < 1)
    /\ \A z \in Int : 0 <= z /\ z < f0Len => z \in Frames
    /\ \A z \in Frames : 0 <= z /\ z < f0Len
    /\ 0 \in Frames /\ f0Len \in Nat
BY PostprocessLengthAssumption DEF Frames, voiceRangeMinimum

\* Writing a candidate of a frame, or none, anywhere but at the head.
LEMMA TrackWritten ==
    ASSUME Track, column \in [Frames -> Columns], UNCHANGED column,
           NEW j \in Frames \ {0}, NEW v,
           v = 0 \/ v = track[j] \/ \E k \in K : v = column[j].cand[k],
           track' = [track EXCEPT ![j] = v]
    PROVE  Track'
<1>1. column[j].cand \in [K -> Nat]
  BY ColumnsAssumption
<1>2. v \in Nat /\ (v # 0 => \E k \in K : v = column[j].cand[k])
  BY <1>1 DEF Track, TrackKept, FromCandidates
<1>3. track' \in [Frames -> Nat]
  BY <1>2 DEF Track
<1>4. HeadUnvoiced' /\ FromCandidates'
  BY <1>2, InFrames DEF Track, TrackKept, HeadUnvoiced, FromCandidates
<1> QED BY <1>3, <1>4 DEF Track, TrackKept

LEMMA BackwardBegun ==
    ASSUME Lists', NEW z \in Int, z < postprocessCount'.positive, BeginBackward(z),
           island \in Frames, frame \in Frames
    PROVE  /\ postprocessPc' \in {"backward", "done"}
           /\ island' \in Frames /\ frame' \in Frames
           /\ postprocessPc' \in {"forward", "backward"} => Extending'
<1>1. CASE z < 0
  BY <1>1 DEF BeginBackward
<1>2. CASE ~(z < 0)
  <2>1. /\ postprocessPc' = "backward" /\ island' = z /\ frame' = positiveIndex'[z] + 1
        /\ z \in 0 .. postprocessCount'.positive - 1
    BY <1>2 DEF BeginBackward, Lists, ListsKept
  <2>2. PICK f \in Frames : f = positiveIndex'[z] /\ f < f0Len - 2 /\ z \in Frames
    BY <2>1 DEF Lists, ListsKept, voiceRangeMinimum
  <2>3. f + 1 \in Frames \ {0} /\ f + 1 + 1 \in Frames
    BY <2>2, InFrames
  <2> QED BY <2>1, <2>2, <2>3 DEF Extending
<1> QED BY <1>1, <1>2

LEMMA ForwardBegun ==
    ASSUME Lists', NEW z \in Nat, BeginForward(z), island \in Frames, frame \in Frames
    PROVE  /\ postprocessPc' \in {"forward", "backward", "done"}
           /\ island' \in Frames /\ frame' \in Frames
           /\ postprocessPc' \in {"forward", "backward"} => Extending'
<1>1. /\ postprocessCount'.positive \in Nat
      /\ postprocessCount'.negative = postprocessCount'.positive
  BY InFrames DEF Lists, ListsKept
<1>2. CASE z < postprocessCount'.negative
  <2>1. /\ postprocessPc' = "forward" /\ island' = z /\ frame' = negativeIndex'[z]
        /\ z \in 0 .. postprocessCount'.positive - 1
    BY <1>1, <1>2 DEF BeginForward
  <2>2. frame' \in Frames \ {0} /\ z \in Frames
    BY <2>1 DEF Lists, ListsKept
  <2> QED BY <2>1, <2>2 DEF Extending
<1>3. CASE ~(z < postprocessCount'.negative)
  <2>1. BeginBackward(postprocessCount'.positive - 1)
    BY <1>3 DEF BeginForward
  <2>2. /\ postprocessCount'.positive - 1 \in Int
        /\ postprocessCount'.positive - 1 < postprocessCount'.positive
    BY <1>1
  <2> QED BY <2>1, <2>2, BackwardBegun
<1> QED BY <1>2, <1>3

LEMMA PostprocessStart == PostprocessInit => PostprocessInv
<1>. SUFFICES ASSUME PostprocessInit PROVE PostprocessInv
  OBVIOUS
<1>1. PostprocessTypeOK
  BY InFrames DEF PostprocessInit, PostprocessTypeOK
<1>2. Track
  BY InFrames DEF PostprocessInit, Track, TrackKept, HeadUnvoiced, FromCandidates
<1> QED BY <1>1, <1>2 DEF PostprocessInit, PostprocessInv

\* What the second step leaves of a frame is its best candidate, or nothing; and
\* nothing at both ends.
LEMMA CutMargins ==
    ASSUME PostprocessTypeOK, CutIslands
    PROVE  Track' /\ Margins'
<1>1. /\ column \in [Frames -> Columns] /\ column' = column
      /\ track' = [z \in Frames |-> f0Step2(z)]
  BY DEF PostprocessTypeOK, CutIslands
<1>2. ASSUME NEW z \in Frames
      PROVE  /\ f0Step2(z) = 0 \/ f0Step2(z) = column[z].best
             /\ z >= f0Len - voiceRangeMinimum => f0Step2(z) = 0
  <2>1. f0Step2(z) = 0 \/ f0Step2(z) = f0Step1(z)
    BY DEF f0Step2
  <2>2. f0Step1(z) = 0 \/ f0Step1(z) = f0Base(z)
    BY DEF f0Step1
  <2>3. /\ f0Base(z) = 0 \/ f0Base(z) = column[z].best
        /\ ~(z < f0Len - voiceRangeMinimum) => f0Base(z) = 0
    BY DEF f0Base
  <2>4. z >= f0Len - voiceRangeMinimum => ~(z < f0Len - voiceRangeMinimum)
    BY InFrames DEF voiceRangeMinimum
  <2> QED BY <2>1, <2>2, <2>3, <2>4
<1>3. \A z \in Frames : \E k \in K : column[z].best = column[z].cand[k]
                                     /\ column[z].cand[k] \in Nat
  BY <1>1, ColumnsAssumption
<1>4. f0Step2(0) = 0
  <2>1. 1 \in 0 .. voiceRangeMinimum - 1 /\ ~(1 <= 0)
    BY DEF voiceRangeMinimum
  <2> QED BY <2>1 DEF f0Step2
<1>5. track' \in [Frames -> Nat]
  BY <1>1, <1>2, <1>3
<1>6. HeadUnvoiced' /\ Margins'
  BY <1>1, <1>2, <1>4, <1>5, InFrames DEF HeadUnvoiced, Margins
<1>7. FromCandidates'
  BY <1>1, <1>2, <1>3 DEF FromCandidates
<1> QED BY <1>5, <1>6, <1>7 DEF Track, TrackKept

LEMMA PostprocessStep ==
    ASSUME PostprocessInv, [PostprocessNext]_postprocessVars
    PROVE  PostprocessInv'
<1>0. /\ PostprocessTypeOK /\ Track
      /\ column \in [Frames -> Columns] /\ island \in Frames /\ frame \in Frames
  BY DEF PostprocessInv, PostprocessTypeOK
<1>1. CASE CutIslands
  <2>1. Track' /\ Margins'
    BY <1>0, <1>1, CutMargins
  <2>2. PostprocessTypeOK'
    BY <1>0, <1>1, <2>1 DEF PostprocessTypeOK, CutIslands, Track
  <2> QED BY <1>1, <2>1, <2>2 DEF PostprocessInv, CutIslands
<1>2. CASE DetectIslands
  <2>1. /\ positiveIndex' = Listed(Starts) /\ negativeIndex' = Listed(Ends)
        /\ postprocessCount'.positive = Cardinality(Starts)
        /\ postprocessCount'.negative = Cardinality(Ends)
        /\ UNCHANGED <<column, track>> /\ BeginForward(0) /\ Margins
    BY <1>2 DEF DetectIslands, PostprocessInv
  <2>2. Lists'
    BY <2>1, ListsPaired, MadeKept DEF Lists
  <2>3. /\ postprocessPc' \in {"forward", "backward", "done"}
        /\ island' \in Frames /\ frame' \in Frames
        /\ postprocessPc' \in {"forward", "backward"} => Extending'
    BY <1>0, <2>1, <2>2, ForwardBegun
  <2>4. Track'
    BY <1>0, <2>1 DEF Track, TrackKept, HeadUnvoiced, FromCandidates
  <2>5. PostprocessTypeOK'
    BY <1>0, <2>1, <2>2, <2>3, <2>4 DEF PostprocessTypeOK, Lists, ListsKept, Track
  <2> QED BY <2>2, <2>3, <2>4, <2>5 DEF PostprocessInv
<1>3. CASE ExtendForward
  <2>1. /\ postprocessPc = "forward" /\ UNCHANGED <<column, positiveIndex, postprocessCount>>
        /\ Lists /\ Extending
    BY <1>3 DEF ExtendForward, PostprocessInv, BeginForward
  <2>2. PICK f \in Frames \ {0} : f = frame /\ f + 1 \in Frames \ {0}
    <3>1. frame < f0Len - 1 /\ frame \in Frames \ {0} /\ frame \in Nat /\ f0Len \in Nat
      BY <1>3, <2>1, InFrames DEF ExtendForward, Extending
    <3>2. frame + 1 \in Frames \ {0}
      BY <3>1, InFrames
    <3> QED BY <3>1, <3>2
  <2>3. PICK z \in Nat : z = island /\ z < postprocessCount.positive /\ z \in Frames
    BY <1>0, <2>1, InFrames DEF Extending, Lists, ListsKept
  <2>4. \E v : /\ v = 0 \/ v = track[f + 1] \/ \E k \in K : v = column[f + 1].cand[k]
               /\ track' = [track EXCEPT ![f + 1] = v]
    BY <1>3, <2>2, ExtensionsKnown DEF ExtendForward
  <2>5. Track'
    BY <1>0, <2>1, <2>2, <2>4, TrackWritten
  <2>6. CASE /\ negativeIndex' = negativeIndex /\ frame' = f + 1
             /\ UNCHANGED <<island, postprocessPc>>
    <3>1. Lists'
      BY <2>1, <2>6 DEF Lists
    <3>2. Extending'
      BY <2>1, <2>2, <2>6 DEF Extending
    <3>3. PostprocessTypeOK'
      BY <1>0, <2>1, <2>2, <2>5, <2>6 DEF PostprocessTypeOK, Track
    <3> QED BY <2>1, <2>5, <2>6, <3>1, <3>2, <3>3 DEF PostprocessInv
  <2>7. CASE /\ \/ negativeIndex' = negativeIndex
                \/ negativeIndex' = [negativeIndex EXCEPT ![f] = f]
             /\ BeginForward(z + 1)
    <3>1. Lists'
      <4>1. negativeIndex' \in [Frames -> Frames \cup {Unset}]
        BY <2>1, <2>7 DEF Lists, ListsKept
      <4>2. ASSUME NEW k \in 0 .. postprocessCount.positive - 1
            PROVE  /\ negativeIndex'[k] = negativeIndex[k] \/ negativeIndex'[k] = k
                   /\ negativeIndex'[k] \in Frames \ {0}
        BY <2>1, <2>2, <2>7 DEF Lists, ListsKept
      <4>3. ASSUME NEW k \in 0 .. postprocessCount.positive - 1, k > 0
            PROVE  negativeIndex'[k - 1] < positiveIndex[k] - 1
        <5>1. k - 1 \in 0 .. postprocessCount.positive - 1
          BY <4>3, <2>1, InFrames DEF Lists, ListsKept
        <5>2. negativeIndex'[k - 1] = negativeIndex[k - 1] \/ negativeIndex'[k - 1] = k - 1
          BY <4>2, <5>1
        <5>3. negativeIndex[k - 1] < positiveIndex[k] - 1 /\ k < positiveIndex[k]
              /\ positiveIndex[k] \in Nat /\ k \in Nat
          BY <2>1, <4>3, InFrames DEF Lists, ListsKept
        <5> QED BY <5>2, <5>3
      <4> QED BY <2>1, <4>1, <4>2, <4>3 DEF Lists, ListsKept
    <3>2. /\ postprocessPc' \in {"forward", "backward", "done"}
          /\ island' \in Frames /\ frame' \in Frames
          /\ postprocessPc' \in {"forward", "backward"} => Extending'
      BY <1>0, <2>3, <2>7, <3>1, ForwardBegun
    <3>3. PostprocessTypeOK'
      BY <1>0, <2>1, <2>5, <3>1, <3>2 DEF PostprocessTypeOK, Track, Lists, ListsKept
    <3> QED BY <2>5, <3>1, <3>2, <3>3 DEF PostprocessInv
  <2> QED BY <1>3, <2>2, <2>3, <2>6, <2>7 DEF ExtendForward
<1>4. CASE EndForward
  <2>1. /\ UNCHANGED <<column, positiveIndex, negativeIndex, postprocessCount, track>>
        /\ BeginForward(island + 1) /\ Lists
    BY <1>4 DEF EndForward, PostprocessInv
  <2>2. Lists' /\ Track'
    BY <1>0, <2>1 DEF Lists, Track, TrackKept, HeadUnvoiced, FromCandidates
  <2>3. island + 1 \in Nat
    BY <1>0, InFrames
  <2>4. /\ postprocessPc' \in {"forward", "backward", "done"}
        /\ island' \in Frames /\ frame' \in Frames
        /\ postprocessPc' \in {"forward", "backward"} => Extending'
    BY <1>0, <2>1, <2>2, <2>3, ForwardBegun
  <2>5. PostprocessTypeOK'
    BY <1>0, <2>1, <2>4 DEF PostprocessTypeOK
  <2> QED BY <2>2, <2>4, <2>5 DEF PostprocessInv
<1>5. CASE ExtendBackward
  <2>1. /\ postprocessPc = "backward"
        /\ UNCHANGED <<column, positiveIndex, negativeIndex, postprocessCount>>
        /\ Lists /\ Extending
    BY <1>5 DEF ExtendBackward, PostprocessInv
  <2>2. PICK f \in Frames \ {0} : f + 1 = frame /\ f = frame - 1 /\ f + 1 + 1 \in Frames
    <3>1. frame > 1 /\ frame \in Frames /\ frame + 1 \in Frames /\ frame \in Nat
      BY <1>5, <2>1, InFrames DEF ExtendBackward, Extending
    <3>2. frame - 1 \in Frames \ {0} /\ (frame - 1) + 1 = frame
      BY <3>1, InFrames
    <3> QED BY <3>1, <3>2
  <2>3. PICK z \in Nat : z = island /\ z < postprocessCount.positive /\ z \in Frames
    BY <1>0, <2>1, InFrames DEF Extending, Lists, ListsKept
  <2>4. \E v : /\ v = 0 \/ v = track[f] \/ \E k \in K : v = column[f].cand[k]
               /\ track' = [track EXCEPT ![f] = v]
    <3>1. \E v \in {0, FirstWithin(f).value} : track' = [track EXCEPT ![f] = v]
      BY <1>5, <2>2 DEF ExtendBackward
    <3> QED BY <3>1, ExtensionsKnown
  <2>5. Track' /\ Lists'
    BY <1>0, <2>1, <2>2, <2>4, TrackWritten DEF Lists
  <2>6. CASE frame' = f /\ UNCHANGED <<island, postprocessPc>>
    <3>1. Extending'
      BY <2>1, <2>2, <2>6 DEF Extending
    <3>2. PostprocessTypeOK'
      BY <1>0, <2>1, <2>2, <2>5, <2>6 DEF PostprocessTypeOK, Track
    <3> QED BY <2>1, <2>5, <2>6, <3>1, <3>2 DEF PostprocessInv
  <2>7. CASE BeginBackward(z - 1)
    <3>1. z - 1 \in Int /\ z - 1 < postprocessCount'.positive
      BY <2>1, <2>3, InFrames DEF Lists, ListsKept
    <3>2. /\ postprocessPc' \in {"backward", "done"} /\ island' \in Frames /\ frame' \in Frames
          /\ postprocessPc' \in {"forward", "backward"} => Extending'
      BY <1>0, <2>5, <2>7, <3>1, BackwardBegun
    <3>3. PostprocessTypeOK'
      BY <1>0, <2>1, <2>5, <3>2 DEF PostprocessTypeOK, Track
    <3> QED BY <2>5, <3>2, <3>3 DEF PostprocessInv
  <2> QED BY <1>5, <2>2, <2>3, <2>6, <2>7 DEF ExtendBackward
<1>6. CASE EndBackward
  <2>1. /\ UNCHANGED <<column, positiveIndex, negativeIndex, postprocessCount, track>>
        /\ BeginBackward(island - 1) /\ Lists /\ Extending
    BY <1>6 DEF EndBackward, PostprocessInv
  <2>2. Lists' /\ Track'
    BY <1>0, <2>1 DEF Lists, Track, TrackKept, HeadUnvoiced, FromCandidates
  <2>3. island - 1 \in Int /\ island - 1 < postprocessCount'.positive
    BY <1>0, <2>1, InFrames DEF Lists, ListsKept, Extending
  <2>4. /\ postprocessPc' \in {"backward", "done"} /\ island' \in Frames /\ frame' \in Frames
        /\ postprocessPc' \in {"forward", "backward"} => Extending'
    BY <1>0, <2>1, <2>2, <2>3, BackwardBegun
  <2>5. PostprocessTypeOK'
    BY <1>0, <2>1, <2>4 DEF PostprocessTypeOK
  <2> QED BY <2>2, <2>4, <2>5 DEF PostprocessInv
<1>7. CASE UNCHANGED postprocessVars
  <2>1. UNCHANGED <<column, positiveIndex, negativeIndex, postprocessCount, track, island,
                    frame, postprocessPc>>
    BY <1>7 DEF postprocessVars
  <2>2. PostprocessTypeOK' /\ Track'
    BY <1>0, <2>1 DEF PostprocessTypeOK, Track, TrackKept, HeadUnvoiced, FromCandidates
  <2>3. (Margins => Margins') /\ (Lists => Lists') /\ (Extending => Extending')
    BY <2>1 DEF Margins, Lists, Extending
  <2> QED BY <2>1, <2>2, <2>3 DEF PostprocessInv
<1> QED
  BY <1>1, <1>2, <1>3, <1>4, <1>5, <1>6, <1>7 DEF PostprocessNext, PostprocessFinished

LEMMA PostprocessInvariant == PostprocessSpec => []PostprocessInv
BY PostprocessStart, PostprocessStep, PTL DEF PostprocessSpec

\* For every number of frames and of candidates, whatever the candidates are and
\* wherever the extensions stop: the track begins unvoiced and has no pitch but
\* those its own frames were given.
THEOREM TrackIsKept == PostprocessSpec => []TrackKept
<1>1. PostprocessInv => TrackKept
  BY DEF PostprocessInv, Track
<1> QED BY <1>1, PostprocessInvariant, PTL

\* The islands are whole and apart for every track, and nothing is read outside the
\* map.
THEOREM IslandsAreFit == PostprocessSpec => []IslandsFit
<1>1. ASSUME PostprocessInv PROVE IslandsFit
  <2>1. IslandsPaired
    BY <1>1 DEF PostprocessInv, Lists, ListsKept, IslandsPaired
  <2>2. ReadsInMap
    BY <1>1, InFrames DEF PostprocessInv, Extending, ReadsInMap
  <2> QED BY <2>1, <2>2 DEF IslandsFit
<1> QED BY <1>1, PostprocessInvariant, PTL

-----------------------------------------------------------------------------
(* The stages together, as MCDio runs them *)

LEMMA DecimateTyped ==
    /\ DecimateInit => DecimateTypeOK
    /\ DecimateTypeOK /\ DecimateFullInv /\ [DecimateNext]_decimateVars => DecimateTypeOK'
<1>1. DecimateInit => DecimateTypeOK
  BY DEF DecimateInit, DecimateTypeOK
<1>2. ASSUME DecimateTypeOK, DecimateFullInv, [DecimateNext]_decimateVars
      PROVE  DecimateTypeOK'
  <2>1. DecimateTypes'
    BY <1>2, DecimateStep DEF DecimateFullInv
  <2>2. UNCHANGED <<fs, xLen>> /\ xLen \in Nat /\ xLen >= 10
    BY <1>2 DEF DecimateFullInv, DecimateTypes, DecimateNext, Trap, Extend, Filter, BeginKeep,
                Keep, DecimateReturn, DecimateFinished, decimateVars
  <2>3. coefficients' \in {"set", "garbage"}
    BY <1>2 DEF DecimateTypeOK, DecimateNext, Trap, Extend, Filter, BeginKeep, Keep,
                DecimateReturn, DecimateFinished, decimateVars
  <2>4. reads' \subseteq 0 .. xLen - 1
    <3>1. CASE Extend
      <4>1. \A k \in 0 .. nfact - 1 : /\ nfact - k \in 0 .. xLen - 1
                                      /\ xLen - 2 - k \in 0 .. xLen - 1
        BY <2>2 DEF nfact
      <4>2. 0 \in 0 .. xLen - 1
        BY <2>2
      <4> QED BY <3>1, <4>1, <4>2 DEF Extend
    <3>2. CASE UNCHANGED reads
      BY <1>2, <3>2 DEF DecimateTypeOK
    <3> QED BY <1>2, <3>1, <3>2 DEF DecimateNext, Trap, Filter, BeginKeep, Keep, DecimateReturn,
                                    DecimateFinished, decimateVars
  <2> QED BY <1>2, <2>1, <2>2, <2>3, <2>4 DEF DecimateTypeOK, DecimateTypes
<1> QED BY <1>1, <1>2

LEMMA FilterTyped ==
    /\ FilterInit => FilterTypeOK
    /\ FilterTypeOK /\ FilterInv /\ [FilterNext]_filterVars => FilterTypeOK'
<1>1. FilterInit => FilterTypeOK
  BY DEF FilterInit, FilterTypeOK
<1>2. ASSUME FilterTypeOK, FilterInv, [FilterNext]_filterVars
      PROVE  FilterTypeOK'
  <2>1. UNCHANGED <<filterFs, filterXLen, band, filterFftl, filterHalfAverageLength>>
    BY <1>2 DEF FilterNext, MakeWindow, Multiply, InverseTransform, Shift, FilterEnded, filterVars
  <2>2. /\ filterYLen' = filterYLen /\ Elements' = Elements /\ indexBias' = indexBias
        /\ filterHalfAverageLength' = filterHalfAverageLength
    BY <2>1 DEF filterYLen, filterDecimationRatio, Elements, indexBias
  <2>3. ASSUME NEW n \in Elements
        PROVE  \/ equivalentFIR'[n] \in {Zero, Garbage, Filtered(n), Filtered(n + indexBias)}
               \/ n < 4 * filterHalfAverageLength /\ equivalentFIR'[n] = Window(n)
    <3>1. CASE MakeWindow
      BY <1>2, <3>1 DEF MakeWindow, FilterTypeOK
    <3>2. CASE InverseTransform
      BY <3>2 DEF InverseTransform
    <3>3. CASE Shift
      <4>1. equivalentFIR'[n] = IF n < filterYLen THEN At(n + indexBias) ELSE equivalentFIR[n]
        BY <3>3 DEF Shift
      <4>2. CASE n < filterYLen /\ n + indexBias \in Elements
        <5>1. equivalentFIR'[n] = equivalentFIR[n + indexBias]
          BY <4>1, <4>2 DEF At
        <5>2. \A m \in Elements : equivalentFIR[m] = Filtered(m)
          BY <1>2, <3>3 DEF Shift, FilterInv
        <5> QED BY <4>2, <5>1, <5>2
      <4>3. CASE n < filterYLen /\ n + indexBias \notin Elements
        BY <4>1, <4>3 DEF At
      <4>4. CASE ~(n < filterYLen)
        BY <1>2, <4>1, <4>4 DEF FilterTypeOK
      <4> QED BY <4>2, <4>3, <4>4
    <3>4. CASE UNCHANGED equivalentFIR
      BY <1>2, <3>4 DEF FilterTypeOK
    <3> QED BY <1>2, <3>1, <3>2, <3>3, <3>4 DEF FilterNext, Multiply, FilterEnded, filterVars
  <2>4. \A n \in Elements : eSpec'[n] \in {"signal * window", "garbage"}
    <3>1. CASE Multiply
      BY <3>1 DEF Multiply
    <3>2. CASE UNCHANGED eSpec
      BY <1>2, <3>2 DEF FilterTypeOK
    <3> QED BY <1>2, <3>1, <3>2 DEF FilterNext, MakeWindow, InverseTransform, Shift, FilterEnded,
                                    filterVars
  <2>5. filterPc' \in {"window", "multiply", "inverse", "shift", "done"}
    BY <1>2, FilterStep DEF FilterInv
  <2>6. \A n : Filtered(n)' = Filtered(n) /\ Window(n)' = Window(n)
    BY DEF Filtered, Window
  <2>7. ASSUME NEW n \in Elements'
        PROVE  \/ equivalentFIR'[n] \in {Zero, Garbage, Filtered(n), Filtered(n + indexBias')}
               \/ n < 4 * filterHalfAverageLength' /\ equivalentFIR'[n] = Window(n)
    BY <2>2, <2>3
  <2> QED BY <1>2, <2>1, <2>2, <2>4, <2>5, <2>7 DEF FilterTypeOK
<1> QED BY <1>1, <1>2

CrossingTypes ==
    /\ filtered \in [0 .. Length - 1 -> Samples]
    /\ crossingX \in [0 .. Length - 1 -> Int]

LEMMA CrossingTyped ==
    /\ CrossingInit => CrossingTypes
    /\ CrossingTypes /\ CrossingInv /\ [CrossingNext]_crossingVars => CrossingTypes'
    /\ CrossingTypes /\ CrossingInv => CrossingTypeOK
<1>1. CrossingInit => CrossingTypes
  BY SampleAssumption DEF CrossingInit, CrossingTypes
<1>2. ASSUME CrossingTypes, CrossingInv, [CrossingNext]_crossingVars
      PROVE  CrossingTypes'
  <2>1. filtered' = filtered
    BY <1>2 DEF CrossingNext, SearchNegative, SearchPositive, SearchPeaks, SearchValleys, Decide,
                CrossingFinished, crossingVars
  <2>2. \A k \in 0 .. Length - 1 : k < Length - 1 => k + 1 \in 0 .. Length - 1
    BY CrossingLengthAssumption
  <2>3. crossingX' \in [0 .. Length - 1 -> Int]
    <3>1. CASE SearchNegative
      BY <1>2, <3>1 DEF CrossingTypes, SearchNegative
    <3>2. CASE SearchPositive
      BY <1>2, <2>2, <3>2 DEF CrossingTypes, SearchPositive
    <3>3. CASE SearchPeaks
      BY <1>2, <3>3 DEF CrossingTypes, SearchPeaks
    <3>4. CASE UNCHANGED crossingX
      BY <1>2, <3>4 DEF CrossingTypes
    <3> QED BY <1>2, <3>1, <3>2, <3>3, <3>4 DEF CrossingNext, SearchValleys, Decide,
                                                CrossingFinished, crossingVars
  <2> QED BY <1>2, <2>1, <2>3 DEF CrossingTypes
<1>3. ASSUME CrossingTypes, CrossingInv
      PROVE  CrossingTypeOK
  <2>1. ASSUME NEW t \in Trains, NEW v \in edges[t]
        PROVE  v \in Unit .. Unit * Length
    <3>1. v \in FineEdges(SignalOf(t), LengthOf(t))
      BY <1>3, <2>1 DEF CrossingInv
    <3>2. PICK e \in Edges(SignalOf(t), LengthOf(t)) : v = Fine(SignalOf(t), e)
      BY <3>1 DEF FineEdges
    <3>3. SignalOf(t) \in [0 .. Length - 1 -> Int] /\ LengthOf(t) \in 0 .. Length
      BY <1>3, SignalIs DEF CrossingInv
    <3>4. /\ e \in 1 .. Length - 1 /\ v \in Int
          /\ Unit * e <= v /\ v < Unit * e + Unit
      BY <3>2, <3>3, FinePlace
    <3>5. PICK u \in Nat \ {0}, n \in Nat : u = Unit /\ n = Length /\ e \in 1 .. n - 1
      BY <3>4, UnitAssumption, CrossingLengthAssumption
    <3>6. PICK a \in Nat, b \in Nat : a = e - 1 /\ b = n - 1 - e /\ e = a + 1 /\ n = e + 1 + b
      BY <3>5
    <3>7. PICK ua \in Nat, ub \in Nat, ue \in Nat : ua = u * a /\ ub = u * b /\ ue = u * e
      BY <3>5
    <3>8. ue = ua + u /\ u * n = ue + u + ub
      BY <3>6, <3>7
    <3> QED BY <3>4, <3>5, <3>7, <3>8
  <2>2. /\ DOMAIN edges = Trains /\ usable \in BOOLEAN
        /\ crossingPc \in Trains \cup {"decide", "done"}
    BY <1>3 DEF CrossingInv
  <2>3. outside \subseteq Trains
    BY <1>3 DEF CrossingInv, Searched, Trains
  <2> QED BY <1>3, <2>1, <2>2, <2>3 DEF CrossingTypeOK, CrossingTypes
<1> QED BY <1>1, <1>2, <1>3

LEMMA BandsTyped == BandsInv => BandsTypeOK
<1>. SUFFICES ASSUME BandsInv PROVE BandsTypeOK
  OBVIOUS
<1>1. PICK m \in Bands : BestSoFar(m)
  BY BandsAre DEF BandsInv
<1>2. tmp.f0 \in Nat /\ bestF0 \in {f0Map[b] : b \in Bands}
  BY <1>1 DEF BandsInv, BestSoFar
<1>3. ASSUME NEW b \in Bands, f0Map[b] # 0
      PROVE  Candidate(b, f0Map[b])
  <2>1. f0Map[b] = measured[b] /\ ~Refused(measured[b], b) /\ f0Map[b] \in Nat
    BY <1>3 DEF BandsInv, KeptPitch
  <2> QED BY <2>1, BandsAre DEF Refused, Candidate
<1>4. bandsI \in 0 .. nBands + 1
  BY BandsAre DEF BandsInv
<1> QED BY <1>2, <1>3, <1>4 DEF BandsInv, BandsTypeOK

LEMMA InterpolationStep == InterpolationInv /\ [Interp1Next]_interp1Vars => InterpolationInv'
<1>. SUFFICES ASSUME InterpolationInv, [Interp1Next]_interp1Vars PROVE InterpolationInv'
  OBVIOUS
<1>1. CASE UNCHANGED interp1Vars
  BY <1>1 DEF interp1Vars, InterpolationInv, Interp1TypeOK, PlacesSorted, IInv, Placed, Grid, Points
<1> QED BY <1>1, BelowStep, FindStep, RestStep DEF Interp1Next, Step, Interp1Finished

\* The invariant of the stage that runs.
DioStages ==
    /\ stage \in {"decimate", "filter", "crossing", "interp1", "bands", "postprocess"}
    /\ stage = "decimate" => DecimateTypeOK /\ DecimateFullInv
    /\ stage = "filter" => FilterTypeOK /\ FilterInv
    /\ stage = "crossing" => CrossingTypes /\ CrossingInv
    /\ stage = "interp1" => InterpolationInv
    /\ stage = "bands" => BandsInv
    /\ stage = "postprocess" => PostprocessInv

LEMMA DioStart == DioInit => DioStages
BY DecimateStart, DecimateTyped, FilterStart, FilterTyped, CrossingStart, CrossingTyped,
   InterpolationInit, BandsStart, PostprocessStart DEF DioInit, DioStages

LEMMA DioStep == DioStages /\ [DioNext]_dioVars => DioStages'
<1>. SUFFICES ASSUME DioStages, [DioNext]_dioVars PROVE DioStages'
  OBVIOUS
<1>1. /\ stage' = stage
      /\ stage = "decimate" => [DecimateNext]_decimateVars
      /\ stage = "filter" => [FilterNext]_filterVars
      /\ stage = "crossing" => [CrossingNext]_crossingVars
      /\ stage = "interp1" => [Interp1Next]_interp1Vars
      /\ stage = "bands" => [BandsNext]_bandsVars
      /\ stage = "postprocess" => [PostprocessNext]_postprocessVars
  BY DEF DioNext, dioVars
<1>2. stage = "decimate" => (DecimateTypeOK /\ DecimateFullInv)'
  BY <1>1, DecimateStep, DecimateTyped DEF DioStages
<1>3. stage = "filter" => (FilterTypeOK /\ FilterInv)'
  BY <1>1, FilterStep, FilterTyped DEF DioStages
<1>4. stage = "crossing" => (CrossingTypes /\ CrossingInv)'
  BY <1>1, CrossingStep, CrossingTyped DEF DioStages
<1>5. stage = "interp1" => InterpolationInv'
  BY <1>1, InterpolationStep DEF DioStages
<1>6. stage = "bands" => BandsInv'
  BY <1>1, BandsStep DEF DioStages
<1>7. stage = "postprocess" => PostprocessInv'
  BY <1>1, PostprocessStep DEF DioStages
<1> QED BY <1>1, <1>2, <1>3, <1>4, <1>5, <1>6, <1>7 DEF DioStages

\* Whichever stage of dio() runs, for all values of the constants: its variables
\* hold values of their kind.  The loop of m_decimateForF0() is at a multiple of
\* the ratio, the filter's buffer holds the sample or the coefficient of its
\* place, edges lie between two samples of the signal, a band has only pitches
\* of its own half octave, and islands and frames are in the track.
THEOREM DioIsTyped == DioSpec => []DioInv
<1>1. DioSpec => []DioStages
  BY DioStart, DioStep, PTL DEF DioSpec
<1>2. DioStages => DioInv
  BY CrossingTyped, BandsTyped
     DEF DioStages, DioInv, DecimateFullInv, InterpolationInv, PostprocessInv
<1> QED BY <1>1, <1>2, PTL
=============================================================================
