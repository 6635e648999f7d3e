---------------------------- MODULE RenderProofs ----------------------------
(***************************************************************************)
(* What the rendering of a note guarantees: the loop that places the       *)
(* responses, the spectra on their way through PLATINUM and the synthesis, *)
(* and their files.                                                        *)
(***************************************************************************)
EXTENDS MCRender, CommonLemmas

-----------------------------------------------------------------------------
(* The arithmetic of frames and positions *)

LEMMA QuotientBound ==
    ASSUME NEW a \in Nat, NEW b \in Nat, 0 < b, NEW n \in Nat, n <= a \div b
    PROVE  b * n <= a
OBVIOUS

\* A response is six margins long.
LEMMA SixMargins == Margin \in Nat /\ 0 < Margin /\ Reach = 6 * Margin
BY FftlAssumption DEF Margin, Reach

LEMMA PositionNat ==
    ASSUME NEW t \in Nat
    PROVE  /\ PositionAt(t) \in Nat
           /\ 10 * PositionAt(t) <= t /\ t < 10 * PositionAt(t) + 10
BY DEF PositionAt, Grain

\* A period of at most five margins moves the position by as much.
LEMMA PeriodBound ==
    ASSUME NEW d \in Nat, d <= Grain * (Reach - Margin), NEW t \in Nat
    PROVE  PositionAt(t + d) <= PositionAt(t) + Reach - Margin
BY SixMargins DEF PositionAt, Grain

LEMMA FrameNat ==
    ASSUME NEW t \in Nat
    PROVE  FrameAt(t) \in Nat
<1>1. 2 * t + FramePeriod \in Nat /\ 2 * FramePeriod \in Nat /\ 0 < 2 * FramePeriod
  BY FrameAssumption
<1> QED BY <1>1, DividedBy DEF FrameAt

LEMMA SamplesNat ==
    ASSUME NEW n \in Nat
    PROVE  SamplesForDIO(n) \in Nat /\ 0 < SamplesForDIO(n)
<1>1. (n * Grain) \div FramePeriod \in Nat
  BY FrameAssumption, DividedBy DEF Grain
<1> QED BY <1>1 DEF SamplesForDIO

\* Once the frames are used up, the position is a margin before the end of
\* the output at least: half a frame is no longer than the margin.
LEMMA FramesLast ==
    ASSUME NEW t \in Nat, NEW n \in Nat, SamplesForDIO(n) <= FrameAt(t)
    PROVE  n <= PositionAt(t) + Margin
<1>. DEFINE k == SamplesForDIO(n)
            b == 2 * FramePeriod
            a == 2 * t + FramePeriod
<1>1. /\ FramePeriod \in Nat /\ 0 < FramePeriod /\ FramePeriod <= 20 * Margin
      /\ a \in Nat /\ b \in Nat /\ 0 < b /\ k \in Nat
  BY FrameAssumption, SixMargins, SamplesNat DEF Grain
<1>2. b * k <= a
  BY <1>1, QuotientBound DEF FrameAt
<1>3. n * 10 < FramePeriod * k
  <2>1. n * 10 \in Nat
    OBVIOUS
  <2> QED BY <1>1, <2>1, DividedBy DEF SamplesForDIO, Grain
<1>4. b * k = 2 * (FramePeriod * k)
  BY <1>1
<1>5. 20 * n < 2 * t + FramePeriod
  <2>1. FramePeriod * k \in Nat
    BY <1>1
  <2>. DEFINE m == FramePeriod * k
  <2>2. m \in Nat /\ 2 * m <= 2 * t + FramePeriod /\ n * 10 < m
    BY <1>2, <1>3, <1>4, <2>1
  <2>. HIDE DEF m
  <2> QED BY <1>1, <2>2
<1>6. 10 * n < t + 10 * Margin
  BY <1>1, <1>5, SixMargins
<1> QED BY <1>6, PositionNat, SixMargins

-----------------------------------------------------------------------------
(* The loop *)

LoopInv == SynthesisTypeOK /\ FrameInRange /\ CoverInv /\ Covered

LEMMA PeriodType ==
    ASSUME SynthesisTypeOK, NEW i \in Frames
    PROVE  Period(i) \in Nat
<1>1. Periods \cup {0} \subseteq Nat /\ DefaultPeriod \in Nat
  BY PeriodAssumption
<1>2. f0[i] \in Nat
  BY <1>1 DEF SynthesisTypeOK
<1> QED BY <1>1, <1>2 DEF Period

\* A sample that is left out stays so, as turns are only added.
LEMMA LeftOutStays ==
    ASSUME UNCHANGED f0, turns \subseteq turns', NEW s \in Int, LeftOut(s)
    PROVE  LeftOut(s)'
<1>1. PICK t \in turns :
        LET d == Period(FrameAt(t))
        IN  /\ d > Grain * (Reach - Margin)
            /\ PositionAt(t) + Reach <= s /\ s < PositionAt(t + d) + Margin
  BY DEF LeftOut
<1>2. t \in turns' /\ Period(FrameAt(t))' = Period(FrameAt(t))
  BY DEF Period
<1> QED BY <1>1, <1>2 DEF LeftOut, PositionAt

LEMMA LoopInvInit == SynthesisInit => LoopInv
<1>. SUFFICES ASSUME SynthesisInit PROVE LoopInv
  OBVIOUS
<1>1. xLen \in Nat /\ tLen \in Nat /\ 0 < tLen
  BY LengthAssumption, SamplesNat DEF SynthesisInit, Start, tLen
<1>2. FrameAt(0) = 0
  BY FrameAssumption DEF FrameAt
<1> QED
  BY <1>1, <1>2
  DEF SynthesisInit, Start, LoopInv, SynthesisTypeOK, FrameInRange, CoverInv, Covered, Frames

LEMMA LoopInvStep == LoopInv /\ [SynthesisNext]_synthesisVars => LoopInv'
<1>. SUFFICES ASSUME LoopInv, [SynthesisNext]_synthesisVars PROVE LoopInv'
  OBVIOUS
<1>1. CASE AddResponse
  <2>. DEFINE next == time + Period(frame)
              p == PositionAt(time)
  <2>1. /\ synthesisPc = "add" /\ frame \in Frames /\ time \in Nat
        /\ xLen \in Nat /\ 0 < xLen /\ tLen \in Nat
    BY <1>1, LengthAssumption, SamplesNat
    DEF AddResponse, LoopInv, SynthesisTypeOK, FrameInRange, tLen
  <2>2. /\ time' = next /\ frame' = FrameAt(next)
        /\ xLen' = xLen /\ f0' = f0 /\ tLen' = tLen
        /\ touched' = touched \cup Response(p) /\ turns' = turns \cup {time}
        /\ synthesisPc' = IF Margin + PositionAt(next) >= xLen \/ FrameAt(next) >= tLen
                          THEN "done" ELSE "add"
    BY <1>1 DEF AddResponse, tLen
  <2>3. next \in Nat
    BY <2>1, PeriodType DEF LoopInv
  <2>4. SynthesisTypeOK'
    <3>1. Response(p) \subseteq 0 .. xLen - 1
      BY DEF Response
    <3> QED BY <2>1, <2>2, <2>3, <3>1 DEF LoopInv, SynthesisTypeOK, Frames
  <2>5. FrameInRange'
    BY <2>1, <2>2, <2>3, FrameNat DEF FrameInRange, Frames
  <2>6. ASSUME NEW s \in 0 .. xLen - 1, s < PositionAt(next) + Margin
        PROVE  s \in touched' \/ LeftOut(s)'
    <3>1. p \in Nat /\ Reach \in Nat /\ Margin \in Nat /\ PositionAt(next) \in Nat
      BY <2>1, <2>3, PositionNat, SixMargins
    <3>2. CASE s < p
      <4>1. s \in touched \/ LeftOut(s)
        <5>1. CASE time = 0
          <6>1. p = 0
            BY <5>1 DEF PositionAt, Grain
          <6> QED BY <2>1, <3>2, <6>1
        <5>2. CASE time # 0
          BY <2>1, <3>1, <3>2, <5>2 DEF LoopInv, CoverInv
        <5> QED BY <5>1, <5>2
      <4> QED BY <2>2, <4>1, LeftOutStays
    <3>3. CASE p <= s /\ s < p + Reach
      <4>1. s - p \in 0 .. Reach - 1 /\ s = p + (s - p)
        BY <2>1, <3>1, <3>3
      <4>2. s \in Response(p)
        BY <4>1 DEF Response
      <4> QED BY <2>2, <4>2
    <3>4. CASE p + Reach <= s
      <4>. DEFINE d == Period(frame)
      <4>1. d \in Nat
        BY <2>1, PeriodType DEF LoopInv
      <4>2. d > Grain * (Reach - Margin)
        <5>1. ~(PositionAt(time + d) <= p + Reach - Margin)
          BY <2>1, <2>6, <3>1, <3>4
        <5>2. Grain * (Reach - Margin) \in Int
          BY SixMargins DEF Grain
        <5> QED BY <2>1, <4>1, <5>1, <5>2, PeriodBound
      <4>3. frame = FrameAt(time)
        BY DEF LoopInv, SynthesisTypeOK
      <4>4. PICK t \in turns' : t = time
        BY <2>2
      <4>5. Period(FrameAt(t))' = d
        BY <2>2, <4>3, <4>4 DEF Period
      <4>6. PositionAt(t) = p /\ PositionAt(t + d) = PositionAt(next)
        BY <4>4
      <4>. HIDE DEF d
      <4> QED BY <2>6, <3>4, <4>2, <4>4, <4>5, <4>6 DEF LeftOut, PositionAt
    <3> QED BY <2>1, <3>1, <3>2, <3>3, <3>4
  <2>7. CoverInv'
    <3>1. PositionAt(time)' = PositionAt(next)
      BY <2>2 DEF PositionAt
    <3> QED BY <2>2, <2>6, <3>1 DEF CoverInv
  <2>8. Covered'
    <3>1. PositionAt(next) \in Nat /\ Margin \in Nat /\ 0 < Margin
      BY <2>3, PositionNat, SixMargins
    <3>2. synthesisPc' = "done" => xLen <= PositionAt(next) + Margin
      <4>1. FrameAt(next) >= tLen => xLen <= PositionAt(next) + Margin
        BY <2>1, <2>3, FramesLast, FrameNat, SamplesNat DEF tLen
      <4> QED BY <2>1, <2>2, <3>1, <4>1
    <3>3. ASSUME synthesisPc' = "done", NEW s \in 0 .. xLen - 1
          PROVE  s \in touched' \/ LeftOut(s)'
      BY <2>1, <2>6, <3>1, <3>2, <3>3
    <3> QED BY <2>2, <3>3 DEF Covered
  <2> QED BY <2>4, <2>5, <2>7, <2>8 DEF LoopInv
<1>2. CASE UNCHANGED synthesisVars
  BY <1>2 DEF synthesisVars, LoopInv, SynthesisTypeOK, FrameInRange, CoverInv, Covered, LeftOut,
            Period, Frames, tLen
<1> QED BY <1>1, <1>2 DEF SynthesisNext, SynthesisFinished

\* The loop never reads a frame that does not exist.
THEOREM FramesExist == SynthesisSpec => []FrameInRange
<1>1. LoopInv => FrameInRange
  BY DEF LoopInv
<1> QED BY <1>1, LoopInvInit, LoopInvStep, PTL DEF SynthesisSpec

\* No sample of the output is left without a response, but for those in a gap
\* behind a response of a pitch too low for responses to overlap.
THEOREM OutputIsCovered == SynthesisSpec => []Covered
<1>1. LoopInv => Covered
  BY DEF LoopInv
<1> QED BY <1>1, LoopInvInit, LoopInvStep, PTL DEF SynthesisSpec

-----------------------------------------------------------------------------
(* The files of the spectra *)

Cleaned == [k \in Bins |-> Clean(spec[k])]
Requantised == [k \in Bins |-> 4 * Quantised(Clean(spec[k]))]

CodecInv ==
    /\ spec \in [Bins -> Levels] /\ residual \in Residuals /\ ratio \in Ratios
    /\ codecPc # "analysed" =>
          file = [spec |-> [k \in Bins |-> Quantised(Clean(spec[k]))],
                  residual |-> Stored(Clean(residual))]
    /\ codecPc \in {"written", "rendered"} => memory.spec = Cleaned
    /\ codecPc \in {"read", "done"} =>
          memory = [spec |-> Requantised, residual |-> 4 * file.residual]
    /\ codecPc \in {"rendered", "read", "done"} => first = Stretched(Cleaned)
    /\ codecPc = "done" => later = Stretched(Requantised)
    /\ codecPc \in {"analysed", "written", "rendered", "read", "done"}

LEMMA CodecInvInit == CodecInit => CodecInv
BY DEF CodecInit, CodecInv

LEMMA CodecInvStep == CodecInv /\ [CodecNext]_codecVars => CodecInv'
<1>. SUFFICES ASSUME CodecInv, [CodecNext]_codecVars PROVE CodecInv'
  OBVIOUS
<1>1. UNCHANGED <<spec, residual, ratio>>
  BY DEF CodecNext, Write, RenderFirst, Read, RenderLater, CodecFinished, codecVars
<1>2. Cleaned' = Cleaned /\ Requantised' = Requantised
  BY <1>1 DEF Cleaned, Requantised
<1>3. Stretched(Cleaned)' = Stretched(Cleaned) /\ Stretched(Requantised)' = Stretched(Requantised)
  BY <1>1, <1>2 DEF Stretched, Interpolated, LogOf, Interval, Top, num, den
<1>4. CASE Write
  <2>1. memory' = [spec |-> Cleaned, residual |-> Clean(residual)]
    BY <1>4 DEF Write, Cleaned
  <2>2. file' = [spec |-> [k \in Bins |-> Quantised(Clean(spec[k]))],
                 residual |-> Stored(Clean(residual))]
    BY <1>4, <2>1 DEF Write, Cleaned
  <2> QED BY <1>1, <1>2, <1>4, <2>1, <2>2 DEF Write, CodecInv
<1>5. CASE RenderFirst
  BY <1>1, <1>2, <1>3, <1>5 DEF RenderFirst, CodecInv
<1>6. CASE Read
  <2>1. memory' = [spec |-> Requantised, residual |-> 4 * file.residual]
    BY <1>6 DEF Read, CodecInv, Requantised
  <2> QED BY <1>1, <1>2, <1>3, <1>6, <2>1 DEF Read, CodecInv
<1>7. CASE RenderLater
  BY <1>1, <1>2, <1>3, <1>7 DEF RenderLater, CodecInv
<1>8. CASE UNCHANGED codecVars
  BY <1>1, <1>2, <1>3, <1>8 DEF codecVars, CodecInv
<1> QED BY <1>4, <1>5, <1>6, <1>7, <1>8 DEF CodecNext, CodecFinished

-----------------------------------------------------------------------------
\* A level is quantised to the nearest step, and one of half a step or more not to 0.
LEMMA QuantisedNear ==
    ASSUME NEW v \in Nat
    PROVE  /\ Quantised(v) \in Nat
           /\ 4 * Quantised(v) - v \in -2 .. 2
           /\ v > 1 => Quantised(v) > 0
BY DEF Quantised

LEMMA CleanIsNat == \A v \in Levels : Clean(v) \in Nat /\ (v > 1 => Clean(v) = v)
BY LevelAssumption DEF Clean, Weird

\* A fraction of two naturals, as the interval it ends in.
Inside(j, k) ==
    /\ k \in 1 .. Half /\ k - 1 \in Bins /\ k \in Bins
    /\ j * den - (k - 1) * num \in 0 .. num

\* The place of every bin is taken in an interval it lies in, or at its end.
LEMMA BinsInside ==
    ASSUME ratio \in Ratios, num # den, NEW j \in Bins
    PROVE  LET b == IF num < den /\ j >= Top THEN Top - 1 ELSE j
           IN  b \in Bins /\ Inside(b, Interval(b))
<1>. DEFINE b == IF num < den /\ j >= Top THEN Top - 1 ELSE j
<1>1. PICK p \in Nat \ {0}, q \in Nat \ {0}, H \in Nat \ {0} : p = num /\ q = den /\ H = Half
  BY RatioAssumption, HalfAssumption DEF num, den
<1>2. PICK T \in Nat \ {0} : T = Top /\ q * T <= H * p
  <2>1. (H * p) \div q \in Nat /\ q * ((H * p) \div q) <= H * p
    BY <1>1, DividedBy
  <2>2. Top = (H * p) \div q /\ Top >= 1
    BY <1>1, RatioAssumption DEF Top, num, den
  <2> QED BY <2>1, <2>2
<1>3. j \in 0 .. H
  BY <1>1 DEF Bins
<1>4. b \in Nat /\ b <= j /\ b * q <= H * p
  <2>1. CASE p < q
    <3>1. b <= T
      BY <1>1, <1>2, <1>3, <2>1
    <3>2. b \in Nat /\ b <= j
      BY <1>1, <1>2, <1>3, <2>1
    <3>3. PICK r \in Nat : T = b + r
      <4>1. T - b \in Nat /\ T = b + (T - b)
        BY <3>1, <3>2
      <4> QED BY <4>1
    <3>4. q * T = b * q + q * r /\ q * r >= 0 /\ q * T \in Nat /\ b * q \in Nat
      BY <3>2, <3>3
    <3> QED BY <1>2, <3>2, <3>4
  <2>2. CASE p >= q
    <3>1. b = j
      BY <1>1, <2>2
    <3>2. PICK r \in Nat, s \in Nat : H = j + r /\ p = q + s
      BY <1>3, <2>2
    <3>3. H * p = j * q + j * s + r * p /\ j * s >= 0 /\ r * p >= 0 /\ j * q \in Nat
          /\ j * s \in Nat /\ r * p \in Nat
      BY <1>3, <3>2
    <3> QED BY <1>3, <3>1, <3>3
  <2> QED BY <2>1, <2>2
<1>. HIDE DEF b
<1>5. PICK n \in Nat : n = (b * q) \div p /\ p * n <= b * q /\ b * q < p * n + p
  <2>1. b * q \in Nat
    BY <1>4
  <2> QED BY <2>1, DividedBy
<1>6. Interval(b) = IF n + 1 > H THEN H ELSE n + 1
  BY <1>1, <1>5 DEF Interval
<1>7. PICK k \in 1 .. H : k = Interval(b)
  BY <1>1, <1>5, <1>6
<1>8. b * q - (k - 1) * p \in 0 .. p
  <2>1. CASE n + 1 <= H
    <3>1. k - 1 = n
      BY <1>5, <1>6, <1>7, <2>1
    <3>2. (k - 1) * p = p * n /\ p * n \in Nat /\ b * q \in Nat
      BY <1>4, <1>5, <3>1
    <3>3. PICK u \in Nat, v \in Nat : u = b * q /\ v = p * n
      BY <3>2
    <3>4. u - v \in 0 .. p
      BY <1>5, <3>3
    <3> QED BY <3>2, <3>3, <3>4
  <2>2. CASE n + 1 > H
    <3>1. k = H
      BY <1>5, <1>6, <1>7, <2>2
    <3>2. PICK r \in Nat : n = H + r
      <4>1. n - H \in Nat /\ n = H + (n - H)
        BY <1>5, <2>2
      <4> QED BY <4>1
    <3>3. PICK u \in Nat, v \in Nat, w \in Nat : u = b * q /\ v = H * p /\ w = p * r
      BY <1>4, <3>2
    <3>4. (k - 1) * p = v - p /\ p * n = v + w
      BY <3>1, <3>2, <3>3
    <3>5. u - (v - p) \in 0 .. p
      BY <1>4, <1>5, <3>3, <3>4
    <3> QED BY <3>3, <3>4, <3>5
  <2> QED BY <1>5, <2>1, <2>2
<1>9. b \in Bins
  BY <1>1, <1>3, <1>4 DEF Bins
<1> QED BY <1>1, <1>7, <1>8, <1>9 DEF Inside, Bins, b

\* A value on a line from u to v, s of p parts of the way: it is between them.
LEMMA Between ==
    ASSUME NEW p \in Nat \ {0}, NEW s \in 0 .. p, NEW u \in Int, NEW v \in Int
    PROVE  /\ u <= v => p * u <= p * u + s * (v - u) /\ p * u + s * (v - u) <= p * v
           /\ v <= u => p * v <= p * u + s * (v - u) /\ p * u + s * (v - u) <= p * u
<1>1. ASSUME u <= v
      PROVE  p * u <= p * u + s * (v - u) /\ p * u + s * (v - u) <= p * v
  <2>1. PICK d \in Nat, r \in Nat : v = u + d /\ p = s + r
    <3>1. v - u \in Nat /\ v = u + (v - u) /\ p - s \in Nat /\ p = s + (p - s)
      BY <1>1
    <3> QED BY <3>1
  <2>2. PICK pu \in Int, sd \in Nat, rd \in Nat : pu = p * u /\ sd = s * d /\ rd = r * d
    BY <2>1
  <2>3. s * (v - u) = sd /\ p * v = pu + sd + rd
    BY <2>1, <2>2
  <2> QED BY <2>2, <2>3
<1>2. ASSUME v <= u
      PROVE  p * v <= p * u + s * (v - u) /\ p * u + s * (v - u) <= p * u
  <2>1. PICK d \in Nat, r \in Nat : u = v + d /\ p = s + r
    <3>1. u - v \in Nat /\ u = v + (u - v) /\ p - s \in Nat /\ p = s + (p - s)
      BY <1>2
    <3> QED BY <3>1
  <2>2. PICK pv \in Int, sd \in Nat, rd \in Nat : pv = p * v /\ sd = s * d /\ rd = r * d
    BY <2>1
  <2>3. s * (v - u) = -sd /\ p * u = pv + sd + rd
    BY <2>1, <2>2
  <2> QED BY <2>2, <2>3
<1> QED BY <1>1, <1>2

\* A multiple is as many times as far from 0.
LEMMA TimesNear ==
    ASSUME NEW n \in Nat, NEW a \in Int, NEW d \in Nat, a <= d, -d <= a
    PROVE  n * a <= n * d /\ -(n * d) <= n * a
<1>1. PICK e \in Nat, f \in Nat : d = a + e /\ a = f - d
  <2>1. d - a \in Nat /\ a + d \in Nat /\ d = a + (d - a) /\ a = (a + d) - d
    OBVIOUS
  <2> QED BY <2>1
<1>2. n * d = n * a + n * e /\ n * a = n * f - n * d
  <2>1. n * (a + e) = n * a + n * e /\ n * (f - d) = n * f - n * d
    BY <1>1
  <2> QED BY <1>1, <2>1
<1>3. PICK nd \in Int, na \in Int, ne \in Nat, nf \in Nat :
          nd = n * d /\ na = n * a /\ ne = n * e /\ nf = n * f
  BY <1>1
<1> QED BY <1>2, <1>3

\* Two lines whose ends are no more than d apart are nowhere further apart.
LEMMA LinesNear ==
    ASSUME NEW p \in Nat \ {0}, NEW s \in 0 .. p, NEW u \in Int, NEW v \in Int,
           NEW u2 \in Int, NEW v2 \in Int, NEW d \in Nat,
           Distance(u2, u) <= d, Distance(v2, v) <= d
    PROVE  Distance(p * u2 + s * (v2 - u2), p * u + s * (v - u)) <= p * d
<1>1. PICK r \in Nat : p = s + r
  <2>1. p - s \in Nat /\ p = s + (p - s)
    OBVIOUS
  <2> QED BY <2>1
<1>2. PICK a \in Int, b \in Int : /\ a = u2 - u /\ b = v2 - v
                                 /\ a <= d /\ -d <= a /\ b <= d /\ -d <= b
  BY DEF Distance
<1>3. PICK x \in Int, y \in Int : x = p * u + s * (v - u) /\ y = p * u2 + s * (v2 - u2)
  OBVIOUS
<1>4. y - x = r * a + s * b
  <2>1. x = r * u + s * v
    BY <1>1, <1>3
  <2>2. y = r * u2 + s * v2
    BY <1>1, <1>3
  <2>3. u2 = u + a /\ v2 = v + b
    BY <1>2
  <2>4. r * (u + a) = r * u + r * a /\ s * (v + b) = s * v + s * b
    BY <1>1, <1>2
  <2>5. PICK ru \in Int, ra \in Int, sv \in Int, sb \in Int :
            ru = r * u /\ ra = r * a /\ sv = s * v /\ sb = s * b
    BY <1>1, <1>2
  <2> QED BY <2>1, <2>2, <2>3, <2>4, <2>5, <1>3
<1>5. PICK ra \in Int, sb \in Int, rd \in Int, sd \in Int :
          ra = r * a /\ sb = s * b /\ rd = r * d /\ sd = s * d
  BY <1>1, <1>2
<1>6. ra <= rd /\ -rd <= ra /\ sb <= sd /\ -sd <= sb
  BY <1>1, <1>2, <1>5, TimesNear
<1>7. p * d = rd + sd
  BY <1>1, <1>5
<1> QED BY <1>3, <1>4, <1>5, <1>6, <1>7 DEF Distance

-----------------------------------------------------------------------------
\* A bin above 0 has a logarithm, and so has what it is rounded to.
LEMMA LogarithmsAre ==
    ASSUME NEW v \in Levels
    PROVE  /\ Clean(v) \in Nat /\ (Clean(v) # 0 => Ln[Clean(v)] \in Int)
           /\ 4 * Quantised(Clean(v)) \in Nat
           /\ 4 * Quantised(Clean(v)) # 0 => Ln[4 * Quantised(Clean(v))] \in Int
<1>1. Clean(v) \in Nat /\ 4 * Quantised(Clean(v)) \in Nat
  BY CleanIsNat, QuantisedNear
<1>2. Clean(v) \in Sizes /\ 4 * Quantised(Clean(v)) \in Sizes
  BY DEF Sizes
<1> QED BY <1>1, <1>2, LnAssumption

\* The rows that are stretched.
HasLogarithms(row) == \A i \in Bins : row[i] \in Nat /\ (row[i] # 0 => Ln[row[i]] \in Int)

LEMMA RowsHaveLogarithms == CodecInv => HasLogarithms(Cleaned) /\ HasLogarithms(Requantised)
BY LogarithmsAre DEF CodecInv, Cleaned, Requantised, HasLogarithms

LEMMA LogOfLevel ==
    ASSUME NEW n \in Nat, n # 0 => Ln[n] \in Int
    PROVE  /\ n = 0 => LogOf(n) = Silence
           /\ n # 0 => LogOf(n) = Ln[n] /\ LogOf(n) \in Int /\ LogOf(n) # Silence
<1>1. n # 0 => LogOf(n) = Ln[n] /\ LogOf(n) \in Int
  BY DEF LogOf
<1> QED BY <1>1, NothingAssumption DEF LogOf

\* What a row of levels above 0 is stretched to.
LEMMA StretchedBin ==
    ASSUME ratio \in Ratios, NEW j \in Bins
    PROVE  \E k \in Bins, m \in Bins, s \in 0 .. num :
              \A row : HasLogarithms(row) /\ (\A i \in Bins : row[i] # 0) =>
                 Stretched(row)[j] = num * Ln[row[k]] + s * (Ln[row[m]] - Ln[row[k]])
<1>1. num \in Nat \ {0}
  BY RatioAssumption DEF num
<1>2. CASE num = den
  <2>1. ASSUME NEW row, HasLogarithms(row), \A i \in Bins : row[i] # 0
        PROVE  Stretched(row)[j] = num * Ln[row[j]] + 0 * (Ln[row[j]] - Ln[row[j]])
    <3>1. PICK l \in Int : l = Ln[row[j]]
      BY <2>1 DEF HasLogarithms
    <3>2. Stretched(row)[j] = num * l
      BY <1>2, <2>1, <3>1 DEF Stretched
    <3> QED BY <1>1, <3>1, <3>2
  <2> QED BY <1>1, <2>1
<1>3. CASE num # den
  <2>. DEFINE b == IF num < den /\ j >= Top THEN Top - 1 ELSE j
              k == Interval(b)
              s == b * den - (k - 1) * num
  <2>1. b \in Bins /\ Inside(b, k)
    BY <1>3, BinsInside
  <2>2. k - 1 \in Bins /\ k \in Bins /\ s \in 0 .. num
    BY <2>1 DEF Inside
  <2>3. ASSUME NEW row, HasLogarithms(row), \A i \in Bins : row[i] # 0
        PROVE  Stretched(row)[j] =
                  num * Ln[row[k - 1]] + s * (Ln[row[k]] - Ln[row[k - 1]])
    <3>1. Stretched(row)[j] = Interpolated(row, b)
      BY <1>3 DEF Stretched
    <3>2. /\ row[k - 1] \in Nat /\ row[k - 1] # 0 /\ Ln[row[k - 1]] \in Int
          /\ row[k] \in Nat /\ row[k] # 0 /\ Ln[row[k]] \in Int
      BY <2>2, <2>3 DEF HasLogarithms
    <3>3. /\ LogOf(row[k - 1]) = Ln[row[k - 1]] /\ LogOf(row[k - 1]) # Silence
          /\ LogOf(row[k]) = Ln[row[k]] /\ LogOf(row[k]) # Silence
      BY <3>2, LogOfLevel
    <3>4. Interpolated(row, b) =
             num * LogOf(row[k - 1]) + s * (LogOf(row[k]) - LogOf(row[k - 1]))
      BY <3>3 DEF Interpolated
    <3>. HIDE DEF k, s, b
    <3> QED BY <3>1, <3>3, <3>4
  <2>. HIDE DEF k, s
  <2> QED BY <2>2, <2>3
<1> QED BY <1>2, <1>3

LEMMA RowsPositive ==
    ASSUME CodecInv, Positive
    PROVE  \A i \in Bins : /\ Cleaned[i] = spec[i] /\ spec[i] \in Nat \ {0}
                          /\ Requantised[i] \in Nat \ {0}
                          /\ Requantised[i] - spec[i] \in -2 .. 2
                          /\ Ln[spec[i]] \in Int /\ Ln[Requantised[i]] \in Int
                          /\ spec[i] \in Sizes /\ Requantised[i] \in Sizes
<1>. TAKE i \in Bins
<1>1. spec[i] > 1 /\ spec[i] \in Levels
  BY DEF CodecInv, Positive
<1>2. Clean(spec[i]) = spec[i] /\ spec[i] \in Nat
  BY <1>1, CleanIsNat
<1>3. Quantised(spec[i]) \in Nat /\ Quantised(spec[i]) > 0
      /\ 4 * Quantised(spec[i]) - spec[i] \in -2 .. 2
  BY <1>1, <1>2, QuantisedNear
<1>4. Cleaned[i] = spec[i] /\ Requantised[i] = 4 * Quantised(spec[i])
  BY <1>2 DEF Cleaned, Requantised
<1>5. spec[i] \in Sizes /\ Requantised[i] \in Sizes
  BY <1>1, <1>2, <1>4 DEF Sizes
<1>6. Ln[spec[i]] \in Int /\ Ln[Requantised[i]] \in Int
  <2>1. spec[i] # 0 /\ Requantised[i] # 0
    BY <1>1, <1>2, <1>3, <1>4
  <2> QED BY <1>5, <2>1, LnAssumption
<1> QED BY <1>1, <1>2, <1>3, <1>4, <1>5, <1>6

LEMMA StaysWithin == CodecInv => WithinSpectrum
<1>. SUFFICES ASSUME CodecInv, codecPc \notin {"analysed", "written"}, Positive, NEW j \in Bins
              PROVE  /\ \E k \in Bins : num * Ln[spec[k]] <= first[j]
                     /\ \E k \in Bins : first[j] <= num * Ln[spec[k]]
  BY DEF WithinSpectrum
<1>1. num \in Nat \ {0} /\ ratio \in Ratios
  BY RatioAssumption DEF num, CodecInv
<1>2. PICK k \in Bins, m \in Bins, s \in 0 .. num :
          \A row : HasLogarithms(row) /\ (\A i \in Bins : row[i] # 0) =>
             Stretched(row)[j] = num * Ln[row[k]] + s * (Ln[row[m]] - Ln[row[k]])
  BY <1>1, StretchedBin
<1>3. \A i \in Bins : Cleaned[i] = spec[i] /\ spec[i] # 0 /\ Ln[spec[i]] \in Int
  BY RowsPositive
<1>4. first[j] = num * Ln[spec[k]] + s * (Ln[spec[m]] - Ln[spec[k]])
  <2>1. first = Stretched(Cleaned)
    BY DEF CodecInv
  <2>2. Stretched(Cleaned)[j] =
           num * Ln[Cleaned[k]] + s * (Ln[Cleaned[m]] - Ln[Cleaned[k]])
    BY <1>2, <1>3, RowsHaveLogarithms
  <2> QED BY <1>3, <2>1, <2>2
<1>5. PICK u \in Int, v \in Int : u = Ln[spec[k]] /\ v = Ln[spec[m]]
  BY <1>3
<1>6. \/ num * u <= first[j] /\ first[j] <= num * v
      \/ num * v <= first[j] /\ first[j] <= num * u
  <2>1. u <= v \/ v <= u
    OBVIOUS
  <2> QED BY <1>1, <1>4, <1>5, <2>1, Between
<1> QED BY <1>5, <1>6

\* The larger of two distances.
LEMMA OneOfTwo ==
    ASSUME NEW a \in Nat, NEW b \in Nat
    PROVE  a <= b \/ b <= a
OBVIOUS

\* What becomes of a bin when the spectrum is rounded before it is stretched.
LEMMA BinsNear ==
    ASSUME CodecInv, codecPc = "done", Positive, NEW j \in Bins
    PROVE  \E k \in Bins, m \in Bins :
              \A d \in Nat :
                 /\ Distance(Ln[Requantised[k]], Ln[spec[k]]) <= d
                 /\ Distance(Ln[Requantised[m]], Ln[spec[m]]) <= d
                 => Distance(later[j], first[j]) <= num * d
<1>1. num \in Nat \ {0} /\ ratio \in Ratios
  BY RatioAssumption DEF num, CodecInv
<1>2. PICK k \in Bins, m \in Bins, s \in 0 .. num :
          \A row : HasLogarithms(row) /\ (\A i \in Bins : row[i] # 0) =>
             Stretched(row)[j] = num * Ln[row[k]] + s * (Ln[row[m]] - Ln[row[k]])
  BY <1>1, StretchedBin
<1>3. \A i \in Bins : /\ Cleaned[i] = spec[i] /\ spec[i] # 0 /\ Ln[spec[i]] \in Int
                     /\ Requantised[i] # 0 /\ Ln[Requantised[i]] \in Int
  BY RowsPositive
<1>4. first = Stretched(Cleaned) /\ later = Stretched(Requantised)
  BY DEF CodecInv
<1>5. first[j] = num * Ln[spec[k]] + s * (Ln[spec[m]] - Ln[spec[k]])
  <2>1. Stretched(Cleaned)[j] =
           num * Ln[Cleaned[k]] + s * (Ln[Cleaned[m]] - Ln[Cleaned[k]])
    BY <1>2, <1>3, RowsHaveLogarithms
  <2> QED BY <1>3, <1>4, <2>1
<1>6. later[j] = num * Ln[Requantised[k]] + s * (Ln[Requantised[m]] - Ln[Requantised[k]])
  BY <1>2, <1>3, <1>4, RowsHaveLogarithms
<1>7. PICK u \in Int, v \in Int, u2 \in Int, v2 \in Int :
          /\ u = Ln[spec[k]] /\ v = Ln[spec[m]]
          /\ u2 = Ln[Requantised[k]] /\ v2 = Ln[Requantised[m]]
  BY <1>3
<1>8. PICK p \in Nat \ {0} : p = num /\ s \in 0 .. p
  BY <1>1
<1>9. ASSUME NEW d \in Nat, Distance(u2, u) <= d, Distance(v2, v) <= d
      PROVE  Distance(later[j], first[j]) <= num * d
  <2>1. Distance(p * u2 + s * (v2 - u2), p * u + s * (v - u)) <= p * d
    BY <1>8, <1>9, LinesNear
  <2> QED BY <1>5, <1>6, <1>7, <1>8, <2>1
<1> QED BY <1>7, <1>9

LEMMA Alike == CodecInv => SoundsAsBefore
<1>. SUFFICES ASSUME CodecInv, codecPc = "done" PROVE SoundsAsBefore
  BY DEF SoundsAsBefore
<1>0. memory.spec = Requantised
  BY DEF CodecInv
<1>1. ASSUME Positive, NEW k \in Bins
      PROVE  memory.spec[k] > 0 /\ Distance(memory.spec[k], spec[k]) <= 2
  <2>1. spec[k] \in Nat /\ Requantised[k] \in Nat \ {0} /\ Requantised[k] - spec[k] \in -2 .. 2
    BY <1>1, RowsPositive
  <2>2. PICK a \in Int, b \in Int : a = Requantised[k] /\ b = spec[k] /\ a > 0 /\ a - b <= 2 /\ b - a <= 2
    BY <2>1
  <2> QED BY <1>0, <2>2 DEF Distance
<1>2. ASSUME Positive, NEW j \in Bins
      PROVE  \E k \in Bins :
                Distance(later[j], first[j]) <= num * Distance(Ln[memory.spec[k]], Ln[spec[k]])
  <2>1. PICK k \in Bins, m \in Bins :
              \A d \in Nat :
                 /\ Distance(Ln[Requantised[k]], Ln[spec[k]]) <= d
                 /\ Distance(Ln[Requantised[m]], Ln[spec[m]]) <= d
                 => Distance(later[j], first[j]) <= num * d
    BY <1>2, BinsNear
  <2>2. PICK a \in Nat, b \in Nat : /\ a = Distance(Ln[Requantised[k]], Ln[spec[k]])
                                   /\ b = Distance(Ln[Requantised[m]], Ln[spec[m]])
    <3>1. /\ Ln[spec[k]] \in Int /\ Ln[Requantised[k]] \in Int
          /\ Ln[spec[m]] \in Int /\ Ln[Requantised[m]] \in Int
      BY <1>2, RowsPositive
    <3> QED BY <3>1 DEF Distance
  <2>3. CASE a <= b
    <3>1. Distance(later[j], first[j]) <= num * b
      BY <2>1, <2>2, <2>3
    <3> QED BY <1>0, <2>2, <3>1
  <2>4. CASE b <= a
    <3>1. Distance(later[j], first[j]) <= num * a
      BY <2>1, <2>2, <2>4
    <3> QED BY <1>0, <2>2, <3>1
  <2> QED BY <2>3, <2>4, OneOfTwo
<1>3. ASSUME \A k \in Bins : spec[k] >= Loud + 2, NEW j \in Bins
      PROVE  Distance(later[j], first[j]) <= 4 * num
  <2>1. Loud \in Nat \ {0} /\ num \in Nat
    BY LnAssumption, RatioAssumption DEF num, CodecInv
  <2>2. Positive
    <3>1. \A v \in Levels : v \in Int
      BY LevelAssumption, SMT DEF Weird
    <3>2. \A k \in Bins : spec[k] \in Levels
      BY DEF CodecInv
    <3> QED BY <1>3, <2>1, <3>1, <3>2 DEF Positive
  <2>3. ASSUME NEW k \in Bins
        PROVE  Distance(Ln[Requantised[k]], Ln[spec[k]]) <= 4
    <3>1. /\ spec[k] \in Sizes /\ Requantised[k] \in Sizes
          /\ Ln[spec[k]] \in Int /\ Ln[Requantised[k]] \in Int
          /\ spec[k] \in Nat /\ Requantised[k] \in Nat /\ Requantised[k] - spec[k] \in -2 .. 2
      BY <2>2, RowsPositive
    <3>2. PICK a \in Nat, b \in Nat, x \in Int, y \in Int :
              /\ a = spec[k] /\ b = Requantised[k] /\ x = Ln[a] /\ y = Ln[b]
              /\ b - a <= 2 /\ a - b <= 2 /\ a \in Sizes /\ b \in Sizes
              /\ a >= Loud + 2
      BY <1>3, <3>1
    <3>3. Loud <= a /\ Loud <= b
      BY <2>1, <3>2
    <3>4. /\ a <= b => y - x \in 0 .. 2 * (b - a)
          /\ b <= a => x - y \in 0 .. 2 * (a - b)
      BY <3>2, <3>3, LnAssumption
    <3>5. y - x <= 4 /\ x - y <= 4
      BY <3>2, <3>4
    <3> QED BY <3>2, <3>5 DEF Distance
  <2>4. PICK k \in Bins, m \in Bins :
              \A d \in Nat :
                 /\ Distance(Ln[Requantised[k]], Ln[spec[k]]) <= d
                 /\ Distance(Ln[Requantised[m]], Ln[spec[m]]) <= d
                 => Distance(later[j], first[j]) <= num * d
    BY <2>2, BinsNear
  <2>5. Distance(later[j], first[j]) <= num * 4
    BY <2>3, <2>4
  <2> QED BY <2>1, <2>5
<1>4. ASSUME -131072 <= residual, residual < 131072
      PROVE  memory.residual - residual \in -3 .. 3
  <2>0. residual \in Int
    BY ResidualAssumption DEF CodecInv
  <2>1. Clean(residual) = residual
    BY <1>4, <2>0 DEF Clean, Weird
  <2>2. memory.residual = 4 * Stored(residual)
    BY <2>1 DEF CodecInv
  <2>3. PICK q \in Int : /\ q = Quotient(residual, 4) /\ -32768 <= q /\ q < 32768
                        /\ 4 * q - residual \in -3 .. 3
    BY <1>4, <2>0 DEF Quotient
  <2>4. Stored(residual) = q
    BY <2>3 DEF Stored, Short
  <2> QED BY <2>2, <2>3, <2>4
<1> QED BY <1>1, <1>2, <1>3, <1>4 DEF SoundsAsBefore

LEMMA LostIsNext == CodecInv => LostNextToZero
<1>. SUFFICES ASSUME CodecInv, codecPc = "done", NEW j \in Bins, later[j] = Nothing
              PROVE  LET k == Interval(IF num < den /\ j >= Top THEN Top - 1 ELSE j)
                     IN  file.spec[k - 1] = 0 \/ file.spec[k] = 0
  BY DEF LostNextToZero
<1>. DEFINE b == IF num < den /\ j >= Top THEN Top - 1 ELSE j
            k == Interval(b)
            s == b * den - (k - 1) * num
<1>1. num \in Nat \ {0} /\ ratio \in Ratios
  BY RatioAssumption DEF num, CodecInv
<1>2. \A i \in Bins : Requantised[i] = 4 * file.spec[i] /\ file.spec[i] \in Nat
  <2>1. ASSUME NEW i \in Bins PROVE Quantised(Clean(spec[i])) \in Nat
    BY CleanIsNat, QuantisedNear DEF CodecInv
  <2> QED BY <2>1 DEF CodecInv, Requantised
<1>3. later = Stretched(Requantised) /\ HasLogarithms(Requantised)
  BY RowsHaveLogarithms DEF CodecInv
<1>4. CASE num = den
  <2>1. later[j] = IF Requantised[j] = 0 THEN Silence ELSE num * Ln[Requantised[j]]
    BY <1>3, <1>4 DEF Stretched
  <2>2. Requantised[j] # 0 => Ln[Requantised[j]] \in Int
    BY <1>3 DEF HasLogarithms
  <2>3. Requantised[j] # 0 => num * Ln[Requantised[j]] \in Int
    BY <1>1, <2>2
  <2>4. later[j] # Nothing
    BY <2>1, <2>3, NothingAssumption
  <2> QED BY <2>4
<1>5. CASE num # den
  <2>1. b \in Bins /\ Inside(b, k)
    BY <1>1, <1>5, BinsInside
  <2>2. k - 1 \in Bins /\ k \in Bins /\ s \in 0 .. num
    BY <2>1 DEF Inside
  <2>3. later[j] = Interpolated(Requantised, b)
    BY <1>3, <1>5 DEF Stretched
  <2>4. ASSUME file.spec[k - 1] # 0, file.spec[k] # 0 PROVE FALSE
    <3>1. /\ Requantised[k - 1] \in Nat /\ Requantised[k - 1] # 0
          /\ Requantised[k] \in Nat /\ Requantised[k] # 0
      BY <1>2, <2>2, <2>4
    <3>2. /\ Ln[Requantised[k - 1]] \in Int /\ Ln[Requantised[k]] \in Int
      BY <1>3, <2>2, <3>1 DEF HasLogarithms
    <3>3. PICK u \in Int, v \in Int :
             /\ u = LogOf(Requantised[k - 1]) /\ v = LogOf(Requantised[k])
             /\ u # Silence /\ v # Silence
      BY <3>1, <3>2, LogOfLevel
    <3>4. later[j] = num * u + s * (v - u)
      BY <2>3, <3>3 DEF Interpolated
    <3>. HIDE DEF s
    <3>5. num * u + s * (v - u) \in Int
      BY <1>1, <2>2
    <3> QED BY <3>4, <3>5, NothingAssumption
  <2> QED BY <2>4
<1> QED BY <1>4, <1>5

\* What the first note of a wav is rendered from and what every later one is differ by
\* no more than the rounding of the file, and stretching the spectrum adds nothing
\* to that, where no bin was quantised to 0; where one was, only the bins around it
\* are lost: for every spectrum, every residual and every ratio.
THEOREM StoredAsAnalysed == CodecSpec => []StoredSpectrum
<1>1. CodecSpec => []CodecInv
  BY CodecInvInit, CodecInvStep, PTL DEF CodecSpec
<1>2. CodecInv => StoredSpectrum
  BY StaysWithin, Alike, LostIsNext DEF StoredSpectrum
<1> QED BY <1>1, <1>2, PTL

-----------------------------------------------------------------------------
(* The spectra of a frame *)

ArrayNames == Complex \cup Real
PlanNames == {"forwardFFT", "inverseFFT", "inverseFFT_RP"}
FirstHalf == 0 .. fftl \div 2

ForBoth == {"plans", "log", "forward", "fold", "inverse"}
InPlatinum == ForBoth \cup {"begin", "segment", "divide"}
InSynthesis == ForBoth \cup {"begin", "multiply", "response", "add"}

Shapes ==
    /\ mem = [a \in ArrayNames |-> mem[a]]
    /\ plan = [p \in PlanNames |-> plan[p]]
    /\ residualSpecgram = [f \in SpectraFrames |-> residualSpecgram[f]]

\* Where both are: which frames are done, and what there is.
PlacesInv ==
    /\ fftl \in FFTLengths
    /\ spectraFrame \in Nat /\ count \in Nat /\ plans \in Int
    /\ whole \subseteq SpectraFrames \ {0}
    /\ \/ who = "platinum" /\ spectraPc \in InPlatinum
       \/ who = "synthesis" /\ spectraPc \in InSynthesis
    /\ spectraPc # "begin" => spectraFrame \in SpectraFrames
    /\ who = "platinum" => spectraFrame >= 1
    /\ who = "platinum" =>
          \A f \in whole : f < spectraFrame \/ (f = spectraFrame /\ spectraPc # "begin")
    /\ who = "platinum" /\ spectraPc # "begin" => spectraFrame \in whole
    /\ Shapes

\* What holds the quotients of frame g.
Packed(a, g) ==
    /\ a[0] = Value("real", g, 0, 1)
    /\ a[fftl - 1] = Value("real", g, fftl \div 2, 1)
    /\ \A k \in Lower : /\ a[(k - 1) * 2 + 1] = Value("real", g, k, 1)
                        /\ a[k * 2] = Value("imaginary", g, k, 1)

\* Frame 0 is silent, the row of every frame that is done holds the quotients of the
\* last frame up to it that had a window, and the array they are copied from
\* those of the last one that is done.
RowsInv ==
    /\ \A e \in 0 .. fftl : residualSpecgram[0][e] = Zero
    /\ \A f \in SpectraFrames \ {0} : (who = "platinum" => f < spectraFrame) =>
          \A g \in whole : LastWhole(g, f) => Packed(residualSpecgram[f], g)
    /\ who = "platinum" =>
          \A g \in whole : LastWhole(g, spectraFrame - 1) => Packed(tmpResidualSpec, g)

\* The elements of an array are all of one quantity of the frame.
Holds(a, S, of) == \A k \in S : mem[a][k] = Value(of, spectraFrame, k, 1)

\* What is expected of a bin.
Expected(v, k) ==
    /\ spectraFrame = 0 => v = Zero
    /\ \A g \in whole : LastWhole(g, spectraFrame) =>
          v = Value(IF g = spectraFrame THEN "segment" ELSE "carried", g, k, 1)

ArraysInv ==
    /\ who = "platinum" /\ spectraPc \in ForBoth \cup {"segment"} =>
          Holds("tmpWave", 0 .. fftl - 1, "wave")
    /\ spectraPc \in ForBoth \ {"plans"} =>
          /\ plan["forwardFFT"] = fft_plan_dft_1d("spectrum", "cepstrum", FFT_FORWARD)
          /\ plan["inverseFFT"] = fft_plan_dft_1d("cepstrum", "spectrum", FFT_BACKWARD)
    /\ who = "synthesis" /\ spectraPc # "begin" =>
          plan["inverseFFT_RP"] = fft_plan_dft_c2r_1d("spectrum", "response")
    /\ spectraPc = "forward" =>
          \A k \in 0 .. fftl - 1 :
             mem["spectrum"][k] =
                Value("log", spectraFrame, IF k <= fftl \div 2 THEN k ELSE fftl - k, 1)
    /\ spectraPc = "fold" => Holds("cepstrum", 0 .. fftl - 1, "cepstrum")
    /\ spectraPc = "inverse" => HalfKept(mem["cepstrum"], spectraFrame, Upper, Lower)
    /\ spectraPc \in {"segment", "divide", "multiply"} =>
          Holds("spectrum", 0 .. fftl - 1, "minimum")
    /\ spectraPc = "divide" => Holds("tmpSpec", FirstHalf, "segment")
    /\ spectraPc = "response" => \A k \in FirstHalf : Expected(mem["spectrum"][k], k)
    /\ spectraPc = "add" => \A k \in FirstHalf : Expected(mem["response"][k], k)

\* What the frame at work on has added to plans.
Pending ==
    IF who = "platinum"
    THEN IF spectraPc = "plans" THEN -3
         ELSE IF spectraPc \in {"log", "forward", "fold", "inverse", "segment"} THEN -1 ELSE 0
    ELSE IF spectraPc = "plans" THEN -1
         ELSE IF spectraPc \in {"log", "forward", "fold", "inverse", "multiply", "response"}
         THEN 1 ELSE 0
PlansInv == plans = (3 * Cardinality(whole) + 2 * count) + Pending

SpectraInv == PlacesInv /\ RowsInv /\ ArraysInv /\ PlansInv

-----------------------------------------------------------------------------
\* fftl is a multiple of four.
LEMMA Halved ==
    ASSUME PlacesInv
    PROVE  /\ fftl \in Nat /\ fftl >= 4 /\ fftl \div 2 \in Nat /\ fftl = 2 * (fftl \div 2)
           /\ fftl \div 2 >= 2
<1>1. fftl \in Nat /\ fftl >= 4 /\ fftl % 4 = 0
  BY SpectraAssumption DEF PlacesInv
<1> QED BY <1>1

LEMMA WholeFinite ==
    ASSUME PlacesInv
    PROVE  IsFiniteSet(whole) /\ Cardinality(whole) \in Nat
<1>1. IsFiniteSet(SpectraFrames)
  BY SpectraAssumption, FS_Interval DEF SpectraFrames
<1>2. IsFiniteSet(whole)
  BY <1>1, FS_Subset DEF PlacesInv
<1> QED BY <1>2, FS_CardinalityType

LEMMA SpectraInvInit == SpectraInit => SpectraInv
<1>. SUFFICES ASSUME SpectraInit PROVE SpectraInv
  OBVIOUS
<1>1. PlacesInv
  <2>1. Shapes
    BY DEF SpectraInit, Shapes, ArrayNames, PlanNames
  <2> QED BY <2>1 DEF SpectraInit, PlacesInv, InPlatinum, ForBoth
<1>2. RowsInv
  <2>1. 0 \in SpectraFrames
    BY SpectraAssumption DEF SpectraFrames
  <2>2. whole = {} /\ spectraFrame = 1
    BY DEF SpectraInit
  <2>3. \A e \in 0 .. fftl : residualSpecgram[0][e] = Zero
    BY <2>1 DEF SpectraInit
  <2> QED BY <2>2, <2>3 DEF RowsInv
<1>3. ArraysInv
  BY DEF SpectraInit, ArraysInv, ForBoth
<1>4. PlansInv
  BY FS_EmptySet DEF SpectraInit, PlansInv, Pending
<1> QED BY <1>1, <1>2, <1>3, <1>4 DEF SpectraInv

\* The rows and their frames are kept, and so are the marks of what is computed.
LEMMA RowsKept ==
    ASSUME RowsInv, UNCHANGED <<fftl, residualSpecgram, tmpResidualSpec, whole, who>>,
           who = "platinum" => UNCHANGED spectraFrame
    PROVE  RowsInv'
BY DEF RowsInv, Packed, Lower, LastWhole

\* A row that is stored holds what the array holds, and no other row changes.
LEMMA RowStored ==
    ASSUME PlacesInv, NEW a, spectraFrame \in SpectraFrames, StoreRow(a), UNCHANGED fftl
    PROVE  /\ \A f \in SpectraFrames : f # spectraFrame =>
                 residualSpecgram'[f] = residualSpecgram[f]
           /\ \A g : Packed(a, g) => Packed(residualSpecgram'[spectraFrame], g)
           /\ residualSpecgram'[spectraFrame] =
                 [e \in 0..fftl |-> IF e < fftl THEN a[e]
                                    ELSE residualSpecgram[spectraFrame][e]]
<1>1. /\ \A f \in SpectraFrames : f # spectraFrame =>
            residualSpecgram'[f] = residualSpecgram[f]
      /\ residualSpecgram'[spectraFrame] =
            [e \in 0..fftl |-> IF e < fftl THEN a[e] ELSE residualSpecgram[spectraFrame][e]]
  BY DEF StoreRow, PlacesInv, Shapes
<1>2. \A e \in 0 .. fftl - 1 : residualSpecgram'[spectraFrame][e] = a[e]
  BY <1>1, Halved
<1>3. 0 \in 0 .. fftl - 1 /\ fftl - 1 \in 0 .. fftl - 1
  BY Halved
<1>4. \A k \in Lower : (k - 1) * 2 + 1 \in 0 .. fftl - 1 /\ k * 2 \in 0 .. fftl - 1
  BY Halved DEF Lower
<1> QED BY <1>1, <1>2, <1>3, <1>4 DEF Packed

\* The frames up to f that had a window are not more for one after f.
LEMMA LastWholeBefore ==
    ASSUME PlacesInv, NEW f \in Int, f < spectraFrame, whole' = whole \cup {spectraFrame},
           NEW g, LastWhole(g, f)'
    PROVE  LastWhole(g, f)
BY DEF LastWhole, PlacesInv, SpectraFrames

LEMMA WindowInv == SpectraInv /\ Window => SpectraInv'
<1>. SUFFICES ASSUME SpectraInv, Window PROVE SpectraInv'
  OBVIOUS
<1>. USE DEF SpectraInv
<1>1. PlacesInv'
  <2>1. Shapes'
    BY DEF Window, PlacesInv, Shapes, ArrayNames
  <2> QED BY <2>1 DEF Window, PlacesInv, InPlatinum, ForBoth
<1>2. RowsInv'
  <2>1. /\ who = "platinum" /\ spectraFrame \in Nat /\ whole' = whole \cup {spectraFrame}
        /\ UNCHANGED <<fftl, residualSpecgram, tmpResidualSpec, spectraFrame, who>>
    BY DEF Window, PlacesInv
  <2>3. ASSUME NEW f \in SpectraFrames \ {0}, f < spectraFrame, NEW g \in whole', LastWhole(g, f)'
        PROVE  Packed(residualSpecgram[f], g)
    <3>1. LastWhole(g, f)
      BY <2>1, <2>3, LastWholeBefore DEF SpectraFrames
    <3> QED BY <2>1, <2>3, <3>1 DEF RowsInv, LastWhole
  <2>4. ASSUME NEW g \in whole', LastWhole(g, spectraFrame - 1)'
        PROVE  Packed(tmpResidualSpec, g)
    <3>1. PICK f \in Int : f = spectraFrame - 1
      BY <2>1
    <3>2. LastWhole(g, f)
      BY <2>1, <2>4, <3>1, LastWholeBefore DEF LastWhole
    <3> QED BY <2>1, <3>1, <3>2 DEF RowsInv, LastWhole
  <2> QED BY <2>1, <2>3, <2>4 DEF RowsInv, Packed, Lower, LastWhole
<1>3. ArraysInv'
  BY DEF Window, ArraysInv, ForBoth, Holds, ArrayNames, Real, Complex
<1>4. PlansInv'
  <2>1. spectraFrame \notin whole
    BY DEF Window, PlacesInv
  <2>2. Cardinality(whole') = Cardinality(whole) + 1 /\ Cardinality(whole) \in Nat
    BY <2>1, WholeFinite, FS_AddElement DEF Window
  <2> QED BY <2>2 DEF Window, PlansInv, Pending, PlacesInv
<1> QED BY <1>1, <1>2, <1>3, <1>4

LEMMA NoWindowInv == SpectraInv /\ NoWindow => SpectraInv'
<1>. SUFFICES ASSUME SpectraInv, NoWindow PROVE SpectraInv'
  OBVIOUS
<1>. USE DEF SpectraInv
<1>1. PlacesInv'
  <2>1. Shapes'
    BY DEF NoWindow, StoreRow, PlacesInv, Shapes
  <2> QED BY <2>1 DEF NoWindow, PlacesInv, InPlatinum, ForBoth
<1>2. RowsInv'
  <2>1. /\ who = "platinum" /\ spectraFrame \in SpectraFrames /\ spectraFrame \in Nat
        /\ spectraFrame >= 1 /\ spectraFrame' = spectraFrame + 1 /\ StoreRow(tmpResidualSpec)
        /\ UNCHANGED <<fftl, tmpResidualSpec, whole, who>>
    BY DEF NoWindow, PlacesInv
  <2>2. /\ \A f \in SpectraFrames : f # spectraFrame => residualSpecgram'[f] = residualSpecgram[f]
        /\ \A g : Packed(tmpResidualSpec, g) => Packed(residualSpecgram'[spectraFrame], g)
    BY <2>1, RowStored
  <2>3. \A g \in whole : LastWhole(g, spectraFrame) => Packed(tmpResidualSpec, g)
    <3>1. \A h \in whole : h \in Int /\ h <= spectraFrame - 1
      BY <2>1 DEF NoWindow, PlacesInv, SpectraFrames
    <3>2. \A g \in whole : LastWhole(g, spectraFrame) => LastWhole(g, spectraFrame - 1)
      BY <2>1, <3>1 DEF LastWhole
    <3> QED BY <2>1, <3>2 DEF RowsInv
  <2>4. ASSUME NEW f \in SpectraFrames \ {0}, f < spectraFrame + 1,
               NEW g \in whole, LastWhole(g, f)
        PROVE  Packed(residualSpecgram'[f], g)
    <3>1. CASE f = spectraFrame
      BY <2>2, <2>3, <2>4, <3>1
    <3>2. CASE f # spectraFrame
      <4>1. f < spectraFrame
        BY <2>1, <2>4, <3>2 DEF SpectraFrames
      <4> QED BY <2>1, <2>2, <2>4, <3>2, <4>1 DEF RowsInv
    <3> QED BY <3>1, <3>2
  <2>5. \A e \in 0 .. fftl : residualSpecgram'[0][e] = Zero
    <3>1. 0 \in SpectraFrames
      BY SpectraAssumption DEF SpectraFrames
    <3> QED BY <2>1, <2>2, <3>1 DEF RowsInv
  <2>6. spectraFrame' - 1 = spectraFrame
    BY <2>1
  <2> QED BY <2>1, <2>3, <2>4, <2>5, <2>6 DEF RowsInv, Packed, Lower, LastWhole
<1>3. ArraysInv'
  BY DEF NoWindow, ArraysInv, ForBoth
<1>4. PlansInv'
  BY DEF NoWindow, PlansInv, Pending
<1> QED BY <1>1, <1>2, <1>3, <1>4

LEMMA SynthesisStepInv == SpectraInv /\ Synthesis => SpectraInv'
<1>. SUFFICES ASSUME SpectraInv, Synthesis PROVE SpectraInv'
  OBVIOUS
<1>. USE DEF SpectraInv
<1>1. PlacesInv'
  <2>1. Shapes'
    BY DEF Synthesis, PlacesInv, Shapes, ArrayNames
  <2> QED BY <2>1 DEF Synthesis, PlacesInv, InSynthesis, ForBoth
<1>2. RowsInv'
  <2>1. /\ who = "platinum" /\ who' = "synthesis"
        /\ UNCHANGED <<fftl, residualSpecgram, whole>>
    BY DEF Synthesis
  <2>2. \A f \in SpectraFrames : f < spectraFrame
    BY SpectraAssumption DEF Synthesis, PlacesInv, SpectraFrames
  <2> QED BY <2>1, <2>2 DEF RowsInv, Packed, Lower, LastWhole
<1>3. ArraysInv'
  BY DEF Synthesis, ArraysInv, ForBoth
<1>4. PlansInv'
  BY DEF Synthesis, PlansInv, Pending
<1> QED BY <1>1, <1>2, <1>3, <1>4

LEMMA BeginInv == SpectraInv /\ Begin => SpectraInv'
<1>. SUFFICES ASSUME SpectraInv, Begin PROVE SpectraInv'
  OBVIOUS
<1>. USE DEF SpectraInv
<1>1. PlacesInv'
  <2>1. Shapes'
    BY DEF Begin, PlacesInv, Shapes, ArrayNames, PlanNames
  <2> QED BY <2>1 DEF Begin, PlacesInv, InSynthesis, ForBoth, SpectraFrames
<1>2. RowsInv'
  BY RowsKept DEF Begin
<1>3. ArraysInv'
  BY DEF Begin, ArraysInv, ForBoth, PlacesInv, Shapes, PlanNames
<1>4. PlansInv'
  BY WholeFinite DEF Begin, PlansInv, Pending, PlacesInv
<1> QED BY <1>1, <1>2, <1>3, <1>4

LEMMA MakePlansInv == SpectraInv /\ MakePlans => SpectraInv'
<1>. SUFFICES ASSUME SpectraInv, MakePlans PROVE SpectraInv'
  OBVIOUS
<1>. USE DEF SpectraInv
<1>1. PlacesInv'
  <2>1. Shapes'
    BY DEF MakePlans, PlacesInv, Shapes, ArrayNames, PlanNames
  <2> QED BY <2>1 DEF MakePlans, PlacesInv, InPlatinum, InSynthesis, ForBoth
<1>2. RowsInv'
  BY RowsKept DEF MakePlans
<1>3. ArraysInv'
  BY DEF MakePlans, ArraysInv, ForBoth, PlacesInv, Shapes, PlanNames, Holds
<1>4. PlansInv'
  BY WholeFinite DEF MakePlans, PlansInv, Pending, PlacesInv
<1> QED BY <1>1, <1>2, <1>3, <1>4

LEMMA LogInv == SpectraInv /\ LogAmplitude => SpectraInv'
<1>. SUFFICES ASSUME SpectraInv, LogAmplitude PROVE SpectraInv'
  OBVIOUS
<1>. USE DEF SpectraInv
<1>1. PlacesInv'
  <2>1. Shapes'
    BY DEF LogAmplitude, PlacesInv, Shapes, ArrayNames
  <2> QED BY <2>1 DEF LogAmplitude, PlacesInv, InPlatinum, InSynthesis, ForBoth
<1>2. RowsInv'
  BY RowsKept DEF LogAmplitude
<1>3. mem'["spectrum"] = Mirror([k \in 0 .. fftl - 1 |-> Value("log", spectraFrame, k, 1)])
      /\ mem'["tmpWave"] = mem["tmpWave"]
  BY DEF LogAmplitude, PlacesInv, Shapes, ArrayNames, Complex
<1>4. \A k \in 0 .. fftl - 1 :
         mem'["spectrum"][k] =
            Value("log", spectraFrame, IF k <= fftl \div 2 THEN k ELSE fftl - k, 1)
  BY <1>3, Halved DEF Mirror
<1>5. ArraysInv'
  BY <1>3, <1>4 DEF LogAmplitude, ArraysInv, ForBoth, Holds
<1>6. PlansInv'
  BY DEF LogAmplitude, PlansInv, Pending
<1> QED BY <1>1, <1>2, <1>5, <1>6

\* The logarithms of all bins give the cepstrum, the folded cepstrum the minimum
\* phase spectrum.
LEMMA ForwardOfLogs ==
    ASSUME PlacesInv, NEW a, NEW f \in SpectraFrames,
           \A k \in 0 .. fftl - 1 :
              a[k] = Value("log", f, IF k <= fftl \div 2 THEN k ELSE fftl - k, 1)
    PROVE  dft(a, FFT_FORWARD) = [k \in 0 .. fftl - 1 |-> Value("cepstrum", f, k, 1)]
<1>1. 0 \in 0 .. fftl - 1 /\ 0 <= fftl \div 2
  BY Halved
<1>2. a[0] = Value("log", f, 0, 1)
  BY <1>1
<1>3. a[0][2] = f
  BY <1>2 DEF Value
<1>. DEFINE Logs(g) == \A i \in 0 .. fftl - 1 :
                         a[i] = Value("log", g, IF i <= fftl \div 2 THEN i ELSE fftl - i, 1)
<1>4. \E g \in SpectraFrames : FFT_FORWARD = FFT_FORWARD /\ Logs(g)
  OBVIOUS
<1>5. \A g \in SpectraFrames : ~HalfKept(a, g, Lower, Upper)
  BY <1>2 DEF HalfKept, Value
<1>6. dft(a, FFT_FORWARD) =
         [k \in 0 .. fftl - 1 |->
            CASE \E g \in SpectraFrames : FFT_FORWARD = FFT_FORWARD /\ Logs(g)
                   -> Value("cepstrum", a[0][2], k, 1)
              [] \E g \in SpectraFrames : HalfKept(a, g, Lower, Upper)
                   -> Value("minimum", a[0][2], k, 1)
              [] OTHER -> Noise]
  BY DEF dft
<1>. HIDE DEF Logs
<1> QED BY <1>3, <1>4, <1>5, <1>6

LEMMA BackwardOfFolded ==
    ASSUME PlacesInv, NEW a, NEW f \in SpectraFrames, HalfKept(a, f, Upper, Lower)
    PROVE  dft(a, FFT_BACKWARD) = [k \in 0 .. fftl - 1 |-> Value("minimum", f, k, 1)]
<1>1. a[0][2] = f
  BY DEF HalfKept, Value
<1>2. FFT_BACKWARD # FFT_FORWARD
  BY DEF FFT_BACKWARD, FFT_FORWARD
<1> QED BY <1>1, <1>2 DEF dft

\* What each transform makes of the arrays, and that the invariant holds after it.
LEMMA ForwardMem ==
    ASSUME SpectraInv, Forward
    PROVE  mem' = [mem EXCEPT !["cepstrum"] = dft(mem["spectrum"], FFT_FORWARD)]
<1>. USE DEF SpectraInv
<1>. DEFINE p == plan["forwardFFT"]
<1>1. p = fft_plan_dft_1d("spectrum", "cepstrum", FFT_FORWARD)
  BY DEF Forward, ArraysInv, ForBoth
<1>2. p.c_in = "spectrum" /\ p.c_out = "cepstrum" /\ p.sign = FFT_FORWARD /\ p.c_in # NULL
  BY <1>1 DEF fft_plan_dft_1d, NULL
<1>3. mem' = ForwardFFT(p)
  BY <1>2 DEF Forward, fft_execute
<1>. HIDE DEF p
<1> QED BY <1>2, <1>3 DEF ForwardFFT

LEMMA ForwardInv == SpectraInv /\ Forward => SpectraInv'
<1>. SUFFICES ASSUME SpectraInv, Forward PROVE SpectraInv'
  OBVIOUS
<1>. USE DEF SpectraInv
<1>1. mem' = [mem EXCEPT !["cepstrum"] = dft(mem["spectrum"], FFT_FORWARD)]
  BY ForwardMem
<1>2. PlacesInv'
  <2>1. Shapes'
    BY <1>1 DEF Forward, PlacesInv, Shapes, ArrayNames
  <2> QED BY <2>1 DEF Forward, PlacesInv, InPlatinum, InSynthesis, ForBoth
<1>3. RowsInv'
  BY RowsKept DEF Forward
<1>4. mem'["tmpWave"] = mem["tmpWave"]
      /\ mem'["cepstrum"] = [k \in 0 .. fftl - 1 |-> Value("cepstrum", spectraFrame, k, 1)]
  <2>1. mem'["tmpWave"] = mem["tmpWave"]
        /\ mem'["cepstrum"] = dft(mem["spectrum"], FFT_FORWARD)
    BY <1>1 DEF PlacesInv, Shapes, ArrayNames, Complex
  <2>2. spectraFrame \in SpectraFrames
    BY DEF Forward, PlacesInv
  <2>3. \A k \in 0 .. fftl - 1 :
           mem["spectrum"][k] =
              Value("log", spectraFrame, IF k <= fftl \div 2 THEN k ELSE fftl - k, 1)
    BY DEF Forward, ArraysInv
  <2> QED BY <2>1, <2>2, <2>3, ForwardOfLogs
<1>5. ArraysInv'
  BY <1>4 DEF Forward, ArraysInv, ForBoth, Holds
<1>6. PlansInv'
  BY DEF Forward, PlansInv, Pending
<1> QED BY <1>2, <1>3, <1>5, <1>6

LEMMA FoldInv == SpectraInv /\ FoldCepstrum => SpectraInv'
<1>. SUFFICES ASSUME SpectraInv, FoldCepstrum PROVE SpectraInv'
  OBVIOUS
<1>. USE DEF SpectraInv
<1>1. PlacesInv'
  <2>1. Shapes'
    BY DEF FoldCepstrum, PlacesInv, Shapes, ArrayNames
  <2> QED BY <2>1 DEF FoldCepstrum, PlacesInv, InPlatinum, InSynthesis, ForBoth
<1>2. RowsInv'
  BY RowsKept DEF FoldCepstrum
<1>3. mem'["cepstrum"] = Fold(mem["cepstrum"]) /\ mem'["tmpWave"] = mem["tmpWave"]
  BY DEF FoldCepstrum, PlacesInv, Shapes, ArrayNames, Complex
<1>4. HalfKept(Fold(mem["cepstrum"]), spectraFrame, Upper, Lower)
  <2>1. \A k \in 0 .. fftl - 1 : mem["cepstrum"][k] = Value("cepstrum", spectraFrame, k, 1)
    BY DEF FoldCepstrum, ArraysInv, Holds
  <2>2. \A k \in 0 .. fftl - 1 :
           Doubled(mem["cepstrum"][k]) = Value("cepstrum", spectraFrame, k, 2)
    BY <2>1 DEF Doubled, Value
  <2> QED BY <2>1, <2>2, Halved DEF HalfKept, Fold, Upper, Lower
<1>5. ArraysInv'
  BY <1>3, <1>4 DEF FoldCepstrum, ArraysInv, ForBoth, Holds, HalfKept, Upper, Lower
<1>6. PlansInv'
  BY WholeFinite DEF FoldCepstrum, PlansInv, Pending, PlacesInv
<1> QED BY <1>1, <1>2, <1>5, <1>6

LEMMA InverseMem ==
    ASSUME SpectraInv, InverseTransform
    PROVE  mem' = [mem EXCEPT !["spectrum"] = dft(mem["cepstrum"], FFT_BACKWARD)]
<1>. USE DEF SpectraInv
<1>. DEFINE p == plan["inverseFFT"]
<1>1. p = fft_plan_dft_1d("cepstrum", "spectrum", FFT_BACKWARD)
  BY DEF InverseTransform, ArraysInv, ForBoth
<1>2. p.c_in = "cepstrum" /\ p.c_out = "spectrum" /\ p.sign # FFT_FORWARD /\ p.c_out # NULL
  BY <1>1 DEF fft_plan_dft_1d, NULL, FFT_BACKWARD, FFT_FORWARD
<1>3. mem' = BackwardFFT(p)
  BY <1>2 DEF InverseTransform, fft_execute
<1>. HIDE DEF p
<1> QED BY <1>2, <1>3 DEF BackwardFFT

LEMMA InverseInv == SpectraInv /\ InverseTransform => SpectraInv'
<1>. SUFFICES ASSUME SpectraInv, InverseTransform PROVE SpectraInv'
  OBVIOUS
<1>. USE DEF SpectraInv
<1>1. mem' = [mem EXCEPT !["spectrum"] = dft(mem["cepstrum"], FFT_BACKWARD)]
  BY InverseMem
<1>2. PlacesInv'
  <2>1. Shapes'
    BY <1>1 DEF InverseTransform, PlacesInv, Shapes, ArrayNames
  <2> QED BY <2>1 DEF InverseTransform, PlacesInv, InPlatinum, InSynthesis, ForBoth
<1>3. RowsInv'
  BY RowsKept DEF InverseTransform
<1>4. mem'["tmpWave"] = mem["tmpWave"]
      /\ mem'["spectrum"] = [k \in 0 .. fftl - 1 |-> Value("minimum", spectraFrame, k, 1)]
  <2>1. mem'["tmpWave"] = mem["tmpWave"]
        /\ mem'["spectrum"] = dft(mem["cepstrum"], FFT_BACKWARD)
    BY <1>1 DEF PlacesInv, Shapes, ArrayNames, Complex
  <2>2. spectraFrame \in SpectraFrames /\ HalfKept(mem["cepstrum"], spectraFrame, Upper, Lower)
    BY DEF InverseTransform, PlacesInv, ArraysInv
  <2> QED BY <2>1, <2>2, BackwardOfFolded
<1>5. ArraysInv'
  BY <1>4 DEF InverseTransform, ArraysInv, ForBoth, Holds
<1>6. PlansInv'
  BY DEF InverseTransform, PlansInv, Pending, PlacesInv, ForBoth, InPlatinum, InSynthesis
<1> QED BY <1>2, <1>3, <1>5, <1>6

LEMMA SegmentMem ==
    ASSUME SpectraInv, Segment
    PROVE  mem' = [mem EXCEPT !["tmpSpec"] = [k \in 0 .. fftl - 1 |->
                    IF k > fftl \div 2 THEN @[k] ELSE Value("segment", spectraFrame, k, 1)]]
<1>. USE DEF SpectraInv
<1>. DEFINE p == fft_plan_dft_r2c_1d("tmpWave", "tmpSpec")
<1>0. p.c_in = NULL /\ p.in = "tmpWave" /\ p.c_out = "tmpSpec" /\ p.sign = FFT_FORWARD
  BY DEF fft_plan_dft_r2c_1d
<1>1. mem' = ForwardFFT(p)
  BY <1>0 DEF Segment, fft_execute
<1>2. \A k \in 0 .. fftl - 1 : mem["tmpWave"][k] = Value("wave", spectraFrame, k, 1)
  BY DEF Segment, ArraysInv, Holds, PlacesInv, InSynthesis, ForBoth
<1>3. spectraFrame \in SpectraFrames
  BY DEF Segment, PlacesInv
<1>4. mem["tmpWave"][0][2] = spectraFrame
  <2>1. mem["tmpWave"][0] = Value("wave", spectraFrame, 0, 1)
    BY <1>2, Halved
  <2> QED BY <2>1 DEF Value
<1>. HIDE DEF p
<1>5. mem' = [mem EXCEPT !["tmpSpec"] = [k \in 0 .. fftl - 1 |->
          IF k > fftl \div 2 THEN @[k]
          ELSE IF \E f \in SpectraFrames : \A i \in 0 .. fftl - 1 :
                    mem["tmpWave"][i] = Value("wave", f, i, 1)
               THEN Value("segment", mem["tmpWave"][0][2], k, 1) ELSE Noise]]
  BY <1>0, <1>1 DEF ForwardFFT
<1>6. \E f \in SpectraFrames : \A i \in 0 .. fftl - 1 : mem["tmpWave"][i] = Value("wave", f, i, 1)
  BY <1>2, <1>3
<1> QED BY <1>4, <1>5, <1>6

LEMMA SegmentInv == SpectraInv /\ Segment => SpectraInv'
<1>. SUFFICES ASSUME SpectraInv, Segment PROVE SpectraInv'
  OBVIOUS
<1>. USE DEF SpectraInv
<1>1. mem' = [mem EXCEPT !["tmpSpec"] = [k \in 0 .. fftl - 1 |->
                  IF k > fftl \div 2 THEN @[k] ELSE Value("segment", spectraFrame, k, 1)]]
  BY SegmentMem
<1>2. PlacesInv'
  <2>1. Shapes'
    BY <1>1 DEF Segment, PlacesInv, Shapes, ArrayNames, PlanNames
  <2> QED BY <2>1 DEF Segment, PlacesInv, InPlatinum, InSynthesis, ForBoth
<1>3. RowsInv'
  BY RowsKept DEF Segment
<1>4. /\ mem'["spectrum"] = mem["spectrum"]
      /\ \A k \in FirstHalf : mem'["tmpSpec"][k] = Value("segment", spectraFrame, k, 1)
  BY <1>1, Halved DEF PlacesInv, Shapes, ArrayNames, Complex, FirstHalf
<1>5. ArraysInv'
  BY <1>4 DEF Segment, ArraysInv, ForBoth, Holds, PlacesInv, InSynthesis, FirstHalf
<1>6. PlansInv'
  BY WholeFinite DEF Segment, PlansInv, Pending, PlacesInv, InSynthesis, ForBoth
<1> QED BY <1>2, <1>3, <1>5, <1>6

LEMMA DivideInv == SpectraInv /\ Divide => SpectraInv'
<1>. SUFFICES ASSUME SpectraInv, Divide PROVE SpectraInv'
  OBVIOUS
<1>. USE DEF SpectraInv
<1>1. who = "platinum" /\ spectraFrame \in SpectraFrames /\ spectraFrame \in whole
  BY DEF Divide, PlacesInv, InSynthesis, ForBoth
<1>2. PlacesInv'
  <2>1. Shapes'
    BY DEF Divide, StoreRow, PlacesInv, Shapes
  <2> QED BY <1>1, <2>1 DEF Divide, PlacesInv, InPlatinum, ForBoth
<1>3. RowsInv'
  <2>1. \A k \in FirstHalf : /\ QuotientOf("real", k) = Value("real", spectraFrame, k, 1)
                            /\ QuotientOf("imaginary", k) = Value("imaginary", spectraFrame, k, 1)
    BY Halved DEF Divide, ArraysInv, Holds, FirstHalf, QuotientOf
  <2>2. /\ spectraFrame' = spectraFrame + 1 /\ spectraFrame \in Nat /\ spectraFrame >= 1
        /\ tmpResidualSpec' = Row /\ StoreRow(Row)
        /\ UNCHANGED <<fftl, whole, who>>
    BY <1>1 DEF Divide, PlacesInv
  <2>. PICK g \in SpectraFrames : g = spectraFrame
    BY <1>1
  <2>3. Packed(Row, g)
    <3>1. Row[0] = Value("real", spectraFrame, 0, 1)
      BY <2>1, Halved DEF Row, FirstHalf
    <3>2. Row[fftl - 1] = Value("real", spectraFrame, fftl \div 2, 1)
      BY <2>1, Halved DEF Row, FirstHalf
    <3>3. ASSUME NEW k \in Lower
          PROVE  /\ Row[(k - 1) * 2 + 1] = Value("real", spectraFrame, k, 1)
                 /\ Row[k * 2] = Value("imaginary", spectraFrame, k, 1)
      <4>1. PICK o \in Nat, e \in Nat : o = (k - 1) * 2 + 1 /\ e = k * 2 /\ o = 2 * k - 1 /\ e = 2 * k
        BY Halved DEF Lower
      <4>2. /\ o \in 1 .. fftl - 2 /\ o % 2 = 1 /\ (o + 1) \div 2 = k
            /\ e \in 1 .. fftl - 2 /\ e % 2 = 0 /\ e \div 2 = k /\ k \in FirstHalf
        BY <4>1, Halved DEF Lower, FirstHalf
      <4>3. Row[o] = QuotientOf("real", k)
        <5>1. o \in 0 .. fftl - 1 /\ o # 0 /\ o # fftl - 1
          BY <4>2, Halved
        <5> QED BY <4>2, <5>1 DEF Row
      <4>4. Row[e] = QuotientOf("imaginary", k)
        <5>1. e \in 0 .. fftl - 1 /\ e # 0 /\ e # fftl - 1 /\ e % 2 # 1
          BY <4>2, Halved
        <5>2. Row[e] = QuotientOf("imaginary", e \div 2)
          BY <5>1 DEF Row
        <5> QED BY <4>2, <5>2
      <4> QED BY <2>1, <4>1, <4>2, <4>3, <4>4
    <3> QED BY <3>1, <3>2, <3>3 DEF Packed
  <2>4. /\ \A f \in SpectraFrames : f # spectraFrame => residualSpecgram'[f] = residualSpecgram[f]
        /\ Packed(residualSpecgram'[g], g)
    BY <1>1, <2>2, <2>3, RowStored
  <2>5. \A h \in whole : LastWhole(h, g) => h = g
    BY <1>1 DEF LastWhole, PlacesInv, SpectraFrames
  <2>6. ASSUME NEW f \in SpectraFrames \ {0}, f < spectraFrame + 1,
               NEW h \in whole, LastWhole(h, f)
        PROVE  Packed(residualSpecgram'[f], h)
    <3>1. CASE f = g
      BY <2>4, <2>5, <2>6, <3>1
    <3>2. CASE f # g
      <4>1. f < spectraFrame
        BY <2>2, <2>6, <3>2 DEF SpectraFrames
      <4> QED BY <1>1, <2>4, <2>6, <3>2, <4>1 DEF RowsInv
    <3> QED BY <3>1, <3>2
  <2>7. \A e \in 0 .. fftl : residualSpecgram'[0][e] = Zero
    <3>1. 0 \in SpectraFrames
      BY SpectraAssumption DEF SpectraFrames
    <3> QED BY <2>2, <2>4, <3>1 DEF RowsInv
  <2>8. spectraFrame' - 1 = g
    BY <2>2
  <2>9. \A h \in whole : LastWhole(h, g) => Packed(Row, h)
    BY <2>3, <2>5
  <2>10. ASSUME NEW h \in whole', LastWhole(h, spectraFrame - 1)'
         PROVE  Packed(tmpResidualSpec, h)'
    <3>1. LastWhole(h, g)
      BY <2>2, <2>8, <2>10 DEF LastWhole
    <3>2. Packed(Row, h)
      BY <2>2, <2>9, <2>10, <3>1
    <3>3. PICK row : row = Row
      OBVIOUS
    <3>4. tmpResidualSpec' = row /\ Packed(row, h)
      BY <2>2, <3>2, <3>3
    <3> QED BY <2>2, <3>4 DEF Packed, Lower
  <2>11. ASSUME NEW f \in SpectraFrames \ {0}, f < spectraFrame',
                NEW h \in whole', LastWhole(h, f)'
         PROVE  Packed(residualSpecgram[f], h)'
    <3>1. Packed(residualSpecgram'[f], h)
      BY <2>2, <2>6, <2>11 DEF LastWhole
    <3> QED BY <2>2, <3>1 DEF Packed, Lower
  <2>12. who' = "platinum"
    BY <1>1, <2>2
  <2> QED BY <2>2, <2>7, <2>10, <2>11, <2>12 DEF RowsInv
<1>5. ArraysInv'
  BY DEF Divide, ArraysInv, ForBoth
<1>6. PlansInv'
  BY <1>1 DEF Divide, PlansInv, Pending
<1> QED BY <1>2, <1>3, <1>5, <1>6

\* The bins at both ends have one number of the row.
LEMMA ProductsAtEnds ==
    ASSUME PlacesInv
    PROVE  /\ Products[0] = Product(0, residualSpecgram[spectraFrame][0], Zero)
           /\ Products[fftl \div 2] =
                Product(fftl \div 2, residualSpecgram[spectraFrame][fftl - 1], Zero)
<1>. PICK h \in Nat : h = fftl \div 2 /\ h >= 2 /\ fftl = 2 * h
  BY Halved
<1>. DEFINE low == Product(0, residualSpecgram[spectraFrame][0], Zero)
            high == Product(h, residualSpecgram[spectraFrame][fftl - 1], Zero)
            row == residualSpecgram[spectraFrame]
            within(k) == Product(k, row[(k - 1) * 2 + 1], row[k * 2])
            body(k) == CASE k = 0 -> Product(0, row[0], Zero)
                         [] k = h -> Product(k, row[fftl - 1], Zero)
                         [] k \in Lower -> within(k)
                         [] OTHER -> mem["spectrum"][k]
<1>1. Products = [k \in 0 .. fftl - 1 |-> body(k)]
  BY DEF Products
<1>2. 0 # h /\ 0 \notin Lower /\ h \notin Lower /\ 0 \in 0 .. fftl - 1 /\ h \in 0 .. fftl - 1
  BY DEF Lower
<1>. HIDE DEF within
<1>3. body(0) = low
  BY <1>2, Zenon
<1>4. body(h) = high
  BY <1>2, Zenon
<1>. HIDE DEF body, low, high, row
<1>5. Products[0] = low /\ Products[h] = high
  BY <1>1, <1>2, <1>3, <1>4
<1> QED BY <1>5 DEF low, high

LEMMA MultiplyInv == SpectraInv /\ Multiply => SpectraInv'
<1>. SUFFICES ASSUME SpectraInv, Multiply PROVE SpectraInv'
  OBVIOUS
<1>. USE DEF SpectraInv
<1>1. PlacesInv'
  <2>1. Shapes'
    BY DEF Multiply, PlacesInv, Shapes, ArrayNames
  <2> QED BY <2>1 DEF Multiply, PlacesInv, InPlatinum, InSynthesis, ForBoth
<1>2. RowsInv'
  BY RowsKept DEF Multiply
<1>3. mem'["spectrum"] = Products /\ who = "synthesis" /\ spectraFrame \in SpectraFrames
  BY DEF Multiply, PlacesInv, Shapes, ArrayNames, Complex, InPlatinum, ForBoth
<1>4. ASSUME NEW k \in FirstHalf PROVE Expected(Products[k], k)
  <2>1. mem["spectrum"][k] = Value("minimum", spectraFrame, k, 1) /\ k \in 0 .. fftl - 1
    BY Halved DEF Multiply, ArraysInv, Holds, FirstHalf
  <2>. DEFINE row == residualSpecgram[spectraFrame]
  <2>2. \/ k = 0 /\ k \notin Lower /\ Products[k] = Product(k, row[0], Zero)
        \/ /\ k = fftl \div 2 /\ k \notin Lower
           /\ Products[k] = Product(k, row[fftl - 1], Zero)
        \/ k \in Lower /\ Products[k] = Product(k, row[(k - 1) * 2 + 1], row[k * 2])
    <3>1. CASE k = 0
      BY <3>1, ProductsAtEnds DEF Lower
    <3>2. CASE k = fftl \div 2
      BY <3>2, ProductsAtEnds, Halved DEF Lower
    <3>3. CASE k # 0 /\ k # fftl \div 2
      <4>1. k \in Lower
        BY <3>3, Halved DEF Lower, FirstHalf
      <4> QED BY <2>1, <3>3, <4>1 DEF Products
    <3> QED BY <3>1, <3>2, <3>3
  <2>3. ASSUME NEW g \in whole, LastWhole(g, spectraFrame)
        PROVE  Products[k] = Value(IF g = spectraFrame THEN "segment" ELSE "carried", g, k, 1)
    <3>1. spectraFrame \in SpectraFrames \ {0}
      BY <1>3, <2>3 DEF LastWhole, PlacesInv, SpectraFrames
    <3>2. Packed(row, g)
      BY <1>3, <2>3, <3>1 DEF RowsInv
    <3>. HIDE DEF row
    <3>3. PICK real, imaginary :
            /\ Products[k] = Product(k, real, imaginary)
            /\ real = Value("real", g, k, 1)
            /\ imaginary = IF k \in Lower THEN Value("imaginary", g, k, 1) ELSE Zero
      BY <2>2, <3>2 DEF Packed
    <3>4. real[2] = g
      BY <3>3 DEF Value
    <3> QED BY <2>1, <3>3, <3>4 DEF Product
  <2>4. ASSUME spectraFrame = 0
        PROVE  Products[k] = Zero
    <3>1. \A e \in 0 .. fftl : row[e] = Zero
      BY <2>4 DEF RowsInv
    <3>2. \A g : Zero # Value("real", g, k, 1)
      BY DEF Zero, Value
    <3>3. Product(k, Zero, Zero) = Zero
      BY <3>2 DEF Product
    <3>4. \A h \in Lower : (h - 1) * 2 + 1 \in 0 .. fftl /\ h * 2 \in 0 .. fftl
      BY Halved DEF Lower
    <3>5. 0 \in 0 .. fftl /\ fftl - 1 \in 0 .. fftl
      BY Halved
    <3>. HIDE DEF row
    <3> QED BY <2>2, <3>1, <3>3, <3>4, <3>5
  <2> QED BY <2>3, <2>4 DEF Expected
<1>5. ArraysInv'
  BY <1>3, <1>4 DEF Multiply, ArraysInv, ForBoth, Expected, FirstHalf, LastWhole
<1>6. PlansInv'
  BY WholeFinite DEF Multiply, PlansInv, Pending, PlacesInv
<1> QED BY <1>1, <1>2, <1>5, <1>6

LEMMA ResponseMem ==
    ASSUME SpectraInv, SpectraResponse
    PROVE  /\ who = "synthesis"
           /\ mem' = [mem EXCEPT !["response"] = [k \in FirstHalf |-> mem["spectrum"][k]]]
<1>. USE DEF SpectraInv
<1>1. who = "synthesis" /\ plan["inverseFFT_RP"] = fft_plan_dft_c2r_1d("spectrum", "response")
  BY DEF SpectraResponse, PlacesInv, InPlatinum, ForBoth, ArraysInv
<1>2. mem' = [mem EXCEPT !["response"] = [k \in FirstHalf |-> mem["spectrum"][k]]]
  BY <1>1 DEF SpectraResponse, fft_execute, BackwardFFT, fft_plan_dft_c2r_1d, NULL,
              FFT_BACKWARD, FFT_FORWARD, FirstHalf
<1> QED BY <1>1, <1>2

LEMMA ResponseInv == SpectraInv /\ SpectraResponse => SpectraInv'
<1>. SUFFICES ASSUME SpectraInv, SpectraResponse PROVE SpectraInv'
  OBVIOUS
<1>. USE DEF SpectraInv
<1>1. who = "synthesis"
  BY ResponseMem
<1>2. mem' = [mem EXCEPT !["response"] = [k \in FirstHalf |-> mem["spectrum"][k]]]
  BY ResponseMem
<1>3. PlacesInv'
  <2>1. Shapes'
    BY <1>2 DEF SpectraResponse, PlacesInv, Shapes, ArrayNames
  <2> QED BY <2>1 DEF SpectraResponse, PlacesInv, InPlatinum, InSynthesis, ForBoth
<1>4. RowsInv'
  BY RowsKept DEF SpectraResponse
<1>5. ArraysInv'
  <2>1. mem'["response"] = [k \in FirstHalf |-> mem["spectrum"][k]]
    BY <1>2 DEF PlacesInv, Shapes, ArrayNames, Real
  <2>2. \A k \in FirstHalf : Expected(mem["spectrum"][k], k)
    BY DEF SpectraResponse, ArraysInv
  <2> QED BY <1>1, <2>1, <2>2
          DEF SpectraResponse, ArraysInv, ForBoth, Expected, FirstHalf, LastWhole
<1>6. PlansInv'
  BY <1>1, WholeFinite DEF SpectraResponse, PlansInv, Pending, PlacesInv
<1> QED BY <1>3, <1>4, <1>5, <1>6

LEMMA AddInv == SpectraInv /\ Add => SpectraInv'
<1>. SUFFICES ASSUME SpectraInv, Add PROVE SpectraInv'
  OBVIOUS
<1>. USE DEF SpectraInv
<1>0. who = "synthesis"
  BY DEF Add, PlacesInv, InPlatinum, ForBoth
<1>1. PlacesInv'
  <2>1. Shapes'
    BY DEF Add, PlacesInv, Shapes, ArrayNames
  <2> QED BY <1>0, <2>1 DEF Add, PlacesInv, InSynthesis, ForBoth
<1>2. RowsInv'
  BY RowsKept DEF Add
<1>5. ArraysInv'
  BY <1>0 DEF Add, ArraysInv, ForBoth
<1>6. PlansInv'
  BY <1>0 DEF Add, PlansInv, Pending
<1> QED BY <1>1, <1>2, <1>5, <1>6

LEMMA SpectraInvStep == SpectraInv /\ [SpectraNext]_spectraVars => SpectraInv'
<1>. SUFFICES ASSUME SpectraInv, [SpectraNext]_spectraVars PROVE SpectraInv'
  OBVIOUS
<1>1. CASE UNCHANGED spectraVars
  <2>1. PlacesInv' /\ RowsInv' /\ PlansInv'
    BY <1>1 DEF spectraVars, SpectraInv, PlacesInv, Shapes, RowsInv, Packed, LastWhole, Lower,
                PlansInv, Pending
  <2>2. ArraysInv'
    BY <1>1 DEF spectraVars, SpectraInv, ArraysInv, Holds, HalfKept, Lower, Upper, FirstHalf,
                Expected, LastWhole
  <2> QED BY <2>1, <2>2 DEF SpectraInv
<1> QED
  BY <1>1, WindowInv, NoWindowInv, SynthesisStepInv, BeginInv, MakePlansInv, LogInv, ForwardInv,
     FoldInv, InverseInv, SegmentInv, DivideInv, MultiplyInv, ResponseInv, AddInv
     DEF SpectraNext, SpectraEnded

\* The response of every frame that had a window is the segment of its own, that of
\* one that had none is made of the quotients of the last frame before it that
\* did, frame 0 is silent, and the plans that are left over are three for each row and two for
\* each response: for every FFT length, any number of frames, and responses of
\* any frames in any order.
THEOREM ResponsesAreSound == SpectraSpec => []ResponsesSound
<1>1. SpectraSpec => []SpectraInv
  BY SpectraInvInit, SpectraInvStep, PTL DEF SpectraSpec
<1>2. SpectraInv => ResponsesSound
  <2>. SUFFICES ASSUME SpectraInv PROVE ResponsesSound
    OBVIOUS
  <2>1. SegmentReproduced
    BY DEF SpectraInv, ArraysInv, SegmentReproduced, Expected, FirstHalf
  <2>2. PlansLeft
    BY WholeFinite DEF SpectraInv, PlansInv, PlansLeft, Pending, PlacesInv
  <2> QED BY <2>1, <2>2 DEF ResponsesSound
<1> QED BY <1>1, <1>2, PTL

-----------------------------------------------------------------------------
(* The types of the spectra *)

Filled(a) == DOMAIN a = 0 .. (fftl - 1) /\ \A i \in 0 .. (fftl - 1) : IsValue(a[i])
ArraysFilled == \A a \in Complex \cup {"tmpWave"} : Filled(mem[a])
RowsFilled ==
    \A f \in SpectraFrames :
        /\ DOMAIN residualSpecgram[f] = 0 .. fftl
        /\ \A e \in 0 .. fftl : IsValue(residualSpecgram[f][e])

\* The rows and the array they are copied from.
QuotientsFilled == RowsFilled /\ Filled(tmpResidualSpec)

SpectraTyped == SpectraInv /\ SpectraTypeOK

LEMMA ValuesAre ==
    ASSUME PlacesInv
    PROVE  /\ IsValue(Noise) /\ IsValue(Zero)
           /\ \A of \in Quantity, f \in SpectraFrames, k \in 0 .. fftl, w \in 0 .. 2 :
                 IsValue(Value(of, f, k, w))
<1>1. /\ 0 \in 0 .. fftl /\ 0 \in 0 .. 2 /\ "noise" \in Quantity /\ "zero" \in Quantity
      /\ 0 \in SpectraFrames
  BY Halved, SpectraAssumption DEF Quantity, SpectraFrames
<1>2. IsValue(Noise) /\ IsValue(Zero)
  BY <1>1 DEF IsValue, Noise, Zero, Value
<1>3. \A of \in Quantity, f \in SpectraFrames, k \in 0 .. fftl, w \in 0 .. 2 :
         IsValue(Value(of, f, k, w))
  BY DEF IsValue, Value
<1> QED BY <1>2, <1>3

LEMMA GarbageFilled == PlacesInv => Filled(Garbage)
BY ValuesAre DEF Filled, Garbage

\* A step that writes one array whole keeps the others.
LEMMA OneWritten ==
    ASSUME SpectraTyped, NEW n, NEW g, Filled(g), UNCHANGED fftl,
           mem' = [mem EXCEPT ![n] = g]
    PROVE  ArraysFilled'
<1>1. \A a \in Complex \cup {"tmpWave"} : a # n => mem'[a] = mem[a]
  BY DEF SpectraTyped, SpectraInv, PlacesInv, Shapes, ArrayNames, Real
<1>2. \A a \in Complex \cup {"tmpWave"} : a = n => mem'[a] = g
  BY DEF SpectraTyped, SpectraInv, PlacesInv, Shapes, ArrayNames, Real
<1>3. \A a \in Complex \cup {"tmpWave"} : Filled(mem[a])
  BY DEF SpectraTyped, SpectraTypeOK, Filled
<1>4. \A a \in Complex \cup {"tmpWave"} : Filled(mem'[a])
  BY <1>1, <1>2, <1>3
<1> QED BY <1>4 DEF ArraysFilled, Filled, IsValue

\* A step that writes none of those it is about keeps them all.
LEMMA NoneWritten ==
    ASSUME SpectraTyped, UNCHANGED fftl,
           \A a \in Complex \cup {"tmpWave"} : mem'[a] = mem[a]
    PROVE  ArraysFilled'
<1>3. \A a \in Complex \cup {"tmpWave"} : Filled(mem[a])
  BY DEF SpectraTyped, SpectraTypeOK, Filled
<1> QED BY <1>3 DEF ArraysFilled, Filled, IsValue

LEMMA RowsStayFilled ==
    ASSUME SpectraTyped, UNCHANGED <<fftl, residualSpecgram, tmpResidualSpec>>
    PROVE  QuotientsFilled'
BY DEF SpectraTyped, SpectraTypeOK, QuotientsFilled, RowsFilled, Filled, IsValue

LEMMA TypedTogether ==
    ASSUME ArraysFilled, QuotientsFilled, PlacesInv, plans \in Nat,
           count \in 0 .. MaxResponses
    PROVE  SpectraTypeOK
BY DEF ArraysFilled, QuotientsFilled, RowsFilled, PlacesInv, SpectraTypeOK, Filled

-----------------------------------------------------------------------------
\* The types hold at first, and after every step.
LEMMA SpectraTypedInit == SpectraInit => SpectraTyped
<1>. SUFFICES ASSUME SpectraInit PROVE SpectraTyped
  OBVIOUS
<1>1. SpectraInv
  BY SpectraInvInit
<1>2. PlacesInv
  BY <1>1 DEF SpectraInv
<1>3. ArraysFilled
  BY <1>2, GarbageFilled DEF SpectraInit, ArraysFilled, Real
<1>4. QuotientsFilled
  BY <1>2, ValuesAre, GarbageFilled DEF SpectraInit, QuotientsFilled, RowsFilled
<1> QED BY <1>1, <1>2, <1>3, <1>4, SpectraAssumption, TypedTogether DEF SpectraInit, SpectraTyped

LEMMA CountsTyped ==
    ASSUME SpectraTyped, [SpectraNext]_spectraVars
    PROVE  plans' \in Nat /\ count' \in 0 .. MaxResponses
<1>1. plans \in Nat /\ count \in 0 .. MaxResponses /\ MaxResponses \in Nat
  BY SpectraAssumption DEF SpectraTyped, SpectraTypeOK
<1>2. CASE SpectraResponse
  <2>1. who = "synthesis"
    BY <1>2, ResponseMem DEF SpectraTyped
  <2>2. plans >= 1
    BY <1>1, <1>2, <2>1, WholeFinite
       DEF SpectraResponse, SpectraTyped, SpectraInv, PlansInv, Pending
  <2> QED BY <1>1, <1>2, <2>2 DEF SpectraResponse
<1>3. CASE Begin \/ MakePlans \/ Segment
  BY <1>1, <1>3 DEF Begin, MakePlans, Segment
<1>4. CASE UNCHANGED <<plans, count>>
  BY <1>1, <1>4
<1>5. \/ SpectraResponse \/ Begin \/ MakePlans \/ Segment \/ UNCHANGED <<plans, count>>
  BY DEF SpectraNext, spectraVars, Window, NoWindow, Synthesis, LogAmplitude, Forward,
         FoldCepstrum, InverseTransform, Divide, Multiply, Add, SpectraEnded
<1> QED BY <1>2, <1>3, <1>4, <1>5

\* A row that is stored is made of values when the array is.
LEMMA StoredFilled ==
    ASSUME SpectraTyped, NEW a, Filled(a), spectraFrame \in SpectraFrames, StoreRow(a),
           UNCHANGED fftl
    PROVE  RowsFilled'
<1>. USE DEF SpectraTyped, SpectraInv
<1>1. /\ \A f \in SpectraFrames : f # spectraFrame => residualSpecgram'[f] = residualSpecgram[f]
      /\ residualSpecgram'[spectraFrame] =
            [e \in 0..fftl |-> IF e < fftl THEN a[e] ELSE residualSpecgram[spectraFrame][e]]
  BY RowStored
<1>2. \A f \in SpectraFrames :
         /\ DOMAIN residualSpecgram[f] = 0 .. fftl
         /\ \A e \in 0 .. fftl : IsValue(residualSpecgram[f][e])
  BY DEF SpectraTypeOK
<1>3. \A e \in 0 .. fftl : e < fftl => IsValue(a[e])
  BY Halved DEF Filled
<1>4. /\ DOMAIN residualSpecgram'[spectraFrame] = 0 .. fftl
      /\ \A e \in 0 .. fftl : IsValue(residualSpecgram'[spectraFrame][e])
  BY <1>1, <1>2, <1>3
<1> QED BY <1>1, <1>2, <1>4 DEF RowsFilled, IsValue

LEMMA RowsTyped ==
    ASSUME SpectraTyped, [SpectraNext]_spectraVars
    PROVE  QuotientsFilled'
<1>. USE DEF SpectraTyped, SpectraInv
<1>1. CASE Divide
  <2>1. \A k \in 0 .. fftl :
            IsValue(QuotientOf("real", k)) /\ IsValue(QuotientOf("imaginary", k))
    BY <1>1, ValuesAre DEF QuotientOf, Divide, PlacesInv, Quantity
  <2>2. ASSUME NEW e \in 0 .. fftl - 1 PROVE IsValue(Row[e])
    <3>1. CASE e = 0
      BY <2>1, <3>1, Halved DEF Row
    <3>2. CASE e = fftl - 1
      BY <2>1, <3>2, Halved DEF Row
    <3>4. CASE e \in 1 .. (fftl - 2) /\ e % 2 = 1
      <4>1. (e + 1) \div 2 \in 0 .. fftl
        BY Halved
      <4> QED BY <2>1, <3>4, <4>1, Halved DEF Row
    <3>5. CASE e \in 1 .. (fftl - 2) /\ e % 2 # 1
      <4>1. e \div 2 \in 0 .. fftl
        BY Halved
      <4> QED BY <2>1, <3>5, <4>1, Halved DEF Row
    <3> QED BY <3>1, <3>2, <3>4, <3>5, Halved
  <2>3. Filled(Row)
    BY <2>2 DEF Filled, Row
  <2>4. RowsFilled'
    BY <1>1, <2>3, StoredFilled DEF Divide, PlacesInv
  <2>5. tmpResidualSpec' = Row /\ UNCHANGED fftl
    BY <1>1 DEF Divide
  <2> QED BY <2>3, <2>4, <2>5 DEF QuotientsFilled, Filled, IsValue
<1>2. CASE NoWindow
  <2>1. Filled(tmpResidualSpec)
    BY DEF SpectraTypeOK, Filled
  <2>2. RowsFilled'
    BY <1>2, <2>1, StoredFilled DEF NoWindow
  <2>3. UNCHANGED <<fftl, tmpResidualSpec>>
    BY <1>2 DEF NoWindow
  <2> QED BY <2>1, <2>2, <2>3 DEF QuotientsFilled, Filled, IsValue
<1>3. CASE UNCHANGED <<fftl, residualSpecgram, tmpResidualSpec>>
  BY <1>3, RowsStayFilled
<1>4. Divide \/ NoWindow \/ UNCHANGED <<fftl, residualSpecgram, tmpResidualSpec>>
  BY DEF SpectraNext, spectraVars, Window, Synthesis, Begin, MakePlans, LogAmplitude,
         Forward, FoldCepstrum, InverseTransform, Segment, Multiply, SpectraResponse, Add,
         SpectraEnded
<1> QED BY <1>1, <1>2, <1>3, <1>4

LEMMA ProductTyped ==
    ASSUME PlacesInv, NEW k \in 0 .. fftl, NEW r, NEW m, IsValue(r)
    PROVE  IsValue(Product(k, r, m))
<1>1. "segment" \in Quantity /\ "carried" \in Quantity /\ 1 \in 0 .. 2
  BY DEF Quantity
<1>2. IsValue(Zero) /\ IsValue(Noise) /\ r[2] \in SpectraFrames
  BY ValuesAre DEF IsValue
<1>3. IsValue(Value("segment", r[2], k, 1)) /\ IsValue(Value("carried", r[2], k, 1))
  BY <1>1, <1>2, ValuesAre
<1> QED BY <1>2, <1>3 DEF Product

LEMMA ArraysTyped ==
    ASSUME SpectraTyped, [SpectraNext]_spectraVars
    PROVE  ArraysFilled'
<1>. USE DEF SpectraTyped, SpectraInv
<1>0. PlacesInv /\ fftl \in Nat /\ fftl >= 4 /\ fftl \div 2 \in Nat /\ fftl = 2 * (fftl \div 2)
  BY Halved
<1>1. CASE Window
  <2>1. Filled([k \in 0 .. (fftl - 1) |-> Value("wave", spectraFrame, k, 1)])
    <3>1. \A k \in 0 .. (fftl - 1) : IsValue(Value("wave", spectraFrame, k, 1))
      BY <1>0, <1>1, ValuesAre DEF Window, Quantity
    <3> QED BY <3>1 DEF Filled
  <2>2. Filled(Garbage)
    BY GarbageFilled
  <2>3. \A a \in Complex \cup {"tmpWave"} :
           mem'[a] = IF a = "tmpWave"
                     THEN [k \in 0 .. (fftl - 1) |-> Value("wave", spectraFrame, k, 1)]
                     ELSE Garbage
    BY <1>1 DEF Window, Real
  <2>4. \A a \in Complex \cup {"tmpWave"} : Filled(mem'[a])
    BY <2>1, <2>2, <2>3
  <2>5. UNCHANGED fftl
    BY <1>1 DEF Window
  <2> QED BY <2>4, <2>5 DEF ArraysFilled, Filled, IsValue
<1>2. CASE Synthesis
  <2>1. Filled(Garbage)
    BY GarbageFilled
  <2>2. \A a \in Complex \cup {"tmpWave"} : Filled(mem'[a])
    BY <1>2, <2>1 DEF Synthesis, Real
  <2>3. UNCHANGED fftl
    BY <1>2 DEF Synthesis
  <2> QED BY <2>2, <2>3 DEF ArraysFilled, Filled, IsValue
<1>3. CASE LogAmplitude
  <2>. DEFINE g == Mirror([i \in 0 .. (fftl - 1) |-> Value("log", spectraFrame, i, 1)])
  <2>1. spectraFrame \in SpectraFrames /\ UNCHANGED fftl /\ mem' = [mem EXCEPT !["spectrum"] = g]
    BY <1>3 DEF LogAmplitude, PlacesInv
  <2>2. \A k \in 0 .. fftl : IsValue(Value("log", spectraFrame, k, 1))
    BY <2>1, ValuesAre DEF Quantity
  <2>3. Filled(g)
    <3>1. \A k \in 0 .. (fftl - 1) : \E c \in 0 .. fftl : g[k] = Value("log", spectraFrame, c, 1)
      BY <1>0 DEF Mirror
    <3>2. DOMAIN g = 0 .. (fftl - 1)
      BY DEF Mirror
    <3>. HIDE DEF g
    <3> QED BY <2>2, <3>1, <3>2 DEF Filled
  <2>. HIDE DEF g
  <2> QED BY <2>1, <2>3, OneWritten
<1>4. CASE Forward
  <2>. DEFINE g == [k \in 0 .. fftl - 1 |-> Value("cepstrum", spectraFrame, k, 1)]
  <2>1. spectraFrame \in SpectraFrames /\ UNCHANGED fftl
    BY <1>4 DEF Forward, PlacesInv
  <2>2. mem' = [mem EXCEPT !["cepstrum"] = g]
    <3>1. \A k \in 0 .. fftl - 1 :
             mem["spectrum"][k] =
                Value("log", spectraFrame, IF k <= fftl \div 2 THEN k ELSE fftl - k, 1)
      BY <1>4 DEF Forward, ArraysInv
    <3>2. dft(mem["spectrum"], FFT_FORWARD) = g
      BY <2>1, <3>1, ForwardOfLogs
    <3>. HIDE DEF g
    <3> QED BY <1>4, <3>2, ForwardMem
  <2>3. Filled(g)
    <3>1. \A k \in 0 .. (fftl - 1) : IsValue(Value("cepstrum", spectraFrame, k, 1))
      BY <1>0, <2>1, ValuesAre DEF Quantity
    <3> QED BY <3>1 DEF Filled
  <2>. HIDE DEF g
  <2> QED BY <2>1, <2>2, <2>3, OneWritten
<1>5. CASE InverseTransform
  <2>. DEFINE g == [k \in 0 .. fftl - 1 |-> Value("minimum", spectraFrame, k, 1)]
  <2>1. spectraFrame \in SpectraFrames /\ UNCHANGED fftl
    BY <1>5 DEF InverseTransform, PlacesInv
  <2>2. mem' = [mem EXCEPT !["spectrum"] = g]
    <3>1. HalfKept(mem["cepstrum"], spectraFrame, Upper, Lower)
      BY <1>5 DEF InverseTransform, ArraysInv
    <3>2. dft(mem["cepstrum"], FFT_BACKWARD) = g
      BY <2>1, <3>1, BackwardOfFolded
    <3>. HIDE DEF g
    <3> QED BY <1>5, <3>2, InverseMem
  <2>3. Filled(g)
    <3>1. \A k \in 0 .. (fftl - 1) : IsValue(Value("minimum", spectraFrame, k, 1))
      BY <1>0, <2>1, ValuesAre DEF Quantity
    <3> QED BY <3>1 DEF Filled
  <2>. HIDE DEF g
  <2> QED BY <2>1, <2>2, <2>3, OneWritten
<1>6. CASE FoldCepstrum
  <2>. DEFINE g == Fold(mem["cepstrum"])
  <2>1. spectraFrame \in SpectraFrames /\ UNCHANGED fftl /\ mem' = [mem EXCEPT !["cepstrum"] = g]
    BY <1>6 DEF FoldCepstrum, PlacesInv
  <2>2. \A k \in 0 .. fftl - 1 : mem["cepstrum"][k] = Value("cepstrum", spectraFrame, k, 1)
    BY <1>6 DEF FoldCepstrum, ArraysInv, Holds
  <2>3. \A k \in 0 .. fftl - 1 :
           Doubled(mem["cepstrum"][k]) = Value("cepstrum", spectraFrame, k, 2)
    BY <2>2 DEF Doubled, Value
  <2>4. Filled(g)
    <3>1. \A k \in 0 .. (fftl - 1) : /\ IsValue(Value("cepstrum", spectraFrame, k, 1))
                                  /\ IsValue(Value("cepstrum", spectraFrame, k, 2))
      BY <1>0, <2>1, ValuesAre DEF Quantity
    <3>2. \A k \in 0 .. (fftl - 1) : \/ g[k] = mem["cepstrum"][k]
                                     \/ g[k] = Doubled(mem["cepstrum"][k]) \/ g[k] = Zero
      BY DEF Fold
    <3>3. DOMAIN g = 0 .. (fftl - 1) /\ IsValue(Zero)
      BY ValuesAre DEF Fold
    <3>. HIDE DEF g
    <3>4. ASSUME NEW k \in 0 .. (fftl - 1) PROVE IsValue(g[k])
      BY <2>2, <2>3, <3>1, <3>2, <3>3
    <3> QED BY <3>3, <3>4 DEF Filled
  <2>. HIDE DEF g
  <2> QED BY <2>1, <2>4, OneWritten
<1>7. CASE Segment
  <2>. DEFINE g == [k \in 0 .. fftl - 1 |-> IF k > fftl \div 2 THEN mem["tmpSpec"][k]
                                           ELSE Value("segment", spectraFrame, k, 1)]
  <2>1. spectraFrame \in SpectraFrames /\ UNCHANGED fftl
    BY <1>7 DEF Segment, PlacesInv
  <2>2. mem' = [mem EXCEPT !["tmpSpec"] = g]
    BY <1>7, SegmentMem
  <2>3. Filled(g)
    <3>1. \A k \in 0 .. (fftl - 1) : /\ IsValue(Value("segment", spectraFrame, k, 1))
                                    /\ IsValue(mem["tmpSpec"][k])
      BY <1>0, <2>1, ValuesAre DEF Quantity, SpectraTypeOK, Complex
    <3> QED BY <3>1 DEF Filled
  <2>. HIDE DEF g
  <2> QED BY <2>1, <2>2, <2>3, OneWritten
<1>8. CASE Multiply
  <2>1. spectraFrame \in SpectraFrames /\ UNCHANGED fftl
        /\ mem' = [mem EXCEPT !["spectrum"] = Products]
    BY <1>8 DEF Multiply, PlacesInv
  <2>2. Filled(Products)
    <3>1. \A k \in 0 .. (fftl - 1) : IsValue(mem["spectrum"][k])
      BY DEF SpectraTypeOK, Complex
    <3>2. \A k \in 0 .. (fftl - 1) : \A r, m : IsValue(r) => IsValue(Product(k, r, m))
      BY <1>0, ProductTyped
    <3>3. \A k \in 0 .. (fftl - 1) :
             \/ \E r, m : IsValue(r) /\ Products[k] = Product(k, r, m)
             \/ Products[k] = mem["spectrum"][k]
      <4>1. \A e \in 0 .. fftl : IsValue(residualSpecgram[spectraFrame][e])
        BY <2>1 DEF SpectraTypeOK
      <4>2. \A k \in Lower : (k - 1) * 2 + 1 \in 0 .. fftl
        BY <1>0 DEF Lower
      <4>3. 0 \in 0 .. fftl /\ fftl - 1 \in 0 .. fftl
        BY <1>0
      <4> QED BY <4>1, <4>2, <4>3 DEF Products
    <3>4. DOMAIN Products = 0 .. (fftl - 1)
      BY DEF Products
    <3> QED BY <3>1, <3>2, <3>3, <3>4 DEF Filled
  <2> QED BY <2>1, <2>2, OneWritten
<1>9. CASE SpectraResponse
  <2>1. \A a \in Complex \cup {"tmpWave"} : mem'[a] = mem[a]
    BY <1>9, ResponseMem DEF PlacesInv, Shapes, ArrayNames, Complex, Real
  <2>2. UNCHANGED fftl
    BY <1>9 DEF SpectraResponse
  <2> QED BY <2>1, <2>2, NoneWritten
<1>10. CASE Add
  <2>1. \A a \in Complex \cup {"tmpWave"} : mem'[a] = mem[a]
    BY <1>10 DEF Add, PlacesInv, Shapes, ArrayNames, Complex, Real
  <2>2. UNCHANGED fftl
    BY <1>10 DEF Add
  <2> QED BY <2>1, <2>2, NoneWritten
<1>11. CASE UNCHANGED <<fftl, mem>>
  BY <1>11, NoneWritten
<1>12. \/ Window \/ Synthesis \/ LogAmplitude \/ Forward \/ InverseTransform \/ FoldCepstrum
       \/ Segment \/ Multiply \/ SpectraResponse \/ Add \/ UNCHANGED <<fftl, mem>>
  BY DEF SpectraNext, spectraVars, NoWindow, Begin, MakePlans, Divide, SpectraEnded
<1> QED BY <1>1, <1>2, <1>3, <1>4, <1>5, <1>6, <1>7, <1>8, <1>9, <1>10, <1>11, <1>12

LEMMA SpectraTypedStep == SpectraTyped /\ [SpectraNext]_spectraVars => SpectraTyped'
<1>. SUFFICES ASSUME SpectraTyped, [SpectraNext]_spectraVars PROVE SpectraTyped'
  OBVIOUS
<1>1. SpectraInv'
  BY SpectraInvStep DEF SpectraTyped
<1>2. PlacesInv'
  BY <1>1 DEF SpectraInv
<1>3. SpectraTypeOK'
  <2>1. ArraysFilled' /\ QuotientsFilled' /\ plans' \in Nat /\ count' \in 0 .. MaxResponses
    BY ArraysTyped, RowsTyped, CountsTyped
  <2> QED BY <1>2, <2>1 DEF ArraysFilled, QuotientsFilled, RowsFilled, PlacesInv, SpectraTypeOK, Filled
<1> QED BY <1>1, <1>3 DEF SpectraTyped

-----------------------------------------------------------------------------
(* The types of the files *)

\* The levels are in quarters of a step, and the file has room for 65535 steps:
\* log(s * 2^33 + 1) of the amplitudes of a wav of 16 bits is far below that.
LevelsFit == \A v \in Levels : v <= 262141

\* What the synthesis is given of a bin.
Outs == Int \cup {Silence, Nothing}

CodecTyped ==
    /\ CodecInv
    /\ memory.spec \in [Bins -> Int] /\ memory.residual \in Int
    /\ first \in [Bins -> Outs] /\ later \in [Bins -> Outs]

LEMMA ShortsAre == \A x : x \in Shorts <=> x \in Int /\ x >= -32768 /\ x <= 32767
<1>1. PICK a \in Int, b \in Int : a = -32768 /\ b = 32767
  OBVIOUS
<1>2. Shorts = a .. b
  BY <1>1 DEF Shorts
<1>3. \A x : x \in Shorts <=> x \in Int /\ a <= x /\ x <= b
  BY <1>2
<1> QED BY <1>1, <1>3

LEMMA UnsignedAre == \A x : x \in UnsignedShorts <=> x \in Int /\ x >= 0 /\ x <= 65535
<1>1. PICK b \in Int : b = 65535
  OBVIOUS
<1>2. UnsignedShorts = 0 .. b
  BY <1>1 DEF UnsignedShorts
<1>3. \A x : x \in UnsignedShorts <=> x \in Int /\ 0 <= x /\ x <= b
  BY <1>2
<1> QED BY <1>1, <1>3

LEMMA ShortIsShort ==
    ASSUME NEW r \in Int
    PROVE  Stored(r) \in Shorts
<1>1. PICK q \in Int : q = Quotient(r, 4)
  BY DEF Quotient
<1>2. PICK m \in Int : m = (q + 32768) % 65536 /\ 0 <= m /\ m <= 65535
  BY <1>1, SMT
<1>3. Stored(r) = m - 32768
  BY <1>1, <1>2, SMT DEF Stored, Short
<1>4. PICK x \in Int : x = m - 32768 /\ x >= -32768 /\ x <= 32767
  BY <1>2, SMT
<1>5. x \in Shorts
  BY <1>4, ShortsAre, SMT
<1> QED BY <1>3, <1>4, <1>5, SMT

LEMMA CleanIsInt == \A v \in Int : Clean(v) \in Int
BY DEF Clean

\* Stretched, a row of levels is one of their logarithms, of 0 and of nothing.
LEMMA StretchedTyped ==
    ASSUME ratio \in Ratios, NEW row, HasLogarithms(row)
    PROVE  Stretched(row) \in [Bins -> Outs]
<1>1. num \in Nat \ {0} /\ den \in Nat \ {0}
  BY RatioAssumption DEF num, den
<1>2. ASSUME NEW j \in Bins, num = den
      PROVE  Stretched(row)[j] \in Outs
  <2>1. Stretched(row)[j] = IF row[j] = 0 THEN Silence ELSE num * Ln[row[j]]
    BY <1>2 DEF Stretched
  <2>2. row[j] # 0 => Ln[row[j]] \in Int
    BY DEF HasLogarithms
  <2>3. row[j] # 0 => num * Ln[row[j]] \in Int
    BY <1>1, <2>2
  <2> QED BY <2>1, <2>3 DEF Outs
<1>3. ASSUME NEW j \in Bins, num # den
      PROVE  Stretched(row)[j] \in Outs
  <2>. DEFINE b == IF num < den /\ j >= Top THEN Top - 1 ELSE j
              k == Interval(b)
              s == b * den - (k - 1) * num
  <2>1. b \in Bins /\ Inside(b, k)
    BY <1>3, BinsInside
  <2>2. k - 1 \in Bins /\ k \in Bins /\ s \in 0 .. num
    BY <2>1 DEF Inside
  <2>3. /\ LogOf(row[k - 1]) = Silence \/ LogOf(row[k - 1]) \in Int
        /\ LogOf(row[k]) = Silence \/ LogOf(row[k]) \in Int
    BY <2>2, LogOfLevel DEF HasLogarithms
  <2>4. PICK from, to : from = LogOf(row[k - 1]) /\ to = LogOf(row[k])
    OBVIOUS
  <2>5. Stretched(row)[j] = IF from = Silence \/ (to = Silence /\ s = 0) THEN Nothing
                            ELSE IF to = Silence THEN Silence
                            ELSE num * from + s * (to - from)
    <3>1. Stretched(row)[j] = Interpolated(row, b)
      BY <1>3 DEF Stretched
    <3> QED BY <2>4, <3>1 DEF Interpolated
  <2>. HIDE DEF k, s, b
  <2>6. from \in Int /\ to \in Int => num * from + s * (to - from) \in Int
    BY <1>1, <2>2
  <2> QED BY <2>3, <2>4, <2>5, <2>6 DEF Outs
<1>4. \A j \in Bins : Stretched(row)[j] \in Outs
  BY <1>2, <1>3
<1> QED BY <1>4 DEF Stretched

LEMMA RowsTypedInFiles ==
    ASSUME CodecInv
    PROVE  /\ spec \in [Bins -> Int] /\ residual \in Int
           /\ Cleaned \in [Bins -> Int] /\ Requantised \in [Bins -> Int]
<1>1. \A v \in Levels : v \in Int /\ Clean(v) \in Nat /\ Quantised(Clean(v)) \in Nat
  BY LevelAssumption, CleanIsNat, QuantisedNear DEF Weird
<1>2. \A k \in Bins : spec[k] \in Levels /\ spec \in [Bins -> Levels]
  BY DEF CodecInv
<1>3. \A k \in Bins : 4 * Quantised(Clean(spec[k])) \in Int
  BY <1>1, <1>2
<1>4. spec \in [Bins -> Int]
  BY <1>1, <1>2 DEF CodecInv
<1>5. Cleaned \in [Bins -> Int] /\ Requantised \in [Bins -> Int]
  BY <1>1, <1>2, <1>3 DEF Cleaned, Requantised
<1> QED BY <1>4, <1>5, ResidualAssumption DEF CodecInv

LEMMA CodecTypedInit == CodecInit => CodecTyped
<1>. SUFFICES ASSUME CodecInit PROVE CodecTyped
  OBVIOUS
<1>1. CodecInv
  BY CodecInvInit
<1> QED BY <1>1, RowsTypedInFiles DEF CodecInit, CodecTyped, Outs

LEMMA CodecTypedStep == CodecTyped /\ [CodecNext]_codecVars => CodecTyped'
<1>. SUFFICES ASSUME CodecTyped, [CodecNext]_codecVars PROVE CodecTyped'
  OBVIOUS
<1>0. CodecInv /\ CodecInv'
  BY CodecInvStep DEF CodecTyped
<1>1. CASE Write
  <2>1. memory' = [spec |-> Cleaned, residual |-> Clean(residual)]
    BY <1>1 DEF Write, Cleaned
  <2> QED BY <1>0, <1>1, <2>1, RowsTypedInFiles, CleanIsInt DEF Write, CodecTyped
<1>2. CASE RenderFirst
  <2>1. first' \in [Bins -> Outs]
    BY <1>0, <1>2, StretchedTyped, RowsHaveLogarithms DEF RenderFirst, CodecTyped, CodecInv
  <2> QED BY <1>0, <1>2, <2>1 DEF RenderFirst, CodecTyped
<1>3. CASE Read
  <2>1. memory' = [spec |-> Requantised, residual |-> 4 * file.residual]
    BY <1>0, <1>3 DEF Read, CodecInv, Requantised
  <2>2. file.residual \in Int
    <3>1. Clean(residual) \in Int
      BY <1>0, RowsTypedInFiles, CleanIsInt
    <3>2. file.residual = Stored(Clean(residual))
      BY <1>0, <1>3 DEF Read, CodecInv
    <3> QED BY <3>1, <3>2, ShortIsShort, ShortsAre
  <2> QED BY <1>0, <1>3, <2>1, <2>2, RowsTypedInFiles DEF Read, CodecTyped
<1>4. CASE RenderLater
  <2>1. later' \in [Bins -> Outs]
    BY <1>0, <1>4, StretchedTyped, RowsHaveLogarithms DEF RenderLater, CodecTyped, CodecInv
  <2> QED BY <1>0, <1>4, <2>1 DEF RenderLater, CodecTyped
<1>5. CASE UNCHANGED codecVars
  <2>1. UNCHANGED <<memory, first, later>>
    BY <1>5 DEF codecVars
  <2> QED BY <1>0, <2>1 DEF CodecTyped
<1> QED BY <1>1, <1>2, <1>3, <1>4, <1>5 DEF CodecNext, CodecFinished

\* A level the file has room for, once it is clean, and one that is read back.
LEMMA LevelsStored ==
    ASSUME LevelsFit, NEW v \in Levels
    PROVE  /\ Quantised(Clean(v)) \in UnsignedShorts
           /\ Clean(v) # Weird /\ 4 * Quantised(Clean(v)) # Weird
<1>0. PICK n \in Nat : n = 262141
  BY SMT
<1>1. v = Weird \/ (v \in Nat /\ v <= n)
  BY <1>0, LevelAssumption, SMT DEF LevelsFit
<1>2. PICK c \in Nat : c = Clean(v) /\ c <= n
  BY <1>0, <1>1, SMT DEF Clean
<1>3. PICK q \in Nat : q = Quantised(c) /\ q <= 65535
  BY <1>0, <1>2, SMT DEF Quantised
<1>4. q \in UnsignedShorts
  BY <1>3, UnsignedAre, SMT
<1>5. c # Weird /\ 4 * q # Weird
  BY <1>2, <1>3, SMT DEF Weird
<1> QED BY <1>2, <1>3, <1>4, <1>5, SMT

LEMMA CodecTypes == LevelsFit /\ CodecTyped => CodecTypeOK
<1>. SUFFICES ASSUME LevelsFit, CodecTyped PROVE CodecTypeOK
  OBVIOUS
<1>0. CodecInv
  BY DEF CodecTyped
<1>1. ASSUME codecPc # "analysed" PROVE file.spec \in [Bins -> UnsignedShorts]
  <2>1. file.spec = [k \in Bins |-> Quantised(Clean(spec[k]))]
    BY <1>0, <1>1 DEF CodecInv
  <2>2. \A k \in Bins : Quantised(Clean(spec[k])) \in UnsignedShorts
    BY <1>0, LevelsStored DEF CodecInv
  <2> QED BY <2>1, <2>2
<1>2. ASSUME codecPc # "analysed" PROVE file.residual \in Shorts
  <2>1. file.residual = Stored(Clean(residual))
    BY <1>0, <1>2 DEF CodecInv
  <2>2. Clean(residual) \in Int
    BY <1>0, RowsTypedInFiles, CleanIsInt
  <2> QED BY <2>1, <2>2, ShortIsShort
<1>3. ASSUME codecPc # "analysed" PROVE Weird \notin {memory.spec[k] : k \in Bins}
  <2>1. memory.spec = Cleaned \/ memory.spec = Requantised
    BY <1>0, <1>3 DEF CodecInv
  <2>2. ASSUME NEW k \in Bins PROVE Cleaned[k] # Weird /\ Requantised[k] # Weird
    <3>1. spec[k] \in Levels
      BY <1>0 DEF CodecInv
    <3> QED BY <3>1, LevelsStored DEF Cleaned, Requantised
  <2> QED BY <2>1, <2>2
<1> QED BY <1>0, <1>1, <1>2, <1>3 DEF CodecTypeOK, CodecTyped, CodecInv, Outs

-----------------------------------------------------------------------------
(* The parts together, as MCRender runs them *)

RenderParts ==
    /\ part \in {"codec", "spectra", "synthesis"}
    /\ part = "codec" => CodecTyped
    /\ part = "spectra" => SpectraTyped
    /\ part = "synthesis" => LoopInv

LEMMA RenderStart == RenderInit => RenderParts
BY CodecTypedInit, SpectraTypedInit, LoopInvInit DEF RenderInit, RenderParts

LEMMA RenderStep == RenderParts /\ [RenderNext]_renderVars => RenderParts'
<1>. SUFFICES ASSUME RenderParts, [RenderNext]_renderVars PROVE RenderParts'
  OBVIOUS
<1>1. part' = part
  BY DEF RenderNext, renderVars
<1>2. part = "codec" => [CodecNext]_codecVars
  BY DEF RenderNext, renderVars
<1>3. part = "spectra" => [SpectraNext]_spectraVars
  BY DEF RenderNext, renderVars
<1>4. part = "synthesis" => [SynthesisNext]_synthesisVars
  BY DEF RenderNext, renderVars
<1> QED BY <1>1, <1>2, <1>3, <1>4, CodecTypedStep, SpectraTypedStep, LoopInvStep DEF RenderParts

\* Whatever part of the rendering runs, every value is of its kind: the levels in
\* the file are unsigned shorts and the residual is a short, no bin that is stored
\* is what the writers replace by 0, every element of the arrays of a response is
\* made of a bin of a frame that is there, and the output is covered as far as
\* synthesis() has come.
THEOREM RenderIsTyped == LevelsFit => (RenderSpec => []RenderInv)
<1>1. RenderSpec => []RenderParts
  BY RenderStart, RenderStep, PTL DEF RenderSpec
<1>2. LevelsFit /\ RenderParts => RenderInv
  BY CodecTypes DEF RenderParts, RenderInv, SpectraTyped, LoopInv
<1>3. CASE LevelsFit
  <2>1. RenderParts => RenderInv
    BY <1>2, <1>3
  <2> QED BY <1>1, <2>1, PTL
<1> QED BY <1>3
=============================================================================
