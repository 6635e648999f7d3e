--------------------------- MODULE AnalysisProofs ---------------------------
(***************************************************************************)
(* What is made of the track: the frames of star() stay inside their       *)
(* buffers and are taken around their own samples, the island lists of     *)
(* platinum() are right, and its pulses are in order, a cycle apart and    *)
(* near to the frames, at every sampling rate and for every track.         *)
(***************************************************************************)
EXTENDS MCAnalysis, CommonLemmas, SequenceTheorems

(* STAR: a frame of the envelope *)

StarTypes ==
    /\ fs \in Nat \ {0} /\ f0 \in Nat \ {0} /\ f0 > FLOOR_F0
    /\ fftl \in Nat /\ fftl % 2 = 0 /\ Above(fftl, fs)
    /\ 4 * f0 < fs /\ xLen \in Nat /\ time \in Nat

Smoothed ==
    /\ low = [bin \in 0 .. Half |-> Base(bin, -1)]
    /\ high = [bin \in 0 .. Half |-> Base(bin, 1)]

Cut == segment = [j \in 0 .. 2 * nFragment |-> Index(j - nFragment)]
Mirrored == dSpectrum = [k \in 0 .. Half + 2 * limit |-> Mirror(k)]

StarInv ==
    /\ StarTypes
    /\ starPc # "segment" => Cut
    /\ starPc \in {"smooth", "done"} => Mirrored
    /\ starPc = "done" => Smoothed

LEMMA StarInitInv == StarInit => StarInv
<1>. SUFFICES ASSUME StarInit PROVE StarInv
  OBVIOUS
<1>1. StarTypes
  BY StarAssumption, NyquistAssumption DEF StarInit, StarTypes
<1> QED BY <1>1 DEF StarInit, StarInv

\* None of them is changed with what it is made from.
LEMMA StarKept ==
    ASSUME UNCHANGED <<fs, xLen, time, f0, fftl>>
    PROVE  /\ StarTypes' = StarTypes
           /\ segment' = segment => Cut' = Cut
           /\ dSpectrum' = dSpectrum => Mirrored' = Mirrored
           /\ UNCHANGED <<low, high>> => Smoothed' = Smoothed
<1>1. nFragment' = nFragment /\ Half' = Half /\ limit' = limit
  BY DEF nFragment, Half, limit
<1>2. StarTypes' = StarTypes
  BY DEF StarTypes, Above
<1>3. ASSUME segment' = segment PROVE Cut' = Cut
  BY <1>1, <1>3 DEF Cut, Index, m_round, Least, Greatest
<1>4. ASSUME dSpectrum' = dSpectrum PROVE Mirrored' = Mirrored
  BY <1>1, <1>4 DEF Mirrored, Mirror
<1>5. ASSUME UNCHANGED <<low, high>> PROVE Smoothed' = Smoothed
  BY <1>1, <1>5 DEF Smoothed, Base
<1> QED BY <1>2, <1>3, <1>4, <1>5

LEMMA StarStepInv == StarInv /\ [StarNext]_starVars => StarInv'
<1> SUFFICES ASSUME StarInv, [StarNext]_starVars PROVE StarInv' OBVIOUS
<1>0. UNCHANGED <<fs, xLen, time, f0, fftl>>
  BY DEF StarNext, Segment, Spectrum, Smooth, StarFinished, starVars
<1>1. CASE Segment
  <2>1. Cut'
    <3>1. segment' = [j \in 0 .. 2 * nFragment |-> Index(j - nFragment)]
      BY <1>1 DEF Segment
    <3> QED BY <1>0, <3>1 DEF Cut, nFragment, Index, m_round, Least, Greatest
  <2> QED BY <1>0, <1>1, <2>1, StarKept DEF StarInv, Segment
<1>2. CASE Spectrum
  <2>1. Mirrored'
    <3>1. dSpectrum' = [k \in 0 .. Half + 2 * limit |-> Mirror(k)]
      BY <1>2 DEF Spectrum
    <3> QED BY <1>0, <3>1 DEF Mirrored, Half, limit, Mirror
  <2> QED BY <1>0, <1>2, <2>1, StarKept DEF StarInv, Spectrum
<1>3. CASE Smooth
  <2>1. Smoothed'
    BY <1>0, <1>3 DEF Smooth, Smoothed, Half, limit, Base
  <2> QED BY <1>0, <1>3, <2>1, StarKept DEF StarInv, Smooth
<1>4. CASE UNCHANGED starVars
  BY <1>0, <1>4, StarKept DEF StarInv, starVars
<1> QED BY <1>1, <1>2, <1>3, <1>4 DEF StarNext, StarFinished

\* Three periods above FLOOR_F0 are shorter than the FFT.
LEMMA StarSegment == StarInv => SegmentFits
<1> SUFFICES ASSUME StarInv PROVE 2 * nFragment + 1 <= fftl BY DEF SegmentFits
<1>1. StarTypes BY DEF StarInv
<1>2. PICK F \in Nat \ {0} : F = FLOOR_F0 BY StarAssumption
<1>3. PICK f \in Nat \ {0} : f = f0 /\ f > F BY <1>1, <1>2 DEF StarTypes
<1>4. PICK R \in Nat \ {0} : R = fs BY <1>1 DEF StarTypes
<1>5. PICK h \in Nat : fftl = 2 * h BY <1>1 DEF StarTypes
<1>6. PICK m \in Nat : m = f + 3 * R OBVIOUS
<1>7. PICK d \in Nat \ {0} : d = 2 * f OBVIOUS
<1>8. PICK n \in Int : n = m \div d BY <1>6, <1>7
<1>9. nFragment = n BY <1>3, <1>4, <1>6, <1>7, <1>8 DEF nFragment
<1>10. d * n <= m
    <2>1. m = d * n + (m % d) /\ m % d \in 0 .. d - 1 BY <1>6, <1>7, <1>8
    <2>2. d * n \in Int BY <1>7, <1>8
    <2> QED BY <2>1, <2>2
<1>11. 3 * R + F < (2 * h) * F BY <1>1, <1>2, <1>4, <1>5 DEF StarTypes, Above
<1>12. h >= 1 BY <1>2, <1>4, <1>5, <1>11
<1>13. PICK k \in Nat : h = k + 1 BY <1>12
<1>14. PICK e \in Nat \ {0} : f = F + e BY <1>3
<1>15. PICK kF \in Nat, ke \in Nat : kF = k * F /\ ke = k * e OBVIOUS
<1>16. (2 * h) * F = 2 * kF + 2 * F BY <1>13, <1>15
<1>17. d * h = 2 * kF + 2 * ke + 2 * F + 2 * e
    <2>1. d * h = 2 * ((F + e) * (k + 1)) BY <1>7, <1>13, <1>14
    <2>2. (F + e) * (k + 1) = kF + ke + F + e BY <1>15
    <2> QED BY <2>1, <2>2
<1>18. d * n < d * h BY <1>6, <1>7, <1>8, <1>10, <1>11, <1>14, <1>15, <1>16, <1>17
<1>19. n < h BY <1>7, <1>8, <1>18, ProductSign
<1> QED BY <1>5, <1>8, <1>9, <1>19

\* Bins are read l and u elements above their own number.
Offset(l, u) ==
    /\ \A bin \in Int : Base(bin, -1) = bin + l /\ Base(bin, 1) = bin + u
    /\ u <= 2 * limit /\ u - l \in {limit - 1, limit}
    /\ l + u - 2 * limit \in {-2, -1}

\* The elements read half a pitch below and above bin 0, by the remainder of the
\* pitch and by whether limit is even.
LEMMA Offsets ==
    ASSUME StarTypes
    PROVE  /\ limit \in Nat \ {0}
           /\ \E l \in Nat, u \in Nat : Offset(l, u)
<1>1. PICK R \in Nat \ {0} : R = fs BY DEF StarTypes
<1>2. PICK g \in Nat : g = f0 * fftl BY DEF StarTypes
<1>3. PICK q \in Int : q = g \div R BY <1>1, <1>2
<1>4. PICK r \in 0 .. R - 1 : g = R * q + r
    <2>1. g = R * q + (g % R) /\ g % R \in 0 .. R - 1 BY <1>1, <1>2, <1>3
    <2> QED BY <2>1
<1>5. q \in Nat
    <2>1. SUFFICES ASSUME q < 0 PROVE FALSE BY <1>3
    <2>2. PICK j \in Nat : q = -1 - j BY <2>1
    <2>3. R * q = -R - R * j /\ R * j \in Nat BY <2>2
    <2> QED BY <1>2, <1>4, <2>3
<1>6. limit = q + 1 BY <1>1, <1>2, <1>3 DEF limit
<1>7. PICK D \in Nat \ {0} : D = 2 * R OBVIOUS
<1>8. \A bin \in Int :
          /\ Base(bin, -1) = bin + (2 * R * (q + 1) - R - g) \div D
          /\ Base(bin, 1) = bin + (2 * R * (q + 1) - R + g) \div D
    BY <1>1, <1>2, <1>6, <1>7 DEF Base, StarTypes
<1>9. PICK Q \in Nat : Q = R * q BY <1>5
<1>10. 2 * R * (q + 1) = 2 * Q + 2 * R BY <1>5, <1>9
<1>11. /\ 2 * R * (q + 1) - R - g = Q + R - r
       /\ 2 * R * (q + 1) - R + g = 3 * Q + R + r
    BY <1>4, <1>9, <1>10
<1>12. CASE \E m \in Nat : q = 2 * m
    <2>1. PICK m \in Nat : q = 2 * m BY <1>12
    <2>2. Q = D * m BY <1>7, <1>9, <2>1
    <2>3. 3 * Q = D * (3 * m) BY <1>7, <2>2
    <2>4. R - r \in 0 .. D - 1 /\ R + r \in 0 .. D - 1 BY <1>7
    <2>5. (D * m + (R - r)) \div D = m BY <2>4, QuotientIs
    <2>6. (D * (3 * m) + (R + r)) \div D = 3 * m BY <2>4, QuotientIs
    <2>7. Q + R - r = D * m + (R - r) /\ 3 * Q + R + r = D * (3 * m) + (R + r)
        BY <1>9, <2>2, <2>3
    <2>8. \A bin \in Int : Base(bin, -1) = bin + m /\ Base(bin, 1) = bin + 3 * m
        BY <1>8, <1>11, <2>5, <2>6, <2>7
    <2>9. 3 * m \in Nat /\ limit = 2 * m + 1 BY <1>6, <2>1
    <2>10. Offset(m, 3 * m) BY <2>8, <2>9 DEF Offset
    <2> QED BY <1>5, <1>6, <2>9, <2>10
<1>13. CASE \E m \in Nat : q = 2 * m + 1
    <2>1. PICK m \in Nat : q = 2 * m + 1 BY <1>13
    <2>2. Q = D * m + R BY <1>7, <1>9, <2>1
    <2>3. 3 * Q = D * (3 * m) + D + R
        <3>1. PICK dm \in Int : dm = D * m OBVIOUS
        <3>2. D * (3 * m) = 3 * dm BY <3>1
        <3> QED BY <1>7, <2>2, <3>1, <3>2
    <2>4. D * (3 * m + 2) = D * (3 * m) + 2 * D /\ D * (3 * m) \in Int /\ D * m \in Int
        OBVIOUS
    <2>5. (D * (3 * m + 2) + r) \div D = 3 * m + 2 BY <1>7, QuotientIs
    <2>6. 3 * Q + R + r = D * (3 * m + 2) + r BY <1>7, <1>9, <2>3, <2>4
    <2>7. \A bin \in Int : Base(bin, 1) = bin + (3 * m + 2) BY <1>8, <1>11, <2>5, <2>6
    <2>8. 3 * m + 2 \in Nat /\ limit = 2 * m + 2 BY <1>6, <2>1
    <2>9. CASE r = 0
        <3>1. (D * (m + 1) + 0) \div D = m + 1 BY QuotientIs
        <3>2. Q + R - r = D * (m + 1) + 0 BY <1>7, <2>2, <2>4, <2>9
        <3>3. \A bin \in Int : Base(bin, -1) = bin + (m + 1) BY <1>8, <1>11, <3>1, <3>2
        <3>4. Offset(m + 1, 3 * m + 2) BY <2>7, <2>8, <3>3 DEF Offset
        <3>5. m + 1 \in Nat OBVIOUS
        <3> QED BY <1>5, <1>6, <2>8, <3>4, <3>5
    <2>10. CASE r # 0
        <3>1. D - r \in 0 .. D - 1 BY <1>7, <2>10
        <3>2. (D * m + (D - r)) \div D = m BY <3>1, QuotientIs
        <3>3. Q + R - r = D * m + (D - r) BY <1>7, <2>2, <2>4
        <3>4. \A bin \in Int : Base(bin, -1) = bin + m BY <1>8, <1>11, <3>2, <3>3
        <3>5. Offset(m, 3 * m + 2) BY <2>7, <2>8, <3>4 DEF Offset
        <3> QED BY <1>5, <1>6, <2>8, <3>5
    <2> QED BY <2>9, <2>10
<1>14. \E m \in Nat : q = 2 * m \/ q = 2 * m + 1
    <2>1. PICK m \in Int : m = q \div 2 BY <1>5
    <2>2. q = 2 * m + (q % 2) /\ q % 2 \in 0 .. 1 BY <1>5, <2>1
    <2>3. m \in Nat /\ (q = 2 * m \/ q = 2 * m + 1) BY <1>5, <2>1, <2>2
    <2> QED BY <2>3
<1> QED BY <1>12, <1>13, <1>14, <1>5, <1>6

LEMMA StarSmooth == StarInv => SmoothInside
<1> SUFFICES ASSUME StarInv, starPc = "done", NEW bin \in 0 .. Half
             PROVE  /\ low[bin] \in 0 .. Half + 2 * limit
                    /\ high[bin] \in 0 .. Half + 2 * limit
                    /\ high[bin] - low[bin] \in {limit - 1, limit}
                    /\ low[bin] + high[bin] - 2 * (limit + bin) \in {-2, -1}
    BY DEF SmoothInside
<1>1. StarTypes /\ Smoothed BY DEF StarInv
<1>2. PICK L \in Nat \ {0} : L = limit BY <1>1, Offsets
<1>3. PICK l \in Nat, u \in Nat :
          /\ \A b \in Int : Base(b, -1) = b + l /\ Base(b, 1) = b + u
          /\ u <= 2 * L /\ u - l \in {L - 1, L} /\ l + u - 2 * L \in {-2, -1}
    BY <1>1, <1>2, Offsets DEF Offset
<1>4. PICK h \in Nat : h = Half BY <1>1 DEF StarTypes, Half
<1>5. low[bin] = bin + l /\ high[bin] = bin + u BY <1>1, <1>3 DEF Smoothed
<1> QED BY <1>2, <1>3, <1>4, <1>5

\* A sample of the segment is rounded from a time that is positive when the sample
\* is inside the signal, and whole samples are not touched by the rounding.
LEMMA StarCentred == StarInv => SegmentCentred
<1>. SUFFICES ASSUME StarInv, starPc # "segment", NEW j \in DOMAIN segment,
                     m_round(time) + j - nFragment \in 0 .. xLen - 1
              PROVE  segment[j] = m_round(time) + j - nFragment
  BY DEF SegmentCentred
<1>1. StarTypes /\ Cut
  BY DEF StarInv
<1>2. PICK D \in Nat \ {0} : D = Den
  BY StarAssumption
<1>3. PICK t \in Nat : t = time
  BY <1>1 DEF StarTypes
<1>4. PICK n \in Int : n = nFragment
  <2>1. (f0 + 3 * fs) \in Nat /\ 2 * f0 \in Nat \ {0}
    BY <1>1 DEF StarTypes
  <2> QED BY <2>1 DEF nFragment
<1>5. j \in Int /\ segment[j] = Index(j - n)
  BY <1>1, <1>4 DEF Cut
<1>6. PICK c \in Nat : c = (2 * t + D) \div (2 * D)
  BY DividedBy
<1>7. 2 * D * c <= 2 * t + D /\ 2 * t + D < 2 * D * c + 2 * D
  <2>1. PICK a \in Nat, b \in Nat \ {0} : a = 2 * t + D /\ b = 2 * D
    OBVIOUS
  <2>2. b * c <= a /\ a < b * c + b
    BY <1>6, <2>1, DividedBy
  <2> QED BY <2>1, <2>2
<1>8. m_round(t) = c
  <2>1. CASE t > 0
    BY <1>2, <1>6, <2>1 DEF m_round
  <2>2. CASE t = 0
    <3>1. PICK p \in Int : p = D * c
      OBVIOUS
    <3>2. c = 0
      <4>1. CASE c >= 1
        <5>1. PICK e \in Nat : c = e + 1
          <6>1. c - 1 \in Nat /\ c = (c - 1) + 1
            BY <4>1
          <6> QED BY <6>1
        <5>2. D * c = D * e + D /\ D * e \in Nat
          BY <5>1
        <5>3. 2 * D * c = 2 * p
          BY <3>1
        <5> QED BY <1>7, <2>2, <3>1, <5>2, <5>3
      <4> QED BY <4>1
    <3>3. (D - 2 * t) \div (2 * D) = c
      <4>1. D - 2 * t = 2 * t + D
        BY <2>2
      <4> QED BY <1>6, <4>1
    <3> QED BY <1>2, <2>2, <3>2, <3>3 DEF m_round
  <2> QED BY <2>1, <2>2
<1>9. PICK k \in Int : k = 1 + (j - n)
  BY <1>4, <1>5
<1>10. c + k \in 1 .. xLen
  BY <1>1, <1>3, <1>4, <1>5, <1>8, <1>9 DEF StarTypes
<1>11. PICK Dc \in Int, Dk \in Int : Dc = D * c /\ Dk = D * k
  OBVIOUS
<1>12. t + Dk > 0
  <2>1. PICK e \in Nat : c + k = e + 1
    <3>1. c + k - 1 \in Nat /\ c + k = (c + k - 1) + 1
      BY <1>1, <1>10 DEF StarTypes
    <3> QED BY <3>1
  <2>2. Dc + Dk = D * e + D /\ D * e \in Nat
    <3>1. D * (c + k) = Dc + Dk
      BY <1>11
    <3>2. D * (e + 1) = D * e + D
      OBVIOUS
    <3> QED BY <2>1, <3>1, <3>2
  <2>3. 2 * Dc <= 2 * t + D
    <3>1. 2 * D * c = 2 * Dc
      BY <1>11
    <3> QED BY <1>7, <3>1
  <2> QED BY <2>2, <2>3
<1>13. (2 * (t + Dk) + D) \div (2 * D) = c + k
  <2>1. PICK s \in 0 .. 2 * D - 1 : 2 * t + D = 2 * Dc + s
    <3>1. 2 * D * c = 2 * Dc
      BY <1>11
    <3>2. (2 * t + D) - 2 * Dc \in 0 .. 2 * D - 1
      BY <1>7, <3>1
    <3> QED BY <3>2
  <2>2. PICK E \in Nat \ {0}, q \in Int : E = 2 * D /\ q = c + k
    OBVIOUS
  <2>3. (E * q + s) \div E = q
    BY <2>1, <2>2, QuotientIs
  <2>4. E * q = 2 * Dc + 2 * Dk
    <3>1. D * (c + k) = Dc + Dk
      BY <1>11
    <3> QED BY <2>2, <3>1
  <2>5. 2 * (t + Dk) + D = E * q + s
    BY <2>1, <2>4
  <2> QED BY <2>2, <2>3, <2>5
<1>14. m_round(t + Dk) = c + k
  BY <1>2, <1>12, <1>13 DEF m_round
<1>15. time + Den * (1 + (j - n)) = t + Dk
  BY <1>2, <1>3, <1>9, <1>11
<1>16. Index(j - n) = c + k - 1
  BY <1>1, <1>10, <1>14, <1>15 DEF Index, Least, Greatest, StarTypes
<1> QED BY <1>3, <1>4, <1>5, <1>8, <1>9, <1>16

\* The mirrored parts are shorter than the spectrum they mirror, because the pitch
\* is below a quarter of the rate.
LEMMA LimitBelowHalf == StarTypes => limit \in Nat \ {0} /\ Half \in Nat /\ limit < Half
<1>. SUFFICES ASSUME StarTypes PROVE limit \in Nat \ {0} /\ Half \in Nat /\ limit < Half
  OBVIOUS
<1>1. PICK R \in Nat \ {0}, f \in Nat \ {0}, F \in Nat \ {0} :
          R = fs /\ f = f0 /\ F = FLOOR_F0 /\ 4 * f < R /\ F < f
  BY StarAssumption DEF StarTypes
<1>2. PICK h \in Nat : fftl = 2 * h
  BY DEF StarTypes
<1>3. Half = h
  BY <1>2 DEF Half
<1>4. PICK g \in Nat : g = f0 * fftl
  BY DEF StarTypes
<1>5. PICK q \in Nat : q = g \div R /\ R * q <= g
  BY <1>1, <1>4, DividedBy
<1>6. limit = q + 1
  BY <1>1, <1>4, <1>5 DEF limit
<1>7. h >= 7
  <2>1. SUFFICES ASSUME h <= 6 PROVE FALSE
    OBVIOUS
  <2>2. 3 * R + F < (2 * h) * F
    BY <1>1, <1>2 DEF StarTypes, Above
  <2>3. (2 * h) * F <= 12 * F
    <3>1. h = 0 \/ h = 1 \/ h = 2 \/ h = 3 \/ h = 4 \/ h = 5 \/ h = 6
      BY <2>1
    <3> QED BY <3>1
  <2> QED BY <1>1, <2>2, <2>3
<1>8. PICK fh \in Nat : fh = f * h
  OBVIOUS
<1>9. g = 2 * fh
  BY <1>1, <1>2, <1>4, <1>8
<1>10. PICK r \in Nat \ {0} : R = 4 * f + r
  <2>1. R - 4 * f \in Nat \ {0} /\ R = 4 * f + (R - 4 * f)
    BY <1>1
  <2> QED BY <2>1
<1>11. q + 1 < h
  <2>1. SUFFICES ASSUME h <= q + 1 PROVE FALSE
    BY <1>5
  <2>2. PICK d \in Nat : q = (h - 1) + d
    <3>1. q - (h - 1) \in Nat /\ q = (h - 1) + (q - (h - 1))
      BY <2>1, <1>5
    <3> QED BY <3>1
  <2>3. PICK e \in Nat : q = e /\ e = h - 1 + d
    BY <2>2, <1>5
  <2>4. f * q = fh - f + f * d /\ f * d \in Nat
    BY <1>8, <2>2
  <2>5. R * q = 4 * (f * q) + r * q /\ r * q \in Nat
    BY <1>10
  <2>6. f * h >= 7 * f
    <3>1. PICK u \in Nat : h = 7 + u
      <4>1. h - 7 \in Nat /\ h = 7 + (h - 7)
        BY <1>7
      <4> QED BY <4>1
    <3>2. f * h = 7 * f + f * u /\ f * u \in Nat
      BY <3>1
    <3> QED BY <3>2
  <2>7. 4 * (fh - f + f * d) + r * q <= 2 * fh
    BY <1>5, <1>9, <2>4, <2>5
  <2>8. f * q \in Int /\ r * q \in Nat
    OBVIOUS
  <2> QED BY <1>8, <2>4, <2>6, <2>7, <2>8
<1> QED BY <1>3, <1>6, <1>11

LEMMA StarEven == StarInv => Even
<1>. SUFFICES ASSUME StarInv, starPc \in {"smooth", "done"}
              PROVE  /\ \A k \in 1 .. limit : dSpectrum[limit - k] = dSpectrum[limit + k]
                     /\ \A k \in 0 .. limit :
                           dSpectrum[limit + Half - 1 - k] = dSpectrum[limit + Half + k]
                     /\ \A k \in 1 .. Half + 2 * limit :
                           dSpectrum[k] - dSpectrum[k - 1] \in {-1, 0, 1}
  BY DEF Even
<1>1. PICK m \in Nat \ {0}, h \in Nat : m = limit /\ h = Half /\ m < h
  BY LimitBelowHalf DEF StarInv
<1>2. \A k \in 0 .. h + 2 * m : dSpectrum[k] = Mirror(k)
  BY <1>1 DEF StarInv, Mirrored
<1>3. \A k \in 0 .. h + 2 * m :
          dSpectrum[k] = IF k < m THEN m - k
                         ELSE IF k < h + m THEN k - m
                         ELSE h - 1 - (k - h - m)
  BY <1>1, <1>2 DEF Mirror
<1>4. ASSUME NEW k \in 1 .. m PROVE dSpectrum[m - k] = dSpectrum[m + k]
  BY <1>1, <1>3
<1>5. ASSUME NEW k \in 0 .. m PROVE dSpectrum[m + h - 1 - k] = dSpectrum[m + h + k]
  <2>1. m + h - 1 - k \in 0 .. h + 2 * m /\ m + h + k \in 0 .. h + 2 * m
    BY <1>1
  <2>2. dSpectrum[m + h + k] = h - 1 - k
    BY <1>1, <1>3, <2>1
  <2>3. dSpectrum[m + h - 1 - k] = h - 1 - k
    BY <1>1, <1>3, <2>1
  <2> QED BY <2>2, <2>3
<1>6. ASSUME NEW k \in 1 .. h + 2 * m
      PROVE  dSpectrum[k] - dSpectrum[k - 1] \in {-1, 0, 1}
  <2>1. k \in 0 .. h + 2 * m /\ k - 1 \in 0 .. h + 2 * m
    BY <1>1
  <2> QED BY <1>1, <1>3, <2>1
<1> QED BY <1>1, <1>4, <1>5, <1>6

\* The segment of every frame fits into the FFT buffer, at every sampling rate
\* and for every pitch above the floor.
THEOREM SegmentsFit == StarSpec => []SegmentFits
<1>1. StarSpec => []StarInv BY StarInitInv, StarStepInv, PTL DEF StarSpec
<1> QED BY <1>1, StarSegment, PTL

\* m_interp1Q reads inside the sum over the spectrum for every bin, elements that
\* are a pitch apart.
THEOREM SmoothingInside == StarSpec => []SmoothInside
<1>1. StarSpec => []StarInv BY StarInitInv, StarStepInv, PTL DEF StarSpec
<1> QED BY <1>1, StarSmooth, PTL

\* Both together: star() stays inside its buffers, which it has sized from the
\* floor pitch, at every rate and for every pitch above the floor.
THEOREM StarStaysInside == StarSpec => []StarInside
<1>1. SegmentFits /\ SmoothInside => StarInside
  BY DEF StarInside
<1> QED BY <1>1, SegmentsFit, SmoothingInside, PTL

\* The segment of a frame is taken around its own sample, and its spectrum is
\* continued evenly at both ends: star() shifts nothing, at any rate, for any
\* pitch, at any time of a signal of any length.
THEOREM StarIsSymmetric == StarSpec => []StarSymmetric
<1>1. StarSpec => []StarInv BY StarInitInv, StarStepInv, PTL DEF StarSpec
<1>2. SegmentCentred /\ Even => StarSymmetric
  BY DEF StarSymmetric
<1> QED BY <1>1, <1>2, StarCentred, StarEven, PTL

-----------------------------------------------------------------------------
(* PLATINUM: the island lists *)

LEMMA Parity == \A n \in Nat : EvenNumber(n + 1) <=> ~EvenNumber(n)
BY DEF EvenNumber

LEMMA InitIInv == IslandsInit => IInv
<1>. SUFFICES ASSUME IslandsInit PROVE IInv
  OBVIOUS
<1>1. tLen \in Nat /\ 0 < tLen /\ 0 \in Frames /\ Counted = {0}
  BY LengthsAssumption DEF IslandsInit, Frames, Counted
<1>2. IslandsTypeOK
  BY <1>1 DEF IslandsInit, IslandsTypeOK, Frames
<1>3. ChangesInv
  BY <1>1 DEF IslandsInit, ChangesInv, EvenNumber
<1>4. SizeInv /\ ListInv
  BY <1>1 DEF IslandsInit, SizeInv, ListInv, One
<1> QED BY <1>2, <1>3, <1>4 DEF IInv

LEMMA CountIInv == IInv /\ Count => IInv'
<1>. SUFFICES ASSUME IInv, Count PROVE IInv'
  OBVIOUS
<1>1. /\ tLen \in Nat /\ i \in Nat /\ 1 <= i /\ i < tLen
      /\ islandsPc = "count" /\ islandsPc' = "count"
      /\ UNCHANGED <<tLen, voiced, stList, edList, stCount, edCount>>
      /\ i' = i + 1 /\ vuvNum' = vuvNum + One(Rises(i))
      /\ i \in Frames /\ i - 1 \in Frames /\ Frames' = Frames
  BY LengthsAssumption DEF Count, IInv, IslandsTypeOK, Frames
<1>2. /\ changes \in [Frames -> Nat] /\ voiced \in [Frames -> BOOLEAN] /\ vuvNum \in Nat
  BY DEF IInv, IslandsTypeOK
<1>3. PICK c \in Nat : c = changes[i - 1] + One(voiced[i] # voiced[i - 1])
  BY <1>1, <1>2 DEF One
<1>4. /\ changes' \in [Frames -> Nat] /\ changes'[i] = c
      /\ \A j \in Frames : j # i => changes'[j] = changes[j]
  BY <1>1, <1>2, <1>3 DEF Count
<1>5. IslandsTypeOK'
  BY <1>1, <1>2, <1>4 DEF IInv, IslandsTypeOK, One
<1>6. Counted = 0 .. i - 1 /\ Counted' = 0 .. i
  BY <1>1 DEF Counted
<1>7. ChangesInv'
  <2>1. changes[i - 1] <= c /\ (voiced[i] <=> ~EvenNumber(c))
    <3>1. voiced[i - 1] <=> ~EvenNumber(changes[i - 1])
      BY <1>1, <1>6 DEF IInv, ChangesInv
    <3>2. changes[i - 1] \in Nat
      BY <1>1, <1>2
    <3>3. CASE voiced[i] # voiced[i - 1]
      <4>1. c = changes[i - 1] + 1
        BY <1>3, <3>3 DEF One
      <4>2. voiced[i] <=> ~voiced[i - 1]
        BY <1>1, <1>2, <3>3
      <4> QED BY <3>1, <3>2, <4>1, <4>2, Parity
    <3>4. CASE voiced[i] = voiced[i - 1]
      <4>1. c = changes[i - 1]
        BY <1>3, <3>2, <3>4 DEF One
      <4> QED BY <3>1, <3>2, <3>4, <4>1
    <3> QED BY <3>3, <3>4
  <2>2. \A j \in 0 .. i - 1 : changes[j] <= c
    <3>1. \A j \in 0 .. i - 1 : changes[j] <= changes[i - 1] /\ changes[j] \in Nat
      BY <1>1, <1>2, <1>6 DEF IInv, ChangesInv, Frames
    <3> QED BY <1>1, <1>2, <2>1, <3>1
  <2>3. changes'[0] = 0
    BY <1>1, <1>4 DEF IInv, ChangesInv, Frames
  <2>4. ASSUME NEW j \in 1 .. i
        PROVE  changes'[j] = changes'[j - 1] + One(voiced[j] # voiced[j - 1])
    <3>1. CASE j = i
      BY <1>1, <1>3, <1>4, <3>1
    <3>2. CASE j < i
      <4>1. j \in Counted \ {0} /\ j \in Frames /\ j - 1 \in Frames /\ j # i /\ j - 1 # i
        BY <1>1, <1>6, <3>2 DEF Frames
      <4> QED BY <1>4, <4>1 DEF IInv, ChangesInv
    <3> QED BY <1>1, <3>1, <3>2
  <2>5. ASSUME NEW j \in 0 .. i, NEW k \in 0 .. i, j <= k
        PROVE  changes'[j] <= changes'[k]
    <3>1. CASE k = i /\ j < i
      BY <1>1, <1>4, <2>2, <3>1 DEF Frames
    <3>2. CASE k < i
      <4>1. j \in Counted /\ k \in Counted /\ changes'[j] = changes[j] /\ changes'[k] = changes[k]
        BY <1>1, <1>4, <1>6, <2>5, <3>2 DEF Frames
      <4> QED BY <2>5, <4>1 DEF IInv, ChangesInv
    <3>3. CASE j = i /\ k = i
      BY <1>3, <1>4, <3>3
    <3> QED BY <1>1, <2>5, <3>1, <3>2, <3>3
  <2>6. ASSUME NEW j \in 0 .. i
        PROVE  voiced[j] <=> ~EvenNumber(changes'[j])
    <3>1. CASE j = i
      BY <1>4, <2>1, <3>1
    <3>2. CASE j < i
      <4>1. j \in Counted /\ j \in Frames /\ j # i
        BY <1>1, <1>6, <3>2 DEF Frames
      <4> QED BY <1>4, <4>1 DEF IInv, ChangesInv
    <3> QED BY <1>1, <3>1, <3>2
  <2>7. Counted' \ {0} = 1 .. i
    BY <1>1, <1>6
  <2> QED BY <1>1, <1>6, <2>3, <2>4, <2>5, <2>6, <2>7 DEF ChangesInv
<1>8. SizeInv'
  <2>1. 2 * vuvNum = changes[i - 1] + One(voiced[i - 1]) /\ changes[i - 1] \in Nat
    BY <1>1, <1>2 DEF IInv, SizeInv
  <2>2. One(voiced[i] # voiced[i - 1]) + One(voiced[i])
          = 2 * One(Rises(i)) + One(voiced[i - 1])
    BY <1>1, <1>2 DEF One, Rises
  <2>3. 2 * vuvNum' = changes'[i] + One(voiced[i])
    BY <1>1, <1>2, <1>3, <1>4, <2>1, <2>2 DEF One
  <2> QED BY <1>1, <2>3 DEF SizeInv
<1>9. ListInv'
  BY <1>1 DEF ListInv
<1> QED BY <1>5, <1>7, <1>8, <1>9 DEF IInv

LEMMA AllocateIInv == IInv /\ Allocate => IInv'
<1>. SUFFICES ASSUME IInv, Allocate PROVE IInv'
  OBVIOUS
<1>1. /\ tLen \in Nat /\ 0 < tLen /\ i = tLen /\ islandsPc = "count" /\ islandsPc' = "list"
      /\ UNCHANGED <<tLen, voiced, edCount, changes>> /\ edCount = 0
      /\ i' = 1 /\ stCount' = 1 /\ vuvNum' = Islands
      /\ Frames' = Frames /\ tLen - 1 \in Frames /\ 0 \in Frames
  BY LengthsAssumption DEF Allocate, IInv, IslandsTypeOK, Frames
<1>2. /\ changes \in [Frames -> Nat] /\ voiced \in [Frames -> BOOLEAN] /\ vuvNum \in Nat
      /\ changes[0] = 0
  BY DEF IInv, IslandsTypeOK, ChangesInv
<1>3. Counted = Frames /\ Counted' = Frames
  BY <1>1 DEF Counted, Frames
<1>4. Islands = changes[tLen - 1] + 1
  <2>1. 2 * vuvNum = changes[tLen - 1] + One(voiced[tLen - 1])
    BY <1>1 DEF IInv, SizeInv
  <2>2. ~voiced[0]
    <3>1. EvenNumber(0)
      BY DEF EvenNumber
    <3> QED BY <1>1, <1>2, <1>3, <3>1 DEF IInv, ChangesInv
  <2> QED BY <1>1, <1>2, <2>1, <2>2 DEF Islands, One
<1>5. Islands \in Nat /\ 0 < Islands
  BY <1>1, <1>2, <1>4
<1>6. /\ stList' = [k \in 0 .. Islands - 1 |-> IF k = 0 THEN 0 ELSE Unset]
      /\ edList' = [k \in 0 .. Islands - 1 |->
                       IF k = Islands - 1 THEN tLen - 1 ELSE Unset]
  BY DEF Allocate
<1>7. IslandsTypeOK'
  BY <1>1, <1>2, <1>5, <1>6 DEF IInv, IslandsTypeOK
<1>8. ChangesInv'
  BY <1>1, <1>3 DEF IInv, ChangesInv
<1>9. SizeInv'
  BY <1>1, <1>4 DEF SizeInv
<1>10. ListInv'
  BY <1>1, <1>2, <1>5, <1>6 DEF ListInv
<1> QED BY <1>7, <1>8, <1>9, <1>10 DEF IInv

LEMMA ListIInv == IInv /\ List => IInv'
<1>. SUFFICES ASSUME IInv, List PROVE IInv'
  OBVIOUS
<1>1. /\ tLen \in Nat /\ 0 < tLen /\ i \in Nat /\ 1 <= i /\ i < tLen
      /\ islandsPc = "list" /\ islandsPc' = "list" /\ i' = i + 1
      /\ UNCHANGED <<tLen, voiced, vuvNum, changes>>
      /\ Frames' = Frames /\ i \in Frames /\ i - 1 \in Frames /\ tLen - 1 \in Frames
      /\ Counted = Frames /\ Counted' = Frames
  BY LengthsAssumption DEF List, IInv, IslandsTypeOK, Frames, Counted
<1>2. /\ changes \in [Frames -> Nat] /\ voiced \in [Frames -> BOOLEAN]
      /\ stList \in [0 .. vuvNum - 1 -> Frames \cup {Unset}]
      /\ edList \in [0 .. vuvNum - 1 -> Frames \cup {Unset}]
      /\ vuvNum = changes[tLen - 1] + 1 /\ vuvNum \in Nat
      /\ edCount = changes[i - 1] /\ stCount = edCount + 1 /\ edCount \in Nat
  BY <1>1 DEF IInv, IslandsTypeOK, SizeInv, ListInv
<1>3. ChangesInv' /\ SizeInv'
  BY <1>1 DEF IInv, ChangesInv, SizeInv
<1>4. /\ changes[i] = edCount + One(voiced[i] # voiced[i - 1])
      /\ changes[i] <= vuvNum - 1
  BY <1>1, <1>2 DEF IInv, ChangesInv, Frames
<1>5. CASE Rises(i) \/ Falls(i)
  <2>1. voiced[i] # voiced[i - 1]
    BY <1>5 DEF Rises, Falls
  <2>2. changes[i] = edCount + 1 /\ edCount + 1 <= vuvNum - 1
    BY <1>2, <1>4, <2>1 DEF One
  <2>3. /\ edList' = [edList EXCEPT ![edCount] = i - 1]
        /\ stList' = [stList EXCEPT ![edCount + 1] = i]
        /\ edCount' = edCount + 1 /\ stCount' = stCount + 1
    BY <1>2, <1>5 DEF List
  <2>4. /\ edList'[edCount] = i - 1 /\ stList'[edCount + 1] = i
        /\ \A k \in 0 .. vuvNum - 1 : /\ k # edCount => edList'[k] = edList[k]
                                      /\ k # edCount + 1 => stList'[k] = stList[k]
    BY <1>2, <2>2, <2>3
  <2>5. IslandsTypeOK'
    <3>1. /\ edList' \in [0 .. vuvNum - 1 -> Frames \cup {Unset}]
          /\ stList' \in [0 .. vuvNum - 1 -> Frames \cup {Unset}]
      BY <1>1, <1>2, <2>3
    <3>2. /\ edCount' = edCount + 1 /\ stCount' = edCount + 2
          /\ i' = i + 1 /\ i + 1 \in 1 .. tLen
      BY <1>1, <1>2, <2>3
    <3>3. edCount' \in Nat /\ stCount' \in Nat /\ i' \in 1 .. tLen
      <4>1. edCount + 1 \in Nat /\ edCount + 2 \in Nat
        BY <1>2
      <4> QED BY <3>2, <4>1
    <3> QED BY <1>1, <1>2, <3>1, <3>3 DEF IInv, IslandsTypeOK
  <2>6. /\ stList[edCount] \in 0 .. i - 1
        /\ \A j \in stList[edCount] .. i - 1 : changes[j] = edCount
    BY <1>1 DEF IInv, ListInv
  <2>7. ASSUME NEW k \in 0 .. edCount
        PROVE  /\ stList'[k] <= edList'[k] /\ stList'[k + 1] = edList'[k] + 1
               /\ edList'[k] < i + 1
               /\ \A j \in stList'[k] .. edList'[k] : changes[j] = k
    <3>1. CASE k = edCount
      <4>1. k \in 0 .. vuvNum - 1 /\ k # edCount + 1
        BY <1>2, <2>2, <3>1
      <4>2. stList'[k] = stList[k]
        BY <2>4, <4>1
      <4>3. edList'[k] = i - 1 /\ stList'[k + 1] = i
        BY <2>4, <3>1
      <4> QED BY <1>1, <2>6, <3>1, <4>2, <4>3
    <3>2. CASE k # edCount
      <4>1. k \in 0 .. edCount - 1 /\ k \in 0 .. vuvNum - 1 /\ k + 1 \in 0 .. vuvNum - 1
        BY <1>2, <2>2, <3>2
      <4>2. edList'[k] = edList[k] /\ stList'[k] = stList[k] /\ stList'[k + 1] = stList[k + 1]
        <5>1. k # edCount + 1 /\ k + 1 # edCount + 1
          BY <1>2, <3>2, <4>1
        <5> QED BY <2>4, <3>2, <4>1, <5>1
      <4>3. /\ stList[k] <= edList[k] /\ stList[k + 1] = edList[k] + 1 /\ edList[k] < i
            /\ \A j \in stList[k] .. edList[k] : changes[j] = k
        BY <1>1, <4>1 DEF IInv, ListInv
      <4>4. edList[k] \in Int
        BY <1>2, <4>1 DEF Frames, Unset
      <4> QED BY <1>1, <4>2, <4>3, <4>4
    <3> QED BY <3>1, <3>2
  <2>8. stList'[0] = 0 /\ edList'[vuvNum - 1] = tLen - 1
    BY <1>1, <1>2, <2>2, <2>4 DEF IInv, ListInv
  <2>9. ListInv'
    <3>1. edCount' = changes'[i' - 1] /\ 0 .. edCount' - 1 = 0 .. edCount
      BY <1>1, <1>2, <2>2, <2>3
    <3>2. /\ stList'[edCount'] \in 0 .. i' - 1
          /\ \A j \in stList'[edCount'] .. i' - 1 : changes'[j] = edCount'
      <4>1. edCount' = edCount + 1 /\ stList'[edCount + 1] = i /\ i' - 1 = i
        BY <1>1, <2>3, <2>4
      <4>2. i .. i = {i} /\ i \in 0 .. i
        BY <1>1
      <4> QED BY <1>1, <2>2, <4>1, <4>2
    <3>3. stCount' = edCount' + 1 /\ edCount' - 1 = edCount /\ i' = i + 1
      BY <1>1, <1>2, <2>3
    <3> QED BY <1>1, <2>7, <2>8, <3>1, <3>2, <3>3 DEF ListInv
  <2> QED BY <1>3, <2>5, <2>9 DEF IInv
<1>6. CASE ~(Rises(i) \/ Falls(i))
  <2>1. voiced[i] = voiced[i - 1]
    BY <1>1, <1>2, <1>6 DEF Rises, Falls
  <2>2. changes[i] = edCount
    BY <1>2, <1>4, <2>1 DEF One
  <2>3. UNCHANGED <<stList, edList, stCount, edCount>>
    BY <1>6 DEF List
  <2>4. IslandsTypeOK'
    BY <1>1, <2>3 DEF IInv, IslandsTypeOK
  <2>5. /\ stList[edCount] \in 0 .. i - 1
        /\ \A j \in stList[edCount] .. i - 1 : changes[j] = edCount
        /\ \A k \in 0 .. edCount - 1 :
              /\ stList[k] <= edList[k] /\ stList[k + 1] = edList[k] + 1
              /\ edList[k] < i
              /\ \A j \in stList[k] .. edList[k] : changes[j] = k
        /\ stList[0] = 0 /\ edList[vuvNum - 1] = tLen - 1
    BY <1>1 DEF IInv, ListInv
  <2>6. \A k \in 0 .. edCount - 1 : edList[k] < i + 1
    <3>1. ASSUME NEW k \in 0 .. edCount - 1 PROVE edList[k] < i + 1
      <4>1. k \in 0 .. vuvNum - 1
        BY <1>2, <1>4, <2>2, <3>1
      <4>2. edList[k] \in Frames \cup {Unset}
        BY <1>2, <4>1
      <4>3. edList[k] \in Int /\ edList[k] < i
        BY <1>1, <2>5, <3>1, <4>2 DEF Frames, Unset
      <4> QED BY <1>1, <4>3
    <3> QED BY <3>1
  <2>7. /\ stList[edCount] \in 0 .. i
        /\ \A j \in stList[edCount] .. i : changes[j] = edCount
    BY <1>1, <2>2, <2>5
  <2>8. ListInv'
    <3>1. i' - 1 = i /\ i' = i + 1 /\ edCount' = changes'[i' - 1] /\ stCount' = edCount' + 1
      BY <1>1, <1>2, <2>2, <2>3
    <3> QED BY <1>1, <2>3, <2>5, <2>6, <2>7, <3>1 DEF ListInv
  <2> QED BY <1>3, <2>4, <2>8 DEF IInv
<1> QED BY <1>5, <1>6

LEMMA ReturnIInv == IInv /\ IslandsReturn => IInv'
<1>. SUFFICES ASSUME IInv, IslandsReturn PROVE IInv'
  OBVIOUS
<1>1. /\ islandsPc = "list" /\ islandsPc' = "done" /\ i = tLen
      /\ UNCHANGED <<tLen, voiced, i, vuvNum, stList, edList, stCount, edCount,
                     changes>>
  BY LengthsAssumption DEF IslandsReturn, IInv, IslandsTypeOK
<1>2. Counted' = Counted
  BY <1>1 DEF Counted, Frames
<1>3. IslandsTypeOK' /\ ChangesInv' /\ SizeInv' /\ ListInv'
  BY <1>1, <1>2 DEF IInv, IslandsTypeOK, ChangesInv, SizeInv, ListInv, Frames
<1> QED BY <1>3 DEF IInv

LEMMA NextIInv == IInv /\ [IslandsNext]_islandsVars => IInv'
<1>1. IInv /\ UNCHANGED islandsVars => IInv'
  BY DEF islandsVars, IInv, IslandsTypeOK, ChangesInv, SizeInv, ListInv, Frames, Counted
<1> QED
  BY <1>1, CountIInv, AllocateIInv, ListIInv, ReturnIInv DEF IslandsNext, IslandsFinished

\* The second pass stays within what the first pass has counted.
THEOREM ListsFit == IslandsSpec => []WithinArrays
<1>1. IInv => WithinArrays
  <2>. SUFFICES ASSUME IInv, islandsPc # "count" PROVE WithinArrays
    BY DEF WithinArrays
  <2>1. /\ tLen \in Nat /\ 0 < tLen /\ i \in 1 .. tLen /\ changes \in [Frames -> Nat]
        /\ i - 1 \in Frames /\ tLen - 1 \in Frames /\ Counted = Frames
    BY LengthsAssumption DEF IInv, IslandsTypeOK, Frames, Counted
  <2>2. changes[i - 1] <= changes[tLen - 1]
    BY <2>1 DEF IInv, ChangesInv
  <2> QED BY <2>1, <2>2 DEF IInv, SizeInv, ListInv, WithinArrays
<1> QED BY <1>1, InitIInv, NextIInv, PTL DEF IslandsSpec

\* The islands tile the track, unvoiced and voiced in turn.
THEOREM IslandsTile == IslandsSpec => []Tiled
<1>1. IInv => Tiled
  <2>. SUFFICES ASSUME IInv, islandsPc = "done" PROVE Tiled
    BY DEF Tiled
  <2>1. /\ tLen \in Nat /\ 0 < tLen /\ i = tLen /\ changes \in [Frames -> Nat]
        /\ vuvNum = changes[tLen - 1] + 1 /\ edCount = vuvNum - 1 /\ Counted = Frames
        /\ vuvNum \in Nat
    BY LengthsAssumption DEF IInv, IslandsTypeOK, SizeInv, ListInv, Frames, Counted
  <2>0. /\ stList \in [0 .. vuvNum - 1 -> Frames \cup {Unset}]
        /\ edList \in [0 .. vuvNum - 1 -> Frames \cup {Unset}]
    BY DEF IInv, IslandsTypeOK
  <2>2. ASSUME NEW k \in 0 .. vuvNum - 1
        PROVE  /\ stList[k] <= edList[k]
               /\ k > 0 => stList[k] = edList[k - 1] + 1
               /\ stList[k] \in Nat /\ edList[k] < tLen
               /\ \A j \in stList[k] .. edList[k] : changes[j] = k
    <3>1. stList[k] \in Int /\ edList[k] \in Int
      BY <2>0, <2>1 DEF Frames, Unset
    <3>2. k > 0 => stList[k] = edList[k - 1] + 1
      <4>1. k > 0 => k - 1 \in 0 .. edCount - 1 /\ (k - 1) + 1 = k
        BY <2>1
      <4> QED BY <2>1, <4>1 DEF IInv, ListInv
    <3>3. stList[k] # Unset
      <4>1. CASE k = 0
        BY <2>1, <4>1 DEF IInv, ListInv, Unset
      <4>2. CASE k > 0
        <5>1. k - 1 \in 0 .. edCount - 1 /\ k - 1 \in 0 .. vuvNum - 1
          BY <2>1, <4>2
        <5>2. /\ stList[k - 1] \in Frames \cup {Unset}
              /\ edList[k - 1] \in Frames \cup {Unset}
          BY <2>0, <5>1
        <5>3. stList[k - 1] <= edList[k - 1]
          BY <2>1, <5>1 DEF IInv, ListInv
        <5> QED BY <3>2, <4>2, <5>1, <5>2, <5>3 DEF Frames, Unset
      <4> QED BY <4>1, <4>2
    <3>4. stList[k] \in Nat
      BY <2>1, <3>3 DEF IInv, IslandsTypeOK, Frames
    <3>5. CASE k = vuvNum - 1
      BY <2>1, <3>2, <3>4, <3>5 DEF IInv, ListInv
    <3>6. CASE k # vuvNum - 1
      <4>1. k \in 0 .. edCount - 1
        BY <2>1, <3>6
      <4> QED BY <2>1, <3>2, <3>4, <4>1 DEF IInv, ListInv
    <3> QED BY <3>5, <3>6
  <2>3. ASSUME NEW k \in 0 .. vuvNum - 1, NEW j \in stList[k] .. edList[k]
        PROVE  voiced[j] <=> ~EvenNumber(k)
    <3>1. j \in Frames /\ changes[j] = k
      <4>1. edList[k] \in Int
        BY <2>0, <2>1 DEF Frames, Unset
      <4> QED BY <2>1, <2>2, <2>3, <4>1 DEF Frames
    <3> QED BY <2>1, <3>1 DEF IInv, ChangesInv
  <2> QED BY <2>1, <2>2, <2>3 DEF Tiled, IInv, ListInv
<1> QED BY <1>1, InitIInv, NextIInv, PTL DEF IslandsSpec

\* Both together: the second pass of platinum() fills the arrays of the first, and
\* with islands that tile the track.
THEOREM PassesAgree == IslandsSpec => []IslandsTiled
<1>1. WithinArrays /\ Tiled => IslandsTiled
  BY DEF IslandsTiled
<1> QED BY <1>1, ListsFit, IslandsTile, PTL

-----------------------------------------------------------------------------
(* The islands of PLATINUM's pulses *)

\* A set of numbers in order.
LEMMA SequenceIs ==
    ASSUME NEW n \in Nat, NEW S \in SUBSET (0 .. n)
    PROVE  /\ Cardinality(S) \in Nat
           /\ InSequence(S) \in [1 .. Cardinality(S) -> S]
           /\ \A p \in 1 .. Cardinality(S) : Rank(S, InSequence(S)[p]) = p - 1
<1>1. Cardinality(S) \in Nat
  <2>1. Cardinality(S) \in 0 .. n + 1
    BY RankAll
  <2> QED BY <2>1
<1>2. \A p \in 1 .. Cardinality(S) : \E e \in S : Rank(S, e) = p - 1
  <2>1. SUFFICES ASSUME NEW p \in 1 .. Cardinality(S) PROVE \E e \in S : Rank(S, e) = p - 1
    OBVIOUS
  <2>2. p - 1 \in Nat /\ p - 1 < Cardinality(S)
    BY <1>1
  <2> QED BY <2>2, RankTaken
<1>3. InSequence(S) = [p \in 1 .. Cardinality(S) |-> CHOOSE e \in S : Rank(S, e) = p - 1]
  BY DEF InSequence, Rank, Preceding
<1>4. \A p \in 1 .. Cardinality(S) :
         InSequence(S)[p] \in S /\ Rank(S, InSequence(S)[p]) = p - 1
  BY Zenon, <1>2, <1>3
<1>5. InSequence(S) \in [1 .. Cardinality(S) -> S]
  BY Zenon, <1>3, <1>4
<1> QED BY <1>1, <1>4, <1>5

LEMMA SequenceSorted ==
    ASSUME NEW n \in Nat, NEW S \in SUBSET (0 .. n),
           NEW p \in 1 .. Cardinality(S), NEW q \in 1 .. Cardinality(S), p < q
    PROVE  InSequence(S)[p] < InSequence(S)[q]
<1>1. /\ InSequence(S)[p] \in S /\ InSequence(S)[q] \in S
      /\ Rank(S, InSequence(S)[p]) = p - 1 /\ Rank(S, InSequence(S)[q]) = q - 1
  BY SequenceIs
<1>2. PICK a \in S, b \in S : a = InSequence(S)[p] /\ b = InSequence(S)[q]
  BY <1>1
<1>3. a \in Nat /\ b \in Nat
  BY <1>2
<1>4. b <= a => Rank(S, b) <= Rank(S, a)
  BY <1>3, RankMonotone
<1> QED BY <1>1, <1>2, <1>3, <1>4, SequenceIs

\* Each member has its place.
LEMMA SequenceHas ==
    ASSUME NEW n \in Nat, NEW S \in SUBSET (0 .. n), NEW e \in S
    PROVE  \E p \in 1 .. Cardinality(S) : InSequence(S)[p] = e
<1>1. e \in Nat /\ e <= n
  OBVIOUS
<1>2. Rank(S, e) \in Nat /\ Rank(S, e + 1) = Rank(S, e) + 1
  BY <1>1, RankStep
<1>3. Rank(S, e + 1) <= Rank(S, n + 1) /\ Rank(S, n + 1) = Cardinality(S)
  <2>1. e + 1 \in Nat /\ n + 1 \in Nat /\ e + 1 <= n + 1
    BY <1>1
  <2> QED BY <2>1, RankMonotone, RankAll
<1>4. Cardinality(S) \in Nat
  BY SequenceIs
<1>5. PICK p \in 1 .. Cardinality(S) : p - 1 = Rank(S, e)
  <2>1. Rank(S, e) + 1 \in 1 .. Cardinality(S) /\ (Rank(S, e) + 1) - 1 = Rank(S, e)
    BY <1>2, <1>3, <1>4
  <2> QED BY <2>1
<1>6. InSequence(S)[p] \in S /\ Rank(S, InSequence(S)[p]) = Rank(S, e)
  BY <1>5, SequenceIs
<1>7. PICK d \in S : d = InSequence(S)[p]
  BY <1>6
<1>8. d \in Nat /\ Rank(S, d) = Rank(S, e) /\ Rank(S, d) \in Nat
  BY <1>2, <1>6, <1>7
<1>9. ~(d < e) /\ ~(e < d)
  <2>1. d < e => Rank(S, d) < Rank(S, e)
    BY <1>1, RankInjective
  <2>2. e < d => Rank(S, e) < Rank(S, d)
    BY <1>8, RankInjective
  <2> QED BY <1>2, <1>8, <2>1, <2>2
<1> QED BY <1>1, <1>7, <1>8, <1>9

\* The islands of a track of n + 1 frames are runs of frames of one voicing, in order.
Runs(list, track, n) ==
    /\ 1 \in DOMAIN list
    /\ \A p \in DOMAIN list :
          /\ list[p][1] \in 0 .. n /\ list[p][2] \in 0 .. n
          /\ list[p][1] <= list[p][2]
          /\ \A k \in list[p][1] .. list[p][2] : track[k] = track[list[p][1]]
          /\ \A q \in DOMAIN list : p < q => list[p][2] < list[q][1]

\* An island ends where the next begins.
LEMMA EndsFollow ==
    ASSUME NEW n \in Nat, NEW S \in SUBSET (0 .. n), 0 \in S,
           NEW E, E = {n} \cup {k - 1 : k \in S \ {0}}
    PROVE  /\ E \in SUBSET (0 .. n)
           /\ Cardinality(E) = Cardinality(S) /\ Cardinality(S) \in Nat \ {0}
           /\ \A k \in 0 .. n : Rank(E, k) = Rank(S, k + 1) - 1
<1>0. \A k \in S : k \in Nat /\ k <= n
  OBVIOUS
<1>1. \A k \in 0 .. n : k \in E <=> k = n \/ k + 1 \in S
  <2>1. SUFFICES ASSUME NEW k \in 0 .. n PROVE k \in E <=> k = n \/ k + 1 \in S
    OBVIOUS
  <2>2. k + 1 \in S => k + 1 \in S \ {0} /\ k = (k + 1) - 1
    OBVIOUS
  <2>3. \A j \in S : k = j - 1 => j = k + 1
    BY <1>0
  <2> QED BY <2>2, <2>3
<1>2. E \in SUBSET (0 .. n)
  BY <1>0
<1>3. RankSteps(S) /\ RankSteps(E)
  BY <1>2, Ranks
<1>. DEFINE T == {k \in Nat : k <= n => Rank(E, k) = Rank(S, k + 1) - 1}
<1>4. 0 \in T
  <2>1. Rank(S, 0) = 0 /\ Rank(E, 0) = 0
    BY <1>3 DEF RankSteps
  <2>2. Rank(S, 0 + 1) = 1
    BY <1>3, <2>1 DEF RankSteps
  <2> QED BY <2>1, <2>2
<1>5. ASSUME NEW k \in Nat, k \in T PROVE k + 1 \in T
  <2>1. SUFFICES ASSUME k + 1 <= n PROVE Rank(E, k + 1) = Rank(S, (k + 1) + 1) - 1
    OBVIOUS
  <2>2. k \in 0 .. n /\ k # n /\ Rank(E, k) = Rank(S, k + 1) - 1
    BY <1>5, <2>1
  <2>3. /\ k \in E => Rank(E, k + 1) = Rank(E, k) + 1
        /\ k \notin E => Rank(E, k + 1) = Rank(E, k)
        /\ Rank(E, k) \in Nat
    BY <1>3 DEF RankSteps
  <2>4. /\ k + 1 \in S => Rank(S, (k + 1) + 1) = Rank(S, k + 1) + 1
        /\ k + 1 \notin S => Rank(S, (k + 1) + 1) = Rank(S, k + 1)
        /\ Rank(S, k + 1) \in Nat
    BY <1>3 DEF RankSteps
  <2>5. k \in E <=> k + 1 \in S
    BY <1>1, <2>2
  <2> QED BY <2>2, <2>3, <2>4, <2>5
<1>. HIDE DEF T
<1>6. \A k \in Nat : k \in T
  BY <1>4, <1>5, Induction
<1>7. \A k \in 0 .. n : Rank(E, k) = Rank(S, k + 1) - 1
  BY <1>6 DEF T
<1>8. /\ Rank(S, n + 1) = Cardinality(S) /\ Cardinality(S) \in Nat
      /\ Rank(E, n + 1) = Cardinality(E)
  BY <1>2, RankAll, SequenceIs
<1>9. Rank(E, n + 1) = Rank(E, n) + 1 /\ Rank(E, n) \in Nat
  <2>1. n \in E
    BY <1>1
  <2> QED BY <1>3, <2>1 DEF RankSteps
<1>10. Rank(E, n) = Rank(S, n + 1) - 1
  BY <1>7
<1> QED BY <1>2, <1>7, <1>8, <1>9, <1>10

LEMMA IslandsAreRuns ==
    ASSUME NEW n \in Nat, NEW track
    PROVE  /\ IslandsOf(track, n + 1) \in Seq((0 .. n) \X (0 .. n))
           /\ Runs(IslandsOf(track, n + 1), track, n)
<1>. DEFINE S == {0} \cup {k \in 1 .. (n + 1) - 1 : track[k] # track[k - 1]}
            E == {(n + 1) - 1} \cup {k - 1 : k \in S \ {0}}
            list == IslandsOf(track, n + 1)
            c == Cardinality(S)
<1>1. S \in SUBSET (0 .. n) /\ 0 \in S /\ (n + 1) - 1 = n
  OBVIOUS
<1>2. list = [p \in 1 .. c |-> <<InSequence(S)[p], InSequence(E)[p]>>]
  BY DEF IslandsOf
<1>3. E = {n} \cup {k - 1 : k \in S \ {0}}
  BY <1>1
<1>4. \A k \in 1 .. n : k \notin S => track[k] = track[k - 1]
  OBVIOUS
<1>. HIDE DEF S, E, list
<1>5. /\ E \in SUBSET (0 .. n)
      /\ Cardinality(E) = c /\ c \in Nat \ {0}
      /\ \A k \in 0 .. n : Rank(E, k) = Rank(S, k + 1) - 1
  <2>1. 0 \in S
    BY <1>1
  <2>2. \A F : F = {n} \cup {k - 1 : k \in S \ {0}} =>
                /\ F \in SUBSET (0 .. n)
                /\ Cardinality(F) = Cardinality(S) /\ Cardinality(S) \in Nat \ {0}
                /\ \A k \in 0 .. n : Rank(F, k) = Rank(S, k + 1) - 1
    BY <1>1, <2>1, EndsFollow
  <2> QED BY Zenon, <1>3, <2>2
<1>6. RankSteps(S)
  BY <1>1, Ranks
<1>7. \A p \in 1 .. c : /\ InSequence(S)[p] \in S /\ Rank(S, InSequence(S)[p]) = p - 1
                        /\ InSequence(E)[p] \in E /\ Rank(E, InSequence(E)[p]) = p - 1
  BY <1>1, <1>5, SequenceIs
<1>8. \A p \in 1 .. c : list[p] = <<InSequence(S)[p], InSequence(E)[p]>>
  BY Zenon, <1>2
<1>9. list \in Seq((0 .. n) \X (0 .. n)) /\ DOMAIN list = 1 .. c
  <2>1. \A p \in 1 .. c : <<InSequence(S)[p], InSequence(E)[p]>> \in (0 .. n) \X (0 .. n)
    BY <1>1, <1>5, <1>7
  <2>2. list \in [1 .. c -> (0 .. n) \X (0 .. n)]
    BY <1>2, <2>1
  <2>3. c \in Nat
    BY <1>5
  <2> QED BY <2>2, <2>3
<1>10. ASSUME NEW p \in 1 .. c, NEW s, s = list[p][1], NEW e, e = list[p][2]
       PROVE  /\ s \in S /\ s \in 0 .. n /\ Rank(S, s) = p - 1
              /\ e \in 0 .. n /\ Rank(S, e + 1) = p
  <2>1. s = InSequence(S)[p] /\ e = InSequence(E)[p]
    BY <1>8, <1>10
  <2>2. e \in 0 .. n /\ Rank(E, e) = p - 1
    BY <1>5, <1>7, <2>1
  <2>3. Rank(S, e + 1) - 1 = p - 1
    BY <1>5, <2>2
  <2>4. Rank(S, e + 1) \in Nat
    BY <1>6, <2>2 DEF RankSteps
  <2>5. Rank(S, e + 1) = p
    BY <2>3, <2>4
  <2>6. s \in S /\ Rank(S, s) = p - 1
    BY Zenon, <1>7, <2>1
  <2> QED BY <1>1, <2>2, <2>5, <2>6
<1>11. ASSUME NEW p \in 1 .. c, NEW s, s = list[p][1], NEW e, e = list[p][2]
       PROVE  s <= e
  <2>1. /\ s \in 0 .. n /\ Rank(S, s) = p - 1 /\ e \in 0 .. n /\ Rank(S, e + 1) = p
    BY <1>10, <1>11
  <2>2. e + 1 <= s => Rank(S, e + 1) <= Rank(S, s)
    <3>1. s \in Nat /\ e + 1 \in Nat
      BY <2>1
    <3> QED BY <1>1, <3>1, RankMonotone
  <2> QED BY <2>1, <2>2
<1>12. ASSUME NEW p \in 1 .. c, NEW s, s = list[p][1], NEW e, e = list[p][2],
              NEW k \in s .. e
       PROVE  track[k] = track[s]
  <2>1. /\ s \in 0 .. n /\ Rank(S, s) = p - 1 /\ e \in 0 .. n /\ Rank(S, e + 1) = p
        /\ s \in S
    BY <1>10, <1>12
  <2>2. \A j \in s + 1 .. e : j \notin S
    <3>1. SUFFICES ASSUME NEW j \in s + 1 .. e, j \in S PROVE FALSE
      OBVIOUS
    <3>2. j \in Nat /\ s < j /\ e + 1 \in Nat /\ j < e + 1
      BY <2>1
    <3>3. Rank(S, s) < Rank(S, j)
      BY <1>1, <2>1, <3>2, RankInjective
    <3>4. Rank(S, j) < Rank(S, e + 1)
      BY <1>1, <3>1, <3>2, RankInjective
    <3>5. Rank(S, j) \in Nat
      BY <1>6, <3>2 DEF RankSteps
    <3> QED BY <2>1, <3>3, <3>4, <3>5
  <2>. DEFINE T == {d \in Nat : s + d <= e => track[s + d] = track[s]}
  <2>3. 0 \in T
    BY <2>1
  <2>4. ASSUME NEW d \in Nat, d \in T PROVE d + 1 \in T
    <3>1. SUFFICES ASSUME s + (d + 1) <= e PROVE track[s + (d + 1)] = track[s]
      OBVIOUS
    <3>2. track[s + d] = track[s]
      BY <2>1, <2>4, <3>1
    <3>3. s + (d + 1) \in 1 .. n /\ s + (d + 1) \in s + 1 .. e /\ (s + (d + 1)) - 1 = s + d
      BY <2>1, <3>1
    <3> QED BY <1>4, <2>2, <3>2, <3>3
  <2>. HIDE DEF T
  <2>5. k - s \in Nat /\ s + (k - s) = k /\ k <= e
    BY <2>1
  <2>6. k - s \in T
    BY <2>3, <2>4, <2>5, Induction
  <2>7. s + (k - s) <= e => track[s + (k - s)] = track[s]
    BY <2>6 DEF T
  <2> QED BY <2>5, <2>7
<1>13. ASSUME NEW p \in 1 .. c, NEW q \in 1 .. c, p < q,
              NEW e, e = list[p][2], NEW s, s = list[q][1]
       PROVE  e < s
  <2>1. e \in 0 .. n /\ Rank(S, e + 1) = p
    BY <1>10, <1>13
  <2>2. s \in 0 .. n /\ s \in S /\ Rank(S, s) = q - 1
    BY <1>10, <1>13
  <2>3. s < e + 1 => Rank(S, s) < Rank(S, e + 1)
    <3>1. e + 1 \in Nat
      BY <2>1
    <3> QED BY <1>1, <2>2, <3>1, RankInjective
  <2> QED BY <1>13, <2>1, <2>2, <2>3
<1>14. 1 \in DOMAIN list
  <2>1. 1 \in 1 .. c
    BY <1>5
  <2> QED BY <1>9, <2>1
<1>15. \A p \in DOMAIN list : list[p][1] \in 0 .. n /\ list[p][2] \in 0 .. n
  BY <1>9, <1>10
<1>16. Runs(list, track, n)
  <2>1. \A p \in DOMAIN list : list[p][1] <= list[p][2]
    BY Zenon, <1>9, <1>11
  <2>2. \A p \in DOMAIN list : \A k \in list[p][1] .. list[p][2] : track[k] = track[list[p][1]]
    <3>1. SUFFICES ASSUME NEW p \in 1 .. c
                   PROVE  \A k \in list[p][1] .. list[p][2] : track[k] = track[list[p][1]]
      BY <1>9
    <3>2. PICK s, e : s = list[p][1] /\ e = list[p][2]
      OBVIOUS
    <3>3. \A k \in s .. e : track[k] = track[s]
      BY <1>12, <3>2
    <3> QED BY Zenon, <3>2, <3>3
  <2>3. \A p, q \in DOMAIN list : p < q => list[p][2] < list[q][1]
    BY Zenon, <1>9, <1>13
  <2> QED BY Zenon, <1>14, <1>15, <2>1, <2>2, <2>3 DEF Runs
<1> QED BY <1>9, <1>16 DEF list

-----------------------------------------------------------------------------
(* The samples of an island *)

LEMMA FloorIs ==
    ASSUME NEW n \in Nat
    PROVE  Floor(n) \in Nat /\ FrameDen * Floor(n) <= n /\ n < FrameDen * Floor(n) + FrameDen
BY PeriodAssumption, DividedBy DEF Floor

LEMMA RoundIs ==
    ASSUME NEW n \in Nat
    PROVE  Round(n) \in Nat /\ (2 * FrameDen) * Round(n) <= 2 * n + FrameDen
<1>1. PICK d \in Nat \ {0} : d = FrameDen
  BY PeriodAssumption
<1>2. 2 * n + d \in Nat /\ 2 * d \in Nat \ {0}
  OBVIOUS
<1> QED BY <1>1, <1>2, DividedBy DEF Round

LEMMA FrameOfIs ==
    ASSUME NEW j \in Nat
    PROVE  /\ FrameOf(j) \in Nat
           /\ FrameNum * FrameOf(j) <= FrameDen * j
           /\ FrameDen * j < FrameNum * FrameOf(j) + FrameNum
<1>1. PICK d \in Nat \ {0} : d = FrameDen
  BY PeriodAssumption
<1>2. j * d \in Nat /\ j * d = d * j
  OBVIOUS
<1> QED BY <1>1, <1>2, PeriodAssumption, DividedBy DEF FrameOf

LEMMA IndexIs ==
    ASSUME NEW s \in Nat, NEW e \in Nat, NEW island, island = <<s, e>>, pulsesXLen \in Nat \ {0}
    PROVE  /\ stIndex(island) \in Nat /\ edIndex(island) \in Int
           /\ edIndex(island) <= pulsesXLen - 1
           /\ stIndex(island) = Floor(FrameTime(s))
           /\ edIndex(island) <= Round(FrameTime(e + 1)) - 1
           /\ FrameTime(s) \in Nat /\ FrameTime(e + 1) \in Nat
<1>1. FrameTime(s) \in Nat /\ FrameTime(e + 1) \in Nat
  BY PeriodAssumption DEF FrameTime
<1>2. Floor(FrameTime(s)) \in Nat /\ Round(FrameTime(e + 1)) \in Nat
  BY <1>1, FloorIs, RoundIs
<1>3. island[1] = s /\ island[2] = e
  OBVIOUS
<1> QED BY <1>1, <1>2, <1>3 DEF stIndex, edIndex, Smaller, Larger

\* Between its limits the frames are of the island.
LEMMA FramesOfIsland ==
    ASSUME NEW s \in Nat, NEW e \in Nat, NEW island, island = <<s, e>>, pulsesXLen \in Nat \ {0},
           NEW j \in Int, stIndex(island) < j, j < edIndex(island)
    PROVE  FrameOf(j) \in s .. e
<1>1. /\ stIndex(island) \in Nat /\ edIndex(island) \in Int
      /\ stIndex(island) = Floor(FrameTime(s))
      /\ edIndex(island) <= Round(FrameTime(e + 1)) - 1
      /\ FrameTime(s) \in Nat /\ FrameTime(e + 1) \in Nat
  BY IndexIs
<1>2. PICK d \in Nat \ {0}, m \in Nat \ {0} : d = FrameDen /\ m = FrameNum
  BY PeriodAssumption
<1>3. PICK f \in Nat, r \in Nat : f = Floor(FrameTime(s)) /\ r = Round(FrameTime(e + 1))
  BY <1>1, FloorIs, RoundIs
<1>4. j \in Nat /\ f + 1 <= j /\ j + 2 <= r
  BY <1>1, <1>3, RoundIs
<1>5. PICK q \in Nat : q = FrameOf(j) /\ m * q <= d * j /\ d * j < m * q + m
  BY <1>2, <1>4, FrameOfIs
<1>6. m * s < d * f + d /\ (2 * d) * r <= 2 * (m * (e + 1)) + d
  <2>1. FrameTime(s) = m * s /\ FrameTime(e + 1) = m * (e + 1)
    BY <1>2 DEF FrameTime
  <2> QED BY <1>1, <1>2, <1>3, <2>1, FloorIs, RoundIs
<1>7. d * (f + 1) <= d * j /\ (2 * d) * (j + 2) <= (2 * d) * r
  BY <1>4, ProductOrder
<1>8. PICK dj \in Nat, df \in Nat, mq \in Nat, ms \in Nat, me \in Nat, dr \in Nat :
        dj = d * j /\ df = d * f /\ mq = m * q /\ ms = m * s /\ me = m * (e + 1) /\ dr = (2 * d) * r
  BY <1>4
<1>9. d * (f + 1) = df + d /\ (2 * d) * (j + 2) = 2 * dj + 4 * d /\ m * (q + 1) = mq + m
  BY <1>8, <1>4
<1>10. ms < mq + m /\ mq < me
  BY <1>5, <1>6, <1>7, <1>8, <1>9
<1>11. m * s < m * (q + 1) /\ m * q < m * (e + 1)
  BY <1>8, <1>9, <1>10
<1>12. s < q + 1 /\ q < e + 1
  BY <1>11, ProductSign
<1> QED BY <1>5, <1>12

\* An island is over where the next begins, however its limits are rounded.
LEMMA IslandsApart ==
    ASSUME NEW s \in Nat, NEW e \in Nat, NEW island, island = <<s, e>>, pulsesXLen \in Nat \ {0},
           NEW u \in Nat, NEW v \in Nat, NEW other, other = <<u, v>>, e < u
    PROVE  edIndex(island) <= stIndex(other)
<1>1. /\ edIndex(island) \in Int /\ edIndex(island) <= Round(FrameTime(e + 1)) - 1
      /\ FrameTime(e + 1) \in Nat
  BY IndexIs
<1>2. stIndex(other) = Floor(FrameTime(u)) /\ FrameTime(u) \in Nat
  BY IndexIs
<1>3. PICK d \in Nat \ {0}, m \in Nat \ {0} : d = FrameDen /\ m = FrameNum
  BY PeriodAssumption
<1>4. PICK f \in Nat, r \in Nat : f = Floor(FrameTime(u)) /\ r = Round(FrameTime(e + 1))
  BY <1>1, <1>2, FloorIs, RoundIs
<1>5. m * u < d * f + d /\ (2 * d) * r <= 2 * (m * (e + 1)) + d
  <2>1. FrameTime(u) = m * u /\ FrameTime(e + 1) = m * (e + 1)
    BY <1>3 DEF FrameTime
  <2> QED BY <1>1, <1>2, <1>3, <1>4, <2>1, FloorIs, RoundIs
<1>6. m * (e + 1) <= m * u
  BY ProductOrder
<1>7. PICK df \in Nat, mu \in Nat, me \in Nat :
        df = d * f /\ mu = m * u /\ me = m * (e + 1)
  OBVIOUS
<1>8. (2 * d) * r < (2 * d) * (f + 2)
  <2>1. (2 * d) * (f + 2) = 2 * df + 4 * d
    BY <1>7
  <2> QED BY <1>5, <1>6, <1>7, <2>1
<1>9. r < f + 2
  BY <1>8, ProductSign
<1> QED BY <1>1, <1>2, <1>4, <1>9

LEMMA PeriodIs ==
    ASSUME NEW k
    PROVE  Period(k) \in {VoicedT0, DefaultT0} /\ Period(k) \in Nat /\ Period(k) > 4
BY PeriodAssumption DEF Period

\* A sample advances the phase by less than a quarter of a cycle.
LEMMA IncrementIs ==
    ASSUME NEW j
    PROVE  /\ Increment(j) \in Nat \ {0} /\ 4 * Increment(j) < Cycle
           /\ Increment(j) * Period(FrameOf(j)) = Cycle
<1>1. PICK c \in Nat \ {0} : c = Cycle
  BY PeriodAssumption
<1>2. PICK p \in Nat \ {0} : p = Period(FrameOf(j)) /\ p > 4 /\ c % p = 0
  BY <1>1, PeriodIs, PeriodAssumption
<1>3. PICK q \in Int : q = c \div p
  BY <1>2
<1>4. c = p * q
  <2>1. c = p * q + (c % p)
    BY <1>2, <1>3
  <2> QED BY <1>2, <2>1
<1>5. q > 0
  <2>1. p * 0 < p * q
    BY <1>4
  <2> QED BY <2>1, ProductSign
<1>6. 4 * q < c
  <2>1. PICK o \in Nat : p = 5 + o
    <3>1. p - 5 \in Nat /\ p = 5 + (p - 5)
      BY <1>2
    <3> QED BY <3>1
  <2>2. p * q = 5 * q + o * q /\ o * q \in Nat
    BY <1>5, <2>1
  <2> QED BY <1>4, <1>5, <2>2
<1> QED BY <1>1, <1>2, <1>3, <1>4, <1>5, <1>6 DEF Increment

-----------------------------------------------------------------------------
(* The phase, and where it passes a cycle *)

Phases ==
    /\ pulsesXLen \in Nat \ {0}
    /\ totalPhase \in [0 .. pulsesXLen - 1 -> Int]
    /\ \A j \in 1 .. pulsesXLen - 1 : totalPhase[j] = totalPhase[j - 1] + Increment(j)

LEMMA RemainderIs ==
    ASSUME NEW c \in Nat \ {0}, NEW q \in Nat, NEW x \in Nat, c * q <= x, x < c * q + c
    PROVE  x % c = x - c * q
<1>1. PICK p \in Nat : p = c * q
  OBVIOUS
<1>2. x - p \in 0 .. c - 1 /\ x = p + (x - p)
  BY <1>1
<1>3. PICK s \in 0 .. c - 1 : s = x - p
  BY <1>2
<1>4. x = c * q + s
  BY <1>1, <1>2, <1>3
<1>5. x \div c = q
  BY <1>4, QuotientIs
<1>6. x = c * (x \div c) + (x % c)
  OBVIOUS
<1>7. x = p + (x % c)
  BY <1>1, <1>5, <1>6
<1>8. PICK r \in Int : r = x % c
  OBVIOUS
<1>9. r = x - p
  BY <1>1, <1>7, <1>8
<1> QED BY <1>1, <1>8, <1>9

\* The remainder as in C is odd.
LEMMA FmodIs ==
    ASSUME NEW x \in Nat
    PROVE  fmod(x) = x % Cycle /\ fmod(-x) = -(x % Cycle) /\ x % Cycle \in Int
<1>1. PICK c \in Nat \ {0} : c = Cycle
  BY PeriodAssumption
<1>2. fmod(x) = x % Cycle /\ x % Cycle \in Int
  BY <1>1 DEF fmod
<1>3. CASE x = 0
  <2>1. 0 % c = 0
    OBVIOUS
  <2>a. x % c = 0
    BY Zenon, <1>3, <2>1
  <2>b. -x = x
    <3>1. x <= 0 /\ x >= 0
      BY <1>3
    <3>2. \A z \in Nat : z <= 0 /\ z >= 0 => -z <= z /\ z <= -z
      OBVIOUS
    <3>3. \A z, y \in Int : z <= y /\ y <= z => z = y
      OBVIOUS
    <3>4. -x <= x /\ x <= -x /\ -x \in Int /\ x \in Int
      BY <3>1, <3>2
    <3> QED BY <3>3, <3>4
  <2>3. -(x % c) = x % c
    BY <2>a
  <2>4. fmod(-x) = fmod(x)
    BY Zenon, <2>b
  <2> QED BY <1>1, <1>2, <2>3, <2>4
<1>4. CASE x # 0
  <2>1. ~(-x >= 0) /\ -(-x) = x
    BY <1>4
  <2> QED BY <1>2, <2>1 DEF fmod
<1> QED BY <1>3, <1>4

\* Two numbers less than a quarter of a cycle apart, the lower one in cycle q:
\* the remainder jumps if the higher one is in the next.
LEMMA CycleStep ==
    ASSUME NEW c \in Nat \ {0}, c = Cycle, NEW q \in Nat, NEW x \in Nat, NEW d \in Nat \ {0},
           4 * d < c, c * q <= x, x < c * q + c, NEW y, y = x + d,
           NEW st, st = fmod(y) - fmod(x)
    PROVE  /\ st \in Int /\ fmod(-x) - fmod(-y) = st
           /\ y < c * q + c => 4 * st <= c /\ 4 * st >= -c
           /\ y >= c * q + c => 4 * st < -c /\ y < c * (q + 1) + c
<1>1. x % c = x - c * q
  BY RemainderIs
<1>2. PICK p \in Nat : p = c * q
  OBVIOUS
<1>3. c * (q + 1) = p + c
  BY <1>2
<1>4. y < p + c => y % c = y - p
  <2>1. SUFFICES ASSUME y < p + c PROVE y % c = y - p
    OBVIOUS
  <2>2. c * q <= y /\ y < c * q + c /\ y \in Nat
    BY <1>2, <2>1
  <2>3. y % c = y - c * q
    BY <2>2, RemainderIs
  <2> QED BY <1>2, <2>3
<1>5. y >= p + c => y % c = y - (p + c)
  <2>1. SUFFICES ASSUME y >= p + c PROVE y % c = y - (p + c)
    OBVIOUS
  <2>2. c * (q + 1) <= y /\ y < c * (q + 1) + c /\ q + 1 \in Nat /\ y \in Nat
    BY <1>2, <1>3, <2>1
  <2>3. y % c = y - c * (q + 1)
    BY <2>2, RemainderIs
  <2> QED BY <1>3, <2>3
<1>6. PICK a \in Int, b \in Int : a = x % c /\ b = y % c
  OBVIOUS
<1>7. y \in Nat /\ fmod(x) = a /\ fmod(-x) = -a /\ fmod(y) = b /\ fmod(-y) = -b
  BY <1>6, FmodIs
<1>8. st = b - a /\ fmod(-x) - fmod(-y) = b - a
  BY <1>7
<1>9. y < p + c => st = d
  BY <1>1, <1>2, <1>4, <1>6, <1>8
<1>10. y >= p + c => st = d - c
  BY <1>1, <1>2, <1>5, <1>6, <1>8
<1> QED BY <1>2, <1>3, <1>6, <1>8, <1>9, <1>10

\* The phase since the wedge.
Since(w, j) == totalPhase[j] - totalPhase[w]

LEMMA SinceNext ==
    ASSUME Phases, NEW w \in 0 .. pulsesXLen - 1, NEW j \in 0 .. pulsesXLen - 2
    PROVE  /\ Since(w, j) \in Int /\ Since(w, j + 1) = Since(w, j) + Increment(j + 1)
           /\ Since(w, w) = 0
<1>1. j + 1 \in 1 .. pulsesXLen - 1 /\ j + 1 \in 0 .. pulsesXLen - 1
      /\ j \in 0 .. pulsesXLen - 1 /\ (j + 1) - 1 = j
  BY DEF Phases
<1>2. /\ totalPhase[j] \in Int /\ totalPhase[w] \in Int
      /\ totalPhase[j + 1] = totalPhase[j] + Increment(j + 1)
  BY <1>1 DEF Phases
<1>3. Increment(j + 1) \in Nat
  BY IncrementIs
<1> QED BY <1>2, <1>3 DEF Since

LEMMA JumpsAfter ==
    ASSUME Phases, NEW w \in 0 .. pulsesXLen - 1, NEW j \in 0 .. pulsesXLen - 2,
           NEW q \in Nat, Cycle * q <= Since(w, j), Since(w, j) < Cycle * q + Cycle
    PROVE  /\ Jumps(j, w) <=> Since(w, j + 1) >= Cycle * q + Cycle
           /\ Since(w, j) < Since(w, j + 1)
           /\ Since(w, j + 1) < Cycle * (q + 1) + Cycle
<1>1. PICK c \in Nat \ {0} : c = Cycle
  BY PeriodAssumption
<1>2. PICK d \in Nat \ {0} : d = Increment(j + 1) /\ 4 * d < c
  BY <1>1, IncrementIs
<1>3. PICK x \in Nat : x = Since(w, j)
  <2>1. Since(w, j) \in Int /\ c * q \in Nat
    BY SinceNext
  <2> QED BY <1>1, <2>1
<1>4. Since(w, j + 1) = x + d
  BY <1>2, <1>3, SinceNext
<1>5. PICK st : st = fmod(x + d) - fmod(x)
  OBVIOUS
<1>6. Jumps(j, w) <=> 4 * st > c \/ 4 * st < -c
  BY <1>1, <1>3, <1>4, <1>5 DEF Jumps, Since
<1>7. /\ st \in Int
      /\ x + d < c * q + c => 4 * st <= c /\ 4 * st >= -c
      /\ x + d >= c * q + c => 4 * st < -c /\ x + d < c * (q + 1) + c
  <2>1. PICK y : y = x + d
    OBVIOUS
  <2>2. c * q <= x /\ x < c * q + c
    BY <1>1, <1>3
  <2> QED BY <1>1, <1>2, <1>3, <1>5, <2>1, <2>2, CycleStep
<1>8. PICK p \in Nat : p = c * q /\ c * (q + 1) = p + c
  OBVIOUS
<1> QED BY <1>1, <1>3, <1>4, <1>6, <1>7, <1>8

LEMMA JumpsBefore ==
    ASSUME Phases, NEW w \in 0 .. pulsesXLen - 1, NEW j \in 0 .. pulsesXLen - 2,
           NEW q \in Nat, Cycle * q <= -Since(w, j + 1), -Since(w, j + 1) < Cycle * q + Cycle
    PROVE  /\ Jumps(j, w) <=> -Since(w, j) >= Cycle * q + Cycle
           /\ -Since(w, j + 1) < -Since(w, j)
           /\ -Since(w, j) < Cycle * (q + 1) + Cycle
<1>1. PICK c \in Nat \ {0} : c = Cycle
  BY PeriodAssumption
<1>2. PICK d \in Nat \ {0} : d = Increment(j + 1) /\ 4 * d < c
  BY <1>1, IncrementIs
<1>0. Since(w, j) \in Int /\ Since(w, j + 1) = Since(w, j) + d
  BY <1>2, SinceNext
<1>3. PICK x \in Nat : x = -Since(w, j + 1)
  <2>1. -Since(w, j + 1) \in Int /\ c * q \in Nat
    BY <1>0
  <2> QED BY <1>1, <2>1
<1>4. -Since(w, j) = x + d /\ Since(w, j + 1) = -x /\ Since(w, j) = -(x + d)
  BY <1>0, <1>3
<1>5. PICK st : st = fmod(x + d) - fmod(x)
  OBVIOUS
<1>7. /\ st \in Int /\ fmod(-x) - fmod(-(x + d)) = st
      /\ x + d < c * q + c => 4 * st <= c /\ 4 * st >= -c
      /\ x + d >= c * q + c => 4 * st < -c /\ x + d < c * (q + 1) + c
  <2>1. PICK y : y = x + d
    OBVIOUS
  <2>2. c * q <= x /\ x < c * q + c
    BY <1>1, <1>3
  <2> QED BY <1>1, <1>2, <1>3, <1>5, <2>1, <2>2, CycleStep
<1>6. Jumps(j, w) <=> 4 * st > c \/ 4 * st < -c
  <2>1. fmod(Since(w, j + 1)) - fmod(Since(w, j)) = st
    BY Zenon, <1>4, <1>7
  <2> QED BY <1>1, <2>1 DEF Jumps, Since
<1>8. PICK p \in Nat : p = c * q /\ c * (q + 1) = p + c
  OBVIOUS
<1> QED BY <1>1, <1>3, <1>4, <1>6, <1>7, <1>8

LEMMA CycleOf ==
    ASSUME NEW x \in Nat
    PROVE  \E q \in Nat : Cycle * q <= x /\ x < Cycle * q + Cycle
BY PeriodAssumption, DividedBy

\* Without a jump the phase stays in its cycle, on either side of the wedge.
LEMMA StaysAfter ==
    ASSUME Phases, NEW w \in 0 .. pulsesXLen - 1,
           NEW lo \in w .. pulsesXLen - 1, NEW hi \in lo .. pulsesXLen - 1,
           \A j \in lo .. hi - 1 : ~Jumps(j, w),
           NEW q \in Nat, Cycle * q <= Since(w, lo), Since(w, lo) < Cycle * q + Cycle
    PROVE  Cycle * q <= Since(w, hi) /\ Since(w, hi) < Cycle * q + Cycle
<1>1. PICK p \in Nat : p = Cycle * q
  BY PeriodAssumption
<1>. DEFINE Here(j) == p <= Since(w, j) /\ Since(w, j) < p + Cycle
            T == {d \in Nat : lo + d <= hi => Here(lo + d)}
<1>2. 0 \in T
  BY <1>1
<1>3. ASSUME NEW d \in Nat, d \in T PROVE d + 1 \in T
  <2>1. SUFFICES ASSUME lo + (d + 1) <= hi PROVE Here(lo + (d + 1))
    OBVIOUS
  <2>2. PICK j \in Nat : j = lo + d /\ j + 1 = lo + (d + 1)
    OBVIOUS
  <2>3. j \in 0 .. pulsesXLen - 2 /\ j \in lo .. hi - 1
    BY <2>1, <2>2 DEF Phases
  <2>4. Here(j)
    BY <1>3, <2>2, <2>3
  <2>5. ~(Since(w, j + 1) >= p + Cycle) /\ Since(w, j) < Since(w, j + 1)
    BY <1>1, <2>3, <2>4, JumpsAfter
  <2>6. Since(w, j) \in Int /\ Since(w, j + 1) \in Int
    BY <2>3, SinceNext, IncrementIs
  <2>7. Here(j + 1)
    BY <2>4, <2>5, <2>6, PeriodAssumption
  <2> QED BY <2>2, <2>7
<1>. HIDE DEF T
<1>4. hi - lo \in Nat /\ lo + (hi - lo) = hi
  BY DEF Phases
<1>5. hi - lo \in T
  BY <1>2, <1>3, <1>4, Induction
<1>6. Here(hi)
  BY <1>4, <1>5 DEF T
<1> QED BY <1>1, <1>6

LEMMA StaysBefore ==
    ASSUME Phases, NEW w \in 0 .. pulsesXLen - 1,
           NEW hi \in 0 .. w, NEW lo \in 0 .. hi,
           \A j \in lo .. hi - 1 : ~Jumps(j, w),
           NEW q \in Nat, Cycle * q <= -Since(w, hi), -Since(w, hi) < Cycle * q + Cycle
    PROVE  Cycle * q <= -Since(w, lo) /\ -Since(w, lo) < Cycle * q + Cycle
<1>1. PICK p \in Nat : p = Cycle * q
  BY PeriodAssumption
<1>. DEFINE Here(j) == p <= -Since(w, j) /\ -Since(w, j) < p + Cycle
            T == {d \in Nat : hi - d >= lo => Here(hi - d)}
<1>2. 0 \in T
  <2>1. hi - 0 = hi
    OBVIOUS
  <2> QED BY <1>1, <2>1
<1>3. ASSUME NEW d \in Nat, d \in T PROVE d + 1 \in T
  <2>1. SUFFICES ASSUME hi - (d + 1) >= lo PROVE Here(hi - (d + 1))
    OBVIOUS
  <2>2. PICK j \in Nat : j = hi - (d + 1) /\ j + 1 = hi - d
    <3>1. hi - (d + 1) \in Nat /\ (hi - (d + 1)) + 1 = hi - d
      BY <2>1 DEF Phases
    <3> QED BY <3>1
  <2>3. j \in 0 .. pulsesXLen - 2 /\ j \in lo .. hi - 1
    BY <2>1, <2>2 DEF Phases
  <2>4. Here(j + 1)
    BY <1>3, <2>2, <2>3
  <2>5. ~(-Since(w, j) >= p + Cycle) /\ -Since(w, j + 1) < -Since(w, j)
    BY <1>1, <2>3, <2>4, JumpsBefore
  <2>6. Since(w, j) \in Int /\ Since(w, j + 1) \in Int
    BY <2>3, SinceNext, IncrementIs
  <2>7. Here(j)
    BY <2>4, <2>5, <2>6, PeriodAssumption
  <2> QED BY <2>2, <2>7
<1>. HIDE DEF T
<1>4. hi - lo \in Nat /\ hi - (hi - lo) = lo
  BY DEF Phases
<1>5. hi - lo \in T
  BY <1>2, <1>3, <1>4, Induction
<1>6. lo >= lo /\ hi - (hi - lo) >= lo
  BY <1>4
<1>7. Here(lo)
  BY <1>4, <1>5, <1>6 DEF T
<1> QED BY <1>1, <1>7

\* The phase only grows.
LEMMA SinceOrder ==
    ASSUME Phases, NEW w \in 0 .. pulsesXLen - 1,
           NEW lo \in 0 .. pulsesXLen - 1, NEW hi \in lo .. pulsesXLen - 1
    PROVE  Since(w, lo) <= Since(w, hi) /\ Since(w, lo) \in Int /\ Since(w, hi) \in Int
<1>0. \A j \in 0 .. pulsesXLen - 1 : Since(w, j) \in Int
  BY DEF Since, Phases
<1>. DEFINE T == {d \in Nat : lo + d <= hi => Since(w, lo) <= Since(w, lo + d)}
<1>1. 0 \in T
  <2>1. lo + 0 = lo
    OBVIOUS
  <2> QED BY <1>0, <2>1
<1>2. ASSUME NEW d \in Nat, d \in T PROVE d + 1 \in T
  <2>1. SUFFICES ASSUME lo + (d + 1) <= hi PROVE Since(w, lo) <= Since(w, lo + (d + 1))
    OBVIOUS
  <2>2. PICK j \in 0 .. pulsesXLen - 2 : j = lo + d /\ j + 1 = lo + (d + 1)
    <3>1. lo + d \in 0 .. pulsesXLen - 2 /\ (lo + d) + 1 = lo + (d + 1)
      BY <2>1 DEF Phases
    <3> QED BY <3>1
  <2>3. lo + d <= hi
    BY <2>1 DEF Phases
  <2>4. Since(w, lo) <= Since(w, j)
    BY <1>2, <2>2, <2>3
  <2>5. Since(w, j + 1) = Since(w, j) + Increment(j + 1) /\ Since(w, j) \in Int
    BY SinceNext
  <2> QED BY <1>0, <2>2, <2>4, <2>5, IncrementIs
<1>. HIDE DEF T
<1>3. hi - lo \in Nat /\ lo + (hi - lo) = hi
  BY DEF Phases
<1>4. hi - lo \in T
  BY <1>1, <1>2, <1>3, Induction
<1> QED BY <1>0, <1>3, <1>4 DEF T, Phases

\* Where all frames have one period, the phase is a line.
LEMMA SteadyPhase ==
    ASSUME Phases, NEW w \in 0 .. pulsesXLen - 1,
           NEW lo \in 0 .. pulsesXLen - 1, NEW hi \in lo .. pulsesXLen - 1,
           NEW inc \in Nat, \A j \in lo + 1 .. hi : Increment(j) = inc
    PROVE  Since(w, hi) = Since(w, lo) + inc * (hi - lo)
<1>. DEFINE T == {d \in Nat : lo + d <= hi => Since(w, lo + d) = Since(w, lo) + inc * d}
<1>0. \A j \in 0 .. pulsesXLen - 1 : Since(w, j) \in Int
  BY DEF Since, Phases
<1>1. 0 \in T
  <2>1. lo + 0 = lo /\ inc * 0 = 0 /\ Since(w, lo) + 0 = Since(w, lo)
    BY <1>0
  <2> QED BY <2>1
<1>2. ASSUME NEW d \in Nat, d \in T PROVE d + 1 \in T
  <2>1. SUFFICES ASSUME lo + (d + 1) <= hi
                 PROVE  Since(w, lo + (d + 1)) = Since(w, lo) + inc * (d + 1)
    OBVIOUS
  <2>2. PICK j \in Nat : j = lo + d /\ j + 1 = lo + (d + 1)
    OBVIOUS
  <2>3. j \in 0 .. pulsesXLen - 2 /\ j + 1 \in lo + 1 .. hi /\ lo + d <= hi
    BY <2>1, <2>2 DEF Phases
  <2>4. Since(w, j) = Since(w, lo) + inc * d
    BY <1>2, <2>2, <2>3
  <2>5. Since(w, j + 1) = Since(w, j) + inc
    BY <2>3, SinceNext
  <2>6. PICK s \in Int, m \in Nat : s = Since(w, lo) /\ m = inc * d /\ inc * (d + 1) = m + inc
    BY <1>0
  <2>7. Since(w, j + 1) = s + (m + inc)
    BY <2>4, <2>5, <2>6
  <2> QED BY <2>2, <2>6, <2>7
<1>. HIDE DEF T
<1>3. hi - lo \in Nat /\ lo + (hi - lo) = hi
  BY DEF Phases
<1>4. hi - lo \in T
  BY <1>1, <1>2, <1>3, Induction
<1> QED BY <1>3, <1>4 DEF T

\* In two periods there is a jump, wherever the wedge is.
LEMMA JumpInTwo ==
    ASSUME Phases, NEW w \in 0 .. pulsesXLen - 1,
           NEW lo \in 0 .. pulsesXLen - 1, NEW hi \in lo .. pulsesXLen - 1,
           NEW inc \in Nat \ {0}, \A j \in lo + 1 .. hi : Increment(j) = inc,
           inc * (hi - lo) >= 2 * Cycle
    PROVE  \E j \in lo .. hi - 1 : Jumps(j, w)
<1>1. SUFFICES ASSUME \A j \in lo .. hi - 1 : ~Jumps(j, w) PROVE FALSE
  OBVIOUS
<1>2. PICK m \in Int, c \in Nat \ {0} : m = inc * (hi - lo) /\ c = Cycle /\ m >= 2 * c
  BY PeriodAssumption
<1>3. Since(w, hi) = Since(w, lo) + m
  BY <1>2, SteadyPhase
<1>4. \A j \in 0 .. pulsesXLen - 1 : Since(w, j) \in Int
  BY DEF Since, Phases
<1>5. PICK a \in Int, b \in Int : a = Since(w, lo) /\ b = Since(w, hi) /\ b = a + m
  BY <1>3, <1>4
<1>6. Since(w, w) = 0 /\ c * 0 = 0
  BY DEF Since, Phases
<1>7. CASE w <= lo
  <2>1. a \in Nat
    <3>1. lo \in w .. pulsesXLen - 1
      BY <1>7 DEF Phases
    <3> QED BY <1>5, <1>6, <3>1, SinceOrder
  <2>2. PICK q \in Nat : c * q <= a /\ a < c * q + c
    BY <1>2, <2>1, CycleOf
  <2>3. lo \in w .. pulsesXLen - 1
    BY <1>7 DEF Phases
  <2>4. b < c * q + c
    BY <1>1, <1>2, <1>5, <2>2, <2>3, StaysAfter
  <2>5. PICK p \in Nat : p = c * q
    OBVIOUS
  <2> QED BY <1>2, <1>5, <2>2, <2>4, <2>5
<1>8. CASE hi <= w
  <2>1. -b \in Nat
    <3>1. hi \in 0 .. pulsesXLen - 1 /\ w \in hi .. pulsesXLen - 1
      BY <1>8 DEF Phases
    <3>2. b <= 0
      BY <1>5, <1>6, <3>1, SinceOrder
    <3> QED BY <1>5, <3>2
  <2>2. PICK q \in Nat : c * q <= -b /\ -b < c * q + c
    BY <1>2, <2>1, CycleOf
  <2>3. hi \in 0 .. w /\ lo \in 0 .. hi
    BY <1>8 DEF Phases
  <2>4. -a < c * q + c
    BY <1>1, <1>2, <1>5, <2>2, <2>3, StaysBefore
  <2>5. PICK p \in Nat : p = c * q
    OBVIOUS
  <2> QED BY <1>2, <1>5, <2>2, <2>4, <2>5
<1>9. CASE lo < w /\ w < hi
  <2>1. b < c
    <3>1. w \in w .. pulsesXLen - 1 /\ hi \in w .. pulsesXLen - 1
      BY <1>9 DEF Phases
    <3>2. \A j \in w .. hi - 1 : ~Jumps(j, w)
      BY <1>1, <1>9 DEF Phases
    <3>3. Cycle * 0 <= Since(w, w) /\ Since(w, w) < Cycle * 0 + Cycle
      BY <1>2, <1>6
    <3>4. Since(w, hi) < Cycle * 0 + Cycle
      BY <3>1, <3>2, <3>3, StaysAfter
    <3> QED BY <1>2, <1>5, <1>6, <3>4
  <2>2. -a < c
    <3>1. w \in 0 .. w /\ lo \in 0 .. w
      BY <1>9 DEF Phases
    <3>2. \A j \in lo .. w - 1 : ~Jumps(j, w)
      BY <1>1, <1>9 DEF Phases
    <3>3. Cycle * 0 <= -Since(w, w) /\ -Since(w, w) < Cycle * 0 + Cycle
      BY <1>2, <1>6
    <3>4. -Since(w, lo) < Cycle * 0 + Cycle
      BY <3>1, <3>2, <3>3, StaysBefore
    <3> QED BY <1>2, <1>5, <1>6, <3>4
  <2> QED BY <1>2, <1>5, <2>1, <2>2
<1> QED BY <1>7, <1>8, <1>9 DEF Phases

-----------------------------------------------------------------------------
(* The pulses of an island *)

InRuns ==
    /\ pulsesXLen \in Nat \ {0} /\ pulsesTLen \in Nat \ {0}
    /\ islands \in Seq(PulsesFrames \X PulsesFrames)
    /\ Runs(islands, pulsesVoiced, pulsesTLen - 1)

LEMMA IslandIs ==
    ASSUME InRuns, NEW n \in DOMAIN islands
    PROVE  \E s, e \in Nat : /\ islands[n] = <<s, e>> /\ s <= e
                            /\ \A k \in s .. e : Period(k) = Period(s)
<1>1. islands[n] \in PulsesFrames \X PulsesFrames
  BY DEF InRuns
<1>2. PICK s \in PulsesFrames, e \in PulsesFrames : islands[n] = <<s, e>>
  BY <1>1
<1>3. s = islands[n][1] /\ e = islands[n][2] /\ s \in Nat /\ e \in Nat
  BY <1>2 DEF PulsesFrames, InRuns
<1>4. s <= e /\ \A k \in s .. e : pulsesVoiced[k] = pulsesVoiced[s]
  BY <1>3 DEF InRuns, Runs
<1> QED BY <1>2, <1>3, <1>4 DEF Period

LEMMA IslandIncrement ==
    ASSUME InRuns, NEW n \in DOMAIN islands, NEW j \in Int,
           stIndex(islands[n]) < j, j < edIndex(islands[n])
    PROVE  Increment(j) = Cycle \div Period(islands[n][1])
<1>1. PICK s \in Nat, e \in Nat : /\ islands[n] = <<s, e>> /\ s <= e
                                  /\ \A k \in s .. e : Period(k) = Period(s)
  BY IslandIs
<1>2. FrameOf(j) \in s .. e
  BY <1>1, FramesOfIsland DEF InRuns
<1>3. Period(FrameOf(j)) = Period(s) /\ islands[n][1] = s
  BY <1>1, <1>2
<1> QED BY <1>3 DEF Increment

LEMMA LimitsAre ==
    ASSUME InRuns, NEW n \in DOMAIN islands
    PROVE  /\ stIndex(islands[n]) \in Nat /\ edIndex(islands[n]) \in Int
           /\ edIndex(islands[n]) <= pulsesXLen - 1
<1>1. PICK s \in Nat, e \in Nat : islands[n] = <<s, e>>
  BY IslandIs
<1> QED BY <1>1, IndexIs DEF InRuns

LEMMA PulseIs ==
    ASSUME InRuns, NEW n \in DOMAIN islands, NEW w, NEW j
    PROVE  j \in PulsesOf(islands[n], w) <=>
              /\ j \in 1 .. pulsesXLen - 2 /\ Jumps(j, w)
              /\ stIndex(islands[n]) <= j /\ j <= edIndex(islands[n]) - 2
BY LimitsAre DEF PulsesOf, InRuns

\* Two periods of an island hold a pulse.
LEMMA PulseInStretch ==
    ASSUME InRuns, Phases, NEW n \in DOMAIN islands, NEW w \in 0 .. pulsesXLen - 1,
           NEW j \in Stretches(n)
    PROVE  /\ \E p \in PulsesOf(islands[n], w) :
                 j <= p /\ p <= j + 2 * Period(islands[n][1]) - 1
           /\ j \in Nat /\ Period(islands[n][1]) \in Nat
<1>1. PICK t \in Nat \ {0} : t = Period(islands[n][1])
  BY PeriodIs
<1>2. PICK a \in Nat, b \in Int : a = stIndex(islands[n]) /\ b = edIndex(islands[n])
                                /\ b <= pulsesXLen - 1
  BY LimitsAre
<1>3. j \in Nat /\ 1 <= j /\ a <= j /\ j <= (b - 2 * t) - 1
  BY <1>1, <1>2 DEF Stretches, Larger
<1>4. PICK hi \in Nat : hi = j + 2 * t /\ hi <= b - 1 /\ hi <= pulsesXLen - 2
  BY <1>2, <1>3 DEF InRuns
<1>5. j \in 0 .. pulsesXLen - 1 /\ hi \in j .. pulsesXLen - 1
  BY <1>3, <1>4 DEF InRuns
<1>6. \A h \in j + 1 .. hi : Increment(h) = Cycle \div t
  BY <1>1, <1>2, <1>3, <1>4, IslandIncrement
<1>7. PICK inc \in Nat \ {0} : inc = Increment(j + 1) /\ inc * t = Cycle
  <2>1. FrameOf(j + 1) \in Nat /\ Period(FrameOf(j + 1)) = t
    <3>1. PICK s \in Nat, e \in Nat : /\ islands[n] = <<s, e>> /\ s <= e
                                      /\ \A k \in s .. e : Period(k) = Period(s)
      BY IslandIs
    <3>2. FrameOf(j + 1) \in s .. e
      <4>1. j + 1 \in Int /\ stIndex(islands[n]) < j + 1 /\ j + 1 < edIndex(islands[n])
        BY <1>2, <1>3, <1>4
      <4> QED BY <3>1, <4>1, FramesOfIsland DEF InRuns
    <3> QED BY <1>1, <3>1, <3>2
  <2> QED BY <2>1, IncrementIs
<1>8. j + 1 \in j + 1 .. hi /\ inc = Cycle \div t
  BY <1>3, <1>4, <1>6, <1>7
<1>9. inc * (hi - j) >= 2 * Cycle
  <2>1. hi - j = 2 * t
    BY <1>3, <1>4
  <2>2. inc * (2 * t) = 2 * (inc * t)
    OBVIOUS
  <2>3. 2 * Cycle \in Int
    BY PeriodAssumption
  <2> QED BY <1>7, <2>1, <2>2, <2>3
<1>10. PICK p \in j .. hi - 1 : Jumps(p, w)
  <2>1. \A h \in j + 1 .. hi : Increment(h) = inc
    BY <1>6, <1>8
  <2> QED BY <1>5, <1>9, <2>1, JumpInTwo
<1>11. p \in PulsesOf(islands[n], w)
  <2>1. p \in 1 .. pulsesXLen - 2
    BY <1>3, <1>4, <1>10 DEF InRuns
  <2>2. stIndex(islands[n]) <= p /\ p <= edIndex(islands[n]) - 2
    BY <1>2, <1>3, <1>4, <1>10
  <2> QED BY <1>10, <2>1, <2>2, PulseIs
<1> QED BY <1>1, <1>3, <1>4, <1>10, <1>11

\* Two cycles apart but for less than a quarter: x and y lie in the cycle below and
\* at the ends of it, an increment further or not.
LEMMA QuarterApart ==
    ASSUME NEW c \in Nat \ {0}, NEW p \in Int, NEW x \in Int, NEW y \in Int,
           NEW d \in Nat, NEW h \in Nat, 4 * d < c, 4 * h < c,
           p <= x, x < p + d, p + c <= y, y < (p + c) + h
    PROVE  y - x < c + c \div 4 /\ y - x > c - c \div 4
<1>1. d <= c \div 4 /\ h <= c \div 4 /\ c \div 4 \in Int
  OBVIOUS
<1> QED BY <1>1

Consecutive(a, b, made) == a \in made /\ b \in made /\ a < b /\ \A c \in made : c <= a \/ c >= b

LEMMA ApartInIsland ==
    ASSUME InRuns, Phases, NEW n \in DOMAIN islands, NEW w \in 0 .. pulsesXLen - 1,
           NEW a, NEW b, Consecutive(a, b, PulsesOf(islands[n], w)),
           NEW D, D = totalPhase[b + 1] - totalPhase[a + 1]
    PROVE  IF a < w /\ w <= b + 1
           THEN D <= 2 * Cycle + Increment(w)
           ELSE D < Cycle + Cycle \div 4 /\ D > Cycle - Cycle \div 4
<1>1. PICK st \in Nat, ed \in Int : st = stIndex(islands[n]) /\ ed = edIndex(islands[n])
                                  /\ ed <= pulsesXLen - 1
  BY LimitsAre
<1>2. /\ a \in 1 .. pulsesXLen - 2 /\ Jumps(a, w) /\ st <= a /\ a <= ed - 2
      /\ b \in 1 .. pulsesXLen - 2 /\ Jumps(b, w) /\ st <= b /\ b <= ed - 2
      /\ a < b
  BY <1>1, PulseIs DEF Consecutive
<1>3. \A j \in a + 1 .. b - 1 : ~Jumps(j, w)
  <2>1. SUFFICES ASSUME NEW j \in a + 1 .. b - 1, Jumps(j, w) PROVE FALSE
    OBVIOUS
  <2>2. j \in 1 .. pulsesXLen - 2 /\ st <= j /\ j <= ed - 2 /\ ~(j <= a) /\ ~(j >= b)
    <3>1. a \in Nat /\ b \in Nat /\ pulsesXLen \in Nat /\ b <= pulsesXLen - 2
      BY <1>2 DEF InRuns
    <3> QED BY <1>1, <1>2, <3>1
  <2> QED BY <1>1, <2>1, <2>2, PulseIs DEF Consecutive
<1>4. /\ a \in 0 .. pulsesXLen - 2 /\ a + 1 \in 0 .. pulsesXLen - 1
      /\ b \in 0 .. pulsesXLen - 2 /\ b + 1 \in 0 .. pulsesXLen - 1 /\ b \in a + 1 .. pulsesXLen - 1
      /\ a + 1 \in 0 .. b /\ pulsesXLen \in Nat
  BY <1>2 DEF InRuns
<1>5. PICK c \in Nat \ {0}, d \in Nat \ {0}, h \in Nat \ {0} :
        /\ c = Cycle /\ d = Increment(a + 1) /\ h = Increment(b + 1)
        /\ 4 * d < c /\ 4 * h < c
  BY IncrementIs, PeriodAssumption
<1>6. PICK A \in Int, B \in Int :
        /\ A = Since(w, a) /\ Since(w, a + 1) = A + d
        /\ B = Since(w, b) /\ Since(w, b + 1) = B + h /\ Since(w, w) = 0
  BY <1>4, <1>5, SinceNext
<1>7. D = (B + h) - (A + d)
  <2>1. Since(w, b + 1) - Since(w, a + 1) = D
    BY <1>4 DEF Since, Phases
  <2> QED BY <1>6, <2>1
<1>8. CASE w <= a
  <2>1. A \in Nat
    <3>1. a \in w .. pulsesXLen - 1
      BY <1>4, <1>8
    <3> QED BY <1>6, <3>1, SinceOrder
  <2>2. PICK q \in Nat : c * q <= A /\ A < c * q + c
    BY <1>5, <2>1, CycleOf
  <2>3. PICK p \in Nat : p = c * q /\ c * (q + 1) = p + c
    OBVIOUS
  <2>4. A + d >= p + c /\ A + d < (p + c) + c
    BY <1>2, <1>4, <1>5, <1>6, <2>2, <2>3, JumpsAfter
  <2>5. Cycle * (q + 1) <= Since(w, b) /\ Since(w, b) < Cycle * (q + 1) + Cycle
    <3>1. a + 1 \in w .. pulsesXLen - 1 /\ b \in a + 1 .. pulsesXLen - 1 /\ q + 1 \in Nat
      BY <1>4, <1>8
    <3>2. Cycle * (q + 1) <= Since(w, a + 1) /\ Since(w, a + 1) < Cycle * (q + 1) + Cycle
      BY <1>5, <1>6, <2>3, <2>4
    <3> QED BY <1>3, <3>1, <3>2, StaysAfter
  <2>6. B + h >= (p + c) + c
    <3>1. Since(w, b + 1) >= Cycle * (q + 1) + Cycle
      <4>1. q + 1 \in Nat
        OBVIOUS
      <4> QED BY <1>2, <1>4, <2>5, <4>1, JumpsAfter
    <3> QED BY <1>5, <1>6, <2>3, <3>1
  <2>7. B < (p + c) + c
    BY <1>5, <1>6, <2>3, <2>5
  <2>8. D < c + c \div 4 /\ D > c - c \div 4
    <3>1. PICK o \in Int, x \in Int, y \in Int : o = p + c /\ x = A + d /\ y = B + h
      OBVIOUS
    <3>2. o <= x /\ x < o + d /\ o + c <= y /\ y < (o + c) + h
      BY <2>2, <2>3, <2>4, <2>6, <2>7, <3>1
    <3> QED BY <1>5, <1>7, <3>1, <3>2, QuarterApart
  <2> QED BY <1>2, <1>4, <1>5, <1>8, <2>8
<1>9. CASE b + 1 < w
  <2>1. -(B + h) \in Nat
    <3>1. w \in b + 1 .. pulsesXLen - 1
      BY <1>4, <1>9
    <3>2. B + h <= 0
      BY <1>4, <1>6, <3>1, SinceOrder
    <3> QED BY <3>2
  <2>2. PICK q \in Nat : c * q <= -(B + h) /\ -(B + h) < c * q + c
    BY <1>5, <2>1, CycleOf
  <2>3. PICK p \in Nat : p = c * q /\ c * (q + 1) = p + c
    OBVIOUS
  <2>4. -B >= p + c /\ -B < (p + c) + c
    BY <1>2, <1>4, <1>5, <1>6, <2>2, <2>3, JumpsBefore
  <2>5. Cycle * (q + 1) <= -Since(w, a + 1) /\ -Since(w, a + 1) < Cycle * (q + 1) + Cycle
    <3>1. b \in 0 .. w /\ a + 1 \in 0 .. b /\ q + 1 \in Nat
      BY <1>4, <1>9
    <3>2. Cycle * (q + 1) <= -Since(w, b) /\ -Since(w, b) < Cycle * (q + 1) + Cycle
      BY <1>5, <1>6, <2>3, <2>4
    <3> QED BY <1>3, <3>1, <3>2, StaysBefore
  <2>6. -A >= (p + c) + c
    <3>1. -Since(w, a) >= Cycle * (q + 1) + Cycle
      <4>1. q + 1 \in Nat
        OBVIOUS
      <4> QED BY <1>2, <1>4, <2>5, <4>1, JumpsBefore
    <3> QED BY <1>5, <1>6, <2>3, <3>1
  <2>7. -(A + d) < (p + c) + c
    BY <1>5, <1>6, <2>3, <2>5
  <2>8. D < c + c \div 4 /\ D > c - c \div 4
    <3>1. PICK o \in Int, x \in Int, y \in Int :
            o = (p + c) - h /\ x = -(B + h) /\ y = -(A + d)
      OBVIOUS
    <3>2. /\ D = y - x /\ p + c <= x + h /\ x < p + c
          /\ (p + c) + c <= y + d /\ y < (p + c) + c
      BY <1>7, <2>2, <2>3, <2>4, <2>6, <2>7, <3>1
    <3>3. d <= c \div 4 /\ h <= c \div 4 /\ c \div 4 \in Int
      BY <1>5
    <3> QED BY <3>2, <3>3
  <2> QED BY <1>2, <1>4, <1>5, <1>9, <2>8
<1>10. CASE a < w /\ w <= b + 1
  <2>1. Cycle * 0 = 0 /\ Cycle * 0 + Cycle = c
    BY <1>5
  <2>2. w # b + 1
    <3>1. SUFFICES ASSUME w = b + 1 PROVE FALSE
      OBVIOUS
    <3>2. Since(w, b + 1) = 0
      BY <1>6, <3>1
    <3>3. Cycle * 0 <= -Since(w, b + 1) /\ -Since(w, b + 1) < Cycle * 0 + Cycle
      BY <1>5, <1>6, <2>1, <3>2
    <3>4. -Since(w, b) >= Cycle * 0 + Cycle
      BY <1>2, <1>4, <3>3, JumpsBefore
    <3> QED BY <1>5, <1>6, <2>1, <3>2, <3>4
  <2>3. w <= b
    BY <1>4, <1>10, <2>2
  <2>4. -(A + d) < c
    <3>1. w \in 0 .. w /\ a + 1 \in 0 .. w
      BY <1>4, <1>10
    <3>2. \A j \in a + 1 .. w - 1 : ~Jumps(j, w)
      BY <1>3, <1>4, <2>3
    <3>3. Cycle * 0 <= -Since(w, w) /\ -Since(w, w) < Cycle * 0 + Cycle
      BY <1>5, <1>6, <2>1
    <3>4. -Since(w, a + 1) < Cycle * 0 + Cycle
      BY <3>1, <3>2, <3>3, StaysBefore
    <3> QED BY <1>6, <2>1, <3>4
  <2>5. B < c
    <3>1. w \in w .. pulsesXLen - 1 /\ b \in w .. pulsesXLen - 1
      BY <1>4, <2>3
    <3>2. \A j \in w .. b - 1 : ~Jumps(j, w)
      BY <1>3, <1>4, <1>10
    <3>3. Cycle * 0 <= Since(w, w) /\ Since(w, w) < Cycle * 0 + Cycle
      BY <1>5, <1>6, <2>1
    <3>4. Since(w, b) < Cycle * 0 + Cycle
      BY <3>1, <3>2, <3>3, StaysAfter
    <3> QED BY <1>6, <2>1, <3>4
  <2>6. Increment(w) = h
    <3>1. st < w /\ w < ed /\ w \in Int /\ st < b + 1 /\ b + 1 < ed /\ b + 1 \in Int
      BY <1>2, <1>4, <1>10, <2>3
    <3> QED BY <1>1, <1>5, <3>1, IslandIncrement
  <2>7. D <= 2 * c + h
    BY <1>7, <2>4, <2>5
  <2> QED BY <1>5, <1>10, <2>6, <2>7
<1> QED BY <1>4, <1>8, <1>9, <1>10

-----------------------------------------------------------------------------
(* The invariant *)

SumBy(f, j) == Increment(j) + IF j = 0 THEN 0 ELSE f[j - 1]

LEMMA PhaseIsSum ==
    ASSUME pulsesXLen \in Nat \ {0}, Phase
    PROVE  Phases'
<1>. DEFINE V == Int
            n == pulsesXLen - 1
            F == [v \in V \X Nat |-> v[1] + Increment(v[2])]
            a == Increment(0)
<1>1. \A j : Increment(j) \in Nat
  BY IncrementIs
<1>2. a \in V /\ F \in [V \X Nat -> V] /\ n \in Nat
  BY <1>1
<1>3. \A v \in V, k \in Nat : F[<<v, k>>] = v + Increment(k)
  OBVIOUS
<1>. HIDE DEF F, a
<1>4. PICK f \in [0 .. n -> V] : f[0] = a /\ \A k \in 1 .. n : f[k] = F[<<f[k - 1], k>>]
  <2>1. \E f : Recursive(f, n, V, a, F)
    BY <1>2, Recursion
  <2> QED BY <2>1 DEF Recursive
<1>5. ASSUME NEW k \in 0 .. n PROVE f[k] = SumBy(f, k)
  <2>1. CASE k = 0
    <3>1. Increment(0) + 0 = Increment(0)
      BY <1>1
    <3> QED BY <1>4, <2>1, <3>1 DEF SumBy, a
  <2>2. CASE k # 0
    <3>1. k - 1 \in 0 .. n /\ f[k - 1] \in V /\ k \in Nat /\ k \in 1 .. n
      BY <1>2, <2>2
    <3>2. f[k] = f[k - 1] + Increment(k)
      BY <1>3, <1>4, <3>1
    <3> QED BY <1>1, <2>2, <3>1, <3>2 DEF SumBy
  <2> QED BY <2>1, <2>2
<1>6. f = [k \in 0 .. n |-> SumBy(f, k)]
  <2>1. f = [k \in 0 .. n |-> f[k]]
    OBVIOUS
  <2> QED BY <1>5, <2>1
<1>7. PICK g : g = [k \in 0 .. n |-> SumBy(g, k)] /\ totalPhase' = [j \in 0 .. n |-> g[j]]
  <2>1. totalPhase' = [j \in 0 .. n |-> (CHOOSE g : g = [k \in 0 .. n |-> SumBy(g, k)])[j]]
    BY DEF Phase, SumBy
  <2> QED BY <1>6, <2>1
<1>8. totalPhase' = g
  BY <1>7
<1>9. \A k \in 0 .. n : g[k] = SumBy(g, k)
  BY <1>7
<1>. DEFINE T == {k \in Nat : k <= n => g[k] \in Int}
<1>10. 0 \in T
  <2>1. Increment(0) + 0 \in Int /\ 0 \in 0 .. n
    BY <1>1, <1>2
  <2> QED BY <1>9, <2>1 DEF SumBy
<1>11. ASSUME NEW k \in Nat, k \in T PROVE k + 1 \in T
  <2>1. SUFFICES ASSUME k + 1 <= n PROVE g[k + 1] \in Int
    OBVIOUS
  <2>2. k + 1 \in 0 .. n /\ k + 1 # 0 /\ (k + 1) - 1 = k /\ g[k] \in Int
    BY <1>2, <1>11, <2>1
  <2>3. g[k + 1] = Increment(k + 1) + g[k]
    BY <1>9, <2>2 DEF SumBy
  <2> QED BY <1>1, <2>2, <2>3
<1>. HIDE DEF T
<1>12. \A k \in Nat : k \in T
  BY <1>10, <1>11, Induction
<1>13. \A k \in 0 .. n : g[k] \in Int
  BY <1>12 DEF T
<1>14. ASSUME NEW k \in 1 .. n PROVE g[k] = g[k - 1] + Increment(k)
  <2>1. k \in 0 .. n /\ k # 0 /\ k - 1 \in 0 .. n
    BY <1>2
  <2>2. g[k] = Increment(k) + g[k - 1]
    BY <1>9, <2>1 DEF SumBy
  <2> QED BY <1>1, <1>13, <2>1, <2>2
<1>15. totalPhase' \in [0 .. n -> Int]
  BY <1>7, <1>13
<1>16. \A k \in 1 .. n : totalPhase'[k] = totalPhase'[k - 1] + Increment(k)
  <2>1. SUFFICES ASSUME NEW k \in 1 .. n
                 PROVE  totalPhase'[k] = totalPhase'[k - 1] + Increment(k)
    OBVIOUS
  <2>2. k \in 0 .. n /\ k - 1 \in 0 .. n
    BY <1>2
  <2>3. totalPhase'[k] = g[k] /\ totalPhase'[k - 1] = g[k - 1]
    BY <1>7, <2>2
  <2> QED BY <1>14, <2>3
<1>17. pulsesXLen' = pulsesXLen /\ \A k : Increment(k)' = Increment(k)
  BY DEF Phase, Increment, Period, FrameOf
<1> QED BY <1>15, <1>16, <1>17 DEF Phases

\* The pulses of the first m islands are in the list, in order, and before what follows.
Located(m) ==
    /\ locations \in Seq(Nat) /\ InOrder
    /\ \A p \in DOMAIN locations : \E n \in 1 .. m : locations[p] < edIndex(islands[n])
    /\ \A n \in 1 .. m : \A j \in PulsesOf(islands[n], wedgeList[n]) :
          \E p \in DOMAIN locations : locations[p] = j

\* A frame that a stretch of two periods is near to.
NearBy(k, n, j) ==
    LET last == j + 2 * Period(islands[n][1]) - 1
        room == FrameDen * (pulsesXLen - 1 - Period(k))
    IN FrameDen * last < room /\ 2 * FrameTime(k) - FrameDen * j < room
Near(k) == \E n \in DOMAIN islands : \E j \in Stretches(n) : NearBy(k, n, j)
Own(m) == \A k \in PulsesFrames \ {0} : k <= m /\ Near(k) => residual[k] = k

PulsesInv ==
    /\ InRuns /\ wedgeList \in Seq(0 .. pulsesXLen - 1)
    /\ pulsesPc \in {"wedges", "phase", "pulses", "frames", "done"}
    /\ pulsesPc = "wedges" => pulsesI \in DOMAIN islands /\ Len(wedgeList) = pulsesI - 1
    /\ pulsesPc # "wedges" => Len(wedgeList) = Len(islands)
    /\ pulsesPc \in {"wedges", "phase"} => locations = <<>>
    /\ pulsesPc \in {"pulses", "frames", "done"} => Phases
    /\ pulsesPc \in {"phase", "pulses"} => pulsesI \in DOMAIN islands
    /\ pulsesPc = "phase" => pulsesI = 1
    /\ pulsesPc = "pulses" => Located(pulsesI - 1)
    /\ pulsesPc \in {"frames", "done"} => Located(Len(islands))
    /\ DOMAIN residual = PulsesFrames
    /\ pulsesPc = "frames" => pulsesI \in 1 .. pulsesTLen /\ Own(pulsesI - 1)
    /\ pulsesPc = "done" => Own(pulsesTLen)

LEMMA PulsesStart == PulsesInit => PulsesInv
<1>. SUFFICES ASSUME PulsesInit PROVE PulsesInv
  OBVIOUS
<1>1. pulsesXLen \in Nat \ {0}
  BY SignalAssumption DEF PulsesInit
<1>2. PICK n \in Nat : pulsesTLen = n + 1
  <2>1. PICK d \in Nat \ {0} : d = FrameDen
    BY PeriodAssumption
  <2>2. pulsesXLen * d \in Nat
    BY <1>1
  <2> QED BY <2>1, <2>2, PeriodAssumption, DividedBy DEF pulsesTLen
<1>3. n = pulsesTLen - 1 /\ PulsesFrames = 0 .. n /\ pulsesTLen \in Nat \ {0}
  BY <1>2 DEF PulsesFrames
<1>4. islands \in Seq(PulsesFrames \X PulsesFrames) /\ Runs(islands, pulsesVoiced, n)
  BY <1>2, <1>3, IslandsAreRuns DEF PulsesInit
<1>5. InRuns /\ 1 \in DOMAIN islands
  BY <1>1, <1>3, <1>4 DEF InRuns, Runs
<1> QED BY <1>5 DEF PulsesInit, PulsesInv

LEMMA WedgeStep == PulsesInv /\ GetWedge => PulsesInv'
<1>. SUFFICES ASSUME PulsesInv, GetWedge PROVE PulsesInv'
  OBVIOUS
<1>1. InRuns' /\ DOMAIN residual' = PulsesFrames' /\ locations' = <<>>
  BY DEF PulsesInv, GetWedge, InRuns, pulsesTLen, PulsesFrames
<1>2. PICK s \in Nat, e \in Nat : islands[pulsesI] = <<s, e>> /\ pulsesI \in DOMAIN islands
  BY IslandIs DEF PulsesInv, GetWedge
<1>3. PICK peak \in Peaks : wedgeList' = Append(wedgeList, Wedge(islands[pulsesI], peak))
  BY DEF GetWedge
<1>4. Wedge(islands[pulsesI], peak) \in 0 .. pulsesXLen - 1
  <2>1. PICK center \in Nat : center = (s + e + 1) \div 2
    BY <1>2
  <2>2. islands[pulsesI][1] = s /\ islands[pulsesI][2] = e
    BY <1>2
  <2>3. FrameTime(center + 1) \in Nat
    BY <2>1, PeriodAssumption DEF FrameTime
  <2>4. PICK r \in Int : r = Round(FrameTime(center + 1)) - Period(center) + peak
    BY <2>3, RoundIs, PeriodIs, PeakAssumption
  <2>5. Wedge(islands[pulsesI], peak) = Larger(0, Smaller(pulsesXLen - 1, r))
    BY <2>1, <2>2, <2>4 DEF Wedge
  <2> QED BY <2>4, <2>5 DEF Larger, Smaller, PulsesInv, InRuns
<1>5. wedgeList' \in Seq(0 .. pulsesXLen' - 1) /\ Len(wedgeList') = pulsesI
  BY <1>3, <1>4 DEF PulsesInv, GetWedge
<1>6. islands \in Seq(PulsesFrames \X PulsesFrames) /\ islands' = islands
  BY DEF PulsesInv, InRuns, GetWedge
<1>7. CASE pulsesI < Len(islands)
  <2>1. pulsesPc' = "wedges" /\ pulsesI' = pulsesI + 1
    BY <1>7 DEF GetWedge
  <2> QED BY <1>1, <1>2, <1>5, <1>6, <1>7, <2>1 DEF PulsesInv
<1>8. CASE ~(pulsesI < Len(islands))
  <2>1. pulsesPc' = "phase" /\ pulsesI' = 1 /\ pulsesI = Len(islands) /\ 1 \in DOMAIN islands
    BY <1>2, <1>6, <1>8 DEF GetWedge
  <2> QED BY <1>1, <1>2, <1>5, <1>6, <2>1 DEF PulsesInv
<1> QED BY <1>7, <1>8

LEMMA PhaseStep == PulsesInv /\ Phase => PulsesInv'
<1>. SUFFICES ASSUME PulsesInv, Phase PROVE PulsesInv'
  OBVIOUS
<1>1. InRuns' /\ DOMAIN residual' = PulsesFrames' /\ locations' = <<>>
  BY DEF PulsesInv, Phase, InRuns, pulsesTLen, PulsesFrames
<1>2. Phases'
  BY PhaseIsSum DEF PulsesInv, InRuns
<1>3. Located(0)'
  <2>1. \A m \in 1 .. 0 : FALSE
    OBVIOUS
  <2>2. locations' \in Seq(Nat) /\ \A p \in DOMAIN locations' : FALSE
    BY <1>1
  <2> QED BY <2>1, <2>2 DEF Located, InOrder
<1>4. pulsesI' - 1 = 0 /\ pulsesI' = 1 /\ pulsesPc' = "pulses"
  BY DEF PulsesInv, Phase
<1>5. Located(pulsesI - 1)'
  BY <1>3, <1>4 DEF Located, InOrder
<1>6. /\ wedgeList' \in Seq(0 .. pulsesXLen' - 1) /\ Len(wedgeList') = Len(islands')
      /\ pulsesI' \in DOMAIN islands'
  BY DEF PulsesInv, Phase
<1> QED BY <1>1, <1>2, <1>4, <1>5, <1>6 DEF PulsesInv

LEMMA Joined ==
    ASSUME NEW r \in Seq(Nat), NEW c \in Nat, NEW s \in [1 .. c -> Nat]
    PROVE  /\ r \o s \in Seq(Nat) /\ DOMAIN (r \o s) = 1 .. Len(r) + c
           /\ (\A p \in 1 .. Len(r) : (r \o s)[p] = r[p])
           /\ (\A p \in 1 .. c : (r \o s)[Len(r) + p] = s[p])
<1>0. PICK u : u = r \o s
  OBVIOUS
<1>1. s \in Seq(Nat) /\ Len(s) = c
  OBVIOUS
<1>2. PICK m \in Nat : m = Len(r) /\ u \in Seq(Nat) /\ Len(u) = m + c
  <2>1. Len(r) \in Nat
    OBVIOUS
  <2>2. Len(r \o s) = Len(r) + Len(s) /\ r \o s \in Seq(Nat)
    BY <1>1, ConcatProperties
  <2> QED BY <1>0, <1>1, <2>1, <2>2
<1>3. DOMAIN u = 1 .. Len(r) + c
  BY <1>2
<1>4. \A p \in 1 .. Len(u) : u[p] = IF p <= Len(r) THEN r[p] ELSE s[p - Len(r)]
  BY <1>0, <1>1, <1>2, ConcatProperties
<1>5. ASSUME NEW p \in 1 .. Len(r) PROVE u[p] = r[p]
  <2>1. Len(r) \in Nat /\ p \in 1 .. Len(u) /\ p <= Len(r)
    BY <1>1, <1>2
  <2> QED BY <1>4, <2>1
<1>6. ASSUME NEW p \in 1 .. c PROVE u[Len(r) + p] = s[p]
  <2>1. PICK l \in Nat : l = Len(r)
    OBVIOUS
  <2>2. l + p \in 1 .. Len(u) /\ ~(l + p <= l) /\ (l + p) - l = p
    BY <1>1, <1>2, <2>1
  <2>3. u[l + p] = s[(l + p) - l]
    BY <1>4, <2>1, <2>2
  <2> QED BY <2>1, <2>2, <2>3
<1> QED BY <1>0, <1>2, <1>3, <1>5, <1>6

LEMMA PulsesGathered ==
    ASSUME PulsesInv, GetPulses, NEW m \in Nat, m = pulsesI
    PROVE  Located(m)'
<1>1. m \in DOMAIN islands /\ m - 1 \in Nat
  BY DEF PulsesInv, InRuns, GetPulses
<1>2. PICK st \in Nat, ed \in Int : st = stIndex(islands[m]) /\ ed = edIndex(islands[m])
                                  /\ ed <= pulsesXLen - 1
  BY <1>1, LimitsAre DEF PulsesInv
<1>. DEFINE made == PulsesOf(islands[m], wedgeList[m])
<1>3. PICK stray \in Stray(islands[m]) : locations' = locations \o InSequence(made \cup stray)
  BY <1>1 DEF GetPulses
<1>4. PICK S : S = made \cup stray
  OBVIOUS
<1>5. \A j \in S : j \in Nat /\ st <= j /\ j < ed /\ j <= pulsesXLen - 1
  <2>1. \A j \in made : j \in Nat /\ st <= j /\ j < ed /\ j <= pulsesXLen - 1
    <3>1. SUFFICES ASSUME NEW j \in made PROVE j \in Nat /\ st <= j /\ j < ed /\ j <= pulsesXLen - 1
      OBVIOUS
    <3>2. j \in 1 .. pulsesXLen - 2 /\ st <= j /\ j <= ed - 2
      BY <1>1, <1>2, PulseIs DEF PulsesInv
    <3> QED BY <1>2, <3>2 DEF PulsesInv, InRuns
  <2>2. \A j \in stray : j \in Nat /\ st <= j /\ j < ed /\ j <= pulsesXLen - 1
    <3>1. \A j \in stray : j = ed - 1 /\ j > 0 /\ j >= st
      <4>1. stray \in IF ed - 1 > 0 /\ ed - 1 >= st THEN {{}, {ed - 1}} ELSE {{}}
        BY <1>2, <1>3 DEF Stray
      <4>2. CASE ed - 1 > 0 /\ ed - 1 >= st
        <5>1. stray = {} \/ stray = {ed - 1}
          BY Zenon, <4>1, <4>2
        <5> QED BY <4>2, <5>1
      <4>3. CASE ~(ed - 1 > 0 /\ ed - 1 >= st)
        <5>1. stray = {}
          BY Zenon, <4>1, <4>3
        <5> QED BY <5>1
      <4> QED BY <4>2, <4>3
    <3>2. ASSUME NEW j \in stray PROVE j \in Nat /\ st <= j /\ j < ed /\ j <= pulsesXLen - 1
      <4>1. j = ed - 1 /\ j > 0 /\ j >= st
        BY Zenon, <3>1
      <4>2. pulsesXLen \in Nat
        BY DEF PulsesInv, InRuns
      <4> QED BY <1>2, <4>1, <4>2
    <3> QED BY Zenon, <3>2
  <2> QED BY Zenon, <1>4, <2>1, <2>2
<1>6. PICK n \in Nat : n = pulsesXLen - 1 /\ S \in SUBSET (0 .. n)
  <2>1. pulsesXLen - 1 \in Nat
    BY DEF PulsesInv, InRuns
  <2> QED BY <1>5, <2>1
<1>7. PICK c \in Nat : c = Cardinality(S)
  BY <1>6, SequenceIs
<1>8. PICK s \in [1 .. c -> S] : s = InSequence(S)
  BY <1>6, <1>7, SequenceIs
<1>9. s \in [1 .. c -> Nat] /\ \A p \in 1 .. c : s[p] \in S
  BY <1>5
<1>10. /\ Located(m - 1) /\ locations \in Seq(Nat)
       /\ (\A p \in DOMAIN locations : \E k \in 1 .. m - 1 : locations[p] < edIndex(islands[k]))
       /\ (\A k \in 1 .. m - 1 : \A j \in PulsesOf(islands[k], wedgeList[k]) :
              \E p \in DOMAIN locations : locations[p] = j)
  BY <1>1 DEF PulsesInv, GetPulses, Located
<1>11. PICK r \in Seq(Nat) : r = locations /\ DOMAIN r = 1 .. Len(r)
  BY <1>10
<1>12. PICK u \in Seq(Nat) : /\ u = locations' /\ DOMAIN u = 1 .. Len(r) + c
                            /\ (\A p \in 1 .. Len(r) : u[p] = r[p])
                            /\ (\A p \in 1 .. c : u[Len(r) + p] = s[p])
  <2>1. locations' = r \o s
    BY <1>3, <1>4, <1>8, <1>11
  <2>2. PICK u : u = r \o s
    OBVIOUS
  <2>3. /\ u \in Seq(Nat) /\ DOMAIN u = 1 .. Len(r) + c
        /\ (\A p \in 1 .. Len(r) : u[p] = r[p])
        /\ (\A p \in 1 .. c : u[Len(r) + p] = s[p])
    <3>1. r \in Seq(Nat) /\ c \in Nat /\ s \in [1 .. c -> Nat]
      BY <1>7, <1>9, <1>11
    <3> QED BY <2>2, <3>1, Joined
  <2>4. u = locations'
    BY <2>1, <2>2
  <2>5. u \in Seq(Nat)
    BY <2>3
  <2> QED BY Zenon, <2>3, <2>4, <2>5
<1>13. ASSUME NEW p \in DOMAIN u
       PROVE  \/ p \in 1 .. Len(r)
              \/ \E q \in 1 .. c : p = Len(r) + q
  <2>1. p \in 1 .. Len(r) + c /\ Len(r) \in Nat
    BY <1>12
  <2>2. CASE p <= Len(r)
    BY <2>1, <2>2
  <2>3. CASE p > Len(r)
    <3>1. p - Len(r) \in 1 .. c /\ p = Len(r) + (p - Len(r))
      BY <2>1, <2>3
    <3> QED BY <3>1
  <2> QED BY <2>1, <2>2, <2>3
<1>14. \A p \in 1 .. Len(r) : r[p] \in Nat /\ r[p] < st
  <2>1. SUFFICES ASSUME NEW p \in 1 .. Len(r) PROVE r[p] \in Nat /\ r[p] < st
    OBVIOUS
  <2>2. PICK k \in 1 .. m - 1 : r[p] < edIndex(islands[k])
    BY <1>10, <1>11
  <2>3. k \in DOMAIN islands /\ k < m
    BY <1>1 DEF PulsesInv, InRuns
  <2>4. PICK a \in Nat, b \in Nat : islands[k] = <<a, b>>
    BY <2>3, IslandIs DEF PulsesInv
  <2>5. PICK d \in Nat, e \in Nat : islands[m] = <<d, e>>
    BY <1>1, IslandIs DEF PulsesInv
  <2>6. b < d
    <3>1. islands[k][2] < islands[m][1]
      BY <1>1, <2>3 DEF PulsesInv, InRuns, Runs
    <3> QED BY <2>4, <2>5, <3>1
  <2>7. edIndex(islands[k]) <= stIndex(islands[m])
    BY <2>4, <2>5, <2>6, IslandsApart DEF PulsesInv, InRuns
  <2>8. edIndex(islands[k]) \in Int
    BY <2>3, LimitsAre DEF PulsesInv
  <2>9. r[p] \in Nat
    OBVIOUS
  <2> QED BY <1>2, <2>2, <2>7, <2>8, <2>9
<1>15. \A p, q \in DOMAIN u : p < q => u[p] < u[q]
  <2>1. SUFFICES ASSUME NEW p \in DOMAIN u, NEW q \in DOMAIN u, p < q PROVE u[p] < u[q]
    OBVIOUS
  <2>2. p \in Nat /\ q \in Nat /\ Len(r) \in Nat
    BY <1>12
  <2>3. CASE p \in 1 .. Len(r) /\ q \in 1 .. Len(r)
    <3>1. r[p] < r[q]
      BY <1>10, <1>11, <2>1, <2>3 DEF Located, InOrder
    <3>2. u[p] = r[p] /\ u[q] = r[q]
      BY Zenon, <1>12, <2>3
    <3> QED BY Zenon, <3>1, <3>2
  <2>4. CASE p \in 1 .. Len(r) /\ \E k \in 1 .. c : q = Len(r) + k
    <3>1. PICK k \in 1 .. c : q = Len(r) + k
      BY <2>4
    <3>2. u[p] = r[p] /\ u[q] = s[k] /\ st <= s[k] /\ s[k] \in Nat
      BY <1>5, <1>9, <1>12, <2>4, <3>1
    <3>3. PICK x \in Nat, y \in Nat : x = u[p] /\ y = u[q] /\ x < st /\ st <= y
      BY Zenon, <1>14, <2>4, <3>2
    <3>4. x < y
      BY <1>2, <3>3
    <3> QED BY Zenon, <3>3, <3>4
  <2>5. CASE (\E k \in 1 .. c : p = Len(r) + k) /\ \E k \in 1 .. c : q = Len(r) + k
    <3>1. PICK j \in 1 .. c, k \in 1 .. c : p = Len(r) + j /\ q = Len(r) + k
      BY <2>5
    <3>2. j < k
      BY <2>1, <2>2, <3>1
    <3>3. s[j] < s[k]
      BY <1>6, <1>7, <1>8, <3>2, SequenceSorted
    <3>4. u[p] = s[j] /\ u[q] = s[k]
      BY Zenon, <1>12, <3>1
    <3> QED BY Zenon, <3>3, <3>4
  <2>6. CASE (\E k \in 1 .. c : p = Len(r) + k) /\ q \in 1 .. Len(r)
    BY <2>1, <2>2, <2>6
  <2> QED BY <1>13, <2>3, <2>4, <2>5, <2>6
<1>16. \A p \in DOMAIN u : \E k \in 1 .. m : u[p] < edIndex(islands[k])
  <2>1. SUFFICES ASSUME NEW p \in DOMAIN u PROVE \E k \in 1 .. m : u[p] < edIndex(islands[k])
    OBVIOUS
  <2>2. CASE p \in 1 .. Len(r)
    <3>1. PICK k \in 1 .. m - 1 : r[p] < edIndex(islands[k])
      BY <1>10, <1>11, <2>2
    <3>2. k \in 1 .. m
      BY <1>1
    <3> QED BY <1>12, <2>2, <3>1, <3>2
  <2>3. CASE \E q \in 1 .. c : p = Len(r) + q
    <3>1. PICK q \in 1 .. c : p = Len(r) + q
      BY <2>3
    <3>2. u[p] = s[q] /\ s[q] < ed
      BY <1>5, <1>9, <1>12, <3>1
    <3>3. m \in 1 .. m
      BY <1>1 DEF PulsesInv, InRuns
    <3> QED BY <1>2, <3>2, <3>3
  <2> QED BY <1>13, <2>2, <2>3
<1>17. \A k \in 1 .. m : \A j \in PulsesOf(islands[k], wedgeList[k]) :
          \E p \in DOMAIN u : u[p] = j
  <2>1. SUFFICES ASSUME NEW k \in 1 .. m, NEW j \in PulsesOf(islands[k], wedgeList[k])
                 PROVE  \E p \in DOMAIN u : u[p] = j
    OBVIOUS
  <2>2. CASE k = m
    <3>1. j \in S
      BY <1>4, <2>2
    <3>2. PICK p \in 1 .. c : s[p] = j
      BY <1>6, <1>7, <1>8, <3>1, SequenceHas
    <3>3. Len(r) + p \in DOMAIN u /\ u[Len(r) + p] = j
      BY <1>12, <3>2
    <3> QED BY <3>3
  <2>3. CASE k # m
    <3>1. k \in 1 .. m - 1
      BY <1>1, <2>3
    <3>2. PICK p \in DOMAIN r : r[p] = j
      BY <1>10, <1>11, <3>1
    <3>3. p \in 1 .. Len(r) /\ p \in DOMAIN u
      BY <1>12
    <3> QED BY <1>12, <3>2, <3>3
  <2> QED BY <2>2, <2>3
<1>18. /\ \A k : edIndex(islands[k])' = edIndex(islands[k])
       /\ \A k : PulsesOf(islands[k], wedgeList[k])' = PulsesOf(islands[k], wedgeList[k])
       /\ pulsesI \in DOMAIN islands
  <2>1. \A k : edIndex(islands[k])' = edIndex(islands[k])
    BY DEF GetPulses, edIndex
  <2>2. \A k : stIndex(islands[k])' = stIndex(islands[k])
    BY DEF GetPulses, stIndex
  <2>3. \A j, w : Jumps(j, w)' = Jumps(j, w)
    BY DEF GetPulses, Jumps
  <2> QED BY <1>1, <2>1, <2>2, <2>3 DEF GetPulses, PulsesOf
<1>19. InOrder'
  BY <1>12, <1>15 DEF InOrder
<1>20. (\A p \in DOMAIN locations' : \E k \in 1 .. m : locations'[p] < edIndex(islands[k])')
  BY <1>12, <1>16, <1>18
<1>21. (\A k \in 1 .. m : \A j \in PulsesOf(islands[k], wedgeList[k])' :
          \E p \in DOMAIN locations' : locations'[p] = j)
  <2>1. SUFFICES ASSUME NEW k \in 1 .. m, NEW j \in PulsesOf(islands[k], wedgeList[k])'
                 PROVE  \E p \in DOMAIN locations' : locations'[p] = j
    OBVIOUS
  <2>2. j \in PulsesOf(islands[k], wedgeList[k])
    BY <1>18, <2>1
  <2>3. \E p \in DOMAIN u : u[p] = j
    BY <1>17, <2>2
  <2> QED BY <1>12, <2>3
<1>22. locations' \in Seq(Nat)
  BY <1>12
<1>23. Located(m)'
  BY <1>19, <1>20, <1>21, <1>22 DEF Located
<1> QED BY <1>23

LEMMA GetPulsesStep == PulsesInv /\ GetPulses => PulsesInv'
<1>. SUFFICES ASSUME PulsesInv, GetPulses PROVE PulsesInv'
  OBVIOUS
<1>1. PICK m \in Nat : m = pulsesI /\ m \in DOMAIN islands /\ m >= 1 /\ m <= Len(islands)
  BY DEF PulsesInv, InRuns, GetPulses
<1>2. Located(m)'
  BY <1>1, PulsesGathered
<1>3. InRuns' /\ islands' = islands /\ wedgeList' = wedgeList /\ pulsesXLen' = pulsesXLen
      /\ PulsesFrames' = PulsesFrames /\ pulsesTLen' = pulsesTLen
  BY DEF PulsesInv, GetPulses, InRuns, pulsesTLen, PulsesFrames
<1>4. DOMAIN residual' = PulsesFrames
  BY DEF PulsesInv, GetPulses
<1>5. Phases'
  <2>1. \A k : Increment(k)' = Increment(k)
    BY DEF GetPulses, Increment, Period, FrameOf
  <2> QED BY <2>1 DEF PulsesInv, GetPulses, Phases
<1>6. wedgeList \in Seq(0 .. pulsesXLen - 1) /\ Len(wedgeList) = Len(islands) /\ pulsesPc = "pulses"
      /\ pulsesTLen \in Nat \ {0}
  BY DEF PulsesInv, GetPulses, InRuns
<1>7. CASE m < Len(islands)
  <2>1. pulsesPc' = "pulses" /\ pulsesI' = m + 1 /\ (m + 1) - 1 = m /\ m + 1 \in DOMAIN islands
    BY <1>1, <1>6, <1>7 DEF GetPulses, PulsesInv, InRuns
  <2>2. Located(pulsesI - 1)'
    BY <1>2, <2>1 DEF Located, InOrder
  <2> QED BY <1>3, <1>4, <1>5, <1>6, <2>1, <2>2 DEF PulsesInv
<1>8. CASE ~(m < Len(islands))
  <2>1. pulsesPc' = "frames" /\ pulsesI' = 1 /\ m = Len(islands) /\ 1 - 1 = 0
    BY <1>1, <1>8 DEF GetPulses
  <2>2. Located(Len(islands))'
    BY <1>2, <1>3, <2>1 DEF Located, InOrder
  <2>3. Own(0)'
    <3>1. \A k \in PulsesFrames \ {0} : ~(k <= 0)
      BY <1>6 DEF PulsesFrames
    <3> QED BY <1>3, <3>1 DEF Own
  <2>4. Own(pulsesI - 1)'
    BY <2>1, <2>3 DEF Own
  <2> QED BY <1>3, <1>4, <1>5, <1>6, <2>1, <2>2, <2>4 DEF PulsesInv
<1> QED BY <1>7, <1>8

\* The distance of a pulse x to a frame y.
Apart(x, y) == LET d == x - y IN IF d < 0 THEN -d ELSE d

LEMMA ApartIs ==
    ASSUME NEW x \in Nat, NEW y \in Nat
    PROVE  /\ Apart(x, y) \in Nat /\ (x >= y => Apart(x, y) = x - y)
           /\ (x < y => Apart(x, y) = y - x)
<1>1. CASE x >= y
  <2>1. x - y \in Nat /\ ~(x - y < 0)
    BY <1>1
  <2> QED BY <1>1, <2>1 DEF Apart
<1>2. CASE x < y
  <2>1. x - y < 0 /\ -(x - y) = y - x /\ y - x \in Nat
    BY <1>2
  <2> QED BY <1>2, <2>1 DEF Apart
<1> QED BY <1>1, <1>2

\* What is nearer to y than a v between j and l is before l or before the image of j.
LEMMA NearerIsBefore ==
    ASSUME NEW x \in Nat, NEW y \in Nat, NEW v \in Nat, NEW j \in Nat, NEW l \in Nat,
           NEW room \in Int, j <= v, v <= l, l < room, 2 * y - j < room,
           Apart(x, y) <= Apart(v, y)
    PROVE  x < room
<1>1. CASE v >= y /\ x >= y
  <2>1. x - y <= v - y
    BY <1>1, ApartIs
  <2> QED BY <2>1
<1>2. CASE v >= y /\ x < y
  BY <1>2
<1>3. CASE v < y /\ x >= y
  <2>1. x - y <= y - v
    BY <1>3, ApartIs
  <2>2. x <= 2 * y - v
    BY <2>1
  <2> QED BY <2>2
<1>4. CASE v < y /\ x < y
  <2>1. x <= 2 * y - v
    BY <1>4
  <2> QED BY <2>1
<1> QED BY <1>1, <1>2, <1>3, <1>4

LEMMA NearestIs ==
    ASSUME locations \in Seq(Nat), locations # <<>>, NEW k \in Nat
    PROVE  \E p \in DOMAIN locations :
              /\ NearestPulse(k) = locations[p] + 1
              /\ \A r \in DOMAIN locations : Distance(p, k) <= Distance(r, k)
<1>1. PICK l \in Nat \ {0} : DOMAIN locations = 1 .. l
  <2>1. Len(locations) \in Nat \ {0} /\ DOMAIN locations = 1 .. Len(locations)
    OBVIOUS
  <2> QED BY <2>1
<1>2. ASSUME NEW r \in 1 .. l PROVE Distance(r, k) \in Nat
  <2>1. locations[r] \in Nat /\ FrameDen \in Nat /\ FrameNum \in Nat
    BY <1>1, PeriodAssumption
  <2>2. PICK x \in Nat : x = locations[r] * FrameDen
    BY <2>1
  <2>3. PICK y \in Nat : y = FrameTime(k)
    BY <2>1 DEF FrameTime
  <2>4. Distance(r, k) = Apart(x, y)
    BY <2>2, <2>3 DEF Distance, Apart
  <2> QED BY <2>4, ApartIs
<1>3. PICK T : T = {Distance(r, k) : r \in 1 .. l}
  OBVIOUS
<1>4. T \in SUBSET Nat
  BY <1>2, <1>3
<1>5. Distance(1, k) \in T
  <2>1. 1 \in 1 .. l
    BY <1>1
  <2> QED BY <1>3, <2>1
<1>6. PICK m \in T : \A d \in T : m <= d
  BY <1>4, <1>5, LeastMember
<1>7. \A r \in 1 .. l : m <= Distance(r, k)
  BY <1>3, <1>6
<1>8. PICK U : U = {r \in 1 .. l : Distance(r, k) = m}
  OBVIOUS
<1>9. U \in SUBSET Nat /\ U # {}
  BY <1>3, <1>6, <1>8
<1>10. PICK q \in U : \A r \in U : q <= r
  BY <1>9, LeastMember
<1>11. q \in 1 .. l /\ Distance(q, k) = m
  BY <1>8, <1>10
<1>12. ASSUME NEW r \in 1 .. q - 1 PROVE Distance(r, k) > Distance(q, k)
  <2>1. r \in 1 .. l /\ ~(q <= r)
    BY <1>1, <1>11
  <2>2. r \notin U
    BY <1>10, <2>1
  <2>3. Distance(r, k) # m /\ m <= Distance(r, k) /\ Distance(r, k) \in Nat /\ m \in Nat
    BY <1>2, <1>4, <1>7, <1>8, <2>1, <2>2
  <2> QED BY <1>11, <2>3
<1>13. PICK p \in DOMAIN locations :
          /\ NearestPulse(k) = locations[p] + 1
          /\ (\A r \in DOMAIN locations : Distance(p, k) <= Distance(r, k))
  <2>1. \E p \in DOMAIN locations :
           /\ \A r \in DOMAIN locations : Distance(p, k) <= Distance(r, k)
           /\ \A r \in 1 .. p - 1 : Distance(r, k) > Distance(p, k)
    BY <1>1, <1>7, <1>11, <1>12
  <2> QED BY <2>1 DEF NearestPulse
<1> QED BY <1>13

LEMMA ScaledOrder ==
    ASSUME NEW d \in Nat, NEW a \in Nat, NEW b \in Nat, a <= b
    PROVE  d * a <= d * b /\ a * d <= b * d /\ d * a = a * d /\ d * b = b * d
<1>1. PICK c \in Nat : b = a + c
  <2>1. b - a \in Nat /\ b = a + (b - a)
    OBVIOUS
  <2> QED BY <2>1
<1>2. d * b = d * a + d * c /\ d * c \in Nat /\ d * a \in Nat
  BY <1>1
<1>3. d * a = a * d /\ d * b = b * d
  OBVIOUS
<1> QED BY <1>2, <1>3

LEMMA ScaledBefore ==
    ASSUME NEW d \in Nat \ {0}, NEW a \in Nat, NEW b \in Int, a * d < d * b
    PROVE  a < b
<1>1. SUFFICES ASSUME b <= a PROVE FALSE
  OBVIOUS
<1>2. PICK c \in Nat : a = b + c
  <2>1. a - b \in Nat /\ a = b + (a - b)
    BY <1>1
  <2> QED BY <2>1
<1>3. a * d = d * b + d * c /\ d * c \in Nat /\ d * b \in Int
  BY <1>2
<1> QED BY <1>3

\* A frame that a stretch is near to has a pulse, and its window fits.
LEMMA WindowFits ==
    ASSUME InRuns, Phases, Located(Len(islands)), wedgeList \in Seq(0 .. pulsesXLen - 1),
           Len(wedgeList) = Len(islands), NEW k \in PulsesFrames, Near(k),
           NEW index \in Indices(k)
    PROVE  FitsWindow(index, k)
<1>0. PICK n \in DOMAIN islands : \E j \in Stretches(n) : NearBy(k, n, j)
  BY DEF Near
<1>1. PICK j \in Stretches(n) : NearBy(k, n, j)
  BY <1>0
<1>2. n \in 1 .. Len(islands) /\ wedgeList[n] \in 0 .. pulsesXLen - 1
  BY DEF InRuns
<1>3. PICK v \in PulsesOf(islands[n], wedgeList[n]) :
         j <= v /\ v <= j + 2 * Period(islands[n][1]) - 1
  BY <1>2, PulseInStretch
<1>4. j \in Nat /\ Period(islands[n][1]) \in Nat
  BY <1>2, PulseInStretch
<1>5. PICK last \in Nat : last = j + 2 * Period(islands[n][1]) - 1 /\ v <= last /\ v \in Nat
  <2>1. v \in Nat
    BY <1>2, PulseIs
  <2> QED BY <1>3, <1>4, <2>1
<1>6. PICK q \in DOMAIN locations : locations[q] = v
  BY <1>2 DEF Located
<1>7. locations \in Seq(Nat) /\ locations # <<>> /\ k \in Nat
  BY <1>6 DEF Located, PulsesFrames, InRuns
<1>8. index = NearestPulse(k)
  BY <1>7 DEF Indices
<1>9. PICK p \in DOMAIN locations :
         /\ index = locations[p] + 1
         /\ (\A r \in DOMAIN locations : Distance(p, k) <= Distance(r, k))
  BY <1>7, <1>8, NearestIs
<1>10. PICK loc \in Nat : loc = locations[p]
  BY <1>7
<1>11. PICK D \in Nat \ {0} : D = FrameDen
  BY PeriodAssumption
<1>12. PICK y \in Nat : y = FrameTime(k)
  BY <1>7, PeriodAssumption DEF FrameTime
<1>13. Distance(p, k) = Apart(loc * D, y) /\ Distance(q, k) = Apart(v * D, y)
  BY <1>6, <1>10, <1>11, <1>12 DEF Distance, Apart
<1>14. Apart(loc * D, y) <= Apart(v * D, y)
  BY <1>6, <1>9, <1>13
<1>15. PICK w \in Int : w = pulsesXLen - 1 - Period(k)
  BY PeriodIs DEF InRuns
<1>16. D * last < D * w /\ 2 * y - D * j < D * w
  BY <1>1, <1>5, <1>11, <1>12, <1>15 DEF NearBy
<1>17. PICK lD \in Nat, vD \in Nat, jD \in Nat, xD \in Nat, wD \in Int :
          lD = D * last /\ vD = v * D /\ jD = D * j /\ xD = loc * D /\ wD = D * w
  BY <1>4, <1>5
<1>18. jD <= vD /\ vD <= lD
  BY <1>3, <1>4, <1>5, <1>17, ScaledOrder
<1>19. xD < wD
  BY <1>14, <1>16, <1>17, <1>18, NearerIsBefore
<1>20. loc < w
  BY <1>17, <1>19, ScaledBefore
<1>21. PICK t \in Nat : t = Period(k)
  BY PeriodIs
<1>22. 2 * t + (loc + 1) - t < pulsesXLen
  BY <1>15, <1>20, <1>21 DEF InRuns
<1> QED BY <1>9, <1>10, <1>21, <1>22 DEF FitsWindow

\* What the frames leave alone.
LEMMA FramesKeep ==
    ASSUME PulsesInv, pulsesPc \in {"frames", "done"},
           UNCHANGED <<pulsesXLen, pulsesVoiced, islands, wedgeList, totalPhase, locations>>
    PROVE  /\ InRuns' /\ Phases' /\ Located(Len(islands))'
           /\ wedgeList' \in Seq(0 .. pulsesXLen' - 1) /\ Len(wedgeList') = Len(islands')
           /\ PulsesFrames' = PulsesFrames /\ pulsesTLen' = pulsesTLen
           /\ \A k : Near(k)' <=> Near(k)
<1>1. InRuns' /\ PulsesFrames' = PulsesFrames /\ pulsesTLen' = pulsesTLen
  BY DEF PulsesInv, InRuns, PulsesFrames, pulsesTLen
<1>2. \A k : Period(k)' = Period(k)
  BY DEF Period
<1>3. \A k : Increment(k)' = Increment(k)
  BY <1>2 DEF Increment, FrameOf
<1>4. Phases'
  BY <1>3 DEF PulsesInv, Phases
<1>5. \A k : stIndex(k)' = stIndex(k)
  BY DEF stIndex
<1>6. \A k : edIndex(k)' = edIndex(k)
  BY DEF edIndex
<1>7. \A j, w : Jumps(j, w)' = Jumps(j, w)
  BY DEF Jumps
<1>8. \A k, w : PulsesOf(k, w)' = PulsesOf(k, w)
  BY <1>5, <1>6, <1>7 DEF PulsesOf
<1>9. Located(Len(islands)) /\ Len(wedgeList) = Len(islands)
  BY DEF PulsesInv
<1>10. Located(Len(islands))'
  BY <1>6, <1>8, <1>9 DEF Located, InOrder
<1>11. \A n : Stretches(n)' = Stretches(n)
  BY <1>2, <1>5, <1>6 DEF Stretches
<1>12. \A k, n, j : NearBy(k, n, j)' <=> NearBy(k, n, j)
  BY <1>2 DEF NearBy
<1>13. \A k : Near(k)' <=> Near(k)
  BY <1>11, <1>12 DEF Near
<1> QED BY <1>1, <1>4, <1>9, <1>10, <1>13 DEF PulsesInv

LEMMA ResidualStep == PulsesInv /\ Residual => PulsesInv'
<1>. SUFFICES ASSUME PulsesInv, Residual PROVE PulsesInv'
  OBVIOUS
<1>1. PICK h \in Nat : h = pulsesI /\ h >= 1 /\ h < pulsesTLen /\ h \in PulsesFrames
  BY DEF PulsesInv, InRuns, PulsesFrames, Residual
<1>2. Own(h - 1)
  BY <1>1 DEF PulsesInv, Residual
<1>3. /\ InRuns' /\ Phases' /\ Located(Len(islands))'
      /\ wedgeList' \in Seq(0 .. pulsesXLen' - 1) /\ Len(wedgeList') = Len(islands')
      /\ PulsesFrames' = PulsesFrames /\ pulsesTLen' = pulsesTLen
      /\ \A k : Near(k)' <=> Near(k)
  BY FramesKeep DEF Residual
<1>4. PICK index \in Indices(h) : scratch' = IF FitsWindow(index, h) THEN h ELSE scratch
  BY <1>1 DEF Residual
<1>5. Near(h) => scratch' = h
  <2>1. SUFFICES ASSUME Near(h) PROVE scratch' = h
    OBVIOUS
  <2>2. FitsWindow(index, h)
    BY <1>1, <2>1, WindowFits DEF PulsesInv, Residual
  <2> QED BY <1>4, <2>2
<1>6. residual' = [residual EXCEPT ![h] = scratch'] /\ DOMAIN residual = PulsesFrames
  BY <1>1 DEF PulsesInv, Residual
<1>7. Own(h)'
  <2>1. SUFFICES ASSUME NEW k \in PulsesFrames \ {0}, k <= h, Near(k) PROVE residual'[k] = k
    BY <1>3 DEF Own
  <2>2. CASE k = h
    BY <1>1, <1>5, <1>6, <2>1, <2>2
  <2>3. CASE k # h
    <3>1. k \in Nat /\ k <= h - 1
      BY <1>1, <2>1, <2>3 DEF PulsesFrames, PulsesInv, InRuns
    <3>2. residual[k] = k
      BY <1>2, <2>1, <3>1 DEF Own
    <3> QED BY <1>6, <2>1, <2>3, <3>2
  <2> QED BY <2>2, <2>3
<1>8. /\ pulsesI' = h + 1 /\ (h + 1) - 1 = h /\ h + 1 \in 1 .. pulsesTLen
      /\ pulsesPc' = "frames" /\ pulsesTLen \in Nat
  BY <1>1 DEF PulsesInv, InRuns, Residual
<1>9. Own(pulsesI - 1)'
  BY <1>7, <1>8 DEF Own
<1>10. DOMAIN residual' = PulsesFrames'
  BY <1>3, <1>6
<1> QED BY <1>3, <1>8, <1>9, <1>10 DEF PulsesInv

LEMMA ReturnStep == PulsesInv /\ PulsesReturn => PulsesInv'
<1>. SUFFICES ASSUME PulsesInv, PulsesReturn PROVE PulsesInv'
  OBVIOUS
<1>1. PICK h \in Nat : h = pulsesI /\ h = pulsesTLen /\ Own(h - 1)
  BY DEF PulsesInv, InRuns, PulsesReturn
<1>2. /\ InRuns' /\ Phases' /\ Located(Len(islands))'
      /\ wedgeList' \in Seq(0 .. pulsesXLen' - 1) /\ Len(wedgeList') = Len(islands')
      /\ PulsesFrames' = PulsesFrames /\ pulsesTLen' = pulsesTLen
      /\ \A k : Near(k)' <=> Near(k)
  BY FramesKeep DEF PulsesReturn
<1>3. Own(h)
  <2>1. \A k \in PulsesFrames : k <= h - 1
    BY <1>1 DEF PulsesFrames
  <2> QED BY <1>1, <2>1 DEF Own
<1>4. residual' = residual
  BY DEF PulsesReturn
<1>5. Own(h)'
  BY <1>2, <1>3, <1>4 DEF Own
<1>6. Own(pulsesTLen)'
  BY <1>1, <1>2, <1>5 DEF Own
<1>7. pulsesPc' = "done" /\ DOMAIN residual' = PulsesFrames'
  BY <1>2, <1>4 DEF PulsesInv, PulsesReturn
<1> QED BY <1>2, <1>6, <1>7 DEF PulsesInv

LEMMA PulsesStutter == PulsesInv /\ UNCHANGED pulsesVars => PulsesInv'
<1>. SUFFICES ASSUME PulsesInv, UNCHANGED pulsesVars PROVE PulsesInv'
  OBVIOUS
<1>1. InRuns' /\ PulsesFrames' = PulsesFrames /\ pulsesTLen' = pulsesTLen
  BY DEF PulsesInv, pulsesVars, InRuns, PulsesFrames, pulsesTLen
<1>2. \A k : Period(k)' = Period(k)
  BY DEF Period, pulsesVars
<1>3. \A k : Increment(k)' = Increment(k)
  BY <1>2 DEF Increment, FrameOf, pulsesVars
<1>4. Phases' <=> Phases
  BY <1>3 DEF Phases, pulsesVars
<1>5. \A k : edIndex(k)' = edIndex(k)
  BY DEF edIndex, pulsesVars
<1>6. \A k : stIndex(k)' = stIndex(k)
  BY DEF stIndex, pulsesVars
<1>7. \A j, w : Jumps(j, w)' = Jumps(j, w)
  BY DEF Jumps, pulsesVars
<1>8. \A k, w : PulsesOf(k, w)' = PulsesOf(k, w)
  BY <1>5, <1>6, <1>7 DEF PulsesOf
<1>9. \A m : Located(m)' <=> Located(m)
  BY <1>5, <1>8 DEF Located, InOrder, pulsesVars
<1>10. Located(pulsesI - 1)' <=> Located(pulsesI - 1)
  BY <1>5, <1>8 DEF Located, InOrder, pulsesVars
<1>11. Located(Len(islands))' <=> Located(Len(islands))
  BY <1>5, <1>8 DEF Located, InOrder, pulsesVars
<1>12. \A n : Stretches(n)' = Stretches(n)
  BY <1>2, <1>5, <1>6 DEF Stretches, pulsesVars
<1>13. \A k, n, j : NearBy(k, n, j)' <=> NearBy(k, n, j)
  BY <1>2 DEF NearBy, pulsesVars
<1>14. \A k : Near(k)' <=> Near(k)
  BY <1>12, <1>13 DEF Near, pulsesVars
<1>15. Own(pulsesI - 1)' <=> Own(pulsesI - 1)
  BY <1>1, <1>14 DEF Own, pulsesVars
<1>16. Own(pulsesTLen)' <=> Own(pulsesTLen)
  BY <1>1, <1>14 DEF Own, pulsesVars
<1> QED BY <1>1, <1>4, <1>10, <1>11, <1>15, <1>16 DEF PulsesInv, pulsesVars

LEMMA PulsesInvSound == PulsesInv => PulsesSound
<1>. SUFFICES ASSUME PulsesInv PROVE PulsesSound
  OBVIOUS
<1>1. InOrder
  <2>1. CASE locations = <<>>
    BY <2>1 DEF InOrder
  <2>2. CASE locations # <<>>
    BY <2>2 DEF PulsesInv, Located
  <2> QED BY <2>1, <2>2
<1>2. CycleApart
  <2>1. SUFFICES ASSUME pulsesPc = "frames", NEW n \in DOMAIN islands,
                        NEW a \in PulsesOf(islands[n], wedgeList[n]),
                        NEW b \in PulsesOf(islands[n], wedgeList[n]), a < b,
                        \A c \in PulsesOf(islands[n], wedgeList[n]) : c <= a \/ c >= b
                 PROVE  IF a < wedgeList[n] /\ wedgeList[n] <= b + 1
                        THEN totalPhase[b + 1] - totalPhase[a + 1]
                                <= 2 * Cycle + Increment(wedgeList[n])
                        ELSE /\ totalPhase[b + 1] - totalPhase[a + 1] < Cycle + Cycle \div 4
                             /\ totalPhase[b + 1] - totalPhase[a + 1] > Cycle - Cycle \div 4
    BY DEF CycleApart
  <2>2. PICK w \in 0 .. pulsesXLen - 1 : w = wedgeList[n]
    <3>1. /\ islands \in Seq(PulsesFrames \X PulsesFrames) /\ Len(wedgeList) = Len(islands)
          /\ wedgeList \in Seq(0 .. pulsesXLen - 1)
      BY <2>1 DEF PulsesInv, InRuns
    <3>2. n \in 1 .. Len(islands)
      BY <2>1, <3>1
    <3>3. wedgeList[n] \in 0 .. pulsesXLen - 1
      BY <3>1, <3>2, ElementOfSeq
    <3> QED BY <3>3
  <2>3. Consecutive(a, b, PulsesOf(islands[n], w)) /\ InRuns /\ Phases
    BY <2>1, <2>2 DEF Consecutive, PulsesInv
  <2>4. PICK D : D = totalPhase[b + 1] - totalPhase[a + 1]
    OBVIOUS
  <2>5. IF a < w /\ w <= b + 1 THEN D <= 2 * Cycle + Increment(w)
        ELSE D < Cycle + Cycle \div 4 /\ D > Cycle - Cycle \div 4
    BY <2>3, <2>4, ApartInIsland
  <2> QED BY <2>2, <2>4, <2>5
<1>3. OwnResidual
  <2>1. SUFFICES ASSUME pulsesPc = "done", NEW k \in PulsesFrames \ {0},
                        NEW n \in DOMAIN islands, NEW j \in Stretches(n), NearBy(k, n, j)
                 PROVE  residual[k] = k
    BY DEF OwnResidual, NearBy
  <2>2. Near(k) /\ k <= pulsesTLen
    BY <2>1 DEF Near, PulsesFrames, PulsesInv, InRuns
  <2> QED BY <2>1, <2>2 DEF PulsesInv, Own
<1> QED BY <1>1, <1>2, <1>3 DEF PulsesSound

\* The pulses of platinum() are in order over all islands, a cycle apart within one, and
\* a frame near a stretch of two periods is given a residual of its own.
THEOREM PulsesAreSound == PulsesSpec => []PulsesSound
<1>1. PulsesInv /\ [PulsesNext]_pulsesVars => PulsesInv'
  BY WedgeStep, PhaseStep, GetPulsesStep, ResidualStep, ReturnStep, PulsesStutter
     DEF PulsesNext, PulsesFinished
<1> QED BY PulsesStart, <1>1, PulsesInvSound, PTL DEF PulsesSpec

-----------------------------------------------------------------------------
(* The types of the three analyses *)

StarTyped ==
    /\ StarInv
    /\ fs \in Rates /\ xLen \in Lengths /\ time \in Times /\ fftl \in Powers
    /\ f0 \in Pitches \cup {DEFAULT_F0}
    /\ starPc \in {"segment", "spectrum", "smooth", "done"}

\* The types hold at first, and after every step.
LEMMA StarTypedInit == StarInit => StarTyped
<1>. SUFFICES ASSUME StarInit PROVE StarTyped
  OBVIOUS
<1>1. PICK pitch \in Pitches \cup {0} : f0 = IF pitch <= FLOOR_F0 THEN DEFAULT_F0 ELSE pitch
  BY DEF StarInit
<1>2. f0 \in Pitches \cup {DEFAULT_F0}
  BY <1>1, StarAssumption
<1> QED BY <1>2, StarInitInv DEF StarInit, StarTyped

LEMMA StarTypedStep == StarTyped /\ [StarNext]_starVars => StarTyped'
<1>. SUFFICES ASSUME StarTyped, [StarNext]_starVars PROVE StarTyped'
  OBVIOUS
<1>1. UNCHANGED <<fs, xLen, time, f0, fftl>>
  BY DEF StarNext, Segment, Spectrum, Smooth, StarFinished, starVars
<1>2. starPc' \in {"segment", "spectrum", "smooth", "done"}
  BY DEF StarTyped, StarNext, Segment, Spectrum, Smooth, StarFinished, starVars
<1> QED BY <1>1, <1>2, StarStepInv DEF StarTyped

\* Whatever time is rounded, the index is that of a sample, and whatever is mirrored
\* is a bin.
LEMMA StarTypesHold == StarTyped => StarTypeOK
<1>. SUFFICES ASSUME StarTyped PROVE StarTypeOK
  OBVIOUS
<1>1. StarTypes /\ StarInv /\ xLen \in Nat \ {0}
  BY StarAssumption DEF StarTyped, StarInv
<1>2. PICK D \in Nat \ {0} : D = Den
  BY StarAssumption
<1>3. nFragment \in Int
  <2>1. (f0 + 3 * fs) \in Nat /\ 2 * f0 \in Nat \ {0}
    BY <1>1 DEF StarTypes
  <2> QED BY <2>1 DEF nFragment
<1>4. ASSUME NEW b \in Int PROVE Index(b) \in 0 .. xLen - 1
  <2>1. PICK z \in Int : z = time + Den * (1 + b)
    BY <1>1, <1>2 DEF StarTypes
  <2>2. m_round(z) \in Int
    <3>1. 2 * z + D \in Int /\ D - 2 * z \in Int /\ 2 * D \in Nat \ {0}
      OBVIOUS
    <3>2. (2 * z + D) \div (2 * D) \in Int /\ (D - 2 * z) \div (2 * D) \in Int
      BY <3>1
    <3> QED BY <1>2, <3>2 DEF m_round
  <2> QED BY <1>1, <2>1, <2>2 DEF Index, Least, Greatest
<1>5. ASSUME starPc # "segment" PROVE segment \in [0 .. 2 * nFragment -> 0 .. xLen - 1]
  <2>1. segment = [j \in 0 .. 2 * nFragment |-> Index(j - nFragment)]
    BY <1>1, <1>5 DEF StarInv, Cut
  <2>2. \A j \in 0 .. 2 * nFragment : Index(j - nFragment) \in 0 .. xLen - 1
    BY <1>3, <1>4
  <2> QED BY <2>1, <2>2
<1>6. PICK L \in Nat \ {0}, h \in Nat : L = limit /\ h = Half /\ L < h
  BY <1>1, LimitBelowHalf
<1>7. ASSUME starPc \notin {"segment", "spectrum"}
      PROVE  dSpectrum \in [0 .. Half + 2 * limit -> 0 .. Half]
  <2>1. dSpectrum = [k \in 0 .. Half + 2 * limit |-> Mirror(k)]
    BY <1>7 DEF StarTyped, StarInv, Mirrored
  <2>2. \A k \in 0 .. Half + 2 * limit : Mirror(k) \in 0 .. Half
    BY <1>6 DEF Mirror
  <2> QED BY <2>1, <2>2
<1> QED BY <1>1, <1>5, <1>7 DEF StarTyped, StarTypeOK, StarTypes

-----------------------------------------------------------------------------
PulsesTyped ==
    /\ PulsesInv
    /\ pulsesXLen \in PulsesLengths
    /\ Len(islands) <= pulsesTLen
    /\ \A p \in DOMAIN locations : locations[p] # 0
    /\ pulsesPc \in {"wedges", "phase", "pulses"} => scratch = Garbage
    /\ pulsesPc \in {"frames", "done"} =>
          pulsesI \in 1 .. pulsesTLen /\ scratch \in {Garbage} \cup 0 .. pulsesI - 1
    /\ \A k \in PulsesFrames : residual[k] \in {Garbage} \cup 0 .. k

\* A track has no more islands than frames.
LEMMA IslandsNoMore ==
    ASSUME NEW n \in Nat, NEW track
    PROVE  Len(IslandsOf(track, n + 1)) <= n + 1
<1>. DEFINE S == {0} \cup {k \in 1 .. (n + 1) - 1 : track[k] # track[k - 1]}
            list == IslandsOf(track, n + 1)
            c == Cardinality(S)
<1>1. S \in SUBSET (0 .. n)
  OBVIOUS
<1>2. DOMAIN list = 1 .. c
  BY DEF IslandsOf
<1>3. list \in Seq((0 .. n) \X (0 .. n))
  BY IslandsAreRuns
<1>. HIDE DEF S, list
<1>4. c \in 0 .. n + 1
  BY <1>1, RankAll
<1>5. Len(list) = c
  BY <1>2, <1>3, <1>4
<1>6. Len(list) <= n + 1
  BY <1>4, <1>5
<1> QED BY <1>6 DEF list

LEMMA PulsesTypedInit == PulsesInit => PulsesTyped
<1>. SUFFICES ASSUME PulsesInit PROVE PulsesTyped
  OBVIOUS
<1>1. PulsesInv
  BY PulsesStart
<1>2. PICK n \in Nat : pulsesTLen = n + 1
  <2>1. pulsesTLen \in Nat \ {0}
    BY <1>1 DEF PulsesInv, InRuns
  <2>2. pulsesTLen - 1 \in Nat /\ pulsesTLen = (pulsesTLen - 1) + 1
    BY <2>1
  <2> QED BY <2>2
<1>3. Len(islands) <= pulsesTLen
  BY <1>2, IslandsNoMore DEF PulsesInit
<1> QED BY <1>1, <1>3 DEF PulsesInit, PulsesTyped

\* No pulse is at the first sample.
LEMMA PulsesPastFirst ==
    ASSUME PulsesTyped, GetPulses
    PROVE  \A p \in DOMAIN locations' : locations'[p] # 0
<1>. USE DEF PulsesTyped
<1>1. PICK m \in Nat : m = pulsesI /\ m \in DOMAIN islands
  BY DEF PulsesInv, InRuns, GetPulses
<1>2. PICK st \in Nat, ed \in Int : st = stIndex(islands[m]) /\ ed = edIndex(islands[m])
                                  /\ ed <= pulsesXLen - 1
  BY <1>1, LimitsAre DEF PulsesInv
<1>3. PICK stray \in Stray(islands[m]) :
          locations' = locations \o InSequence(PulsesOf(islands[m], wedgeList[m]) \cup stray)
  BY <1>1 DEF GetPulses
<1>4. PICK S : S = PulsesOf(islands[m], wedgeList[m]) \cup stray
  OBVIOUS
<1>5. PICK n \in Nat : n = pulsesXLen - 1
  BY DEF PulsesInv, InRuns
<1>6. \A j \in S : j \in 1 .. n
  <2>1. \A j \in PulsesOf(islands[m], wedgeList[m]) : j \in 1 .. n
    <3>1. SUFFICES ASSUME NEW j \in PulsesOf(islands[m], wedgeList[m]) PROVE j \in 1 .. n
      OBVIOUS
    <3>2. j \in 1 .. pulsesXLen - 2
      BY <1>1, PulseIs DEF PulsesInv
    <3> QED BY <1>5, <3>2 DEF PulsesInv, InRuns
  <2>2. \A j \in stray : j \in 1 .. n
    BY <1>2, <1>3, <1>5 DEF Stray
  <2> QED BY <1>4, <2>1, <2>2
<1>7. S \in SUBSET (0 .. n)
  BY <1>6
<1>8. PICK c \in Nat : c = Cardinality(S)
  BY <1>7, SequenceIs
<1>9. PICK s \in [1 .. c -> S] : s = InSequence(S)
  BY <1>7, <1>8, SequenceIs
<1>10. s \in [1 .. c -> Nat] /\ \A p \in 1 .. c : s[p] # 0
  BY <1>6
<1>11. PICK r \in Seq(Nat) : r = locations /\ DOMAIN r = 1 .. Len(r) /\ Len(r) \in Nat
  BY DEF PulsesInv, GetPulses, Located
<1>12. PICK u : u = r \o s
  OBVIOUS
<1>13. /\ DOMAIN u = 1 .. Len(r) + c
       /\ (\A p \in 1 .. Len(r) : u[p] = r[p])
       /\ (\A p \in 1 .. c : u[Len(r) + p] = s[p])
  BY <1>10, <1>12, Joined
<1>14. ASSUME NEW p \in DOMAIN u PROVE u[p] # 0
  <2>1. p \in 1 .. Len(r) + c
    BY <1>13
  <2>2. CASE p <= Len(r)
    <3>1. p \in 1 .. Len(r)
      BY <1>11, <2>1, <2>2
    <3>2. r[p] # 0
      BY <1>11, <3>1
    <3> QED BY <1>13, <3>1, <3>2
  <2>3. CASE p > Len(r)
    <3>1. PICK q \in 1 .. c : p = Len(r) + q
      <4>1. p - Len(r) \in 1 .. c /\ p = Len(r) + (p - Len(r))
        BY <1>11, <2>1, <2>3
      <4> QED BY <4>1
    <3> QED BY <1>10, <1>13, <3>1
  <2> QED BY <1>11, <2>1, <2>2, <2>3
<1>15. locations' = u
  BY <1>3, <1>4, <1>9, <1>11, <1>12
<1> QED BY <1>14, <1>15

LEMMA PulsesTypedStep == PulsesTyped /\ [PulsesNext]_pulsesVars => PulsesTyped'
<1>. SUFFICES ASSUME PulsesTyped, [PulsesNext]_pulsesVars PROVE PulsesTyped'
  OBVIOUS
<1>0. PulsesInv /\ PulsesInv' /\ pulsesTLen \in Nat \ {0} /\ islands \in Seq(PulsesFrames \X PulsesFrames)
  BY WedgeStep, PhaseStep, GetPulsesStep, ResidualStep, ReturnStep, PulsesStutter
     DEF PulsesNext, PulsesFinished, PulsesTyped, PulsesInv, InRuns
<1>1. /\ UNCHANGED <<pulsesXLen, islands>> /\ pulsesTLen' = pulsesTLen
      /\ PulsesFrames' = PulsesFrames
  BY DEF PulsesNext, GetWedge, Phase, GetPulses, Residual, PulsesReturn, PulsesFinished,
         pulsesVars, pulsesTLen, PulsesFrames
<1>2. pulsesXLen' \in PulsesLengths /\ Len(islands') <= pulsesTLen'
  BY <1>1 DEF PulsesTyped
<1>3. CASE GetWedge \/ Phase
  <2>1. /\ pulsesPc' \in {"wedges", "phase", "pulses"}
        /\ UNCHANGED <<locations, scratch, residual>>
        /\ pulsesPc \in {"wedges", "phase", "pulses"}
    BY <1>3 DEF GetWedge, Phase
  <2> QED BY <1>0, <1>1, <1>2, <2>1 DEF PulsesTyped
<1>4. CASE GetPulses
  <2>1. \A p \in DOMAIN locations' : locations'[p] # 0
    BY <1>4, PulsesPastFirst
  <2>2. scratch' = Garbage
    BY <1>4 DEF GetPulses, PulsesTyped
  <2>3. pulsesPc' = "pulses" \/ (pulsesPc' = "frames" /\ pulsesI' = 1)
    BY <1>4 DEF GetPulses
  <2>4. \A k \in PulsesFrames' : residual'[k] \in {Garbage} \cup 0 .. k
    <3>1. \A k \in PulsesFrames : residual'[k] = residual[k] \/ (k = 0 /\ residual'[k] = 0)
      BY <1>0, <1>4 DEF GetPulses, PulsesInv, Zeros
    <3> QED BY <1>1, <3>1 DEF PulsesTyped
  <2> QED BY <1>0, <1>1, <1>2, <2>1, <2>2, <2>3, <2>4 DEF PulsesTyped
<1>5. CASE Residual
  <2>1. PICK h \in Nat : h = pulsesI /\ h >= 1 /\ h < pulsesTLen /\ h \in PulsesFrames
    BY <1>0, <1>5 DEF PulsesInv, PulsesFrames, Residual
  <2>2. scratch \in {Garbage} \cup 0 .. h - 1
    BY <1>5, <2>1 DEF Residual, PulsesTyped
  <2>3. scratch' = h \/ scratch' = scratch
    BY <1>5, <2>1 DEF Residual
  <2>4. scratch' \in {Garbage} \cup 0 .. h
    BY <2>2, <2>3
  <2>5. pulsesI' = h + 1 /\ (h + 1) - 1 = h /\ h + 1 \in 1 .. pulsesTLen
    BY <1>0, <1>5, <2>1 DEF Residual
  <2>6. \A k \in PulsesFrames : residual'[k] = IF k = h THEN scratch' ELSE residual[k]
    BY <1>0, <1>5, <2>1 DEF Residual, PulsesInv
  <2>7. \A k \in PulsesFrames' : residual'[k] \in {Garbage} \cup 0 .. k
    BY <1>1, <2>4, <2>6 DEF PulsesTyped
  <2>8. pulsesPc' = "frames" /\ locations' = locations
    BY <1>5 DEF Residual
  <2> QED BY <1>0, <1>1, <1>2, <2>4, <2>5, <2>7, <2>8 DEF PulsesTyped
<1>6. CASE PulsesReturn
  <2>1. pulsesPc' = "done" /\ pulsesPc = "frames" /\ UNCHANGED <<pulsesI, locations, scratch, residual>>
    BY <1>6 DEF PulsesReturn
  <2> QED BY <1>0, <1>1, <1>2, <2>1 DEF PulsesTyped
<1>7. CASE UNCHANGED pulsesVars
  <2>1. UNCHANGED <<pulsesPc, pulsesI, locations, scratch, residual>>
    BY <1>7 DEF pulsesVars
  <2> QED BY <1>0, <1>1, <1>2, <2>1 DEF PulsesTyped
<1> QED BY <1>3, <1>4, <1>5, <1>6, <1>7 DEF PulsesNext, PulsesFinished

LEMMA PulsesTypes == PulsesTyped => PulsesTypeOK
<1>. SUFFICES ASSUME PulsesTyped PROVE PulsesTypeOK
  OBVIOUS
<1>0. PulsesInv /\ pulsesXLen \in Nat \ {0} /\ pulsesTLen \in Nat \ {0}
  BY DEF PulsesTyped, PulsesInv, InRuns
<1>1. \A k \in DOMAIN wedgeList : wedgeList[k] \in 0 .. pulsesXLen - 1
  <2>1. wedgeList \in Seq(0 .. pulsesXLen - 1)
    BY <1>0 DEF PulsesInv
  <2>2. DOMAIN wedgeList = 1 .. Len(wedgeList)
    BY <2>1
  <2> QED BY <2>1, <2>2, ElementOfSeq
<1>2. pulsesI \in 1 .. pulsesTLen
  <2>1. CASE pulsesPc \in {"wedges", "phase", "pulses"}
    <3>1. pulsesI \in DOMAIN islands /\ islands \in Seq(PulsesFrames \X PulsesFrames)
      BY <1>0, <2>1 DEF PulsesInv, InRuns
    <3>2. pulsesI \in 1 .. Len(islands) /\ Len(islands) <= pulsesTLen /\ Len(islands) \in Nat
      BY <3>1 DEF PulsesTyped
    <3> QED BY <1>0, <3>2
  <2>2. CASE pulsesPc \in {"frames", "done"}
    BY <2>2 DEF PulsesTyped
  <2> QED BY <1>0, <2>1, <2>2 DEF PulsesInv
<1>3. ASSUME NEW k \in DOMAIN locations PROVE locations[k] \in 1 .. pulsesXLen - 1
  <2>1. locations # <<>>
    OBVIOUS
  <2>2. PICK m : Located(m) /\ m \in Nat /\ m <= Len(islands)
    <3>1. CASE pulsesPc = "pulses"
      <4>1. pulsesI \in DOMAIN islands /\ islands \in Seq(PulsesFrames \X PulsesFrames)
        BY <1>0, <3>1 DEF PulsesInv, InRuns
      <4>2. pulsesI - 1 \in Nat /\ pulsesI - 1 <= Len(islands)
        BY <4>1
      <4> QED BY <1>0, <3>1, <4>2 DEF PulsesInv
    <3>2. CASE pulsesPc \in {"frames", "done"}
      <4>1. Len(islands) \in Nat
        BY <1>0 DEF PulsesInv, InRuns
      <4> QED BY <1>0, <3>2, <4>1 DEF PulsesInv
    <3> QED BY <1>0, <2>1, <3>1, <3>2 DEF PulsesInv
  <2>3. PICK n \in 1 .. m : locations[k] < edIndex(islands[n])
    BY <2>2 DEF Located
  <2>4. n \in DOMAIN islands
    <3>1. islands \in Seq(PulsesFrames \X PulsesFrames)
      BY <1>0 DEF PulsesInv, InRuns
    <3> QED BY <2>2, <3>1
  <2>5. edIndex(islands[n]) \in Int /\ edIndex(islands[n]) <= pulsesXLen - 1
    BY <1>0, <2>4, LimitsAre DEF PulsesInv
  <2>6. locations[k] \in Nat /\ locations[k] # 0
    BY <2>2 DEF Located, PulsesTyped
  <2> QED BY <1>0, <2>3, <2>5, <2>6
<1>4. scratch \in {Garbage} \cup PulsesFrames
  <2>1. CASE pulsesPc \in {"wedges", "phase", "pulses"}
    BY <2>1 DEF PulsesTyped
  <2>2. CASE pulsesPc \in {"frames", "done"}
    BY <1>0, <2>2 DEF PulsesTyped, PulsesFrames
  <2> QED BY <1>0, <2>1, <2>2 DEF PulsesInv
<1> QED BY <1>0, <1>1, <1>2, <1>3, <1>4 DEF PulsesTyped, PulsesTypeOK, PulsesInv

-----------------------------------------------------------------------------
(* The analyses together, as MCAnalysis runs them *)

AnalysisParts ==
    /\ analysis \in {"star", "islands", "pulses"}
    /\ analysis = "star" => StarTyped
    /\ analysis = "islands" => IInv
    /\ analysis = "pulses" => PulsesTyped

LEMMA AnalysisStart == AnalysisInit => AnalysisParts
BY StarTypedInit, InitIInv, PulsesTypedInit DEF AnalysisInit, AnalysisParts

LEMMA AnalysisStep == AnalysisParts /\ [AnalysisNext]_analysisVars => AnalysisParts'
<1>. SUFFICES ASSUME AnalysisParts, [AnalysisNext]_analysisVars PROVE AnalysisParts'
  OBVIOUS
<1>1. analysis' = analysis
  BY DEF AnalysisNext, analysisVars
<1>2. analysis = "star" => [StarNext]_starVars
  BY DEF AnalysisNext, analysisVars
<1>3. analysis = "islands" => [IslandsNext]_islandsVars
  BY DEF AnalysisNext, analysisVars
<1>4. analysis = "pulses" => [PulsesNext]_pulsesVars
  BY DEF AnalysisNext, analysisVars
<1> QED BY <1>1, <1>2, <1>3, <1>4, StarTypedStep, NextIInv, PulsesTypedStep DEF AnalysisParts

\* Whichever analysis runs, what it takes is there: the segment of a frame of star()
\* is of samples and its spectrum of bins, the lists of islands are what the bounds
\* of their arrays rest on, and the wedges and pulses of platinum() are samples, and
\* the residual of a frame that of no later one.
THEOREM AnalysisIsTyped == AnalysisSpec => []AnalysisInv
<1>1. AnalysisSpec => []AnalysisParts
  BY AnalysisStart, AnalysisStep, PTL DEF AnalysisSpec
<1>2. AnalysisParts => AnalysisInv
  BY StarTypesHold, PulsesTypes DEF AnalysisParts, AnalysisInv
<1> QED BY <1>1, <1>2, PTL
=============================================================================
