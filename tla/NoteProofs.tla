----------------------------- MODULE NoteProofs -----------------------------
(***************************************************************************)
(* What main() makes of the arguments of a note, for all of them: the      *)
(* pitch of every output frame, its place in the source, and the curve     *)
(* that decpit() decodes.                                                  *)
(***************************************************************************)
EXTENDS MCNote, CommonLemmas, SequenceTheorems

-----------------------------------------------------------------------------
(* The pitch of a frame *)

BendTypes ==
    /\ name \in Names /\ bendOutSamples \in Nat /\ given \in BOOLEAN
    /\ f0 \in [0 .. bendTLen -> Nat] /\ freq_avg \in Nat /\ modulation \in {-1, 0, 1}
    /\ bendI \in Nat /\ pStep \in Nat

\* The curve reaches to the end of the output, or there is none.
CurveInv ==
    /\ bendPc \in {"name", "curve"} => bendI = 0 /\ pStep \in DefaultSteps
    /\ bendPc \in {"frames", "done"} =>
          /\ pStep > 0
          /\ given => pLen = bendOutSamples \div pStep + 1
          /\ ~given => pLen = bendOLen /\ pit = [k \in 0 .. bendOLen |-> 0]
    /\ bendPc \in {"name", "curve", "frames", "done", "died"}
    /\ bendPc = "died" => bendI = 0

BendInv ==
    /\ BendTypes /\ CurveInv
    /\ NameInScale /\ IndexInRange /\ PastCurveIsFlat /\ PitchDefined /\ RowsExist

LEMMA BendInvInit == BendInit => BendInv
<1>. SUFFICES ASSUME BendInit PROVE BendInv
  OBVIOUS
<1>1. f0 \in [0 .. bendTLen -> Nat]
  BY PitchAssumption DEF BendInit
<1>2. freq_avg \in Nat
  <2>1. CASE \A k \in 0 .. bendTLen - 1 : f0[k] = 0
    BY <2>1 DEF BendInit
  <2>2. CASE ~\A k \in 0 .. bendTLen - 1 : f0[k] = 0
    <3>1. \E p \in Pitches : p # 0
      BY <2>2 DEF BendInit, bendTLen
    <3>2. freq_avg = CHOOSE p \in Pitches : p # 0
      BY <2>2 DEF BendInit
    <3> QED BY <3>1, <3>2, PitchAssumption
  <2> QED BY <2>1, <2>2
<1>3. BendTypes
  BY <1>1, <1>2, StepAssumption DEF BendInit, BendTypes
<1>4. CurveInv
  BY DEF BendInit, CurveInv
<1> QED BY <1>3, <1>4 DEF BendInit, BendInv, NameInScale, IndexInRange, PastCurveIsFlat,
                          PitchDefined, RowsExist

\* The places of the letters in the scale.
LEMMA LettersInScale ==
    ASSUME NEW c, c \notin Flats, NEW s \in 1 .. 12, Scale[s] = c
    PROVE  Code(c) <= 71 /\ Semitone(c) = s - 1
<1>1. \/ s = 1 \/ s = 2 \/ s = 3 \/ s = 4 \/ s = 5 \/ s = 6
      \/ s = 7 \/ s = 8 \/ s = 9 \/ s = 10 \/ s = 11 \/ s = 12
  OBVIOUS
<1>2. /\ Scale[1] = "C" /\ Scale[2] = "Db" /\ Scale[3] = "D" /\ Scale[4] = "Eb"
      /\ Scale[5] = "E" /\ Scale[6] = "F" /\ Scale[7] = "Gb" /\ Scale[8] = "G"
      /\ Scale[9] = "Ab" /\ Scale[10] = "A" /\ Scale[11] = "Bb" /\ Scale[12] = "B"
  BY DEF Scale
<1>3. /\ Code("A") = 65 /\ Code("B") = 66 /\ Code("C") = 67 /\ Code("D") = 68
      /\ Code("E") = 69 /\ Code("F") = 70 /\ Code("G") = 71
  BY DEF Code
<1> QED BY <1>1, <1>2, <1>3 DEF Semitone, Flats

LEMMA LettersAfterG ==
    ASSUME NEW c, \A s \in 1 .. 12 : Scale[s] # c
    PROVE  Code(c) = 72
<1>1. /\ Scale[1] = "C" /\ Scale[3] = "D" /\ Scale[5] = "E" /\ Scale[6] = "F"
      /\ Scale[8] = "G" /\ Scale[10] = "A" /\ Scale[12] = "B"
  BY DEF Scale
<1>2. c # "A" /\ c # "B" /\ c # "C" /\ c # "D" /\ c # "E" /\ c # "F" /\ c # "G"
  BY <1>1
<1> QED BY <1>2 DEF Code

LEMMA Tenths ==
    ASSUME NEW s \in Int, NEW h \in Int, NEW o \in Int
    PROVE  ((s - 1) + h + o * 12 - 21) * 10 = 10 * (12 * (o - 1) + (s - 10) + h)
OBVIOUS

LEMMA NameInv == BendInv /\ Name => BendInv'
<1>. SUFFICES ASSUME BendInv, Name PROVE BendInv'
  OBVIOUS
<1>1. BendTypes' /\ CurveInv'
  BY DEF BendInv, BendTypes, CurveInv, Name, note
<1>2. bendI' = 0 /\ name' = name /\ name \in Names
  BY DEF BendInv, BendTypes, CurveInv, Name, note
<1>3. NameInScale'
  <2>. SUFFICES ASSUME name.octave \notin {Missing, NoNumber} PROVE NameInScale'
    BY <1>2 DEF NameInScale
  <2>. PICK c : c = name.letter
    OBVIOUS
  <2>0. name.letter \notin Flats /\ name.sharp \in {-1, 0, 1} /\ name.octave \in Int
    BY <1>2, NameAssumption, Zenon
  <2>1. c \notin Flats /\ name.sharp \in Int /\ name.octave \in Int
    BY <2>0
  <2>2. CASE \E s \in 1 .. 12 : Scale[s] = c
    <3>0. PICK s \in 1 .. 12 : s = CHOOSE r \in 1 .. 12 : Scale[r] = c
      BY <2>2
    <3>1. Scale[s] = c
      BY <2>2, <3>0
    <3>2. Code(c) <= 71 /\ Semitone(c) = s - 1
      BY <2>1, <3>1, LettersInScale
    <3>3. bendNum' = (Semitone(c) + name.sharp + name.octave * 12 - 21) * 10
      BY <2>1, <3>2 DEF Name, Code, Missing, NoNumber
    <3>4. bendNum' = 10 * (12 * (name.octave - 1) + (s - 10) + name.sharp)
      <4>1. PICK o \in Int, h \in Int : o = name.octave /\ h = name.sharp
        BY <2>1
      <4>2. ((s - 1) + h + o * 12 - 21) * 10 = 10 * (12 * (o - 1) + (s - 10) + h)
        BY Tenths
      <4> QED BY <3>2, <3>3, <4>1, <4>2
    <3> QED BY <1>2, <2>2, <3>0, <3>4 DEF NameInScale
  <2>3. CASE ~\E s \in 1 .. 12 : Scale[s] = c
    <3>1. Code(c) = 72
      BY <2>3, LettersAfterG
    <3>2. bendNum' = None
      BY <3>1 DEF Name
    <3> QED BY <1>2, <2>3, <3>2 DEF NameInScale
  <2> QED BY <2>2, <2>3
<1> QED BY <1>1, <1>2, <1>3 DEF BendInv, IndexInRange, PastCurveIsFlat, PitchDefined, RowsExist

LEMMA CurveStepInv == BendInv /\ (Curve \/ NoCurve) => BendInv'
<1>. SUFFICES ASSUME BendInv, Curve \/ NoCurve PROVE BendInv'
  OBVIOUS
<1>1. BendTypes'
  BY StepAssumption DEF BendInv, BendTypes, Curve, NoCurve, note
<1>2. CurveInv'
  BY StepAssumption DEF BendInv, BendTypes, CurveInv, Curve, NoCurve, note, bendOLen
<1>3. NameInScale'
  BY DEF BendInv, NameInScale, Curve, NoCurve, note
<1>4. bendI' = 0
  BY DEF BendInv, CurveInv, Curve, NoCurve
<1> QED BY <1>1, <1>2, <1>3, <1>4 DEF BendInv, IndexInRange, PastCurveIsFlat, PitchDefined,
                                      RowsExist

\* The factor of a frame without a curve past its end, and the pitch it is made of.
LEMMA FactorDefined ==
    ASSUME BendTypes, freq_avg > 0, modulation >= 0, NEW row \in 0 .. bendTLen,
           NEW v \in {0, 1, 3}
    PROVE  LET factor == Modulated(SourcePitch(row, v)) IN
           /\ Finite(factor)
           /\ factor.num = 0 => modulation = 1 /\ \A k \in ReadPitches(row) : f0[k] = 0
<1>1. /\ row = 0 \/ row = 1 \/ row = 2
      /\ f0[0] \in Nat /\ f0[1] \in Nat /\ f0[2] \in Nat
  BY DEF BendTypes, bendTLen
<1>2. /\ SourcePitch(row, v) \in Nat
      /\ SourcePitch(row, v) = 0 => \A k \in ReadPitches(row) : f0[k] = 0
  <2>1. CASE row = 0 /\ (f0[0] # 0 \/ f0[1] # 0)
    <3>. PICK a \in Nat, b \in Nat : /\ a = IF f0[0] = 0 THEN freq_avg ELSE f0[0]
                                     /\ b = IF f0[1] = 0 THEN freq_avg ELSE f0[1]
      BY <1>1 DEF BendTypes
    <3>1. a > 0 /\ b > 0
      BY <1>1
    <3>2. SourcePitch(row, v) = a * (4 - v) + b * v
      BY <2>1 DEF SourcePitch, bendTLen
    <3>3. a * (4 - v) + b * v \in Nat /\ a * (4 - v) + b * v > 0
      BY <3>1
    <3> QED BY <3>2, <3>3
  <2>2. CASE row = 0 /\ f0[0] = 0 /\ f0[1] = 0
    BY <2>2 DEF SourcePitch, bendTLen, ReadPitches
  <2>3. CASE row # 0
    BY <1>1, <2>3 DEF SourcePitch, bendTLen, ReadPitches
  <2> QED BY <1>1, <2>1, <2>2, <2>3
<1>3. modulation = 0 \/ modulation = 1
  BY DEF BendTypes
<1> QED BY <1>2, <1>3 DEF Modulated, Frac, Whole, Finite, BendTypes

LEMMA FrameInv == BendInv /\ Frame => BendInv'
<1>. SUFFICES ASSUME BendInv, Frame PROVE BendInv'
  OBVIOUS
<1>1. PICK row \in 0 .. bendTLen, v \in {0, 1, 3} :
        LET u == bendI * BendFramePeriod
            step == BendGrain * pStep
            past == u \div step >= pLen
        IN frame' = FrameOf(u, step, IF past THEN pLen - 1 ELSE u \div step, past, row, v)
  BY DEF Frame
<1>2. /\ bendI' = bendI + 1 /\ bendI < bendOLen /\ bendPc = "frames"
      /\ UNCHANGED <<note, bendNum, pStep, pLen, pit, bendPc>>
  BY DEF Frame
<1>3. BendTypes' /\ CurveInv'
  BY <1>2 DEF BendInv, BendTypes, CurveInv, note, bendOLen
<1>4. NameInScale'
  BY <1>2 DEF BendInv, NameInScale, note
<1>5. PICK F \in Nat \ {0}, u \in Nat, o \in Nat : /\ F = BendFramePeriod /\ o = bendI
                                                   /\ u = o * F
  BY StepAssumption DEF BendInv, BendTypes
<1>6. PICK step \in Nat \ {0} : step = BendGrain * pStep /\ step = 2 * pStep /\ pStep \in Nat \ {0}
  BY <1>2 DEF BendInv, BendTypes, CurveInv, BendGrain
<1>7. PICK q \in Nat : q = u \div step /\ step * q <= u
  BY DividedBy
<1>. DEFINE past == q >= pLen
            m == IF past THEN pLen - 1 ELSE q
<1>8. frame' = FrameOf(u, step, m, past, row, v)
  BY <1>1, <1>5, <1>6, <1>7
<1>. PICK T \in Nat : T = 2 * bendOutSamples
  BY DEF BendInv, BendTypes
<1>9. bendOLen \in Nat /\ u <= T
  <2>1. PICK d \in Nat : d = T \div F /\ F * d <= T
    BY <1>5, DividedBy
  <2>2. bendOLen = d + 1
    BY <1>5, <2>1 DEF bendOLen, BendGrain, BendInv, BendTypes
  <2>3. o <= d
    BY <1>2, <1>5, <2>2
  <2>4. o * F <= F * d
    <3>1. PICK r \in Nat : d = o + r
      <4>1. d - o \in Nat /\ d = o + (d - o)
        BY <2>3
      <4> QED BY <4>1
    <3>2. F * d = F * o + F * r /\ F * r \in Nat /\ F * o \in Nat /\ F * o = o * F
      BY <3>1
    <3> QED BY <3>2
  <2> QED BY <1>5, <2>1, <2>2, <2>4
<1>10. pLen \in Nat \ {0}
  BY <1>2, <1>6, <1>9 DEF BendInv, BendTypes, CurveInv, bendOLen
<1>11. /\ frame'.m = m /\ frame'.past = past
       /\ frame'.cents = Frac(Entry(m) * (step - (u % step)) + Entry(m + 1) * (u % step), step)
       /\ frame'.factor = Modulated(SourcePitch(row, v)) /\ frame'.n = row
       /\ frame'.rows = IF row < bendTLen - 1 THEN {row, row + 1} ELSE {bendTLen - 1}
       /\ frame'.residual = Row(IF v > 2 /\ ~past THEN row + 1 ELSE row)
  BY <1>8 DEF FrameOf
<1>12. IndexInRange'
  BY <1>2, <1>10, <1>11 DEF IndexInRange
<1>13. PastCurveIsFlat'
  <2>. SUFFICES ASSUME past
                PROVE  ~given /\ frame'.cents.num = 0 /\ F > step
    BY <1>2, <1>5, <1>6, <1>11 DEF PastCurveIsFlat, note, BendGrain
  <2>1. ~given
    <3>. SUFFICES ASSUME given PROVE FALSE
      OBVIOUS
    <3>. PICK k \in Nat : k = bendOutSamples \div pStep /\ bendOutSamples < pStep * k + pStep
      BY <1>6, DividedBy DEF BendInv, BendTypes
    <3>1. pLen = k + 1
      BY <1>2 DEF BendInv, CurveInv
    <3>2. PICK r \in Nat : q = k + 1 + r
      <4>1. q - (k + 1) \in Nat /\ q = k + 1 + (q - (k + 1))
        BY <3>1
      <4> QED BY <4>1
    <3>3. step * q = 2 * (pStep * k) + 2 * pStep + step * r /\ step * r \in Nat /\ pStep * k \in Nat
      BY <1>6, <3>2
    <3>4. PICK x \in Nat, z \in Nat, w \in Nat, b \in Nat :
             x = pStep * k /\ z = step * r /\ w = step * q /\ b = bendOutSamples
      BY <3>3 DEF BendInv, BendTypes
    <3>5. w = 2 * x + 2 * pStep + z /\ b < x + pStep /\ w <= 2 * b
      BY <1>7, <1>9, <3>3, <3>4
    <3> QED BY <1>6, <3>4, <3>5
  <2>2. pLen = bendOLen /\ pit = [k \in 0 .. bendOLen |-> 0]
    BY <1>2, <2>1 DEF BendInv, CurveInv
  <2>3. Entry(m) = 0 /\ Entry(m + 1) = 0
    BY <2>2 DEF Entry
  <2>4. frame'.cents.num = 0
    <3>1. u % step \in Nat /\ step - (u % step) \in Int
      OBVIOUS
    <3> QED BY <1>11, <2>3, <3>1 DEF Frac
  <2>5. F > step
    <3>. SUFFICES ASSUME F <= step PROVE FALSE
      OBVIOUS
    <3>1. o < q
      BY <1>2, <1>5, <1>9, <2>2
    <3>2. PICK r \in Nat, e \in Nat : q = o + 1 + r /\ step = F + e
      <4>1. q - (o + 1) \in Nat /\ q = o + 1 + (q - (o + 1))
        BY <3>1
      <4>2. step - F \in Nat /\ step = F + (step - F)
        OBVIOUS
      <4> QED BY <4>1, <4>2
    <3>3. step * q = o * F + e * o + step + step * r /\ step * r \in Nat /\ e * o \in Nat
      BY <3>2
    <3>4. PICK x \in Nat, y \in Nat, z \in Nat : x = o * F /\ y = e * o /\ z = step * r
      BY <3>3
    <3>5. PICK w \in Nat : w = step * q
      OBVIOUS
    <3>6. w = (x + y) + (step + z)
      BY <3>3, <3>4, <3>5
    <3>7. w <= x
      BY <1>5, <1>7, <3>4, <3>5
    <3> QED BY <3>6, <3>7
  <2> QED BY <2>1, <2>4, <2>5
<1>14. PitchDefined'
  BY <1>2, <1>11, FactorDefined DEF PitchDefined, ReadPitches, note, BendInv
<1>15. RowsExist'
  <2>1. row = 0 \/ row = 1 \/ row = 2
    BY DEF bendTLen
  <2> QED BY <1>11, <2>1 DEF RowsExist, Row, bendTLen
<1> QED BY <1>3, <1>4, <1>12, <1>13, <1>14, <1>15 DEF BendInv

LEMMA BendInvStep == BendInv /\ [BendNext]_bendVars => BendInv'
<1>. SUFFICES ASSUME BendInv, [BendNext]_bendVars PROVE BendInv'
  OBVIOUS
<1>1. CASE BendReturn
  BY <1>1 DEF BendReturn, BendInv, BendTypes, CurveInv, note, NameInScale, IndexInRange,
     PastCurveIsFlat, PitchDefined, RowsExist, bendOLen, ReadPitches
<1>2. CASE UNCHANGED bendVars
  BY <1>2 DEF bendVars, BendInv, BendTypes, CurveInv, NameInScale, IndexInRange,
     PastCurveIsFlat, PitchDefined, RowsExist, bendOLen, ReadPitches
<1> QED BY <1>1, <1>2, NameInv, CurveStepInv, FrameInv DEF BendNext, BendFinished

\* The pitch of every output frame is defined, for every name, every length of the
\* output and of the steps of the curve, every track and every entry of the curve.
THEOREM PitchIsSound == BendSpec => []PitchSound
<1>1. BendInv => PitchSound
  BY DEF BendInv, PitchSound
<1> QED BY <1>1, BendInvInit, BendInvStep, PTL DEF BendSpec

-----------------------------------------------------------------------------
(* The place of a frame *)

\* The position y after the end of the consonant, in ticks times V: at half of
\* V before it, and then at a V-th or, stretched, at M / L.
Line(P, V, L, M, y) ==
    IF y < 0 THEN Fraction(2 * P + y, 2)
    ELSE IF V * M > L THEN Fraction(P * V + y, V)
    ELSE Fraction(P * L + y * M, L)

\* A frame further, of F ticks, is no step back and at most half of F * m ahead.
LEMMA LineStep ==
    ASSUME NEW P \in Nat, NEW V \in Nat \ {0}, NEW L \in Nat, NEW M \in Nat \ {0},
           NEW F \in Nat, NEW m \in Nat, m >= 2, m >= V, NEW y \in Int, NEW z \in Int,
           z = y + F * V, NEW p, p = Line(P, V, L, M, y), NEW q, q = Line(P, V, L, M, z)
    PROVE  /\ p.num * q.den <= q.num * p.den
           /\ 2 * (q.num * p.den - p.num * q.den) <= F * m * p.den * q.den
<1>. PICK f \in Nat : f = F * V
  OBVIOUS
<1>1. z = y + f
  OBVIOUS
<1>2. CASE z < 0
  <2>1. p = Fraction(2 * P + y, 2) /\ q = Fraction(2 * P + z, 2)
    BY <1>1, <1>2 DEF Line
  <2>2. p.num = 2 * P + y /\ p.den = 2 /\ q.num = 2 * P + z /\ q.den = 2
    BY <2>1 DEF Fraction
  <2>3. F * m * 2 * 2 = 4 * (F * m) /\ F * V <= F * m /\ F * m \in Nat
    BY ProductOrder
  <2> QED BY <1>1, <2>2, <2>3
<1>3. CASE y >= 0 /\ V * M > L
  <2>1. p = Fraction(P * V + y, V) /\ q = Fraction(P * V + z, V)
    BY <1>1, <1>3 DEF Line
  <2>2. p.num = P * V + y /\ p.den = V /\ q.num = P * V + z /\ q.den = V
    BY <2>1 DEF Fraction
  <2>3. PICK k \in Nat : k = f * V
    OBVIOUS
  <2>4. q.num * V = p.num * V + k /\ p.num * V \in Int
    BY <1>1, <2>2, <2>3
  <2>5. F * m * V * V = k * m
    BY <2>3
  <2>6. k * 2 <= k * m
    BY ProductOrder
  <2> QED BY <2>2, <2>4, <2>5, <2>6
<1>4. CASE y >= 0 /\ V * M <= L
  <2>1. p = Fraction(P * L + y * M, L) /\ q = Fraction(P * L + z * M, L)
    BY <1>1, <1>4 DEF Line
  <2>2. p.num = P * L + y * M /\ p.den = L /\ q.num = P * L + z * M /\ q.den = L
    BY <2>1 DEF Fraction
  <2>3. PICK k \in Nat, w \in Nat : k = f * M /\ w = F * L
    OBVIOUS
  <2>4. k <= w
    <3>1. F * (V * M) <= F * L
      BY <1>4, ProductOrder
    <3>2. k = F * (V * M)
      BY <2>3
    <3> QED BY <2>3, <3>1, <3>2
  <2>5. PICK kl \in Nat, wl \in Nat : kl = L * k /\ wl = L * w
    OBVIOUS
  <2>6. q.num * L = p.num * L + kl /\ p.num * L \in Int
    BY <1>1, <2>2, <2>3, <2>5
  <2>7. F * m * L * L = wl * m
    BY <2>3, <2>5
  <2>8. kl <= wl /\ wl * 2 <= wl * m
    BY <2>4, <2>5, ProductOrder
  <2>. PICK e \in Int, g \in Int, h \in Int : e = p.num * L /\ g = q.num * L /\ h = F * m * L * L
    BY <2>6, <2>7
  <2>9. e <= g /\ 2 * (g - e) <= h
    BY <2>5, <2>6, <2>7, <2>8
  <2> QED BY <2>2, <2>9
<1>5. CASE y < 0 /\ z >= 0
  <2>0. PICK a \in Nat : a = -y /\ f = a + z /\ z \in Nat
    BY <1>1, <1>5
  <2>1. p = Fraction(2 * P + y, 2)
    BY <1>5 DEF Line
  <2>2. p.num = 2 * P - a /\ p.den = 2
    BY <2>0, <2>1 DEF Fraction
  <2>3. m * a >= V * a /\ m * z >= 2 * z /\ m * f = m * a + m * z
    <3>1. a * V <= a * m /\ z * 2 <= z * m
      BY <2>0, ProductOrder
    <3> QED BY <2>0, <3>1
  <2>4. CASE V * M > L
    <3>1. q = Fraction(P * V + z, V)
      BY <1>5, <2>4 DEF Line
    <3>2. q.num = P * V + z /\ q.den = V
      BY <3>1 DEF Fraction
    <3>3. q.num * 2 - p.num * V = 2 * z + V * a
      BY <2>0, <2>2, <3>2
    <3>4. F * m * 2 * V = 2 * (m * f)
      OBVIOUS
    <3>5. p.num * V \in Int /\ q.num * 2 \in Int /\ V * a \in Nat
      BY <2>0, <2>2, <3>2
    <3> QED BY <2>0, <2>2, <2>3, <3>2, <3>3, <3>4, <3>5
  <2>5. CASE V * M <= L
    <3>1. q = Fraction(P * L + z * M, L)
      BY <1>5, <2>5 DEF Line
    <3>2. q.num = P * L + z * M /\ q.den = L
      BY <3>1 DEF Fraction
    <3>3. PICK zm \in Nat, al \in Nat : zm = z * M /\ al = L * a
      BY <2>0
    <3>4. q.num * 2 - p.num * L = 2 * zm + al
      BY <2>2, <3>2, <3>3
    <3>5. PICK g \in Nat : g = (F * m) * L
      OBVIOUS
    <3>6. F * m * 2 * L = 2 * g
      BY <3>5
    <3>7. 2 * zm + al <= g
      <4>1. V * g = L * (m * a) + L * (m * z)
        <5>1. V * g = L * (m * f)
          BY <3>5
        <5> QED BY <2>0, <5>1
      <4>2. L * (V * a) <= L * (m * a)
        BY <2>0, <2>3, ProductOrder
      <4>3. L * (2 * z) <= L * (m * z)
        BY <2>0, <2>3, ProductOrder
      <4>4. z * (V * M) <= z * L
        BY <2>0, <2>5, ProductOrder
      <4>5. V * (2 * zm + al) = 2 * (z * (V * M)) + L * (V * a)
        BY <2>0, <3>3
      <4>6. L * (2 * z) = 2 * (z * L) /\ z * L \in Nat /\ z * (V * M) \in Nat
        BY <2>0
      <4>. PICK e1 \in Nat, e2 \in Nat, e3 \in Nat, e4 \in Nat, e5 \in Nat :
              e1 = L * (m * a) /\ e2 = L * (m * z) /\ e3 = L * (V * a) /\ e4 = z * L
              /\ e5 = z * (V * M)
        BY <2>0
      <4>7. V * (2 * zm + al) <= V * g
        BY <4>1, <4>2, <4>3, <4>4, <4>5, <4>6
      <4> QED BY <4>7, ProductCancel
    <3>8. p.num * L \in Int /\ q.num * 2 \in Int
      BY <2>0, <2>2, <3>2
    <3> QED BY <2>2, <3>2, <3>3, <3>4, <3>5, <3>6, <3>7, <3>8
  <2> QED BY <2>4, <2>5
<1> QED BY <1>1, <1>2, <1>3, <1>4, <1>5

\* A position not before the source, and no more than two ticks past the stretched
\* part.
LEMMA LineWithin ==
    ASSUME NEW P \in Nat, NEW V \in Nat \ {0}, NEW L \in Nat, NEW M \in Nat \ {0},
           NEW y \in Int, -(2 * P) <= y, y <= L + 2 * V
    PROVE  LET p == Line(P, V, L, M, y)
           IN /\ p.num \in Nat /\ p.den \in Nat \ {0}
              /\ p.num <= (P + M + 2) * p.den
<1>. DEFINE p == Line(P, V, L, M, y)
<1>. SUFFICES /\ p.num \in Nat /\ p.den \in Nat \ {0}
              /\ p.num <= (P + M + 2) * p.den
  OBVIOUS
<1>1. CASE y < 0
  <2>1. p.num = 2 * P + y /\ p.den = 2
    BY <1>1 DEF Line, Fraction
  <2>. HIDE DEF p
  <2> QED BY <1>1, <2>1
<1>2. CASE y >= 0 /\ V * M > L
  <2>1. p.num = P * V + y /\ p.den = V
    BY <1>2 DEF Line, Fraction
  <2>. HIDE DEF p
  <2>2. PICK pv \in Nat, mv \in Nat : pv = P * V /\ mv = V * M
    OBVIOUS
  <2>3. (P + M + 2) * V = (pv + mv) + 2 * V
    BY <2>2
  <2> QED BY <1>2, <2>1, <2>2, <2>3
<1>3. CASE y >= 0 /\ V * M <= L
  <2>1. p.num = P * L + y * M /\ p.den = L
    BY <1>3 DEF Line, Fraction
  <2>. HIDE DEF p
  <2>2. L > 0
    <3>1. V * M > 0
      <4>1. V * 1 <= V * M
        BY ProductOrder
      <4> QED BY <4>1
    <3> QED BY <1>3, <3>1
  <2>3. M * y <= M * (L + 2 * V)
    BY ProductOrder
  <2>4. PICK pl \in Nat, ml \in Nat, mv \in Nat, my \in Nat :
           pl = P * L /\ ml = M * L /\ mv = V * M /\ my = M * y
    BY <1>3
  <2>5. M * (L + 2 * V) = ml + 2 * mv
    BY <2>4
  <2>6. (P + M + 2) * L = (pl + ml) + 2 * L
    BY <2>4
  <2>7. p.num = pl + my
    BY <2>1, <2>4
  <2> QED BY <1>3, <2>1, <2>2, <2>3, <2>4, <2>5, <2>6, <2>7
<1> QED BY <1>1, <1>2, <1>3

\* A position less than a frame, of F ticks, before the end is less than half of
\* F * m before the end of the source.
LEMMA LineEnds ==
    ASSUME NEW P \in Nat, NEW V \in Nat \ {0}, NEW L \in Nat, NEW M \in Nat \ {0},
           NEW F \in Nat, F >= 2, NEW m \in Nat, m >= 2, m >= V, NEW y \in Int,
           V * M <= L, L <= y + (F - 2) * V
    PROVE  LET p == Line(P, V, L, M, y)
           IN 2 * ((P + M) * p.den - p.num) < F * m * p.den
<1>. DEFINE p == Line(P, V, L, M, y)
<1>. SUFFICES 2 * ((P + M) * p.den - p.num) < F * m * p.den
  OBVIOUS
<1>0. PICK G \in Nat : F = G + 2
  <2>1. F - 2 \in Nat /\ F = (F - 2) + 2
    OBVIOUS
  <2> QED BY <2>1
<1>1. L <= y + G * V
  BY <1>0
<1>2. CASE y < 0
  <2>1. p.num = 2 * P + y /\ p.den = 2
    BY <1>2 DEF Line, Fraction
  <2>. HIDE DEF p
  <2>2. PICK a \in Nat, gv \in Nat, gm \in Nat : a = -y /\ gv = G * V /\ gm = G * m
    BY <1>2
  <2>3. L + a <= gv
    BY <1>1, <2>2
  <2>4. 2 * M + a <= gm
    <3>1. V * (2 * M + a) <= m * (L + a)
      <4>1. V * (2 * M + a) = 2 * (V * M) + V * a
        BY <2>2
      <4>2. L * 2 <= L * m /\ a * V <= a * m
        BY ProductOrder
      <4>3. m * (L + a) = L * m + a * m /\ L * m \in Nat /\ a * m \in Nat /\ V * a \in Nat
            /\ V * M \in Nat /\ V * a = a * V
        BY <2>2
      <4> QED BY <4>1, <4>2, <4>3
    <3>2. m * (L + a) <= m * gv
      BY <2>3, ProductOrder
    <3>3. m * gv = V * gm
      BY <2>2
    <3>4. V * (2 * M + a) <= V * gm
      <4>1. V * (2 * M + a) \in Int /\ m * (L + a) \in Int /\ V * gm \in Int
        OBVIOUS
      <4> QED BY <3>1, <3>2, <3>3, <4>1
    <3> QED BY <3>4, ProductCancel
  <2>5. F * m * 2 = 2 * gm + 4 * m
    BY <1>0, <2>2
  <2> QED BY <2>1, <2>2, <2>4, <2>5
<1>3. CASE y >= 0
  <2>1. p.num = P * L + y * M /\ p.den = L
    BY <1>3 DEF Line, Fraction
  <2>. HIDE DEF p
  <2>2. L > 0
    <3>1. V * 1 <= V * M
      BY ProductOrder
    <3> QED BY <3>1
  <2>3. PICK pl \in Nat, ml \in Nat, my \in Nat, gl \in Nat, gm \in Nat :
           pl = P * L /\ ml = M * L /\ my = M * y /\ gl = G * L /\ gm = gl * m
    BY <1>3
  <2>4. ml <= my + gl
    <3>1. M * L <= M * (y + G * V)
      BY <1>1, ProductOrder
    <3>2. M * (y + G * V) = my + G * (V * M)
      BY <2>3
    <3>3. G * (V * M) <= G * L
      BY ProductOrder
    <3> QED BY <2>3, <3>1, <3>2, <3>3
  <2>5. gl * 2 <= gl * m /\ L * 2 <= L * m
    BY ProductOrder
  <2>6. F * m * L = gm + 2 * (L * m) /\ L * m \in Nat
    BY <1>0, <2>3
  <2>7. (P + M) * L - p.num = ml - my
    BY <2>1, <2>3
  <2> QED BY <2>1, <2>2, <2>3, <2>4, <2>5, <2>6, <2>7
<1> QED BY <1>2, <1>3

-----------------------------------------------------------------------------
(* The loop *)

NoteTypes ==
    /\ wavelength \in Nat /\ offset \in Nat /\ fixed \in Nat /\ blank \in Int
    /\ length \in Nat /\ velocity \in Nat \ {0}

MapInv ==
    /\ NoteTypes /\ i \in Nat
    /\ timeMapPc \in {"arguments", "refused", "map", "done", "lost"}
    /\ timeMapPc \in {"arguments", "refused"} => i = 0
    /\ timeMapPc \in {"map", "done", "lost"} => blank >= 0
    /\ i <= oLen /\ (timeMapPc = "done" => i = oLen)
    /\ i > 0 => tmi = Position((i - 1) * FramePeriod)

LEMMA FramesWithin ==
    ASSUME NoteTypes
    PROVE  /\ outSamples \in Nat /\ 2 * outSamples > length /\ 2 * outSamples <= length + 2
           /\ oLen \in Nat \ {0}
           /\ \A k \in 0 .. oLen - 1 : k * FramePeriod <= 2 * outSamples
           /\ 2 * outSamples < oLen * FramePeriod
<1>1. outSamples \in Nat /\ 2 * outSamples > length /\ 2 * outSamples <= length + 2
  BY DEF NoteTypes, outSamples, Grain
<1>2. FramePeriod \in Nat \ {0}
  BY FrameAssumption DEF Grain
<1>3. PICK T \in Nat, F \in Nat \ {0} : T = 2 * outSamples /\ F = FramePeriod
  BY <1>1, <1>2
<1>4. PICK d \in Nat : d = T \div F /\ F * d <= T /\ T < F * d + F
  BY DividedBy
<1>5. oLen = d + 1
  BY <1>1, <1>3, <1>4 DEF oLen, SamplesForDIO, Grain
<1>6. ASSUME NEW k \in 0 .. oLen - 1 PROVE k * FramePeriod <= 2 * outSamples
  <2>1. F * k <= F * d
    BY <1>5, ProductOrder
  <2>2. F * k = k * F
    BY <1>5
  <2> QED BY <1>3, <1>4, <2>1, <2>2
<1>7. oLen * FramePeriod = F * d + F
  BY <1>3, <1>5
<1> QED BY <1>1, <1>3, <1>4, <1>5, <1>6, <1>7

LEMMA MapInvInit == TimeMapInit => MapInv
<1>. SUFFICES ASSUME TimeMapInit PROVE MapInv
  OBVIOUS
<1>1. NoteTypes
  BY ArgumentAssumption DEF TimeMapInit, NoteTypes
<1> QED BY <1>1, FramesWithin DEF TimeMapInit, MapInv

LEMMA MapInvStep == MapInv /\ [TimeMapNext]_timeMapVars => MapInv'
<1>. SUFFICES ASSUME MapInv, [TimeMapNext]_timeMapVars PROVE MapInv'
  OBVIOUS
<1>1. CASE Accept
  <2>1. NoteTypes'
    BY <1>1 DEF MapInv, NoteTypes, Accept, Blank, Fixed, BlankAsGiven
  <2>2. oLen' = oLen /\ i' = 0 /\ blank' >= 0
    BY <1>1 DEF MapInv, NoteTypes, Accept, oLen, outSamples, SamplesForDIO, Blank, BlankAsGiven
  <2> QED BY <1>1, <2>1, <2>2 DEF MapInv, Accept
<1>2. CASE MapFrame
  <2>1. NoteTypes' /\ oLen' = oLen
    BY <1>2 DEF MapInv, NoteTypes, MapFrame, args, oLen, outSamples, SamplesForDIO
  <2>. PICK t : t = i * FramePeriod
    OBVIOUS
  <2>2. Position(t)' = Position(t)
    BY <1>2 DEF MapFrame, args, Position, Stretched, TooFast, l1, l2, m2
  <2>3. i' = i + 1 /\ i < oLen /\ blank' = blank /\ tmi' = Position(t)
        /\ timeMapPc = "map" /\ timeMapPc' \in {"map", "lost"}
    BY <1>2 DEF MapFrame, args
  <2>4. (i' - 1) * FramePeriod = t
    BY <2>3 DEF MapInv
  <2>5. Position((i - 1) * FramePeriod)' = Position(t)
    BY <2>2, <2>4
  <2> QED BY <2>1, <2>3, <2>5, FramesWithin DEF MapInv
<1>3. CASE Refuse \/ TimeMapReturn \/ UNCHANGED timeMapVars
  <2>1. UNCHANGED <<args, i, tmi>>
    BY <1>3 DEF Refuse, TimeMapReturn, timeMapVars
  <2>2. NoteTypes' /\ oLen' = oLen
    BY <2>1 DEF MapInv, NoteTypes, args, oLen, outSamples, SamplesForDIO
  <2>3. Position((i - 1) * FramePeriod)' = Position((i - 1) * FramePeriod)
    BY <2>1 DEF args, Position, Stretched, TooFast, l1, l2, m2
  <2>4. i > 0 => tmi = Position((i - 1) * FramePeriod)
    BY DEF MapInv
  <2>5. i' > 0 => tmi' = Position((i - 1) * FramePeriod)'
    BY <2>1, <2>3, <2>4
  <2>6. oLen \in Nat /\ i \in Nat /\ i <= oLen /\ blank' = blank
    BY <2>1, FramesWithin DEF MapInv, args
  <2>7. /\ timeMapPc' \in {"arguments", "refused", "map", "done", "lost"}
        /\ timeMapPc' \in {"arguments", "refused"} => i = 0
        /\ timeMapPc' \in {"map", "done", "lost"} => blank >= 0
        /\ timeMapPc' = "done" => i = oLen
    BY <1>3, <2>6 DEF MapInv, Refuse, TimeMapReturn, timeMapVars
  <2>. HIDE DEF oLen
  <2> QED BY <2>1, <2>2, <2>5, <2>6, <2>7 DEF MapInv
<1> QED BY <1>1, <1>2, <1>3 DEF TimeMapNext, TimeMapFinished

-----------------------------------------------------------------------------
(* The source of a regular note *)

Ahead == IF velocity > 2 THEN velocity ELSE 2

LEMMA RegularTypes ==
    ASSUME MapInv, Mapped, Regular
    PROVE  /\ offset + fixed \in Nat /\ velocity \in Nat \ {0}
           /\ l2 \in Nat /\ m2 \in Nat \ {0} /\ l1 = 2 * fixed /\ fixed \in Nat
           /\ l2 = length * velocity - l1 /\ length \in Nat
           /\ wavelength - blank = (offset + fixed) + m2
           /\ blank \in Nat /\ wavelength \in Nat
BY DEF MapInv, NoteTypes, Mapped, Regular, l1, l2, m2

LEMMA OnTheLine ==
    ASSUME MapInv, Mapped, Regular, NEW t \in Nat
    PROVE  Position(t) = Line(offset + fixed, velocity, l2, m2, t * velocity - l1)
<1>. PICK P \in Nat, V \in Nat \ {0}, L \in Nat, M \in Nat \ {0}, X \in Nat, O \in Nat :
        /\ P = offset + fixed /\ V = velocity /\ L = l2 /\ M = m2 /\ X = fixed /\ O = offset
  BY RegularTypes DEF MapInv, NoteTypes
<1>1. l1 = 2 * X /\ P = O + X
  BY RegularTypes
<1>. PICK w \in Nat, y \in Int : w = t * V /\ y = w - 2 * X
  OBVIOUS
<1>2. TooFast <=> V * M > L
  <2>1. V * M > 0 /\ V * M = M * V
    <3>1. V * 1 <= V * M
      BY ProductOrder
    <3> QED BY <3>1
  <2> QED BY <2>1 DEF TooFast
<1>3. CASE y < 0
  <2>1. Position(t) = Fraction(2 * O + w, 2)
    BY <1>1, <1>3 DEF Position
  <2>2. 2 * O + w = 2 * P + y
    BY <1>1
  <2> QED BY <1>1, <1>3, <2>1, <2>2 DEF Line
<1>4. CASE y >= 0 /\ V * M > L
  <2>1. Position(t) = Fraction((O + X) * V + w - 2 * X, V)
    BY <1>1, <1>2, <1>4 DEF Position, Stretched
  <2>2. (O + X) * V + w - 2 * X = P * V + y
    BY <1>1
  <2> QED BY <1>1, <1>4, <2>1, <2>2 DEF Line
<1>5. CASE y >= 0 /\ V * M <= L
  <2>1. L > 0
    <3>1. V * 1 <= V * M
      BY ProductOrder
    <3> QED BY <1>5, <3>1
  <2>2. Position(t) = Fraction(1 * ((O + X) * L + (w - 2 * X) * M), 1 * L)
    BY <1>1, <1>2, <1>5, <2>1 DEF Position, Stretched
  <2>3. 1 * ((O + X) * L + (w - 2 * X) * M) = P * L + y * M /\ 1 * L = L
    BY <1>1
  <2> QED BY <1>1, <1>5, <2>2, <2>3 DEF Line
<1> QED BY <1>3, <1>4, <1>5

\* The last position there is, and how far it is from the consonant.
LEMMA LastPosition ==
    ASSUME MapInv, Mapped, Regular
    PROVE  \E y \in Int :
             /\ tmi = Line(offset + fixed, velocity, l2, m2, y)
             /\ -(2 * (offset + fixed)) <= y /\ y <= l2 + 2 * velocity
             /\ timeMapPc = "done" => l2 <= y + (FramePeriod - 2) * velocity
<1>. PICK V \in Nat \ {0}, L \in Nat, X \in Nat, Z \in Nat, F \in Nat :
        V = velocity /\ L = l2 /\ X = fixed /\ Z = length /\ F = FramePeriod
  BY RegularTypes, FrameAssumption
<1>1. l1 = 2 * X /\ L = Z * V - 2 * X /\ i \in Nat \ {0} /\ i <= oLen
  BY RegularTypes DEF MapInv, Mapped
<1>. PICK t \in Nat : t = (i - 1) * F
  BY <1>1
<1>2. t <= Z + 2
  BY <1>1, FramesWithin DEF MapInv
<1>3. timeMapPc = "done" => Z + 2 <= t + F
  <2>. SUFFICES ASSUME timeMapPc = "done" PROVE Z + 2 <= t + F
    OBVIOUS
  <2>1. i = oLen /\ 2 * outSamples > Z /\ 2 * outSamples < oLen * F /\ outSamples \in Nat
    BY FramesWithin DEF MapInv
  <2>2. i * F = t + F
    BY <1>1
  <2> QED BY <2>1, <2>2
<1>. PICK y \in Int : y = t * V - 2 * X
  OBVIOUS
<1>4. tmi = Line(offset + fixed, velocity, l2, m2, y)
  BY <1>1, OnTheLine DEF MapInv
<1>5. y <= L + 2 * V
  <2>1. V * t <= V * (Z + 2)
    BY <1>2, ProductOrder
  <2>2. V * (Z + 2) = Z * V + 2 * V /\ V * t = t * V /\ Z * V \in Nat
    OBVIOUS
  <2> QED BY <1>1, <2>1, <2>2
<1>6. timeMapPc = "done" => L <= y + (F - 2) * V
  <2>. SUFFICES ASSUME timeMapPc = "done" PROVE L <= y + (F - 2) * V
    OBVIOUS
  <2>1. V * (Z + 2) <= V * (t + F)
    BY <1>3, ProductOrder
  <2>2. V * (Z + 2) = Z * V + 2 * V /\ V * (t + F) = t * V + F * V
        /\ (F - 2) * V = F * V - 2 * V
    OBVIOUS
  <2>3. Z * V \in Nat /\ t * V \in Nat /\ F * V \in Nat
    OBVIOUS
  <2>. PICK nv \in Nat, tv \in Nat, fv \in Nat : nv = Z * V /\ tv = t * V /\ fv = F * V
    BY <2>3
  <2> QED BY <1>1, <2>1, <2>2
<1>7. -(2 * (offset + fixed)) <= y
  <2>1. t * V \in Nat /\ offset \in Nat
    BY DEF MapInv, NoteTypes
  <2> QED BY <2>1
<1> QED BY <1>4, <1>5, <1>6, <1>7

\* A quotient of a fraction below K is not past a K-th of F.
LEMMA FrameBelow ==
    ASSUME NEW x \in Nat, NEW d \in Nat \ {0}, NEW F \in Nat \ {0}, NEW K \in Int,
           x <= K * d
    PROVE  x \div (d * F) \in Nat /\ F * (x \div (d * F)) <= K
<1>0. \A q \in Nat : (d * F) * q = d * (F * q)
  BY ProductGrouped
<1>1. PICK b \in Nat \ {0} : b = d * F
  <2>1. d * 1 <= d * F
    BY ProductOrder
  <2> QED BY <2>1
<1>2. PICK q \in Nat : q = x \div b /\ b * q <= x
  BY DividedBy
<1>3. b * q = d * (F * q)
  BY <1>0, <1>1, Zenon
<1>4. PICK k \in Int : k = d * (F * q) /\ k <= d * K
  <2>1. K * d = d * K /\ d * (F * q) \in Int
    OBVIOUS
  <2> QED BY <1>2, <1>3, <2>1
<1>5. F * q <= K
  BY <1>4, ProductCancel
<1> QED BY <1>1, <1>2, <1>5

LEMMA InSource == MapInv => SourceInRange
<1>. SUFFICES ASSUME MapInv, Mapped, Regular
              PROVE  /\ SourceFrame(tmi) \in 0 .. tLen
                     /\ blank >= Grain => SourceFrame(tmi) < tLen
  BY DEF SourceInRange
<1>. PICK P \in Nat, V \in Nat \ {0}, L \in Nat, M \in Nat \ {0} :
        P = offset + fixed /\ V = velocity /\ L = l2 /\ M = m2
  BY RegularTypes
<1>1. PICK y \in Int : tmi = Line(P, V, L, M, y) /\ -(2 * P) <= y /\ y <= L + 2 * V
  BY LastPosition
<1>. PICK W \in Nat, B \in Nat, F \in Nat \ {0} : W = wavelength /\ B = blank /\ F = FramePeriod
  BY RegularTypes, FrameAssumption DEF Grain
<1>2. W - B = P + M /\ F >= 2
  BY RegularTypes, FrameAssumption DEF Grain
<1>3. tmi.num \in Nat /\ tmi.den \in Nat \ {0} /\ tmi.num <= (P + M + 2) * tmi.den
  BY <1>1, LineWithin
<1>4. PICK q \in Nat : q = SourceFrame(tmi) /\ F * q <= W + 2 - B
  <2>1. W + 2 - B = P + M + 2
    BY <1>2
  <2>2. PICK x \in Nat, e \in Nat \ {0} : x = tmi.num /\ e = tmi.den
    BY <1>3
  <2>3. x <= (W + 2 - B) * e
    BY <1>3, <2>1, <2>2
  <2>4. x \div (e * F) \in Nat /\ F * (x \div (e * F)) <= W + 2 - B
    BY <2>3, FrameBelow
  <2> QED BY <2>2, <2>4 DEF SourceFrame
<1>5. PICK d \in Nat : d = W \div F /\ W < F * d + F
  BY DividedBy
<1>6. tLen = d + 1 /\ F * (d + 1) = F * d + F /\ F * (d + 2) = F * d + 2 * F /\ F * d \in Nat
  BY <1>5 DEF tLen, SamplesForDIO
<1>7. q < d + 2
  <2>1. F * q < F * (d + 2)
    BY <1>2, <1>4, <1>5, <1>6
  <2> QED BY <2>1, ProductSign
<1>8. B >= 2 => q < d + 1
  <2>. SUFFICES ASSUME B >= 2 PROVE q < d + 1
    OBVIOUS
  <2>1. F * q < F * (d + 1)
    BY <1>2, <1>4, <1>5, <1>6
  <2> QED BY <2>1, ProductSign
<1> QED BY <1>4, <1>6, <1>7, <1>8 DEF Grain

LEMMA ToBlank == MapInv => PlayedToBlank
<1>. SUFFICES ASSUME MapInv, timeMapPc = "done", Regular, m2 * velocity <= l2
              PROVE  2 * ((wavelength - blank) * tmi.den - tmi.num) < MaxStep * tmi.den
  BY DEF PlayedToBlank
<1>0. Mapped
  BY FramesWithin DEF MapInv, Mapped
<1>. PICK P \in Nat, V \in Nat \ {0}, L \in Nat, M \in Nat \ {0}, F \in Nat, m \in Nat :
        /\ P = offset + fixed /\ V = velocity /\ L = l2 /\ M = m2
        /\ F = FramePeriod /\ m = Ahead
  BY <1>0, RegularTypes, FrameAssumption DEF Ahead
<1>1. PICK y \in Int : tmi = Line(P, V, L, M, y) /\ L <= y + (F - 2) * V
  BY <1>0, LastPosition
<1>2. F >= 2 /\ m >= 2 /\ m >= V /\ V * M <= L
  <2>1. V * M = M * V
    OBVIOUS
  <2> QED BY <2>1, FrameAssumption DEF Ahead, Grain
<1>3. 2 * ((P + M) * tmi.den - tmi.num) < F * m * tmi.den
  BY <1>1, <1>2, LineEnds
<1>4. wavelength - blank = P + M /\ MaxStep = F * m
  BY <1>0, RegularTypes DEF MaxStep, Ahead
<1> QED BY <1>3, <1>4

LEMMA OrderStep ==
    MapInv /\ [TimeMapNext]_timeMapVars =>
        [Mapped /\ Regular /\ tmi' # tmi => NoJump(tmi, tmi')]_timeMapVars
<1>. SUFFICES ASSUME MapInv, [TimeMapNext]_timeMapVars, Mapped, Regular, tmi' # tmi
              PROVE  NoJump(tmi, tmi')
  OBVIOUS
<1>1. MapFrame
  BY DEF TimeMapNext, Refuse, Accept, TimeMapReturn, TimeMapFinished, timeMapVars, Mapped
<1>2. PICK P \in Nat, V \in Nat \ {0}, L \in Nat, M \in Nat \ {0}, F \in Nat, m \in Nat :
        /\ P = offset + fixed /\ V = velocity /\ L = l2 /\ M = m2
        /\ F = FramePeriod /\ m = Ahead
  BY RegularTypes, FrameAssumption DEF Ahead
<1>3. m >= 2 /\ m >= V /\ MaxStep = F * m
  BY <1>2 DEF Ahead, MaxStep
<1>4. PICK s \in Nat, t \in Nat : s = (i - 1) * F /\ t = i * F /\ t = s + F
  <2>1. i \in Nat \ {0}
    BY DEF MapInv, Mapped
  <2>2. i * F = (i - 1) * F + F /\ (i - 1) * F \in Nat
    BY <2>1
  <2> QED BY <2>1, <2>2
<1>5. PICK y \in Int, z \in Int : y = s * V - l1 /\ z = t * V - l1 /\ z = y + F * V
  <2>1. s * V \in Int /\ F * V \in Int /\ t * V = s * V + F * V /\ l1 \in Int
    BY <1>4, RegularTypes
  <2> QED BY <2>1
<1>6. PICK p, q : p = tmi /\ q = tmi'
  OBVIOUS
<1>7. p = Line(P, V, L, M, y)
  <2>1. tmi = Position(s)
    BY <1>2, <1>4 DEF MapInv, Mapped
  <2> QED BY <1>2, <1>5, <1>6, <2>1, OnTheLine
<1>8. q = Line(P, V, L, M, z)
  <2>1. tmi' = Position(t)
    BY <1>1, <1>2, <1>4 DEF MapFrame
  <2> QED BY <1>2, <1>5, <1>6, <2>1, OnTheLine
<1>9. z = y + F * V
  BY <1>5
<1>10. /\ p.num * q.den <= q.num * p.den
       /\ 2 * (q.num * p.den - p.num * q.den) <= F * m * p.den * q.den
  BY <1>3, <1>7, <1>8, <1>9, LineStep
<1> QED BY <1>3, <1>6, <1>10 DEF NoJump

\* A regular note plays its source in order and without a jump, inside it but for
\* a frame past its end, and up to the blank: for every note, every velocity and
\* every frame period of a sample or more.
THEOREM NotesAreInOrder == TimeMapSpec => PlayedInOrder
<1>1. TimeMapSpec => []MapInv
  BY MapInvInit, MapInvStep, PTL DEF TimeMapSpec
<1> QED BY <1>1, InSource, ToBlank, OrderStep, PTL DEF PlayedInOrder, InOrder, TimeMapSpec

-----------------------------------------------------------------------------
(* The characters of a curve *)

CurveValue == -2048 .. 2047

LEMMA DigitIs ==
    \A c : IsDigit(c) => /\ Digit(c) \in 0 .. 9 /\ Digits[Digit(c) + 1] = c
                         /\ c # "#" /\ c # NUL /\ c # "-"
<1>. TAKE c
<1>. SUFFICES ASSUME IsDigit(c)
              PROVE  /\ Digit(c) \in 0 .. 9 /\ Digits[Digit(c) + 1] = c
                     /\ c # "#" /\ c # NUL /\ c # "-"
  OBVIOUS
<1>1. PICK d \in 1 .. 10 : d = (CHOOSE e \in 1 .. 10 : Digits[e] = c) /\ Digits[d] = c
  BY DEF IsDigit
<1>2. Digit(c) = d - 1
  BY <1>1 DEF Digit
<1>3. /\ Digits[1] = "0" /\ Digits[2] = "1" /\ Digits[3] = "2" /\ Digits[4] = "3"
      /\ Digits[5] = "4" /\ Digits[6] = "5" /\ Digits[7] = "6" /\ Digits[8] = "7"
      /\ Digits[9] = "8" /\ Digits[10] = "9"
  BY DEF Digits
<1>4. \/ d = 1 \/ d = 2 \/ d = 3 \/ d = 4 \/ d = 5 \/ d = 6 \/ d = 7 \/ d = 8 \/ d = 9
      \/ d = 10
  OBVIOUS
<1>5. c \in {"0", "1", "2", "3", "4", "5", "6", "7", "8", "9"}
  BY <1>1, <1>3, <1>4
<1>6. c # "#" /\ c # NUL /\ c # "-"
  <2>2. c # "#"
    BY <1>5
  <2>3. c # NUL
    BY <1>5 DEF NUL
  <2>4. c # "-"
    BY <1>5
  <2> QED BY <2>2, <2>3, <2>4
<1>7. Digit(c) \in 0 .. 9 /\ Digit(c) + 1 = d
  BY <1>2
<1> QED BY <1>1, <1>6, <1>7

LEMMA DigitsAreOf ==
    \A t \in 0 .. 9 : IsDigit(Digits[t + 1]) /\ Digit(Digits[t + 1]) = t
<1>. TAKE t \in 0 .. 9
<1>1. t + 1 \in 1 .. 10 /\ IsDigit(Digits[t + 1])
  BY DEF IsDigit
<1>2. PICK d \in 1 .. 10 : d = Digit(Digits[t + 1]) + 1 /\ Digits[d] = Digits[t + 1]
  BY <1>1, DigitIs
<1>3. \A a, b \in 1 .. 10 : Digits[a] = Digits[b] => a = b
  <2>. TAKE a, b \in 1 .. 10
  <2>1. \/ a = 1 \/ a = 2 \/ a = 3 \/ a = 4 \/ a = 5 \/ a = 6 \/ a = 7 \/ a = 8 \/ a = 9
        \/ a = 10
    OBVIOUS
  <2>2. \/ b = 1 \/ b = 2 \/ b = 3 \/ b = 4 \/ b = 5 \/ b = 6 \/ b = 7 \/ b = 8 \/ b = 9
        \/ b = 10
    OBVIOUS
  <2> QED BY <2>1, <2>2 DEF Digits
<1>4. d = t + 1
  BY <1>1, <1>2, <1>3
<1>5. Digit(Digits[t + 1]) \in Int
  BY <1>1, DigitIs
<1> QED BY <1>1, <1>2, <1>4, <1>5

LEMMA get64Is == \A c : get64(c) \in 0 .. 63
BY DigitIs DEF get64

\* Behind the end of the string there is no digit and no mark but the end.
LEMMA EndOfString ==
    ASSUME str \in Seq(STRING)
    PROVE  /\ Len(str) \in Nat
           /\ \A k \in Nat : k >= Len(str) => At(k) = NUL /\ ~IsDigit(At(k))
<1>1. Len(str) \in Nat
  BY LenProperties
<1> QED BY <1>1, DigitIs DEF At

\* The first place from k on that is in S.
LEMMA FirstPlace ==
    ASSUME NEW k \in Nat, NEW m \in Nat, k <= m, NEW S, m \in S
    PROVE  \E e \in k .. m : e \in S /\ \A j \in k .. e - 1 : j \notin S
<1>. DEFINE T == {e \in k .. m : e \in S}
<1>1. T \in SUBSET Nat /\ T # {}
  <2>1. m \in T
    OBVIOUS
  <2> QED BY <2>1
<1>2. PICK e \in T : \A j \in T : e <= j
  BY <1>1, LeastMember
<1>3. ASSUME NEW j \in k .. e - 1 PROVE j \notin S
  <2>1. j \in k .. m /\ ~(e <= j)
    OBVIOUS
  <2> QED BY <1>2, <2>1
<1> QED BY <1>2, <1>3

LEMMA NumberEndIs ==
    ASSUME str \in Seq(STRING), NEW k \in Nat, k <= Len(str)
    PROVE  /\ NumberEnd(k) \in k .. Len(str)
           /\ \A j \in k .. NumberEnd(k) - 1 : IsDigit(At(j))
           /\ ~IsDigit(At(NumberEnd(k)))
<1>. DEFINE S == {j \in Nat : ~IsDigit(At(j))}
<1>1. Len(str) \in Nat /\ Len(str) \in S
  BY EndOfString
<1>2. \E e \in k .. Len(str) : e \in S /\ \A j \in k .. e - 1 : j \notin S
  <2>. HIDE DEF S
  <2> QED BY <1>1, FirstPlace
<1>3. \E e \in k .. Len(str) : (\A j \in k .. e - 1 : IsDigit(At(j))) /\ ~IsDigit(At(e))
  <2>1. PICK e \in k .. Len(str) : e \in S /\ \A j \in k .. e - 1 : j \notin S
    BY <1>2
  <2>2. \A j \in k .. e - 1 : IsDigit(At(j))
    BY <1>1, <2>1
  <2> QED BY <2>1, <2>2
<1> QED BY <1>3 DEF NumberEnd

LEMMA NextMarkIs ==
    ASSUME str \in Seq(STRING), NEW k \in Nat, k <= Len(str)
    PROVE  /\ NextMark(k) \in k .. Len(str)
           /\ At(NextMark(k)) \in {"#", NUL}
           /\ \A j \in k .. NextMark(k) - 1 : At(j) \notin {"#", NUL}
<1>. DEFINE S == {j \in Nat : At(j) \in {"#", NUL}}
<1>1. Len(str) \in Nat /\ Len(str) \in S
  BY EndOfString
<1>2. \E e \in k .. Len(str) : e \in S /\ \A j \in k .. e - 1 : j \notin S
  <2>. HIDE DEF S
  <2> QED BY <1>1, FirstPlace
<1>3. \E e \in k .. Len(str) :
          At(e) \in {"#", NUL} /\ \A j \in k .. e - 1 : At(j) \notin {"#", NUL}
  <2>1. PICK e \in k .. Len(str) : e \in S /\ \A j \in k .. e - 1 : j \notin S
    BY <1>2
  <2>2. \A j \in k .. e - 1 : At(j) \notin {"#", NUL}
    BY <1>1, <2>1
  <2> QED BY <2>1, <2>2
<1> QED BY <1>3 DEF NextMark

\* What the digits make, one after the other.
LEMMA LeadingIs ==
    ASSUME str \in Seq(STRING), NEW k \in Nat, k <= Len(str)
    PROVE  /\ Leading(k)[0] = 0
           /\ \A j \in 1 .. NumberEnd(k) - k :
                 Leading(k)[j] = 10 * Leading(k)[j - 1] + Digit(At(k + j - 1))
           /\ \A j \in 0 .. NumberEnd(k) - k : Leading(k)[j] \in Int
<1>1. PICK m \in Nat : m = NumberEnd(k) - k
  BY NumberEndIs, EndOfString
<1>. DEFINE Next10(h, j) == IF j = 0 THEN 0 ELSE 10 * h[j - 1] + Digit(At(k + j - 1))
            D(j) == IF IsDigit(At(k + j - 1)) THEN Digit(At(k + j - 1)) ELSE 0
            F == [v \in Int \X Nat |-> 10 * v[1] + D(v[2])]
<1>2. \A j : D(j) \in Int
  BY DigitIs
<1>3. \A j \in 1 .. m : D(j) = Digit(At(k + j - 1))
  <2>. TAKE j \in 1 .. m
  <2>1. NumberEnd(k) \in Nat
    BY NumberEndIs, EndOfString
  <2>2. k + j - 1 \in k .. NumberEnd(k) - 1
    BY <1>1, <2>1
  <2>3. IsDigit(At(k + j - 1))
    BY <2>2, NumberEndIs
  <2> QED BY <2>3
<1>. HIDE DEF D
<1>4. F \in [Int \X Nat -> Int]
  BY <1>2
<1>a. \A v \in Int, j \in Nat : F[<<v, j>>] = 10 * v + D(j)
  OBVIOUS
<1>. HIDE DEF F
<1>5. PICK f : f \in [0 .. m -> Int] /\ f[0] = 0 /\ \A j \in 1 .. m : f[j] = F[<<f[j - 1], j>>]
  <2>0. 0 \in Int /\ m \in Nat
    OBVIOUS
  <2>1. \E f : Recursive(f, m, Int, 0, F)
    BY <1>4, <2>0, Recursion
  <2> QED BY <2>1 DEF Recursive
<1>6. ASSUME NEW j \in 0 .. m PROVE f[j] = Next10(f, j)
  <2>1. CASE j = 0
    BY <1>5, <2>1
  <2>2. CASE j # 0
    <3>1. j \in 1 .. m /\ j - 1 \in 0 .. m /\ f[j - 1] \in Int /\ j \in Nat
      BY <1>5, <2>2
    <3>2. f[j] = 10 * f[j - 1] + D(j)
      BY <1>a, <1>5, <3>1
    <3> QED BY <1>3, <2>2, <3>1, <3>2
  <2> QED BY <2>1, <2>2
<1>7. f = [j \in 0 .. m |-> Next10(f, j)]
  <2>1. f = [j \in 0 .. m |-> f[j]]
    BY <1>5
  <2> QED BY <1>6, <2>1
<1>8. PICK g : g = [j \in 0 .. m |-> Next10(g, j)] /\ Leading(k) = g
  <2>1. Leading(k) = CHOOSE g : g = [j \in 0 .. m |-> Next10(g, j)]
    BY <1>1 DEF Leading
  <2> QED BY <1>7, <2>1
<1>9. \A j \in 0 .. m : g[j] = Next10(g, j)
  BY <1>8
<1>10. g[0] = 0 /\ \A j \in 1 .. m : g[j] = 10 * g[j - 1] + Digit(At(k + j - 1))
  BY <1>9
<1>. DEFINE T == {j \in Nat : j <= m => g[j] \in Int}
<1>11. 0 \in T
  BY <1>10
<1>12. ASSUME NEW j \in Nat, j \in T PROVE j + 1 \in T
  <2>1. SUFFICES ASSUME j + 1 <= m PROVE g[j + 1] \in Int
    OBVIOUS
  <2>2. j + 1 \in 1 .. m /\ g[j] \in Int
    BY <1>12, <2>1
  <2>3. g[j + 1] = 10 * g[j] + D(j + 1)
    BY <1>3, <1>10, <2>2
  <2> QED BY <1>2, <2>2, <2>3
<1>. HIDE DEF T
<1>13. \A j \in Nat : j \in T
  BY <1>11, <1>12, Induction
<1>14. \A j \in 0 .. m : g[j] \in Int
  BY <1>13 DEF T
<1> QED BY <1>1, <1>8, <1>10, <1>14

LEMMA NumberIs ==
    ASSUME str \in Seq(STRING), NEW k \in Nat, k <= Len(str), HasNumber(k)
    PROVE  Number(k) \in Int
<1>. DEFINE from == IF Signed(k) THEN k + 1 ELSE k
<1>1. from \in Nat /\ from <= Len(str)
  <2>1. IsDigit(At(from))
    BY DEF HasNumber
  <2> QED BY <2>1, EndOfString
<1>2. NumberEnd(from) - from \in 0 .. NumberEnd(from) - from
  BY <1>1, NumberEndIs, EndOfString
<1>3. Leading(from)[NumberEnd(from) - from] \in Int
  BY <1>1, <1>2, LeadingIs
<1> QED BY <1>3 DEF Number
LEMMA RepeatIs ==
    ASSUME NEW V, NEW v \in V, NEW t \in Int
    PROVE  /\ Repeat(v, t) \in Seq(V)
           /\ Len(Repeat(v, t)) = IF t > 0 THEN t ELSE 0
           /\ \A k \in 1 .. Len(Repeat(v, t)) : Repeat(v, t)[k] = v
<1>. PICK m \in Nat : m = IF t > 0 THEN t ELSE 0
  OBVIOUS
<1>1. 1 .. t = 1 .. m
  OBVIOUS
<1>2. Repeat(v, t) = [k \in 1 .. m |-> v]
  BY <1>1 DEF Repeat
<1>3. [k \in 1 .. m |-> v] \in Seq(V) /\ Len([k \in 1 .. m |-> v]) = m
  OBVIOUS
<1> QED BY <1>2, <1>3

-----------------------------------------------------------------------------
(* decpit(): the curve is within dst and the string is not left *)

DecpitInv ==
    /\ str \in Seq(STRING) /\ cnt \in Counts
    /\ dst \in Seq(CurveValue) /\ Len(dst) <= cnt
    /\ decpitI \in Nat /\ decpitI <= Len(str) + 1
    /\ n \in CurveValue /\ num \in Int
    /\ decpitPc \in {"scan", "done"}

LEMMA DecpitStarts == DecpitInit => DecpitInv
<1>. SUFFICES ASSUME DecpitInit PROVE DecpitInv
  OBVIOUS
<1>1. str \in Seq(STRING)
  BY StringAssumption DEF DecpitInit
<1>2. dst \in Seq(CurveValue) /\ Len(dst) = 0
  BY EmptySeq DEF DecpitInit
<1>3. cnt \in Counts /\ cnt \in Nat /\ num \in Int
  BY CountAssumption, GarbageAssumption DEF DecpitInit
<1>4. Len(str) \in Nat
  BY <1>1, LenProperties
<1> QED BY <1>1, <1>2, <1>3, <1>4 DEF DecpitInit, DecpitInv, CurveValue

LEMMA CurveRange ==
    ASSUME NEW x \in Int, x >= -2048, x <= 2047
    PROVE  x \in CurveValue
BY DEF CurveValue

LEMMA ValueKeeps == DecpitInv /\ Value => DecpitInv'
<1>. SUFFICES ASSUME DecpitInv, Value PROVE DecpitInv'
  OBVIOUS
<1>1. PICK p \in 0 .. 63, q \in 0 .. 63 : p = get64(At(decpitI)) /\ q = get64(At(decpitI + 1))
  BY get64Is
<1>2. PICK v \in Int : v = p * 64 + q
  BY <1>1
<1>3. n' \in CurveValue
  <2>1. v >= 0 /\ v <= 4095
    BY <1>2
  <2>2. n' = IF v > 2047 THEN v - 4096 ELSE v
    <3>. DEFINE u == get64(At(decpitI)) * 64 + get64(At(decpitI + 1))
    <3>1. n' = IF u > 2047 THEN u - 4096 ELSE u
      BY DEF Value
    <3>2. u = v
      BY <1>1, <1>2
    <3>. HIDE DEF u
    <3> QED BY <3>1, <3>2
  <2>3. n' \in Int
    BY <2>1, <2>2
  <2>4. n' >= -2048
    BY <2>1, <2>2
  <2>5. n' <= 2047
    BY <2>1, <2>2
  <2> QED BY <2>3, <2>4, <2>5, CurveRange
<1>4. /\ dst' = IF Len(dst) < cnt THEN Append(dst, n') ELSE dst
      /\ decpitI < Len(str) /\ decpitI' = decpitI + 2
      /\ str' = str /\ cnt' = cnt /\ num' = num /\ decpitPc' = decpitPc
  BY DEF Value
<1>5. dst \in Seq(CurveValue) /\ Len(dst) <= cnt /\ Len(dst) \in Nat /\ Len(str) \in Nat
  BY LenProperties DEF DecpitInv
<1>6. cnt \in Nat /\ decpitI \in Nat
  BY CountAssumption DEF DecpitInv
<1>7. dst' \in Seq(CurveValue) /\ Len(dst') <= cnt
  <2>1. CASE Len(dst) < cnt
    BY <1>3, <1>4, <1>5, <1>6, <2>1, AppendProperties
  <2>2. CASE ~(Len(dst) < cnt)
    BY <1>4, <1>5, <2>2
  <2> QED BY <2>1, <2>2
<1>8. decpitI' \in Nat /\ decpitI' <= Len(str) + 1
  BY <1>4, <1>5, <1>6
<1> QED BY <1>3, <1>4, <1>7, <1>8 DEF DecpitInv

\* What a repetition appends fits.
LEMMA RunFits ==
    ASSUME DecpitInv, NEW m \in Int
    PROVE  LET made == dst \o Repeat(n, Least(m, cnt - Len(dst)))
           IN made \in Seq(CurveValue) /\ Len(made) <= cnt
<1>. DEFINE t == Least(m, cnt - Len(dst))
            r == Repeat(n, t)
<1>1. /\ dst \in Seq(CurveValue) /\ Len(dst) <= cnt /\ Len(dst) \in Nat /\ cnt \in Nat
      /\ n \in CurveValue
  BY LenProperties, CountAssumption DEF DecpitInv
<1>2. t \in Int /\ t <= cnt - Len(dst)
  BY <1>1 DEF Least
<1>. HIDE DEF t
<1>3. r \in Seq(CurveValue) /\ Len(r) = IF t > 0 THEN t ELSE 0
  BY <1>1, <1>2, RepeatIs
<1>. HIDE DEF r
<1>4. dst \o r \in Seq(CurveValue) /\ Len(dst \o r) = Len(dst) + Len(r)
  BY <1>1, <1>3, ConcatProperties
<1>5. Len(dst \o r) <= cnt
  BY <1>1, <1>2, <1>3, <1>4
<1> QED BY <1>4, <1>5 DEF r, t

LEMMA RunKeeps == DecpitInv /\ Run => DecpitInv'
<1>. SUFFICES ASSUME DecpitInv, Run PROVE DecpitInv'
  OBVIOUS
<1>1. decpitI \in Nat /\ decpitI < Len(str) /\ Len(str) \in Nat /\ str \in Seq(STRING)
  BY LenProperties DEF DecpitInv, Run
<1>2. decpitI + 1 \in Nat /\ decpitI + 1 <= Len(str)
  BY <1>1
<1>3. num' \in Int
  <2>1. num' = IF HasNumber(decpitI + 1) THEN Number(decpitI + 1) ELSE num
    BY DEF Run
  <2>2. CASE HasNumber(decpitI + 1)
    BY <1>1, <1>2, <2>1, <2>2, NumberIs
  <2>3. CASE ~HasNumber(decpitI + 1)
    BY <2>1, <2>3 DEF DecpitInv
  <2> QED BY <2>2, <2>3
<1>4. dst' \in Seq(CurveValue) /\ Len(dst') <= cnt
  <2>1. dst' = dst \o Repeat(n, Least(num', cnt - Len(dst)))
    BY DEF Run
  <2> QED BY <1>3, <2>1, RunFits
<1>5. decpitI' \in Nat /\ decpitI' <= Len(str) + 1
  <2>1. PICK e \in (decpitI + 1) .. Len(str) : e = NextMark(decpitI + 1)
    BY <1>1, <1>2, NextMarkIs
  <2>2. decpitI' = e + 1
    BY <2>1 DEF Run
  <2> QED BY <1>1, <2>2
<1>6. str' = str /\ cnt' = cnt /\ n' = n /\ decpitPc' = decpitPc
  BY DEF Run
<1> QED BY <1>3, <1>4, <1>5, <1>6 DEF DecpitInv

LEMMA DecpitInvStep == DecpitInv /\ [DecpitNext]_decpitVars => DecpitInv'
<1>. SUFFICES ASSUME DecpitInv, [DecpitNext]_decpitVars PROVE DecpitInv'
  OBVIOUS
<1>1. CASE Value
  BY <1>1, ValueKeeps
<1>2. CASE Run
  BY <1>2, RunKeeps
<1>3. CASE DecpitReturn
  BY <1>3 DEF DecpitReturn, DecpitInv
<1>4. CASE UNCHANGED decpitVars
  BY <1>4 DEF decpitVars, DecpitInv
<1> QED BY <1>1, <1>2, <1>3, <1>4 DEF DecpitNext, Step, DecpitFinished

LEMMA DecpitTyped == DecpitInv => DecpitTypeOK
<1>. SUFFICES ASSUME DecpitInv PROVE DecpitTypeOK
  OBVIOUS
<1>1. dst \in Seq(CurveValue)
  BY DEF DecpitInv
<1>2. \A k \in 1 .. Len(dst) : dst[k] \in CurveValue
  BY <1>1, ElementOfSeq
<1>3. \A k \in 1 .. Len(dst) : dst[k] \in -2048 .. 2047
  BY <1>2 DEF CurveValue
<1> QED BY <1>3 DEF DecpitInv, DecpitTypeOK, CurveValue

-----------------------------------------------------------------------------
(* Sequences that are put together piece by piece *)

\* J[j] is the first j sequences of A, one after the other.
Joins(J, A, m) == J = [j \in 0 .. m |-> IF j = 0 THEN <<>> ELSE J[j - 1] \o A[j]]

LEMMA JoinedExist ==
    ASSUME NEW m \in Nat, NEW V, NEW A \in [1 .. m -> Seq(V)]
    PROVE  \E J : Joins(J, A, m)
<1>. DEFINE S == Seq(V)
            F == [v \in S \X Nat |-> IF v[2] \in 1 .. m THEN v[1] \o A[v[2]] ELSE v[1]]
            e == <<>>
<1>1. e \in S
  BY EmptySeq
<1>2. F \in [S \X Nat -> S]
  <2>1. ASSUME NEW v \in S \X Nat
        PROVE  (IF v[2] \in 1 .. m THEN v[1] \o A[v[2]] ELSE v[1]) \in S
    <3>1. CASE v[2] \in 1 .. m
      <4>1. v[1] \in Seq(V) /\ A[v[2]] \in Seq(V)
        BY <3>1
      <4>2. v[1] \o A[v[2]] \in Seq(V)
        BY <4>1, ConcatProperties
      <4> QED BY <3>1, <4>2
    <3>2. CASE v[2] \notin 1 .. m
      BY <3>2
    <3> QED BY <3>1, <3>2
  <2> QED BY <2>1
<1>3. \A s \in S, j \in 1 .. m : F[<<s, j>>] = s \o A[j]
  <2>. TAKE s \in S, j \in 1 .. m
  <2>1. <<s, j>> \in S \X Nat
    OBVIOUS
  <2> QED BY <2>1
<1>. HIDE DEF F, S, e
<1>4. PICK f : f \in [0 .. m -> S] /\ f[0] = e /\ \A j \in 1 .. m : f[j] = F[<<f[j - 1], j>>]
  <2>1. \E f : Recursive(f, m, S, e, F)
    BY <1>1, <1>2, Recursion
  <2> QED BY <2>1 DEF Recursive
<1>5. ASSUME NEW j \in 0 .. m
      PROVE  f[j] = IF j = 0 THEN <<>> ELSE f[j - 1] \o A[j]
  <2>1. CASE j = 0
    BY <1>4, <2>1 DEF e
  <2>2. CASE j # 0
    <3>1. j \in 1 .. m /\ j - 1 \in 0 .. m
      BY <2>2
    <3>2. f[j - 1] \in S
      BY <1>4, <3>1
    <3>3. f[j] = f[j - 1] \o A[j]
      BY <1>3, <1>4, <3>1, <3>2
    <3> QED BY <2>2, <3>3
  <2> QED BY <2>1, <2>2
<1>6. f = [j \in 0 .. m |-> f[j]]
  BY <1>4
<1>7. f = [j \in 0 .. m |-> IF j = 0 THEN <<>> ELSE f[j - 1] \o A[j]]
  BY <1>5, <1>6
<1> QED BY <1>7 DEF Joins

LEMMA JoinSteps ==
    ASSUME NEW m \in Nat, NEW V, NEW A \in [1 .. m -> Seq(V)], NEW J, Joins(J, A, m)
    PROVE  /\ J[0] = <<>>
           /\ \A j \in 1 .. m : J[j] = J[j - 1] \o A[j]
           /\ \A j \in 0 .. m : J[j] \in Seq(V)
<1>1. \A j \in 0 .. m : J[j] = IF j = 0 THEN <<>> ELSE J[j - 1] \o A[j]
  BY DEF Joins
<1>2. J[0] = <<>> /\ \A j \in 1 .. m : J[j] = J[j - 1] \o A[j]
  <2>1. J[0] = <<>>
    <3>1. 0 \in 0 .. m
      OBVIOUS
    <3> QED BY <1>1, <3>1
  <2>2. ASSUME NEW j \in 1 .. m PROVE J[j] = J[j - 1] \o A[j]
    <3>1. j \in 0 .. m /\ j # 0
      OBVIOUS
    <3> QED BY <1>1, <3>1
  <2> QED BY <2>1, <2>2
<1>. DEFINE T == {j \in Nat : j <= m => J[j] \in Seq(V)}
<1>3. 0 \in T
  BY <1>2, EmptySeq
<1>4. ASSUME NEW j \in Nat, j \in T PROVE j + 1 \in T
  <2>. SUFFICES ASSUME j + 1 <= m PROVE J[j + 1] \in Seq(V)
    OBVIOUS
  <2>1. j + 1 \in 1 .. m /\ J[j] \in Seq(V)
    BY <1>4
  <2>2. J[j + 1] = J[j] \o A[j + 1] /\ A[j + 1] \in Seq(V)
    <3>1. (j + 1) - 1 = j
      OBVIOUS
    <3> QED BY <1>2, <2>1, <3>1
  <2>3. J[j] \o A[j + 1] \in Seq(V)
    BY <2>1, <2>2, ConcatProperties
  <2> QED BY <2>2, <2>3
<1>. HIDE DEF T
<1>5. \A j \in Nat : j \in T
  BY <1>3, <1>4, Induction
<1>6. \A j \in 0 .. m : J[j] \in Seq(V)
  BY <1>5 DEF T
<1> QED BY <1>2, <1>6

\* t begins with s.
Begins(s, t) == Len(s) <= Len(t) /\ \A k \in 1 .. Len(s) : t[k] = s[k]

\* Each of them begins with those before it.
LEMMA JoinsGrow ==
    ASSUME NEW m \in Nat, NEW V, NEW A \in [1 .. m -> Seq(V)], NEW J, Joins(J, A, m),
           NEW j \in 0 .. m
    PROVE  \A x \in j .. m : Begins(J[j], J[x])
<1>. DEFINE T == {x \in Nat : j + x <= m => Begins(J[j], J[j + x])}
<1>1. \A x \in 0 .. m : J[x] \in Seq(V) /\ Len(J[x]) \in Nat
  BY JoinSteps, LenProperties
<1>a. \A x \in 1 .. m : J[x] = J[x - 1] \o A[x]
  <2>1. /\ J[0] = <<>>
        /\ \A x \in 1 .. m : J[x] = J[x - 1] \o A[x]
        /\ \A x \in 0 .. m : J[x] \in Seq(V)
    BY Zenon, JoinSteps
  <2> QED BY <2>1
<1>2. 0 \in T
  BY <1>1 DEF Begins
<1>3. ASSUME NEW x \in Nat, x \in T PROVE x + 1 \in T
  <2>. SUFFICES ASSUME j + (x + 1) <= m PROVE Begins(J[j], J[j + (x + 1)])
    OBVIOUS
  <2>. PICK y \in 1 .. m : y = j + (x + 1)
    OBVIOUS
  <2>1. y - 1 \in 0 .. m /\ y \in 0 .. m /\ y - 1 = j + x
    OBVIOUS
  <2>2. Begins(J[j], J[y - 1])
    BY <1>3, <2>1
  <2>3. J[y] = J[y - 1] \o A[y] /\ A[y] \in Seq(V) /\ J[y - 1] \in Seq(V)
    BY <1>1, <1>a, <2>1
  <2>4. /\ Len(J[y]) = Len(J[y - 1]) + Len(A[y]) /\ Len(A[y]) \in Nat
        /\ \A k \in 1 .. Len(J[y - 1]) : J[y][k] = J[y - 1][k]
    <3>. DEFINE a == J[y - 1]
                b == A[y]
    <3>1. a \in Seq(V) /\ b \in Seq(V) /\ J[y] = a \o b
      BY <2>3
    <3>. HIDE DEF a, b
    <3>2. Len(a) \in Nat /\ Len(b) \in Nat
      BY <3>1, LenProperties
    <3>3. /\ Len(a \o b) = Len(a) + Len(b)
          /\ \A k \in 1 .. Len(a) + Len(b) :
                (a \o b)[k] = IF k <= Len(a) THEN a[k] ELSE b[k - Len(a)]
      BY <3>1, ConcatProperties
    <3>4. \A k \in 1 .. Len(a) : (a \o b)[k] = a[k]
      BY <3>2, <3>3
    <3> QED BY <3>1, <3>2, <3>3, <3>4 DEF a, b
  <2>5. Begins(J[j], J[y])
    <3>1. Len(J[j]) \in Nat /\ Len(J[y - 1]) \in Nat
      BY <1>1, <2>1
    <3>2. Len(J[j]) <= Len(J[y - 1]) /\ \A k \in 1 .. Len(J[j]) : J[y - 1][k] = J[j][k]
      BY <2>2 DEF Begins
    <3>3. \A k \in 1 .. Len(J[j]) : J[y][k] = J[j][k]
      BY <2>4, <3>1, <3>2
    <3>4. Len(J[j]) <= Len(J[y])
      <4>1. \A a, b, c, d \in Nat : a <= b /\ d = b + c => a <= d
        OBVIOUS
      <4>2. Len(J[y]) \in Nat
        BY <1>1, <2>1
      <4>3. Len(J[y]) = Len(J[y - 1]) + Len(A[y]) /\ Len(A[y]) \in Nat
        BY <2>4
      <4>4. Len(J[j]) <= Len(J[y - 1])
        BY <3>2
      <4>5. Len(J[j]) \in Nat
        BY <3>1
      <4>6. Len(J[y - 1]) \in Nat
        BY <3>1
      <4>7. Len(A[y]) \in Nat
        BY <4>3
      <4>8. Len(J[y]) = Len(J[y - 1]) + Len(A[y])
        BY <4>3
      <4> HIDE DEF T
      <4> QED BY Zenon, <4>1, <4>2, <4>4, <4>5, <4>6, <4>7, <4>8
    <3> QED BY <3>3, <3>4 DEF Begins
  <2> QED BY <2>5
<1>. HIDE DEF T
<1>4. \A x \in Nat : x \in T
  BY <1>2, <1>3, Induction
<1>5. ASSUME NEW x \in j .. m PROVE Begins(J[j], J[x])
  <2>1. x - j \in Nat /\ j + (x - j) = x
    OBVIOUS
  <2>2. x - j \in T
    BY <1>4, <2>1
  <2> QED BY <2>1, <2>2 DEF T
<1> QED BY <1>5

-----------------------------------------------------------------------------
(* What a value of a curve is written as *)

Letters == Spelling \cup {"#"} \cup {Digits[t + 1] : t \in Once .. 9}

\* A value and its repetitions, as a curve has them.
Element == CurveValue \X (Once .. 9)

LEMMA CharIs ==
    ASSUME NEW d, \E c \in Spelling : get64(c) = d
    PROVE  Char(d) \in Spelling /\ get64(Char(d)) = d /\ Char(d) # "#"
<1>1. Char(d) \in Spelling /\ get64(Char(d)) = d
  BY DEF Char
<1>2. "#" \notin Spelling
  BY DEF Spelling
<1> QED BY <1>1, <1>2

LEMMA WrappedIs ==
    \A v \in CurveValue :
        /\ Wrapped(v) \in 0 .. 4095
        /\ v = IF Wrapped(v) > 2047 THEN Wrapped(v) - 4096 ELSE Wrapped(v)
<1>. TAKE v \in CurveValue
<1>1. v \in Int /\ v >= -2048 /\ v <= 2047
  BY DEF CurveValue
<1>2. CASE v < 0
  <2>1. Wrapped(v) = v + 4096
    BY <1>2 DEF Wrapped
  <2> QED BY <1>1, <1>2, <2>1
<1>3. CASE ~(v < 0)
  <2>1. Wrapped(v) = v
    BY <1>3 DEF Wrapped
  <2> QED BY <1>1, <1>3, <2>1
<1> QED BY <1>2, <1>3

LEMMA EncodedIs ==
    ASSUME NEW v \in CurveValue, Spelled(v), NEW t \in Once .. 9
    PROVE  /\ Encoded(v, t) \in Seq(Letters)
           /\ Len(Encoded(v, t)) = IF t = Once THEN 2 ELSE 5
           /\ Encoded(v, t)[1] # "#"
           /\ get64(Encoded(v, t)[1]) * 64 + get64(Encoded(v, t)[2]) = Wrapped(v)
           /\ t # Once => /\ Encoded(v, t)[3] = "#"
                          /\ Encoded(v, t)[4] = Digits[t + 1]
                          /\ Encoded(v, t)[5] = "#"
<1>. DEFINE w == Wrapped(v)
            a == Char(w \div 64)
            b == Char(w % 64)
            d == Digits[t + 1]
<1>1. w \in 0 .. 4095
  BY WrappedIs
<1>2. a \in Spelling /\ get64(a) = w \div 64 /\ a # "#"
  <2>1. \E c \in Spelling : get64(c) = w \div 64
    BY DEF Spelled
  <2> QED BY <2>1, CharIs
<1>3. b \in Spelling /\ get64(b) = w % 64
  <2>1. \E c \in Spelling : get64(c) = w % 64
    BY DEF Spelled
  <2> QED BY <2>1, CharIs
<1>4. get64(a) * 64 + get64(b) = w
  <2>2. get64(a) * 64 + get64(b) = (w \div 64) * 64 + (w % 64)
    BY <1>2, <1>3
  <2>3. (w \div 64) * 64 + (w % 64) = w
    <3>. PICK x \in 0 .. 4095 : x = w
      BY <1>1
    <3>1. (x \div 64) * 64 + (x % 64) = x
      OBVIOUS
    <3> QED BY <3>1
  <2> QED BY <2>2, <2>3
<1>5. a \in Letters /\ b \in Letters /\ "#" \in Letters /\ d \in Letters
  BY <1>2, <1>3 DEF Letters
<1>6. Encoded(v, t) = <<a, b>> \o IF t = Once THEN <<>> ELSE <<"#", d, "#">>
  BY DEF Encoded
<1>. HIDE DEF a, b, d, w
<1>7. <<a, b>> \in Seq(Letters) /\ Len(<<a, b>>) = 2
  BY <1>5
<1>8. CASE t = Once
  <2>1. Encoded(v, t) = <<a, b>>
    BY <1>6, <1>7, <1>8, ConcatEmptySeq
  <2> QED BY <1>2, <1>4, <1>7, <1>8, <2>1 DEF w
<1>9. CASE t # Once
  <2>1. <<"#", d, "#">> \in Seq(Letters) /\ Len(<<"#", d, "#">>) = 3
    BY <1>5
  <2>2. PICK s : s = <<a, b>> \o <<"#", d, "#">>
    OBVIOUS
  <2>3. s \in Seq(Letters) /\ Len(s) = 5
    BY <1>7, <2>1, <2>2, ConcatProperties
  <2>4. s[1] = a /\ s[2] = b /\ s[3] = "#" /\ s[4] = d /\ s[5] = "#"
    BY <2>2
  <2>5. Encoded(v, t) = s
    BY <1>6, <1>9, <2>2
  <2> QED BY <1>2, <1>4, <1>9, <2>3, <2>4, <2>5 DEF w, d
<1> QED BY <1>8, <1>9

-----------------------------------------------------------------------------
(* Repetitions, and the part of a curve that fits *)

LEMMA Repeated ==
    ASSUME NEW V, NEW v \in V, NEW t \in Nat
    PROVE  /\ Repeat(v, t) \in Seq(V)
           /\ Len(Repeat(v, t)) = t
           /\ \A k \in 1 .. t : Repeat(v, t)[k] = v
<1>1. t \in Int
  OBVIOUS
<1>2. /\ Repeat(v, t) \in Seq(V)
      /\ Len(Repeat(v, t)) = IF t > 0 THEN t ELSE 0
      /\ \A k \in 1 .. Len(Repeat(v, t)) : Repeat(v, t)[k] = v
  BY <1>1, RepeatIs
<1>3. Len(Repeat(v, t)) = t
  BY <1>2
<1> QED BY <1>2, <1>3

LEMMA RepeatMore ==
    ASSUME NEW V, NEW s \in Seq(V), NEW v \in V, NEW t \in Nat
    PROVE  /\ s \o Repeat(v, 1) = Append(s, v)
           /\ s \o Repeat(v, t + 1) = Append(s, v) \o Repeat(v, t)
<1>1. s \o Repeat(v, 1) = Append(s, v)
  <2>0. PICK o \in Nat : o = 1
    OBVIOUS
  <2>1. PICK r : r = Repeat(v, o)
    OBVIOUS
  <2>a. r \in Seq(V) /\ Len(r) = o /\ \A k \in 1 .. o : r[k] = v
    BY <2>1, Repeated
  <2>2. r \in Seq(V) /\ Len(r) = 1 /\ r[1] = v
    BY <2>0, <2>a
  <2>3. s \o r \in Seq(V) /\ Len(s \o r) = Len(s) + 1
        /\ \A k \in 1 .. Len(s) + 1 : (s \o r)[k] = IF k <= Len(s) THEN s[k] ELSE r[k - Len(s)]
    <3>1. /\ s \o r \in Seq(V) /\ Len(s \o r) = Len(s) + Len(r)
          /\ \A k \in 1 .. Len(s) + Len(r) :
                (s \o r)[k] = IF k <= Len(s) THEN s[k] ELSE r[k - Len(s)]
      BY <2>2, ConcatProperties
    <3> QED BY <2>2, <3>1
  <2>4. /\ Append(s, v) \in Seq(V) /\ Len(Append(s, v)) = Len(s) + 1
        /\ \A k \in 1 .. Len(s) : Append(s, v)[k] = s[k]
        /\ Append(s, v)[Len(s) + 1] = v
    BY AppendProperties
  <2>5. Len(s) \in Nat
    BY LenProperties
  <2>6. ASSUME NEW k \in 1 .. Len(s) + 1 PROVE (s \o r)[k] = Append(s, v)[k]
    <3>1. CASE k <= Len(s)
      <4>1. k \in 1 .. Len(s)
        BY <2>5, <3>1
      <4>2. (s \o r)[k] = s[k]
        BY <2>3, <3>1
      <4> QED BY <2>4, <4>1, <4>2
    <3>2. CASE k = Len(s) + 1
      <4>1. k - Len(s) = 1 /\ ~(k <= Len(s))
        BY <2>5, <3>2
      <4>2. (s \o r)[k] = r[k - Len(s)]
        BY <2>3, <4>1
      <4>3. (s \o r)[k] = v
        BY <2>2, <4>1, <4>2
      <4>4. Append(s, v)[k] = v
        BY <2>4, <3>2
      <4> QED BY <4>3, <4>4
    <3>3. k <= Len(s) \/ k = Len(s) + 1
      BY <2>5
    <3> QED BY Zenon, <3>1, <3>2, <3>3
  <2>7. s \o r = Append(s, v)
    <3>. DEFINE p == s \o r
                q == Append(s, v)
    <3>1. p \in Seq(V) /\ q \in Seq(V) /\ Len(p) = Len(q) /\ \A k \in 1 .. Len(p) : p[k] = q[k]
      BY <2>3, <2>4, <2>6
    <3>. HIDE DEF p, q
    <3>2. p = q
      BY <3>1, SeqEqual
    <3> QED BY <3>2 DEF p, q
  <2> QED BY <2>0, <2>1, <2>7
<1>2. Repeat(v, t + 1) = Repeat(v, 1) \o Repeat(v, t)
  <2>1. PICK m, o \in Nat : m = t + 1 /\ o = 1
    OBVIOUS
  <2>2. PICK r, q, p : r = Repeat(v, o) /\ q = Repeat(v, t) /\ p = Repeat(v, m)
    OBVIOUS
  <2>a. r \in Seq(V) /\ Len(r) = o /\ \A k \in 1 .. o : r[k] = v
    BY <2>2, Repeated
  <2>b. q \in Seq(V) /\ Len(q) = t /\ \A k \in 1 .. t : q[k] = v
    BY <2>2, Repeated
  <2>c. p \in Seq(V) /\ Len(p) = m /\ \A k \in 1 .. m : p[k] = v
    BY <2>2, Repeated
  <2>3. /\ r \in Seq(V) /\ Len(r) = 1 /\ r[1] = v
        /\ q \in Seq(V) /\ Len(q) = t /\ (\A k \in 1 .. Len(q) : q[k] = v)
        /\ p \in Seq(V) /\ Len(p) = m /\ (\A k \in 1 .. Len(p) : p[k] = v)
    BY <2>1, <2>a, <2>b, <2>c
  <2>4. r \o q \in Seq(V) /\ Len(r \o q) = 1 + t
        /\ \A k \in 1 .. 1 + t : (r \o q)[k] = IF k <= 1 THEN r[k] ELSE q[k - 1]
    <3>1. /\ r \o q \in Seq(V) /\ Len(r \o q) = Len(r) + Len(q)
          /\ \A k \in 1 .. Len(r) + Len(q) :
                (r \o q)[k] = IF k <= Len(r) THEN r[k] ELSE q[k - Len(r)]
      BY <2>3, ConcatProperties
    <3> QED BY <2>3, <3>1
  <2>5. ASSUME NEW k \in 1 .. 1 + t PROVE (r \o q)[k] = v
    BY <2>3, <2>4
  <2>6. p = r \o q
    <3>. DEFINE z == r \o q
    <3>1. z \in Seq(V) /\ Len(z) = Len(p) /\ \A k \in 1 .. Len(p) : p[k] = z[k]
      BY <2>1, <2>3, <2>4, <2>5
    <3>. HIDE DEF z
    <3>2. p = z
      BY <2>3, <3>1, SeqEqual
    <3> QED BY <3>2 DEF z
  <2> QED BY <2>1, <2>2, <2>6
<1>3. Repeat(v, 1) \in Seq(V) /\ Repeat(v, t) \in Seq(V)
  BY RepeatIs
<1>4. s \o (Repeat(v, 1) \o Repeat(v, t)) = (s \o Repeat(v, 1)) \o Repeat(v, t)
  BY <1>3, ConcatAssociative
<1> QED BY <1>1, <1>2, <1>4

\* What is kept of s in c places.
Kept(s, c) == SubSeq(s, 1, Least(c, Len(s)))

LEMMA KeptIs ==
    ASSUME NEW V, NEW s \in Seq(V), NEW c \in Nat
    PROVE  /\ Kept(s, c) \in Seq(V)
           /\ Len(Kept(s, c)) = Least(c, Len(s))
           /\ \A k \in 1 .. Least(c, Len(s)) : Kept(s, c)[k] = s[k]
<1>1. PICK m \in Nat : m = Least(c, Len(s)) /\ m <= Len(s)
  BY LenProperties DEF Least
<1>2. \A k \in 1 .. m : s[k] \in V
  BY <1>1, LenProperties, ElementOfSeq
<1>3. /\ SubSeq(s, 1, m) \in Seq(V)
      /\ Len(SubSeq(s, 1, m)) = IF 1 <= m THEN (m - 1) + 1 ELSE 0
      /\ \A k \in 1 .. (m - 1) + 1 : SubSeq(s, 1, m)[k] = s[(1 + k) - 1]
  BY <1>2, SubSeqProperties
<1>4. Kept(s, c) = SubSeq(s, 1, m)
  BY <1>1 DEF Kept
<1>5. Len(SubSeq(s, 1, m)) = m /\ \A k \in 1 .. m : SubSeq(s, 1, m)[k] = s[k]
  BY <1>3
<1> QED BY <1>1, <1>3, <1>4, <1>5

\* What fits of t more of v behind what was kept is what is kept of all.
LEMMA Filled ==
    ASSUME NEW V, NEW s \in Seq(V), NEW c \in Nat, NEW v \in V, NEW t \in Nat
    PROVE  Kept(s, c) \o Repeat(v, Least(t, c - Len(Kept(s, c)))) = Kept(s \o Repeat(v, t), c)
<1>1. PICK r, a : r = Repeat(v, t) /\ a = s \o r
  OBVIOUS
<1>2. r \in Seq(V) /\ Len(r) = t /\ (\A k \in 1 .. t : r[k] = v) /\ Len(s) \in Nat
  <2>1. r \in Seq(V) /\ Len(r) = t /\ \A k \in 1 .. t : r[k] = v
    BY <1>1, Repeated
  <2>2. Len(s) \in Nat
    BY LenProperties
  <2> QED BY <2>1, <2>2
<1>3. a \in Seq(V) /\ Len(a) = Len(s) + t
      /\ \A k \in 1 .. Len(s) + t : a[k] = IF k <= Len(s) THEN s[k] ELSE r[k - Len(s)]
  BY <1>1, <1>2, ConcatProperties
<1>4. PICK d, e : d = Kept(s, c) /\ e = Kept(a, c)
  OBVIOUS
<1>5. PICK m, x \in Nat : m = Least(c, Len(s)) /\ x = Least(c, Len(s) + t)
  BY <1>2 DEF Least
<1>6. d \in Seq(V) /\ Len(d) = m /\ \A k \in 1 .. m : d[k] = s[k]
  BY <1>4, <1>5, KeptIs
<1>7. e \in Seq(V) /\ Len(e) = x /\ \A k \in 1 .. x : e[k] = a[k]
  <2>1. a \in Seq(V) /\ x = Least(c, Len(a))
    BY <1>3, <1>5
  <2> QED BY <1>4, <2>1, KeptIs
<1>8. PICK y \in Nat : y = Least(t, c - m) /\ x = m + y
  <2>1. m = (IF c < Len(s) THEN c ELSE Len(s))
        /\ x = (IF c < Len(s) + t THEN c ELSE Len(s) + t)
    BY <1>5 DEF Least
  <2>a. Least(t, c - m) = (IF t < c - m THEN t ELSE c - m)
    BY DEF Least
  <2>2. PICK z \in Int : z = Least(t, c - m) /\ z = (IF t < c - m THEN t ELSE c - m)
    BY <2>a
  <2>3. z \in Nat /\ x = m + z
    BY <1>2, <2>1, <2>2
  <2> QED BY <2>2, <2>3
<1>9. PICK q : q = Repeat(v, y)
  OBVIOUS
<1>10. q \in Seq(V) /\ Len(q) = y /\ \A k \in 1 .. y : q[k] = v
  BY <1>9, Repeated
<1>11. d \o q \in Seq(V) /\ Len(d \o q) = x
       /\ \A k \in 1 .. x : (d \o q)[k] = IF k <= m THEN d[k] ELSE q[k - m]
  BY <1>6, <1>8, <1>10, ConcatProperties
<1>12. ASSUME NEW k \in 1 .. x PROVE (d \o q)[k] = e[k]
  <2>0. m <= Len(s) /\ x <= Len(s) + t /\ (m < Len(s) => x = m)
    BY <1>2, <1>5 DEF Least
  <2>1. CASE k <= m
    <3>1. k \in 1 .. m /\ k <= Len(s) /\ k \in 1 .. Len(s) + t
      BY <1>2, <2>0, <2>1
    <3>2. (d \o q)[k] = s[k]
      BY <1>6, <1>11, <2>1, <3>1
    <3>3. e[k] = s[k]
      BY <1>3, <1>7, <3>1
    <3> QED BY <3>2, <3>3
  <2>2. CASE ~(k <= m)
    <3>1. m = Len(s) /\ k - m \in 1 .. y /\ k - m \in 1 .. t /\ k \in 1 .. Len(s) + t
      BY <1>2, <1>8, <2>0, <2>2
    <3>2. (d \o q)[k] = v
      BY <1>10, <1>11, <2>2, <3>1
    <3>3. ~(k <= Len(s)) /\ k - Len(s) = k - m
      BY <2>2, <3>1
    <3>4. a[k] = r[k - Len(s)]
      BY <1>3, <3>1, <3>3
    <3>5. e[k] = v
      BY <1>2, <1>7, <3>1, <3>3, <3>4
    <3> QED BY <3>2, <3>5
  <2> QED BY <2>1, <2>2
<1>13. d \o q = e
  <2>. DEFINE z == d \o q
  <2>1. z \in Seq(V) /\ Len(z) = Len(e) /\ \A k \in 1 .. Len(z) : z[k] = e[k]
    BY <1>7, <1>11, <1>12
  <2>. HIDE DEF z
  <2>2. z = e
    BY <1>7, <2>1, SeqEqual
  <2> QED BY <2>2 DEF z
<1> QED BY <1>1, <1>4, <1>6, <1>8, <1>9, <1>13

LEMMA FilledByOne ==
    ASSUME NEW V, NEW s \in Seq(V), NEW c \in Nat, NEW v \in V
    PROVE  (IF Len(Kept(s, c)) < c THEN Append(Kept(s, c), v) ELSE Kept(s, c))
               = Kept(Append(s, v), c)
<1>1. PICK d : d = Kept(s, c)
  OBVIOUS
<1>2. d \in Seq(V) /\ Len(d) \in Nat /\ Len(d) <= c
  <2>1. Len(s) \in Nat
    BY LenProperties
  <2> QED BY <1>1, <2>1, KeptIs, LenProperties DEF Least
<1>3. d \o Repeat(v, Least(1, c - Len(d))) = Kept(Append(s, v), c)
  <2>0. PICK t \in Nat : t = 1
    OBVIOUS
  <2>1. d \o Repeat(v, Least(t, c - Len(d))) = Kept(s \o Repeat(v, t), c)
    BY <1>1, Filled
  <2>2. s \o Repeat(v, t) = Append(s, v)
    BY <2>0, RepeatMore
  <2> QED BY <2>0, <2>1, <2>2
<1>4. CASE Len(d) < c
  <2>1. Least(1, c - Len(d)) = 1
    BY <1>2, <1>4 DEF Least
  <2>2. d \o Repeat(v, 1) = Append(d, v)
    BY <1>2, RepeatMore
  <2> QED BY <1>1, <1>3, <1>4, <2>1, <2>2
<1>5. CASE ~(Len(d) < c)
  <2>1. Least(1, c - Len(d)) = 0
    BY <1>2, <1>5 DEF Least
  <2>2. Repeat(v, 0) = <<>>
    <3>0. PICK z \in Nat : z = 0
      OBVIOUS
    <3>1. Repeat(v, z) \in Seq(V) /\ Len(Repeat(v, z)) = z
      BY Repeated
    <3> QED BY <3>0, <3>1, EmptySeq
  <2>3. d \o Repeat(v, 0) = d
    BY <1>2, <2>2, ConcatEmptySeq
  <2> QED BY <1>1, <1>3, <1>5, <2>1, <2>3
<1> QED BY <1>4, <1>5

-----------------------------------------------------------------------------
(* decpit(): a curve is decoded as what it was encoded from *)

IsCurve(c) == c \in Seq(Element) /\ \A k \in 1 .. Len(c) : Spelled(c[k][1])

LEMMA ElementIs ==
    ASSUME NEW c, IsCurve(c), NEW k \in 1 .. Len(c)
    PROVE  c[k][1] \in CurveValue /\ c[k][2] \in Once .. 9 /\ Spelled(c[k][1])
<1>1. c[k] \in Element
  BY ElementOfSeq DEF IsCurve
<1> QED BY <1>1 DEF IsCurve, Element

\* The strings of the first elements of a curve.
LEMMA EncodingsAre ==
    ASSUME NEW c, IsCurve(c)
    PROVE  LET E == Encodings(c) IN
           /\ E[0] = <<>>
           /\ \A j \in 1 .. Len(c) : E[j] = E[j - 1] \o Encoded(c[j][1], c[j][2])
           /\ \A j \in 0 .. Len(c) : E[j] \in Seq(Letters)
           /\ \A j \in 0 .. Len(c) : \A x \in j .. Len(c) : Begins(E[j], E[x])
<1>1. PICK m \in Nat : m = Len(c)
  BY LenProperties DEF IsCurve
<1>2. PICK A : A = [j \in 1 .. m |-> Encoded(c[j][1], c[j][2])]
  OBVIOUS
<1>3. A \in [1 .. m -> Seq(Letters)]
  <2>1. ASSUME NEW j \in 1 .. m PROVE Encoded(c[j][1], c[j][2]) \in Seq(Letters)
    BY <1>1, ElementIs, EncodedIs
  <2> QED BY <1>2, <2>1
<1>4. Joins(Encodings(c), A, m)
  <2>1. PICK J : Joins(J, A, m)
    BY <1>3, JoinedExist
  <2>2. \A h : Joins(h, A, m) <=>
            h = [j \in 0 .. m |-> IF j = 0 THEN <<>>
                                  ELSE h[j - 1] \o Encoded(c[j][1], c[j][2])]
    <3>. TAKE h
    <3>1. \A j \in 0 .. m : j = 0 \/ (j \in 1 .. m /\ A[j] = Encoded(c[j][1], c[j][2]))
      BY <1>2
    <3>2. [j \in 0 .. m |-> IF j = 0 THEN <<>> ELSE h[j - 1] \o A[j]]
          = [j \in 0 .. m |-> IF j = 0 THEN <<>>
                              ELSE h[j - 1] \o Encoded(c[j][1], c[j][2])]
      BY <3>1
    <3> QED BY <3>2 DEF Joins
  <2>3. Encodings(c) = CHOOSE h :
            h = [j \in 0 .. m |-> IF j = 0 THEN <<>>
                                  ELSE h[j - 1] \o Encoded(c[j][1], c[j][2])]
    BY <1>1 DEF Encodings
  <2> QED BY <2>1, <2>2, <2>3
<1>5. PICK E : E = Encodings(c)
  OBVIOUS
<1>6. /\ E[0] = <<>>
      /\ \A j \in 1 .. m : E[j] = E[j - 1] \o A[j]
      /\ \A j \in 0 .. m : E[j] \in Seq(Letters)
  <2>1. Joins(E, A, m)
    BY <1>4, <1>5
  <2> QED BY Zenon, <1>3, <2>1, JoinSteps
<1>7. \A j \in 1 .. m : E[j] = E[j - 1] \o Encoded(c[j][1], c[j][2])
  BY <1>2, <1>6
<1>8. ASSUME NEW j \in 0 .. m PROVE \A x \in j .. m : Begins(E[j], E[x])
  <2>1. Joins(E, A, m)
    BY <1>4, <1>5
  <2> QED BY Zenon, <1>3, <2>1, JoinsGrow
<1> QED BY <1>1, <1>5, <1>6, <1>7, <1>8

\* The steps of the first elements of a curve.
LEMMA ExpansionsAre ==
    ASSUME NEW c, IsCurve(c)
    PROVE  LET X == Expansions(c) IN
           /\ X[0] = <<>>
           /\ \A j \in 1 .. Len(c) : X[j] = X[j - 1] \o Repeat(c[j][1], c[j][2] + 1)
           /\ \A j \in 0 .. Len(c) : X[j] \in Seq(CurveValue)
<1>1. PICK m \in Nat : m = Len(c)
  BY LenProperties DEF IsCurve
<1>2. PICK A : A = [j \in 1 .. m |-> Repeat(c[j][1], c[j][2] + 1)]
  OBVIOUS
<1>3. A \in [1 .. m -> Seq(CurveValue)]
  <2>1. ASSUME NEW j \in 1 .. m PROVE Repeat(c[j][1], c[j][2] + 1) \in Seq(CurveValue)
    <3>1. c[j][1] \in CurveValue /\ c[j][2] \in Once .. 9
      BY <1>1, ElementIs
    <3>2. c[j][2] + 1 \in Nat
      BY <3>1 DEF Once
    <3> QED BY <3>1, <3>2, Repeated
  <2> QED BY <1>2, <2>1
<1>4. Joins(Expansions(c), A, m)
  <2>1. PICK J : Joins(J, A, m)
    BY <1>3, JoinedExist
  <2>2. \A h : Joins(h, A, m) <=>
            h = [j \in 0 .. m |-> IF j = 0 THEN <<>>
                                  ELSE h[j - 1] \o Repeat(c[j][1], c[j][2] + 1)]
    <3>. TAKE h
    <3>1. \A j \in 0 .. m : j = 0 \/ (j \in 1 .. m /\ A[j] = Repeat(c[j][1], c[j][2] + 1))
      BY <1>2
    <3>2. [j \in 0 .. m |-> IF j = 0 THEN <<>> ELSE h[j - 1] \o A[j]]
          = [j \in 0 .. m |-> IF j = 0 THEN <<>>
                              ELSE h[j - 1] \o Repeat(c[j][1], c[j][2] + 1)]
      BY <3>1
    <3> QED BY <3>2 DEF Joins
  <2>3. Expansions(c) = CHOOSE h :
            h = [j \in 0 .. m |-> IF j = 0 THEN <<>>
                                  ELSE h[j - 1] \o Repeat(c[j][1], c[j][2] + 1)]
    BY <1>1 DEF Expansions
  <2> QED BY <2>1, <2>2, <2>3
<1>5. PICK X : X = Expansions(c)
  OBVIOUS
<1>6. /\ X[0] = <<>>
      /\ \A j \in 1 .. m : X[j] = X[j - 1] \o A[j]
      /\ \A j \in 0 .. m : X[j] \in Seq(CurveValue)
  <2>1. Joins(X, A, m)
    BY <1>4, <1>5
  <2> QED BY Zenon, <1>3, <2>1, JoinSteps
<1>7. \A j \in 1 .. m : X[j] = X[j - 1] \o Repeat(c[j][1], c[j][2] + 1)
  BY <1>2, <1>6
<1> QED BY <1>1, <1>5, <1>6, <1>7
\* The string at an element that begins at a.
AtElement(a, e) ==
    /\ a \in Nat /\ a + 2 <= Len(str)
    /\ At(a) # "#"
    /\ get64(At(a)) * 64 + get64(At(a + 1)) = Wrapped(e[1])
    /\ e[2] # Once => /\ a + 5 <= Len(str)
                      /\ At(a + 2) = "#" /\ At(a + 3) = Digits[e[2] + 1]
                      /\ At(a + 4) = "#"

LEMMA ElementRead ==
    ASSUME IsCurve(curve), str \in Seq(STRING), str = EncodedCurve(curve),
           NEW j \in Nat, j < Len(curve)
    PROVE  LET E == Encodings(curve) IN
           /\ AtElement(Len(E[j]), curve[j + 1])
           /\ Len(E[j + 1]) = Len(E[j]) + IF curve[j + 1][2] = Once THEN 2 ELSE 5
<1>1. PICK m \in Nat : m = Len(curve)
  BY LenProperties DEF IsCurve
<1>2. PICK E : E = Encodings(curve)
  OBVIOUS
<1>3. PICK x \in 1 .. m : x = j + 1 /\ x - 1 = j /\ j \in 0 .. m /\ x \in 0 .. m
  BY <1>1
<1>4. PICK v, t : v = curve[x][1] /\ t = curve[x][2]
  OBVIOUS
<1>5. v \in CurveValue /\ t \in Once .. 9 /\ Spelled(v)
  BY <1>1, <1>4, ElementIs
<1>6. PICK e : e = Encoded(v, t)
  OBVIOUS
<1>7. /\ e \in Seq(Letters)
      /\ Len(e) = IF t = Once THEN 2 ELSE 5
      /\ e[1] # "#"
      /\ get64(e[1]) * 64 + get64(e[2]) = Wrapped(v)
      /\ t # Once => e[3] = "#" /\ e[4] = Digits[t + 1] /\ e[5] = "#"
  BY <1>5, <1>6, EncodedIs
<1>8. /\ \A z \in 1 .. m : E[z] = E[z - 1] \o Encoded(curve[z][1], curve[z][2])
      /\ \A z \in 0 .. m : E[z] \in Seq(Letters)
      /\ \A z \in 0 .. m : \A y \in z .. m : Begins(E[z], E[y])
  BY <1>1, <1>2, EncodingsAre
<1>9. E[x] = E[j] \o e /\ E[j] \in Seq(Letters) /\ Begins(E[x], E[m])
  <2>1. E[x] = E[x - 1] \o Encoded(curve[x][1], curve[x][2])
    BY <1>8
  <2>2. x \in 0 .. m /\ m \in x .. m
    BY <1>3
  <2>3. Begins(E[x], E[m])
    BY <1>8, <2>2
  <2> QED BY <1>3, <1>4, <1>6, <1>8, <2>1, <2>3
<1>10. str = E[m]
  BY <1>1, <1>2 DEF EncodedCurve
<1>11. PICK a \in Nat : a = Len(E[j])
  BY <1>9, LenProperties
<1>12. PICK l \in Nat : l = Len(e) /\ (l = IF t = Once THEN 2 ELSE 5)
  BY <1>7
<1>13. Len(E[x]) = a + l
       /\ \A k \in 1 .. a + l : E[x][k] = IF k <= a THEN E[j][k] ELSE e[k - a]
  <2>1. PICK d \in Seq(Letters) : d = E[j]
    BY <1>9
  <2>2. /\ Len(d \o e) = Len(d) + Len(e)
        /\ \A k \in 1 .. Len(d) + Len(e) :
              (d \o e)[k] = IF k <= Len(d) THEN d[k] ELSE e[k - Len(d)]
    BY <1>7, ConcatProperties
  <2> QED BY <1>9, <1>11, <1>12, <2>1, <2>2
<1>14. PICK b \in Nat : b = Len(str)
  BY LenProperties
<1>15. a + l <= b /\ \A k \in 1 .. a + l : str[k] = E[x][k]
  BY <1>9, <1>10, <1>13, <1>14 DEF Begins
<1>16. ASSUME NEW k \in 1 .. l PROVE At(a + (k - 1)) = e[k]
  <2>1. a + k \in 1 .. a + l /\ ~(a + k <= a) /\ (a + k) - a = k
        /\ a + (k - 1) < b /\ (a + (k - 1)) + 1 = a + k
    BY <1>15
  <2>2. At(a + (k - 1)) = str[a + k]
    BY <1>14, <2>1 DEF At
  <2>3. E[x][a + k] = e[k]
    BY <1>13, <2>1
  <2> QED BY <1>15, <2>1, <2>2, <2>3
<1>17. /\ At(a) = e[1] /\ At(a + 1) = e[2] /\ a + 2 <= b
       /\ (t # Once => At(a + 2) = e[3] /\ At(a + 3) = e[4] /\ At(a + 4) = e[5] /\ a + 5 <= b)
  <2>1. 1 \in 1 .. l /\ 2 \in 1 .. l /\ a + 2 <= b
    BY <1>12, <1>15
  <2>2. At(a + (1 - 1)) = e[1] /\ At(a + (2 - 1)) = e[2]
    BY <1>16, <2>1
  <2>3. At(a) = e[1] /\ At(a + 1) = e[2]
    <3>1. a + (1 - 1) = a /\ a + (2 - 1) = a + 1
      OBVIOUS
    <3> QED BY <2>2, <3>1
  <2>4. ASSUME t # Once
        PROVE  At(a + 2) = e[3] /\ At(a + 3) = e[4] /\ At(a + 4) = e[5] /\ a + 5 <= b
    <3>1. 3 \in 1 .. l /\ 4 \in 1 .. l /\ 5 \in 1 .. l /\ a + 5 <= b
      BY <1>12, <1>15, <2>4
    <3>2. At(a + (3 - 1)) = e[3] /\ At(a + (4 - 1)) = e[4] /\ At(a + (5 - 1)) = e[5]
      BY <1>16, <3>1
    <3>3. a + (3 - 1) = a + 2 /\ a + (4 - 1) = a + 3 /\ a + (5 - 1) = a + 4
      OBVIOUS
    <3> QED BY <3>1, <3>2, <3>3
  <2> QED BY <2>1, <2>3, <2>4
<1>18. AtElement(a, curve[x])
  BY <1>4, <1>7, <1>14, <1>17 DEF AtElement
<1>19. Len(E[x]) = a + IF curve[x][2] = Once THEN 2 ELSE 5
  BY <1>4, <1>12, <1>13
<1> QED BY <1>2, <1>3, <1>11, <1>18, <1>19

\* A digit and a # behind it are a number.
LEMMA DigitRead ==
    ASSUME str \in Seq(STRING), NEW k \in Nat, k + 2 <= Len(str), NEW t \in Once .. 9,
           At(k) = Digits[t + 1], At(k + 1) = "#"
    PROVE  HasNumber(k) /\ Number(k) = t /\ NextMark(k) = k + 1
<1>1. Len(str) \in Nat /\ t \in 0 .. 9 /\ k <= Len(str) /\ k + 1 \in Nat
  BY LenProperties DEF Once
<1>2. IsDigit(At(k)) /\ Digit(At(k)) = t
  BY <1>1, DigitsAreOf
<1>3. At(k) # "#" /\ At(k) # NUL /\ At(k) # "-" /\ ~IsDigit(At(k + 1))
  BY <1>2, DigitIs
<1>4. ~Signed(k) /\ HasNumber(k)
  BY <1>2, <1>3 DEF Signed, HasNumber
<1>5. NumberEnd(k) = k + 1
  <2>1. PICK e \in k .. Len(str) : /\ e = NumberEnd(k)
                                   /\ \A j \in k .. e - 1 : IsDigit(At(j))
                                   /\ ~IsDigit(At(e))
    BY <1>1, NumberEndIs
  <2>2. e # k
    BY <1>2, <2>1
  <2>3. e <= k + 1
    <3>1. SUFFICES ASSUME ~(e <= k + 1) PROVE FALSE
      OBVIOUS
    <3>2. k + 1 \in k .. e - 1
      BY <1>1, <3>1
    <3> QED BY <1>3, <2>1, <3>2
  <2>4. e = k + 1
    BY <1>1, <2>2, <2>3
  <2> QED BY <2>1, <2>4
<1>6. Leading(k)[1] = t
  <2>1. /\ Leading(k)[0] = 0
        /\ \A j \in 1 .. NumberEnd(k) - k :
              Leading(k)[j] = 10 * Leading(k)[j - 1] + Digit(At(k + j - 1))
    BY <1>1, LeadingIs
  <2>2. 1 \in 1 .. NumberEnd(k) - k
    BY <1>5
  <2>3. Leading(k)[1] = 10 * Leading(k)[1 - 1] + Digit(At(k + 1 - 1))
    BY <2>1, <2>2
  <2>4. 1 - 1 = 0 /\ k + 1 - 1 = k
    OBVIOUS
  <2>5. Leading(k)[1] = 10 * 0 + t
    BY <1>2, <2>1, <2>3, <2>4
  <2> QED BY <1>1, <2>5
<1>7. Number(k) = t
  <2>1. Number(k) = Leading(k)[NumberEnd(k) - k]
    BY <1>4 DEF Number
  <2>2. NumberEnd(k) - k = 1
    BY <1>5
  <2> QED BY <1>6, <2>1, <2>2
<1>8. NextMark(k) = k + 1
  <2>1. PICK e \in k .. Len(str) : /\ e = NextMark(k)
                                   /\ At(e) \in {"#", NUL}
                                   /\ \A j \in k .. e - 1 : At(j) \notin {"#", NUL}
    BY <1>1, NextMarkIs
  <2>2. e # k
    BY <1>3, <2>1
  <2>3. e <= k + 1
    <3>1. SUFFICES ASSUME ~(e <= k + 1) PROVE FALSE
      OBVIOUS
    <3>2. k + 1 \in k .. e - 1
      BY <1>1, <3>1
    <3> QED BY <2>1, <3>2
  <2>4. e = k + 1
    BY <1>1, <2>2, <2>3
  <2> QED BY <2>1, <2>4
<1> QED BY <1>4, <1>7, <1>8
-----------------------------------------------------------------------------

\* Before the j + 1st element of the curve, and between its two parts.
Between(j) == decpitI = Len(Encodings(curve)[j]) /\ dst = Kept(Expansions(curve)[j], cnt)
Inside(j) ==
    /\ j < Len(curve) /\ curve[j + 1][2] # Once
    /\ decpitI = Len(Encodings(curve)[j]) + 2 /\ n = curve[j + 1][1]
    /\ dst = Kept(Append(Expansions(curve)[j], n), cnt)

InCurve == \E j \in 0 .. Len(curve) : Between(j) \/ Inside(j)

ScanInv ==
    /\ DecpitInv /\ IsCurve(curve)
    /\ str = EncodedCurve(curve) => InCurve
    /\ decpitPc = "done" => decpitI >= Len(str)

\* An element with its successor.
LEMMA ExpansionStep ==
    ASSUME IsCurve(curve), NEW j \in Nat, j < Len(curve)
    PROVE  LET X == Expansions(curve) IN
           /\ X[j] \in Seq(CurveValue)
           /\ curve[j + 1][1] \in CurveValue /\ curve[j + 1][2] \in Once .. 9
           /\ X[j + 1] = Append(X[j], curve[j + 1][1])
                             \o Repeat(curve[j + 1][1], curve[j + 1][2])
           /\ curve[j + 1][2] = Once => X[j + 1] = Append(X[j], curve[j + 1][1])
<1>1. PICK m \in Nat : m = Len(curve)
  BY LenProperties DEF IsCurve
<1>2. PICK X : X = Expansions(curve)
  OBVIOUS
<1>3. PICK x \in 1 .. m : x = j + 1 /\ x - 1 = j /\ j \in 0 .. m
  BY <1>1
<1>4. PICK v, t : v = curve[x][1] /\ t = curve[x][2]
  OBVIOUS
<1>5. v \in CurveValue /\ t \in Once .. 9 /\ t \in Nat
  BY <1>1, <1>4, ElementIs DEF Once
<1>6. /\ \A z \in 1 .. m : X[z] = X[z - 1] \o Repeat(curve[z][1], curve[z][2] + 1)
      /\ \A z \in 0 .. m : X[z] \in Seq(CurveValue)
  BY <1>1, <1>2, ExpansionsAre
<1>7. PICK s \in Seq(CurveValue) : s = X[j]
  BY <1>3, <1>6
<1>8. X[x] = s \o Repeat(v, t + 1)
  BY <1>3, <1>4, <1>6, <1>7
<1>9. X[x] = Append(s, v) \o Repeat(v, t)
  BY <1>5, <1>8, RepeatMore
<1>10. ASSUME t = Once PROVE X[x] = Append(s, v)
  <2>1. s \o Repeat(v, 1) = Append(s, v)
    BY <1>5, RepeatMore
  <2>2. t + 1 = 1
    BY <1>10 DEF Once
  <2> QED BY <1>8, <2>1, <2>2
<1> QED BY <1>2, <1>3, <1>4, <1>5, <1>7, <1>9, <1>10

\* No mark stands before an element.
LEMMA BetweenReads ==
    ASSUME ScanInv, str = EncodedCurve(curve), NEW j \in 0 .. Len(curve), Between(j),
           decpitI < Len(str)
    PROVE  j < Len(curve)
<1>1. str \in Seq(STRING) /\ IsCurve(curve)
  BY DEF ScanInv, DecpitInv
<1>2. Len(curve) \in Nat
  BY <1>1, LenProperties DEF IsCurve
<1>3. SUFFICES ASSUME j = Len(curve) PROVE FALSE
  BY <1>2
<1>4. Len(Encodings(curve)[j]) = Len(str)
  BY <1>3 DEF EncodedCurve
<1>5. Len(str) \in Nat
  BY <1>1, LenProperties
<1> QED BY <1>4, <1>5 DEF Between

LEMMA ValueDecodes ==
    ASSUME ScanInv, Value, str = EncodedCurve(curve) PROVE InCurve'
<1>1. str \in Seq(STRING) /\ IsCurve(curve) /\ cnt \in Nat
  BY CountAssumption DEF ScanInv, DecpitInv
<1>2. /\ decpitI < Len(str) /\ At(decpitI) # "#"
      /\ dst' = (IF Len(dst) < cnt THEN Append(dst, n') ELSE dst)
      /\ decpitI' = decpitI + 2
      /\ curve' = curve /\ str' = str /\ cnt' = cnt
  BY DEF Value
<1>3. PICK j \in 0 .. Len(curve) : Between(j) \/ Inside(j)
  BY DEF ScanInv, InCurve
<1>4. Len(curve) \in Nat
  BY <1>1, LenProperties DEF IsCurve
<1>5. ~Inside(j)
  <2>1. SUFFICES ASSUME Inside(j) PROVE FALSE
    OBVIOUS
  <2>2. j < Len(curve) /\ curve[j + 1][2] # Once
        /\ decpitI = Len(Encodings(curve)[j]) + 2 /\ j \in Nat
    BY <1>4, <2>1 DEF Inside
  <2>3. AtElement(Len(Encodings(curve)[j]), curve[j + 1])
    BY <1>1, <2>2, ElementRead
  <2>4. At(Len(Encodings(curve)[j]) + 2) = "#"
    BY <2>2, <2>3 DEF AtElement
  <2> QED BY <1>2, <2>2, <2>4
<1>6. Between(j) /\ j < Len(curve) /\ j \in Nat
  BY <1>2, <1>3, <1>4, <1>5, BetweenReads
<1>7. PICK a, s, v, t : /\ a = Len(Encodings(curve)[j]) /\ s = Expansions(curve)[j]
                        /\ v = curve[j + 1][1] /\ t = curve[j + 1][2]
  OBVIOUS
<1>8. decpitI = a /\ dst = Kept(s, cnt)
  BY <1>6, <1>7 DEF Between
<1>9. /\ AtElement(a, curve[j + 1])
      /\ Len(Encodings(curve)[j + 1]) = a + IF t = Once THEN 2 ELSE 5
  BY <1>1, <1>6, <1>7, ElementRead
<1>10. /\ s \in Seq(CurveValue) /\ v \in CurveValue /\ t \in Once .. 9
       /\ t = Once => Expansions(curve)[j + 1] = Append(s, v)
  BY <1>1, <1>6, <1>7, ExpansionStep
<1>11. n' = v
  <2>1. get64(At(decpitI)) * 64 + get64(At(decpitI + 1)) = Wrapped(v)
    BY <1>7, <1>8, <1>9 DEF AtElement
  <2>2. n' = IF Wrapped(v) > 2047 THEN Wrapped(v) - 4096 ELSE Wrapped(v)
    BY <2>1 DEF Value
  <2> QED BY <1>10, <2>2, WrappedIs
<1>12. dst' = Kept(Append(s, v), cnt)
  <2>1. (IF Len(Kept(s, cnt)) < cnt THEN Append(Kept(s, cnt), v) ELSE Kept(s, cnt))
            = Kept(Append(s, v), cnt)
    <3>1. cnt \in Nat /\ v \in CurveValue /\ s \in Seq(CurveValue)
      BY <1>1, <1>10
    <3> QED BY Zenon, <3>1, FilledByOne
  <2> QED BY <1>2, <1>8, <1>11, <2>1
<1>13. CASE t = Once
  <2>1. decpitI' = Len(Encodings(curve)[j + 1]) /\ dst' = Kept(Expansions(curve)[j + 1], cnt)
    BY <1>2, <1>8, <1>9, <1>10, <1>12, <1>13
  <2>2. j + 1 \in 0 .. Len(curve)
    BY <1>4, <1>6
  <2>3. Between(j + 1)'
    BY <1>2, <2>1 DEF Between
  <2> QED BY <1>2, <2>2, <2>3 DEF InCurve
<1>14. CASE t # Once
  <2>1. Inside(j)'
    BY <1>2, <1>6, <1>7, <1>8, <1>11, <1>12, <1>14 DEF Inside
  <2> QED BY <1>2, <2>1 DEF InCurve
<1> QED BY <1>13, <1>14

LEMMA RunDecodes ==
    ASSUME ScanInv, Run, str = EncodedCurve(curve) PROVE InCurve'
<1>1. str \in Seq(STRING) /\ IsCurve(curve) /\ cnt \in Nat
  BY CountAssumption DEF ScanInv, DecpitInv
<1>2. /\ decpitI < Len(str) /\ At(decpitI) = "#"
      /\ num' = (IF HasNumber(decpitI + 1) THEN Number(decpitI + 1) ELSE num)
      /\ dst' = dst \o Repeat(n, Least(num', cnt - Len(dst)))
      /\ decpitI' = NextMark(decpitI + 1) + 1
      /\ curve' = curve /\ str' = str /\ cnt' = cnt
  BY DEF Run
<1>3. PICK j \in 0 .. Len(curve) : Between(j) \/ Inside(j)
  BY DEF ScanInv, InCurve
<1>4. Len(curve) \in Nat
  BY <1>1, LenProperties DEF IsCurve
<1>5. ~Between(j)
  <2>1. SUFFICES ASSUME Between(j) PROVE FALSE
    OBVIOUS
  <2>2. j < Len(curve) /\ j \in Nat
    BY <1>2, <1>4, <2>1, BetweenReads
  <2>3. AtElement(Len(Encodings(curve)[j]), curve[j + 1])
    BY <1>1, <2>2, ElementRead
  <2> QED BY <1>2, <2>1, <2>3 DEF AtElement, Between
<1>6. Inside(j)
  BY <1>3, <1>5
<1>7. PICK a, s, v, t : /\ a = Len(Encodings(curve)[j]) /\ s = Expansions(curve)[j]
                        /\ v = curve[j + 1][1] /\ t = curve[j + 1][2]
  OBVIOUS
<1>8. /\ j < Len(curve) /\ t # Once /\ decpitI = a + 2 /\ n = v
      /\ dst = Kept(Append(s, v), cnt) /\ j \in Nat
  BY <1>4, <1>6, <1>7 DEF Inside
<1>9. /\ AtElement(a, curve[j + 1])
      /\ Len(Encodings(curve)[j + 1]) = a + 5
  BY <1>1, <1>7, <1>8, ElementRead
<1>10. /\ s \in Seq(CurveValue) /\ v \in CurveValue /\ t \in Once .. 9
       /\ Expansions(curve)[j + 1] = Append(s, v) \o Repeat(v, t)
  BY <1>1, <1>7, <1>8, ExpansionStep
<1>11. PICK k \in Nat : k = a + 3 /\ k = decpitI + 1 /\ k + 1 = a + 4 /\ k + 2 = a + 5
  <2>1. a \in Nat /\ decpitI = a + 2
    BY Zenon, <1>8, <1>9 DEF AtElement
  <2>2. a + 3 \in Nat /\ a + 3 = decpitI + 1 /\ (a + 3) + 1 = a + 4 /\ (a + 3) + 2 = a + 5
    BY <2>1
  <2> QED BY <2>2
<1>12. HasNumber(k) /\ Number(k) = t /\ NextMark(k) = k + 1
  <2>1. k + 2 <= Len(str) /\ At(k) = Digits[t + 1] /\ At(k + 1) = "#"
    BY <1>7, <1>8, <1>9, <1>11 DEF AtElement
  <2> QED BY <1>1, <1>10, <2>1, DigitRead
<1>13. num' = t /\ decpitI' = Len(Encodings(curve)[j + 1])
  BY <1>2, <1>9, <1>11, <1>12
<1>14. dst' = Kept(Expansions(curve)[j + 1], cnt)
  <2>1. t \in Nat /\ Append(s, v) \in Seq(CurveValue)
    BY <1>10, AppendProperties DEF Once
  <2>2. PICK d : d = Append(s, v) /\ d \in Seq(CurveValue)
    BY <2>1
  <2>3. Kept(d, cnt) \o Repeat(v, Least(t, cnt - Len(Kept(d, cnt)))) = Kept(d \o Repeat(v, t), cnt)
    <3>1. cnt \in Nat /\ v \in CurveValue /\ t \in Nat /\ d \in Seq(CurveValue)
      BY <1>1, <1>10, <2>1, <2>2
    <3> QED BY Zenon, <3>1, Filled
  <2> QED BY <1>2, <1>8, <1>10, <1>13, <2>2, <2>3
<1>15. Between(j + 1)'
  BY <1>2, <1>13, <1>14 DEF Between
<1>16. j + 1 \in 0 .. Len(curve)
  BY <1>4, <1>8
<1> QED BY <1>2, <1>15, <1>16 DEF InCurve
LEMMA ScanStarts == DecpitInit => ScanInv
<1>. SUFFICES ASSUME DecpitInit PROVE ScanInv
  OBVIOUS
<1>1. PICK c \in Strings : curve = c[1] /\ str = c[2]
  BY DEF DecpitInit
<1>2. DecpitInv
  BY DecpitStarts
<1>3. IsCurve(curve)
  <2>1. /\ c[1] \in Seq((-2048 .. 2047) \X (Once .. 9))
        /\ \A k \in 1 .. Len(c[1]) : Spelled(c[1][k][1])
    BY CurveAssumption
  <2> QED BY <1>1, <2>1 DEF IsCurve, Element, CurveValue
<1>4. Between(0) /\ Len(curve) \in Nat
  <2>1. Encodings(curve)[0] = <<>> /\ Expansions(curve)[0] = <<>>
    BY <1>3, EncodingsAre, ExpansionsAre
  <2>2. decpitI = 0 /\ dst = <<>>
    BY DEF DecpitInit
  <2>3. cnt \in Nat
    BY <1>2, CountAssumption DEF DecpitInv
  <2>4. Kept(<<>>, cnt) = <<>>
    <3>1. <<>> \in Seq(CurveValue) /\ Len(<<>>) = 0
      BY EmptySeq
    <3>2. Kept(<<>>, cnt) \in Seq(CurveValue) /\ Len(Kept(<<>>, cnt)) = Least(cnt, Len(<<>>))
      BY <2>3, <3>1, KeptIs
    <3>3. Least(cnt, Len(<<>>)) = 0
      BY <2>3, <3>1 DEF Least
    <3> QED BY <3>2, <3>3, EmptySeq
  <2>5. Len(curve) \in Nat
    BY <1>3, LenProperties DEF IsCurve
  <2>6. Len(<<>>) = 0
    BY EmptySeq
  <2> QED BY <2>1, <2>2, <2>4, <2>5, <2>6 DEF Between
<1>5. InCurve
  <2>1. 0 \in 0 .. Len(curve)
    BY <1>4
  <2> QED BY <1>4, <2>1 DEF InCurve
<1>6. decpitPc = "scan"
  BY DEF DecpitInit
<1> QED BY <1>2, <1>3, <1>5, <1>6 DEF ScanInv

LEMMA ScanKeeps == ScanInv /\ [DecpitNext]_decpitVars => ScanInv'
<1>. SUFFICES ASSUME ScanInv, [DecpitNext]_decpitVars PROVE ScanInv'
  OBVIOUS
<1>1. DecpitInv'
  BY DecpitInvStep DEF ScanInv
<1>2. Value \/ Run \/ DecpitReturn \/ UNCHANGED decpitVars
  BY DEF DecpitNext, Step, DecpitFinished
<1>3. curve' = curve /\ str' = str /\ cnt' = cnt
  <2>1. CASE Value
    BY <2>1 DEF Value
  <2>2. CASE Run
    BY <2>2 DEF Run
  <2>3. CASE DecpitReturn
    BY <2>3 DEF DecpitReturn
  <2>4. CASE UNCHANGED decpitVars
    BY <2>4 DEF decpitVars
  <2> QED BY <1>2, <2>1, <2>2, <2>3, <2>4
<1>4. IsCurve(curve)'
  BY <1>3 DEF ScanInv, IsCurve
<1>5. ASSUME str = EncodedCurve(curve) PROVE InCurve'
  <2>1. CASE Value
    BY <1>5, <2>1, ValueDecodes
  <2>2. CASE Run
    BY <1>5, <2>2, RunDecodes
  <2>3. CASE dst' = dst /\ decpitI' = decpitI /\ n' = n
    <3>1. PICK j \in 0 .. Len(curve) : Between(j) \/ Inside(j)
      BY <1>5 DEF ScanInv, InCurve
    <3>2. CASE Between(j)
      <4>1. Between(j)'
        BY <1>3, <2>3, <3>2 DEF Between
      <4> QED BY <1>3, <4>1 DEF InCurve
    <3>3. CASE Inside(j)
      <4>1. Inside(j)'
        BY <1>3, <2>3, <3>3 DEF Inside
      <4> QED BY <1>3, <4>1 DEF InCurve
    <3> QED BY <3>1, <3>2, <3>3
  <2>4. CASE DecpitReturn
    BY <2>3, <2>4 DEF DecpitReturn
  <2>5. CASE UNCHANGED decpitVars
    BY <2>3, <2>5 DEF decpitVars
  <2> QED BY <1>2, <2>1, <2>2, <2>4, <2>5
<1>6. (decpitPc = "done" => decpitI >= Len(str))'
  <2>1. CASE Value
    BY <2>1 DEF Value
  <2>2. CASE Run
    BY <2>2 DEF Run
  <2>3. CASE DecpitReturn
    BY <2>3 DEF DecpitReturn
  <2>4. CASE UNCHANGED decpitVars
    BY <2>4 DEF decpitVars, ScanInv
  <2> QED BY <1>2, <2>1, <2>2, <2>3, <2>4
<1>7. (str = EncodedCurve(curve) => InCurve)'
  BY <1>3, <1>5
<1> QED BY <1>1, <1>4, <1>6, <1>7 DEF ScanInv

LEMMA ScanDecodes == ScanInv => CurveDecoded
<1>. SUFFICES ASSUME ScanInv PROVE CurveDecoded
  OBVIOUS
<1>1. str \in Seq(STRING) /\ IsCurve(curve) /\ cnt \in Nat
  BY CountAssumption DEF ScanInv, DecpitInv
<1>2. ASSUME decpitPc = "done", str = EncodedCurve(curve)
      PROVE  dst = Kept(Expanded(curve), cnt)
  <2>1. PICK j \in 0 .. Len(curve) : Between(j) \/ Inside(j)
    BY <1>2 DEF ScanInv, InCurve
  <2>2. Len(curve) \in Nat /\ Len(str) \in Nat /\ j \in Nat /\ decpitI >= Len(str)
    <3>1. Len(curve) \in Nat
      BY <1>1, LenProperties DEF IsCurve
    <3>2. Len(str) \in Nat
      BY <1>1, LenProperties
    <3> QED BY <1>2, <3>1, <3>2 DEF ScanInv
  <2>3. j = Len(curve)
    <3>1. SUFFICES ASSUME j # Len(curve) PROVE FALSE
      OBVIOUS
    <3>2. j < Len(curve)
      BY <2>2, <3>1
    <3>3. AtElement(Len(Encodings(curve)[j]), curve[j + 1])
      BY <1>1, <1>2, <2>2, <3>2, ElementRead
    <3>4. PICK a \in Nat : a = Len(Encodings(curve)[j])
      BY <3>3 DEF AtElement
    <3>5. CASE Between(j)
      <4>1. decpitI = a /\ a + 2 <= Len(str)
        BY <3>3, <3>4, <3>5 DEF Between, AtElement
      <4> QED BY <2>2, <4>1
    <3>6. CASE Inside(j)
      <4>1. decpitI = a + 2 /\ a + 5 <= Len(str)
        BY <3>3, <3>4, <3>6 DEF Inside, AtElement
      <4> QED BY <2>2, <4>1
    <3> QED BY <2>1, <3>5, <3>6
  <2>4. Between(j)
    BY <2>1, <2>2, <2>3 DEF Inside
  <2> QED BY <2>3, <2>4 DEF Between, Expanded
<1>3. ReadsInString
  BY DEF ScanInv, DecpitInv, ReadsInString
<1>4. Decoded
  BY <1>2 DEF Decoded, Kept
<1> QED BY <1>3, <1>4 DEF CurveDecoded

\* decpit() makes of the string that a curve was encoded as the steps of that
\* curve, as many as dst has place for, and reads no string, curve or not, past
\* its end; for every curve, every string and every length of dst.
THEOREM CurvesAreDecoded == DecpitSpec => []CurveDecoded
<1>1. DecpitInit => ScanInv
  BY ScanStarts
<1>2. ScanInv /\ [DecpitNext]_decpitVars => ScanInv'
  BY ScanKeeps
<1>3. ScanInv => CurveDecoded
  BY ScanDecodes
<1> QED BY <1>1, <1>2, <1>3, PTL DEF DecpitSpec

-----------------------------------------------------------------------------
(* The kinds of the variables, in whichever work *)

BendKinds ==
    /\ bendNum \in Int /\ bendOutSamples \in OutSamples
    /\ f0 \in [0 .. bendTLen -> Pitches] /\ freq_avg \in Pitches
    /\ pLen \in Nat /\ DOMAIN pit \subseteq 0 .. pLen
    /\ bendI \in 0 .. bendOLen

LEMMA FramesCounted ==
    ASSUME bendOutSamples \in Nat PROVE bendOLen \in Nat \ {0}
<1>1. PICK F \in Nat \ {0}, T \in Nat : F = BendFramePeriod /\ T = bendOutSamples * BendGrain
  BY StepAssumption DEF BendGrain
<1>2. PICK d \in Nat : d = T \div F
  BY DividedBy
<1>3. bendOLen = d + 1
  BY <1>1, <1>2 DEF bendOLen
<1> QED BY <1>3

LEMMA BendKindsStart == BendInit => BendKinds
<1>. SUFFICES ASSUME BendInit PROVE BendKinds
  OBVIOUS
<1>1. bendOutSamples \in OutSamples /\ f0 \in [0 .. bendTLen -> Pitches]
      /\ bendNum = None /\ pLen = 0 /\ pit = <<>> /\ bendI = 0
  BY DEF BendInit
<1>2. freq_avg \in Pitches
  <2>1. CASE \A k \in 0 .. bendTLen - 1 : f0[k] = 0
    <3>1. freq_avg = 0
      BY <2>1 DEF BendInit
    <3>2. 0 \in 0 .. bendTLen - 1 /\ 0 \in 0 .. bendTLen
      BY DEF bendTLen
    <3>3. f0[0] = 0 /\ f0[0] \in Pitches
      BY <1>1, <2>1, <3>2
    <3> QED BY <3>1, <3>3
  <2>2. CASE ~\A k \in 0 .. bendTLen - 1 : f0[k] = 0
    <3>1. PICK k \in 0 .. bendTLen - 1 : f0[k] # 0
      BY <2>2
    <3>2. f0[k] \in Pitches
      BY <1>1, <3>1 DEF bendTLen
    <3>3. freq_avg = CHOOSE p \in Pitches : p # 0
      BY <2>2 DEF BendInit
    <3> QED BY <3>1, <3>2, <3>3
  <2> QED BY <2>1, <2>2
<1>3. bendI \in 0 .. bendOLen
  <2>1. bendOutSamples \in Nat
    BY <1>1, StepAssumption
  <2>2. bendOLen \in Nat
    BY <2>1, FramesCounted
  <2> QED BY <1>1, <2>2
<1>4. DOMAIN pit \subseteq 0 .. pLen
  <2>1. <<>> \in Seq(Nat) /\ Len(<<>>) = 0
    BY EmptySeq
  <2>2. DOMAIN <<>> = 1 .. 0
    BY <2>1, LenProperties
  <2> QED BY <1>1, <2>2
<1>5. bendNum \in Int /\ pLen \in Nat
  BY <1>1 DEF None
<1> QED BY <1>1, <1>2, <1>3, <1>4, <1>5 DEF BendKinds

LEMMA BendKindsStep == BendInv /\ BendKinds /\ [BendNext]_bendVars => BendKinds'
<1>. SUFFICES ASSUME BendInv, BendKinds, [BendNext]_bendVars PROVE BendKinds'
  OBVIOUS
<1>1. bendOutSamples \in Nat /\ name \in Names /\ bendI \in Nat
  BY DEF BendInv, BendTypes
<1>2. bendOLen \in Nat
  BY <1>1, FramesCounted
<1>3. Name \/ Curve \/ NoCurve \/ Frame \/ BendReturn \/ UNCHANGED bendVars
  BY DEF BendNext, BendFinished
<1>4. bendOutSamples' = bendOutSamples /\ f0' = f0 /\ freq_avg' = freq_avg
      /\ bendOLen' = bendOLen
  <2>1. bendOutSamples' = bendOutSamples /\ f0' = f0 /\ freq_avg' = freq_avg
    BY <1>3 DEF Name, Curve, NoCurve, Frame, BendReturn, bendVars, note
  <2> QED BY <2>1 DEF bendOLen
<1>5. bendI' \in 0 .. bendOLen
  <2>1. CASE Frame
    BY <1>1, <1>2, <2>1 DEF Frame
  <2>2. CASE ~Frame
    <3>1. bendI' = bendI
      BY <1>3, <2>2 DEF Name, Curve, NoCurve, BendReturn, bendVars
    <3> QED BY <3>1 DEF BendKinds
  <2> QED BY <2>1, <2>2
<1>6. bendNum' \in Int
  <2>1. CASE Name
    <3>1. CASE bendNum' = None
      BY <3>1 DEF None
    <3>2. CASE \E oct \in IF name.octave = NoNumber THEN {0, -7} ELSE {name.octave} :
                 bendNum' = (Semitone(name.letter) + name.sharp + oct * 12 - 21) * 10
      <4>1. name.sharp \in {-1, 0, 1} /\ name.octave \in Int
        BY <1>1, NameAssumption, Zenon
      <4>2. Semitone(name.letter) \in Int
        <5>1. Code(name.letter) \in 65 .. 72
          BY DEF Code
        <5> QED BY <5>1 DEF Semitone
      <4>3. PICK oct \in Int :
               bendNum' = (Semitone(name.letter) + name.sharp + oct * 12 - 21) * 10
        BY <3>2, <4>1
      <4>4. PICK a, b \in Int : a = Semitone(name.letter) /\ b = name.sharp
        BY <4>1, <4>2
      <4>5. (a + b + oct * 12 - 21) * 10 \in Int
        OBVIOUS
      <4> QED BY <4>3, <4>4, <4>5
    <3> QED BY <2>1, <3>1, <3>2 DEF Name
  <2>2. CASE ~Name
    <3>1. bendNum' = bendNum
      BY <1>3, <2>2 DEF Curve, NoCurve, Frame, BendReturn, bendVars
    <3> QED BY <3>1 DEF BendKinds
  <2> QED BY <2>1, <2>2
<1>7. pLen' \in Nat /\ DOMAIN pit' \subseteq 0 .. pLen'
  <2>1. CASE Curve
    <3>1. PICK step \in Steps :
            IF step = 0 THEN pLen' = pLen /\ pit' = pit
            ELSE /\ pLen' = bendOutSamples \div step + 1
                 /\ \E c \in Cents, k \in 0 .. pLen' - 1 :
                       pit' = [j \in 0 .. pLen' |-> IF j = k THEN c ELSE 0]
      BY <2>1 DEF Curve
    <3>2. CASE step = 0
      BY <3>1, <3>2 DEF BendKinds
    <3>3. CASE step # 0
      <4>1. PICK s \in Nat \ {0} : s = step
        BY <3>3, StepAssumption
      <4>2. PICK d \in Nat : d = bendOutSamples \div s
        BY <1>1, DividedBy
      <4>3. pLen' = d + 1
        BY <3>1, <3>3, <4>1, <4>2
      <4>4. DOMAIN pit' = 0 .. pLen'
        BY <3>1, <3>3
      <4> QED BY <4>3, <4>4
    <3> QED BY <3>2, <3>3
  <2>2. CASE NoCurve
    <3>1. pLen' = bendOLen /\ pit' = [k \in 0 .. bendOLen |-> 0]
      BY <2>2 DEF NoCurve
    <3> QED BY <1>2, <3>1
  <2>3. CASE ~Curve /\ ~NoCurve
    <3>1. pLen' = pLen /\ pit' = pit
      BY <1>3, <2>3 DEF Name, Frame, BendReturn, bendVars
    <3> QED BY <3>1 DEF BendKinds
  <2> QED BY <2>1, <2>2, <2>3
<1> QED BY <1>4, <1>5, <1>6, <1>7 DEF BendKinds

LEMMA BendTyped == BendInv /\ BendKinds => BendTypeOK
BY DEF BendInv, BendTypes, CurveInv, BendKinds, BendTypeOK

MapKinds ==
    /\ wavelength \in Wavelengths /\ offset \in Offsets
    /\ length \in Lengths /\ velocity \in Velocities
    /\ tmi.num \in Int /\ tmi.den \in Nat

LEMMA PositionIs ==
    ASSUME NoteTypes, NEW t \in Int
    PROVE  Position(t).num \in Int /\ Position(t).den \in Nat
<1>1. PICK o, f, v, w \in Nat, b \in Int, h \in Nat :
         /\ o = offset /\ f = fixed /\ v = velocity /\ w = wavelength /\ b = blank
         /\ h = length
  BY DEF NoteTypes
<1>2. PICK x, y, z \in Int : x = l1 /\ y = l2 /\ z = m2
  <2>1. 2 * f \in Int /\ h * v - 2 * f \in Int /\ w - o - f - b \in Int
    OBVIOUS
  <2> QED BY <1>1, <2>1 DEF l1, l2, m2
<1>3. PICK p \in Int : p = t * v
  OBVIOUS
<1>4. Stretched(t).num \in Int /\ Stretched(t).den \in Nat
  <2>1. CASE TooFast
    <3>1. Stretched(t) = Fraction((o + f) * v + p - x, v)
      BY <1>1, <1>2, <1>3, <2>1 DEF Stretched
    <3>2. (o + f) * v + p - x \in Int
      OBVIOUS
    <3> QED BY <3>1, <3>2 DEF Fraction
  <2>2. CASE ~TooFast /\ l2 = 0
    BY <2>2 DEF Stretched, NaNFraction, Fraction
  <2>3. CASE ~TooFast /\ l2 # 0
    <3>1. PICK s \in Int : s = (IF y > 0 THEN 1 ELSE -1) /\ (s = 1 \/ s = -1)
      OBVIOUS
    <3>2. PICK c \in Int : c = (o + f) * y + (p - x) * z
      OBVIOUS
    <3>3. Stretched(t) = Fraction(s * c, s * y)
      BY <1>1, <1>2, <1>3, <2>3, <3>1, <3>2 DEF Stretched
    <3>4. s * c \in Int /\ s * y \in Nat
      BY <1>2, <2>3, <3>1
    <3> QED BY <3>3, <3>4 DEF Fraction
  <2> QED BY <2>1, <2>2, <2>3
<1>5. CASE t * velocity < l1
  <2>1. Position(t) = Fraction(2 * o + p, 2)
    BY <1>1, <1>3, <1>5 DEF Position
  <2> QED BY <2>1 DEF Fraction
<1>6. CASE ~(t * velocity < l1)
  BY <1>4, <1>6 DEF Position
<1> QED BY <1>5, <1>6

LEMMA MapKindsStart == TimeMapInit => MapKinds
BY DEF TimeMapInit, MapKinds, Fraction

LEMMA MapKindsStep == MapInv /\ MapKinds /\ [TimeMapNext]_timeMapVars => MapKinds'
<1>. SUFFICES ASSUME MapInv, MapKinds, [TimeMapNext]_timeMapVars PROVE MapKinds'
  OBVIOUS
<1>1. Refuse \/ Accept \/ MapFrame \/ TimeMapReturn \/ UNCHANGED timeMapVars
  BY DEF TimeMapNext, TimeMapFinished
<1>2. wavelength' = wavelength /\ offset' = offset /\ length' = length /\ velocity' = velocity
  BY <1>1 DEF Refuse, Accept, MapFrame, TimeMapReturn, timeMapVars, args
<1>3. tmi'.num \in Int /\ tmi'.den \in Nat
  <2>1. CASE MapFrame
    <3>1. i * FramePeriod \in Int
      BY FrameAssumption DEF MapInv
    <3>2. tmi' = Position(i * FramePeriod)
      BY <2>1 DEF MapFrame
    <3>3. NoteTypes
      BY DEF MapInv
    <3> QED BY <3>1, <3>2, <3>3, PositionIs
  <2>2. CASE ~MapFrame
    <3>1. tmi' = tmi
      BY <1>1, <2>2 DEF Refuse, Accept, TimeMapReturn, timeMapVars
    <3> QED BY <3>1 DEF MapKinds
  <2> QED BY <2>1, <2>2
<1> QED BY <1>2, <1>3 DEF MapKinds

LEMMA MapTyped == MapInv /\ MapKinds => TimeMapTypeOK
BY DEF MapInv, NoteTypes, MapKinds, TimeMapTypeOK

-----------------------------------------------------------------------------

NoteParts ==
    /\ work \in {"bend", "decpit", "map"}
    /\ work = "bend" => BendInv /\ BendKinds
    /\ work = "decpit" => DecpitInv
    /\ work = "map" => MapInv /\ MapKinds

LEMMA NoteStart == NoteInit => NoteParts
<1>. SUFFICES ASSUME NoteInit PROVE NoteParts
  OBVIOUS
<1>1. work \in {"bend", "decpit", "map"}
  BY DEF NoteInit
<1>2. work = "bend" => BendInv /\ BendKinds
  BY BendInvInit, BendKindsStart DEF NoteInit
<1>3. work = "decpit" => DecpitInv
  BY DecpitStarts DEF NoteInit
<1>4. work = "map" => MapInv /\ MapKinds
  BY MapInvInit, MapKindsStart DEF NoteInit
<1> QED BY <1>1, <1>2, <1>3, <1>4 DEF NoteParts

LEMMA NoteStep == NoteParts /\ [NoteNext]_noteVars => NoteParts'
<1>. SUFFICES ASSUME NoteParts, [NoteNext]_noteVars PROVE NoteParts'
  OBVIOUS
<1>1. work' = work
  BY DEF NoteNext, noteVars
<1>2. CASE work = "bend"
  <2>1. [BendNext]_bendVars
    BY <1>2 DEF NoteNext, noteVars
  <2>2. BendInv' /\ BendKinds'
    BY <1>2, <2>1, BendInvStep, BendKindsStep DEF NoteParts
  <2> QED BY <1>1, <1>2, <2>2 DEF NoteParts
<1>3. CASE work = "decpit"
  <2>1. [DecpitNext]_decpitVars
    BY <1>3 DEF NoteNext, noteVars
  <2>2. DecpitInv'
    BY <1>3, <2>1, DecpitInvStep DEF NoteParts
  <2> QED BY <1>1, <1>3, <2>2 DEF NoteParts
<1>4. CASE work = "map"
  <2>1. [TimeMapNext]_timeMapVars
    BY <1>4 DEF NoteNext, noteVars
  <2>2. MapInv' /\ MapKinds'
    BY <1>4, <2>1, MapInvStep, MapKindsStep DEF NoteParts
  <2> QED BY <1>1, <1>4, <2>2 DEF NoteParts
<1> QED BY <1>2, <1>3, <1>4 DEF NoteParts

\* Whichever of the three is run on a note, its variables hold values of their
\* kind: the frames made are no more than the output has, the source position is
\* a fraction, and a note that is accepted has a blank that is not negative.
THEOREM NoteIsTyped == NoteSpec => []NoteTypeOK
<1>1. NoteParts => NoteTypeOK
  <2>. SUFFICES ASSUME NoteParts PROVE NoteTypeOK
    OBVIOUS
  <2>1. CASE work = "bend"
    BY <2>1, BendTyped DEF NoteParts, NoteTypeOK
  <2>2. CASE work = "decpit"
    BY <2>2, DecpitTyped DEF NoteParts, NoteTypeOK
  <2>3. CASE work = "map"
    BY <2>3, MapTyped DEF NoteParts, NoteTypeOK
  <2> QED BY <2>1, <2>2, <2>3 DEF NoteParts
<1> QED BY <1>1, NoteStart, NoteStep, PTL DEF NoteSpec
=============================================================================
