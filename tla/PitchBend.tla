----------------------------- MODULE PitchBend -----------------------------
(***************************************************************************)
(* The pitch of every output frame: the name of the note (name2freq), the  *)
(* step of the pitch curve at its time, and the pitch of the source around *)
(* the frame it is taken from; with the rows of the spectrogram and of the *)
(* residual that go with it.                                               *)
(*                                                                         *)
(* Times are in ticks, Grain of them in a sample.  A pitch is given by its *)
(* tenths of a semitone above 55 Hz, cents, and a factor; modulation is -1,*)
(* 0 or 1 for -100, 0 and 100.                                             *)
(***************************************************************************)
EXTENDS Floats, FiniteSets

CONSTANTS
    BendFramePeriod, DefaultSteps,  \* FRAMEPERIOD, and 256 samples
    OutSamples, Steps,              \* the lengths of outputs and of curve steps
    Cents, Pitches,                 \* entries of the curve, and of the track
    Names                           \* [letter, sharp, octave]

BendGrain == 2

ASSUME StepAssumption ==
    /\ BendFramePeriod \in Nat \ {0} /\ DefaultSteps \subseteq Nat \ {0}
    /\ OutSamples \subseteq Nat /\ Steps \subseteq Nat
ASSUME PitchAssumption == Pitches \subseteq Nat /\ Cents \subseteq Int
\* A letter is one character.
Flats == {"Db", "Eb", "Gb", "Ab", "Bb"}
ASSUME NameAssumption ==
    \A m \in Names : m.letter \notin Flats /\ m.sharp \in {-1, 0, 1} /\ m.octave \in Int

VARIABLES
    name, bendNum,          \* the name, and num or None for a frequency of 0
    bendOutSamples, given,  \* whether there is a curve
    pStep, pLen, pit,
    f0, freq_avg, modulation,
    bendI,                  \* the next frame
    frame,                  \* what was made of the last one
    bendPc                  \* "name", "curve", "frames", "done", "died"

bendVars == <<name, bendNum, bendOutSamples, given, pStep, pLen, pit, f0, freq_avg,
          modulation, bendI, frame, bendPc>>
note == <<name, bendOutSamples, given, f0, freq_avg, modulation>>

None == -10000   \* no frequency
Missing == -1    \* no octave: nothing after the letter and its sign
NoNumber == -2   \* something that is not a number

bendTLen == 2   \* f0[tLen] is what follows f0 in memory

\* getSamplesForDIO
bendOLen == (bendOutSamples * BendGrain) \div BendFramePeriod + 1

Code(c) == CASE c = "A" -> 65 [] c = "B" -> 66 [] c = "C" -> 67 [] c = "D" -> 68
             [] c = "E" -> 69 [] c = "F" -> 70 [] c = "G" -> 71 [] OTHER -> 72

\* n of name2freq
Semitone(c) ==
    IF Code(c) <= 66 THEN 9 + (Code(c) - 65) * 2
    ELSE IF Code(c) <= 69 THEN (Code(c) - 67) * 2
    ELSE 5 + (Code(c) - 70) * 2

BendInit ==
    /\ name \in Names /\ bendNum = None
    /\ bendOutSamples \in OutSamples /\ given \in BOOLEAN
    /\ pStep \in DefaultSteps /\ pLen = 0 /\ pit = <<>>
    /\ f0 \in [0 .. bendTLen -> Pitches]
    /\ freq_avg = IF \A k \in 0 .. bendTLen - 1 : f0[k] = 0 THEN 0
                  ELSE CHOOSE p \in Pitches : p # 0
    /\ modulation \in {-1, 0, 1}
    /\ bendI = 0 /\ frame = <<>>
    /\ bendPc = "name"

\* An octave that is not a number is never set.
Name ==
    /\ bendPc = "name"
    /\ IF Code(name.letter) > 71 \/ name.octave = Missing
       THEN bendNum' = None
       ELSE \E oct \in IF name.octave = NoNumber THEN {0, -7} ELSE {name.octave} :
               bendNum' = (Semitone(name.letter) + name.sharp + oct * 12 - 21) * 10
    /\ bendPc' = "curve"
    /\ UNCHANGED <<note, pStep, pLen, pit, bendI, frame>>

\* The curve has one entry off 0, and never the last one of pit, which decpit
\* does not write.  A tempo that makes the step 0 ends in a division by 0.
Curve ==
    /\ bendPc = "curve" /\ given
    /\ \E step \in Steps :
        /\ pStep' = step
        /\ IF step = 0
           THEN bendPc' = "died" /\ UNCHANGED <<pLen, pit>>
           ELSE /\ pLen' = bendOutSamples \div step + 1
                /\ \E c \in Cents, k \in 0 .. pLen' - 1 :
                      pit' = [j \in 0 .. pLen' |-> IF j = k THEN c ELSE 0]
                /\ bendPc' = "frames"
    /\ UNCHANGED <<note, bendNum, bendI, frame>>

NoCurve ==
    /\ bendPc = "curve" /\ ~given
    /\ pLen' = bendOLen
    /\ pit' = [k \in 0 .. bendOLen |-> 0]
    /\ bendPc' = "frames"
    /\ UNCHANGED <<note, bendNum, pStep, bendI, frame>>

\* f0i, of denominator 4, for a source position of n + v / 4.  An unvoiced
\* frame is not filled up.
SourcePitchRaw(n, v) ==
    IF n < bendTLen - 1 THEN f0[n] * (4 - v) + f0[n + 1] * v ELSE f0[n] * 4

SourcePitch(n, v) ==
    LET Voiced(k) == IF f0[k] = 0 THEN freq_avg ELSE f0[k]
    IN IF n < bendTLen - 1 /\ (f0[n] # 0 \/ f0[n + 1] # 0)
       THEN Voiced(n) * (4 - v) + Voiced(n + 1) * v
       ELSE f0[n] * 4

\* pow(f0i / freq_avg, modulation * 0.01)
Modulated(f0i) ==
    CASE modulation = 1  -> Frac(f0i, 4 * freq_avg)
      [] modulation = 0  -> Whole(1)
      [] modulation = -1 -> Frac(4 * freq_avg, f0i)

\* The row of a spectrogram that stands for a row that may not exist.
Row(k) == IF k < bendTLen THEN k ELSE bendTLen - 1

Entry(k) == IF k \in 0 .. pLen THEN pit[k] ELSE 0

FrameOf(u, step, m, past, n, v) ==
    [ m |-> m, past |-> past,
      cents |-> Frac(Entry(m) * (step - (u % step)) + Entry(m + 1) * (u % step), step),
      factor |-> Modulated(SourcePitch(n, v)),
      n |-> n,
      rows |-> IF n < bendTLen - 1 THEN {n, n + 1} ELSE {bendTLen - 1},
      residual |-> Row(IF v > 2 /\ ~past THEN n + 1 ELSE n) ]

\* Past the curve v is cleared, which is the weight in the source; the weight
\* in the curve, u, is left.  f0i has been made before that.
Frame ==
    /\ bendPc = "frames" /\ bendI < bendOLen
    /\ \E n \in 0 .. bendTLen, v \in {0, 1, 3} :
       LET u == bendI * BendFramePeriod
           step == BendGrain * pStep
           past == u \div step >= pLen
       IN frame' = FrameOf(u, step, IF past THEN pLen - 1 ELSE u \div step, past, n, v)
    /\ bendI' = bendI + 1
    /\ UNCHANGED <<note, bendNum, pStep, pLen, pit, bendPc>>

BendReturn ==
    /\ bendPc = "frames" /\ bendI >= bendOLen
    /\ bendPc' = "done"
    /\ UNCHANGED <<note, bendNum, pStep, pLen, pit, bendI, frame>>

BendFinished == bendPc \in {"done", "died"} /\ UNCHANGED bendVars

BendNext == Name \/ Curve \/ NoCurve \/ Frame \/ BendReturn \/ BendFinished
BendSpec == BendInit /\ [][BendNext]_bendVars

-----------------------------------------------------------------------------
(* Properties *)

BendTypeOK ==
    /\ name \in Names /\ bendNum \in Int
    /\ bendOutSamples \in OutSamples /\ given \in BOOLEAN /\ pStep \in Nat
    /\ pLen \in Nat /\ DOMAIN pit \subseteq 0 .. pLen
    /\ f0 \in [0 .. bendTLen -> Pitches] /\ freq_avg \in Pitches
    /\ bendI \in 0 .. bendOLen
    /\ bendPc \in {"name", "curve", "frames", "done", "died"}

\* The letters are two runs of whole tones, cut at other places in the
\* alphabet: name2freq gives every name its place in the scale from C.
Scale == <<"C", "Db", "D", "Eb", "E", "F", "Gb", "G", "Ab", "A", "Bb", "B">>
NameInScale ==
    bendPc # "name" /\ name.octave \notin {Missing, NoNumber} =>
        IF \E s \in 1 .. 12 : Scale[s] = name.letter
        THEN LET s == CHOOSE s \in 1 .. 12 : Scale[s] = name.letter
             IN bendNum = 10 * (12 * (name.octave - 1) + (s - 10) + name.sharp)
        ELSE bendNum = None

\* pit[m] and pit[m + 1] exist for every frame: pLen is rounded down, oLen is
\* counted in another unit, and only one of the two has the last step added.
IndexInRange == bendI > 0 => frame.m >= 0 /\ frame.m + 1 <= pLen

\* The case m >= pLen never meets a curve.  It is met without one, where all
\* steps are 0, and then only at sampling rates at which a frame is longer
\* than the 256 samples of a step; there it stops the source between frames.
PastCurveIsFlat == bendI > 0 /\ frame.past =>
    /\ ~given /\ frame.cents.num = 0
    /\ BendFramePeriod > BendGrain * pStep

\* With a modulation that is not negative and a source with a pitch, the
\* factor is a number, and 0 only in a frame of which both neighbours in the
\* source are unvoiced: a voiced frame is never silenced, nor is an unvoiced
\* one between voiced ones made a glide to 0.
ReadPitches(n) == {n} \cup IF n < bendTLen - 1 THEN {n + 1} ELSE {}
PitchDefined == bendI > 0 /\ modulation >= 0 /\ freq_avg > 0 =>
    /\ Finite(frame.factor)
    /\ frame.factor.num = 0 =>
          modulation = 1 /\ \A k \in ReadPitches(frame.n) : f0[k] = 0

\* The rows that are read exist, also where the source position is a frame
\* past the end, as it may be (SourceInRange of TimeMap).
RowsExist == bendI > 0 =>
    frame.residual \in 0 .. bendTLen - 1 /\ frame.rows \subseteq 0 .. bendTLen - 1

\* The pitch of an output frame is defined: the note is found in the scale, the
\* curve is read within its length, and the rows of the source exist.
PitchSound ==
    NameInScale /\ IndexInRange /\ PastCurveIsFlat /\ PitchDefined /\ RowsExist
=============================================================================
