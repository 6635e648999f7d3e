----------------------------- MODULE Synthesis -----------------------------
(***************************************************************************)
(* The overlap-add loop of synthesis(): from the pitch of every output     *)
(* frame it places one pulse response after another, each one period after *)
(* the one before, until the output is full.                               *)
(*                                                                         *)
(* Time is counted in ticks, Grain of them in a sample.  The pitch of a    *)
(* frame is given by its period in ticks, 0 for an unvoiced frame and NaN  *)
(* for a frame whose pitch is not a number.  Of the signal the model keeps *)
(* which output samples a response has been added to.                      *)
(***************************************************************************)
EXTENDS Integers

CONSTANTS
    Fftl,           \* the length of a response
    FramePeriod,    \* ticks in a frame
    DefaultPeriod,  \* ticks in a period of DEFAULT_F0
    Periods,        \* the periods that pitches have, of any length: the pitch is
                    \* the one the note asks for, whatever the analysis can find
    Lengths,        \* the lengths of the output, in samples
    NaN             \* a pitch that is not a number

Grain == 10

\* 3/4 of a response is kept, and the last eighth of Fftl is not entered.
Reach == (3 * Fftl) \div 4
Margin == Fftl \div 8

ASSUME FftlAssumption == Fftl \in Nat /\ Fftl >= 8 /\ Fftl % 8 = 0
ASSUME FrameAssumption ==
    FramePeriod \in Nat /\ 0 < FramePeriod /\ FramePeriod <= 2 * Grain * Margin
ASSUME PeriodAssumption ==
    Periods \subseteq Nat \ {0} /\ DefaultPeriod \in Nat \ {0}
ASSUME LengthAssumption == Lengths \subseteq Nat \ {0}
ASSUME NaNAssumption == NaN \notin Nat

VARIABLES
    xLen,        \* samples of the output
    f0,          \* the pitch of each output frame
    time,        \* currentTime, NaN once a NaN has been added to it
    frame,       \* currentFrame
    touched,     \* the samples of synthesisOut that have been added to
    turns,       \* history: the times of the responses
    synthesisPc  \* "add": a response is to be placed; "done"; "lost": frame is
                 \* outside the arrays and the process dies reading them

synthesisVars == <<xLen, f0, time, frame, touched, turns, synthesisPc>>

\* The last frame is forgotten.
SamplesForDIONoLast(n) == (n * Grain) \div FramePeriod

\* getSamplesForDIO, for a length in samples
SamplesForDIO(n) == ((n * Grain) \div FramePeriod) + 1
tLen == SamplesForDIO(xLen)
Frames == 0 .. tLen - 1

FrameAt(t) == (2 * t + FramePeriod) \div (2 * FramePeriod)
PositionAt(t) == t \div Grain

Start ==
    /\ time = 0
    /\ frame = 0
    /\ touched = {} /\ turns = {}
    /\ synthesisPc = "add"
    /\ xLen \in Lengths

\* The source has a pitch somewhere: an output frame is voiced or not.
SynthesisInit == Start /\ f0 \in [Frames -> Periods \cup {0}]

\* The source has none: freq_avg is 0 and every pitch is 0 / 0.
InitUnpitched == Start /\ f0 = [i \in Frames |-> NaN]

\* An unvoiced frame is taken to have the pitch 0 that it is stored with.
PeriodNoDefault(i) == f0[i]

Period(i) == IF f0[i] = 0 THEN DefaultPeriod ELSE f0[i]

\* The loop over fftl / 2 samples that is commented out in the code.
ResponseHalf(p) == {p + j : j \in 0 .. (Fftl \div 2) - 1} \cap 0 .. xLen - 1

\* The part of a response placed at position p that the output has room for.
Response(p) == {p + j : j \in 0 .. Reach - 1} \cap 0 .. xLen - 1

\* One turn of the loop: a response at the current time, then the next time.
AddResponse ==
    /\ synthesisPc = "add" /\ time # NaN /\ f0[frame] # NaN
    /\ LET next == time + Period(frame)
       IN /\ touched' = touched \cup Response(PositionAt(time))
          /\ turns' = turns \cup {time}
          /\ time' = next
          /\ frame' = FrameAt(next)
          /\ synthesisPc' = IF Margin + PositionAt(next) >= xLen \/ FrameAt(next) >= tLen
                            THEN "done" ELSE "add"
    /\ UNCHANGED <<xLen, f0>>

\* The same turn when the pitch is NaN.  (int)NaN is undefined: the smallest
\* int on x86, 0 on ARM; neither ends the loop unless the output is as short
\* as the margin.
AddResponseNaN ==
    /\ synthesisPc = "add" /\ (time = NaN \/ f0[frame] = NaN)
    /\ touched' = touched \cup Response(IF time = NaN THEN 0 ELSE PositionAt(time))
    /\ turns' = turns \cup {time}
    /\ time' = NaN
    /\ \/ /\ frame' = 0
          /\ synthesisPc' = IF Margin >= xLen THEN "done" ELSE "add"
       \/ frame' = -1 /\ synthesisPc' = "lost"
    /\ UNCHANGED <<xLen, f0>>

SynthesisFinished == synthesisPc \in {"done", "lost"} /\ UNCHANGED synthesisVars

SynthesisNext == AddResponse \/ SynthesisFinished
SynthesisSpec ==
    SynthesisInit /\ [][SynthesisNext]_synthesisVars /\ WF_synthesisVars(AddResponse)

Turn == AddResponse \/ AddResponseNaN
UnpitchedSpec ==
    InitUnpitched /\ [][Turn \/ SynthesisFinished]_synthesisVars /\ WF_synthesisVars(Turn)

-----------------------------------------------------------------------------
(* Properties *)

SynthesisTypeOK ==
    /\ xLen \in Lengths
    /\ f0 \in [Frames -> Periods \cup {0}]
    /\ time \in Nat
    /\ frame = FrameAt(time)
    /\ touched \subseteq 0 .. xLen - 1 /\ turns \subseteq Nat
    /\ synthesisPc \in {"add", "done"}

\* Every response is made of a frame that exists: synthesis() stops before
\* it reads f0, specgram and residualSpecgram past their last frame, from
\* the first turn on, where nothing has been checked.
FrameInRange == synthesisPc = "add" => frame \in Frames

\* Sample s is behind the response at one of the turns and before the next
\* one, or the margin the loop stops at: a period that is longer than
\* responses overlap.  With fftl for a floor of 71 Hz that takes a note of less
\* than 38 Hz, 34.5 Hz at a rate of 44100.
LeftOut(s) ==
    \E t \in turns :
        LET d == Period(FrameAt(t))
        IN /\ d > Grain * (Reach - Margin)
           /\ PositionAt(t) + Reach <= s /\ s < PositionAt(t + d) + Margin

\* The whole output is made, but for what is left out between responses of a
\* pitch that is too low: the loop may stop an eighth of Fftl before the end of
\* the output, or half a frame after its last frame, because what it has added
\* by then reaches the end; and no change of the pitch from frame to frame
\* opens a gap that neither of the two pitches would have.
Covered == synthesisPc = "done" =>
    \A s \in 0 .. xLen - 1 : s \in touched \/ LeftOut(s)

\* The strengthening of Covered: up to a margin behind the next response
\* every sample is accounted for.
CoverInv ==
    \/ time = 0 /\ touched = {} /\ synthesisPc = "add"
    \/ \A s \in 0 .. xLen - 1 :
          s < PositionAt(time) + Margin => s \in touched \/ LeftOut(s)

\* The loop ends, also where the source has no pitch at all.  main zeroes the NaN samples
\* that synthesis() "spits out in blank parts" (1273): for that synthesis()
\* must return.
EndsUnpitched == <>(synthesisPc = "done")

=============================================================================
