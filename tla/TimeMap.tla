------------------------------ MODULE TimeMap ------------------------------
(***************************************************************************)
(* From the arguments of a note to the source position of every output     *)
(* frame: the part of main() that checks offset, fixed and blank, and the  *)
(* head of its frame loop.                                                 *)
(*                                                                         *)
(*    offset    fixed      m2      blank                                   *)
(*  |--------|--------|---------|---------|  source                        *)
(*           |   l1   |     l2     |         output                        *)
(*                                                                         *)
(* The consonant, fixed, is played at a velocity, and m2 is stretched over *)
(* what is left of the length.  Times are in ticks, Grain of them in a     *)
(* sample; velocity is a number of halves, so that 1, 2, 4 stand for the   *)
(* arguments 0, 100, 200; positions are fractions.  Sums that the code     *)
(* divides by the velocity are kept here multiplied by it.                 *)
(***************************************************************************)
EXTENDS Integers

CONSTANTS
    FramePeriod,  \* ticks in a frame
    Wavelengths, Offsets, Fixeds, Blanks, Lengths, Velocities  \* arguments

Grain == 2

\* A frame, of 5.8 ms, is a sample or longer from 173 Hz on.
ASSUME FrameAssumption == FramePeriod \in Nat /\ FramePeriod >= Grain
ASSUME ArgumentAssumption ==
    /\ Wavelengths \subseteq Nat \ {0} /\ Offsets \subseteq Nat
    /\ Fixeds \subseteq Nat /\ Blanks \subseteq Int /\ Lengths \subseteq Nat
    /\ Velocities \subseteq Nat \ {0}

VARIABLES
    wavelength, offset, fixed, blank, length, velocity,  \* the note
    i,         \* the next output frame
    tmi,       \* the source position of the last one, a fraction
    timeMapPc  \* "arguments", "map", "done", "refused", or "lost": the source
               \* frame is before the arrays, and the process dies reading it

args == <<wavelength, offset, fixed, blank, length, velocity>>
timeMapVars == <<args, i, tmi, timeMapPc>>

Fraction(n, d) == [num |-> n, den |-> d]
AtMost(p, t) == p.num <= t * p.den
LessThan(p, t) == p.num < t * p.den

\* No number: a division of 0 or less by 0.
NaNFraction == Fraction(0, 0)

\* getSamplesForDIO, for a length in ticks
SamplesForDIO(t) == t \div FramePeriod + 1

tLen == SamplesForDIO(wavelength)
outSamples == length \div Grain + 1

\* The last frame is forgotten.
oLenNoLast == (outSamples * Grain) \div FramePeriod

oLen == SamplesForDIO(outSamples * Grain)

m2 == wavelength - offset - fixed - blank
l1 == 2 * fixed               \* times velocity
l2 == length * velocity - l1  \* times velocity

TimeMapInit ==
    /\ wavelength \in Wavelengths
    /\ offset \in Offsets
    /\ fixed \in Fixeds
    /\ blank \in Blanks
    /\ length \in Lengths
    /\ velocity \in Velocities
    /\ i = 0
    /\ tmi = Fraction(0, 1)
    /\ timeMapPc = "arguments"

\* A negative blank is the length of what is used, and may be too long.
BlankAsGiven == IF blank < 0 THEN wavelength - offset + blank ELSE blank
Blank == IF BlankAsGiven < 0 THEN 0 ELSE BlankAsGiven

\* A fixed part that leaves nothing to stretch.
Fixed == IF offset + Blank + fixed >= wavelength
         THEN wavelength - offset + Blank ELSE fixed

Refuse ==
    /\ timeMapPc = "arguments"
    /\ \/ offset + Blank >= wavelength
       \/ /\ wavelength - offset - Fixed - Blank <= 0
          /\ length * velocity - 2 * Fixed > 0
    /\ timeMapPc' = "refused"
    /\ UNCHANGED <<args, i, tmi>>

Accept ==
    /\ timeMapPc = "arguments"
    /\ offset + Blank < wavelength
    /\ \/ wavelength - offset - Fixed - Blank > 0
       \/ length * velocity - 2 * Fixed <= 0
    /\ blank' = Blank
    /\ fixed' = Fixed
    /\ timeMapPc' = "map"
    /\ UNCHANGED <<wavelength, offset, length, velocity, i, tmi>>

\* Whether m2 / l2 is more than 1.  Where l2 is 0 the division gives an
\* infinity, of the sign of m2, or no number.
TooFast ==
    \/ l2 > 0 /\ m2 * velocity > l2
    \/ l2 = 0 /\ m2 > 0
    \/ l2 < 0 /\ m2 * velocity < l2

\* offset + fixed + (tmo - l1) * stretch
Stretched(tmo) ==
    IF TooFast
    THEN Fraction((offset + fixed) * velocity + tmo * velocity - l1, velocity)
    ELSE IF l2 = 0 THEN NaNFraction
    ELSE LET sign == IF l2 > 0 THEN 1 ELSE -1
         IN Fraction(sign * ((offset + fixed) * l2 + (tmo * velocity - l1) * m2),
                     sign * l2)

Position(tmo) ==
    IF tmo * velocity < l1
    THEN Fraction(2 * offset + tmo * velocity, 2)
    ELSE Stretched(tmo)

SourceFrame(p) == p.num \div (p.den * FramePeriod)   \* n

\* Frames after the last are read too, f0 past its end.  (int) of what is not
\* a number is undefined: the smallest int on x86, 0 on ARM.
MapFrame ==
    /\ timeMapPc = "map" /\ i < oLen
    /\ LET p == Position(i * FramePeriod) IN
       /\ tmi' = p
       /\ IF p = NaNFraction THEN timeMapPc' \in {"map", "lost"}
          ELSE timeMapPc' = IF SourceFrame(p) < 0 THEN "lost" ELSE "map"
    /\ i' = i + 1
    /\ UNCHANGED args

TimeMapReturn ==
    /\ timeMapPc = "map" /\ i >= oLen
    /\ timeMapPc' = "done"
    /\ UNCHANGED <<args, i, tmi>>

TimeMapFinished == timeMapPc \in {"done", "refused", "lost"} /\ UNCHANGED timeMapVars

TimeMapNext == Refuse \/ Accept \/ MapFrame \/ TimeMapReturn \/ TimeMapFinished
TimeMapSpec == TimeMapInit /\ [][TimeMapNext]_timeMapVars

-----------------------------------------------------------------------------
(* Properties *)

TimeMapTypeOK ==
    /\ wavelength \in Wavelengths /\ offset \in Offsets
    /\ length \in Lengths /\ velocity \in Velocities
    /\ fixed \in Nat
    /\ blank \in Int
    /\ timeMapPc \in {"map", "done", "lost"} => blank >= 0
    /\ i \in Nat /\ tmi.num \in Int /\ tmi.den \in Nat
    /\ timeMapPc \in {"arguments", "map", "done", "refused", "lost"}

\* The notes of which the stretched part is used as the diagram has it: there
\* is some of it, and the output is at least as long as the consonant.
Regular == m2 > 0 /\ l2 >= 0
Mapped == timeMapPc \in {"map", "done", "lost"} /\ i > 0

\* The source position of a regular note is in the source.  The output has
\* one sample more than was asked for, so that the last position may be past
\* the blank by a sample, and its frame, when there is no blank, past the last
\* one: main reads f0[n] there without a test, by one frame at most.
SourceInRange == Mapped /\ Regular =>
    /\ SourceFrame(tmi) \in 0 .. tLen
    /\ blank >= Grain => SourceFrame(tmi) < tLen

\* The source of a regular note is played in order and without a jump, where
\* the consonant goes over into the stretched part as elsewhere.
MaxStep == FramePeriod * (IF velocity > 2 THEN velocity ELSE 2)   \* in halves
NoJump(p, q) ==
    /\ p.num * q.den <= q.num * p.den
    /\ 2 * (q.num * p.den - p.num * q.den) <= MaxStep * p.den * q.den
InOrder == [][Mapped /\ Regular /\ tmi' # tmi => NoJump(tmi, tmi')]_timeMapVars

\* A regular note that is stretched, or as long as its source, is played up
\* to the blank: its last frame is less than a step before it.
PlayedToBlank ==
    timeMapPc = "done" /\ Regular /\ m2 * velocity <= l2 =>
        2 * ((wavelength - blank) * tmi.den - tmi.num) < MaxStep * tmi.den

\* The diagram above main's argument checks (world4utau.c:963) ends the used
\* part of the source where the blank begins, for every note that main accepts.
BeforeBlank == Mapped /\ tmi # NaNFraction => AtMost(tmi, wavelength - blank + Grain)

\* A regular note plays the source in order, within it, and up to the blank.
PlayedInOrder == [](SourceInRange /\ PlayedToBlank) /\ InOrder
=============================================================================
