------------------------------ MODULE DioBands ------------------------------
(***************************************************************************)
(* The bands of dio() for one frame: rawEventByDio() gives every band a    *)
(* candidate, or none, in two arrays that are used again for the next, and *)
(* dio() then takes the candidate that is steadiest.                       *)
(*                                                                         *)
(* What a band measures is a pitch, the mean of four trains, and how far   *)
(* they are from it.  Frequencies are in Hz.                               *)
(***************************************************************************)
EXTENDS Integers, Sequences

CONSTANTS
    Boundaries,  \* boundaryF0List, from f0Floor to f0Ceil
    FLOOR_F0,
    Means,       \* of the four trains, extrapolated ones included
    Deviations

nBands == Len(Boundaries) - 1
Bands == 0 .. nBands
boundaryF0(b) == Boundaries[b + 1]
f0Ceil == boundaryF0(nBands)

ASSUME BandAssumption ==
    /\ Boundaries \in Seq(Nat) /\ Len(Boundaries) > 1
    /\ \A b \in Bands \ {0} : boundaryF0(b - 1) < boundaryF0(b)
    /\ FLOOR_F0 \in 1 .. boundaryF0(0)
\* Half an octave lies between two boundaries, and less than one between the
\* pitches' floor and the first: the upper halves of the bands overlap.
ASSUME OverlapAssumption ==
    /\ boundaryF0(0) <= 2 * FLOOR_F0
    /\ \A b \in Bands \ {0} : boundaryF0(b) <= 2 * boundaryF0(b - 1)
ASSUME ReadingAssumption == Means \subseteq Int /\ Deviations \subseteq Nat

Unusable == 100000
NotMeasured == -100000

VARIABLES
    measured,                      \* by each band, for the properties
    f0Deviations, interpolatedF0,  \* of this frame, shared by the bands
    f0Map, stabilityMap,           \* the latter as a quotient, of two numbers
    tmp, bestF0,
    bandsI,                        \* the next band
    bandsPc                        \* "bands", "best", "done"

bandsVars == <<measured, f0Deviations, interpolatedF0, f0Map, stabilityMap, tmp,
               bestF0, bandsI, bandsPc>>

NoPitch == [dev |-> Unusable, f0 |-> 0]

BandsInit ==
    /\ measured = [b \in Bands |-> NotMeasured]
    /\ f0Deviations \in Deviations /\ interpolatedF0 \in Means
    /\ f0Map = [b \in Bands |-> 0] /\ stabilityMap = [b \in Bands |-> NoPitch]
    /\ tmp = NoPitch /\ bestF0 = 0
    /\ bandsI = 0 /\ bandsPc = "bands"

\* Out of the upper half of the band, or of the range of pitches.
Refused(mean, b) ==
    \/ mean > boundaryF0(b) \/ 2 * mean < boundaryF0(b)
    \/ mean > f0Ceil \/ mean < FLOOR_F0

Record(dev, f0) ==
    /\ f0Deviations' = dev /\ interpolatedF0' = f0
    /\ f0Map' = [f0Map EXCEPT ![bandsI] = f0]
    /\ stabilityMap' = [stabilityMap EXCEPT ![bandsI] = [dev |-> dev, f0 |-> f0]]

\* The last band has been measured: band 0 is the best so far.
NextBand ==
    /\ bandsI' = IF bandsI < nBands THEN bandsI + 1 ELSE 1
    /\ bandsPc' = IF bandsI < nBands THEN "bands" ELSE "best"
    /\ tmp' = stabilityMap'[0] /\ bestF0' = f0Map'[0]

\* The arrays keep what the band before has left in them.
UnusableBandKept ==
    /\ bandsPc = "bands"
    /\ Record(f0Deviations, interpolatedF0)
    /\ NextBand
    /\ UNCHANGED measured

\* A band without three crossings or more in every train.
UnusableBand ==
    /\ bandsPc = "bands"
    /\ Record(Unusable, 0)
    /\ NextBand
    /\ UNCHANGED measured

UsableBand ==
    /\ bandsPc = "bands"
    /\ \E mean \in Means, dev \in Deviations :
        /\ measured' = [measured EXCEPT ![bandsI] = mean]
        /\ IF Refused(mean, bandsI) THEN Record(Unusable, 0) ELSE Record(dev, mean)
    /\ NextBand

\* f0Deviations / (interpolatedF0 + 0.00000001): above all others without f0.
Steadier(p, q) ==
    /\ p.f0 # 0
    /\ q.f0 = 0 \/ p.dev * q.f0 < q.dev * p.f0

Best ==
    /\ bandsPc = "best" /\ bandsI <= nBands
    /\ IF Steadier(stabilityMap[bandsI], tmp)
       THEN tmp' = stabilityMap[bandsI] /\ bestF0' = f0Map[bandsI]
       ELSE UNCHANGED <<tmp, bestF0>>
    /\ bandsI' = bandsI + 1
    /\ UNCHANGED <<measured, f0Deviations, interpolatedF0, f0Map, stabilityMap,
                   bandsPc>>

BandsReturn ==
    /\ bandsPc = "best" /\ bandsI > nBands
    /\ bandsPc' = "done"
    /\ UNCHANGED <<measured, f0Deviations, interpolatedF0, f0Map, stabilityMap,
                   tmp, bestF0, bandsI>>

BandsFinished == bandsPc = "done" /\ UNCHANGED bandsVars

BandsNext == UnusableBand \/ UsableBand \/ Best \/ BandsReturn \/ BandsFinished
BandsSpec == BandsInit /\ [][BandsNext]_bandsVars

-----------------------------------------------------------------------------
(* Properties *)

Candidate(b, f0) == f0 \in FLOOR_F0 .. boundaryF0(b) /\ boundaryF0(b) <= 2 * f0

\* The map that postprocessing() works on has candidates of the band, or none.
BandsTypeOK ==
    /\ bandsI \in 0 .. nBands + 1
    /\ f0Deviations \in Int /\ interpolatedF0 \in Int /\ tmp.f0 \in Nat
    /\ \A b \in Bands : f0Map[b] # 0 => Candidate(b, f0Map[b])
    /\ bestF0 \in {f0Map[b] : b \in Bands} /\ bandsPc \in {"bands", "best", "done"}

\* A frame is voiced if any band has a candidate, and has the pitch of a band
\* that none is steadier than.
SteadiestBand == bandsPc = "done" =>
    \/ bestF0 = 0 /\ \A b \in Bands : f0Map[b] = 0
    \/ \E b \in Bands : /\ bestF0 = f0Map[b] /\ f0Map[b] # 0
                        /\ \A c \in Bands : ~ Steadier(stabilityMap[c], stabilityMap[b])

\* No pitch of the range falls between the bands: if all of them measure the
\* same pitch, the frame has it.
NoPitchBetween == bandsPc = "done" =>
    \A p \in Means \cap FLOOR_F0 .. f0Ceil :
        (\A b \in Bands : measured[b] = p) => bestF0 = p

\* A band that measured nothing has no candidate, whatever the one before it
\* left in the arrays.
NothingHandedOn == \A b \in Bands : measured[b] = NotMeasured => f0Map[b] = 0

\* The pitch of a frame is that of the steadiest band that measured one itself,
\* and a pitch that all bands measure is not lost between two of them.
BandChosen == SteadiestBand /\ NoPitchBetween /\ NothingHandedOn
=============================================================================
