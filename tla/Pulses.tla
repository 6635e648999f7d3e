------------------------------- MODULE Pulses -------------------------------
(***************************************************************************)
(* platinum() after its island lists: every island gets a wedge, near the  *)
(* loudest sample in its middle, the pulses are where the phase, counted   *)
(* from the wedge, passes a whole cycle, and every frame is given the      *)
(* residual of the nearest pulse, or keeps that of the frame before.       *)
(*                                                                         *)
(* Times are in samples; a frame has FrameNum / FrameDen of them.  A cycle *)
(* has Cycle parts.  The pitch of a sample is that of its frame, the       *)
(* interpolation between frames and the samples themselves are left out:   *)
(* the loudest sample may be any.                                          *)
(***************************************************************************)
EXTENDS Integers, Sequences, FiniteSets

CONSTANTS
    PulsesLengths,        \* of the signal
    FrameNum, FrameDen,   \* samples in a frame
    Cycle,
    VoicedT0, DefaultT0,  \* the periods of voiced and of unvoiced frames
    MaxIslands,
    Peaks                 \* places of the loudest sample

ASSUME PeriodAssumption ==
    /\ FrameNum \in Nat \ {0} /\ FrameDen \in Nat \ {0} /\ Cycle \in Nat \ {0}
    /\ \A t \in {VoicedT0, DefaultT0} : t \in Nat /\ t > 4 /\ Cycle % t = 0
ASSUME SignalAssumption == PulsesLengths \subseteq Nat \ {0}
ASSUME PeakAssumption == Peaks \subseteq Nat /\ 0 \in Peaks

VARIABLES
    pulsesXLen,
    pulsesVoiced,  \* of each frame: f0 # 0
    islands,       \* <<first, last>> of each, stList and edList
    wedgeList,
    pulsesI,       \* the next island, and then the next frame
    totalPhase,
    locations,     \* pulseLocations, island by island
    scratch,       \* the frame tmpResidualSpec is of
    residual,      \* and that of every row of residualSpecgram
    pulsesPc       \* "wedges", "phase", "pulses", "frames", "done"

pulsesVars == <<pulsesXLen, pulsesVoiced, islands, wedgeList, pulsesI,
                totalPhase, locations, scratch, residual, pulsesPc>>

Garbage == -1      \* never written
Zeros == 0         \* row 0

pulsesTLen == (pulsesXLen * FrameDen) \div FrameNum + 1
PulsesFrames == 0 .. pulsesTLen - 1

\* A time in parts of a sample, as a sample.
Floor(n) == n \div FrameDen
Round(n) == (2 * n + FrameDen) \div (2 * FrameDen)
FrameTime(k) == k * FrameNum

Period(k) == IF pulsesVoiced[k] THEN VoicedT0 ELSE DefaultT0
FrameOf(j) == (j * FrameDen) \div FrameNum
Increment(j) == Cycle \div Period(FrameOf(j))

Smaller(a, b) == IF a < b THEN a ELSE b
Larger(a, b) == IF a > b THEN a ELSE b

InSequence(S) ==
    [p \in 1 .. Cardinality(S) |->
        CHOOSE e \in S : Cardinality({d \in S : d < e}) = p - 1]

\* The islands of a track, which tile it, unvoiced first.
IslandsOf(track, n) ==
    LET starts == {0} \cup {k \in 1 .. n - 1 : track[k] # track[k - 1]}
        ends == {n - 1} \cup {k - 1 : k \in starts \ {0}}
    IN [p \in 1 .. Cardinality(starts) |->
           <<InSequence(starts)[p], InSequence(ends)[p]>>]

PulsesInit ==
    /\ pulsesXLen \in PulsesLengths
    /\ pulsesVoiced \in [PulsesFrames -> BOOLEAN] /\ ~ pulsesVoiced[0]
    /\ islands = IslandsOf(pulsesVoiced, pulsesTLen) /\ Len(islands) <= MaxIslands
    /\ wedgeList = <<>> /\ pulsesI = 1
    /\ totalPhase = <<>> /\ locations = <<>>
    /\ scratch = Garbage /\ residual = [k \in PulsesFrames |-> Garbage]
    /\ pulsesPc = "wedges"

\* getWedgeList() for one island.  The search compares the magnitude of a sample
\* with the signed value of another, and ends with an element that was not
\* written: it may find any of the 2 * T0 + 1.
Wedge(island, peakIndex) ==
    LET center == (island[1] + island[2] + 1) \div 2
    IN Larger(0, Smaller(pulsesXLen - 1,
           Round(FrameTime(center + 1)) - Period(center) + peakIndex))

GetWedge ==
    /\ pulsesPc = "wedges"
    /\ \E peakIndex \in Peaks :
           /\ peakIndex <= 2 * Period((islands[pulsesI][1] + islands[pulsesI][2] + 1) \div 2)
           /\ wedgeList' = Append(wedgeList, Wedge(islands[pulsesI], peakIndex))
    /\ IF pulsesI < Len(islands) THEN pulsesI' = pulsesI + 1 /\ UNCHANGED pulsesPc
       ELSE pulsesI' = 1 /\ pulsesPc' = "phase"
    /\ UNCHANGED <<pulsesXLen, pulsesVoiced, islands, totalPhase, locations,
                   scratch, residual>>

\* Unvoiced frames count with the default pitch.
Phase ==
    /\ pulsesPc = "phase"
    /\ totalPhase' =
           LET sum[j \in 0 .. pulsesXLen - 1] ==
                   Increment(j) + IF j = 0 THEN 0 ELSE sum[j - 1]
           IN [j \in 0 .. pulsesXLen - 1 |-> sum[j]]
    /\ pulsesPc' = "pulses"
    /\ UNCHANGED <<pulsesXLen, pulsesVoiced, islands, wedgeList, pulsesI,
                   locations, scratch, residual>>

\* The remainder as in C, with the sign of n.
fmod(n) == IF n >= 0 THEN n % Cycle ELSE -((-n) % Cycle)

\* From one sample early.
stIndexEarly(island) == Larger(0, Floor(FrameTime(island[1])) - 2)
stIndex(island) == Larger(0, Floor(FrameTime(island[1])))
edIndex(island) == Smaller(pulsesXLen - 1, Round(FrameTime(island[2] + 1)) - 1)

\* The remainder jumps, by more than a quarter of a cycle.
Jumps(j, wedge) ==
    LET step == fmod(totalPhase[j + 1] - totalPhase[wedge])
                - fmod(totalPhase[j] - totalPhase[wedge])
    IN 4 * step > Cycle \/ 4 * step < -Cycle

\* basePhase[0] is set to 0.
PulsesOf(island, wedge) ==
    {j \in stIndex(island) .. edIndex(island) - 2 : j # 0 /\ Jumps(j, wedge)}

\* basePhase[edIndex - 1] is read as malloc() left it.
Stray(island) ==
    LET last == edIndex(island) - 1
    IN IF last > 0 /\ last >= stIndex(island) THEN {{}, {last}} ELSE {{}}

\* getPulseLocations() for one island.
GetPulses ==
    /\ pulsesPc = "pulses"
    /\ \E stray \in Stray(islands[pulsesI]) :
           locations' = locations \o
               InSequence(PulsesOf(islands[pulsesI], wedgeList[pulsesI]) \cup stray)
    /\ IF pulsesI < Len(islands) THEN pulsesI' = pulsesI + 1 /\ UNCHANGED pulsesPc
       ELSE pulsesI' = 1 /\ pulsesPc' = "frames"
    /\ residual' = [residual EXCEPT ![0] = Zeros]
    /\ UNCHANGED <<pulsesXLen, pulsesVoiced, islands, wedgeList, totalPhase,
                   scratch>>

Distance(p, k) ==
    LET d == locations[p] * FrameDen - FrameTime(k) IN IF d < 0 THEN -d ELSE d

\* The sample after the pulse that is nearest to a frame, the first of two.
NearestPulse(k) ==
    LET p == CHOOSE q \in DOMAIN locations :
                 /\ \A r \in DOMAIN locations : Distance(q, k) <= Distance(r, k)
                 /\ \A r \in 1 .. q - 1 : Distance(r, k) > Distance(q, k)
    IN locations[p] + 1

\* Without a pulse, index is not initialised.
Indices(k) == IF locations = <<>> THEN {0, pulsesXLen} ELSE {NearestPulse(k)}

\* The window is two periods around the pulse.
FitsWindow(index, k) == 2 * Period(k) + index - Period(k) < pulsesXLen

\* getOneFrameResidualSpec(), and the copy of what it leaves.
Residual ==
    /\ pulsesPc = "frames" /\ pulsesI < pulsesTLen
    /\ \E index \in Indices(pulsesI) :
           scratch' = IF FitsWindow(index, pulsesI) THEN pulsesI ELSE scratch
    /\ residual' = [residual EXCEPT ![pulsesI] = scratch']
    /\ pulsesI' = pulsesI + 1
    /\ UNCHANGED <<pulsesXLen, pulsesVoiced, islands, wedgeList, totalPhase,
                   locations, pulsesPc>>

PulsesReturn ==
    /\ pulsesPc = "frames" /\ pulsesI >= pulsesTLen
    /\ pulsesPc' = "done"
    /\ UNCHANGED <<pulsesXLen, pulsesVoiced, islands, wedgeList, pulsesI, totalPhase, locations,
                   scratch, residual>>

PulsesFinished == pulsesPc = "done" /\ UNCHANGED pulsesVars

PulsesNext ==
    GetWedge \/ Phase \/ GetPulses \/ Residual \/ PulsesReturn \/ PulsesFinished
PulsesSpec == PulsesInit /\ [][PulsesNext]_pulsesVars

-----------------------------------------------------------------------------
(* Properties *)

PulsesTypeOK ==
    /\ pulsesXLen \in PulsesLengths
    /\ \A k \in DOMAIN wedgeList : wedgeList[k] \in 0 .. pulsesXLen - 1
    /\ pulsesI \in 1 .. pulsesTLen
    /\ \A k \in DOMAIN locations : locations[k] \in 1 .. pulsesXLen - 1
    /\ scratch \in {Garbage} \cup PulsesFrames
    /\ \A k \in PulsesFrames : residual[k] \in {Garbage} \cup 0 .. k
    /\ pulsesPc \in {"wedges", "phase", "pulses", "frames", "done"}

\* The pulses of all islands are in order, so that they fit in the array of xLen
\* elements: no two islands share a sample, however their limits are rounded
\* and whatever the element never written holds.
InOrder == \A p, q \in DOMAIN locations : p < q => locations[p] < locations[q]

\* Within an island the pulses are a cycle apart, but for the one at the wedge,
\* where the remainder passes 0 without a jump: there a pulse is missing.
CycleApart ==
    pulsesPc = "frames" /\ pulsesI = 1 => \A n \in DOMAIN islands :
    LET made == PulsesOf(islands[n], wedgeList[n])
        w == wedgeList[n]
        Cycles(a, b) == totalPhase[b + 1] - totalPhase[a + 1]
    IN \A a, b \in made :
          a < b /\ (\A c \in made : c <= a \/ c >= b) =>
              IF a < w /\ w <= b + 1
              THEN Cycles(a, b) <= 2 * Cycle + Increment(w)
              ELSE /\ Cycles(a, b) < Cycle + Cycle \div 4
                   /\ Cycles(a, b) > Cycle - Cycle \div 4

\* The samples from which on an island has two periods.
Stretches(n) ==
    Larger(1, stIndex(islands[n])) .. edIndex(islands[n]) - 2 * Period(islands[n][1]) - 1

\* A frame is given its own residual unless it is near the end of the signal or
\* far from any island with room for two periods: there is a pulse in each such
\* stretch, or the nearest is nearer, and a window there fits.
OwnResidual == pulsesPc = "done" =>
    \A k \in PulsesFrames \ {0}, n \in DOMAIN islands : \A j \in Stretches(n) :
        LET last == j + 2 * Period(islands[n][1]) - 1
            room == FrameDen * (pulsesXLen - 1 - Period(k))
        IN FrameDen * last < room /\ 2 * FrameTime(k) - FrameDen * j < room =>
               residual[k] = k

\* From the wedges of the islands to the residual of a frame: pulses are in order
\* over all islands, a cycle apart in each, and a frame has that of its own.
PulsesSound == InOrder /\ CycleApart /\ OwnResidual
=============================================================================
