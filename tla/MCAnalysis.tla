----------------------------- MODULE MCAnalysis -----------------------------
(***************************************************************************)
(* The analyses that follow the pitch track: star() of one frame, and the  *)
(* two parts of platinum(), the lists of voice islands and the pulses in   *)
(* them.  A behaviour runs one of them, on every input of it; the others   *)
(* keep one value.                                                         *)
(***************************************************************************)
EXTENDS Star, VoiceIslands, Pulses

VARIABLE analysis

analysisVars == <<analysis, starVars, islandsVars, pulsesVars>>

-----------------------------------------------------------------------------
(* Values of the constants *)

\* Low rates, which give the same ratios with short buffers, and 44.1 kHz scaled
\* down; pitches from the floor up to nearly fs / 4, and frames at both ends of
\* the signal and past it.
MCRates == {1500, 1491, 1512, 1764, 2000, 3007, 3030}
MCPitches == {71, 72, 73, 80, 99, 150, 301, 371}
MCLengths == {1, 40, 90}
MCTimes == {0, 17, 88, 201, 447, 450}
MCPowers == {2 ^ k : k \in 1 .. 10}

\* Tracks from two frames on; and signals of four to eight periods.
MCIslandsLengths == 2 .. 10
MCPulsesLengths == {20, 27, 41}
MCPeaks == {0, 4, 9, 11}

-----------------------------------------------------------------------------
(* The analyses that do not run *)

StarIdle ==
    /\ fs = 1500 /\ xLen = 1 /\ time = 0 /\ f0 = DEFAULT_F0 /\ fftl = 64
    /\ segment = <<>> /\ dSpectrum = <<>> /\ low = <<>> /\ high = <<>>
    /\ starPc = "segment"
IslandsIdle == tLen = 2 /\ voiced = [k \in 0 .. 1 |-> FALSE] /\ IslandsInit
PulsesIdle ==
    /\ pulsesXLen = 20 /\ pulsesVoiced = [k \in PulsesFrames |-> FALSE]
    /\ PulsesInit

AnalysisInit ==
    /\ analysis \in {"star", "islands", "pulses"}
    /\ IF analysis = "star" THEN StarInit ELSE StarIdle
    /\ IF analysis = "islands" THEN IslandsInit ELSE IslandsIdle
    /\ IF analysis = "pulses" THEN PulsesInit ELSE PulsesIdle

AnalysisNext ==
    /\ UNCHANGED analysis
    /\ \/ analysis = "star" /\ StarNext
       \/ analysis # "star" /\ UNCHANGED starVars
    /\ \/ analysis = "islands" /\ IslandsNext
       \/ analysis # "islands" /\ UNCHANGED islandsVars
    /\ \/ analysis = "pulses" /\ PulsesNext
       \/ analysis # "pulses" /\ UNCHANGED pulsesVars

AnalysisSpec == AnalysisInit /\ [][AnalysisNext]_analysisVars

\* The variables of the analysis that runs hold values of their kind, and the
\* lists of islands what the proof takes them to hold.
AnalysisInv ==
    CASE analysis = "star" -> StarTypeOK
      [] analysis = "islands" -> IInv
      [] analysis = "pulses" -> PulsesTypeOK
=============================================================================
