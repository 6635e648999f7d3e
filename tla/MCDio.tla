------------------------------- MODULE MCDio -------------------------------
(***************************************************************************)
(* The stages of dio().  What one stage hands to the next is abstracted in *)
(* both of them, so that they share no state: a behaviour runs one stage,  *)
(* on every input of it, and the variables of the others keep one value,   *)
(* as before their functions are called.                                   *)
(***************************************************************************)
EXTENDS Decimate, DioFilter, ZeroCrossing, Interp1, DioBands, DioPostprocess, TLC

VARIABLE stage

dioVars == <<stage, decimateVars, filterVars, crossingVars, interp1Vars, bandsVars,
             postprocessVars>>

-----------------------------------------------------------------------------
(* Values of the constants *)

\* The rates named in the code, some that are not, and one below 4 kHz; signals
\* from the shortest to one of five steps of the greatest ratio.
MCRates == {3999, 4000, 8000, 11025, 16000, 22050, 24000, 32000, 44100, 48000, 96000}
MCLengths == 10 .. 60

\* One less than four crossings in every train need ten samples.
MCSamples == {-1, 0, 2}

\* The grid's values are not on a line, so that a point given to the wrong
\* interval has the wrong value.
MCValue == [k \in Nat |-> (k + 1) * (k + 1)]

\* The four lowest bands, and pitches at their limits and outside the range.
MCBoundaries == <<80, 113, 160, 226>>
MCMeans == {-5, 71, 80, 113, 226, 227}

\* Frames with a pitch near 100, one near 200, or none, so that islands end by
\* a jump, by silence or not at all.
Col(c0, c1, b) == [cand |-> (0 :> c0 @@ 1 :> c1), best |-> b]
MCColumns == {Col(200, 104, 200), Col(150, 100, 100), Col(0, 0, 0)}

-----------------------------------------------------------------------------
(* The stages that do not run *)

DecimateIdle == fs = 4000 /\ xLen = 10 /\ DecimateInit
FilterIdle ==
    /\ filterFs = 4000 /\ filterXLen = 1 /\ band = 0
    /\ filterFftl = 0 /\ filterHalfAverageLength = 0
    /\ equivalentFIR = <<>> /\ eSpec = <<>> /\ filterPc = "window"
CrossingIdle == filtered = [k \in 0 .. Length - 1 |-> 0] /\ CrossingInit
Interp1Idle ==
    x_length = 2 /\ yLen = 0 /\ x = [k \in 0 .. 1 |-> k] /\ y = <<>> /\ Interp1Init
BandsIdle == f0Deviations = 0 /\ interpolatedF0 = 71 /\ BandsInit
PostprocessIdle == column = [k \in Frames |-> Col(0, 0, 0)] /\ PostprocessInit

DioInit ==
    /\ stage \in {"decimate", "filter", "crossing", "interp1", "bands", "postprocess"}
    /\ IF stage = "decimate" THEN DecimateInit ELSE DecimateIdle
    /\ IF stage = "filter" THEN FilterInit ELSE FilterIdle
    /\ IF stage = "crossing" THEN CrossingInit ELSE CrossingIdle
    /\ IF stage = "interp1" THEN Interp1Init ELSE Interp1Idle
    /\ IF stage = "bands" THEN BandsInit ELSE BandsIdle
    /\ IF stage = "postprocess" THEN PostprocessInit ELSE PostprocessIdle

DioNext ==
    /\ UNCHANGED stage
    /\ \/ stage = "decimate" /\ DecimateNext
       \/ stage # "decimate" /\ UNCHANGED decimateVars
    /\ \/ stage = "filter" /\ FilterNext
       \/ stage # "filter" /\ UNCHANGED filterVars
    /\ \/ stage = "crossing" /\ CrossingNext
       \/ stage # "crossing" /\ UNCHANGED crossingVars
    /\ \/ stage = "interp1" /\ Interp1Next
       \/ stage # "interp1" /\ UNCHANGED interp1Vars
    /\ \/ stage = "bands" /\ BandsNext
       \/ stage # "bands" /\ UNCHANGED bandsVars
    /\ \/ stage = "postprocess" /\ PostprocessNext
       \/ stage # "postprocess" /\ UNCHANGED postprocessVars

DioSpec == DioInit /\ [][DioNext]_dioVars /\ WF_dioVars(DioNext)

\* The variables of the stage that runs hold values of their kind, and the loops
\* are where the proofs take them to be.
DioInv ==
    CASE stage = "decimate" -> DecimateTypeOK /\ KeepInv
      [] stage = "filter" -> FilterTypeOK
      [] stage = "crossing" -> CrossingTypeOK
      [] stage = "interp1" -> Interp1TypeOK /\ IInv
      [] stage = "bands" -> BandsTypeOK
      [] stage = "postprocess" -> PostprocessTypeOK

\* Every stage comes to its end, or to the division by 0 of a rate below 4 kHz:
\* m_histc() steps back over a point only when it leaves an interval behind,
\* and the extensions of the islands end although the forward one rewrites the
\* array it runs over.
StagesEnd ==
    <>(\/ stage = "decimate" /\ decimatePc \in {"done", "trapped"}
       \/ stage = "filter" /\ filterPc = "done"
       \/ stage = "crossing" /\ crossingPc = "done"
       \/ stage = "interp1" /\ interp1Pc = "done"
       \/ stage = "bands" /\ bandsPc = "done"
       \/ stage = "postprocess" /\ postprocessPc = "done")
=============================================================================
