------------------------------ MODULE MCRender ------------------------------
(***************************************************************************)
(* The rendering of a note: what the cache files make of the values it is  *)
(* rendered from, the spectra of its responses, from the residual that     *)
(* platinum() packs to the response that synthesis() adds, and the places  *)
(* of the responses in the output.  A behaviour runs one of them, on every *)
(* input of it; the others keep one value.                                 *)
(***************************************************************************)
EXTENDS Synthesis, Spectra, ParamCodec

VARIABLE part

renderVars == <<part, synthesisVars, spectraVars, codecVars>>

-----------------------------------------------------------------------------
(* Values of the constants *)

\* With Fftl = 8, Reach is 6 samples and Margin one: periods of up to 5 samples
\* overlap, one of 9 leaves a gap of 3, and where it is the last one the end is
\* left out.  A frame is a little less than two samples.
MCPeriods == {3, 50, 90}
MCLengths == 1 .. 13

\* Spectra of five bins: no number, quantised to 0, just above, quiet and loud, with
\* the logarithms of these levels and of those they are rounded to; residuals on
\* both sides of both limits; and no stretching, and both directions of it up to
\* the limits of the flag g.  The level of s = 2^-33 is 4096 * log(2).
MCLevels == {1, 2, 11, 3002, 8195, Weird}
MCLn == [l \in {1, 2, 4, 8, 11, 12, 3000, 3002, 3004, 8192, 8195, 8196} |->
    CASE l = 1 -> -34069 [] l = 2 -> -31229 [] l = 4 -> -28389 [] l = 8 -> -25548
      [] l = 11 -> -24242 [] l = 12 -> -23885
      [] l = 3000 -> 316 [] l = 3002 -> 320 [] l = 3004 -> 323
      [] l = 8192 -> 7596 [] l = 8195 -> 7600 [] l = 8196 -> 7601]
MCLoud == 2840
MCResiduals == {0, 3, -3, 131071, -131072, Weird}
MCRatios == {<<1, 1>>, <<1, 3>>, <<3, 4>>, <<5, 4>>, <<3, 1>>}

-----------------------------------------------------------------------------
\* Nothing is stored of the residual and the spectrum together.
CodecInputs == residual = 0 \/ \A b \in Bins : spec[b] = 11

SynthesisIdle == xLen = 1 /\ f0 = [k \in Frames |-> 3] /\ SynthesisInit
SpectraIdle == fftl = 4 /\ SpectraInit
CodecIdle ==
    /\ spec = [b \in Bins |-> 11] /\ residual = 0 /\ ratio = <<1, 1>>
    /\ CodecInit

RenderInit ==
    /\ part \in {"codec", "spectra", "synthesis"}
    /\ IF part = "codec" THEN CodecInit /\ CodecInputs ELSE CodecIdle
    /\ IF part = "spectra" THEN SpectraInit ELSE SpectraIdle
    /\ IF part = "synthesis" THEN SynthesisInit ELSE SynthesisIdle

RenderNext ==
    /\ UNCHANGED part
    /\ \/ part = "codec" /\ CodecNext
       \/ part # "codec" /\ UNCHANGED codecVars
    /\ \/ part = "spectra" /\ SpectraNext
       \/ part # "spectra" /\ UNCHANGED spectraVars
    /\ \/ part = "synthesis" /\ SynthesisNext
       \/ part # "synthesis" /\ UNCHANGED synthesisVars

RenderSpec == RenderInit /\ [][RenderNext]_renderVars /\ WF_renderVars(RenderNext)

\* The variables of the part that runs hold values of their kind, and the output
\* is covered as far as the proof takes it to be.
RenderInv ==
    CASE part = "codec" -> CodecTypeOK
      [] part = "spectra" -> SpectraTypeOK
      [] part = "synthesis" -> SynthesisTypeOK /\ CoverInv

\* The loop of synthesis() ends whatever the pitch does from frame to frame, and
\* so do the transforms of the responses.
RenderEnds ==
    <>(\/ part = "codec" /\ codecPc = "done"
       \/ part = "spectra" /\ who = "synthesis" /\ count = MaxResponses
       \/ part = "synthesis" /\ synthesisPc = "done")
=============================================================================
