---------------------------- MODULE MCParamCodec ----------------------------
(* ParamCodec with spectra of two bins and residuals beyond what a short    *)
(* holds.                                                                   *)
EXTENDS ParamCodec

MCPositive == {2, 11}
MCLogarithms == [l \in {2, 4, 11, 12} |->
    CASE l = 2 -> -31229 [] l = 4 -> -28389 [] l = 11 -> -24242 [] l = 12 -> -23885]
MCOut == {131071, 131072, 150000, -131072, -131076, -140000}
MCOneRatio == {<<1, 1>>}
=============================================================================
