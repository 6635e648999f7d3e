-------------------------- MODULE MCAnalysisCache --------------------------
(* Values for AnalysisCache: versions "a" and "b" have the same length and *)
(* rate, "l" is too long for the 16-bit frame count of the headers.        *)
EXTENDS AnalysisCache, TLC

CONSTANTS p1, p2, p3

MCVersions == {"a", "b", "l"}
MCSig == [v \in MCVersions |-> IF v = "l" THEN 2 ELSE 1]
MCLong == {"l"}

OneVersion == {"a"}
OneSig == [v \in OneVersion |-> 1]

Symmetric == Permutations(Procs)
=============================================================================
