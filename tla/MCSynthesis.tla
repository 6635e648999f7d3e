---------------------------- MODULE MCSynthesis ----------------------------
(* Synthesis with Fftl = 16: Reach is 12 samples, Margin 2, and a period is *)
(* at most 10 samples.  A frame is a little less than two samples.         *)
EXTENDS Synthesis

MCPeriods == {3, 34, 100}
MCLengths == 1 .. 13
=============================================================================
