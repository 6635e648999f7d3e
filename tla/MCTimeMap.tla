----------------------------- MODULE MCTimeMap -----------------------------
(* TimeMap with frames of 3 1/2 samples.  The lengths go on past the source *)
(* at half velocity, and every clause of the argument checks is met.        *)
EXTENDS TimeMap

MCWavelengths == {20, 27}
MCOffsets == {0, 5, 24}
MCFixeds == {0, 6, 11, 30}
MCBlanks == {-30, -17, -9, 0, 1, 2, 8}
MCLengths == 0 .. 60
MCVelocities == {1, 2, 3, 4}
=============================================================================
