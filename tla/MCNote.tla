------------------------------- MODULE MCNote -------------------------------
(***************************************************************************)
(* What main() makes of the arguments of a note: the pitch curve that      *)
(* decpit() decodes, the pitch of every output frame, and the place in the *)
(* source of every output frame.  A behaviour runs one of them, on every   *)
(* input of it; the others keep one value.                                 *)
(***************************************************************************)
EXTENDS PitchBend, Decpit, TimeMap

VARIABLE work

noteVars == <<work, bendVars, decpitVars, timeMapVars>>

-----------------------------------------------------------------------------
(* Values of the constants *)

\* Frames of 3 1/2 samples and default steps of 4 (44.1 kHz and below) or 3
\* (above): lengths of up to 24 samples, curves of steps shorter and longer
\* than a frame, and every voicing of a source of two frames, and of what is
\* read past its end.
N(l, s, o) == [letter |-> l, sharp |-> s, octave |-> o]
C4 == N("C", 0, 4)
MCNames == {N(l, s, 1) : l \in {"A", "B", "C", "D", "E", "F", "G", "H"}, s \in {-1, 0, 1}}
           \cup {C4, N("B", 0, Missing), N("C", 0, NoNumber)}

\* Every curve of up to three elements out of values at the ends of their range,
\* repeated or not, and every string of up to five characters, most of which
\* are no curves.
Values == {0, 65, 2047, -2048, -1}
Elements == Values \X {Once, 1, 4}
Curves == UNION {[1 .. k -> Elements] : k \in 1 .. 3}
Characters == {"A", "/", "#", "2", "-"}
MCStrings == {<<c, EncodedCurve(c)>> : c \in Curves}
             \cup ({<<>>} \X UNION {[1 .. k -> Characters] : k \in 0 .. 5})
MCGarbage == {0, 2, -5, 25}

\* Lengths that go on past the source at half velocity; every clause of the
\* argument checks is met.
MCWavelengths == {20, 27}
MCOffsets == {0, 5, 24}
MCFixeds == {0, 6, 11, 30}
MCBlanks == {-30, -17, -9, 0, 1, 2, 8}
MCLengths == 0 .. 60
MCVelocities == {1, 2, 3, 4}

-----------------------------------------------------------------------------
\* All names are tried on one note only.
BendInputs ==
    name # C4 => /\ bendOutSamples = 1 /\ ~given /\ modulation = 0
                 /\ \A k \in DOMAIN f0 : f0[k] = 0

BendIdle ==
    /\ name = C4 /\ bendOutSamples = 1 /\ given = FALSE /\ pStep = 4
    /\ f0 = [k \in 0 .. bendTLen |-> 0] /\ modulation = 0
    /\ BendInit
DecpitIdle ==
    /\ curve = <<>> /\ str = <<>> /\ cnt = 0 /\ dst = <<>>
    /\ decpitI = 0 /\ n = 0 /\ num = 0 /\ decpitPc = "scan"
TimeMapIdle ==
    /\ wavelength = 20 /\ offset = 0 /\ fixed = 0 /\ blank = 0
    /\ length = 0 /\ velocity = 1
    /\ TimeMapInit

NoteInit ==
    /\ work \in {"bend", "decpit", "map"}
    /\ IF work = "bend" THEN BendInit /\ BendInputs ELSE BendIdle
    /\ IF work = "decpit" THEN DecpitInit ELSE DecpitIdle
    /\ IF work = "map" THEN TimeMapInit ELSE TimeMapIdle

NoteNext ==
    /\ UNCHANGED work
    /\ \/ work = "bend" /\ BendNext
       \/ work # "bend" /\ UNCHANGED bendVars
    /\ \/ work = "decpit" /\ DecpitNext
       \/ work # "decpit" /\ UNCHANGED decpitVars
    /\ \/ work = "map" /\ TimeMapNext
       \/ work # "map" /\ UNCHANGED timeMapVars

NoteSpec == NoteInit /\ [][NoteNext]_noteVars /\ WF_noteVars(NoteNext)

\* The variables of the work at hand hold values of their kind.
NoteTypeOK ==
    CASE work = "bend" -> BendTypeOK
      [] work = "decpit" -> DecpitTypeOK
      [] work = "map" -> TimeMapTypeOK

\* All three loops end: decpit() steps i back and forth, and does not stay in a
\* run of a string that is no curve.
NoteEnds ==
    <>(\/ work = "bend" /\ bendPc \in {"done", "died"}
       \/ work = "decpit" /\ decpitPc = "done"
       \/ work = "map" /\ timeMapPc \in {"done", "refused", "lost"})
=============================================================================
