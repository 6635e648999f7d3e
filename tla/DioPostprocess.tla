--------------------------- MODULE DioPostprocess ---------------------------
(***************************************************************************)
(* postprocessing() of dio.c: from the best candidate of every frame, and  *)
(* the map of all candidates, it keeps the voiced islands whose pitch does *)
(* not jump (steps 1 and 2), extends each of them forward (step 3) and     *)
(* backward (step 4) over frames that have a candidate near the track, and *)
(* returns the track f0, 0 where a frame is unvoiced.                      *)
(*                                                                         *)
(* Pitches are integers; the terms 0.00001 and 0.0001 that keep the code   *)
(* from dividing by zero matter only where the divisor is 0.               *)
(***************************************************************************)
EXTENDS Integers, FiniteSets

CONSTANTS
    Candidates,  \* candidates of a frame
    Columns,     \* what a frame may have: [cand |-> f0Map[..][i], best |-> bestF0[i]]
    f0Len        \* frames

voiceRangeMinimum == 2   \* (int)(0.5 + 1 / framePeriod / f0Floor)
Allowed == 116           \* 1000 * allowedRange

K == 0 .. Candidates - 1
Frames == 0 .. f0Len - 1

ASSUME CandidatesAssumption == Candidates \in Nat \ {0}
ASSUME PostprocessLengthAssumption == f0Len \in Nat /\ f0Len >= voiceRangeMinimum
ASSUME ColumnsAssumption ==
    \A c \in Columns : /\ c.cand \in [K -> Nat]
                       /\ \E k \in K : c.best = c.cand[k]

VARIABLES
    column,            \* the candidates of each frame and the best of them
    positiveIndex,     \* the first frames of the islands of step 2
    negativeIndex,     \* their last frames; step 3 writes to it too
    postprocessCount,  \* positiveCount and negativeCount, which are equal
    track,             \* f0Step2, f0Step3, f0Step4 and f0 in turn
    island,            \* i
    frame,             \* j
    postprocessPc      \* "cut", "detect", "forward", "backward", "done"

postprocessVars == <<column, positiveIndex, negativeIndex, postprocessCount,
                     track, island, frame, postprocessPc>>

Unset == -1   \* memory of malloc

Abs(n) == IF n < 0 THEN -n ELSE n
Least(a, b) == IF a <= b THEN a ELSE b

PostprocessInit ==
    /\ column \in [Frames -> Columns]
    /\ positiveIndex = [k \in Frames |-> Unset]
    /\ negativeIndex = [k \in Frames |-> Unset]
    /\ postprocessCount = [positive |-> 0, negative |-> 0]
    /\ track = [i \in Frames |-> 0]
    /\ island = 0
    /\ frame = 0
    /\ postprocessPc = "cut"

-----------------------------------------------------------------------------
(* Steps 1 and 2: the islands *)

\* The best candidates are kept up to the end of the track.
f0BaseNoTail(i) == IF voiceRangeMinimum <= i THEN column[i].best ELSE 0

f0Base(i) ==
    IF voiceRangeMinimum <= i /\ i < f0Len - voiceRangeMinimum
    THEN column[i].best ELSE 0

\* |(a - b) / a| < allowedRange, for a # 0
Steady(a, b) == Abs(a - b) * 1000 < Allowed * a

f0Step1(i) ==
    IF voiceRangeMinimum <= i /\ Steady(f0Base(i), f0Base(i - 1))
    THEN f0Base(i) ELSE 0

f0Step2(i) ==
    IF \A j \in 0 .. voiceRangeMinimum - 1 : j <= i /\ f0Step1(i - j) # 0
    THEN f0Step1(i) ELSE 0

CutIslands ==
    /\ postprocessPc = "cut"
    /\ track' = [i \in Frames |-> f0Step2(i)]
    /\ postprocessPc' = "detect"
    /\ UNCHANGED <<column, positiveIndex, negativeIndex, postprocessCount,
                   island, frame>>

Starts == {i \in Frames \ {0} : track[i - 1] = 0 /\ track[i] # 0}
Ends == {i \in Frames : i + 1 < f0Len /\ track[i] # 0 /\ track[i + 1] = 0}

\* An array that holds the members of S in order, and nothing after them.
Listed(S) == [k \in Frames |->
    IF \E i \in S : Cardinality({j \in S : j < i}) = k
    THEN CHOOSE i \in S : Cardinality({j \in S : j < i}) = k
    ELSE Unset]

\* Where the backward extension begins, or the end of the whole.
BeginBackward(i) ==
    IF i < 0
    THEN postprocessPc' = "done" /\ UNCHANGED <<island, frame>>
    ELSE /\ postprocessPc' = "backward"
         /\ island' = i
         /\ frame' = positiveIndex'[i] + 1

BeginForward(i) ==
    IF i < postprocessCount'.negative
    THEN /\ postprocessPc' = "forward"
         /\ island' = i
         /\ frame' = negativeIndex'[i]
    ELSE BeginBackward(postprocessCount'.positive - 1)

DetectIslands ==
    /\ postprocessPc = "detect"
    /\ positiveIndex' = Listed(Starts)
    /\ negativeIndex' = Listed(Ends)
    /\ postprocessCount' =
           [positive |-> Cardinality(Starts), negative |-> Cardinality(Ends)]
    /\ BeginForward(0)
    /\ UNCHANGED <<column, track>>

-----------------------------------------------------------------------------
(* Steps 3 and 4: one frame further *)

\* The track goes on at the same pitch or with the same slope.
refValue1 == track[frame] * 2 - track[frame - 1]
refValue2 == track[frame]

ErrorValue(k, j) ==
    Least(Abs(refValue1 - column[j].cand[k]), Abs(refValue2 - column[j].cand[k]))

\* error / (ref + 0.0001) > allowedRange; a negative ref is never exceeded.
Exceeds(error, ref) ==
    \/ ref = 0 /\ error > 0
    \/ ref > 0 /\ error * 1000 > Allowed * ref

TooFar(error) == Exceeds(error, refValue1) /\ Exceeds(error, refValue2)

\* The candidate that the loop over k leaves, and its error.  Candidate 0 is
\* only ever compared with: when it is the nearest, the frame keeps its value.
Nearest(j) ==
    LET best[k \in K] ==
          IF k = 0 THEN [error |-> ErrorValue(0, j), value |-> track[j]]
          ELSE IF ErrorValue(k, j) < best[k - 1].error
               THEN [error |-> ErrorValue(k, j), value |-> column[j].cand[k]]
               ELSE best[k - 1]
    IN best[Candidates - 1]

\* The last island has no successor: positiveIndex is read past its last
\* entry, and what malloc has left there may stop the loop or not.
AtNextIsland ==
    IF island + 1 < postprocessCount.positive
    THEN {frame = positiveIndex[island + 1] - 1}
    ELSE BOOLEAN

ExtendForward ==
    /\ postprocessPc = "forward"
    /\ frame < f0Len - 1
    /\ LET next == Nearest(frame + 1) IN
       IF TooFar(next.error)
       THEN /\ track' = [track EXCEPT ![frame + 1] = 0]
            /\ UNCHANGED <<column, positiveIndex, negativeIndex, postprocessCount>>
            /\ BeginForward(island + 1)
       ELSE /\ track' = [track EXCEPT ![frame + 1] = next.value]
            /\ UNCHANGED <<column, positiveIndex, postprocessCount>>
            /\ \E stop \in AtNextIsland :
                  IF stop
                  THEN /\ negativeIndex' = [negativeIndex EXCEPT ![frame] = frame]
                       /\ BeginForward(island + 1)
                  ELSE /\ frame' = frame + 1
                       /\ UNCHANGED <<negativeIndex, island, postprocessPc>>

\* The loop has come to the last frame.
EndForward ==
    /\ postprocessPc = "forward"
    /\ frame >= f0Len - 1
    /\ UNCHANGED <<column, positiveIndex, negativeIndex, postprocessCount, track>>
    /\ BeginForward(island + 1)

\* Here a candidate is taken when the one before it is too far, whatever its
\* own error; and candidate 0 is the one of frame j + 1, not of j - 1.
FirstWithin(j) ==
    LET best[k \in K] ==
          IF k = 0 THEN [error |-> ErrorValue(0, j + 2), value |-> track[j]]
          ELSE IF TooFar(best[k - 1].error)
               THEN [error |-> ErrorValue(k, j), value |-> column[j].cand[k]]
               ELSE best[k - 1]
    IN best[Candidates - 1]

\* j > 0, as if the extension could reach the first frame.
ExtendBackwardToHead ==
    /\ postprocessPc = "backward"
    /\ frame > 0
    /\ UNCHANGED <<column, positiveIndex, negativeIndex, postprocessCount>>
    /\ LET next == FirstWithin(frame - 1) IN
       IF TooFar(next.error)
       THEN /\ track' = [track EXCEPT ![frame - 1] = 0]
            /\ BeginBackward(island - 1)
       ELSE /\ track' = [track EXCEPT ![frame - 1] = next.value]
            /\ IF island # 0 /\ frame = negativeIndex[island - 1] + 1
               THEN BeginBackward(island - 1)
               ELSE frame' = frame - 1 /\ UNCHANGED <<island, postprocessPc>>

ExtendBackward ==
    /\ postprocessPc = "backward"
    /\ frame > 1
    /\ UNCHANGED <<column, positiveIndex, negativeIndex, postprocessCount>>
    /\ LET next == FirstWithin(frame - 1) IN
       IF TooFar(next.error)
       THEN /\ track' = [track EXCEPT ![frame - 1] = 0]
            /\ BeginBackward(island - 1)
       ELSE /\ track' = [track EXCEPT ![frame - 1] = next.value]
            /\ IF island # 0 /\ frame = negativeIndex[island - 1] + 1
               THEN BeginBackward(island - 1)
               ELSE frame' = frame - 1 /\ UNCHANGED <<island, postprocessPc>>

EndBackward ==
    /\ postprocessPc = "backward"
    /\ frame <= 1
    /\ UNCHANGED <<column, positiveIndex, negativeIndex, postprocessCount, track>>
    /\ BeginBackward(island - 1)

PostprocessFinished == postprocessPc = "done" /\ UNCHANGED postprocessVars

PostprocessNext ==
    \/ CutIslands \/ DetectIslands \/ ExtendForward \/ EndForward
    \/ ExtendBackward \/ EndBackward \/ PostprocessFinished

PostprocessSpec ==
    /\ PostprocessInit /\ [][PostprocessNext]_postprocessVars
    /\ WF_postprocessVars(PostprocessNext)

-----------------------------------------------------------------------------
(* Properties *)

PostprocessTypeOK ==
    /\ column \in [Frames -> Columns]
    /\ positiveIndex \in [Frames -> Frames \cup {Unset}]
    /\ negativeIndex \in [Frames -> Frames \cup {Unset}]
    /\ postprocessCount.positive \in 0 .. f0Len
    /\ postprocessCount.negative \in 0 .. f0Len
    /\ track \in [Frames -> Nat]
    /\ island \in Frames
    /\ frame \in Frames
    /\ postprocessPc \in {"cut", "detect", "forward", "backward", "done"}

\* The first frame of the track is unvoiced, wherever the backward extension
\* stops: the island lists of platinum() are only right when it is.
HeadUnvoiced == track[0] = 0

\* Every pitch of the track is a candidate of its own frame: the extensions
\* never carry a pitch over from another frame.
FromCandidates ==
    \A i \in Frames : track[i] # 0 => \E k \in K : track[i] = column[i].cand[k]

\* Every island that begins also ends, before the next one begins: the margin
\* of unvoiced frames at both ends of f0Base closes the last one.  The end of an
\* island that is still to come may have been lost to the forward extension of
\* an earlier one, which puts frame j at negativeIndex[j].
IslandsPaired == postprocessPc \notin {"cut", "detect"} =>
    /\ postprocessCount.positive = postprocessCount.negative
    /\ \A k \in 0 .. postprocessCount.positive - 1 :
          /\ positiveIndex[k] <= negativeIndex[k] \/ negativeIndex[k] = k
          /\ k > 0 => negativeIndex[k - 1] < positiveIndex[k] - 1

\* The extensions read frames that exist, on both sides of the current one.
ReadsInMap ==
    /\ postprocessPc = "forward" => frame - 1 \in Frames
    /\ postprocessPc = "backward" => frame - 1 \in Frames /\ frame + 1 \in Frames

\* What platinum() and star() are given: a track that begins unvoiced and has no
\* pitch but the candidates of its own frames.
TrackKept == HeadUnvoiced /\ FromCandidates

\* The islands that the extensions start from are whole, and nothing is read
\* outside the map, also where the index of the next island was never written.
IslandsFit == IslandsPaired /\ ReadsInMap
=============================================================================
