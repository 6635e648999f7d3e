---------------------------- MODULE VoiceIslands ----------------------------
(***************************************************************************)
(* The island lists of platinum(): a first pass over the pitch track       *)
(* counts the voiced and unvoiced islands, stList and edList are allocated *)
(* with that many entries, and a second pass writes down where each island *)
(* starts and ends.  Only the size the first pass found keeps the second   *)
(* one within the arrays.                                                  *)
(*                                                                         *)
(* The track begins unvoiced (DioPostprocess, HeadUnvoiced); the branch of *)
(* platinum() for a track that does not is never taken and not modelled.   *)
(***************************************************************************)
EXTENDS Integers

CONSTANT IslandsLengths  \* the lengths a track may have, in frames

ASSUME LengthsAssumption == IslandsLengths \subseteq Nat \ {0}

VARIABLES
    tLen,       \* frames
    voiced,     \* voiced[i]: f0[i] # 0
    i,          \* the frame the pass has come to
    vuvNum,     \* islands counted
    stList,     \* their first frames
    edList,     \* their last frames
    stCount, edCount,
    islandsPc,  \* "count", "list", "done"
    changes     \* history: how often voicing has changed up to each frame

islandsVars == <<tLen, voiced, i, vuvNum, stList, edList, stCount, edCount,
                 islandsPc, changes>>

Frames == 0 .. tLen - 1
Unset == -1   \* memory of malloc

Rises(j) == voiced[j] /\ ~voiced[j - 1]
Falls(j) == ~voiced[j] /\ voiced[j - 1]
One(b) == IF b THEN 1 ELSE 0

IslandsInit ==
    /\ tLen \in IslandsLengths
    /\ voiced \in [Frames -> BOOLEAN]
    /\ ~voiced[0]
    /\ i = 1
    /\ vuvNum = 0
    /\ stList = <<>> /\ edList = <<>>
    /\ stCount = 0 /\ edCount = 0
    /\ islandsPc = "count"
    /\ changes = [j \in Frames |-> 0]

Count ==
    /\ islandsPc = "count" /\ i < tLen
    /\ vuvNum' = vuvNum + One(Rises(i))
    /\ changes' = [changes EXCEPT ![i] = changes[i - 1] + One(voiced[i] # voiced[i - 1])]
    /\ i' = i + 1
    /\ UNCHANGED <<tLen, voiced, stList, edList, stCount, edCount, islandsPc>>

\* The one at the end is forgotten.
IslandsNoTail == vuvNum + (vuvNum - 1) + One(~voiced[0])

\* The voiced islands have an unvoiced one between each two, one before the
\* first, and one after the last unless the track ends voiced.
Islands == vuvNum + (vuvNum - 1) + One(~voiced[0]) + One(~voiced[tLen - 1])

Allocate ==
    /\ islandsPc = "count" /\ i >= tLen
    /\ vuvNum' = Islands
    /\ stList' = [k \in 0 .. Islands - 1 |-> IF k = 0 THEN 0 ELSE Unset]
    /\ edList' = [k \in 0 .. Islands - 1 |->
                     IF k = Islands - 1 THEN tLen - 1 ELSE Unset]
    /\ stCount' = 1
    /\ i' = 1
    /\ islandsPc' = "list"
    /\ UNCHANGED <<tLen, voiced, edCount, changes>>

\* An island ends with the first frame of the next.
ListTooFar ==
    /\ islandsPc = "list" /\ i < tLen
    /\ IF Rises(i) \/ Falls(i)
       THEN /\ edList' = [edList EXCEPT ![edCount] = i]
            /\ edCount' = edCount + 1
            /\ stList' = [stList EXCEPT ![stCount] = i]
            /\ stCount' = stCount + 1
       ELSE UNCHANGED <<stList, edList, stCount, edCount>>
    /\ i' = i + 1
    /\ UNCHANGED <<tLen, voiced, vuvNum, islandsPc, changes>>

List ==
    /\ islandsPc = "list" /\ i < tLen
    /\ IF Rises(i) \/ Falls(i)
       THEN /\ edList' = [edList EXCEPT ![edCount] = i - 1]
            /\ edCount' = edCount + 1
            /\ stList' = [stList EXCEPT ![stCount] = i]
            /\ stCount' = stCount + 1
       ELSE UNCHANGED <<stList, edList, stCount, edCount>>
    /\ i' = i + 1
    /\ UNCHANGED <<tLen, voiced, vuvNum, islandsPc, changes>>

IslandsReturn ==
    /\ islandsPc = "list" /\ i >= tLen
    /\ islandsPc' = "done"
    /\ UNCHANGED <<tLen, voiced, i, vuvNum, stList, edList, stCount, edCount,
                   changes>>

IslandsFinished == islandsPc = "done" /\ UNCHANGED islandsVars

IslandsNext == Count \/ Allocate \/ List \/ IslandsReturn \/ IslandsFinished
IslandsSpec == IslandsInit /\ [][IslandsNext]_islandsVars

-----------------------------------------------------------------------------
(* Properties *)

IslandsTypeOK ==
    /\ tLen \in IslandsLengths
    /\ voiced \in [Frames -> BOOLEAN]
    /\ i \in 1 .. tLen
    /\ vuvNum \in Nat
    /\ islandsPc = "count" =>
           stList = <<>> /\ edList = <<>> /\ stCount = 0 /\ edCount = 0
    /\ islandsPc # "count" => /\ stList \in [0 .. vuvNum - 1 -> Frames \cup {Unset}]
                              /\ edList \in [0 .. vuvNum - 1 -> Frames \cup {Unset}]
                              /\ stCount \in Nat /\ edCount \in Nat
    /\ islandsPc \in {"count", "list", "done"}
    /\ changes \in [Frames -> Nat]

\* The second pass finds as many islands as the first has counted, and writes
\* no entry past the end of the arrays, nor the last one of edList, which is
\* written beforehand.
WithinArrays ==
    /\ islandsPc = "list" => stCount <= vuvNum /\ edCount <= vuvNum - 1
    /\ islandsPc = "done" => stCount = vuvNum /\ edCount = vuvNum - 1

\* The islands tile the track: the first starts at frame 0, the last ends at
\* the last frame, each starts where the one before it ends, none is empty,
\* and they are unvoiced and voiced in turn.  getWedgeList and
\* getPulseLocations index the signal by these frames.
EvenNumber(n) == n % 2 = 0
Tiled == islandsPc = "done" =>
    /\ stList[0] = 0
    /\ edList[vuvNum - 1] = tLen - 1
    /\ \A k \in 0 .. vuvNum - 1 :
          /\ stList[k] <= edList[k]
          /\ k > 0 => stList[k] = edList[k - 1] + 1
          /\ \A j \in stList[k] .. edList[k] : voiced[j] <=> ~EvenNumber(k)

\* The two passes agree: the arrays are filled, no more than that, and with
\* islands that tile the track.
IslandsTiled == WithinArrays /\ Tiled

-----------------------------------------------------------------------------
(* The inductive invariant behind WithinArrays and Tiled *)

\* The frames whose changes have been counted.
Counted == IF islandsPc = "count" THEN 0 .. i - 1 ELSE Frames

\* changes counts what its name says, and tells voicing by its parity.
ChangesInv ==
    /\ changes[0] = 0
    /\ \A j \in Counted \ {0} :
          changes[j] = changes[j - 1] + One(voiced[j] # voiced[j - 1])
    /\ \A j, k \in Counted : j <= k => changes[j] <= changes[k]
    /\ \A j \in Counted : voiced[j] <=> ~EvenNumber(changes[j])

\* The size of the arrays is the number of changes plus one.
SizeInv ==
    /\ islandsPc = "count" => 2 * vuvNum = changes[i - 1] + One(voiced[i - 1])
    /\ islandsPc # "count" => vuvNum = changes[tLen - 1] + 1

\* The islands listed so far are the runs of frames with the same number of
\* changes; the last one is still open.
ListInv == islandsPc # "count" =>
    /\ edCount = changes[i - 1] /\ stCount = edCount + 1
    /\ islandsPc = "done" => i = tLen
    /\ stList[0] = 0 /\ edList[vuvNum - 1] = tLen - 1
    /\ \A k \in 0 .. edCount - 1 :
          /\ stList[k] <= edList[k] /\ stList[k + 1] = edList[k] + 1
          /\ edList[k] < i
          /\ \A j \in stList[k] .. edList[k] : changes[j] = k
    /\ stList[edCount] \in 0 .. i - 1
    /\ \A j \in stList[edCount] .. i - 1 : changes[j] = edCount

IInv == IslandsTypeOK /\ ChangesInv /\ SizeInv /\ ListInv
=============================================================================
