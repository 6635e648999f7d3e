---------------------------- MODULE ZeroCrossing ----------------------------
(***************************************************************************)
(* rawEventByDio() after its filter: the output of one band is searched,   *)
(* in one buffer, for zero crossings downwards; then its negative, its     *)
(* differences and their negative.  One call of zeroCrossingEngine() is    *)
(* one step.                                                               *)
(*                                                                         *)
(* A sample is a small integer.  An edge is the index of the sample after  *)
(* a crossing, at the place of the crossing between samples in parts of    *)
(* one, of which there are Unit: a common multiple of all differences.     *)
(***************************************************************************)
EXTENDS Integers, FiniteSets

CONSTANTS
    Length,   \* x_length, of the decimated signal
    Samples,  \* values of the filter's output
    Unit

ASSUME CrossingLengthAssumption == Length \in Nat \ {0, 1}
ASSUME SampleAssumption == Samples \subseteq Int
ASSUME UnitAssumption == Unit \in Nat \ {0}

VARIABLES
    filtered,   \* the filter's output; for the properties
    crossingX,  \* the buffer, equivalentFIR
    edges,      \* of each train: [negative, positive, dnegative, dpositive]
    outside,    \* the trains that are written outside their arrays
    usable,     \* usableChannel
    crossingPc  \* the next train, then "decide", "done"

crossingVars == <<filtered, crossingX, edges, outside, usable, crossingPc>>

Trains == {"n", "p", "dn", "dp"}

CrossingInit ==
    /\ filtered \in [0 .. Length - 1 -> Samples] /\ crossingX = filtered
    /\ edges = [t \in Trains |-> {}] /\ outside = {}
    /\ usable = FALSE
    /\ crossingPc = "n"

\* A product that may be 0.
EdgesWithZero(s, n) ==
    {e \in 1 .. n - 1 : s[e - 1] * s[e] <= 0 /\ s[e] < s[e - 1]}

\* The search of zeroCrossingEngine: crossings downwards, of which those that
\* meet a sample of exactly 0 are not seen.
Edges(s, n) == {e \in 1 .. n - 1 : s[e - 1] * s[e] < 0 /\ s[e] < s[e - 1]}

\* fineEdges
Fine(s, e) == Unit * e + (Unit * s[e - 1]) \div (s[e - 1] - s[e])

\* The array that gets one element more than *iLen is also written at
\* count - 1 when nothing was found.
Missed(t, n) == IF Edges(crossingX, n) = {} THEN {t} ELSE {}

Search(t, n) ==
    /\ edges' = [edges EXCEPT ![t] = {Fine(crossingX, e) : e \in Edges(crossingX, n)}]
    /\ outside' = outside \cup Missed(t, n)

SearchNegative ==
    /\ crossingPc = "n"
    /\ Search("n", Length)
    /\ crossingX' = [k \in DOMAIN crossingX |-> -crossingX[k]]
    /\ crossingPc' = "p"
    /\ UNCHANGED <<filtered, usable>>

\* The last sample is left as it is, and not searched any more.
SearchPositive ==
    /\ crossingPc = "p"
    /\ Search("p", Length)
    /\ crossingX' = [k \in DOMAIN crossingX |->
                        IF k < Length - 1 THEN crossingX[k] - crossingX[k + 1] ELSE crossingX[k]]
    /\ crossingPc' = "dn"
    /\ UNCHANGED <<filtered, usable>>

SearchPeaks ==
    /\ crossingPc = "dn"
    /\ Search("dn", Length - 1)
    /\ crossingX' = [k \in DOMAIN crossingX |->
                        IF k < Length - 1 THEN -crossingX[k] ELSE crossingX[k]]
    /\ crossingPc' = "dp"
    /\ UNCHANGED <<filtered, usable>>

SearchValleys ==
    /\ crossingPc = "dp"
    /\ Search("dp", Length - 1)
    /\ crossingPc' = "decide"
    /\ UNCHANGED <<filtered, crossingX, usable>>

iLen(t) == Cardinality(edges[t]) - 1

\* Trains of two intervals are taken, too.
DecideLoose ==
    /\ crossingPc = "decide"
    /\ usable' = (\A t \in Trains : iLen(t) > 0 \/ t \in {"dn", "dp"})
    /\ crossingPc' = "done"
    /\ UNCHANGED <<filtered, crossingX, edges, outside>>

Decide ==
    /\ crossingPc = "decide"
    /\ usable' = (\A t \in Trains : iLen(t) - 2 > 0)
    /\ crossingPc' = "done"
    /\ UNCHANGED <<filtered, crossingX, edges, outside>>

CrossingFinished == crossingPc = "done" /\ UNCHANGED crossingVars

CrossingNext ==
    \/ SearchNegative \/ SearchPositive \/ SearchPeaks \/ SearchValleys
    \/ Decide \/ CrossingFinished
CrossingSpec == CrossingInit /\ [][CrossingNext]_crossingVars

-----------------------------------------------------------------------------
(* Properties *)

CrossingTypeOK ==
    /\ filtered \in [0 .. Length - 1 -> Samples]
    /\ crossingX \in [0 .. Length - 1 -> Int]
    /\ DOMAIN edges = Trains
    /\ \A t \in Trains : edges[t] \subseteq Unit .. Unit * Length
    /\ outside \subseteq Trains /\ usable \in BOOLEAN
    /\ crossingPc \in Trains \cup {"decide", "done"}

\* Neighbours in a train.
Neighbours(t) ==
    {p \in edges[t] \X edges[t] :
        p[1] < p[2] /\ ~ \E e \in edges[t] : p[1] < e /\ e < p[2]}

\* Two crossings of a train are more than a sample apart: no pitch of a band is
\* above its sampling rate, and no interval is 0.
Apart == \A t \in Trains : \A d, e \in edges[t] : d < e => e - d > Unit

\* What m_interp1 is given from a band that is used: intervals by their places,
\* which are in order, and three or more of them in every train.
GridsSorted == usable =>
    \A t \in Trains :
        /\ Cardinality(Neighbours(t)) >= 3
        /\ \A p, q \in Neighbours(t) : p[1] < q[1] => p[1] + p[2] < q[1] + q[2]

\* Between two crossings downwards there is one upwards, and between two upwards
\* one downwards, where no sample is exactly 0; a 0 hides the crossing it is on.
Alternating ==
    crossingPc \notin {"n", "p"} /\ (\A k \in DOMAIN filtered : filtered[k] # 0) =>
        \A s, t \in {"n", "p"} : s # t =>
            \A q \in Neighbours(s) : \E e \in edges[t] : q[1] < e /\ e < q[2]

\* What the buffer holds after three changes in place is still the signal: the
\* crossings of its differences are its peaks in "dn", and its valleys in "dp".
PeaksAndValleys == crossingPc \in {"decide", "done"} =>
    LET At(e) == e \div Unit
    IN /\ \A e \in edges["dn"] : /\ filtered[At(e)] > filtered[At(e) - 1]
                                 /\ filtered[At(e)] > filtered[At(e) + 1]
       /\ \A e \in edges["dp"] : /\ filtered[At(e)] < filtered[At(e) - 1]
                                 /\ filtered[At(e)] < filtered[At(e) + 1]

\* A train without a crossing is written one element before its array, in spite
\* of the comment at dio.c:367 that x_length elements are ample; the band is then
\* not used, whichever of the four trains it is: also a band that crosses zero
\* often enough, but with peaks or valleys that are flat.
OutsideUnused == outside # {} /\ crossingPc = "done" => ~usable

\* The four trains are what the rest of dio() takes them for: crossings of the
\* signal in turn and its peaks and valleys, sorted, enough of them, and none of
\* them read from outside an array.
TrainsSound == GridsSorted /\ Alternating /\ PeaksAndValleys /\ OutsideUnused
=============================================================================
