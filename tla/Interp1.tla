------------------------------ MODULE Interp1 ------------------------------
(***************************************************************************)
(* m_interp1() of matlab.c and the m_histc() it calls: both walk the grid  *)
(* and the points once, side by side, and rely on both being sorted.       *)
(* m_interp1() is used on event times (dio.c), on the frames of the pitch  *)
(* track (platinum.c) and on stretched frequencies (world4utau.c).         *)
(*                                                                         *)
(* Coordinates are integers; an interpolated value is a fraction.          *)
(***************************************************************************)
EXTENDS Integers

CONSTANTS
    XLengths, YLengths,  \* the numbers of grid points and of points looked up
    Coordinates,         \* the places of both
    Value                \* the value at each grid point

\* Every caller has two grid points or more: m_histc reads x[1] unasked.
ASSUME Interp1LengthAssumption ==
    /\ XLengths \subseteq Nat \ {0, 1}
    /\ YLengths \subseteq Nat
ASSUME CoordinateAssumption == Coordinates \subseteq Int
ASSUME ValueAssumption ==
    \A n \in XLengths : \A k \in 0 .. n - 1 : Value[k] \in Int

VARIABLES
    x_length, x,  \* the grid, t of m_interp1
    yLen, y,      \* the points, t1 of m_interp1
    i, count,     \* the point and the grid point the two loops are at
    index,        \* the upper end of the interval of each point, k
    interp1Pc

interp1Vars == <<x_length, x, yLen, y, i, count, index, interp1Pc>>

Grid == 0 .. x_length - 1
Points == 0 .. yLen - 1

Interp1Init ==
    /\ x_length \in XLengths /\ yLen \in YLengths
    /\ x \in [Grid -> Coordinates]
    /\ \A j, k \in Grid : j < k => x[j] < x[k]
    /\ y \in [Points -> Coordinates]
    /\ \A j, k \in Points : j < k => y[j] <= y[k]
    /\ i = 0 /\ count = 1
    /\ index = [j \in Points |-> 0]
    /\ interp1Pc = "below"

\* The points below the grid, and the first one that is not.
Below ==
    /\ interp1Pc = "below" /\ i < yLen
    /\ index' = [index EXCEPT ![i] = 1]
    /\ IF y[i] >= x[0]
       THEN interp1Pc' = "find" /\ UNCHANGED i
       ELSE i' = i + 1 /\ UNCHANGED interp1Pc
    /\ UNCHANGED <<x_length, x, yLen, y, count>>

\* The interval is not left behind.
FindHere ==
    /\ interp1Pc = "find" /\ i < yLen
    /\ index' = [index EXCEPT ![i] = count]
    /\ i' = IF y[i] < x[count] THEN i + 1 ELSE i
    /\ UNCHANGED <<x_length, x, yLen, y, count, interp1Pc>>

\* Either the point is in the interval, or the interval is left behind and
\* the point is looked at again.
Find ==
    /\ interp1Pc = "find" /\ i < yLen
    /\ index' = [index EXCEPT ![i] = count]
    /\ IF y[i] < x[count]
       THEN i' = i + 1 /\ UNCHANGED <<count, interp1Pc>>
       ELSE /\ count' = count + 1
            /\ interp1Pc' = IF count + 1 = x_length THEN "rest" ELSE "find"
            /\ UNCHANGED i
    /\ UNCHANGED <<x_length, x, yLen, y>>

\* count is left one past the last interval.
RestUncounted ==
    /\ interp1Pc = "rest" \/ i >= yLen
    /\ interp1Pc # "done"
    /\ index' = [j \in Points |-> IF j >= i THEN count ELSE index[j]]
    /\ interp1Pc' = "done"
    /\ UNCHANGED <<x_length, x, yLen, y, i, count>>

\* The points past the grid, if there are any left.
Rest ==
    /\ interp1Pc = "rest" \/ i >= yLen
    /\ interp1Pc # "done"
    /\ count' = count - 1
    /\ index' = [j \in Points |-> IF j >= i THEN count - 1 ELSE index[j]]
    /\ interp1Pc' = "done"
    /\ UNCHANGED <<x_length, x, yLen, y, i>>

Interp1Finished == interp1Pc = "done" /\ UNCHANGED interp1Vars

Step == Below \/ Find \/ Rest
Interp1Next == Step \/ Interp1Finished
Interp1Spec == Interp1Init /\ [][Interp1Next]_interp1Vars /\ WF_interp1Vars(Step)

\* What m_interp1 makes of the index of a point: h[k - 1], and the
\* interpolated value, of denominator h.
h(k) == x[k] - x[k - 1]

y1(j) == LET k == index[j]
         IN Value[k - 1] * h(k) + (y[j] - x[k - 1]) * (Value[k] - Value[k - 1])

-----------------------------------------------------------------------------
(* Properties *)

Interp1TypeOK ==
    /\ x_length \in XLengths /\ yLen \in YLengths
    /\ x \in [Grid -> Coordinates] /\ y \in [Points -> Coordinates]
    /\ i \in 0 .. yLen
    /\ count \in 0 .. x_length
    /\ index \in [Points -> 0 .. x_length]
    /\ interp1Pc \in {"below", "find", "rest", "done"}

\* The interval of a point is [x[k - 1], x[k]), the first one for a point
\* below the grid and the last one for a point above it.
Placed(j) ==
    /\ index[j] \in 1 .. x_length - 1
    /\ index[j] > 1 => x[index[j] - 1] <= y[j]
    /\ index[j] < x_length - 1 => y[j] < x[index[j]]

\* m_histc gives every point its interval, with an index that m_interp1 may
\* use as k[i] and k[i] - 1, wherever the points lie: all below the grid, all
\* above it, several in an interval and intervals without a point.
IntervalFound == interp1Pc = "done" => \A j \in Points : Placed(j)

\* m_interp1 gives the value of the grid at a grid point, also at the last
\* one, where the interval is the one before it.
ExactOnGrid ==
    interp1Pc = "done" => \A j \in Points, k \in Grid :
        y[j] = x[k] => h(index[j]) > 0 /\ y1(j) = Value[k] * h(index[j])

\* The strengthening of IntervalFound: the points passed are placed, and the
\* point at hand is not in an interval that has been left behind.
IInv ==
    /\ \A j \in Points : j < i => Placed(j)
    /\ interp1Pc = "below" => count = 1
    /\ interp1Pc = "find" => count \in 1 .. x_length - 1
                             /\ (i < yLen => x[count - 1] <= y[i])
    /\ interp1Pc = "rest" => count = x_length /\ i < yLen /\ x[count - 1] <= y[i]
    /\ interp1Pc = "done" => \A j \in Points : Placed(j)

\* m_interp1 has the interval of every point, and the grid's own values at its
\* points.
Interpolated == IntervalFound /\ ExactOnGrid
=============================================================================
