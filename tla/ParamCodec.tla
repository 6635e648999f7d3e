----------------------------- MODULE ParamCodec -----------------------------
(***************************************************************************)
(* What the .star and .platinum files make of the values: the first note   *)
(* of a wav is rendered from the values as they were analysed, every later *)
(* one from what has been quantised, and the flag g stretches either.      *)
(*                                                                         *)
(* One frame: a row of the spectrogram and one value of the residual.  A   *)
(* bin s is its level, log(s * 2^33 + 1) in quarters of a step of the      *)
(* file, 1/1024.  The stretching takes log(s), which near 0 is another     *)
(* thing: Ln is log(s * 2^33) in the same quarters, by the level.  The     *)
(* constant 33 * log(2) is the same for all bins, and an interpolation     *)
(* keeps it.  A residual is in quarters of its step.  Weird is what the    *)
(* writers replace by 0: no number, an infinity or a subnormal.            *)
(***************************************************************************)
EXTENDS Integers, FiniteSets

CONSTANTS
    Half,    \* fftl / 2
    Levels,  \* of the bins, 0 for s = 0
    Residuals,
    Ratios,  \* pairs, numerator and denominator, of the flag g
    Ln,      \* log(s * 2^33) of the bins above 0, by their levels
    Loud,    \* the level of s = 2^-33; above it Ln is no steeper than 2
    Silence, \* the logarithm of 0
    Nothing  \* no number

Weird == -1000000
Bins == 0 .. Half

ASSUME HalfAssumption == Half \in Nat \ {0}
ASSUME LevelAssumption == Levels \subseteq Nat \cup {Weird}
ASSUME ResidualAssumption == Residuals \subseteq Int
ASSUME RatioAssumption ==
    \A r \in Ratios : /\ r \in (Nat \ {0}) \X (Nat \ {0})
                      /\ (Half * r[1]) \div r[2] >= 1
ASSUME NothingAssumption == Silence \notin Int /\ Nothing \notin Int /\ Nothing # Silence

VARIABLES
    spec, residual,  \* as analysed
    ratio,
    memory,          \* [spec, residual], rendered first
    file,            \* the same, as they were written
    first, later,    \* what the synthesis is given
    codecPc          \* "analysed", "written", "rendered", "read", "done"

codecVars == <<spec, residual, ratio, memory, file, first, later, codecPc>>

\* A quotient truncated toward 0.
Quotient(a, b) == IF a >= 0 THEN a \div b ELSE -((-a) \div b)
Short(n) == ((n + 32768) % 65536) - 32768

\* The cast wraps before the limits are compared.
Stored(r) == Short(Quotient(r, 4))

\* The file has unsigned shorts, rounded; 0 is exact.
QuantisedDown(level) == level \div 4
Quantised(level) == (level + 2) \div 4

Clean(v) == IF v = Weird THEN 0 ELSE v

\* The levels that bins have, as analysed or read back.
Sizes ==
    {Clean(v) : v \in Levels} \cup {4 * Quantised(Clean(v)) : v \in Levels}

\* What is taken of the logarithm: exp(a) / (exp(a) - 1) is the slope of Ln at the
\* level a, and it is 2 at most where a is log(2) at least.
ASSUME LnAssumption ==
    /\ \A a \in Sizes \ {0} : Ln[a] \in Int
    /\ Loud \in Nat \ {0}
    /\ \A a, b \in Sizes : Loud <= a /\ a <= b => Ln[b] - Ln[a] \in 0 .. 2 * (b - a)

CodecInit ==
    /\ spec \in [Bins -> Levels] /\ residual \in Residuals
    /\ ratio \in Ratios
    /\ memory = [spec |-> spec, residual |-> residual]
    /\ file = memory /\ first = spec /\ later = spec
    /\ codecPc = "analysed"

\* writeSTARParam and writePlatinumParam: the values are cleaned in place.
Write ==
    /\ codecPc = "analysed"
    /\ memory' = [spec |-> [k \in Bins |-> Clean(spec[k])], residual |-> Clean(residual)]
    /\ file' = [spec |-> [k \in Bins |-> Quantised(memory'.spec[k])],
                residual |-> Stored(memory'.residual)]
    /\ codecPc' = "written"
    /\ UNCHANGED <<spec, residual, ratio, first, later>>

num == ratio[1]
den == ratio[2]
Top == (Half * num) \div den

\* log(s) of a bin, as Ln has it.
LogOf(level) == IF level = 0 THEN Silence ELSE Ln[level]

\* The interval m_interp1 takes for bin j, of which the stretched axis has the
\* place j * den / num, and the value there, times num.  From a bin of 0, or to
\* one with nothing of the way to go, the sum has an infinity less itself, or
\* none of it; on the way to a bin of 0 it is -infinity.
Interval(j) ==
    LET k == (j * den) \div num + 1
    IN IF k > Half THEN Half ELSE k
Interpolated(row, j) ==
    LET k == Interval(j)
        from == LogOf(row[k - 1])
        to == LogOf(row[k])
        s == j * den - (k - 1) * num
    IN IF from = Silence \/ (to = Silence /\ s = 0) THEN Nothing
       ELSE IF to = Silence THEN Silence
       ELSE num * from + s * (to - from)

\* stretchSpectrum(), of all bins: log(s) times num of what comes out.
Stretched(row) ==
    [j \in Bins |->
        IF num # den THEN Interpolated(row, IF num < den /\ j >= Top THEN Top - 1 ELSE j)
        ELSE IF row[j] = 0 THEN Silence ELSE num * Ln[row[j]]]

RenderFirst ==
    /\ codecPc = "written"
    /\ first' = Stretched(memory.spec)
    /\ codecPc' = "rendered"
    /\ UNCHANGED <<spec, residual, ratio, memory, file, later>>

\* readSTARParam and readPlatinumParam, in another process.
Read ==
    /\ codecPc = "rendered"
    /\ memory' = [spec |-> [k \in Bins |-> 4 * file.spec[k]],
                  residual |-> 4 * file.residual]
    /\ codecPc' = "read"
    /\ UNCHANGED <<spec, residual, ratio, file, first, later>>

RenderLater ==
    /\ codecPc = "read"
    /\ later' = Stretched(memory.spec)
    /\ codecPc' = "done"
    /\ UNCHANGED <<spec, residual, ratio, memory, file, first>>

CodecFinished == codecPc = "done" /\ UNCHANGED codecVars

CodecNext == Write \/ RenderFirst \/ Read \/ RenderLater \/ CodecFinished
CodecSpec == CodecInit /\ [][CodecNext]_codecVars

-----------------------------------------------------------------------------
(* Properties *)

Shorts == -32768 .. 32767
UnsignedShorts == 0 .. 65535

CodecTypeOK ==
    /\ spec \in [Bins -> Levels] /\ residual \in Residuals /\ ratio \in Ratios
    /\ memory.spec \in [Bins -> Int] /\ memory.residual \in Int
    /\ codecPc # "analysed" => /\ file.spec \in [Bins -> UnsignedShorts]
                               /\ file.residual \in Shorts
                               /\ Weird \notin {memory.spec[k] : k \in Bins}
    /\ first \in [Bins -> Int \cup {Silence, Nothing}]
    /\ later \in [Bins -> Int \cup {Silence, Nothing}]
    /\ codecPc \in {"analysed", "written", "rendered", "read", "done"}

\* Bins that are above 0 after quantisation.
Positive == \A k \in Bins : spec[k] > 1

\* However the spectrum is stretched, a bin stays between those it had: what
\* m_interp1 extrapolates past the stretched axis never gets through.
WithinSpectrum == codecPc \notin {"analysed", "written"} /\ Positive =>
    \A j \in Bins : /\ \E k \in Bins : num * Ln[spec[k]] <= first[j]
                    /\ \E k \in Bins : first[j] <= num * Ln[spec[k]]

Distance(a, b) == IF a >= b THEN a - b ELSE b - a

\* A note sounds as it did when its wav was analysed: where no bin is below half a
\* step of the file, none is lost and none differs by more than half a step, and no
\* residual that fits in 16 bits differs by a whole one.
\* Half a step of the file is much of a bin that is almost 0, and little of a
\* loud one: but however the spectrum is stretched, no bin of it is moved by
\* more than rounding has moved one of the bins that were stored, and where all
\* are loud, by more than a step.
\* A bin of less than half a step is 0 in the file, though, and its logarithm
\* takes the bins around it with it when the flag g is used, on hits only.
SoundsAsBefore == codecPc = "done" =>
    /\ Positive =>
          /\ \A k \in Bins : memory.spec[k] > 0 /\ Distance(memory.spec[k], spec[k]) <= 2
          /\ \A j \in Bins : \E k \in Bins :
                Distance(later[j], first[j]) <= num * Distance(Ln[memory.spec[k]], Ln[spec[k]])
    /\ (\A k \in Bins : spec[k] >= Loud + 2) =>
          \A j \in Bins : Distance(later[j], first[j]) <= 4 * num
    /\ -131072 <= residual /\ residual < 131072 =>
          memory.residual - residual \in -3 .. 3

\* A bin that is lost on a hit is next to one that was quantised to 0.
LostNextToZero == codecPc = "done" =>
    \A j \in Bins : later[j] = Nothing =>
        LET k == Interval(IF num < den /\ j >= Top THEN Top - 1 ELSE j)
        IN file.spec[k - 1] = 0 \/ file.spec[k] = 0

\* The comment at world4utau.c:657 says that the residual is saturated: what is
\* above the range is stored as the greatest short, what is below as the least.
Saturated == codecPc # "analysed" /\ residual # Weird =>
    /\ residual >= 131072 => file.residual = 32767
    /\ residual < -131072 => file.residual = -32768

\* The first note of a wav and every later one, rendered from the files of the
\* first, sound alike where no bin was quantised to 0; where one was, only the
\* bins around it are lost; and stretching makes no bin louder than it was.
StoredSpectrum == WithinSpectrum /\ SoundsAsBefore /\ LostNextToZero
=============================================================================
