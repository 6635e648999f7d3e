------------------------------- MODULE Decpit -------------------------------
(***************************************************************************)
(* decpit(): the pitch curve of a note, two characters of base 64 for each *)
(* step of it, or #n# for n repetitions of the last one.                   *)
(***************************************************************************)
EXTENDS Integers, Sequences

CONSTANTS
    Strings,  \* pairs of a curve and the string given for it
    Counts,   \* the lengths of dst
    Garbage   \* what num may be before it is set

ASSUME StringAssumption == \A s \in Strings : s[2] \in Seq(STRING)
ASSUME CountAssumption == Counts \subseteq Nat
ASSUME GarbageAssumption == Garbage \subseteq Int

VARIABLES
    curve,            \* what str was encoded from, <<>> for a string that is no curve
    str, cnt,
    dst,              \* what has been written of dst, which is 0 after it
    decpitI, n, num,  \* as in the code
    decpitPc          \* "scan", "done"

decpitVars == <<curve, str, cnt, dst, decpitI, n, num, decpitPc>>

Digits == <<"0", "1", "2", "3", "4", "5", "6", "7", "8", "9">>
IsDigit(c) == \E d \in 1 .. 10 : Digits[d] = c
Digit(c) == (CHOOSE d \in 1 .. 10 : Digits[d] = c) - 1

\* str[k] of the code
NUL == "NUL"
At(k) == IF k < Len(str) THEN str[k + 1] ELSE NUL

\* A few characters of each range; the end of the string counts as none.
get64(c) ==
    CASE c = "B" -> 1 [] c = "C" -> 2 [] c = "f" -> 31 [] c = "g" -> 32
      [] IsDigit(c) -> Digit(c) + 52 [] c = "+" -> 62 [] c = "/" -> 63
      [] OTHER -> 0

\* The number that sscanf finds at k: its digits, after a sign or none.
Signed(k) == At(k) = "-"
NumberEnd(k) ==
    CHOOSE e \in k .. Len(str) :
        (\A j \in k .. e - 1 : IsDigit(At(j))) /\ ~IsDigit(At(e))
\* What the first j digits at k make.
Leading(k) ==
    LET value[j \in 0 .. NumberEnd(k) - k] ==
            IF j = 0 THEN 0 ELSE 10 * value[j - 1] + Digit(At(k + j - 1))
    IN value
HasNumber(k) == IsDigit(At(IF Signed(k) THEN k + 1 ELSE k))
Number(k) ==
    LET from == IF Signed(k) THEN k + 1 ELSE k
        value == Leading(from)[NumberEnd(from) - from]
    IN IF Signed(k) THEN -value ELSE value

\* The next # from k on, or the end.
NextMark(k) ==
    CHOOSE e \in k .. Len(str) :
        At(e) \in {"#", NUL} /\ \A j \in k .. e - 1 : At(j) \notin {"#", NUL}

Least(a, b) == IF a < b THEN a ELSE b
Repeat(v, times) == [k \in 1 .. times |-> v]

DecpitInit ==
    /\ \E given \in Strings : curve = given[1] /\ str = given[2]
    /\ cnt \in Counts
    /\ dst = <<>>
    /\ decpitI = 0 /\ n = 0 /\ num \in Garbage
    /\ decpitPc = "scan"

\* The last value is not kept for a repetition.
ValueForgotten ==
    /\ decpitPc = "scan" /\ decpitI < Len(str) /\ At(decpitI) # "#"
    /\ LET v == get64(At(decpitI)) * 64 + get64(At(decpitI + 1))
       IN dst' = IF Len(dst) < cnt
                 THEN Append(dst, IF v > 2047 THEN v - 4096 ELSE v) ELSE dst
    /\ decpitI' = decpitI + 2
    /\ UNCHANGED <<curve, str, cnt, n, num, decpitPc>>

Value ==
    /\ decpitPc = "scan" /\ decpitI < Len(str) /\ At(decpitI) # "#"
    /\ LET v == get64(At(decpitI)) * 64 + get64(At(decpitI + 1))
       IN n' = IF v > 2047 THEN v - 4096 ELSE v
    /\ dst' = IF Len(dst) < cnt THEN Append(dst, n') ELSE dst
    /\ decpitI' = decpitI + 2
    /\ UNCHANGED <<curve, str, cnt, num, decpitPc>>

\* The bound of dst is not looked at.
RunUnbounded ==
    /\ decpitPc = "scan" /\ decpitI < Len(str) /\ At(decpitI) = "#"
    /\ num' = IF HasNumber(decpitI + 1) THEN Number(decpitI + 1) ELSE num
    /\ dst' = dst \o Repeat(n, num')
    /\ decpitI' = NextMark(decpitI + 1) + 1
    /\ UNCHANGED <<curve, str, cnt, n, decpitPc>>

\* The step of two is made up for twice.
RunBackTwice ==
    /\ decpitPc = "scan" /\ decpitI < Len(str) /\ At(decpitI) = "#"
    /\ num' = IF HasNumber(decpitI + 1) THEN Number(decpitI + 1) ELSE num
    /\ dst' = dst \o Repeat(n, Least(num', cnt - Len(dst)))
    /\ decpitI' = NextMark(decpitI + 1) - 1
    /\ UNCHANGED <<curve, str, cnt, n, decpitPc>>

\* Without a number between the two #, num is what it was before.
Run ==
    /\ decpitPc = "scan" /\ decpitI < Len(str) /\ At(decpitI) = "#"
    /\ num' = IF HasNumber(decpitI + 1) THEN Number(decpitI + 1) ELSE num
    /\ dst' = dst \o Repeat(n, Least(num', cnt - Len(dst)))
    /\ decpitI' = NextMark(decpitI + 1) + 1
    /\ UNCHANGED <<curve, str, cnt, n, decpitPc>>

DecpitReturn ==
    /\ decpitPc = "scan" /\ decpitI >= Len(str)
    /\ decpitPc' = "done"
    /\ UNCHANGED <<curve, str, cnt, dst, decpitI, n, num>>

DecpitFinished == decpitPc = "done" /\ UNCHANGED decpitVars

Step == Value \/ Run \/ DecpitReturn
DecpitNext == Step \/ DecpitFinished
DecpitSpec == DecpitInit /\ [][DecpitNext]_decpitVars /\ WF_decpitVars(Step)

-----------------------------------------------------------------------------
(* Properties *)

DecpitTypeOK ==
    /\ str \in Seq(STRING) /\ cnt \in Counts
    /\ Len(dst) <= cnt /\ \A k \in 1 .. Len(dst) : dst[k] \in -2048 .. 2047
    /\ decpitI \in Nat /\ n \in -2048 .. 2047 /\ num \in Int
    /\ decpitPc \in {"scan", "done"}

\* i moves by two, is stepped forward to a # that may be missing, and back:
\* however the string ends, it is at most one past the end, and At is asked
\* for nothing after the terminator.
ReadsInString == decpitI <= Len(str) + 1

\* The curve as it is meant: a list of values, each with the times it is
\* repeated, or Once.
Once == 0
Spelling == {"A", "B", "C", "f", "g", "4", "9", "+", "/"}
Char(d) == CHOOSE c \in Spelling : get64(c) = d
Wrapped(v) == IF v < 0 THEN v + 4096 ELSE v
Encoded(v, times) ==
    <<Char(Wrapped(v) \div 64), Char(Wrapped(v) % 64)>>
    \o IF times = Once THEN <<>> ELSE <<"#", Digits[times + 1], "#">>

\* The curves are of values that the few characters spell, with one digit to
\* repeat them.
Spelled(v) == \A d \in {Wrapped(v) \div 64, Wrapped(v) % 64} :
                  \E c \in Spelling : get64(c) = d
ASSUME CurveAssumption == \A s \in Strings :
    /\ s[1] \in Seq((-2048 .. 2047) \X (Once .. 9))
    /\ \A k \in 1 .. Len(s[1]) : Spelled(s[1][k][1])

\* The string, and the steps, of the first j values of a curve.
Encodings(c) ==
    LET first[j \in 0 .. Len(c)] ==
            IF j = 0 THEN <<>> ELSE first[j - 1] \o Encoded(c[j][1], c[j][2])
    IN first
Expansions(c) ==
    LET first[j \in 0 .. Len(c)] ==
            IF j = 0 THEN <<>> ELSE first[j - 1] \o Repeat(c[j][1], c[j][2] + 1)
    IN first
EncodedCurve(c) == Encodings(c)[Len(c)]
Expanded(c) == Expansions(c)[Len(c)]

\* A curve is decoded as what it was encoded from, up to the length of dst.
Decoded == decpitPc = "done" /\ str = EncodedCurve(curve) =>
    dst = SubSeq(Expanded(curve), 1, Least(cnt, Len(Expanded(curve))))

\* A curve is decoded as what it is, and no string, curve or not, read past its
\* end.
CurveDecoded == ReadsInString /\ Decoded
=============================================================================
