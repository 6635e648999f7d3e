------------------------------- MODULE WavOut -------------------------------
(***************************************************************************)
(* The end of main(): from the sum of the responses to the bytes of the    *)
(* output wav.  The loudest sample gives the factor, every sample is       *)
(* clipped and cut to 16 bits, and makeHeader() stores the fields of the   *)
(* header one over the other: a long of 8 bytes covers the next field.     *)
(*                                                                         *)
(* The flag P is 0 or 100 per cent here, the two ends of its range.        *)
(***************************************************************************)
EXTENDS Floats, Sequences

CONSTANTS
    Signals,         \* what synthesis() may have added up
    Volumes, Rates,  \* arguments, and the sampling rate of the source
    Bits,            \* of the source on a miss, 16 on a hit
    LongSizes        \* sizeof(long) of the build

Shorts == -32768 .. 32767

ASSUME SignalAssumption == \A s \in Signals : s \in Seq(Float)
ASSUME VolumeAssumption == Volumes \subseteq Float
ASSUME LongAssumption == LongSizes \subseteq {4, 8}
ASSUME RateAssumption == Rates \subseteq Nat /\ Bits \subseteq 0 .. 255

VARIABLES
    y, volume, P,  \* the note
    fs, nbit, longSize,
    wavOutI,       \* the next sample, or the next store of makeHeader
    maxAmp,
    output,        \* the shorts so far
    header,        \* header[0 .. 43], and the four bytes after it
    wavOutPc       \* "max", "output", "header", "written", "died"

note == <<y, volume, P, fs, nbit, longSize>>
wavOutVars == <<note, wavOutI, maxAmp, output, header, wavOutPc>>

outSamples == Len(y)

RIFF == <<82, 73, 70, 70>>
WAVE == <<87, 65, 86, 69>>
fmt  == <<102, 109, 116, 32>>
Data == <<100, 97, 116, 97>>

\* n in size bytes, the lowest first.
LittleEndian(n, size) ==
    [k \in 1 .. size |-> IF k > 4 THEN 0 ELSE (n \div 256 ^ (k - 1)) % 256]
Short(n) == LittleEndian(n % 65536, 2)
Long(n) == LittleEndian(n, longSize)

WavOutInit ==
    /\ y \in Signals /\ volume \in Volumes /\ P \in {0, 1}
    /\ fs \in Rates /\ nbit \in Bits /\ longSize \in LongSizes
    /\ wavOutI = 1
    /\ maxAmp = Whole(0)
    /\ output = <<>>
    /\ header = [k \in 0 .. 47 |-> 1]
    /\ wavOutPc = "max"

MaxAmp ==
    /\ wavOutPc = "max" /\ wavOutI <= outSamples
    /\ maxAmp' = IF ~IsNaN(y[wavOutI]) /\ Less(maxAmp, Magnitude(y[wavOutI]))
                 THEN Magnitude(y[wavOutI]) ELSE maxAmp
    /\ wavOutI' = wavOutI + 1
    /\ UNCHANGED <<note, output, header, wavOutPc>>

EndMax ==
    /\ wavOutPc = "max" /\ wavOutI > outSamples
    /\ wavOutI' = 1
    /\ wavOutPc' = "output"
    /\ UNCHANGED <<note, maxAmp, output, header>>

peekcomp == IF P = 0 THEN Whole(32)
            ELSE Times(Whole(32), Over(Whole(512), maxAmp))

Clipped(v) == IF Less(Whole(32767), v) THEN Whole(32767)
              ELSE IF Less(v, Whole(-32767)) THEN Whole(-32767)
              ELSE v

Value(v) == IF IsNaN(v) THEN Whole(0) ELSE Clipped(Times(Times(v, peekcomp), volume))

\* The factor of a silent note is infinite, and 0 times it not a number: its
\* conversion is undefined, and gives 0 (SSE, ARM) or the lowest short (x87).
WriteSample ==
    /\ wavOutPc = "output" /\ wavOutI <= outSamples
    /\ \E s \in IF IsNaN(Value(y[wavOutI])) THEN {0, -32768}
                ELSE {Truncate(Value(y[wavOutI]))} :
          output' = Append(output, s)
    /\ wavOutI' = wavOutI + 1
    /\ UNCHANGED <<note, maxAmp, header, wavOutPc>>

EndOutput ==
    /\ wavOutPc = "output" /\ wavOutI > outSamples
    /\ wavOutI' = 1
    /\ wavOutPc' = "header"
    /\ UNCHANGED <<note, maxAmp, output, header>>

\* The tags are stored before the numbers.
StoresTagsFirst ==
    << <<0, RIFF>>, <<8, WAVE>>, <<12, fmt>>, <<36, Data>>,
       <<4, Long(outSamples * 2 + 36)>>, <<16, Long(16)>>,
       <<20, Short(1)>>, <<22, Short(1)>>, <<24, Long(fs)>>,
       <<28, Long((fs * nbit) \div 8)>>, <<32, Short(nbit \div 8)>>,
       <<34, Short(nbit)>>, <<40, Long(outSamples * 2)>> >>

Stores ==
    << <<0, RIFF>>, <<4, Long(outSamples * 2 + 36)>>, <<8, WAVE>>, <<12, fmt>>,
       <<16, Long(16)>>, <<20, Short(1)>>, <<22, Short(1)>>, <<24, Long(fs)>>,
       <<28, Long((fs * nbit) \div 8)>>, <<32, Short(nbit \div 8)>>,
       <<34, Short(nbit)>>, <<36, Data>>, <<40, Long(outSamples * 2)>> >>

Store ==
    /\ wavOutPc = "header" /\ wavOutI <= Len(Stores)
    /\ LET at == Stores[wavOutI][1]
           bytes == Stores[wavOutI][2]
       IN header' = [k \in 0 .. 47 |->
              IF k \in at .. at + Len(bytes) - 1 THEN bytes[k - at + 1] ELSE header[k]]
    /\ wavOutI' = wavOutI + 1
    /\ UNCHANGED <<note, maxAmp, output, wavOutPc>>

\* fopen is not checked: without a file, fwrite dies.
Write ==
    /\ wavOutPc = "header" /\ wavOutI > Len(Stores)
    /\ wavOutPc' \in {"written", "died"}
    /\ UNCHANGED <<note, wavOutI, maxAmp, output, header>>

\* The file that Write leaves.
File == [k \in 1 .. 44 |-> header[k - 1]]
        \o [k \in 1 .. 2 * Len(output) |->
               Short(output[(k + 1) \div 2])[IF k % 2 = 1 THEN 1 ELSE 2]]

Step == MaxAmp \/ EndMax \/ WriteSample \/ EndOutput \/ Store \/ Write
WavOutFinished == wavOutPc \in {"written", "died"} /\ UNCHANGED wavOutVars

WavOutNext == Step \/ WavOutFinished
WavOutSpec == WavOutInit /\ [][WavOutNext]_wavOutVars

-----------------------------------------------------------------------------
(* Properties *)

WavOutTypeOK ==
    /\ y \in Signals /\ volume \in Volumes /\ P \in {0, 1}
    /\ fs \in Rates /\ nbit \in Bits /\ longSize \in LongSizes
    /\ wavOutI \in Nat /\ maxAmp.num >= 0
    /\ Len(output) <= outSamples /\ \A k \in 1 .. Len(output) : output[k] \in Shorts
    /\ header \in [0 .. 47 -> 0 .. 255]
    /\ wavOutPc \in {"max", "output", "header", "written", "died"}

\* The header as the format has it, with the fields in 4 and 2 bytes.
HeaderWanted ==
    RIFF \o LittleEndian(36 + 2 * outSamples, 4) \o WAVE \o fmt
         \o LittleEndian(16, 4) \o Short(1) \o Short(1)
         \o LittleEndian(fs, 4) \o LittleEndian((fs * nbit) \div 8, 4)
         \o Short(nbit \div 8) \o Short(nbit)
         \o Data \o LittleEndian(2 * outSamples, 4)

\* Stores of 8 bytes cover the fields after them, and only the order of the
\* stores makes the header right.  One ends past the array, by four bytes.
HeaderWell == wavOutPc = "written" =>
    /\ \A k \in 0 .. 43 : header[k] = HeaderWanted[k + 1]
    /\ \A k \in 44 .. 47 : header[k] # 1 => longSize = 8

\* The factor and the clipping keep the shape of the note: of two finite
\* samples the greater one is not the smaller one after them, 0 stays 0, and
\* no sign is turned over by a value that is too large for 16 bits.
Sounding == Finite(maxAmp) /\ maxAmp.num > 0
ShapeKept == Sounding =>
    \A j, k \in 1 .. Len(output) :
        /\ Finite(y[j]) /\ Finite(y[k]) /\ ~Less(y[k], y[j]) => output[j] <= output[k]
        /\ y[j].num = 0 => output[j] = 0

\* With P100 the loudest sample, of either sign, has the level that the volume
\* gives, half of the full scale at 100, and no other one is louder.
FullLevel == Sounding /\ P = 1 /\ Len(output) = outSamples =>
    LET asked == Truncate(Times(Whole(16384), volume))
        level == IF asked < 32767 THEN asked ELSE 32767
    IN /\ \E k \in 1 .. outSamples : output[k] \in {level, -level}
       /\ \A k \in 1 .. outSamples : Finite(y[k]) => output[k] \in -level .. level
=============================================================================
