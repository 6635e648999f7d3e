------------------------------ MODULE WavRead ------------------------------
(***************************************************************************)
(* wavread(): the source wav, read through MemFile.  No read is checked:   *)
(* past the end of the file both buffers keep what they had.               *)
(*                                                                         *)
(* A sample is the numerator of a fraction of denominator zeroLine.        *)
(***************************************************************************)
EXTENDS MemFile, FiniteSets

CONSTANTS
    Files,       \* the contents the file may have
    Leftovers,   \* what the stack may hold where the buffers are put
    MaxLength    \* malloc may fail for more samples than this

Byte == 0 .. 255
Buffer == [0 .. 3 -> Byte]

VARIABLES
    fp,             \* the file
    opened,         \* whether it is held in memory
    dataCheck, forIntNumber,
    checked,        \* the number of header checks passed
    fs, Nbit, waveLength,
    waveForm,       \* the samples taken so far
    pc              \* "header", "data", "length", "malloc",
                    \* "samples", "done", "refused", "died" in a division by 0,
                    \* "overrun": a sample is larger than its buffer

vars == <<fp, opened, dataCheck, forIntNumber, checked, fs, Nbit, waveLength,
          waveForm, pc>>
format == <<fs, Nbit>>

RIFF == <<82, 73, 70, 70>>
WAVE == <<87, 65, 86, 69>>
fmt  == <<102, 109, 116, 32>>
Data == <<100, 97, 116, 97>>

\* The checks of the header before the sampling rate: bytes skipped, and the
\* bytes wanted after them.  The last ones are the format and the channels.
Checks == << [skip |-> 0, want |-> RIFF], [skip |-> 4, want |-> WAVE],
             [skip |-> 0, want |-> fmt],  [skip |-> 0, want |-> <<16, 0, 0, 0>>],
             [skip |-> 0, want |-> <<1, 0>>], [skip |-> 0, want |-> <<1, 0>>] >>

Holds(buf, want) == \A k \in 1 .. Len(want) : buf[k - 1] = want[k]

\* An int of four bytes, the lowest first; 2^31 and more wrap.
Int32(b) == b[0] + 256 * b[1] + 65536 * b[2]
            + 16777216 * (IF b[3] >= 128 THEN b[3] - 256 ELSE b[3])

Quotient(a, b) == IF a >= 0 THEN a \div b ELSE -((-a) \div b)

quantizationByte == Nbit \div 8
zeroLine == 2 ^ (Nbit - 1)

Init ==
    /\ \E f \in Files : fp = OpenMemFile(f)
    /\ opened = TRUE
    /\ dataCheck \in Leftovers /\ forIntNumber \in Leftovers
    /\ checked = 0
    /\ fs = 0 /\ Nbit = 0 /\ waveLength = 0
    /\ waveForm = <<>>
    /\ pc = "header"

CheckTag ==
    /\ pc = "header" /\ checked < Len(Checks)
    /\ LET c == Checks[checked + 1]
           at == SeekMemFile(c.skip, fp)
       IN /\ dataCheck' = ReadInto(dataCheck, Len(c.want), at)
          /\ fp' = Advance(Len(c.want), at)
          /\ IF Holds(dataCheck', c.want)
             THEN checked' = checked + 1 /\ UNCHANGED <<pc, opened>>
             ELSE pc' = "refused" /\ opened' = FALSE /\ UNCHANGED checked
    /\ UNCHANGED <<forIntNumber, format, waveLength, waveForm>>

\* The sampling rate and, after six bytes, the number of bits, of which one
\* byte is used.
ReadFormat ==
    /\ pc = "header" /\ checked = Len(Checks)
    /\ LET rate == ReadInto(forIntNumber, 4, fp)
           at == SeekMemFile(6, Advance(4, fp))
       IN /\ fs' = Int32(rate)
          /\ forIntNumber' = ReadInto(rate, 2, at)
          /\ fp' = Advance(2, at)
    /\ Nbit' = forIntNumber'[0]
    /\ pc' = "data"
    /\ UNCHANGED <<opened, dataCheck, checked, waveLength, waveForm>>

CheckData ==
    /\ pc = "data"
    /\ dataCheck' = ReadInto(dataCheck, 4, fp)
    /\ fp' = Advance(4, fp)
    /\ IF Holds(dataCheck', Data)
       THEN pc' = "length" /\ UNCHANGED opened
       ELSE pc' = "refused" /\ opened' = FALSE
    /\ UNCHANGED <<forIntNumber, checked, format, waveLength, waveForm>>

\* A division by 0 kills the process on x86 and gives 0 on ARM.
ReadLength ==
    /\ pc = "length"
    /\ forIntNumber' = ReadInto(forIntNumber, 4, fp)
    /\ fp' = Advance(4, fp)
    /\ IF quantizationByte = 0
       THEN waveLength' = 0 /\ pc' \in {"malloc", "died"}
       ELSE /\ waveLength' = Quotient(Int32(forIntNumber'), quantizationByte)
            /\ pc' = "malloc"
    /\ UNCHANGED <<opened, dataCheck, checked, format, waveForm>>

\* When malloc fails, and it does for a negative length, the file stays open.
Allocate ==
    /\ pc = "malloc"
    /\ \/ waveLength >= 0 /\ pc' = "samples"
       \/ waveLength \notin 0 .. MaxLength /\ pc' = "refused"
    /\ UNCHANGED <<fp, opened, dataCheck, forIntNumber, checked, format,
                   waveLength, waveForm>>

Negative(b) == b[quantizationByte - 1] >= 128
Unsigned(b) == [b EXCEPT ![quantizationByte - 1] = @ % 128]

Magnitude(b) ==
    b[0] + (IF quantizationByte > 1 THEN 256 * b[1] ELSE 0)
         + (IF quantizationByte > 2 THEN 65536 * b[2] ELSE 0)
         + (IF quantizationByte > 3 THEN 16777216 * b[3] ELSE 0)

TakeSample(kept, sample) ==
    /\ forIntNumber' = kept
    /\ waveForm' = Append(waveForm, sample)
    /\ fp' = Advance(quantizationByte, fp)

\* The sign is counted with the magnitude.
ReadSampleUnsigned ==
    /\ pc = "samples" /\ Len(waveForm) < waveLength
    /\ IF quantizationByte > 4
       THEN pc' = "overrun" /\ UNCHANGED <<fp, forIntNumber, waveForm>>
       ELSE LET b == ReadInto(forIntNumber, quantizationByte, fp)
            IN TakeSample(b, Magnitude(b)) /\ UNCHANGED pc
    /\ UNCHANGED <<opened, dataCheck, checked, format, waveLength>>

\* The buffer keeps the sample without its sign.
ReadSample ==
    /\ pc = "samples" /\ Len(waveForm) < waveLength
    /\ IF quantizationByte > 4
       THEN pc' = "overrun" /\ UNCHANGED <<fp, forIntNumber, waveForm>>
       ELSE LET b == ReadInto(forIntNumber, quantizationByte, fp)
            IN /\ TakeSample(Unsigned(b), Magnitude(Unsigned(b))
                                             - IF Negative(b) THEN zeroLine ELSE 0)
               /\ UNCHANGED pc
    /\ UNCHANGED <<opened, dataCheck, checked, format, waveLength>>

Return ==
    /\ pc = "samples" /\ Len(waveForm) >= waveLength
    /\ opened' = FALSE
    /\ pc' = "done"
    /\ UNCHANGED <<fp, dataCheck, forIntNumber, checked, format, waveLength,
                   waveForm>>

Finished == pc \in {"done", "refused", "died", "overrun"} /\ UNCHANGED vars

Step == CheckTag \/ ReadFormat \/ CheckData \/ ReadLength \/ Allocate
        \/ ReadSample \/ Return
Next == Step \/ Finished
Spec == Init /\ [][Next]_vars /\ WF_vars(Step)

-----------------------------------------------------------------------------
(* Properties *)

TypeOK ==
    /\ fp.data \in Seq(Byte) /\ fp.cur \in 0 .. Len(fp.data)
    /\ opened \in BOOLEAN
    /\ dataCheck \in Buffer /\ forIntNumber \in Buffer
    /\ checked \in 0 .. Len(Checks)
    /\ fs \in Int /\ Nbit \in Byte /\ waveLength \in Int
    /\ waveForm \in Seq(Int)
    /\ pc \in {"header", "data", "length", "malloc", "samples", "done",
               "refused", "died", "overrun"}

Accepted == pc \in {"length", "malloc", "samples", "done", "died", "overrun"}

\* bytes are in the file at an offset.
At(offset, bytes) ==
    /\ Len(fp.data) >= offset + Len(bytes)
    /\ \A k \in 1 .. Len(bytes) : fp.data[offset + k] = bytes[k]

\* No read is checked, yet a file is accepted only if it holds the header
\* itself: what an earlier tag, or an earlier call, has left in dataCheck
\* never stands in for a tag that the file does not have.
HeaderIsInFile == Accepted =>
    /\ At(0, RIFF) /\ At(8, WAVE) /\ At(12, fmt) /\ At(16, <<16, 0, 0, 0>>)
    /\ At(20, <<1, 0>>) /\ At(22, <<1, 0>>) /\ At(36, Data)

\* The bytes of sample k of the file, in two's complement.
InFile(k) == 44 + (k + 1) * quantizationByte <= Len(fp.data)
Sample(k) ==
    LET first == 44 + k * quantizationByte
        unsigned == Magnitude([j \in 0 .. 3 |->
                        IF j < quantizationByte THEN fp.data[first + j + 1] ELSE 0])
    IN IF fp.data[first + quantizationByte] >= 128
       THEN unsigned - 2 ^ (8 * quantizationByte) ELSE unsigned

\* The samples in the file are read as what they are, although the buffer has
\* the bytes of the sample before, and those of the header's fields.
SamplesDecoded ==
    Nbit \in {8, 16, 24} =>
        \A k \in 0 .. Len(waveForm) - 1 : InFile(k) => waveForm[k + 1] = Sample(k)

\* A file with fewer samples than it says is padded with one value that is
\* never negative: the last sample with the sign cut off.  An offset, then, and
\* not a sound.
TailConstant ==
    \A j, k \in 2 .. Len(waveForm) :
        44 + (j - 1) * quantizationByte >= Len(fp.data) /\ j <= k =>
            waveForm[k] >= 0 /\ waveForm[k] = waveForm[j]

\* Whatever the bits and the bytes, a sample is within [-1, 1).
Bounded == \A k \in 1 .. Len(waveForm) :
                waveForm[k] >= -zeroLine /\ waveForm[k] < zeroLine

\* The file is not kept in memory by a call that returns, unless malloc failed.
Closed == pc \in {"done", "refused"} /\ opened => waveLength \notin 0 .. MaxLength
=============================================================================
