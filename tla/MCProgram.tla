----------------------------- MODULE MCProgram -----------------------------
(***************************************************************************)
(* What surrounds the analysis and the synthesis: the output wav and its   *)
(* reading as a source ("trip"), the reading of other wavs ("read"), the   *)
(* memory of main() ("resampler"), and the walk of the batch tool over a   *)
(* directory ("batch").  A behaviour runs one of them, on every input of   *)
(* it; the others keep one value.                                          *)
(***************************************************************************)
EXTENDS RoundTrip, Resampler, BatchTool

VARIABLE part

programVars == <<part, tripVars, resamplerVars, batchVars>>

-----------------------------------------------------------------------------
(* Values of the constants *)

\* Notes of one and two samples out of silence, small and large values of both
\* signs, infinities and values that are not a number, and one of three.
Samples == {Whole(0), Frac(-1, 4), Whole(-2000), NaN, Infinity}
MCSignals == UNION {[1 .. k -> Samples] : k \in 1 .. 2}
             \cup {<<Frac(5, 2), Whole(-2000), Frac(-1, 4)>>}
MCVolumes == {Frac(1, 2), Whole(3)}

\* Wavs of every number of bytes in a sample, cut off at every byte, with one
\* byte of the header changed, and with lengths that are right, too long, not a
\* multiple of the sample, and negative.
Word(k) == <<k % 256, k \div 256>>
DWord(k) == Word(k) \o <<0, 0>>

Wav(bits, length, bytes) ==
    RIFF \o DWord(36 + 5) \o WAVE \o fmt \o DWord(16) \o Word(1) \o Word(1)
         \o DWord(44100 % 65536) \o DWord(22050) \o Word(2) \o Word(bits)
         \o Data \o length \o bytes

WavBits == {4, 8, 12, 16, 24, 40}
ByteLengths == {DWord(0), DWord(3), DWord(6), <<1, 0, 0, 128>>}
SampleBytes == {<<a, b, c, 1, 129>> : a \in {0, 127, 200}, b \in {3, 128, 255},
                                      c \in {0, 254}}

WholeWavs == {Wav(k, l, b) : k \in WavBits, l \in ByteLengths, b \in SampleBytes}
Example == Wav(16, DWord(4), <<1, 2, 3, 200>>)
CutWavs == {SubSeq(Example, 1, k) : k \in 0 .. Len(Example)}
\* Cut in the fields that are skipped, with bytes there that begin a tag.
Tagged == {SubSeq(RIFF \o WAVE \o Example, 1, k) : k \in 0 .. 20}
Changed == {[Example EXCEPT ![k] = 70] : k \in 1 .. 40}
\* No sample, and a length of which the lowest byte has the sign bit.
Empty == {Wav(8, DWord(130), <<>>)}

MCWavFiles == Empty \cup WholeWavs \cup CutWavs \cup Tagged \cup Changed
MCLeftovers == {[k \in 0 .. 3 |-> RIFF[k + 1]], [k \in 0 .. 3 |-> Data[k + 1]],
                [k \in 0 .. 3 |-> IF k = 3 THEN 0 ELSE 1]}

\* A wav and its backup share a name; "c.wav.old" has it before the last dot,
\* so that its files are listed too; ".a.wav" is hidden.  Any of the files of
\* "a.wav" may be there, of one analysis or of two or such that they do not read.
MCWavs == {<<"a", "wav">>, <<"a", "wav~">>, <<"", "a", "wav">>, <<"c", "wav", "old">>}
MCOthers == {<<"d", "wav">>}
MCOld == {<<"a", "dio">>, <<"a", "star">>, <<"a", "platinum">>}

-----------------------------------------------------------------------------
\* Every level is asked for of every signal, and every kind of header and stack
\* is met by one note.
ThreeSamples == <<Frac(5, 2), Whole(-2000), Frac(-1, 4)>>
TripInputs ==
    /\ dataCheck = forIntNumber
    /\ \/ fs = 8000 /\ nbit = 16 /\ longSize = 8 /\ dataCheck[3] = 0
       \/ y = ThreeSamples /\ volume = Frac(1, 2) /\ P = 0

WavOutIdle ==
    /\ y = <<>> /\ volume = Whole(1) /\ P = 0
    /\ fs = 8000 /\ nbit = 16 /\ longSize = 4
    /\ wavOutI = 1 /\ maxAmp = Whole(0) /\ output = <<>>
    /\ header = [k \in 0 .. 47 |-> 1] /\ wavOutPc = "max"
ReaderUnused ==
    /\ fp = [data |-> <<>>, cur |-> 0] /\ opened = FALSE
    /\ dataCheck = [k \in 0 .. 3 |-> 0] /\ forIntNumber = dataCheck
    /\ checked = 0 /\ rfs = 0 /\ rNbit = 0 /\ waveLength = 0
    /\ waveForm = <<>> /\ rpc = "idle"
ResamplerIdle ==
    /\ files = [f \in CacheFile |-> "bad"] /\ tLen = 1 /\ oLen = 1
    /\ ResamplerInit

BatchIdle ==
    /\ dir = Originals /\ found = Originals /\ madeFrom = [n \in {} |-> Unfit]
    /\ returned = {} /\ failed = {} /\ entry = <<>> /\ ended = FALSE

ProgramInit ==
    /\ part \in {"trip", "read", "resampler", "batch"}
    /\ CASE part = "trip" -> TripInit /\ TripInputs
         [] part = "read" -> WavOutIdle /\ Reader!Init
         [] OTHER -> WavOutIdle /\ ReaderUnused
    /\ IF part = "resampler" THEN ResamplerInit ELSE ResamplerIdle
    /\ IF part = "batch" THEN BatchInit ELSE BatchIdle

ProgramNext ==
    /\ UNCHANGED part
    /\ \/ part = "trip" /\ TripNext
       \/ part = "read" /\ Reader!Next /\ UNCHANGED wavOutVars
       \/ part \in {"resampler", "batch"} /\ UNCHANGED tripVars
    /\ \/ part = "resampler" /\ ResamplerNext
       \/ part # "resampler" /\ UNCHANGED resamplerVars
    /\ \/ part = "batch" /\ BatchNext
       \/ part # "batch" /\ UNCHANGED batchVars

ProgramSpec == ProgramInit /\ [][ProgramNext]_programVars /\ WF_programVars(ProgramNext)

\* The variables of the part at work hold values of their kind.
ProgramTypeOK ==
    CASE part = "trip" -> WavOutTypeOK /\ dataCheck \in Reader!Buffer
      [] part = "read" -> Reader!TypeOK
      [] part = "resampler" -> ResamplerTypeOK
      [] part = "batch" -> BatchTypeOK

\* Every part ends: wavread() does not wait for bytes that are not there,
\* main() does not try an analysis again for ever, and the walk over a directory
\* does not go on because it makes files there.
ProgramEnds ==
    <>(\/ part = "trip" /\ (rpc \in ReadEnd \/ wavOutPc = "died")
       \/ part = "read" /\ rpc \in ReadEnd
       \/ part = "resampler" /\ resamplerPc \in {"done", "exit", "crashed"}
       \/ part = "batch" /\ ended)
=============================================================================
