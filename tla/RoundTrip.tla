----------------------------- MODULE RoundTrip -----------------------------
(***************************************************************************)
(* The wav that main() writes, read by the wavread() of another note: what *)
(* makeHeader() has put together is taken apart by the checks of wavread().*)
(* No fwrite() of main() is checked: the file may end at any byte.         *)
(*                                                                         *)
(* wavread() also reads wavs that others have written, WavFiles.           *)
(***************************************************************************)
EXTENDS WavOut

CONSTANTS
    WavFiles,    \* the contents of wavs that were not written by main()
    Leftovers,   \* what the stack may hold where wavread() puts its buffers
    MaxLength    \* malloc may fail for more samples than this

Byte == 0 .. 255

ASSUME WavFilesAssumption == \A f \in WavFiles : f \in Seq(Byte)
ASSUME LeftoverAssumption == Leftovers \subseteq [0 .. 3 -> Byte]
ASSUME MaxLengthAssumption == MaxLength \in Nat

VARIABLES fp, opened, dataCheck, forIntNumber, checked, rfs, rNbit,
          waveLength, waveForm, rpc

Reader == INSTANCE WavRead WITH fs <- rfs, Nbit <- rNbit, pc <- rpc,
              Files <- WavFiles

readerVars == <<fp, opened, dataCheck, forIntNumber, checked, rfs, rNbit,
                waveLength, waveForm, rpc>>
tripVars == <<wavOutVars, readerVars>>

\* No file is opened yet, and the buffers are as the stack was left.
ReaderIdle ==
    /\ fp = [data |-> <<>>, cur |-> 0] /\ opened = FALSE
    /\ dataCheck \in Leftovers /\ forIntNumber \in Leftovers
    /\ checked = 0 /\ rfs = 0 /\ rNbit = 0 /\ waveLength = 0
    /\ waveForm = <<>> /\ rpc = "idle"

TripInit == WavOutInit /\ ReaderIdle

WriteNote == Step /\ UNCHANGED readerVars

OpenNote ==
    /\ wavOutPc = "written" /\ rpc = "idle"
    /\ \E n \in 0 .. Len(File) : fp' = Reader!OpenMemFile(SubSeq(File, 1, n))
    /\ opened' = TRUE
    /\ rpc' = "header"
    /\ UNCHANGED <<wavOutVars, dataCheck, forIntNumber, checked, rfs, rNbit,
                   waveLength, waveForm>>

ReadNote == rpc # "idle" /\ Reader!Step /\ UNCHANGED wavOutVars

ReadEnd == {"done", "refused", "died", "overrun"}
ReadFinished ==
    /\ rpc \in ReadEnd \/ wavOutPc = "died"
    /\ UNCHANGED tripVars

TripNext == WriteNote \/ OpenNote \/ ReadNote \/ ReadFinished
TripSpec == TripInit /\ [][TripNext]_tripVars

-----------------------------------------------------------------------------
(* Properties *)

\* wavread(), of any file, a note of main() or not: no stale buffer passes for a
\* header that the file does not have, the samples that are there are read as
\* what they are, those that are not are padded with one value and never leave
\* the range, and the file is given back.  WavRead has the five parts.
ReadsWhatIsThere ==
    /\ Reader!HeaderIsInFile /\ Reader!SamplesDecoded /\ Reader!TailConstant
    /\ Reader!Bounded /\ Reader!Closed

\* A note that main() has written can be the source of another one: wavread()
\* accepts it, for long of either size, and whatever the note before it left
\* on the stack.
NoteAccepted ==
    wavOutPc = "written" /\ rpc \in {"refused", "died", "overrun"} =>
        Len(fp.data) < Len(File)

\* On a cache hit, and on a miss with a source of 16 bits, what is in the file
\* is read as what was written, also when the file was cut: then there are
\* samples after it, but none of them in its place.  The samples are shorts
\* whatever the header says, so that for another source the first note
\* rendered, and only that one, is not read back.
NoteReadBack == wavOutPc = "written" /\ rpc = "done" /\ nbit = 16 =>
    /\ rfs = fs
    /\ Len(fp.data) >= 44 => waveLength = outSamples
    /\ \A k \in 1 .. outSamples :
          k <= waveLength /\ 44 + 2 * k <= Len(fp.data) => waveForm[k] = output[k]

\* A note is written at the level that was asked for, without turning over, under
\* a header in which no store has destroyed another, and is read back as it is.
NoteWell == HeaderWell /\ ShapeKept /\ FullLevel /\ NoteAccepted /\ NoteReadBack
=============================================================================
