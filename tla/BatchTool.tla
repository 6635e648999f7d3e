----------------------------- MODULE BatchTool -----------------------------
(***************************************************************************)
(* The batch tool: it walks over a directory and makes the three analysis  *)
(* files of every wav in it, in the directory it walks over.  Whether      *)
(* readdir() returns a file that was made after opendir() is not said, and *)
(* nor is the order.  Analysis files of earlier walks may be there at the  *)
(* start, whole, of several analyses, or such that no reader takes them.   *)
(*                                                                         *)
(* A name is the sequence of its parts between dots; a name that begins    *)
(* with a dot has "" as its first part.  Names are those of regular files, *)
(* and the wavs have the 65535 frames at most that the files can count.    *)
(***************************************************************************)
EXTENDS Naturals, Sequences, FiniteSets

CONSTANTS
    Wavs,        \* names of files that are wavs
    Others,      \* and of those that are not
    Old,         \* names of analysis files that may be there at the start
    Earlier,     \* the analyses these may be of
    Unfit,       \* or what no reader takes
    WavLike,     \* the parts that begin with "wav"
    MaxFailures  \* bound on the files that cannot be written

Exts == {"dio", "star", "platinum"}

ASSUME BatchAssumption ==
    /\ \A n \in Wavs \cup Others :
         n \in Seq(STRING) /\ Len(n) > 0 /\ n[Len(n)] \notin Exts
    /\ \A f \in Old : f \in Seq(STRING) /\ Len(f) > 0 /\ f[Len(f)] \in Exts
    /\ Unfit \notin Wavs \cup Earlier /\ Wavs \cap Earlier = {}
    /\ Wavs \cap Others = {} /\ WavLike \cap Exts = {} /\ MaxFailures \in Nat

VARIABLES
    dir,       \* the names in the directory
    found,     \* those that were there when it was opened
    madeFrom,  \* of each analysis file, the wav it was made from in this walk,
               \* or the analysis it was there with
    returned,  \* the names readdir() has returned
    failed,    \* the analysis files that could not be written
    entry,     \* the file at work on, or <<>>
    ended

batchVars == <<dir, found, madeFrom, returned, failed, entry, ended>>

Originals == Wavs \cup Others

\* What follows the last dot is replaced.
makeFilename(name, ext) ==
    Append(IF Len(name) > 1 THEN SubSeq(name, 1, Len(name) - 1) ELSE name, ext)

Files(name) == {makeFilename(name, ext) : ext \in Exts}

\* A hidden file is passed over, and so is one without ".wav" in its name.
Nameless == ""
Lists(name) == name[1] # Nameless /\ \E k \in 2..Len(name) : name[k] \in WavLike

BatchInit ==
    /\ \E old \in SUBSET Old :
         dir = Originals \cup old /\ madeFrom \in [old -> Earlier \cup {Unfit}]
    /\ found = dir
    /\ returned = {} /\ failed = {} /\ entry = <<>> /\ ended = FALSE

Readdir ==
    /\ ~ ended /\ entry = <<>>
    /\ \E n \in dir \ returned :
         /\ returned' = returned \cup {n}
         /\ entry' = IF Lists(n) THEN n ELSE <<>>
    /\ UNCHANGED <<dir, found, madeFrom, failed, ended>>

\* Files of one analysis fit each other; those of two may or may not.
Fit(n) == \A f \in Files(n) : f \in dir /\ madeFrom[f] # Unfit
OfOne(n) == \E w \in Wavs \cup Earlier : \A f \in Files(n) : madeFrom[f] = w

\* generateParams: all three files are there and read, whatever the wav is now.
AlreadyProcessed ==
    /\ entry # <<>> /\ Fit(entry)
    /\ entry' = <<>>
    /\ UNCHANGED <<dir, found, madeFrom, returned, failed, ended>>

\* And looked at again.
NoWavAgain ==
    /\ entry # <<>> /\ ~ (Fit(entry) /\ OfOne(entry))
    /\ entry \notin Wavs
    /\ entry' = <<>> /\ returned' = returned \ {entry}
    /\ UNCHANGED <<dir, found, madeFrom, failed, ended>>

\* One is missing or of no use, and so is the wav.
NoWav ==
    /\ entry # <<>> /\ ~ (Fit(entry) /\ OfOne(entry))
    /\ entry \notin Wavs
    /\ entry' = <<>>
    /\ UNCHANGED <<dir, found, madeFrom, returned, failed, ended>>

\* All three are made again.  One that cannot be opened stays as it is.
WriteParams(lost) ==
    /\ Cardinality(failed \cup lost) <= MaxFailures
    /\ failed' = failed \cup lost
    /\ dir' = dir \cup (Files(entry) \ lost)
    /\ madeFrom' = [n \in DOMAIN madeFrom \cup (Files(entry) \ lost) |->
                      IF n \in Files(entry) \ lost THEN entry ELSE madeFrom[n]]
    /\ entry' = <<>>
    /\ UNCHANGED <<found, returned, ended>>

\* In any case.
GenerateParamsAlways ==
    /\ entry # <<>> /\ entry \in Wavs
    /\ \E lost \in SUBSET Files(entry) : WriteParams(lost)

GenerateParams ==
    /\ entry # <<>> /\ ~ (Fit(entry) /\ OfOne(entry))
    /\ entry \in Wavs
    /\ \E lost \in SUBSET Files(entry) : WriteParams(lost)

\* All that was there at the start has been returned.
End ==
    /\ ~ ended /\ entry = <<>> /\ found \subseteq returned
    /\ ended' = TRUE
    /\ UNCHANGED <<dir, found, madeFrom, returned, failed, entry>>

BatchEnded == ended /\ UNCHANGED batchVars

BatchNext == Readdir \/ AlreadyProcessed \/ NoWav \/ GenerateParams \/ End \/ BatchEnded

\* One thread: it goes on.
BatchSpec == BatchInit /\ [][BatchNext]_batchVars /\ WF_batchVars(BatchNext)
-----------------------------------------------------------------------------
BatchTypeOK ==
    /\ Originals \subseteq found /\ found \subseteq dir /\ returned \subseteq dir
    /\ \A n \in dir \ Originals : n[Len(n)] \in Exts
    /\ DOMAIN madeFrom = dir \ Originals
    /\ \A f \in DOMAIN madeFrom : madeFrom[f] \in Wavs \cup Earlier \cup {Unfit}
    /\ entry \in dir \cup {<<>>} /\ Cardinality(failed) <= MaxFailures

\* The wavs the tool is for: not hidden, and with ".wav" at the end of the name
\* or before another part.
Listed == {n \in Wavs : n[1] # Nameless /\ \E k \in 2..Len(n) : n[k] \in WavLike}

\* No other of them has the same name before its last dot.
Unshared(n) ==
    \A o \in Listed \ {n} : SubSeq(o, 1, Len(o) - 1) # SubSeq(n, 1, Len(n) - 1)

(***************************************************************************)
(* When the tool is done, every listed wav has its three files, and such   *)
(* that a reader takes them, unless one could not be written, whatever     *)
(* order the directory was returned in and whatever was there before.      *)
(***************************************************************************)
Served(n) == \A f \in Files(n) : f \in failed \/ (f \in dir /\ madeFrom[f] # Unfit)

EveryWavServed == ended => \A n \in Listed : Served(n)

(***************************************************************************)
(* A file the walk makes for a wav that shares the name before its last    *)
(* dot with no other is made from that wav, and the walk leaves no mixture *)
(* of its files with those of an earlier analysis: when it makes one, it   *)
(* makes all three that can be written.  Files the walk itself made, whose *)
(* names may be listed too, never take the place of the wav.  Of two wavs  *)
(* that share the name, "a.wav" and "a.wav~", only one is served and which *)
(* one is left to the directory.                                           *)
(***************************************************************************)
OwnFiles ==
    \A n \in Listed : Unshared(n) =>
        \A f \in Files(n) \cap DOMAIN madeFrom : madeFrom[f] \in Wavs =>
            /\ madeFrom[f] = n
            /\ \A g \in Files(n) : g \in failed \/ (g \in dir /\ madeFrom[g] = n)

(***************************************************************************)
(* Three files of one analysis are not replaced: those of the first of two *)
(* wavs that share the name stay, and so do those of an earlier walk,      *)
(* which may be of what the wav was then.                                  *)
(***************************************************************************)
FirstStays ==
    [][\A n \in Listed : Fit(n) /\ OfOne(n) =>
         \A f \in Files(n) : madeFrom'[f] = madeFrom[f]]_batchVars

(***************************************************************************)
(* Every wav is served in the end, by this walk from itself unless it      *)
(* shares its name, and what was served stays.                             *)
(***************************************************************************)
BatchSound == [](EveryWavServed /\ OwnFiles) /\ FirstStays
=============================================================================
