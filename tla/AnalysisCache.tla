--------------------------- MODULE AnalysisCache ---------------------------
(***************************************************************************)
(* The analysis cache of world4utau: the three files <stem>.dio,           *)
(* <stem>.star and <stem>.platinum kept beside a wav, and the processes    *)
(* (notes rendered by an editor, or the batch tool) that read them, and    *)
(* that analyse the wav and rewrite them when one is missing or refused.   *)
(* Nothing locks the files: the only order is the one of the system calls. *)
(*                                                                         *)
(* A file is a row of Blocks stdio buffers.  Buffer 1 holds the header, the *)
(* last one is flushed by fclose.  A writer truncates the file when it     *)
(* opens it ("wb") and then writes every buffer at its own offset, so that *)
(* a buffer written past the end leaves a hole of zeros before it.         *)
(*                                                                         *)
(* The contents are abstracted to the version of the wav they come from.   *)
(***************************************************************************)
EXTENDS Integers

CONSTANTS
    Procs,      \* the processes started on this wav, each run once
    Versions,   \* the contents the wav may have
    NoWav,      \* the wav is missing or unreadable; also "no version"
    Zero,       \* a hole left by a write past the end of a file
    Absent,     \* past the end of a file
    Garbage,    \* memory of malloc, or a variable, that no read has set
    Blocks,     \* stdio buffers of a cache file
    Sig,        \* what the headers tell of a version: signalLen and fs
    Long        \* versions with 2^16 frames or more: tn is an unsigned short

Cells == Versions \cup {Zero, Absent}

ASSUME BlocksAssumption == Blocks \in Nat /\ Blocks >= 1
ASSUME ValuesAssumption ==
    /\ {NoWav, Zero, Absent, Garbage} \cap Versions = {}
    /\ Absent \notin {NoWav, Zero, Garbage}
ASSUME VersionsAssumption == Versions # {}
ASSUME LongAssumption ==
    /\ Long \subseteq Versions
    /\ \A v, w \in Versions : Sig[v] = Sig[w] => (v \in Long <=> w \in Long)

DIO == 1
STAR == 2
PLATINUM == 3
Files == DIO .. PLATINUM
Index == 1 .. Blocks

VARIABLES
    wav,    \* the version of the wav on disk, or NoWav
    disk,   \* disk[f][i]: the i-th buffer of file f
    pc,     \* where each process is
    at,     \* the cache file each process reads or writes
    seen,   \* the buffers of the open file that ftell has counted
    load,   \* load[p][f][i]: what p has read of the cache
    x,      \* the version of the wav p has read, NoWav before it does
    pos,    \* the buffers of the open file p has flushed
    raced   \* some process had a cache file open for writing while p read

vars == <<wav, disk, pc, at, seen, load, x, pos, raced>>

Reading == {"stat", "read"}
Filling == {"fill", "write"}
Final == {"done", "failed", "crashed"}

Empty == [i \in Index |-> Absent]
Present(f) == {i \in Index : disk[f][i] # Absent}

Writers == {p \in Procs : pc[p] = "write"}
Active == {p \in Procs : pc[p] \in Reading \cup {"wav"} \cup Filling}

Init ==
    /\ wav \in Versions \cup {NoWav}
    /\ disk = [f \in Files |-> Empty]
    /\ pc = [p \in Procs |-> "ready"]
    /\ at = [p \in Procs |-> DIO]
    /\ seen = [p \in Procs |-> {}]
    /\ load = [p \in Procs |-> [f \in Files |-> [i \in Index |-> Garbage]]]
    /\ x = [p \in Procs |-> NoWav]
    /\ pos = [p \in Procs |-> 0]
    /\ raced = [p \in Procs |-> FALSE]

-----------------------------------------------------------------------------
(* Reading the cache *)

Invoke(p) ==
    /\ pc[p] = "ready"
    /\ pc' = [pc EXCEPT ![p] = "stat"]
    /\ raced' = [raced EXCEPT ![p] = Writers # {}]
    /\ UNCHANGED <<wav, disk, at, seen, load, x, pos>>

\* A reader that waits for a missing file.
StatCacheWaits(p) ==
    /\ pc[p] = "stat"
    /\ Present(at[p]) # {}
    /\ seen' = [seen EXCEPT ![p] = Present(at[p])]
    /\ pc' = [pc EXCEPT ![p] = "read"]
    /\ UNCHANGED <<wav, disk, at, load, x, pos, raced>>

\* OpenMemFile up to ftell.  No file and an empty file both end in a miss:
\* there is no header to accept.
StatCache(p) ==
    /\ pc[p] = "stat"
    /\ seen' = [seen EXCEPT ![p] = Present(at[p])]
    /\ pc' = [pc EXCEPT ![p] = IF Present(at[p]) = {} THEN "wav" ELSE "read"]
    /\ UNCHANGED <<wav, disk, at, load, x, pos, raced>>

\* What the three readers ask of the header, the first buffer of the file.
\* The .dio is held against nothing, the others against the .dio.
DioAccepted(got) == got[1] \in Versions

StarAccepted(got, dio) ==
    got[1] \in Versions \ Long /\ Sig[got[1]] = Sig[dio[1]]

\* us is held against fftl / 2 + 1, as in the .star.
PlatinumAcceptedAsStar(got, dio) == FALSE

PlatinumAccepted(got, dio) ==
    got[1] \in Versions \ Long /\ Sig[got[1]] = Sig[dio[1]]

\* Only the magic is looked at.
AcceptedByMagic(f, got, dio) == got[1] \in Versions

Accepted(f, got, dio) ==
    \/ f = DIO /\ DioAccepted(got)
    \/ f = STAR /\ StarAccepted(got, dio)
    \/ f = PLATINUM /\ PlatinumAccepted(got, dio)

\* The frames past the end of the file keep what malloc, or the previous
\* read, has left there: ReadMemFile returns 0 and nobody looks.
Contents(p) ==
    [i \in Index |-> IF i \in seen[p] THEN disk[at[p]][i] ELSE Garbage]

\* fread and the parse of one file.  A file that has shrunk since ftell makes
\* OpenMemFile return NULL.
ReadCache(p) ==
    /\ pc[p] = "read"
    /\ IF seen[p] \subseteq Present(at[p])
          /\ Accepted(at[p], Contents(p), load[p][DIO])
       THEN /\ load' = [load EXCEPT ![p][at[p]] = Contents(p)]
            /\ IF at[p] = PLATINUM
               THEN pc' = [pc EXCEPT ![p] = "done"] /\ UNCHANGED at
               ELSE /\ pc' = [pc EXCEPT ![p] = "stat"]
                    /\ at' = [at EXCEPT ![p] = @ + 1]
       ELSE pc' = [pc EXCEPT ![p] = "wav"] /\ UNCHANGED <<load, at>>
    /\ UNCHANGED <<wav, disk, seen, x, pos, raced>>

-----------------------------------------------------------------------------
(* A miss: analyse the wav and rewrite the three files *)

ReadWav(p) ==
    /\ pc[p] = "wav"
    /\ x' = [x EXCEPT ![p] = wav]
    /\ pc' = [pc EXCEPT ![p] = IF wav = NoWav THEN "failed" ELSE "fill"]
    /\ at' = [at EXCEPT ![p] = DIO]
    /\ UNCHANGED <<wav, disk, seen, load, pos, raced>>

\* getDIOParam, getSTARParam or getPlatinumParam is out of memory: main
\* returns, the files written so far stay.
FailAnalysis(p) ==
    /\ pc[p] = "fill"
    /\ pc' = [pc EXCEPT ![p] = "failed"]
    /\ UNCHANGED <<wav, disk, at, seen, load, x, pos, raced>>

\* fopen(.., "r+b"): the file is not truncated.
OpenCacheInPlace(p) ==
    /\ pc[p] = "fill"
    /\ pos' = [pos EXCEPT ![p] = 0]
    /\ pc' = [pc EXCEPT ![p] = "write"]
    /\ raced' = [q \in Procs |-> raced[q] \/ pc[q] \in Reading]
    /\ UNCHANGED <<wav, disk, at, seen, load, x>>

\* The analysis of one file is done: fopen(.., "wb").
OpenCache(p) ==
    /\ pc[p] = "fill"
    /\ disk' = [disk EXCEPT ![at[p]] = Empty]
    /\ pos' = [pos EXCEPT ![p] = 0]
    /\ pc' = [pc EXCEPT ![p] = "write"]
    /\ raced' = [q \in Procs |-> raced[q] \/ pc[q] \in Reading]
    /\ UNCHANGED <<wav, at, seen, load, x>>

\* The analysis after the .platinum.
GoOnPastPlatinum(p) ==
    IF at[p] > PLATINUM
    THEN pc' = [pc EXCEPT ![p] = "done"] /\ UNCHANGED at
    ELSE /\ pc' = [pc EXCEPT ![p] = "fill"]
         /\ at' = [at EXCEPT ![p] = @ + 1]

\* main goes on to the next analysis, or to the synthesis after the last one.
GoOn(p) ==
    IF at[p] = PLATINUM
    THEN pc' = [pc EXCEPT ![p] = "done"] /\ UNCHANGED at
    ELSE /\ pc' = [pc EXCEPT ![p] = "fill"]
         /\ at' = [at EXCEPT ![p] = @ + 1]

\* fopen fails: the writer skips the file and reports nothing.
SkipCache(p) ==
    /\ pc[p] = "fill"
    /\ GoOn(p)
    /\ UNCHANGED <<wav, disk, seen, load, x, pos, raced>>

\* The contents of a file after v is written at buffer i.
Written(old, i, v) ==
    [j \in Index |-> CASE j = i -> v
                       [] j < i /\ old[j] = Absent -> Zero
                       [] OTHER -> old[j]]

\* fclose is forgotten, and with it the last buffer.
WriteBlockNoClose(p) ==
    /\ pc[p] = "write"
    /\ pos' = [pos EXCEPT ![p] = @ + 1]
    /\ IF pos[p] + 1 = Blocks
       THEN GoOn(p) /\ UNCHANGED disk
       ELSE /\ disk' = [disk EXCEPT ![at[p]] = Written(@, pos[p] + 1, x[p])]
            /\ UNCHANGED <<pc, at>>
    /\ UNCHANGED <<wav, seen, load, x, raced>>

\* One buffer reaches the disk; the last one does in fclose.
WriteBlock(p) ==
    /\ pc[p] = "write"
    /\ disk' = [disk EXCEPT ![at[p]] = Written(@, pos[p] + 1, x[p])]
    /\ pos' = [pos EXCEPT ![p] = @ + 1]
    /\ IF pos[p] + 1 = Blocks THEN GoOn(p) ELSE UNCHANGED <<pc, at>>
    /\ UNCHANGED <<wav, seen, load, x, raced>>

\* The disk is full: the results of fwrite and fclose are not looked at, the
\* rest of this file is lost and the process goes on.
DiskFull(p) ==
    /\ pc[p] = "write"
    /\ GoOn(p)
    /\ UNCHANGED <<wav, disk, seen, load, x, pos, raced>>

-----------------------------------------------------------------------------
(* The environment *)

\* The process is killed; the buffers it has not flushed are lost.
Crash(p) ==
    /\ p \in Active
    /\ pc' = [pc EXCEPT ![p] = "crashed"]
    /\ UNCHANGED <<wav, disk, at, seen, load, x, pos, raced>>

\* The user records the wav again, or removes it.
EditWav(v) ==
    /\ v # wav
    /\ wav' = v
    /\ UNCHANGED <<disk, pc, at, seen, load, x, pos, raced>>

Terminated ==
    /\ \A p \in Procs : pc[p] \in Final
    /\ UNCHANGED vars

-----------------------------------------------------------------------------
(* A process that has started, when nothing fails *)
Work(p) ==
    \/ StatCache(p)
    \/ ReadCache(p)
    \/ ReadWav(p)
    \/ OpenCache(p)
    \/ WriteBlock(p)

Step(p) == Invoke(p) \/ Work(p)

Fault(p) == SkipCache(p) \/ DiskFull(p) \/ Crash(p)

Edit == \E v \in Versions \cup {NoWav} : EditWav(v)

\* Any number of processes at once, the wav at rest and nothing fails.
QuietNext == (\E p \in Procs : Step(p)) \/ Terminated
QuietSpec ==
    /\ Init
    /\ [][QuietNext]_vars
    /\ \A p \in Procs : WF_vars(Step(p))

\* One process at a time, as when an editor renders its notes in sequence.
InvokeAlone(p) == Active = {} /\ Invoke(p)

\* ... with analyses that fail and a wav that is edited between any two steps
CleanSerialNext ==
    \/ \E p \in Procs : InvokeAlone(p) \/ Work(p) \/ FailAnalysis(p)
    \/ Edit
    \/ Terminated
CleanSerialSpec == Init /\ [][CleanSerialNext]_vars

\* ... and processes that are killed or cannot write.
SerialNext == CleanSerialNext \/ \E p \in Procs : Fault(p)
SerialSpec == Init /\ [][SerialNext]_vars

\* Everything at once.
Next ==
    \/ \E p \in Procs : Step(p) \/ FailAnalysis(p) \/ Fault(p)
    \/ Edit
    \/ Terminated
Spec == Init /\ [][Next]_vars

-----------------------------------------------------------------------------
(* Properties *)

\* Every variable holds values of its kind.
TypeOK ==
    /\ wav \in Versions \cup {NoWav}
    /\ disk \in [Files -> [Index -> Cells]]
    /\ pc \in [Procs -> {"ready", "wav"} \cup Reading \cup Filling \cup Final]
    /\ at \in [Procs -> Files]
    /\ seen \in [Procs -> SUBSET Index]
    /\ load \in [Procs -> [Files -> [Index -> Cells \cup {Garbage}]]]
    /\ x \in [Procs -> Versions \cup {NoWav}]
    /\ pos \in [Procs -> 0 .. Blocks]
    /\ raced \in [Procs -> BOOLEAN]

Complete(f, v) == \A i \in Index : disk[f][i] = v
Unwritten(f) == \A i \in Index : disk[f][i] = Absent
Writing(p, f) == pc[p] = "write" /\ at[p] = f

\* However many processes rewrite a cache file at the same time, truncating
\* it under each other's feet (writeDIOParam, writeSTARParam and
\* writePlatinumParam take no lock), a file that nobody has open any more is
\* either untouched or whole: no hole and no cut is left behind.
SettledComplete ==
    \A f \in Files :
        (\A p \in Procs : ~Writing(p, f)) => Unwritten(f) \/ Complete(f, wav)

\* The strengthening of SettledComplete that every step preserves: a buffer
\* of a file is good, or some writer of the file has yet to come to it.
Covered(f, i) == \E p \in Procs : Writing(p, f) /\ pos[p] < i
Sound(f) ==
    \/ Unwritten(f) /\ \A p \in Procs : ~Writing(p, f)
    \/ \A i \in Index : Covered(f, i) \/ disk[f][i] = wav
CoverInv ==
    /\ \A p \in Procs : pc[p] \in Filling => x[p] = wav
    /\ \A f \in Files : Sound(f)

\* A process that has the analysis without having read the wav took it from
\* the cache.
Hit(p) == pc[p] = "done" /\ x[p] = NoWav

\* A process whose reading (main, 844-861) met no open writer, and that
\* accepted the three headers, has the whole analysis of the wav: the
\* headers are enough to tell a whole cache from a missing one, although
\* nobody checks that the frames are there.
HitSound ==
    \A p \in Procs : Hit(p) /\ ~raced[p] =>
        \A f \in Files, i \in Index : load[p][f][i] = wav

\* The strengthening of HitSound: a reader that has met no writer has the
\* whole of the files it has read, and has counted every buffer of the one
\* it has open.
ReaderInv(p) ==
    /\ pc[p] = "ready" => at[p] = DIO
    /\ pc[p] \in Reading /\ ~raced[p] =>
          /\ Writers = {}
          /\ \A f \in Files, i \in Index : f < at[p] => load[p][f][i] = wav
          /\ pc[p] = "read" => seen[p] = Index
    /\ Hit(p) /\ ~raced[p] =>
          \A f \in Files, i \in Index : load[p][f][i] = wav
HitInv == \A p \in Procs : ReaderInv(p)

\* Once every process is done, the cache holds the whole analysis, and it
\* comes to that: no process waits for another one, and two that keep
\* refusing each other's half written files do not go on for ever.
FilledAtLast ==
    wav # NoWav /\ Procs # {} =>
        <>[](/\ \A p \in Procs : pc[p] = "done"
             /\ \A f \in Files : Complete(f, wav))

\* One process at a time: whatever is killed, cut short or edited between
\* two steps, each file is the beginning of the analysis of one version,
\* without a hole and without frames of another version.
PrefixOfOneVersion ==
    \A f \in Files : \E v \in Versions, n \in 0 .. Blocks :
        disk[f] = [i \in Index |-> IF i <= n THEN v ELSE Absent]

\* The version a process renders from, Zero when what it loaded is not the
\* analysis of one version.
Loaded(p) ==
    IF \E v \in Versions : \A f \in Files, i \in Index : load[p][f][i] = v
    THEN load[p][DIO][1] ELSE Zero

Stored ==
    LET v == disk[DIO][1]
    IN IF v \in Versions \ Long /\ \A f \in Files : Complete(f, v)
       THEN v ELSE NoWav

VC == INSTANCE VoiceCache WITH
    store <- Stored,
    job   <- [p \in Procs |-> IF pc[p] \in Filling THEN x[p] ELSE NoWav],
    voice <- [p \in Procs |-> IF pc[p] # "done" THEN NoWav
                              ELSE IF x[p] # NoWav THEN x[p] ELSE Loaded(p)]

\* One process at a time, the three files behave as the store of VoiceCache:
\* a hit is served a whole analysis of one version and a miss replaces it,
\* although the wav is edited and analyses fail between any two steps.
ImplementsVoiceCache == VC!Spec

\* A cache that is whole is never written again, so that an edited wav is
\* never analysed: what the headers are held against is the cache itself.
StoreIsForever == [][Stored # NoWav => Stored' = Stored]_vars

\* What the comment above readDIOParam says of the program: "ima wa kanarazu
\* yonderu", the wav is always read at present, the cache complete or not.
WavAlwaysRead == \A p \in Procs : pc[p] = "done" => x[p] # NoWav

=============================================================================
