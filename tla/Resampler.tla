----------------------------- MODULE Resampler -----------------------------
(***************************************************************************)
(* main() of world4utau as the owner of its memory: what it allocates and  *)
(* frees on every way through it, with the loaders it calls.  An analysis  *)
(* is loaded from the cache or, when a part of it is missing, computed     *)
(* from the wav; the arrays of the output are made, and what main() knows  *)
(* of is freed.  Any allocation may fail, MaxFailedMallocs of them at most.*)
(*                                                                         *)
(* A block is named by the call of malloc() that made it and a row number. *)
(***************************************************************************)
EXTENDS Integers, FiniteSets

CONSTANTS
    MaxRows,  \* tLen and oLen are 1 to MaxRows
    MaxFailedMallocs

ASSUME ResamplerAssumption == MaxRows \in Nat \ {0} /\ MaxFailedMallocs \in Nat

ReadRows == {"starRead", "platRead"}
GetRows == {"starGet", "platGet"}
OutRows == {"specOut", "resOut"}
Arrays == ReadRows \cup GetRows \cup OutRows

\* The other calls of malloc(), each made once.
ReadOnce == {"tRead", "f0Read"}
GetOnce == {"x", "tGet", "f0Get"}
OutOnce == {"f0out", "pit", "y", "output"}

\* <<site, 0>> is the block or the array of rows, <<site, k>> row k - 1.
Block == ((ReadOnce \cup GetOnce \cup OutOnce) \X {0}) \cup (Arrays \X (0..MaxRows))
NULL == <<"NULL", 0>>

LoadedBlock == {b \in Block : b[1] \in ReadOnce \cup ReadRows}

Pointer == {"x", "t", "f0", "specgram", "residualSpecgram"}
CacheFile == {"dio", "star", "platinum"}

VARIABLES
    files,          \* "good", or "bad": absent, of another magic, length or rate
    tLen, oLen,     \* tLen of the .dio file or of the wav
    ptr,            \* the pointers of main() the analysis is kept in
    got,            \* the blocks malloc() returned
    frees,          \* how often each was given to free()
    failedMallocs,  \* the blocks malloc() did not return
    i,              \* rows done, in the loops over rows
    written,        \* whether argv[2] was
    code,           \* what main() returned
    resamplerPc

resamplerVars == <<files, tLen, oLen, ptr, got, frees, failedMallocs, i, written,
                   code, resamplerPc>>

Live(b) == b \in got /\ frees[b] = 0

MayFail(b) ==
    /\ Cardinality(failedMallocs) < MaxFailedMallocs
    /\ failedMallocs' = failedMallocs \cup {b}
Malloc(S) == got' = got \cup S /\ UNCHANGED failedMallocs

\* free() of each block of S; of NULL, nothing.
Free(S) == frees' = [b \in Block |-> frees[b] + IF b \in S THEN 1 ELSE 0]

\* An array with its first n rows.
WholeArray(a, n) == {<<a, k>> : k \in 0..n}

Exit(status) == resamplerPc' = "exit" /\ code' = status /\ UNCHANGED written

ResamplerInit ==
    /\ files \in [CacheFile -> {"good", "bad"}]
    /\ tLen \in 1..MaxRows /\ oLen \in 1..MaxRows
    /\ ptr = [p \in Pointer |-> NULL]
    /\ got = {} /\ frees = [b \in Block |-> 0] /\ failedMallocs = {}
    /\ i = 0 /\ written = FALSE /\ code = 0
    /\ resamplerPc = "readDIO"

-----------------------------------------------------------------------------
\* Loading.  Without an analysis tLen is 0 and the wav is read.
ReadDIO ==
    /\ resamplerPc = "readDIO"
    /\ \/ /\ files["dio"] = "bad" /\ resamplerPc' = "wavread"
          /\ UNCHANGED <<ptr, got, failedMallocs, frees>>
       \/ /\ files["dio"] = "good" /\ resamplerPc' = "starRead0"
          /\ Malloc({<<"tRead", 0>>, <<"f0Read", 0>>})
          /\ ptr' = [ptr EXCEPT !["t"] = <<"tRead", 0>>, !["f0"] = <<"f0Read", 0>>]
          /\ UNCHANGED frees
       \/ \E b \in {<<"tRead", 0>>, <<"f0Read", 0>>} :
            /\ files["dio"] = "good" /\ resamplerPc' = "wavread"
            /\ MayFail(b)
            /\ got' = got \cup ({<<"tRead", 0>>, <<"f0Read", 0>>} \ {b})
            /\ Free({<<"tRead", 0>>, <<"f0Read", 0>>} \ {b})
            /\ UNCHANGED ptr
    /\ UNCHANGED <<files, tLen, oLen, i, written, code>>

\* freeSpecgram() of 0 rows: main() sets tLen to 0 before it calls it.
freeSpecgram(spec, n) == IF spec = NULL \/ n = 0 THEN {} ELSE WholeArray(spec[1], n)

GiveUpLoad ==
    /\ resamplerPc = "giveUp"
    /\ Free(freeSpecgram(ptr["specgram"], 0)
              \cup freeSpecgram(ptr["residualSpecgram"], 0))
    /\ resamplerPc' = "wavread"
    /\ UNCHANGED <<files, tLen, oLen, ptr, got, failedMallocs, i, written, code>>

FileOf == [starRead |-> "star", platRead |-> "platinum"]
Target == [starRead |-> "specgram", starGet |-> "specgram",
           platRead |-> "residualSpecgram", platGet |-> "residualSpecgram"]

\* What follows when all rows are there, and when NULL is returned.
AfterRows == [starRead |-> "platRead0", platRead |-> "arguments",
              starGet |-> "platGet0", platGet |-> "arguments"]
\* The last result used as it is.
AfterNULLTrusted == [starRead |-> "giveUp", platRead |-> "giveUp",
                     starGet |-> "starFailed", platGet |-> "arguments"]

AfterNULL == [starRead |-> "giveUp", platRead |-> "giveUp",
              starGet |-> "starFailed", platGet |-> "platFailed"]
Label0 == [starRead |-> "starRead0", platRead |-> "platRead0",
           starGet |-> "starGet0", platGet |-> "platGet0"]

ReturnNULL(a) ==
    /\ ptr' = [ptr EXCEPT ![Target[a]] = NULL]
    /\ resamplerPc' = AfterNULL[a]

\* The array of rows: of a file that is refused, none.
Array(a) ==
    /\ resamplerPc = Label0[a]
    /\ i' = 0
    /\ \/ /\ a \in ReadRows /\ files[FileOf[a]] = "bad"
          /\ ReturnNULL(a) /\ UNCHANGED <<got, failedMallocs>>
       \/ /\ a \in ReadRows => files[FileOf[a]] = "good"
          /\ MayFail(<<a, 0>>) /\ UNCHANGED got
          /\ ReturnNULL(a)
       \/ /\ a \in ReadRows => files[FileOf[a]] = "good"
          /\ Malloc({<<a, 0>>})
          /\ resamplerPc' = a /\ UNCHANGED ptr
    /\ UNCHANGED <<files, tLen, oLen, frees, written, code>>

Row(a) ==
    /\ resamplerPc = a /\ i < tLen
    /\ Malloc({<<a, i + 1>>}) /\ i' = i + 1
    /\ UNCHANGED <<files, tLen, oLen, ptr, frees, written, code, resamplerPc>>

\* The loop over j frees row i each time.
FreedRows(a, row) == IF <<a, row + 1>> \in got THEN {<<a, row + 1>>} ELSE {}

\* Row i is not there: the loop frees it for each row before it, and only
\* the array is freed.
RowFails(a) ==
    /\ resamplerPc = a /\ i < tLen
    /\ MayFail(<<a, i + 1>>)
    /\ frees' = [b \in Block |->
                   IF b \in FreedRows(a, i) THEN frees[b] + i
                   ELSE IF b = <<a, 0>> THEN frees[b] + 1 ELSE frees[b]]
    /\ ReturnNULL(a)
    /\ UNCHANGED <<files, tLen, oLen, got, i, written, code>>

\* All but readPlatinumParam clear the row before they test it.  That is
\* undefined for a row that is not there: the program ends here, or the test
\* below is reached after all.
RowCleared(a) ==
    /\ resamplerPc = a /\ i < tLen /\ a # "platRead"
    /\ MayFail(<<a, i + 1>>)
    /\ resamplerPc' = "crashed"
    /\ UNCHANGED <<files, tLen, oLen, ptr, got, frees, i, written, code>>

RowsDone(a) ==
    /\ resamplerPc = a /\ i = tLen
    /\ ptr' = [ptr EXCEPT ![Target[a]] = <<a, 0>>]
    /\ resamplerPc' = AfterRows[a]
    /\ UNCHANGED <<files, tLen, oLen, got, frees, failedMallocs, i, written, code>>

-----------------------------------------------------------------------------
\* Computing from the wav.
Wavread ==
    /\ resamplerPc = "wavread"
    /\ \/ /\ Malloc({<<"x", 0>>})
          /\ ptr' = [ptr EXCEPT !["x"] = <<"x", 0>>]
          /\ \E n \in 1..MaxRows : tLen' = n
          /\ resamplerPc' = "getDIO" /\ UNCHANGED <<written, code>>
       \/ \* No such file, or one that is refused.
          /\ Exit(0) /\ UNCHANGED <<tLen, ptr, got, failedMallocs>>
       \/ /\ MayFail(<<"x", 0>>)
          /\ Exit(0) /\ UNCHANGED <<tLen, ptr, got>>
    /\ UNCHANGED <<files, oLen, frees, i>>

GetDIO ==
    /\ resamplerPc = "getDIO"
    /\ \/ /\ Malloc({<<"tGet", 0>>, <<"f0Get", 0>>})
          /\ ptr' = [ptr EXCEPT !["t"] = <<"tGet", 0>>, !["f0"] = <<"f0Get", 0>>]
          /\ resamplerPc' = "starGet0" /\ UNCHANGED <<frees, written, code>>
       \/ \E b \in {<<"tGet", 0>>, <<"f0Get", 0>>} :
            /\ MayFail(b)
            /\ got' = got \cup ({<<"tGet", 0>>, <<"f0Get", 0>>} \ {b})
            /\ Free(({<<"tGet", 0>>, <<"f0Get", 0>>} \ {b}) \cup {ptr["x"]})
            /\ ptr' = [ptr EXCEPT !["x"] = NULL, !["t"] = NULL, !["f0"] = NULL]
            /\ Exit(0)
    /\ UNCHANGED <<files, tLen, oLen, i>>

StarFailed ==
    /\ resamplerPc = "starFailed"
    /\ Free({ptr["x"], ptr["t"], ptr["f0"]})
    /\ ptr' = [ptr EXCEPT !["x"] = NULL, !["t"] = NULL, !["f0"] = NULL]
    /\ Exit(-1)
    /\ UNCHANGED <<files, tLen, oLen, got, failedMallocs, i>>

\* Of specgram, only the array of rows.
PlatFailed ==
    /\ resamplerPc = "platFailed"
    /\ Free({ptr["x"], ptr["t"], ptr["f0"], ptr["specgram"]})
    /\ ptr' = [p \in Pointer |-> NULL]
    /\ Exit(-1)
    /\ UNCHANGED <<files, tLen, oLen, got, failedMallocs, i>>

-----------------------------------------------------------------------------
\* The output.
Arguments ==
    /\ resamplerPc = "arguments"
    /\ resamplerPc' = "out"
    /\ UNCHANGED <<files, tLen, oLen, ptr, got, frees, failedMallocs, i, written,
                   code>>

\* Two tests of the arguments end main().
BadArguments ==
    /\ resamplerPc = "arguments"
    /\ Free({ptr["x"]}) /\ ptr' = [ptr EXCEPT !["x"] = NULL]
    /\ Exit(-1)
    /\ UNCHANGED <<files, tLen, oLen, got, failedMallocs, i>>

\* No allocation of the output is tested: each is cleared or written next.
OutBlocks(label) ==
    CASE label = "out" -> {<<s, 0>> : s \in OutRows \cup {"f0out", "pit"}}
      [] label = "outRows" -> {<<s, i + 1>> : s \in OutRows}
      [] label = "synthesis" -> {<<"y", 0>>, <<"output", 0>>}

Untested ==
    /\ resamplerPc \in {"out", "outRows", "synthesis"}
    /\ \E b \in OutBlocks(resamplerPc) : MayFail(b)
    /\ resamplerPc' = "crashed"
    /\ UNCHANGED <<files, tLen, oLen, ptr, got, frees, i, written, code>>

Out ==
    /\ resamplerPc = "out"
    /\ Malloc(OutBlocks("out")) /\ i' = 0
    /\ resamplerPc' = "outRows"
    /\ UNCHANGED <<files, tLen, oLen, ptr, frees, written, code>>

OutRow ==
    /\ resamplerPc = "outRows"
    /\ Malloc(OutBlocks("outRows")) /\ i' = i + 1
    /\ resamplerPc' = IF i + 1 = oLen THEN "synthesis" ELSE "outRows"
    /\ UNCHANGED <<files, tLen, oLen, ptr, frees, written, code>>

\* Transform, synthesis and the file.
WriteOutput ==
    /\ resamplerPc = "synthesis"
    /\ Malloc(OutBlocks("synthesis"))
    /\ written' = TRUE
    /\ resamplerPc' = "release"
    /\ UNCHANGED <<files, tLen, oLen, ptr, frees, i, code>>

Release ==
    /\ resamplerPc = "release"
    /\ Free({ptr["x"], ptr["t"], ptr["f0"]} \cup {<<s, 0>> : s \in OutOnce}
              \cup WholeArray(ptr["specgram"][1], tLen)
              \cup WholeArray(ptr["residualSpecgram"][1], tLen)
              \cup UNION {WholeArray(a, oLen) : a \in OutRows})
    /\ resamplerPc' = "done" /\ code' = 0
    /\ UNCHANGED <<files, tLen, oLen, ptr, got, failedMallocs, i, written>>

ResamplerEnded == resamplerPc \in {"done", "exit", "crashed"} /\ UNCHANGED resamplerVars

ResamplerNext ==
    \/ ReadDIO \/ GiveUpLoad
    \/ \E a \in ReadRows \cup GetRows :
         Array(a) \/ Row(a) \/ RowFails(a) \/ RowCleared(a) \/ RowsDone(a)
    \/ Wavread \/ GetDIO \/ StarFailed \/ PlatFailed
    \/ Arguments \/ BadArguments
    \/ Out \/ OutRow \/ Untested \/ WriteOutput \/ Release
    \/ ResamplerEnded

\* One thread, nothing it waits for: it goes on.
ResamplerSpec ==
    /\ ResamplerInit /\ [][ResamplerNext]_resamplerVars
    /\ WF_resamplerVars(ResamplerNext)
-----------------------------------------------------------------------------
ResamplerTypeOK ==
    /\ files \in [CacheFile -> {"good", "bad"}]
    /\ tLen \in 1..MaxRows /\ oLen \in 1..MaxRows
    /\ ptr \in [Pointer -> Block \cup {NULL}]
    /\ got \subseteq Block /\ failedMallocs \subseteq Block
    /\ got \cap failedMallocs = {}
    /\ frees \in [Block -> Nat]
    /\ i \in 0..MaxRows /\ written \in BOOLEAN /\ code \in {0, -1}

(***************************************************************************)
(* Nothing is freed twice, and only what malloc() returned: in spite of    *)
(* the loops that free the wrong row, of pointers that two attempts at an  *)
(* analysis share, and of arrays that are freed without their rows.        *)
(***************************************************************************)
FreedOnce == \A b \in Block : frees[b] <= 1 /\ (frees[b] = 1 => b \in got)

(***************************************************************************)
(* Past the analysis, main() works with blocks that are live, with every   *)
(* row of both spectrograms, and all four are of one origin: a track that  *)
(* was loaded is never used with a spectrogram computed from the wav.      *)
(***************************************************************************)
Ready == resamplerPc \in {"arguments", "out", "outRows", "synthesis", "release"}
OneOrigin ==
    Ready =>
      /\ {ptr["t"][1], ptr["f0"][1], ptr["specgram"][1],
            ptr["residualSpecgram"][1]}
           \in {ReadOnce \cup ReadRows, {"tGet", "f0Get"} \cup GetRows}
      /\ \A p \in {"t", "f0"} : Live(ptr[p])
      /\ \A p \in {"specgram", "residualSpecgram"} :
           \A k \in 0..tLen : Live(<<ptr[p][1], k>>)

(***************************************************************************)
(* When the output was written, all that is left over is what a load that  *)
(* was given up had allocated; after a load that succeeded, nothing is.    *)
(***************************************************************************)
NothingLeft ==
    resamplerPc = "done" => /\ \A b \in Block : Live(b) => b \in LoadedBlock
                            /\ ptr["t"] = <<"tRead", 0>> =>
                                  \A b \in Block : ~ Live(b)

(***************************************************************************)
(* The wav is not left over by any of the ways main() returns.             *)
(***************************************************************************)
WavFreed == resamplerPc \in {"exit", "done"} => ~ Live(<<"x", 0>>)

(***************************************************************************)
(* An output is written only by a run in which no allocation failed after  *)
(* the load: a failure of the load is made good from the wav, and any      *)
(* other ends the run before it has touched the output.                    *)
(***************************************************************************)
NeverPassedOver ==
    written => failedMallocs \subseteq LoadedBlock

(***************************************************************************)
(* The memory of main(): what it works with is live and of one origin, and *)
(* what it allocated is freed once or was of a load that was given up.     *)
(***************************************************************************)
MemorySound ==
    FreedOnce /\ OneOrigin /\ NothingLeft /\ WavFreed /\ NeverPassedOver
=============================================================================
