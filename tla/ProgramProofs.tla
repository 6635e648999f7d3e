--------------------------- MODULE ProgramProofs ---------------------------
(***************************************************************************)
(* The two programs as a whole: main() of world4utau never frees a block   *)
(* twice or works with one it has not, whichever allocations fail; the     *)
(* batch tool serves every wav of a directory, in whatever order it is     *)
(* returned.                                                               *)
(***************************************************************************)
EXTENDS MCProgram, WavProofs, FiniteSetTheorems

(* The memory of main() *)

TRead == {<<"tRead", 0>>, <<"f0Read", 0>>}
TGet == {<<"x", 0>>, <<"tGet", 0>>, <<"f0Get", 0>>}
Loaded == TRead \cup WholeArray("starRead", tLen) \cup WholeArray("platRead", tLen)
Computed == TGet \cup WholeArray("starGet", tLen) \cup WholeArray("platGet", tLen)
FromCache == ptr["t"] = <<"tRead", 0>>
Analysis == IF FromCache THEN Loaded ELSE Computed
OutArrays(n) == {<<"f0out", 0>>, <<"pit", 0>>} \cup (OutRows \X (0 .. n))

\* What is there when an array of rows is begun.
Before(a) ==
    CASE a = "starRead" -> TRead
      [] a = "platRead" -> TRead \cup WholeArray("starRead", tLen)
      [] a = "starGet" -> TGet
      [] a = "platGet" -> TGet \cup WholeArray("starGet", tLen)

\* The blocks that are live at a label because main(), or the function it is in,
\* has a pointer to them.
Held ==
    CASE resamplerPc \in ReadRows \cup GetRows ->
           Before(resamplerPc) \cup WholeArray(resamplerPc, i)
      [] resamplerPc = "starRead0" -> Before("starRead")
      [] resamplerPc = "platRead0" -> Before("platRead")
      [] resamplerPc = "getDIO" -> {<<"x", 0>>}
      [] resamplerPc \in {"starGet0", "starFailed"} -> Before("starGet")
      [] resamplerPc \in {"platGet0", "platFailed"} -> Before("platGet")
      [] resamplerPc \in {"arguments", "out"} -> Analysis
      [] resamplerPc = "outRows" -> Analysis \cup OutArrays(i)
      [] resamplerPc = "synthesis" -> Analysis \cup OutArrays(oLen)
      [] resamplerPc = "release" ->
           Analysis \cup OutArrays(oLen) \cup {<<"y", 0>>, <<"output", 0>>}
      [] OTHER -> {}

Loading == {"readDIO", "starRead0", "starRead", "platRead0", "platRead"}
Given == {"giveUp", "wavread"}
Computing == {"getDIO", "starGet0", "starGet", "platGet0", "platGet"}
Failed == {"starFailed", "platFailed"}
Working == {"arguments", "out", "outRows", "synthesis", "release"}
Going == Loading \cup Given \cup Computing \cup Working
Ended == {"done", "exit", "crashed"}

\* Those that may be live besides: a load that was given up has lost what it had,
\* and on the way out of a failure it does not matter, but for the wav.
Lost ==
    CASE resamplerPc = "crashed" -> Block
      [] resamplerPc \in Failed \cup {"exit"} -> Block \ {<<"x", 0>>}
      [] resamplerPc \in Given \cup Computing -> LoadedBlock
      [] resamplerPc \in Loading -> {}
      [] OTHER -> IF FromCache THEN {} ELSE LoadedBlock

Kinds ==
    /\ tLen \in 1 .. MaxRows /\ oLen \in 1 .. MaxRows
    /\ resamplerPc \in Going \cup Failed \cup Ended
    /\ resamplerPc \in ReadRows \cup GetRows => i \in 0 .. tLen
    /\ resamplerPc = "outRows" => i \in 0 .. oLen - 1
    /\ ptr \in [Pointer -> Block \cup {NULL}]
    /\ got \subseteq Block /\ frees \in [Block -> Nat]

\* Every block is freed once, what is held is live, and what is live is held or
\* lost.  What goes on has not freed a block that it might come to again.
BlocksInv ==
    /\ \A b \in Block : frees[b] <= 1 /\ (frees[b] = 1 => b \in got)
    /\ \A b \in Held : Live(b)
    /\ \A b \in Block : Live(b) => b \in Held \cup Lost
    /\ resamplerPc \in Going => got \subseteq Held \cup Lost

ReadPointers == ptr["t"] = <<"tRead", 0>> /\ ptr["f0"] = <<"f0Read", 0>>
GetPointers == ptr["t"] = <<"tGet", 0>> /\ ptr["f0"] = <<"f0Get", 0>>

PointersInv ==
    /\ resamplerPc \in Computing \cup Failed => ptr["x"] = <<"x", 0>>
    /\ resamplerPc \in Loading \cup Given => ptr["x"] = NULL
    /\ resamplerPc \in Working => ptr["x"] = IF FromCache THEN NULL ELSE <<"x", 0>>
    /\ resamplerPc \in Loading \ {"readDIO"} => ReadPointers
    /\ resamplerPc \in (Computing \cup Failed) \ {"getDIO"} => GetPointers
    /\ resamplerPc \in {"platRead0", "platRead"} => ptr["specgram"] = <<"starRead", 0>>
    /\ resamplerPc \in {"platGet0", "platGet", "platFailed"} =>
          ptr["specgram"] = <<"starGet", 0>>
    /\ resamplerPc \in Working =>
          \/ /\ ReadPointers /\ ptr["specgram"] = <<"starRead", 0>>
             /\ ptr["residualSpecgram"] = <<"platRead", 0>>
          \/ /\ GetPointers /\ ptr["specgram"] = <<"starGet", 0>>
             /\ ptr["residualSpecgram"] = <<"platGet", 0>>

FailuresInv ==
    /\ resamplerPc \notin Failed \cup {"exit", "crashed"} => failedMallocs \subseteq LoadedBlock
    /\ written => resamplerPc \in {"release", "done"}

MemoryInv == Kinds /\ BlocksInv /\ PointersInv /\ FailuresInv
-----------------------------------------------------------------------------
\* A step of a block: S is allocated, T is freed.
BlocksChanged(S, T) ==
    /\ \A b \in S : b \in Block /\ b \notin got
    /\ \A b \in T : b \in Block /\ (Live(b) \/ b \in S)
    /\ got' = got \cup S
    /\ \A b \in Block : frees'[b] = frees[b] + IF b \in T THEN 1 ELSE 0
    /\ \A b \in Held' : b \in Held \cup S /\ b \notin T
    /\ \A b \in Held \cup Lost \cup S : b \in T \cup Held' \cup Lost'
    /\ resamplerPc' \in Going => resamplerPc \in Going /\ T \subseteq Lost'

LEMMA BlocksStep ==
    ASSUME BlocksInv, Kinds, NEW S, NEW T, BlocksChanged(S, T)
    PROVE  BlocksInv'
<1>. USE DEF BlocksChanged
<1>1. \A b \in Block : frees[b] \in Nat /\ (b \in S => b \notin got /\ frees[b] = 0)
  BY DEF BlocksInv, Kinds
<1>2. \A b \in Block : frees'[b] <= 1 /\ (frees'[b] = 1 => b \in got')
  BY <1>1 DEF BlocksInv, Live
<1>3. \A b \in Held' : Live(b)'
  <2>. TAKE b \in Held'
  <2>1. b \in Held \/ b \in S
    OBVIOUS
  <2>2. b \in Block /\ b \notin T /\ b \in got'
    BY <2>1 DEF BlocksInv, Live, Kinds
  <2>3. frees[b] = 0
    BY <1>1, <2>1 DEF BlocksInv, Live
  <2> QED BY <2>2, <2>3 DEF Live
<1>4. \A b \in Block : Live(b)' => b \in Held' \cup Lost'
  <2>. TAKE b \in Block
  <2>1. Live(b)' => b \notin T /\ (b \in S \/ Live(b))
    BY <1>1 DEF Live
  <2> QED BY <2>1 DEF BlocksInv
<1>5. resamplerPc' \in Going => got' \subseteq Held' \cup Lost'
  BY DEF BlocksInv
<1> QED BY <1>2, <1>3, <1>4, <1>5 DEF BlocksInv

\* Nothing of the wanted was allocated before.
LEMMA NotYet ==
    ASSUME BlocksInv, resamplerPc \in Going, NEW b, b \notin Held, b \notin Lost
    PROVE  b \notin got
BY DEF BlocksInv

\* A load of the track that fails frees what it has.
LEMMA ReadDIOMemory ==
    ASSUME MemoryInv, ReadDIO PROVE MemoryInv'
<1>. USE DEF Loading, Given, Computing, Failed, Working, Going, Ended, ReadRows, GetRows
<1>1. Kinds'
  BY ResamplerAssumption DEF MemoryInv, Kinds, ReadDIO, Malloc, Free, Block, ReadOnce
<1>2. BlocksInv'
  <2>1. resamplerPc = "readDIO" /\ got = {} /\ UNCHANGED tLen
    BY DEF ReadDIO, MemoryInv, BlocksInv, Held, Lost
  <2>2. CASE resamplerPc' = "wavread"
    <3>1. Held' = {} /\ Lost' = LoadedBlock /\ Held = {} /\ Lost = {}
      BY <2>1, <2>2 DEF Held, Lost
    <3>2. \A b \in TRead : b \in Block /\ b \in LoadedBlock
      BY DEF TRead, LoadedBlock, Block, ReadOnce
    <3>3. CASE UNCHANGED <<got, frees>>
      <4>1. BlocksChanged({}, {})
        BY <2>1, <2>2, <3>1, <3>3 DEF BlocksChanged, MemoryInv, Kinds
      <4> QED BY <4>1, BlocksStep DEF MemoryInv
    <3>4. CASE \E b \in TRead : got' = got \cup (TRead \ {b}) /\ Free(TRead \ {b})
      <4>1. PICK b \in TRead : got' = got \cup (TRead \ {b}) /\ Free(TRead \ {b})
        BY <3>4
      <4>2. BlocksChanged(TRead \ {b}, TRead \ {b})
        BY <2>1, <2>2, <3>1, <3>2, <4>1 DEF BlocksChanged, Free
      <4> QED BY <4>2, BlocksStep DEF MemoryInv
    <3> QED BY <2>2, <3>3, <3>4 DEF ReadDIO, TRead
  <2>3. CASE resamplerPc' = "starRead0"
    <3>1. got' = got \cup TRead /\ UNCHANGED frees
      BY <2>3 DEF ReadDIO, Malloc, TRead
    <3>2. Held' = TRead /\ Lost' = {} /\ Held = {} /\ Lost = {}
      BY <2>1, <2>3 DEF Held, Lost, Before
    <3>3. \A b \in TRead : b \in Block
      BY DEF TRead, Block, ReadOnce
    <3>4. BlocksChanged(TRead, {})
      BY <2>1, <2>3, <3>1, <3>2, <3>3 DEF BlocksChanged, MemoryInv, Kinds
    <3> QED BY <3>4, BlocksStep DEF MemoryInv
  <2> QED BY <2>2, <2>3 DEF ReadDIO
<1>3. PointersInv'
  BY DEF MemoryInv, Kinds, PointersInv, ReadPointers, ReadDIO, Pointer
<1>4. FailuresInv'
  BY DEF MemoryInv, FailuresInv, ReadDIO, Malloc, MayFail, Block, ReadOnce, LoadedBlock
<1> QED BY <1>1, <1>2, <1>3, <1>4 DEF MemoryInv

\* A load that is given up frees nothing: it is lost.
LEMMA GiveUpMemory ==
    ASSUME MemoryInv, GiveUpLoad PROVE MemoryInv'
<1>. USE DEF Loading, Given, Computing, Failed, Working, Going, Ended, ReadRows, GetRows
<1>1. Kinds'
  BY ResamplerAssumption DEF MemoryInv, Kinds, GiveUpLoad, Free
<1>2. BlocksInv'
  <2>1. \A b \in Block : frees'[b] = frees[b] + IF b \in {} THEN 1 ELSE 0
    BY DEF GiveUpLoad, Free, freeSpecgram, MemoryInv, Kinds
  <2>2. Held' = Held /\ Lost' = Lost
    BY DEF GiveUpLoad, Held, Lost
  <2>3. got' = got \cup {} /\ resamplerPc = "giveUp"
    BY DEF GiveUpLoad
  <2>4. BlocksChanged({}, {})
    BY <2>1, <2>2, <2>3 DEF BlocksChanged
  <2> QED BY <2>4, BlocksStep DEF MemoryInv
<1>3. PointersInv'
  BY DEF MemoryInv, PointersInv, GiveUpLoad
<1>4. FailuresInv'
  BY DEF MemoryInv, FailuresInv, GiveUpLoad
<1> QED BY <1>1, <1>2, <1>3, <1>4 DEF MemoryInv

\* An array that is not there, of a file that is refused or for want of memory,
\* loses what a load had, and what an analysis had is freed next.
LEMMA ArrayMemory ==
    ASSUME MemoryInv, NEW a \in ReadRows \cup GetRows, Array(a) PROVE MemoryInv'
<1>. USE DEF Loading, Given, Computing, Failed, Working, Going, Ended, ReadRows, GetRows
<1>1. Kinds'
  BY ResamplerAssumption DEF MemoryInv, Kinds, Array, AfterNULL, Malloc, ReturnNULL,
         Block, Arrays
<1>2. BlocksInv'
  <2>1. /\ resamplerPc = Label0[a] /\ i' = 0 /\ UNCHANGED <<frees, tLen>>
        /\ Held = Before(a) /\ Lost = (IF a \in ReadRows THEN {} ELSE LoadedBlock)
    BY DEF Array, Label0, Held, Lost
  <2>2. CASE resamplerPc' = AfterNULL[a]
    <3>1. got' = got \cup {}
      BY <2>2 DEF Array, AfterNULL, Malloc
    <3>2. Held' = (IF a \in ReadRows THEN {} ELSE Before(a)) /\ LoadedBlock \subseteq Lost'
      BY <2>1, <2>2 DEF AfterNULL, Held, Lost, Before, LoadedBlock, ReadOnce
    <3>3. a \in ReadRows => \A b \in Before(a) : b \in LoadedBlock
      BY ResamplerAssumption DEF MemoryInv, Kinds, Before, TRead, WholeArray,
             LoadedBlock, Block, ReadOnce, Arrays
    <3>4. BlocksChanged({}, {})
      BY <2>1, <2>2, <3>1, <3>2, <3>3 DEF BlocksChanged, MemoryInv, Kinds, AfterNULL, Label0
    <3> QED BY <3>4, BlocksStep DEF MemoryInv
  <2>3. CASE resamplerPc' = a
    <3>1. got' = got \cup {<<a, 0>>}
      BY <2>3 DEF Array, AfterNULL, ReturnNULL, Malloc
    <3>2. Held' = Before(a) \cup {<<a, 0>>} /\ Lost' = Lost
      BY <2>1, <2>3 DEF Held, Lost, Before, WholeArray
    <3>3. <<a, 0>> \notin Held
      BY <2>1 DEF Before, TRead, TGet, WholeArray
    <3>4. <<a, 0>> \notin Lost
      BY <2>1 DEF LoadedBlock, ReadOnce
    <3>5. <<a, 0>> \in Block
      BY ResamplerAssumption DEF Block, Arrays
    <3>6. <<a, 0>> \notin got
      BY <2>1, <3>3, <3>4, NotYet DEF MemoryInv, Label0
    <3>7. BlocksChanged({<<a, 0>>}, {})
      BY <2>1, <2>3, <3>1, <3>2, <3>5, <3>6 DEF BlocksChanged, MemoryInv, Kinds, Label0
    <3> QED BY <3>7, BlocksStep DEF MemoryInv
  <2> QED BY <2>2, <2>3 DEF Array, ReturnNULL
<1>3. PointersInv'
  BY DEF MemoryInv, Kinds, PointersInv, ReadPointers, GetPointers, Array, Label0,
         Target, AfterNULL, ReturnNULL, Pointer
<1>4. FailuresInv'
  <2>1. a \in ReadRows => <<a, 0>> \in LoadedBlock
    BY ResamplerAssumption DEF LoadedBlock, Block, Arrays
  <2>2. ~ written' /\ failedMallocs \subseteq LoadedBlock
    BY DEF MemoryInv, FailuresInv, Array, Label0
  <2>3. failedMallocs' = failedMallocs \/ failedMallocs' = failedMallocs \cup {<<a, 0>>}
    BY DEF Array, MayFail, Malloc
  <2>4. CASE a \in ReadRows
    BY <2>1, <2>2, <2>3, <2>4 DEF FailuresInv
  <2>5. CASE a \in GetRows
    <3>1. resamplerPc' \in Failed \/ failedMallocs' = failedMallocs
      BY <2>5 DEF Array, ReturnNULL, AfterNULL, Malloc
    <3> QED BY <2>2, <3>1 DEF FailuresInv
  <2> QED BY <2>4, <2>5
<1> QED BY <1>1, <1>2, <1>3, <1>4 DEF MemoryInv

\* One row more.
LEMMA RowMemory ==
    ASSUME MemoryInv, NEW a \in ReadRows \cup GetRows, Row(a) PROVE MemoryInv'
<1>. USE DEF Loading, Given, Computing, Failed, Working, Going, Ended, ReadRows, GetRows
<1>1. Kinds'
  BY ResamplerAssumption DEF MemoryInv, Kinds, Row, Malloc, Block, Arrays
<1>2. BlocksInv'
  <2>1. /\ resamplerPc = a /\ i \in Nat /\ i < tLen /\ tLen \in 1 .. MaxRows
        /\ UNCHANGED tLen /\ MaxRows \in Nat
        /\ Held = Before(a) \cup WholeArray(a, i)
        /\ Lost = (IF a \in ReadRows THEN {} ELSE LoadedBlock)
    BY ResamplerAssumption DEF Row, MemoryInv, Kinds, Held, Lost
  <2>2. <<a, i + 1>> \notin Held /\ <<a, i + 1>> \notin Lost /\ <<a, i + 1>> \in Block
    BY <2>1 DEF Before, TRead, TGet, WholeArray, LoadedBlock, Block, ReadOnce, Arrays
  <2>3. <<a, i + 1>> \notin got
    BY <2>1, <2>2, NotYet DEF MemoryInv
  <2>4. Held' = Before(a) \cup WholeArray(a, i + 1) /\ Lost' = Lost
    BY <2>1 DEF Row, Held, Lost, Before
  <2>5. WholeArray(a, i + 1) = WholeArray(a, i) \cup {<<a, i + 1>>}
    BY <2>1 DEF WholeArray
  <2>6. BlocksChanged({<<a, i + 1>>}, {})
    BY <2>1, <2>2, <2>3, <2>4, <2>5 DEF BlocksChanged, MemoryInv, Kinds, Row, Malloc
  <2> QED BY <2>6, BlocksStep DEF MemoryInv
<1>3. PointersInv'
  BY DEF MemoryInv, PointersInv, ReadPointers, GetPointers, Row
<1>4. FailuresInv'
  BY DEF MemoryInv, FailuresInv, Row, Malloc
<1> QED BY <1>1, <1>2, <1>3, <1>4 DEF MemoryInv

\* A row that is not there: its own block is not freed, however often the loop
\* gives it to free(), and that of the array is.
LEMMA RowFailsMemory ==
    ASSUME MemoryInv, NEW a \in ReadRows \cup GetRows, RowFails(a) PROVE MemoryInv'
<1>. USE DEF Loading, Given, Computing, Failed, Working, Going, Ended, ReadRows, GetRows
<1>1. Kinds'
  BY ResamplerAssumption DEF MemoryInv, Kinds, RowFails, Target, AfterNULL, ReturnNULL,
         Pointer
<1>2. BlocksInv'
  <2>1. /\ resamplerPc = a /\ i \in Nat /\ i < tLen /\ tLen \in 1 .. MaxRows
        /\ UNCHANGED tLen /\ MaxRows \in Nat
        /\ Held = Before(a) \cup WholeArray(a, i)
        /\ Lost = (IF a \in ReadRows THEN {} ELSE LoadedBlock)
    BY ResamplerAssumption DEF RowFails, MemoryInv, Kinds, Held, Lost
  <2>2. <<a, i + 1>> \notin Held /\ <<a, i + 1>> \notin Lost /\ <<a, i + 1>> \in Block
    BY <2>1 DEF Before, TRead, TGet, WholeArray, LoadedBlock, Block, ReadOnce, Arrays
  <2>3. <<a, i + 1>> \notin got
    BY <2>1, <2>2, NotYet DEF MemoryInv
  <2>4. \A b \in Block : frees'[b] = frees[b] + IF b \in {<<a, 0>>} THEN 1 ELSE 0
    BY <2>3 DEF RowFails, FreedRows, MemoryInv, Kinds
  <2>5. <<a, 0>> \in Held /\ <<a, 0>> \in Block
    BY <2>1 DEF WholeArray, Block, Arrays
  <2>6. Held' = (IF a \in ReadRows THEN {} ELSE Before(a)) /\ LoadedBlock \subseteq Lost'
    BY <2>1 DEF RowFails, ReturnNULL, AfterNULL, Held, Lost, Before, LoadedBlock,
           ReadOnce
  <2>7. <<a, 0>> \notin Before(a)
    BY DEF Before, TRead, TGet, WholeArray
  <2>8. IF a \in ReadRows THEN Before(a) \cup WholeArray(a, i) \subseteq LoadedBlock
        ELSE WholeArray(a, i) \subseteq Lost'
    BY <2>1 DEF RowFails, ReturnNULL, AfterNULL, Before, TRead, WholeArray, LoadedBlock,
           Block, ReadOnce, Arrays, Lost
  <2>9. Live(<<a, 0>>)
    BY <2>5 DEF MemoryInv, BlocksInv
  <2>10. <<a, 0>> \in Lost'
    BY <2>1, <2>5 DEF WholeArray, RowFails, ReturnNULL, AfterNULL, LoadedBlock, Lost
  <2>11. BlocksChanged({}, {<<a, 0>>})
    BY <2>1, <2>4, <2>5, <2>6, <2>7, <2>8, <2>9, <2>10
       DEF BlocksChanged, RowFails, ReturnNULL, AfterNULL
  <2> QED BY <2>11, BlocksStep DEF MemoryInv
<1>3. PointersInv'
  BY DEF MemoryInv, PointersInv, GetPointers, RowFails, Target, AfterNULL, ReturnNULL
<1>4. FailuresInv'
  <2>1. a \in ReadRows => <<a, i + 1>> \in LoadedBlock
    BY ResamplerAssumption DEF RowFails, MemoryInv, Kinds, LoadedBlock, Block, Arrays
  <2>2. ~ written' /\ failedMallocs \subseteq LoadedBlock
    BY DEF MemoryInv, FailuresInv, RowFails
  <2>3. failedMallocs' = failedMallocs \cup {<<a, i + 1>>}
    BY DEF RowFails, MayFail
  <2>4. CASE a \in ReadRows
    BY <2>1, <2>2, <2>3, <2>4 DEF FailuresInv
  <2>5. CASE a \in GetRows
    <3>1. resamplerPc' \in Failed
      BY <2>5 DEF RowFails, ReturnNULL, AfterNULL
    <3> QED BY <2>2, <3>1 DEF FailuresInv
  <2> QED BY <2>4, <2>5
<1> QED BY <1>1, <1>2, <1>3, <1>4 DEF MemoryInv

\* A row is cleared before it is tested.
LEMMA RowClearedMemory ==
    ASSUME MemoryInv, NEW a \in ReadRows \cup GetRows, RowCleared(a) PROVE MemoryInv'
<1>. USE DEF Loading, Given, Computing, Failed, Working, Going, Ended, ReadRows, GetRows
<1>1. Kinds'
  BY ResamplerAssumption DEF MemoryInv, Kinds, RowCleared
<1>2. BlocksInv'
  <2>1. Held' = {} /\ Lost' = Block
    BY DEF RowCleared, Held, Lost
  <2>2. got' = got \cup {} /\ UNCHANGED frees /\ resamplerPc' \notin Going
    BY DEF RowCleared, MayFail
  <2>3. Held \subseteq Block /\ Lost \subseteq Block
    BY DEF MemoryInv, Kinds, BlocksInv, Live, Lost, LoadedBlock
  <2>4. BlocksChanged({}, {})
    BY <2>1, <2>2, <2>3 DEF BlocksChanged, MemoryInv, Kinds
  <2> QED BY <2>4, BlocksStep DEF MemoryInv
<1>3. PointersInv'
  BY DEF PointersInv, RowCleared
<1>4. FailuresInv'
  BY DEF MemoryInv, FailuresInv, RowCleared
<1> QED BY <1>1, <1>2, <1>3, <1>4 DEF MemoryInv

\* The array is handed over with all its rows.
LEMMA RowsDoneMemory ==
    ASSUME MemoryInv, NEW a \in ReadRows \cup GetRows, RowsDone(a) PROVE MemoryInv'
<1>. USE DEF Loading, Given, Computing, Failed, Working, Going, Ended, ReadRows, GetRows
<1>1. Kinds'
  BY ResamplerAssumption DEF MemoryInv, Kinds, RowsDone, Target, AfterRows, Block,
         Arrays, Pointer
<1>2. BlocksInv'
  <2>1. /\ resamplerPc = a /\ i = tLen /\ resamplerPc' = AfterRows[a]
        /\ UNCHANGED <<tLen, got, frees>>
        /\ Held = Before(a) \cup WholeArray(a, tLen)
        /\ Lost = (IF a \in ReadRows THEN {} ELSE LoadedBlock)
    BY DEF RowsDone, Held, Lost
  <2>2. FromCache' <=> a \in ReadRows
    BY <2>1 DEF RowsDone, Target, FromCache, MemoryInv, PointersInv, ReadPointers,
           GetPointers
  <2>3. Held' = Held
    <3>1. CASE a = "starRead" \/ a = "starGet"
      <4>1. Held' = (IF a = "starRead" THEN Before("platRead")' ELSE Before("platGet")')
        BY <2>1, <3>1 DEF AfterRows, Held
      <4>2. CASE a = "starRead"
        BY <2>1, <4>1, <4>2 DEF Before, WholeArray
      <4>3. CASE a = "starGet"
        BY <2>1, <4>1, <4>3 DEF Before, WholeArray
      <4> QED BY <3>1, <4>2, <4>3
    <3>2. CASE a = "platRead" \/ a = "platGet"
      <4>1. Held' = Analysis'
        BY <2>1, <3>2 DEF AfterRows, Held
      <4>2. Analysis' = Before(a) \cup WholeArray(a, tLen)
        BY <2>1, <2>2, <3>2 DEF Analysis, Loaded, Computed, Before, WholeArray
      <4> QED BY <2>1, <4>1, <4>2
    <3> QED BY <3>1, <3>2
  <2>4. Lost' = Lost
    BY <2>1, <2>2 DEF AfterRows, Lost
  <2>5. got' = got \cup {}
    BY <2>1
  <2>6. BlocksChanged({}, {})
    BY <2>1, <2>3, <2>4, <2>5 DEF BlocksChanged, MemoryInv, Kinds, AfterRows
  <2> QED BY <2>6, BlocksStep DEF MemoryInv
<1>3. PointersInv'
  BY DEF MemoryInv, Kinds, PointersInv, ReadPointers, GetPointers, FromCache, RowsDone,
         Target, AfterRows, Pointer
<1>4. FailuresInv'
  BY DEF MemoryInv, FailuresInv, RowsDone
<1> QED BY <1>1, <1>2, <1>3, <1>4 DEF MemoryInv

\* The wav is read, or main() returns.
LEMMA WavreadMemory ==
    ASSUME MemoryInv, Wavread PROVE MemoryInv'
<1>. USE DEF Loading, Given, Computing, Failed, Working, Going, Ended, ReadRows, GetRows
<1>1. Kinds'
  BY ResamplerAssumption DEF MemoryInv, Kinds, Wavread, Malloc, Exit, Block, GetOnce
<1>2. BlocksInv'
  <2>1. /\ resamplerPc = "wavread" /\ UNCHANGED frees /\ Held = {} /\ Lost = LoadedBlock
    BY DEF Wavread, Held, Lost
  <2>2. CASE resamplerPc' = "getDIO"
    <3>1. got' = got \cup {<<"x", 0>>} /\ Held' = {<<"x", 0>>} /\ Lost' = LoadedBlock
      BY <2>2 DEF Wavread, Exit, Malloc, Held, Lost
    <3>2. <<"x", 0>> \in Block /\ <<"x", 0>> \notin LoadedBlock
      BY DEF Block, GetOnce, LoadedBlock, ReadOnce
    <3>3. <<"x", 0>> \notin got
      BY <2>1, <3>2, NotYet DEF MemoryInv
    <3>4. BlocksChanged({<<"x", 0>>}, {})
      BY <2>1, <2>2, <3>1, <3>2, <3>3 DEF BlocksChanged, MemoryInv, Kinds
    <3> QED BY <3>4, BlocksStep DEF MemoryInv
  <2>3. CASE resamplerPc' = "exit"
    <3>1. got' = got \cup {} /\ Held' = {} /\ LoadedBlock \subseteq Lost'
      BY <2>3 DEF Wavread, Malloc, Held, Lost, LoadedBlock, ReadOnce
    <3>2. BlocksChanged({}, {})
      BY <2>1, <2>3, <3>1 DEF BlocksChanged, MemoryInv, Kinds
    <3> QED BY <3>2, BlocksStep DEF MemoryInv
  <2> QED BY <2>2, <2>3 DEF Wavread, Exit
<1>3. PointersInv'
  BY DEF MemoryInv, Kinds, PointersInv, Wavread, Exit, Pointer
<1>4. FailuresInv'
  BY DEF MemoryInv, FailuresInv, Wavread, Malloc, Exit
<1> QED BY <1>1, <1>2, <1>3, <1>4 DEF MemoryInv

\* An analysis by DIO that fails frees what it has, and main() the wav.
LEMMA GetDIOMemory ==
    ASSUME MemoryInv, GetDIO PROVE MemoryInv'
<1>. USE DEF Loading, Given, Computing, Failed, Working, Going, Ended, ReadRows, GetRows
<1>1. Kinds'
  BY ResamplerAssumption DEF MemoryInv, Kinds, GetDIO, Malloc, Free, Exit, Block,
         GetOnce
<1>2. BlocksInv'
  <2>1. /\ resamplerPc = "getDIO" /\ Held = {<<"x", 0>>} /\ Lost = LoadedBlock
        /\ ptr["x"] = <<"x", 0>>
    BY DEF GetDIO, Held, Lost, MemoryInv, PointersInv
  <2>2. /\ \A b \in TGet : b \in Block
        /\ \A b \in {<<"tGet", 0>>, <<"f0Get", 0>>} : b \notin Held /\ b \notin Lost
    BY <2>1 DEF TGet, Block, GetOnce, LoadedBlock, ReadOnce
  <2>3. \A b \in {<<"tGet", 0>>, <<"f0Get", 0>>} : b \notin got
    BY <2>1, <2>2, NotYet DEF MemoryInv
  <2>4. CASE resamplerPc' = "starGet0"
    <3>1. got' = got \cup {<<"tGet", 0>>, <<"f0Get", 0>>} /\ UNCHANGED frees
      BY <2>4 DEF GetDIO, Exit, Malloc
    <3>2. Held' = TGet /\ Lost' = LoadedBlock
      BY <2>4 DEF Held, Lost, Before
    <3>3. BlocksChanged({<<"tGet", 0>>, <<"f0Get", 0>>}, {})
      BY <2>1, <2>2, <2>3, <2>4, <3>1, <3>2 DEF BlocksChanged, MemoryInv, Kinds, TGet
    <3> QED BY <3>3, BlocksStep DEF MemoryInv
  <2>5. CASE resamplerPc' = "exit"
    <3>1. PICK b \in {<<"tGet", 0>>, <<"f0Get", 0>>} :
              /\ got' = got \cup ({<<"tGet", 0>>, <<"f0Get", 0>>} \ {b})
              /\ Free(({<<"tGet", 0>>, <<"f0Get", 0>>} \ {b}) \cup {ptr["x"]})
      BY <2>5 DEF GetDIO
    <3>2. Held' = {} /\ \A c \in LoadedBlock : c \in Lost'
      BY <2>5 DEF Held, Lost, LoadedBlock, ReadOnce
    <3>3. Live(<<"x", 0>>)
      BY <2>1 DEF MemoryInv, BlocksInv
    <3>4. BlocksChanged({<<"tGet", 0>>, <<"f0Get", 0>>} \ {b},
                  ({<<"tGet", 0>>, <<"f0Get", 0>>} \ {b}) \cup {<<"x", 0>>})
      BY <2>1, <2>2, <2>3, <2>5, <3>1, <3>2, <3>3 DEF BlocksChanged, Free, TGet
    <3> QED BY <3>4, BlocksStep DEF MemoryInv
  <2> QED BY <2>4, <2>5 DEF GetDIO, Exit
<1>3. PointersInv'
  BY DEF MemoryInv, Kinds, PointersInv, GetPointers, GetDIO, Exit, Pointer
<1>4. FailuresInv'
  BY DEF MemoryInv, FailuresInv, GetDIO, Malloc, Exit
<1> QED BY <1>1, <1>2, <1>3, <1>4 DEF MemoryInv

\* The exits after a failed analysis free what main() knows of, and the wav.
LEMMA FailedMemory ==
    ASSUME MemoryInv, StarFailed \/ PlatFailed PROVE MemoryInv'
<1>. USE DEF Loading, Given, Computing, Failed, Working, Going, Ended, ReadRows, GetRows
<1>1. Kinds'
  BY ResamplerAssumption DEF MemoryInv, Kinds, StarFailed, PlatFailed, Free, Exit
<1>2. BlocksInv'
  <2>1. PICK T \in SUBSET Block :
            /\ T = {<<"x", 0>>, <<"tGet", 0>>, <<"f0Get", 0>>}
                      \cup IF StarFailed THEN {} ELSE {<<"starGet", 0>>}
            /\ T \subseteq Held
            /\ \A b \in Block : frees'[b] = frees[b] + IF b \in T THEN 1 ELSE 0
    <3>1. CASE StarFailed
      <4>. DEFINE F == {<<"x", 0>>, <<"tGet", 0>>, <<"f0Get", 0>>}
      <4>1. F \subseteq Held /\ F \in SUBSET Block
        BY <3>1 DEF StarFailed, Held, Before, TGet, Block, GetOnce
      <4>2. \A b \in Block : frees'[b] = frees[b] + IF b \in F THEN 1 ELSE 0
        BY <3>1 DEF StarFailed, Free, MemoryInv, PointersInv, GetPointers
      <4> QED BY <3>1, <4>1, <4>2
    <3>2. CASE ~StarFailed
      <4>. DEFINE F == {<<"x", 0>>, <<"tGet", 0>>, <<"f0Get", 0>>, <<"starGet", 0>>}
      <4>1. F \subseteq Held /\ F \in SUBSET Block
        <5>1. Held = TGet \cup WholeArray("starGet", tLen)
          BY <3>2 DEF PlatFailed, Held, Before
        <5>2. <<"starGet", 0>> \in WholeArray("starGet", tLen)
          BY ResamplerAssumption DEF MemoryInv, Kinds, WholeArray
        <5>3. <<"starGet", 0>> \in Block
          BY ResamplerAssumption DEF Block, Arrays
        <5> QED BY <5>1, <5>2, <5>3 DEF TGet, Block, GetOnce
      <4>2. \A b \in Block : frees'[b] = frees[b] + IF b \in F THEN 1 ELSE 0
        BY <3>2 DEF PlatFailed, Free, MemoryInv, PointersInv, GetPointers
      <4> QED BY <3>2, <4>1, <4>2
    <3> QED BY <3>1, <3>2
  <2>2. Held' = {} /\ Lost' = Block \ {<<"x", 0>>} /\ resamplerPc' = "exit"
    BY DEF StarFailed, PlatFailed, Exit, Held, Lost
  <2>3. got' = got \cup {}
    BY DEF StarFailed, PlatFailed
  <2>4. Held \subseteq Block /\ Lost \subseteq Block
    BY DEF MemoryInv, BlocksInv, Kinds, Live, StarFailed, PlatFailed, Lost
  <2>5. \A b \in Held : Live(b)
    BY DEF MemoryInv, BlocksInv
  <2>6. BlocksChanged({}, T)
    BY <2>1, <2>2, <2>3, <2>4, <2>5 DEF BlocksChanged
  <2> QED BY <2>6, BlocksStep DEF MemoryInv
<1>3. PointersInv'
  BY DEF PointersInv, StarFailed, PlatFailed, Exit
<1>4. FailuresInv'
  BY DEF MemoryInv, FailuresInv, StarFailed, PlatFailed, Exit
<1> QED BY <1>1, <1>2, <1>3, <1>4 DEF MemoryInv

\* Arguments that are accepted change nothing.
LEMMA ArgumentsMemory ==
    ASSUME MemoryInv, Arguments PROVE MemoryInv'
<1>. USE DEF Loading, Given, Computing, Failed, Working, Going, Ended, ReadRows, GetRows
<1>1. Kinds'
  BY ResamplerAssumption DEF MemoryInv, Kinds, Arguments
<1>2. BlocksInv'
  <2>1. Held' = Held /\ Lost' = Lost
    BY DEF Arguments, Held, Lost, Analysis, FromCache, Loaded, Computed
  <2>2. got' = got \cup {} /\ UNCHANGED frees /\ resamplerPc = "arguments"
    BY DEF Arguments
  <2>3. BlocksChanged({}, {})
    BY <2>1, <2>2 DEF BlocksChanged, MemoryInv, Kinds
  <2> QED BY <2>3, BlocksStep DEF MemoryInv
<1>3. PointersInv'
  BY DEF MemoryInv, PointersInv, ReadPointers, GetPointers, FromCache, Arguments
<1>4. FailuresInv'
  BY DEF MemoryInv, FailuresInv, Arguments
<1> QED BY <1>1, <1>2, <1>3, <1>4 DEF MemoryInv

\* A note that is refused frees the wav when there is one.
LEMMA BadArgumentsMemory ==
    ASSUME MemoryInv, BadArguments PROVE MemoryInv'
<1>. USE DEF Loading, Given, Computing, Failed, Working, Going, Ended, ReadRows, GetRows
<1>1. Kinds'
  BY ResamplerAssumption DEF MemoryInv, Kinds, BadArguments, Free, Exit, Pointer
<1>2. BlocksInv'
  <2>1. Held' = {} /\ Lost' = Block \ {<<"x", 0>>} /\ resamplerPc' = "exit"
    BY DEF BadArguments, Exit, Held, Lost
  <2>2. Held = Analysis /\ Lost \subseteq LoadedBlock
    BY DEF BadArguments, Held, Lost
  <2>3. got' = got \cup {}
    BY DEF BadArguments
  <2>4. Held \subseteq Block /\ Lost \subseteq Block /\ <<"x", 0>> \notin Lost
    BY <2>2 DEF MemoryInv, BlocksInv, Kinds, Live, LoadedBlock, ReadOnce
  <2>5. CASE FromCache
    <3>1. \A b \in Block : frees'[b] = frees[b] + IF b \in {} THEN 1 ELSE 0
      BY <2>5 DEF BadArguments, Free, MemoryInv, PointersInv, NULL, Block, ReadOnce,
             GetOnce, OutOnce, Arrays, OutRows
    <3>2. <<"x", 0>> \notin Held
      BY <2>2, <2>5 DEF Analysis, Loaded, TRead, WholeArray
    <3>3. BlocksChanged({}, {})
      BY <2>1, <2>3, <2>4, <3>1, <3>2 DEF BlocksChanged
    <3> QED BY <3>3, BlocksStep DEF MemoryInv
  <2>6. CASE ~FromCache
    <3>1. \A b \in Block : frees'[b] = frees[b] + IF b \in {<<"x", 0>>} THEN 1 ELSE 0
      BY <2>6 DEF BadArguments, Free, MemoryInv, PointersInv
    <3>2. <<"x", 0>> \in Held
      BY <2>2, <2>6 DEF Analysis, Computed, TGet
    <3>3. <<"x", 0>> \in Block /\ Live(<<"x", 0>>)
      BY <2>4, <3>2 DEF MemoryInv, BlocksInv
    <3>4. BlocksChanged({}, {<<"x", 0>>})
      BY <2>1, <2>3, <2>4, <3>1, <3>3 DEF BlocksChanged
    <3> QED BY <3>4, BlocksStep DEF MemoryInv
  <2> QED BY <2>5, <2>6
<1>3. PointersInv'
  BY DEF PointersInv, BadArguments, Exit
<1>4. FailuresInv'
  BY DEF MemoryInv, FailuresInv, BadArguments, Exit
<1> QED BY <1>1, <1>2, <1>3, <1>4 DEF MemoryInv

\* An allocation of the output that fails is not survived.
LEMMA UntestedMemory ==
    ASSUME MemoryInv, Untested PROVE MemoryInv'
<1>. USE DEF Loading, Given, Computing, Failed, Working, Going, Ended, ReadRows, GetRows
<1>1. Kinds'
  BY ResamplerAssumption DEF MemoryInv, Kinds, Untested
<1>2. BlocksInv'
  <2>1. Held' = {} /\ Lost' = Block
    BY DEF Untested, Held, Lost
  <2>2. got' = got \cup {} /\ UNCHANGED frees /\ resamplerPc' \notin Going
    BY DEF Untested, MayFail
  <2>3. Held \subseteq Block /\ Lost \subseteq Block
    BY DEF MemoryInv, Kinds, BlocksInv, Live, Lost, LoadedBlock
  <2>4. BlocksChanged({}, {})
    BY <2>1, <2>2, <2>3 DEF BlocksChanged, MemoryInv, Kinds
  <2> QED BY <2>4, BlocksStep DEF MemoryInv
<1>3. PointersInv'
  BY DEF PointersInv, Untested
<1>4. FailuresInv'
  BY DEF MemoryInv, FailuresInv, Untested
<1> QED BY <1>1, <1>2, <1>3, <1>4 DEF MemoryInv

\* The arrays of the output.
LEMMA OutMemory ==
    ASSUME MemoryInv, Out PROVE MemoryInv'
<1>. USE DEF Loading, Given, Computing, Failed, Working, Going, Ended, ReadRows, GetRows
<1>1. Kinds'
  BY ResamplerAssumption DEF MemoryInv, Kinds, Out, OutBlocks, Malloc, Block, OutOnce,
         Arrays
<1>2. BlocksInv'
  <2>1. Lost \subseteq LoadedBlock /\ Lost' = Lost
    BY DEF Out, Lost, FromCache
  <2>2. Held = Analysis /\ Held' = Analysis \cup OutArrays(0)
    BY DEF Out, Held, Analysis, FromCache, Loaded, Computed
  <2>3. \A b \in {<<"f0out", 0>>, <<"pit", 0>>, <<"specOut", 0>>, <<"resOut", 0>>} : b \in Block
    BY ResamplerAssumption DEF Block, OutOnce, Arrays, OutRows, MemoryInv, Kinds
  <2>4. got' = got \cup {<<"f0out", 0>>, <<"pit", 0>>, <<"specOut", 0>>, <<"resOut", 0>>} /\ UNCHANGED frees
    BY DEF Out, Malloc, OutBlocks, OutRows
  <2>5. Held' = Held \cup {<<"f0out", 0>>, <<"pit", 0>>, <<"specOut", 0>>, <<"resOut", 0>>}
    BY <2>2 DEF OutArrays, OutRows
  <2>6. \A b \in {<<"f0out", 0>>, <<"pit", 0>>, <<"specOut", 0>>, <<"resOut", 0>>} : b \notin Held /\ b \notin Lost
    BY <2>1, <2>2 DEF Analysis, Loaded, Computed, TRead, TGet, WholeArray, LoadedBlock,
           ReadOnce
  <2>7. \A b \in {<<"f0out", 0>>, <<"pit", 0>>, <<"specOut", 0>>, <<"resOut", 0>>} : b \notin got
    BY <2>6, NotYet DEF MemoryInv, Out
  <2>8. BlocksChanged({<<"f0out", 0>>, <<"pit", 0>>, <<"specOut", 0>>, <<"resOut", 0>>}, {})
    BY <2>1, <2>3, <2>4, <2>5, <2>7 DEF BlocksChanged, MemoryInv, Kinds, Out
  <2> QED BY <2>8, BlocksStep DEF MemoryInv
<1>3. PointersInv'
  BY DEF MemoryInv, PointersInv, ReadPointers, GetPointers, FromCache, Out
<1>4. FailuresInv'
  BY DEF MemoryInv, FailuresInv, Out, Malloc
<1> QED BY <1>1, <1>2, <1>3, <1>4 DEF MemoryInv

\* And their rows.
LEMMA OutRowMemory ==
    ASSUME MemoryInv, OutRow PROVE MemoryInv'
<1>. USE DEF Loading, Given, Computing, Failed, Working, Going, Ended, ReadRows, GetRows
<1>1. Kinds'
  BY ResamplerAssumption DEF MemoryInv, Kinds, OutRow, OutBlocks, Malloc, Block, Arrays
<1>2. BlocksInv'
  <2>1. Lost \subseteq LoadedBlock /\ Lost' = Lost
    BY DEF OutRow, Lost, FromCache
  <2>2. Held = Analysis \cup OutArrays(i) /\ Held' = Analysis \cup OutArrays(i + 1)
    BY DEF OutRow, Held, Analysis, FromCache, Loaded, Computed
  <2>3. \A b \in {<<"specOut", i + 1>>, <<"resOut", i + 1>>} : b \in Block
    BY ResamplerAssumption DEF Block, Arrays, OutRows, MemoryInv, Kinds, OutRow
  <2>4. got' = got \cup {<<"specOut", i + 1>>, <<"resOut", i + 1>>} /\ UNCHANGED frees
    BY DEF OutRow, Malloc, OutBlocks, OutRows
  <2>5. Held' = Held \cup {<<"specOut", i + 1>>, <<"resOut", i + 1>>}
    BY <2>2 DEF OutArrays, OutRows, MemoryInv, Kinds, OutRow
  <2>6. \A b \in {<<"specOut", i + 1>>, <<"resOut", i + 1>>} : b \notin Held /\ b \notin Lost
    BY <2>1, <2>2 DEF Analysis, Loaded, Computed, TRead, TGet, WholeArray, OutArrays,
           LoadedBlock, ReadOnce, MemoryInv, Kinds, OutRow
  <2>7. \A b \in {<<"specOut", i + 1>>, <<"resOut", i + 1>>} : b \notin got
    BY <2>6, NotYet DEF MemoryInv, OutRow
  <2>8. BlocksChanged({<<"specOut", i + 1>>, <<"resOut", i + 1>>}, {})
    BY <2>1, <2>3, <2>4, <2>5, <2>7 DEF BlocksChanged, MemoryInv, Kinds, OutRow
  <2> QED BY <2>8, BlocksStep DEF MemoryInv
<1>3. PointersInv'
  BY DEF MemoryInv, PointersInv, ReadPointers, GetPointers, FromCache, OutRow
<1>4. FailuresInv'
  BY DEF MemoryInv, FailuresInv, OutRow, Malloc
<1> QED BY <1>1, <1>2, <1>3, <1>4 DEF MemoryInv

\* The two of the synthesis.
LEMMA WriteOutputMemory ==
    ASSUME MemoryInv, WriteOutput PROVE MemoryInv'
<1>. USE DEF Loading, Given, Computing, Failed, Working, Going, Ended, ReadRows, GetRows
<1>1. Kinds'
  BY ResamplerAssumption DEF MemoryInv, Kinds, WriteOutput, OutBlocks, Malloc, Block,
         OutOnce
<1>2. BlocksInv'
  <2>1. Lost \subseteq LoadedBlock /\ Lost' = Lost
    BY DEF WriteOutput, Lost, FromCache
  <2>2. Held = Analysis \cup OutArrays(oLen) /\ Held' = Analysis \cup OutArrays(oLen) \cup {<<"y", 0>>, <<"output", 0>>}
    BY DEF WriteOutput, Held, Analysis, FromCache, Loaded, Computed
  <2>3. \A b \in {<<"y", 0>>, <<"output", 0>>} : b \in Block
    BY DEF Block, OutOnce, Arrays, OutRows, MemoryInv, Kinds
  <2>4. got' = got \cup {<<"y", 0>>, <<"output", 0>>} /\ UNCHANGED frees
    BY DEF WriteOutput, Malloc, OutBlocks, OutRows
  <2>5. Held' = Held \cup {<<"y", 0>>, <<"output", 0>>}
    BY <2>2 
  <2>6. \A b \in {<<"y", 0>>, <<"output", 0>>} : b \notin Held /\ b \notin Lost
    BY <2>1, <2>2 DEF Analysis, Loaded, Computed, TRead, TGet, WholeArray, OutArrays,
           LoadedBlock, ReadOnce, OutRows
  <2>7. \A b \in {<<"y", 0>>, <<"output", 0>>} : b \notin got
    BY <2>6, NotYet DEF MemoryInv, WriteOutput
  <2>8. BlocksChanged({<<"y", 0>>, <<"output", 0>>}, {})
    BY <2>1, <2>3, <2>4, <2>5, <2>7 DEF BlocksChanged, MemoryInv, Kinds, WriteOutput
  <2> QED BY <2>8, BlocksStep DEF MemoryInv
<1>3. PointersInv'
  BY DEF MemoryInv, PointersInv, ReadPointers, GetPointers, FromCache, WriteOutput
<1>4. FailuresInv'
  BY DEF MemoryInv, FailuresInv, WriteOutput, Malloc
<1> QED BY <1>1, <1>2, <1>3, <1>4 DEF MemoryInv

\* At the end, all that is held is freed.
LEMMA ReleaseMemory ==
    ASSUME MemoryInv, Release PROVE MemoryInv'
<1>. USE DEF Loading, Given, Computing, Failed, Working, Going, Ended, ReadRows, GetRows
<1>1. Kinds'
  BY ResamplerAssumption DEF MemoryInv, Kinds, Release, Free
<1>2. BlocksInv'
  <2>1. Held' = {} /\ Lost' = Lost /\ resamplerPc' \notin Going
    BY DEF Release, Held, Lost, FromCache
  <2>2. Held = Analysis \cup OutArrays(oLen) \cup {<<"y", 0>>, <<"output", 0>>}
    BY DEF Release, Held
  <2>3. \A b \in Held : b \in Block /\ Live(b)
    BY DEF MemoryInv, BlocksInv, Kinds, Live
  <2>4. \A b \in Block :
            b \in {ptr["x"], ptr["t"], ptr["f0"]} \cup {<<s, 0>> : s \in OutOnce}
                    \cup WholeArray(ptr["specgram"][1], tLen)
                    \cup WholeArray(ptr["residualSpecgram"][1], tLen)
                    \cup UNION {WholeArray(a, oLen) : a \in OutRows}
              <=> b \in Held
    <3>. TAKE b \in Block
    <3>1. b \in UNION {WholeArray(a, oLen) : a \in OutRows} <=> b \in OutRows \X (0 .. oLen)
      BY DEF WholeArray, OutRows
    <3>2. b # NULL
      BY DEF NULL, Block, ReadOnce, GetOnce, OutOnce, Arrays, OutRows
    <3>3. CASE FromCache
      <4>1. /\ ptr["x"] = NULL /\ ReadPointers /\ ptr["specgram"] = <<"starRead", 0>>
            /\ ptr["residualSpecgram"] = <<"platRead", 0>>
        BY <3>3 DEF MemoryInv, PointersInv, Release, FromCache, GetPointers
      <4> QED BY <2>2, <3>1, <3>2, <3>3, <4>1
              DEF Analysis, Loaded, TRead, ReadPointers, OutArrays, OutOnce
    <3>4. CASE ~FromCache
      <4>1. /\ ptr["x"] = <<"x", 0>> /\ GetPointers /\ ptr["specgram"] = <<"starGet", 0>>
            /\ ptr["residualSpecgram"] = <<"platGet", 0>>
        BY <3>4 DEF MemoryInv, PointersInv, Release, FromCache, ReadPointers
      <4> QED BY <2>2, <3>1, <3>4, <4>1
              DEF Analysis, Computed, TGet, GetPointers, OutArrays, OutOnce
    <3> QED BY <3>3, <3>4
  <2>5. \A b \in Block : frees'[b] = frees[b] + IF b \in Held THEN 1 ELSE 0
    BY <2>4 DEF Release, Free
  <2>6. got' = got \cup {}
    BY DEF Release
  <2>7. BlocksChanged({}, Held)
    BY <2>1, <2>3, <2>5, <2>6 DEF BlocksChanged
  <2> QED BY <2>7, BlocksStep DEF MemoryInv
<1>3. PointersInv'
  BY DEF PointersInv, Release
<1>4. FailuresInv'
  BY DEF MemoryInv, FailuresInv, Release
<1> QED BY <1>1, <1>2, <1>3, <1>4 DEF MemoryInv

LEMMA MemoryInit == ResamplerInit => MemoryInv
<1>. SUFFICES ASSUME ResamplerInit PROVE MemoryInv
  OBVIOUS
<1>. USE DEF Loading, Given, Computing, Failed, Working, Going, Ended, ReadRows, GetRows
<1>1. Kinds
  BY ResamplerAssumption DEF ResamplerInit, Kinds, Block
<1>2. BlocksInv
  BY DEF ResamplerInit, BlocksInv, Held, Live
<1>3. PointersInv /\ FailuresInv
  BY DEF ResamplerInit, PointersInv, FailuresInv, NULL, Pointer
<1> QED BY <1>1, <1>2, <1>3 DEF MemoryInv

LEMMA MemoryStep == MemoryInv /\ [ResamplerNext]_resamplerVars => MemoryInv'
<1>. SUFFICES ASSUME MemoryInv, [ResamplerNext]_resamplerVars PROVE MemoryInv'
  OBVIOUS
<1>1. ASSUME NEW a \in ReadRows \cup GetRows,
             Array(a) \/ Row(a) \/ RowFails(a) \/ RowCleared(a) \/ RowsDone(a)
      PROVE  MemoryInv'
  BY <1>1, ArrayMemory, RowMemory, RowFailsMemory, RowClearedMemory, RowsDoneMemory
<1>2. CASE ReadDIO \/ GiveUpLoad \/ Wavread \/ GetDIO
  BY <1>2, ReadDIOMemory, GiveUpMemory, WavreadMemory, GetDIOMemory
<1>3. CASE StarFailed \/ PlatFailed \/ Arguments \/ BadArguments \/ Untested
  BY <1>3, FailedMemory, ArgumentsMemory, BadArgumentsMemory, UntestedMemory
<1>4. CASE Out \/ OutRow \/ WriteOutput \/ Release
  BY <1>4, OutMemory, OutRowMemory, WriteOutputMemory, ReleaseMemory
<1>5. CASE UNCHANGED resamplerVars
  <2>1. Kinds' /\ PointersInv' /\ FailuresInv'
    BY <1>5 DEF resamplerVars, MemoryInv, Kinds, PointersInv, ReadPointers, GetPointers,
           FromCache, FailuresInv
  <2>2. Held' = Held /\ Lost' = Lost
    BY <1>5 DEF resamplerVars, Held, Lost, Before, FromCache
  <2>3. BlocksInv'
    BY <1>5, <2>2 DEF resamplerVars, MemoryInv, BlocksInv, Live
  <2> QED BY <2>1, <2>3 DEF MemoryInv
<1> QED BY <1>1, <1>2, <1>3, <1>4, <1>5 DEF ResamplerNext, ResamplerEnded

LEMMA MemoryIsSound == MemoryInv => MemorySound
<1>. SUFFICES ASSUME MemoryInv PROVE MemorySound
  OBVIOUS
<1>1. FreedOnce
  BY DEF MemoryInv, BlocksInv, FreedOnce
<1>2. OneOrigin
  <2>. SUFFICES ASSUME Ready PROVE
         /\ {ptr["t"][1], ptr["f0"][1], ptr["specgram"][1], ptr["residualSpecgram"][1]}
              \in {ReadOnce \cup ReadRows, {"tGet", "f0Get"} \cup GetRows}
         /\ \A p \in {"t", "f0"} : Live(ptr[p])
         /\ \A p \in {"specgram", "residualSpecgram"} :
              \A k \in 0 .. tLen : Live(<<ptr[p][1], k>>)
    BY DEF OneOrigin
  <2>1. Analysis \subseteq Held /\ \A b \in Analysis : Live(b)
    BY DEF MemoryInv, BlocksInv, Ready, Held
  <2>2. CASE FromCache
    <3>1. /\ ReadPointers /\ ptr["specgram"] = <<"starRead", 0>>
          /\ ptr["residualSpecgram"] = <<"platRead", 0>>
      BY <2>2 DEF MemoryInv, PointersInv, Ready, Working, FromCache, GetPointers
    <3>2. \A k \in 0 .. tLen : Live(<<"starRead", k>>) /\ Live(<<"platRead", k>>)
      BY <2>1, <2>2 DEF Analysis, Loaded, WholeArray
    <3>3. Live(<<"tRead", 0>>) /\ Live(<<"f0Read", 0>>)
      BY <2>1, <2>2 DEF Analysis, Loaded, TRead
    <3>4. /\ ptr["t"][1] = "tRead" /\ ptr["f0"][1] = "f0Read"
          /\ ptr["specgram"][1] = "starRead" /\ ptr["residualSpecgram"][1] = "platRead"
      BY <3>1 DEF ReadPointers
    <3>5. {ptr["t"][1], ptr["f0"][1], ptr["specgram"][1], ptr["residualSpecgram"][1]}
            = ReadOnce \cup ReadRows
      BY <3>4 DEF ReadOnce, ReadRows
    <3>6. \A p \in {"specgram", "residualSpecgram"} :
            \A k \in 0 .. tLen : Live(<<ptr[p][1], k>>)
      BY <3>2, <3>4
    <3>7. \A p \in {"t", "f0"} : Live(ptr[p])
      BY <3>1, <3>3 DEF ReadPointers
    <3> QED BY <3>5, <3>6, <3>7
  <2>3. CASE ~FromCache
    <3>1. /\ GetPointers /\ ptr["specgram"] = <<"starGet", 0>>
          /\ ptr["residualSpecgram"] = <<"platGet", 0>>
      BY <2>3 DEF MemoryInv, PointersInv, Ready, Working, FromCache, ReadPointers
    <3>2. \A k \in 0 .. tLen : Live(<<"starGet", k>>) /\ Live(<<"platGet", k>>)
      BY <2>1, <2>3 DEF Analysis, Computed, WholeArray
    <3>3. Live(<<"tGet", 0>>) /\ Live(<<"f0Get", 0>>)
      BY <2>1, <2>3 DEF Analysis, Computed, TGet
    <3>4. /\ ptr["t"][1] = "tGet" /\ ptr["f0"][1] = "f0Get"
          /\ ptr["specgram"][1] = "starGet" /\ ptr["residualSpecgram"][1] = "platGet"
      BY <3>1 DEF GetPointers
    <3>5. {ptr["t"][1], ptr["f0"][1], ptr["specgram"][1], ptr["residualSpecgram"][1]}
            = {"tGet", "f0Get"} \cup GetRows
      BY <3>4 DEF GetRows
    <3>6. \A p \in {"specgram", "residualSpecgram"} :
            \A k \in 0 .. tLen : Live(<<ptr[p][1], k>>)
      BY <3>2, <3>4
    <3>7. \A p \in {"t", "f0"} : Live(ptr[p])
      BY <3>1, <3>3 DEF GetPointers
    <3> QED BY <3>5, <3>6, <3>7
  <2> QED BY <2>2, <2>3
<1>3. NothingLeft
  <2>1. resamplerPc = "done" => Held = {} /\ Lost = IF FromCache THEN {} ELSE LoadedBlock
    BY DEF Held, Lost, ReadRows, GetRows, Failed, Given, Computing, Loading
  <2> QED BY <2>1 DEF MemoryInv, BlocksInv, NothingLeft, FromCache
<1>4. WavFreed
  <2>1. resamplerPc \in {"exit", "done"} => <<"x", 0>> \notin Held \cup Lost
    BY DEF Held, Lost, ReadRows, GetRows, LoadedBlock, ReadOnce
  <2>2. <<"x", 0>> \in Block
    BY DEF Block, GetOnce
  <2> QED BY <2>1, <2>2 DEF MemoryInv, BlocksInv, WavFreed
<1>5. NeverPassedOver
  BY DEF MemoryInv, FailuresInv, NeverPassedOver, Failed
<1> QED BY <1>1, <1>2, <1>3, <1>4, <1>5 DEF MemorySound

\* main() frees nothing twice and nothing it has not, works with live blocks of one
\* origin, and leaves over no more than a load that was given up: for any number
\* of rows, and whichever allocations fail.
THEOREM MemoryStaysSound == ResamplerSpec => []MemorySound
<1>1. ResamplerSpec => []MemoryInv
  BY MemoryInit, MemoryStep, PTL DEF ResamplerSpec
<1> QED BY <1>1, MemoryIsSound, PTL

-----------------------------------------------------------------------------
(* The names and files of the batch tool *)

\* A file of a name is what comes before its last dot, with an extension.
Stem(name) == IF Len(name) > 1 THEN SubSeq(name, 1, Len(name) - 1) ELSE name

Part == STRING \cup Exts

LEMMA StemIsName ==
    ASSUME NEW n \in Originals
    PROVE  n \in Seq(Part) /\ Stem(n) \in Seq(Part) /\ Len(Stem(n)) \in Nat \ {0}
<1>1. n \in Seq(Part) /\ Len(n) \in Nat \ {0}
  <2>1. n \in Seq(STRING) /\ Len(n) > 0
    BY BatchAssumption DEF Originals
  <2>2. n \in Seq(Part)
    BY <2>1, SeqMonotonic DEF Part
  <2> QED BY <2>1, <2>2, LenProperties
<1>2. CASE Len(n) > 1
  <2>1. \A k \in 1 .. Len(n) - 1 : n[k] \in Part
    BY <1>1, ElementOfSeq
  <2>2. SubSeq(n, 1, Len(n) - 1) \in Seq(Part)
        /\ Len(SubSeq(n, 1, Len(n) - 1)) = Len(n) - 1
    BY <1>1, <1>2, <2>1, SubSeqProperties
  <2>3. Stem(n) = SubSeq(n, 1, Len(n) - 1)
    BY <1>2 DEF Stem
  <2> QED BY <1>1, <1>2, <2>2, <2>3
<1>3. CASE ~(Len(n) > 1)
  <2>1. Stem(n) = n
    BY <1>3 DEF Stem
  <2> QED BY <1>1, <2>1
<1> QED BY <1>1, <1>2, <1>3

LEMMA FileOfName ==
    ASSUME NEW n \in Originals, NEW f \in Files(n)
    PROVE  \E ext \in Exts : /\ f = Append(Stem(n), ext) /\ f \in Seq(Part)
                             /\ Len(f) = Len(Stem(n)) + 1 /\ f[Len(f)] = ext
                             /\ f \notin Originals /\ f # <<>>
<1>1. PICK ext \in Exts : f = Append(Stem(n), ext)
  BY DEF Files, makeFilename, Stem
<1>2. ext \in Part
  BY DEF Part
<1>3. Stem(n) \in Seq(Part) /\ Len(Stem(n)) \in Nat
  BY StemIsName
<1>4. /\ f \in Seq(Part) /\ Len(f) = Len(Stem(n)) + 1 /\ f[Len(f)] = ext
  BY <1>1, <1>2, <1>3, AppendProperties
<1>5. f \notin Originals
  BY <1>4, BatchAssumption DEF Originals
<1> QED BY <1>1, <1>3, <1>4, <1>5

\* Two names that have one file in common have the same stem and all files.
LEMMA FilesShared ==
    ASSUME NEW n \in Originals, NEW m \in Originals, NEW f \in Files(n), f \in Files(m)
    PROVE  Stem(n) = Stem(m) /\ Files(n) = Files(m)
<1>1. PICK en \in Exts : f = Append(Stem(n), en)
  BY FileOfName
<1>2. PICK em \in Exts : f = Append(Stem(m), em)
  BY FileOfName
<1>3. PICK s \in Seq(Part), t \in Seq(Part) : s = Stem(n) /\ t = Stem(m)
  BY StemIsName
<1>4. s = t
  <2>1. en \in Part /\ em \in Part
    BY DEF Part
  <2>2. Append(s, en) = Append(t, em)
    BY <1>1, <1>2, <1>3
  <2>3. Append(s, en) = Append(t, em) <=> s = t /\ en = em
    <3>. HIDE DEF Part
    <3> QED BY <2>1, AppendInjective
  <2> QED BY <2>2, <2>3
<1>5. Stem(n) = Stem(m)
  BY <1>3, <1>4
<1> QED BY <1>5 DEF Files, makeFilename, Stem

-----------------------------------------------------------------------------
\* A file the walk has made is of the listed wav it was made from, every listed
\* wav that has been returned and dealt with is served, and the files of one that
\* shares its name with no other are not mixed.
Unmixed(n) ==
    \A f \in Files(n) \cap DOMAIN madeFrom : madeFrom[f] = n =>
        \A g \in Files(n) : g \in failed \/ (g \in dir /\ madeFrom[g] = n)

MadeInv ==
    /\ Originals \subseteq found /\ found \subseteq dir /\ DOMAIN madeFrom = dir \ Originals
    /\ \A f \in dir \ Originals : f[Len(f)] \in Exts
    /\ \A f \in DOMAIN madeFrom :
          \/ madeFrom[f] \in Earlier \cup {Unfit}
          \/ madeFrom[f] \in Listed /\ f \in Files(madeFrom[f])
    /\ entry # <<>> => entry \in dir /\ Lists(entry)
    /\ ended => found \subseteq returned /\ entry = <<>>
    /\ \A n \in Listed \cap returned : n = entry \/ Served(n)
    /\ \A n \in Listed : Unshared(n) => Unmixed(n)

LEMMA MadeInit == BatchInit => MadeInv
<1>. SUFFICES ASSUME BatchInit PROVE MadeInv
  OBVIOUS
<1>1. PICK old \in SUBSET Old :
          dir = Originals \cup old /\ madeFrom \in [old -> Earlier \cup {Unfit}]
  BY DEF BatchInit
<1>2. old \cap Originals = {} /\ \A f \in old : f[Len(f)] \in Exts
  BY BatchAssumption DEF Originals
<1>3. DOMAIN madeFrom = old /\ \A f \in old : madeFrom[f] \in Earlier \cup {Unfit}
  BY <1>1
<1>4. DOMAIN madeFrom = dir \ Originals /\ \A f \in dir \ Originals : f[Len(f)] \in Exts
  BY <1>1, <1>2, <1>3
<1>5. \A n \in Listed : Unmixed(n)
  <2>1. \A n \in Listed : n \notin Earlier \cup {Unfit}
    BY BatchAssumption DEF Listed
  <2> QED BY <1>3, <2>1 DEF Unmixed
<1> QED BY <1>1, <1>3, <1>4, <1>5 DEF BatchInit, MadeInv

LEMMA NamesAreNot ==
    \A n \in Listed : n \in Originals /\ n \in Wavs /\ n # <<>> /\ Lists(n) /\ n \in Seq(Part)
                      /\ Len(n) > 1 /\ Stem(n) = SubSeq(n, 1, Len(n) - 1)
<1>. TAKE n \in Listed
<1>1. n \in Wavs /\ n \in Originals /\ Lists(n)
  BY DEF Listed, Originals, Lists
<1>2. n \in Seq(Part) /\ Len(n) \in Nat \ {0}
  BY <1>1, StemIsName, LenProperties, BatchAssumption DEF Originals
<1>3. Len(n) > 1
  BY <1>1, <1>2 DEF Lists
<1> QED BY <1>1, <1>2, <1>3 DEF Stem

\* Of two wavs that do not share the name no file is the same.
LEMMA FilesApart ==
    ASSUME NEW n \in Listed, NEW m \in Listed, n # m, Unshared(n), NEW f \in Files(n)
    PROVE  f \notin Files(m)
<1>1. SUFFICES ASSUME f \in Files(m) PROVE FALSE
  OBVIOUS
<1>2. Stem(n) = Stem(m)
  BY <1>1, NamesAreNot, FilesShared
<1>3. SubSeq(m, 1, Len(m) - 1) = SubSeq(n, 1, Len(n) - 1)
  BY <1>2, NamesAreNot
<1>4. SubSeq(m, 1, Len(m) - 1) # SubSeq(n, 1, Len(n) - 1)
  BY DEF Unshared
<1> QED BY <1>3, <1>4

\* What WriteParams does to the files.
LEMMA Written ==
    ASSUME MadeInv, NEW lost \in SUBSET Files(entry), entry \in Wavs, entry # <<>>,
           WriteParams(lost)
    PROVE  MadeInv'
<1>1. entry \in Listed /\ entry \in Originals /\ entry # Unfit
  BY BatchAssumption DEF MadeInv, Listed, Lists, Originals
<1>2. \A f \in Files(entry) : f \notin Originals /\ f[Len(f)] \in Exts
  BY <1>1, FileOfName
<1>3. dir' = dir \cup (Files(entry) \ lost) /\ failed' = failed \cup lost /\ found' = found
      /\ returned' = returned /\ entry' = <<>> /\ ended' = ended
  BY DEF WriteParams
<1>4. DOMAIN madeFrom' = DOMAIN madeFrom \cup (Files(entry) \ lost)
      /\ \A f \in DOMAIN madeFrom' :
            madeFrom'[f] = IF f \in Files(entry) \ lost THEN entry ELSE madeFrom[f]
  BY DEF WriteParams
<1>5. Originals \subseteq found' /\ found' \subseteq dir' /\ DOMAIN madeFrom' = dir' \ Originals
      /\ \A f \in dir' \ Originals : f[Len(f)] \in Exts
  BY <1>2, <1>3, <1>4 DEF MadeInv
<1>6. \A f \in DOMAIN madeFrom' :
          \/ madeFrom'[f] \in Earlier \cup {Unfit}
          \/ madeFrom'[f] \in Listed /\ f \in Files(madeFrom'[f])
  BY <1>1, <1>4 DEF MadeInv
<1>7. \A f \in Files(entry) : f \in failed' \/ (f \in dir' /\ madeFrom'[f] = entry)
  <2>. TAKE f \in Files(entry)
  <2>1. CASE f \in lost
    BY <1>3, <2>1
  <2>2. CASE f \notin lost
    <3>1. f \in DOMAIN madeFrom' /\ f \in dir'
      BY <1>3, <1>4, <2>2
    <3> QED BY <1>4, <2>2, <3>1
  <2> QED BY <2>1, <2>2
<1>8. \A n \in Originals : \A f \in Files(n) : f \in dir => f \in DOMAIN madeFrom
  BY FileOfName DEF MadeInv
<1>9. \A n \in Listed \cap returned : Served(n)'
  <2>. TAKE n \in Listed \cap returned
  <2>1. \A f \in Files(n) : f \in failed' \/ (f \in dir' /\ madeFrom'[f] # Unfit)
    <3>. TAKE f \in Files(n)
    <3>1. CASE f \in Files(entry)
      BY <1>1, <1>7, <3>1
    <3>2. CASE f \notin Files(entry)
      <4>1. n # entry
        BY <3>2
      <4>2. f \in failed \/ (f \in dir /\ madeFrom[f] # Unfit)
        BY <4>1 DEF MadeInv, Served
      <4>3. f \in dir => f \in DOMAIN madeFrom
        BY <1>8, NamesAreNot
      <4> QED BY <1>3, <1>4, <3>2, <4>2, <4>3
    <3> QED BY <3>1, <3>2
  <2> QED BY <2>1 DEF Served
<1>10. ASSUME NEW n \in Listed, Unshared(n) PROVE Unmixed(n)'
  <2>1. CASE n = entry
    BY <1>7, <2>1 DEF Unmixed
  <2>2. CASE n # entry
    <3>1. \A f \in Files(n) : f \notin Files(entry)
      BY <1>1, <1>10, <2>2, FilesApart
    <3>2. \A f \in Files(n) : f \in dir => f \in DOMAIN madeFrom
      BY <1>8, NamesAreNot
    <3>3. Unmixed(n)
      BY <1>10 DEF MadeInv
    <3>4. ASSUME NEW f \in Files(n) \cap DOMAIN madeFrom', madeFrom'[f] = n, NEW g \in Files(n)
          PROVE  g \in failed' \/ (g \in dir' /\ madeFrom'[g] = n)
      <4>1. f \in DOMAIN madeFrom /\ madeFrom[f] = n
        BY <1>4, <3>1, <3>4
      <4>2. g \in failed \/ (g \in dir /\ madeFrom[g] = n)
        BY <3>3, <4>1 DEF Unmixed
      <4> QED BY <1>3, <1>4, <3>1, <3>2, <4>2
    <3> QED BY <3>4 DEF Unmixed
  <2> QED BY <2>1, <2>2
<1>11. \A n \in Listed : Unshared(n)' => Unmixed(n)'
  BY <1>10 DEF Unshared
<1>12. \A n \in Listed \cap returned' : n = entry' \/ Served(n)'
  BY <1>3, <1>9
<1> QED BY <1>3, <1>5, <1>6, <1>11, <1>12 DEF MadeInv

LEMMA MadeStep == MadeInv /\ [BatchNext]_batchVars => MadeInv'
<1>. SUFFICES ASSUME MadeInv, [BatchNext]_batchVars PROVE MadeInv'
  OBVIOUS
<1>1. CASE Readdir
  <2>1. PICK n \in dir \ returned :
            returned' = returned \cup {n} /\ entry' = IF Lists(n) THEN n ELSE <<>>
    BY <1>1 DEF Readdir
  <2>2. UNCHANGED <<dir, found, madeFrom, failed, ended>> /\ ~ended /\ entry = <<>>
    BY <1>1 DEF Readdir
  <2>3. \A m \in Listed \cap returned' : m = entry' \/ Served(m)'
    <3>. TAKE m \in Listed \cap returned'
    <3>1. CASE m = n
      BY <2>1, <3>1, NamesAreNot
    <3>2. CASE m # n
      <4>1. m \in Listed \cap returned /\ m # <<>>
        BY <2>1, <3>2, NamesAreNot
      <4>2. Served(m)
        BY <2>2, <4>1 DEF MadeInv
      <4> QED BY <2>2, <4>2 DEF Served
    <3> QED BY <3>1, <3>2
  <2>4. entry' # <<>> => entry' \in dir' /\ Lists(entry')
    BY <2>1, <2>2
  <2>5. \A m \in Listed : Unshared(m)' => Unmixed(m)'
    BY <2>2 DEF MadeInv, Unshared, Unmixed
  <2> QED BY <2>2, <2>3, <2>4, <2>5 DEF MadeInv
<1>2. CASE AlreadyProcessed
  <2>1. UNCHANGED <<dir, found, madeFrom, returned, failed, ended>> /\ entry' = <<>> /\ Fit(entry)
    BY <1>2 DEF AlreadyProcessed
  <2>2. \A m \in Listed \cap returned : Served(m)
    BY <2>1 DEF MadeInv, Fit, Served
  <2>3. \A m \in Listed \cap returned' : Served(m)'
    BY <2>1, <2>2 DEF Served
  <2>4. \A m \in Listed : Unshared(m)' => Unmixed(m)'
    BY <2>1 DEF MadeInv, Unshared, Unmixed
  <2> QED BY <2>1, <2>3, <2>4 DEF MadeInv
<1>3. CASE NoWav
  <2>1. UNCHANGED <<dir, found, madeFrom, returned, failed, ended>> /\ entry' = <<>>
        /\ entry \notin Listed
    BY <1>3 DEF NoWav, Listed
  <2>2. \A m \in Listed \cap returned' : Served(m)'
    BY <2>1 DEF MadeInv, Served
  <2>3. \A m \in Listed : Unshared(m)' => Unmixed(m)'
    BY <2>1 DEF MadeInv, Unshared, Unmixed
  <2> QED BY <2>1, <2>2, <2>3 DEF MadeInv
<1>4. CASE GenerateParams
  BY <1>4, Written DEF GenerateParams
<1>5. CASE End
  <2>1. UNCHANGED <<dir, found, madeFrom, returned, failed, entry>> /\ found \subseteq returned
        /\ entry = <<>>
    BY <1>5 DEF End
  <2>2. \A m \in Listed \cap returned' : m = entry' \/ Served(m)'
    BY <2>1 DEF MadeInv, Served
  <2>3. \A m \in Listed : Unshared(m)' => Unmixed(m)'
    BY <2>1 DEF MadeInv, Unshared, Unmixed
  <2> QED BY <2>1, <2>2, <2>3 DEF MadeInv
<1>6. CASE UNCHANGED batchVars
  BY <1>6 DEF batchVars, MadeInv, Served, Unshared, Unmixed
<1> QED BY <1>1, <1>2, <1>3, <1>4, <1>5, <1>6 DEF BatchNext, BatchEnded

LEMMA MadeServes == MadeInv => EveryWavServed /\ OwnFiles
<1>. SUFFICES ASSUME MadeInv PROVE EveryWavServed /\ OwnFiles
  OBVIOUS
<1>1. EveryWavServed
  <2>1. \A n \in Listed : ended => n \in returned /\ n # entry
    BY NamesAreNot DEF MadeInv
  <2> QED BY <2>1 DEF MadeInv, EveryWavServed
<1>2. ASSUME NEW n \in Listed, Unshared(n), NEW f \in Files(n) \cap DOMAIN madeFrom,
             madeFrom[f] \in Wavs
      PROVE  /\ madeFrom[f] = n
             /\ \A g \in Files(n) : g \in failed \/ (g \in dir /\ madeFrom[g] = n)
  <2>1. PICK w \in Listed : w = madeFrom[f] /\ f \in Files(w)
    <3>1. madeFrom[f] \notin Earlier \cup {Unfit}
      BY <1>2, BatchAssumption
    <3> QED BY <3>1 DEF MadeInv
  <2>2. w = n
    BY <1>2, <2>1, FilesApart
  <2>3. Unmixed(n)
    BY <1>2 DEF MadeInv
  <2> QED BY <2>1, <2>2, <2>3 DEF Unmixed
<1> QED BY <1>1, <1>2 DEF OwnFiles

LEMMA MadeOnce ==
    ASSUME MadeInv, [BatchNext]_batchVars, NEW n \in Listed, Fit(n), OfOne(n), NEW f \in Files(n)
    PROVE  madeFrom'[f] = madeFrom[f]
<1>1. CASE GenerateParams
  <2>1. PICK lost \in SUBSET Files(entry) : WriteParams(lost)
    BY <1>1 DEF GenerateParams
  <2>2. entry \in Originals /\ n \in Originals
    BY <1>1, NamesAreNot DEF GenerateParams, Originals
  <2>3. f \notin Files(entry)
    <3>1. SUFFICES ASSUME f \in Files(entry) PROVE FALSE
      OBVIOUS
    <3>2. Files(entry) = Files(n)
      BY <2>2, <3>1, FilesShared
    <3> QED BY <1>1, <3>2 DEF GenerateParams, Fit, OfOne
  <2>4. f \in DOMAIN madeFrom
    <3>1. f \in dir /\ f \notin Originals
      BY <2>2, FileOfName DEF Fit
    <3> QED BY <3>1 DEF MadeInv
  <2> QED BY <2>1, <2>3, <2>4 DEF WriteParams
<1>2. CASE ~GenerateParams
  BY <1>2 DEF BatchNext, Readdir, AlreadyProcessed, NoWav, End, BatchEnded, batchVars
<1> QED BY <1>1, <1>2

\* The walk of the batch tool ends with every listed wav served, makes its files
\* from itself and all of them unless it shares its name, and never replaces three
\* that fit: for every directory in which no wav is named like an analysis file,
\* whatever analysis files are there before, and in every order readdir() may
\* return it.
THEOREM BatchIsSound == BatchSpec => BatchSound
<1>1. BatchSpec => []MadeInv
  BY MadeInit, MadeStep, PTL DEF BatchSpec
<1>2. MadeInv /\ [BatchNext]_batchVars =>
        [\A n \in Listed : Fit(n) /\ OfOne(n) =>
            \A f \in Files(n) : madeFrom'[f] = madeFrom[f]]_batchVars
  BY MadeOnce
<1>3. BatchSpec => FirstStays
  BY <1>1, <1>2, PTL DEF BatchSpec, FirstStays
<1> QED BY <1>1, <1>3, MadeServes, PTL DEF BatchSound

-----------------------------------------------------------------------------
(* The kinds of values in the memory of main() *)

\* What malloc() has not returned is not there, and a load goes on only as long
\* as nothing has failed.
Apart ==
    /\ \A b \in failedMallocs : b \in Block /\ b \notin got
    /\ resamplerPc \in Loading => failedMallocs = {}
CountsInv ==
    /\ files \in [CacheFile -> {"good", "bad"}]
    /\ i \in 0 .. MaxRows /\ written \in BOOLEAN /\ code \in {0, -1}

\* A step in which S is allocated and F is not.
Tried(S, F) ==
    /\ got' = got \cup S
    /\ failedMallocs' = failedMallocs \cup F
    /\ \A b \in S : b \notin failedMallocs /\ b \notin F
    /\ \A b \in F : b \in Block /\ b \notin got
    /\ resamplerPc' \in Loading => resamplerPc \in Loading /\ F = {}

LEMMA TriedApart ==
    ASSUME Apart, NEW S, NEW F, Tried(S, F) PROVE Apart'
BY DEF Apart, Tried

\* Before main() gives up, only blocks of the load have failed.
LEMMA NotFailed ==
    ASSUME MemoryInv, Apart, NEW b, resamplerPc \notin Failed \cup {"exit", "crashed"},
           b \notin LoadedBlock \/ resamplerPc \in Loading
    PROVE  b \notin failedMallocs
BY DEF MemoryInv, FailuresInv, Apart

LEMMA WorkBlocks ==
    /\ \A b \in {<<"tRead", 0>>, <<"f0Read", 0>>} : b \in Block
    /\ \A b \in {<<"x", 0>>, <<"tGet", 0>>, <<"f0Get", 0>>, <<"f0out", 0>>, <<"pit", 0>>,
                 <<"y", 0>>, <<"output", 0>>} : b \in Block /\ b \notin LoadedBlock
<1>1. \A b \in {<<"tRead", 0>>, <<"f0Read", 0>>} : b \in Block
  BY DEF Block, ReadOnce
<1>2. \A b \in {<<"x", 0>>, <<"tGet", 0>>, <<"f0Get", 0>>, <<"f0out", 0>>, <<"pit", 0>>,
                <<"y", 0>>, <<"output", 0>>} : b \in Block /\ b \notin LoadedBlock
  BY DEF Block, GetOnce, OutOnce, LoadedBlock, ReadOnce, ReadRows
<1> QED BY <1>1, <1>2

LEMMA RowBlocks ==
    ASSUME NEW k \in 0 .. MaxRows, NEW s \in Arrays
    PROVE  <<s, k>> \in Block /\ (s \notin ReadRows => <<s, k>> \notin LoadedBlock)
<1>1. <<s, k>> \in Block
  BY DEF Block
<1>2. s \notin ReadOnce
  BY DEF Arrays, ReadRows, GetRows, OutRows, ReadOnce
<1> QED BY <1>1, <1>2 DEF LoadedBlock

LEMMA ReadDIOApart ==
    ASSUME MemoryInv, Apart, ReadDIO PROVE Apart'
<1>1. resamplerPc = "readDIO" /\ got = {} /\ failedMallocs = {}
  BY DEF ReadDIO, MemoryInv, BlocksInv, Held, Lost, Apart, Loading, Given, Computing, Failed,
         Working, Going, Ended, ReadRows, GetRows
<1>2. CASE UNCHANGED <<got, failedMallocs>>
  <2>1. Tried({}, {})
    BY <1>1, <1>2 DEF Tried, Loading
  <2> QED BY <2>1, TriedApart
<1>3. CASE /\ got' = got \cup {<<"tRead", 0>>, <<"f0Read", 0>>}
           /\ failedMallocs' = failedMallocs
  <2>1. Tried({<<"tRead", 0>>, <<"f0Read", 0>>}, {})
    BY <1>1, <1>3 DEF Tried, Loading
  <2> QED BY <2>1, TriedApart
<1>4. ASSUME NEW b \in {<<"tRead", 0>>, <<"f0Read", 0>>}, MayFail(b), resamplerPc' = "wavread",
             got' = got \cup ({<<"tRead", 0>>, <<"f0Read", 0>>} \ {b})
      PROVE  Apart'
  <2>1. Tried({<<"tRead", 0>>, <<"f0Read", 0>>} \ {b}, {b})
    BY <1>1, <1>4, WorkBlocks DEF Tried, Loading, MayFail
  <2> QED BY <2>1, TriedApart
<1> QED BY <1>2, <1>3, <1>4 DEF ReadDIO, Malloc

LEMMA WavreadApart ==
    ASSUME MemoryInv, Apart, Wavread PROVE Apart'
<1>1. /\ resamplerPc = "wavread" /\ Held = {} /\ Lost = LoadedBlock /\ resamplerPc \in Going
      /\ resamplerPc' \notin Loading /\ resamplerPc \notin Failed \cup {"exit", "crashed"}
  BY DEF Wavread, Exit, Held, Lost, Going, Loading, Given, Computing, Failed, ReadRows, GetRows
<1>2. <<"x", 0>> \in Block /\ <<"x", 0>> \notin LoadedBlock
  BY WorkBlocks
<1>3. <<"x", 0>> \notin got /\ <<"x", 0>> \notin failedMallocs
  BY <1>1, <1>2, NotYet, NotFailed DEF MemoryInv
<1>4. \/ Tried({}, {}) \/ Tried({<<"x", 0>>}, {}) \/ Tried({}, {<<"x", 0>>})
  BY <1>1, <1>2, <1>3 DEF Tried, Wavread, Malloc, MayFail
<1> QED BY <1>4, TriedApart

LEMMA GetDIOApart ==
    ASSUME MemoryInv, Apart, GetDIO PROVE Apart'
<1>. DEFINE Both == {<<"tGet", 0>>, <<"f0Get", 0>>}
<1>1. /\ resamplerPc = "getDIO" /\ Held = {<<"x", 0>>} /\ Lost = LoadedBlock
      /\ resamplerPc \in Going /\ resamplerPc' \notin Loading
      /\ resamplerPc \notin Failed \cup {"exit", "crashed"}
  BY DEF GetDIO, Exit, Held, Lost, Going, Loading, Given, Computing, Failed, ReadRows, GetRows
<1>2. \A b \in Both : b \in Block /\ b \notin LoadedBlock /\ b \notin Held
  BY <1>1, WorkBlocks
<1>3. \A b \in Both : b \notin got /\ b \notin failedMallocs
  BY <1>1, <1>2, NotYet, NotFailed DEF MemoryInv
<1>4. CASE Malloc(Both)
  <2>1. Tried(Both, {})
    BY <1>1, <1>2, <1>3, <1>4 DEF Tried, Malloc
  <2> QED BY <2>1, TriedApart
<1>5. ASSUME NEW b \in Both, MayFail(b), got' = got \cup (Both \ {b}) PROVE Apart'
  <2>1. Tried(Both \ {b}, {b})
    BY <1>1, <1>2, <1>3, <1>5 DEF Tried, MayFail
  <2> QED BY <2>1, TriedApart
<1> QED BY <1>4, <1>5 DEF GetDIO

\* An array of rows: its block is new.
LEMMA ArrayApart ==
    ASSUME MemoryInv, Apart, NEW a \in ReadRows \cup GetRows, Array(a) PROVE Apart'
<1>. USE DEF Loading, Given, Computing, Failed, Working, Going, Ended, ReadRows, GetRows
<1>1. /\ resamplerPc = Label0[a] /\ resamplerPc \in Going
      /\ resamplerPc \notin Failed \cup {"exit", "crashed"}
      /\ a \in ReadRows <=> resamplerPc \in Loading
      /\ Held = Before(a) /\ Lost = (IF a \in ReadRows THEN {} ELSE LoadedBlock)
  BY DEF Array, Label0, Held, Lost
<1>2. <<a, 0>> \notin Held /\ <<a, 0>> \notin Lost
  BY <1>1 DEF Before, TRead, TGet, WholeArray, LoadedBlock, ReadOnce
<1>3. <<a, 0>> \in Block /\ (<<a, 0>> \notin LoadedBlock \/ resamplerPc \in Loading)
  <2>1. 0 \in 0 .. MaxRows
    BY ResamplerAssumption
  <2>2. <<a, 0>> \in Block /\ (a \in GetRows => <<a, 0>> \notin LoadedBlock)
    BY <2>1, RowBlocks DEF Arrays
  <2> QED BY <1>1, <2>2
<1>4. <<a, 0>> \notin got /\ <<a, 0>> \notin failedMallocs
  BY <1>1, <1>2, <1>3, NotYet, NotFailed DEF MemoryInv
<1>5. \/ resamplerPc' \notin Loading /\ UNCHANGED <<got, failedMallocs>>
      \/ resamplerPc' \notin Loading /\ MayFail(<<a, 0>>) /\ UNCHANGED got
      \/ resamplerPc' = a /\ Malloc({<<a, 0>>})
  BY DEF Array, ReturnNULL, AfterNULL
<1>6. Tried({}, {}) \/ Tried({}, {<<a, 0>>}) \/ Tried({<<a, 0>>}, {})
  BY <1>1, <1>3, <1>4, <1>5 DEF Tried, Malloc, MayFail
<1> QED BY <1>6, TriedApart

LEMMA RowsApart ==
    ASSUME MemoryInv, Apart, NEW a \in ReadRows \cup GetRows,
           Row(a) \/ RowFails(a) \/ RowCleared(a)
    PROVE  Apart'
<1>. USE DEF Loading, Given, Computing, Failed, Working, Going, Ended, ReadRows, GetRows
<1>1. /\ resamplerPc = a /\ resamplerPc \in Going
      /\ resamplerPc \notin Failed \cup {"exit", "crashed"}
      /\ a \in ReadRows <=> resamplerPc \in Loading
      /\ i \in Nat /\ i < tLen /\ tLen \in 1 .. MaxRows /\ MaxRows \in Nat
      /\ Held = Before(a) \cup WholeArray(a, i)
      /\ Lost = (IF a \in ReadRows THEN {} ELSE LoadedBlock)
  BY ResamplerAssumption DEF Row, RowFails, RowCleared, MemoryInv, Kinds, Held, Lost
<1>2. <<a, i + 1>> \notin Held /\ <<a, i + 1>> \notin Lost
  BY <1>1 DEF Before, TRead, TGet, WholeArray, LoadedBlock, ReadOnce
<1>3. <<a, i + 1>> \in Block /\ (<<a, i + 1>> \notin LoadedBlock \/ resamplerPc \in Loading)
  <2>1. i + 1 \in 0 .. MaxRows
    BY <1>1
  <2>2. <<a, i + 1>> \in Block /\ (a \in GetRows => <<a, i + 1>> \notin LoadedBlock)
    BY <2>1, RowBlocks DEF Arrays
  <2> QED BY <1>1, <2>2
<1>4. <<a, i + 1>> \notin got /\ <<a, i + 1>> \notin failedMallocs
  BY <1>1, <1>2, <1>3, NotYet, NotFailed DEF MemoryInv
<1>5. \/ resamplerPc' \notin Loading /\ MayFail(<<a, i + 1>>) /\ UNCHANGED got
      \/ resamplerPc' = a /\ Malloc({<<a, i + 1>>})
  BY <1>1 DEF Row, RowFails, RowCleared, ReturnNULL, AfterNULL
<1>6. Tried({}, {<<a, i + 1>>}) \/ Tried({<<a, i + 1>>}, {})
  BY <1>1, <1>3, <1>4, <1>5 DEF Tried, Malloc, MayFail
<1> QED BY <1>6, TriedApart

\* The blocks of the output are new at each of the three labels.
LEMMA OutApart ==
    ASSUME MemoryInv, Apart, Out \/ OutRow \/ WriteOutput \/ Untested PROVE Apart'
<1>. USE DEF Loading, Given, Computing, Failed, Working, Going, Ended, ReadRows, GetRows
<1>1. /\ resamplerPc \in {"out", "outRows", "synthesis"} /\ resamplerPc \in Going
      /\ resamplerPc \notin Failed \cup {"exit", "crashed"} /\ resamplerPc' \notin Loading
  BY DEF Out, OutRow, WriteOutput, Untested
<1>2. /\ Lost \subseteq LoadedBlock
      /\ Held = Analysis \cup (CASE resamplerPc = "out" -> {}
                                 [] resamplerPc = "outRows" -> OutArrays(i)
                                 [] resamplerPc = "synthesis" -> OutArrays(oLen))
  BY <1>1 DEF Lost, Held
<1>3. resamplerPc = "outRows" => i \in Nat /\ i + 1 \in 0 .. MaxRows
  BY ResamplerAssumption DEF MemoryInv, Kinds
<1>4. \A b \in OutBlocks(resamplerPc) : b \in Block /\ b \notin LoadedBlock /\ b \notin Held
  <2>1. \A b \in OutBlocks(resamplerPc) : b \in Block /\ b \notin LoadedBlock
    <3>1. \A k \in 0 .. MaxRows : \A s \in OutRows :
              <<s, k>> \in Block /\ <<s, k>> \notin LoadedBlock
      BY RowBlocks DEF Arrays, OutRows
    <3>2. 0 \in 0 .. MaxRows
      BY ResamplerAssumption
    <3>3. CASE resamplerPc = "out"
      BY <3>1, <3>2, <3>3, WorkBlocks DEF OutBlocks
    <3>4. CASE resamplerPc = "outRows"
      BY <1>3, <3>1, <3>4 DEF OutBlocks
    <3>5. CASE resamplerPc = "synthesis"
      BY <3>5, WorkBlocks DEF OutBlocks
    <3> QED BY <1>1, <3>3, <3>4, <3>5
  <2>2. \A b \in OutBlocks(resamplerPc) : b \notin Analysis
    BY <1>1 DEF OutBlocks, OutRows, Analysis, Loaded, Computed, TRead, TGet, WholeArray
  <2>3. CASE resamplerPc = "out"
    BY <1>2, <2>1, <2>2, <2>3
  <2>4. CASE resamplerPc = "outRows"
    <3>1. \A b \in OutBlocks(resamplerPc) : b \notin OutArrays(i)
      BY <1>3, <2>4 DEF OutBlocks, OutRows, OutArrays
    <3>2. Held = Analysis \cup OutArrays(i)
      BY <1>2, <2>4
    <3> QED BY <2>1, <2>2, <3>1, <3>2
  <2>5. CASE resamplerPc = "synthesis"
    <3>1. \A b \in OutBlocks(resamplerPc) : b \notin OutArrays(oLen)
      BY <2>5 DEF OutBlocks, OutRows, OutArrays
    <3>2. Held = Analysis \cup OutArrays(oLen)
      BY <1>2, <2>5
    <3> QED BY <2>1, <2>2, <3>1, <3>2
  <2> QED BY <1>1, <2>3, <2>4, <2>5
<1>5. \A b \in OutBlocks(resamplerPc) : b \notin got /\ b \notin failedMallocs
  BY <1>1, <1>2, <1>4, NotYet, NotFailed DEF MemoryInv
<1>6. CASE Out \/ OutRow \/ WriteOutput
  <2>1. Malloc(OutBlocks(resamplerPc))
    BY <1>6 DEF Out, OutRow, WriteOutput
  <2>2. Tried(OutBlocks(resamplerPc), {})
    BY <1>1, <1>5, <2>1 DEF Tried, Malloc
  <2> QED BY <2>2, TriedApart
<1>7. CASE Untested
  <2>1. PICK b \in OutBlocks(resamplerPc) : MayFail(b)
    BY <1>7 DEF Untested
  <2>2. Tried({}, {b})
    BY <1>1, <1>4, <1>5, <1>7, <2>1 DEF Tried, MayFail, Untested
  <2> QED BY <2>2, TriedApart
<1> QED BY <1>6, <1>7

\* The other steps allocate nothing.
LEMMA RestApart ==
    ASSUME MemoryInv, Apart,
           \/ GiveUpLoad \/ StarFailed \/ PlatFailed \/ Arguments \/ BadArguments \/ Release
           \/ \E a \in ReadRows \cup GetRows : RowsDone(a)
           \/ UNCHANGED resamplerVars
    PROVE  Apart'
<1>1. UNCHANGED <<got, failedMallocs>>
  BY DEF GiveUpLoad, StarFailed, PlatFailed, Arguments, BadArguments, Release, RowsDone,
         resamplerVars
<1>2. resamplerPc' \in Loading => resamplerPc \in Loading
  BY DEF GiveUpLoad, StarFailed, PlatFailed, Arguments, BadArguments, Release, RowsDone,
         resamplerVars, Loading, Exit, AfterRows, ReadRows, GetRows
<1>3. Tried({}, {})
  BY <1>1, <1>2 DEF Tried
<1> QED BY <1>3, TriedApart

LEMMA ApartStep == MemoryInv /\ Apart /\ [ResamplerNext]_resamplerVars => Apart'
<1>. SUFFICES ASSUME MemoryInv, Apart, [ResamplerNext]_resamplerVars PROVE Apart'
  OBVIOUS
<1>1. ASSUME NEW a \in ReadRows \cup GetRows,
             Array(a) \/ Row(a) \/ RowFails(a) \/ RowCleared(a) \/ RowsDone(a)
      PROVE  Apart'
  BY <1>1, ArrayApart, RowsApart, RestApart
<1>2. CASE ReadDIO \/ GiveUpLoad \/ Wavread \/ GetDIO
  BY <1>2, ReadDIOApart, RestApart, WavreadApart, GetDIOApart
<1>3. CASE StarFailed \/ PlatFailed \/ Arguments \/ BadArguments \/ Untested
  BY <1>3, RestApart, OutApart
<1>4. CASE Out \/ OutRow \/ WriteOutput \/ Release
  BY <1>4, OutApart, RestApart
<1>5. CASE UNCHANGED resamplerVars
  BY <1>5, RestApart
<1> QED BY <1>1, <1>2, <1>3, <1>4, <1>5 DEF ResamplerNext, ResamplerEnded

\* The counters and flags.
LEMMA CountsStep == MemoryInv /\ CountsInv /\ [ResamplerNext]_resamplerVars => CountsInv'
<1>. SUFFICES ASSUME MemoryInv, CountsInv, [ResamplerNext]_resamplerVars PROVE CountsInv'
  OBVIOUS
<1>0. /\ MaxRows \in Nat \ {0} /\ tLen \in 1 .. MaxRows /\ oLen \in 1 .. MaxRows
      /\ resamplerPc \in ReadRows \cup GetRows => i \in 0 .. tLen
      /\ resamplerPc = "outRows" => i \in 0 .. oLen - 1
  BY ResamplerAssumption DEF MemoryInv, Kinds
<1>1. UNCHANGED files
  BY DEF ResamplerNext, ResamplerEnded, ReadDIO, GiveUpLoad, Array, Row, RowFails, RowCleared,
         RowsDone, Wavread, GetDIO, StarFailed, PlatFailed, Arguments, BadArguments, Out, OutRow,
         Untested, WriteOutput, Release, resamplerVars
<1>2. i' \in 0 .. MaxRows
  <2>1. CASE \E a \in ReadRows \cup GetRows : Row(a)
    <3>1. resamplerPc \in ReadRows \cup GetRows /\ i' = i + 1 /\ i < tLen
      BY <2>1 DEF Row
    <3> QED BY <1>0, <3>1
  <2>2. CASE OutRow
    BY <1>0, <2>2 DEF OutRow
  <2>3. CASE Out \/ \E a \in ReadRows \cup GetRows : Array(a)
    <3>1. i' = 0
      BY <2>3 DEF Out, Array
    <3> QED BY <1>0, <3>1
  <2>4. CASE UNCHANGED i
    BY <2>4 DEF CountsInv
  <2> QED BY <2>1, <2>2, <2>3, <2>4
          DEF ResamplerNext, ResamplerEnded, ReadDIO, GiveUpLoad, RowFails, RowCleared, RowsDone,
              Wavread, GetDIO, StarFailed, PlatFailed, Arguments, BadArguments, Untested,
              WriteOutput, Release, resamplerVars
<1>3. written' \in BOOLEAN /\ code' \in {0, -1}
  <2>1. /\ written' = written \/ written' = TRUE
        /\ code' = code \/ code' = 0 \/ code' = -1
    BY DEF ResamplerNext, ResamplerEnded, ReadDIO, GiveUpLoad, Array, Row, RowFails, RowCleared,
           RowsDone, Wavread, GetDIO, StarFailed, PlatFailed, Arguments, BadArguments, Out,
           OutRow, Untested, WriteOutput, Release, Exit, resamplerVars
  <2> QED BY <2>1 DEF CountsInv
<1> QED BY <1>1, <1>2, <1>3 DEF CountsInv
LEMMA MemoryTyped == MemoryInv /\ Apart /\ CountsInv => ResamplerTypeOK
<1>. SUFFICES ASSUME MemoryInv, Apart, CountsInv PROVE ResamplerTypeOK
  OBVIOUS
<1>1. got \subseteq Block /\ failedMallocs \subseteq Block /\ got \cap failedMallocs = {}
  BY DEF MemoryInv, Kinds, Apart
<1> QED BY <1>1 DEF MemoryInv, Kinds, CountsInv, ResamplerTypeOK

-----------------------------------------------------------------------------
(* The kinds of values in the other parts *)

\* Every name that is returned is in the directory, and few files fail.
WalkInv == returned \subseteq dir /\ Cardinality(failed) <= MaxFailures

LEMMA WalkStarts == BatchInit => WalkInv
BY FS_EmptySet, BatchAssumption DEF BatchInit, WalkInv

LEMMA WalkStep == WalkInv /\ [BatchNext]_batchVars => WalkInv'
<1>. SUFFICES ASSUME WalkInv, [BatchNext]_batchVars PROVE WalkInv'
  OBVIOUS
<1>1. CASE GenerateParams
  <2>1. PICK lost \in SUBSET Files(entry) : WriteParams(lost)
    BY <1>1 DEF GenerateParams
  <2>2. Cardinality(failed') <= MaxFailures
    BY <2>1 DEF WriteParams
  <2>3. returned' \subseteq dir'
    BY <2>1 DEF WriteParams, WalkInv
  <2> QED BY <2>2, <2>3 DEF WalkInv
<1>2. CASE ~GenerateParams
  <2>1. UNCHANGED <<dir, failed>> /\ returned' \subseteq returned \cup dir
    BY <1>2 DEF BatchNext, Readdir, AlreadyProcessed, NoWav, End, BatchEnded, batchVars
  <2> QED BY <2>1 DEF WalkInv
<1> QED BY <1>1, <1>2

LEMMA WalkTyped == MadeInv /\ WalkInv => BatchTypeOK
<1>. SUFFICES ASSUME MadeInv, WalkInv PROVE BatchTypeOK
  OBVIOUS
<1>1. \A f \in DOMAIN madeFrom : madeFrom[f] \in Wavs \cup Earlier \cup {Unfit}
  BY DEF MadeInv, Listed
<1>2. entry \in dir \cup {<<>>}
  BY DEF MadeInv
<1> QED BY <1>1, <1>2 DEF MadeInv, WalkInv, BatchTypeOK

\* The rate is an int, whatever bytes it is made of.
ReadKinds == ReaderInv /\ rfs \in Int /\ opened \in BOOLEAN /\ rpc # "idle"

LEMMA ReadKindsStarts == Reader!Init => ReadKinds
BY ReaderStarts DEF ReadKinds, Reader!Init

LEMMA ReadKindsStep == ReadKinds /\ [Reader!Next]_readerVars => ReadKinds'
<1>. SUFFICES ASSUME ReadKinds, [Reader!Next]_readerVars PROVE ReadKinds'
  OBVIOUS
<1>1. CASE Reader!Step
  <2>1. ReaderInv'
    BY <1>1, ReaderStep DEF ReadKinds
  <2>2. opened' \in BOOLEAN /\ rpc' # "idle"
    BY <1>1 DEF ReadKinds, Reader!Step, Reader!CheckTag, Reader!ReadFormat, Reader!CheckData,
           Reader!ReadLength, Reader!Allocate, Reader!ReadSample, Reader!Return
  <2>3. rfs' \in Int
    <3>1. CASE Reader!ReadFormat
      <4>. DEFINE rate == Reader!ReadInto(forIntNumber, 4, fp)
      <4>1. rate \in Reader!Buffer
        BY ReadIs DEF ReadKinds, ReaderInv, ReaderTypes
      <4>2. \A k \in 0 .. 3 : rate[k] \in Int
        BY <4>1 DEF Reader!Buffer, Reader!Byte
      <4>3. rfs' = Reader!Int32(rate)
        BY <3>1 DEF Reader!ReadFormat
      <4> QED BY <4>2, <4>3 DEF Reader!Int32
    <3>2. CASE ~Reader!ReadFormat
      <4>1. UNCHANGED rfs
        BY <1>1, <3>2 DEF Reader!Step, Reader!CheckTag, Reader!CheckData, Reader!ReadLength,
               Reader!Allocate, Reader!ReadSample, Reader!Return, Reader!format
      <4> QED BY <4>1 DEF ReadKinds
    <3> QED BY <3>1, <3>2
  <2> QED BY <2>1, <2>2, <2>3 DEF ReadKinds
<1>2. CASE UNCHANGED readerVars
  <2>1. ReaderInv'
    BY <1>2, ReaderStutter DEF ReadKinds
  <2> QED BY <1>2, <2>1 DEF ReadKinds, readerVars
<1> QED BY <1>1, <1>2 DEF Reader!Next, Reader!Finished, Reader!vars, readerVars

LEMMA ReadTyped == ReadKinds => Reader!TypeOK
<1>. SUFFICES ASSUME ReadKinds PROVE Reader!TypeOK
  OBVIOUS
<1>1. fp.data \in Seq(Reader!Byte) /\ fp.cur \in 0 .. Len(fp.data)
  BY DEF ReadKinds, ReaderInv, ReaderTypes, FileIs, Byte, Reader!Byte
<1>2. Len(Reader!Checks) = 6
  BY DEF Reader!Checks
<1>3. rNbit \in Reader!Byte
  BY DEF ReadKinds, ReaderInv, ReaderTypes, Byte, Reader!Byte
<1> QED BY <1>1, <1>2, <1>3 DEF ReadKinds, ReaderInv, ReaderTypes, Reader!TypeOK

LEMMA TripTyped == TripInv => WavOutTypeOK /\ dataCheck \in Reader!Buffer
<1>. SUFFICES ASSUME TripInv PROVE WavOutTypeOK /\ dataCheck \in Reader!Buffer
  OBVIOUS
<1>1. dataCheck \in Reader!Buffer
  BY DEF TripInv, ReaderInv, ReaderTypes
<1>2. Len(output) <= outSamples /\ \A k \in 1 .. Len(output) : output[k] \in Shorts
  <2>1. output \in Seq(Shorts)
    BY DEF TripInv, WavOutInv
  <2>2. \A k \in 1 .. Len(output) : output[k] \in Shorts
    BY <2>1, ElementOfSeq
  <2>3. y \in Seq(Float)
    BY SignalAssumption DEF TripInv, WavOutInv
  <2>4. outSamples \in Nat
    BY <2>3, LenProperties DEF outSamples
  <2>5. CASE wavOutPc = "max"
    <3>1. output = <<>>
      BY <2>5 DEF TripInv, WavOutInv
    <3>2. Len(output) = 0
      BY Zenon, <3>1, EmptySeq
    <3> QED BY <2>2, <2>4, <3>2
  <2>6. CASE wavOutPc = "output"
    <3>1. wavOutI \in Nat /\ Len(output) = wavOutI - 1 /\ wavOutI <= outSamples + 1
      BY <2>6 DEF TripInv, WavOutInv
    <3> QED BY <2>2, <2>4, <3>1
  <2>7. CASE wavOutPc \in {"header", "written", "died"}
    <3>1. Len(output) = outSamples
      BY <2>7 DEF TripInv, WavOutInv
    <3> QED BY <2>2, <2>4, <3>1
  <2> QED BY <2>5, <2>6, <2>7 DEF TripInv, WavOutInv
<1>3. header \in [0 .. 47 -> 0 .. 255]
  BY DEF TripInv, WavOutInv, Byte
<1>4. /\ y \in Signals /\ volume \in Volumes /\ P \in {0, 1}
      /\ fs \in Rates /\ nbit \in Bits /\ longSize \in LongSizes
      /\ wavOutI \in Nat /\ maxAmp.num >= 0
      /\ wavOutPc \in {"max", "output", "header", "written", "died"}
  BY DEF TripInv, WavOutInv
<1>5. WavOutTypeOK
  BY <1>2, <1>3, <1>4 DEF WavOutTypeOK
<1> QED BY <1>1, <1>5

-----------------------------------------------------------------------------
(* The parts together *)

\* Of the part at work.
ProgramParts ==
    /\ part \in {"trip", "read", "resampler", "batch"}
    /\ part = "trip" => TripInv
    /\ part = "read" => ReadKinds
    /\ part = "resampler" => MemoryInv /\ Apart /\ CountsInv
    /\ part = "batch" => MadeInv /\ WalkInv

LEMMA ProgramStart == ProgramInit => ProgramParts
<1>. SUFFICES ASSUME ProgramInit PROVE ProgramParts
  OBVIOUS
<1>1. part \in {"trip", "read", "resampler", "batch"}
  BY DEF ProgramInit
<1>2. part = "trip" => TripInv
  BY TripStarts DEF ProgramInit
<1>3. part = "read" => ReadKinds
  BY ReadKindsStarts DEF ProgramInit
<1>4. part = "resampler" => MemoryInv /\ Apart /\ CountsInv
  <2>1. ResamplerInit => Apart
    BY DEF ResamplerInit, Apart
  <2>2. ResamplerInit => CountsInv
    <3>. SUFFICES ASSUME ResamplerInit PROVE CountsInv
      OBVIOUS
    <3>1. i = 0 /\ 0 \in 0 .. MaxRows
      BY ResamplerAssumption DEF ResamplerInit
    <3>2. files \in [CacheFile -> {"good", "bad"}] /\ written \in BOOLEAN /\ code \in {0, -1}
      BY DEF ResamplerInit
    <3> QED BY <3>1, <3>2 DEF CountsInv
  <2> QED BY <2>1, <2>2, MemoryInit DEF ProgramInit
<1>5. part = "batch" => MadeInv /\ WalkInv
  BY MadeInit, WalkStarts DEF ProgramInit
<1> QED BY <1>1, <1>2, <1>3, <1>4, <1>5 DEF ProgramParts

LEMMA ProgramStep == ProgramParts /\ [ProgramNext]_programVars => ProgramParts'
<1>. SUFFICES ASSUME ProgramParts, [ProgramNext]_programVars PROVE ProgramParts'
  OBVIOUS
<1>1. part' = part
  BY DEF ProgramNext, programVars
<1>2. CASE part = "trip"
  <2>1. [TripNext]_tripVars
    BY <1>2 DEF ProgramNext, programVars
  <2>2. TripInv'
    BY <1>2, <2>1, TripStep DEF ProgramParts
  <2> QED BY <1>1, <1>2, <2>2 DEF ProgramParts
<1>3. CASE part = "read"
  <2>1. [Reader!Next]_readerVars
    BY <1>3 DEF ProgramNext, programVars, tripVars
  <2>2. ReadKinds'
    BY <1>3, <2>1, ReadKindsStep DEF ProgramParts
  <2> QED BY <1>1, <1>3, <2>2 DEF ProgramParts
<1>4. CASE part = "resampler"
  <2>1. [ResamplerNext]_resamplerVars
    BY <1>4 DEF ProgramNext, programVars
  <2>2. MemoryInv' /\ Apart' /\ CountsInv'
    BY <1>4, <2>1, MemoryStep, ApartStep, CountsStep DEF ProgramParts
  <2> QED BY <1>1, <1>4, <2>2 DEF ProgramParts
<1>5. CASE part = "batch"
  <2>1. [BatchNext]_batchVars
    BY <1>5 DEF ProgramNext, programVars
  <2>2. MadeInv' /\ WalkInv'
    BY <1>5, <2>1, MadeStep, WalkStep DEF ProgramParts
  <2> QED BY <1>1, <1>5, <2>2 DEF ProgramParts
<1> QED BY <1>2, <1>3, <1>4, <1>5 DEF ProgramParts

\* In whichever part, the variables hold values of their kind: of main(), that no
\* block is both returned and failed, and that a load goes on only as long as
\* nothing has failed; of wavread(), that its place is within the file.
THEOREM ProgramIsTyped == ProgramSpec => []ProgramTypeOK
<1>1. ProgramParts => ProgramTypeOK
  <2>. SUFFICES ASSUME ProgramParts PROVE ProgramTypeOK
    OBVIOUS
  <2>1. CASE part = "trip"
    BY <2>1, TripTyped DEF ProgramParts, ProgramTypeOK
  <2>2. CASE part = "read"
    BY <2>2, ReadTyped DEF ProgramParts, ProgramTypeOK
  <2>3. CASE part = "resampler"
    BY <2>3, MemoryTyped DEF ProgramParts, ProgramTypeOK
  <2>4. CASE part = "batch"
    BY <2>4, WalkTyped DEF ProgramParts, ProgramTypeOK
  <2> QED BY <2>1, <2>2, <2>3, <2>4 DEF ProgramParts
<1> QED BY <1>1, ProgramStart, ProgramStep, PTL DEF ProgramSpec
=============================================================================
