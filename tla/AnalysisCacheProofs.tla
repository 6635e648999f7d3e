------------------------ MODULE AnalysisCacheProofs ------------------------
(* What AnalysisCache guarantees for any number of processes, of versions  *)
(* and of buffers in a file.                                               *)
EXTENDS AnalysisCache, TLAPS

LEMMA WrittenType ==
    ASSUME NEW old \in [Index -> Cells], NEW i \in Index, NEW v \in Cells
    PROVE  /\ Written(old, i, v) \in [Index -> Cells]
           /\ Written(old, i, v)[i] = v
           /\ \A j \in Index : old[j] # Absent /\ j # i =>
                 Written(old, i, v)[j] = old[j]
           /\ \A j \in Index : j > i => Written(old, i, v)[j] = old[j]
BY DEF Written, Index, Cells

LEMMA GoOnType ==
    ASSUME TypeOK, NEW p \in Procs, GoOn(p)
    PROVE  /\ pc' \in [Procs -> {"ready", "wav"} \cup Reading \cup Filling \cup Final]
           /\ at' \in [Procs -> Files]
<1>1. at[p] \in Files /\ (at[p] # PLATINUM => at[p] + 1 \in Files)
  BY DEF TypeOK, Files, DIO, PLATINUM
<1> QED BY <1>1 DEF TypeOK, GoOn, Reading, Filling, Final

\* A process that fills the cache has a wav, and a buffer left to flush when
\* it has a file open.
WriterInv ==
    \A p \in Procs : /\ pc[p] \in Filling => x[p] \in Versions
                     /\ pc[p] = "write" => pos[p] < Blocks

LEMMA WriterPreserved ==
    ASSUME TypeOK, WriterInv, [Next]_vars
    PROVE  WriterInv'
<1>. DEFINE Inv(q) == /\ pc[q] \in Filling => x[q] \in Versions
                      /\ pc[q] = "write" => pos[q] < Blocks
<1>. SUFFICES ASSUME NEW q \in Procs PROVE Inv(q)'
  BY DEF WriterInv
<1>1. Inv(q) /\ pos[q] \in 0 .. Blocks /\ Blocks \in Nat /\ 0 < Blocks
  BY BlocksAssumption DEF TypeOK, WriterInv
<1>2. ASSUME NEW p \in Procs, WriteBlock(p) PROVE Inv(q)'
  <2>1. pc[p] = "write" /\ pos[p] < Blocks /\ x[p] \in Versions /\ x' = x
    BY <1>2 DEF WriteBlock, WriterInv, Filling
  <2>2. pos' = [pos EXCEPT ![p] = @ + 1]
    BY <1>2 DEF WriteBlock
  <2>3. \A r \in Procs : r # p => pc'[r] = pc[r]
    BY <1>2 DEF WriteBlock, GoOn, TypeOK
  <2>4. pos[p] + 1 = Blocks => pc'[p] \in {"fill", "done"}
    BY <1>2 DEF WriteBlock, GoOn, TypeOK
  <2>5. pos[p] + 1 # Blocks => pc' = pc
    BY <1>2 DEF WriteBlock
  <2>6. CASE q = p
    <3>1. pos'[p] = pos[p] + 1 /\ pos[p] \in Nat
      BY <2>2 DEF TypeOK
    <3> QED BY <1>1, <2>1, <2>4, <2>5, <2>6, <3>1
  <2>7. CASE q # p
    <3>1. pos'[q] = pos[q]
      BY <2>2, <2>7 DEF TypeOK
    <3> QED BY <1>1, <2>1, <2>3, <2>7, <3>1
  <2> QED BY <2>6, <2>7
<1>3. ASSUME NEW p \in Procs, OpenCache(p) PROVE Inv(q)'
  <2>1. pc' = [pc EXCEPT ![p] = "write"] /\ pos' = [pos EXCEPT ![p] = 0]
        /\ pc[p] = "fill" /\ x' = x
    BY <1>3 DEF OpenCache
  <2>2. CASE q = p
    BY <1>1, <2>1, <2>2 DEF TypeOK, Filling
  <2>3. CASE q # p
    BY <1>1, <2>1, <2>3 DEF TypeOK
  <2> QED BY <2>2, <2>3
<1>4. ASSUME NEW p \in Procs, SkipCache(p) \/ DiskFull(p) PROVE Inv(q)'
  BY <1>1, <1>4 DEF SkipCache, DiskFull, GoOn, TypeOK, Filling
<1>5. ASSUME NEW p \in Procs, ReadCache(p) PROVE Inv(q)'
  BY <1>1, <1>5 DEF ReadCache, TypeOK, Filling
<1>6. ASSUME NEW p \in Procs, ReadWav(p) PROVE Inv(q)'
  BY <1>1, <1>6 DEF ReadWav, TypeOK, Filling
<1>7. ASSUME NEW p \in Procs,
             Invoke(p) \/ StatCache(p) \/ FailAnalysis(p) \/ Crash(p)
      PROVE  Inv(q)'
  BY <1>1, <1>7 DEF Invoke, StatCache, FailAnalysis, Crash, TypeOK, Filling
<1>8. ASSUME UNCHANGED <<pc, pos, x>> PROVE Inv(q)'
  BY <1>1, <1>8
<1> QED
  BY <1>2, <1>3, <1>4, <1>5, <1>6, <1>7, <1>8
  DEF Next, Step, Work, Fault, Edit, EditWav, Terminated, vars

LEMMA TypePreserved ==
    ASSUME TypeOK, WriterInv, [Next]_vars
    PROVE  TypeOK'
<1>1. ASSUME NEW p \in Procs, Invoke(p) PROVE TypeOK'
  BY <1>1 DEF Invoke, TypeOK, Reading, Filling, Final
<1>2. ASSUME NEW p \in Procs, StatCache(p) PROVE TypeOK'
  BY <1>2 DEF StatCache, TypeOK, Present, Reading, Filling, Final
<1>3. ASSUME NEW p \in Procs, ReadCache(p) PROVE TypeOK'
  <2>1. Contents(p) \in [Index -> Cells \cup {Garbage}]
    BY DEF Contents, TypeOK
  <2>2. at[p] \in Files /\ (at[p] # PLATINUM => at[p] + 1 \in Files)
    BY DEF TypeOK, Files, DIO, PLATINUM
  <2>3. load' \in [Procs -> [Files -> [Index -> Cells \cup {Garbage}]]]
    <3>. DEFINE Row == [Index -> Cells \cup {Garbage}]
    <3>1. load \in [Procs -> [Files -> Row]] /\ Contents(p) \in Row
      BY <2>1 DEF TypeOK
    <3>2. \/ UNCHANGED load
          \/ load' = [load EXCEPT ![p][at[p]] = Contents(p)]
      BY <1>3 DEF ReadCache
    <3>. HIDE DEF Row
    <3>3. load' \in [Procs -> [Files -> Row]]
      BY <2>2, <3>1, <3>2
    <3> QED BY <3>3 DEF Row
  <2> QED BY <1>3, <2>2, <2>3 DEF ReadCache, TypeOK, Reading, Filling, Final
<1>4. ASSUME NEW p \in Procs, ReadWav(p) PROVE TypeOK'
  BY <1>4 DEF ReadWav, TypeOK, Files, DIO, PLATINUM, Reading, Filling, Final
<1>5. ASSUME NEW p \in Procs, FailAnalysis(p) PROVE TypeOK'
  BY <1>5 DEF FailAnalysis, TypeOK, Reading, Filling, Final
<1>6. ASSUME NEW p \in Procs, OpenCache(p) PROVE TypeOK'
  BY <1>6, BlocksAssumption
  DEF OpenCache, TypeOK, Empty, Cells, Reading, Filling, Final
<1>7. ASSUME NEW p \in Procs, SkipCache(p) PROVE TypeOK'
  BY <1>7, GoOnType DEF SkipCache, TypeOK
<1>8. ASSUME NEW p \in Procs, WriteBlock(p) PROVE TypeOK'
  <2>1. pos[p] + 1 \in Index /\ pos[p] + 1 \in 0 .. Blocks /\ at[p] \in Files
    BY <1>8, BlocksAssumption DEF WriteBlock, TypeOK, WriterInv, Index
  <2>2. pos' \in [Procs -> 0 .. Blocks]
    BY <1>8, <2>1 DEF WriteBlock, TypeOK
  <2>3. disk' \in [Files -> [Index -> Cells]]
    <3>1. x[p] \in Cells
      BY <1>8 DEF WriteBlock, WriterInv, Filling, Cells
    <3>2. Written(disk[at[p]], pos[p] + 1, x[p]) \in [Index -> Cells]
      BY <2>1, <3>1, WrittenType DEF TypeOK
    <3> QED BY <1>8, <3>2 DEF WriteBlock, TypeOK
  <2>4. pc' \in [Procs -> {"ready", "wav"} \cup Reading \cup Filling \cup Final]
        /\ at' \in [Procs -> Files]
    BY <1>8, GoOnType DEF WriteBlock, TypeOK
  <2> QED BY <1>8, <2>2, <2>3, <2>4 DEF WriteBlock, TypeOK
<1>9. ASSUME NEW p \in Procs, DiskFull(p) PROVE TypeOK'
  BY <1>9, GoOnType DEF DiskFull, TypeOK
<1>10. ASSUME NEW p \in Procs, Crash(p) PROVE TypeOK'
  BY <1>10 DEF Crash, TypeOK, Reading, Filling, Final
<1>11. ASSUME NEW v \in Versions \cup {NoWav}, EditWav(v) PROVE TypeOK'
  BY <1>11 DEF EditWav, TypeOK
<1>12. ASSUME UNCHANGED vars PROVE TypeOK'
  BY <1>12 DEF vars, TypeOK
<1> QED
  BY <1>1, <1>2, <1>3, <1>4, <1>5, <1>6, <1>7, <1>8, <1>9, <1>10, <1>11, <1>12
  DEF Next, Step, Work, Fault, Edit, Terminated

LEMMA InitType == Init => TypeOK /\ WriterInv
BY BlocksAssumption
DEF Init, TypeOK, WriterInv, Files, DIO, PLATINUM, Empty, Cells, Reading, Filling, Final

THEOREM TypeCorrect == Spec => []TypeOK
<1>1. TypeOK /\ WriterInv /\ [Next]_vars => TypeOK' /\ WriterInv'
  BY TypePreserved, WriterPreserved
<1> QED BY <1>1, InitType, PTL DEF Spec
-----------------------------------------------------------------------------
(* SettledComplete: what concurrent writers leave behind *)

LEMMA QuietIsNext == [QuietNext]_vars => [Next]_vars
BY DEF QuietNext, Next

\* A step that opens, writes and closes nothing keeps every file sound.
LEMMA SoundUntouched ==
    ASSUME UNCHANGED <<wav, disk, pos>>,
           \A q \in Procs : /\ pc'[q] = "write" <=> pc[q] = "write"
                            /\ pc[q] = "write" => at'[q] = at[q],
           NEW f \in Files, Sound(f)
    PROVE  Sound(f)'
BY DEF Sound, Unwritten, Covered, Writing

\* Nor does a step on one file disturb the others.
LEMMA SoundElsewhere ==
    ASSUME NEW p \in Procs, NEW f \in Files, Sound(f),
           ~Writing(p, f), ~Writing(p, f)',
           disk'[f] = disk[f], wav' = wav,
           \A q \in Procs \ {p} : /\ pc'[q] = pc[q] /\ at'[q] = at[q]
                                  /\ pos'[q] = pos[q]
    PROVE  Sound(f)'
<1>1. \A q \in Procs : /\ Writing(q, f)' <=> Writing(q, f)
                       /\ Writing(q, f) => pos'[q] = pos[q]
  BY DEF Writing
<1> QED BY <1>1 DEF Sound, Unwritten, Covered

LEMMA CoverPreserved ==
    ASSUME TypeOK, WriterInv, CoverInv, [QuietNext]_vars
    PROVE  CoverInv'
<1>1. ASSUME NEW p \in Procs, Invoke(p) PROVE CoverInv'
  <2>1. /\ UNCHANGED <<wav, disk, pos, x, at>>
        /\ \A q \in Procs : pc'[q] = pc[q] \/ {pc[q], pc'[q]} \cap Filling = {}
    BY <1>1 DEF Invoke, TypeOK, Filling
  <2> QED BY <2>1, SoundUntouched DEF CoverInv, Filling
<1>2. ASSUME NEW p \in Procs, StatCache(p) PROVE CoverInv'
  <2>1. /\ UNCHANGED <<wav, disk, pos, x, at>>
        /\ \A q \in Procs : pc'[q] = pc[q] \/ {pc[q], pc'[q]} \cap Filling = {}
    BY <1>2 DEF StatCache, TypeOK, Filling
  <2> QED BY <2>1, SoundUntouched DEF CoverInv, Filling
<1>3. ASSUME NEW p \in Procs, ReadCache(p) PROVE CoverInv'
  <2>1. /\ UNCHANGED <<wav, disk, pos, x>>
        /\ \A q \in Procs :
              \/ pc'[q] = pc[q] /\ at'[q] = at[q]
              \/ {pc[q], pc'[q]} \cap Filling = {}
    BY <1>3 DEF ReadCache, TypeOK, Filling
  <2> QED BY <2>1, SoundUntouched DEF CoverInv, Filling
<1>4. ASSUME NEW p \in Procs, ReadWav(p) PROVE CoverInv'
  <2>1. /\ UNCHANGED <<wav, disk, pos>>
        /\ pc[p] = "wav" /\ pc'[p] \in {"failed", "fill"} /\ x'[p] = wav
        /\ \A q \in Procs \ {p} : /\ pc'[q] = pc[q] /\ at'[q] = at[q]
                                  /\ x'[q] = x[q]
    BY <1>4 DEF ReadWav, TypeOK
  <2> QED BY <2>1, SoundUntouched DEF CoverInv, Filling
<1>5. ASSUME NEW p \in Procs, OpenCache(p) PROVE CoverInv'
  <2>1. /\ UNCHANGED <<wav, x, at>>
        /\ pc[p] = "fill" /\ pc'[p] = "write" /\ pos'[p] = 0 /\ at[p] \in Files
        /\ \A q \in Procs \ {p} : pc'[q] = pc[q] /\ pos'[q] = pos[q]
        /\ \A f \in Files : f # at[p] => disk'[f] = disk[f]
    BY <1>5 DEF OpenCache, TypeOK
  <2>2. Sound(at[p])'
    BY <2>1 DEF Sound, Covered, Writing, Index
  <2>3. ASSUME NEW f \in Files, f # at[p] PROVE Sound(f)'
    BY <2>1, <2>3, SoundElsewhere DEF CoverInv, Writing
  <2> QED BY <2>1, <2>2, <2>3 DEF CoverInv, Filling
<1>6. ASSUME NEW p \in Procs, WriteBlock(p) PROVE CoverInv'
  <2>0. PICK g \in Files, k \in Index : g = at[p] /\ k = pos[p] + 1
    BY <1>6, BlocksAssumption DEF WriteBlock, TypeOK, WriterInv, Index
  <2>1. /\ UNCHANGED <<wav, x>> /\ Writing(p, g)
        /\ x[p] = wav /\ wav \in Versions
    BY <1>6, <2>0 DEF WriteBlock, Writing, TypeOK, CoverInv, WriterInv, Filling
  <2>2. /\ \A q \in Procs \ {p} : /\ pc'[q] = pc[q] /\ at'[q] = at[q]
                                  /\ pos'[q] = pos[q]
        /\ \A f \in Files : f # g => disk'[f] = disk[f]
        /\ pc'[p] = "write" => at'[p] = g
    BY <1>6, <2>0 DEF WriteBlock, GoOn, TypeOK
  <2>3. k \in Index /\ pos[p] \in Nat /\ pos'[p] = k
    BY <1>6, <2>0, BlocksAssumption DEF WriteBlock, TypeOK, Index
  <2>4. disk'[g] = Written(disk[g], k, wav)
    BY <1>6, <2>0, <2>1 DEF WriteBlock, TypeOK
  <2>5. pc'[p] \in Filling \cup {"done"}
    BY <1>6 DEF WriteBlock, GoOn, TypeOK, Filling
  <2>6. ASSUME NEW i \in Index PROVE Covered(g, i)' \/ disk'[g][i] = wav
    <3>1. disk[g] \in [Index -> Cells] /\ wav \in Cells /\ wav # Absent
      BY <2>1, ValuesAssumption DEF TypeOK, Cells
    <3>2. CASE i = k
      BY <2>3, <2>4, <3>1, <3>2, WrittenType
    <3>3. CASE i > k
      <4>1. k # Blocks
        BY <2>3, <3>3, BlocksAssumption DEF Index
      <4>2. Writing(p, g)'
        BY <1>6, <2>0, <2>1, <4>1 DEF WriteBlock, Writing
      <4> QED BY <2>3, <3>3, <4>2 DEF Covered
    <3>4. CASE i < k
      <4>1. Covered(g, i) \/ disk[g][i] = wav
        BY <2>1 DEF CoverInv, Sound, Writing
      <4>2. CASE disk[g][i] = wav
        <5>1. i # k
          BY <3>4 DEF Index
        <5> QED BY <2>3, <2>4, <3>1, <4>2, <5>1, WrittenType
      <4>3. CASE Covered(g, i)
        <5>1. PICK q \in Procs : Writing(q, g) /\ pos[q] < i
          BY <4>3 DEF Covered
        <5>2. q # p
          BY <2>0, <2>3, <3>4, <5>1 DEF Index
        <5> QED BY <2>2, <5>1, <5>2 DEF Covered, Writing
      <4> QED BY <4>1, <4>2, <4>3
    <3> QED BY <2>3, <3>2, <3>3, <3>4 DEF Index
  <2>7. Sound(g)'
    BY <2>1, <2>6 DEF Sound
  <2>8. ASSUME NEW f \in Files, f # g PROVE Sound(f)'
    BY <2>1, <2>2, <2>8, SoundElsewhere DEF CoverInv, Writing
  <2> QED BY <2>1, <2>2, <2>7, <2>8 DEF CoverInv, Filling
<1>7. ASSUME UNCHANGED vars PROVE CoverInv'
  <2>1. UNCHANGED <<wav, disk, pos, x, at, pc>>
    BY <1>7 DEF vars
  <2> QED BY <2>1, SoundUntouched DEF CoverInv
<1> QED
  BY <1>1, <1>2, <1>3, <1>4, <1>5, <1>6, <1>7 DEF QuietNext, Step, Work, Terminated

\* While the wav is at rest and nothing fails, concurrent processes leave no
\* torn cache file behind: the promise the three writers keep without a lock.
THEOREM SettledIsComplete == QuietSpec => []SettledComplete
<1>1. Init => TypeOK /\ WriterInv /\ CoverInv
  BY InitType DEF Init, CoverInv, Sound, Unwritten, Writing, Empty, Filling
<1>2. TypeOK /\ WriterInv /\ CoverInv /\ [QuietNext]_vars
        => TypeOK' /\ WriterInv' /\ CoverInv'
  BY TypePreserved, WriterPreserved, CoverPreserved, QuietIsNext
<1>3. CoverInv => SettledComplete
  BY DEF CoverInv, Sound, Covered, SettledComplete, Complete
<1> QED BY <1>1, <1>2, <1>3, PTL DEF QuietSpec
-----------------------------------------------------------------------------
(* HitSound: what a reader that met no writer has read *)

\* A step of another process leaves a reader alone when it opens no file.
LEMMA ReaderUntouched ==
    ASSUME NEW p \in Procs, ReaderInv(p),
           wav' = wav, pc'[p] = pc[p], at'[p] = at[p], seen'[p] = seen[p],
           load'[p] = load[p], x'[p] = x[p], raced'[p] = raced[p],
           Writers' \subseteq Writers
    PROVE  ReaderInv(p)'
BY DEF ReaderInv, Hit

LEMMA ReaderPreserved ==
    ASSUME TypeOK, WriterInv, CoverInv, HitInv, [QuietNext]_vars,
           NEW p \in Procs
    PROVE  ReaderInv(p)'
<1>0. ReaderInv(p) /\ wav \in Versions \cup {NoWav} /\ wav # Absent
  BY ValuesAssumption DEF TypeOK, HitInv
<1>1. ASSUME NEW q \in Procs, Invoke(q) PROVE ReaderInv(p)'
  <2>1. /\ pc[q] = "ready" /\ pc'[q] = "stat" /\ UNCHANGED <<wav, at, seen, load, x>>
        /\ raced'[q] = (Writers # {}) /\ Writers' = Writers
        /\ \A r \in Procs \ {q} : pc'[r] = pc[r] /\ raced'[r] = raced[r]
    BY <1>1 DEF Invoke, TypeOK, Writers
  <2>2. CASE q = p
    <3>1. at'[p] = DIO
      BY <1>0, <2>1, <2>2 DEF ReaderInv
    <3>2. \A f \in Files : ~(f < at'[p])
      BY <3>1 DEF Files, DIO, PLATINUM
    <3>3. raced'[p] \/ Writers' = {}
      BY <2>1, <2>2
    <3> QED BY <2>1, <2>2, <3>2, <3>3 DEF ReaderInv, Hit, Reading
  <2>3. CASE q # p
    BY <1>0, <2>1, <2>3, ReaderUntouched
  <2> QED BY <2>2, <2>3
<1>2. ASSUME NEW q \in Procs, StatCache(q) PROVE ReaderInv(p)'
  <2>1. /\ pc[q] = "stat" /\ pc'[q] \in {"read", "wav"}
        /\ UNCHANGED <<wav, at, load, x, raced>> /\ Writers' = Writers
        /\ \A r \in Procs \ {q} : pc'[r] = pc[r] /\ seen'[r] = seen[r]
        /\ pc'[q] = "read" =>
              Present(at[q]) # {} /\ seen'[q] = Present(at[q])
    BY <1>2 DEF StatCache, TypeOK, Writers
  <2>2. CASE q = p /\ pc'[p] = "read" /\ ~raced[p]
    <3>1. Writers = {}
      BY <1>0, <2>1, <2>2 DEF ReaderInv, Reading
    <3>2. at[p] \in Files /\ ~Unwritten(at[p])
      BY <2>1, <2>2 DEF Present, Unwritten, TypeOK
    <3>3. \A i \in Index : disk[at[p]][i] = wav
      BY <3>1, <3>2 DEF CoverInv, Sound, Covered, Writing, Writers
    <3>4. seen'[p] = Index
      BY <1>0, <2>1, <2>2, <3>3 DEF Present
    <3> QED BY <1>0, <2>1, <2>2, <3>4 DEF ReaderInv, Hit, Reading
  <2>3. CASE q = p /\ ~(pc'[p] = "read" /\ ~raced[p])
    BY <1>0, <2>1, <2>3 DEF ReaderInv, Hit, Reading
  <2>4. CASE q # p
    BY <1>0, <2>1, <2>4, ReaderUntouched
  <2> QED BY <2>2, <2>3, <2>4
<1>3. ASSUME NEW q \in Procs, ReadCache(q) PROVE ReaderInv(p)'
  <2>1. /\ pc[q] = "read" /\ UNCHANGED <<wav, disk, seen, x, raced>>
        /\ pc'[q] \in {"stat", "done", "wav"} /\ Writers' = Writers
        /\ \A r \in Procs \ {q} : /\ pc'[r] = pc[r] /\ at'[r] = at[r]
                                  /\ load'[r] = load[r]
    BY <1>3 DEF ReadCache, TypeOK, Writers
  <2>2. CASE q = p /\ pc'[p] # "wav" /\ ~raced[p]
    <3>1. PICK g \in Files : g = at[p]
      BY DEF TypeOK
    <3>2. /\ seen[p] \subseteq Present(g)
          /\ load' = [load EXCEPT ![p][g] = Contents(p)]
          /\ pc'[p] = "done" => g = PLATINUM
          /\ pc'[p] = "stat" => at'[p] = g + 1
      BY <1>3, <2>1, <2>2, <3>1 DEF ReadCache, TypeOK
    <3>3. /\ Writers = {} /\ seen[p] = Index
          /\ \A f \in Files, i \in Index : f < g => load[p][f][i] = wav
      BY <1>0, <2>1, <2>2, <3>1 DEF ReaderInv, Reading
    <3>4. \A i \in Index : disk[g][i] = wav
      <4>1. ~Unwritten(g)
        BY <3>2, <3>3, BlocksAssumption DEF Present, Unwritten, Index
      <4> QED BY <3>3, <4>1 DEF CoverInv, Sound, Covered, Writing, Writers
    <3>5. \A i \in Index : Contents(p)[i] = wav
      BY <3>1, <3>3, <3>4 DEF Contents
    <3>6. /\ load'[p][g] = Contents(p)
          /\ \A f \in Files : f # g => load'[p][f] = load[p][f]
      <4>1. load[p] = [f \in Files |-> load[p][f]] /\ load = [r \in Procs |-> load[r]]
        BY DEF TypeOK
      <4> QED BY <3>2, <4>1
    <3>7. \A f \in Files, i \in Index : f <= g => load'[p][f][i] = wav
      BY <3>3, <3>5, <3>6 DEF Files, DIO, PLATINUM
    <3>8. CASE pc'[p] = "done"
      <4>1. \A f \in Files, i \in Index : load'[p][f][i] = wav
        BY <3>2, <3>7, <3>8 DEF Files, DIO, PLATINUM
      <4> QED BY <2>1, <3>8, <4>1 DEF ReaderInv, Reading
    <3>9. CASE pc'[p] = "stat"
      <4>1. \A f \in Files, i \in Index : f < at'[p] => load'[p][f][i] = wav
        BY <3>2, <3>7, <3>9 DEF Files, DIO, PLATINUM
      <4> QED BY <2>1, <3>3, <3>9, <4>1 DEF ReaderInv, Hit
    <3> QED BY <2>1, <2>2, <3>8, <3>9
  <2>3. CASE q = p /\ (pc'[p] = "wav" \/ raced[p])
    BY <1>0, <2>1, <2>3 DEF ReaderInv, Hit, Reading
  <2>4. CASE q # p
    BY <1>0, <2>1, <2>4, ReaderUntouched
  <2> QED BY <2>2, <2>3, <2>4
<1>4. ASSUME NEW q \in Procs, ReadWav(q) PROVE ReaderInv(p)'
  <2>1. /\ pc[q] = "wav" /\ pc'[q] \in {"failed", "fill"}
        /\ UNCHANGED <<wav, seen, load, raced>> /\ Writers' = Writers
        /\ \A r \in Procs \ {q} : /\ pc'[r] = pc[r] /\ at'[r] = at[r]
                                  /\ x'[r] = x[r]
    BY <1>4 DEF ReadWav, TypeOK, Writers
  <2>2. CASE q = p
    BY <2>1, <2>2 DEF ReaderInv, Hit, Reading
  <2>3. CASE q # p
    BY <1>0, <2>1, <2>3, ReaderUntouched
  <2> QED BY <2>2, <2>3
<1>5. ASSUME NEW q \in Procs, OpenCache(q) PROVE ReaderInv(p)'
  <2>1. /\ pc[q] = "fill" /\ pc'[q] = "write" /\ UNCHANGED <<wav, at, seen, load, x>>
        /\ raced'[p] = (raced[p] \/ pc[p] \in Reading)
        /\ \A r \in Procs \ {q} : pc'[r] = pc[r]
    BY <1>5 DEF OpenCache, TypeOK
  <2> QED BY <1>0, <2>1 DEF ReaderInv, Hit, Reading
<1>6. ASSUME NEW q \in Procs, WriteBlock(q) PROVE ReaderInv(p)'
  <2>1. /\ pc[q] = "write" /\ pc'[q] \in {"write", "fill", "done"}
        /\ UNCHANGED <<wav, seen, load, x, raced>> /\ q \in Writers
        /\ \A r \in Procs \ {q} : pc'[r] = pc[r] /\ at'[r] = at[r]
    BY <1>6 DEF WriteBlock, GoOn, TypeOK, Writers
  <2>2. CASE q = p
    <3>1. x'[p] # NoWav
      BY <2>1, <2>2, ValuesAssumption DEF WriterInv, Filling
    <3> QED BY <2>1, <2>2, <3>1 DEF ReaderInv, Hit, Reading
  <2>3. CASE q # p
    BY <1>0, <2>1, <2>3 DEF ReaderInv, Hit
  <2> QED BY <2>2, <2>3
<1>7. ASSUME UNCHANGED vars PROVE ReaderInv(p)'
  BY <1>0, <1>7 DEF vars, ReaderInv, Hit, Writers
<1> QED
  BY <1>1, <1>2, <1>3, <1>4, <1>5, <1>6, <1>7 DEF QuietNext, Step, Work, Terminated

\* A process that met no writer and accepted three headers has all the frames.
THEOREM HitsAreSound == QuietSpec => []HitSound
<1>. DEFINE IInv == TypeOK /\ WriterInv /\ CoverInv /\ HitInv
<1>1. Init => IInv
  BY InitType
  DEF Init, CoverInv, Sound, Unwritten, Writing, Empty, Filling, HitInv, ReaderInv,
      Hit, Reading
<1>2. IInv /\ [QuietNext]_vars => IInv'
  <2>1. IInv /\ [QuietNext]_vars => TypeOK' /\ WriterInv' /\ CoverInv'
    BY TypePreserved, WriterPreserved, CoverPreserved, QuietIsNext
  <2>2. IInv /\ [QuietNext]_vars => HitInv'
    BY ReaderPreserved DEF HitInv
  <2> QED BY <2>1, <2>2
<1>3. IInv => HitSound
  BY DEF HitInv, ReaderInv, HitSound
<1> QED BY <1>1, <1>2, <1>3, PTL DEF QuietSpec
-----------------------------------------------------------------------------
(* One process at a time *)

\* What a writer has left of v after n buffers.
Prefix(v, n) == [i \in Index |-> IF i <= n THEN v ELSE Absent]

OneActive == \A p, q \in Procs : p \in Active /\ q \in Active => p = q

\* The strengthening of PrefixOfOneVersion: the only writer has flushed the
\* beginning of the file it has open.
PrefixInv ==
    /\ OneActive
    /\ \A p \in Procs : pc[p] = "write" => disk[at[p]] = Prefix(x[p], pos[p])
    /\ PrefixOfOneVersion

LEMMA SerialIsNext == [SerialNext]_vars => [Next]_vars
BY DEF SerialNext, CleanSerialNext, Next, InvokeAlone, Step

LEMMA OneActivePreserved ==
    ASSUME TypeOK, OneActive, [SerialNext]_vars
    PROVE  OneActive'
<1>1. ASSUME NEW p \in Procs, InvokeAlone(p) PROVE OneActive'
  BY <1>1 DEF InvokeAlone, Invoke, OneActive, Active, TypeOK
<1>2. ASSUME NEW p \in Procs, p \in Active, \A q \in Procs : q # p => pc'[q] = pc[q]
      PROVE  OneActive'
  BY <1>2 DEF OneActive, Active
<1>3. ASSUME UNCHANGED pc PROVE OneActive'
  BY <1>3 DEF OneActive, Active
<1>4. ASSUME NEW p \in Procs, Work(p) \/ FailAnalysis(p) \/ Fault(p) PROVE OneActive'
  <2>1. p \in Active
    BY <1>4
    DEF Work, FailAnalysis, Fault, StatCache, ReadCache, ReadWav, OpenCache, WriteBlock,
        SkipCache, DiskFull, Crash, Active, Reading, Filling
  <2>2. \A q \in Procs : q # p => pc'[q] = pc[q]
    BY <1>4
    DEF Work, FailAnalysis, Fault, StatCache, ReadCache, ReadWav, OpenCache, WriteBlock,
        SkipCache, DiskFull, Crash, GoOn, TypeOK
  <2> QED BY <1>2, <2>1, <2>2
<1> QED
  BY <1>1, <1>3, <1>4
  DEF SerialNext, CleanSerialNext, Edit, EditWav, Terminated, vars

LEMMA WrittenPrefix ==
    ASSUME NEW v \in Versions, NEW n \in Nat, n < Blocks
    PROVE  /\ n + 1 \in 0 .. Blocks
           /\ Written(Prefix(v, n), n + 1, v) = Prefix(v, n + 1)
BY BlocksAssumption, ValuesAssumption DEF Written, Prefix, Index

LEMMA PrefixPreserved ==
    ASSUME TypeOK, WriterInv, PrefixInv, [SerialNext]_vars
    PROVE  PrefixInv'
<1>. DEFINE Kept(f) == \E v \in Versions, n \in 0 .. Blocks : disk[f] = Prefix(v, n)
            Open(q) == pc[q] = "write" => disk[at[q]] = Prefix(x[q], pos[q])
<1>0. OneActive /\ (\A f \in Files : Kept(f)) /\ (\A q \in Procs : Open(q))
  BY DEF PrefixInv, PrefixOfOneVersion, Prefix
<1>a. OneActive'
  BY <1>0, OneActivePreserved
<1>b. SUFFICES (\A f \in Files : Kept(f))' /\ (\A q \in Procs : Open(q))'
  BY <1>a DEF PrefixInv, PrefixOfOneVersion, Prefix
<1>1. ASSUME UNCHANGED disk,
             \A q \in Procs : pc'[q] = "write" =>
                pc[q] = "write" /\ at'[q] = at[q] /\ x'[q] = x[q] /\ pos'[q] = pos[q]
      PROVE  (\A f \in Files : Kept(f))' /\ (\A q \in Procs : Open(q))'
  BY <1>0, <1>1
<1>2. ASSUME NEW p \in Procs, OpenCache(p)
      PROVE  (\A f \in Files : Kept(f))' /\ (\A q \in Procs : Open(q))'
  <2>1. /\ pc[p] = "fill" /\ at' = at /\ x' = x /\ at[p] \in Files /\ x[p] \in Versions
        /\ disk'[at[p]] = Empty /\ \A f \in Files : f # at[p] => disk'[f] = disk[f]
        /\ pos'[p] = 0 /\ \A q \in Procs : q # p => pc'[q] = pc[q] /\ pos'[q] = pos[q]
    BY <1>2 DEF OpenCache, TypeOK, WriterInv, Filling
  <2>2. Empty = Prefix(x[p], 0) /\ 0 \in 0 .. Blocks
    BY BlocksAssumption DEF Empty, Prefix, Index
  <2>3. \A q \in Procs : q # p => pc'[q] # "write"
    BY <1>0, <2>1 DEF OneActive, Active, Filling
  <2>4. \A f \in Files : Kept(f)'
    BY <1>0, <2>1, <2>2
  <2>5. \A q \in Procs : Open(q)'
    BY <2>1, <2>2, <2>3
  <2> QED BY <2>4, <2>5
<1>3. ASSUME NEW p \in Procs, WriteBlock(p)
      PROVE  (\A f \in Files : Kept(f))' /\ (\A q \in Procs : Open(q))'
  <2>1. /\ pc[p] = "write" /\ x' = x /\ at[p] \in Files /\ x[p] \in Versions
        /\ pos[p] \in Nat /\ pos[p] < Blocks /\ pos'[p] = pos[p] + 1
        /\ disk'[at[p]] = Written(disk[at[p]], pos[p] + 1, x[p])
        /\ \A f \in Files : f # at[p] => disk'[f] = disk[f]
        /\ \A q \in Procs : q # p => pc'[q] = pc[q] /\ pos'[q] = pos[q]
        /\ pc'[p] = "write" => at'[p] = at[p]
    BY <1>3 DEF WriteBlock, GoOn, TypeOK, WriterInv, Filling
  <2>2. /\ pos[p] + 1 \in 0 .. Blocks
        /\ disk'[at[p]] = Prefix(x[p], pos[p] + 1)
    BY <1>0, <2>1, WrittenPrefix
  <2>3. \A q \in Procs : q # p => pc'[q] # "write"
    BY <1>0, <2>1 DEF OneActive, Active, Filling
  <2>4. \A f \in Files : Kept(f)'
    BY <1>0, <2>1, <2>2
  <2>5. \A q \in Procs : Open(q)'
    BY <2>1, <2>2, <2>3
  <2> QED BY <2>4, <2>5
<1>4. ASSUME NEW p \in Procs,
             InvokeAlone(p) \/ StatCache(p) \/ ReadCache(p) \/ ReadWav(p)
               \/ FailAnalysis(p) \/ Crash(p)
      PROVE  (\A f \in Files : Kept(f))' /\ (\A q \in Procs : Open(q))'
  <2>1. UNCHANGED <<disk, pos>> /\ pc'[p] # "write"
        /\ \A q \in Procs : q # p => pc'[q] = pc[q] /\ at'[q] = at[q] /\ x'[q] = x[q]
    BY <1>4
    DEF InvokeAlone, Invoke, StatCache, ReadCache, ReadWav, FailAnalysis, Crash, TypeOK
  <2> QED BY <1>1, <2>1
<1>5. ASSUME NEW p \in Procs, SkipCache(p) \/ DiskFull(p)
      PROVE  (\A f \in Files : Kept(f))' /\ (\A q \in Procs : Open(q))'
  <2>1. UNCHANGED <<disk, pos, x>> /\ pc'[p] # "write"
        /\ \A q \in Procs : q # p => pc'[q] = pc[q] /\ at'[q] = at[q]
    BY <1>5 DEF SkipCache, DiskFull, GoOn, TypeOK
  <2> QED BY <1>1, <2>1
<1>6. ASSUME UNCHANGED <<disk, pc, at, x, pos>>
      PROVE  (\A f \in Files : Kept(f))' /\ (\A q \in Procs : Open(q))'
  BY <1>1, <1>6
<1> QED
  BY <1>2, <1>3, <1>4, <1>5, <1>6
  DEF SerialNext, CleanSerialNext, Work, Fault, Edit, EditWav, Terminated, vars

\* Whatever is killed, cut short or edited between two steps of one process at a
\* time: a file is the beginning of one analysis.
THEOREM FilesArePrefixes == SerialSpec => []PrefixOfOneVersion
<1>. DEFINE IInv == TypeOK /\ WriterInv /\ PrefixInv
<1>1. ASSUME Init PROVE PrefixInv
  <2>1. PICK v \in Versions : TRUE
    BY VersionsAssumption
  <2>2. 0 \in 0 .. Blocks /\ Empty = [i \in Index |-> IF i <= 0 THEN v ELSE Absent]
    BY BlocksAssumption DEF Empty, Index
  <2>3. \A f \in Files : disk[f] = [i \in Index |-> IF i <= 0 THEN v ELSE Absent]
    BY <1>1, <2>2 DEF Init
  <2>4. PrefixOfOneVersion
    BY <2>1, <2>2, <2>3 DEF PrefixOfOneVersion
  <2>5. \A p \in Procs : pc[p] = "ready"
    BY <1>1 DEF Init
  <2> QED BY <2>4, <2>5 DEF PrefixInv, OneActive, Active, Reading, Filling
<1>2. Init => IInv
  BY <1>1, InitType
<1>3. IInv /\ [SerialNext]_vars => IInv'
  BY TypePreserved, WriterPreserved, PrefixPreserved, SerialIsNext
<1>4. IInv => PrefixOfOneVersion
  BY DEF PrefixInv
<1> QED BY <1>2, <1>3, <1>4, PTL DEF SerialSpec

-----------------------------------------------------------------------------
(* The refinement of VoiceCache *)

\* No reader accepts the .platinum file.
Unaccepted == Unwritten(PLATINUM) \/ \E v \in Long : Complete(PLATINUM, v)

\* A process that has missed replaces files of which the last is not accepted,
\* and has replaced those before the one it is at.
FillerInv(p) ==
    /\ pc[p] \in {"wav"} \cup Filling =>
          (pc[p] = "write" /\ at[p] = PLATINUM) \/ Unaccepted
    /\ pc[p] \in Filling => \A f \in Files : f < at[p] => Complete(f, x[p])
    /\ pc[p] = "write" => disk[at[p]] = Prefix(x[p], pos[p])

\* A process that has not missed has what the files before hold.
LoaderInv(p) ==
    /\ pc[p] \in {"ready", "wav"} \cup Reading => x[p] = NoWav
    /\ pc[p] = "ready" => at[p] = DIO
    /\ pc[p] \in Reading =>
          \A f \in Files : f < at[p] => \A i \in Present(f) : load[p][f][i] = disk[f][i]
    /\ pc[p] = "read" => seen[p] = Present(at[p])

\* The last file is accepted when all three are of one version, and only then
\* while no process is at work on it.
CleanInv ==
    /\ OneActive
    /\ \A p \in Procs : FillerInv(p) /\ LoaderInv(p)
    /\ \/ Unaccepted
       \/ Stored # NoWav
       \/ \E p \in Procs : Writing(p, PLATINUM)

LEMMA StoredWhole ==
    /\ \A v \in Versions \ Long : (\A f \in Files : Complete(f, v)) => Stored = v
    /\ Stored # NoWav => /\ Stored \in Versions \ Long
                         /\ \A f \in Files : Complete(f, Stored)
<1>1. 1 \in Index /\ DIO \in Files
  BY BlocksAssumption DEF Index, Files, DIO, PLATINUM
<1>2. ASSUME NEW v \in Versions \ Long, \A f \in Files : Complete(f, v) PROVE Stored = v
  <2>1. disk[DIO][1] = v
    BY <1>1, <1>2 DEF Complete
  <2> QED BY <1>2, <2>1 DEF Stored
<1>3. Stored # NoWav => /\ Stored \in Versions \ Long
                        /\ \A f \in Files : Complete(f, Stored)
  BY DEF Stored
<1> QED BY <1>2, <1>3

LEMMA UnacceptedMisses == Unaccepted => Stored = NoWav
<1>1. 1 \in Index /\ PLATINUM \in Files
  BY BlocksAssumption DEF Index, Files, DIO, PLATINUM
<1>2. SUFFICES ASSUME Unaccepted, Stored # NoWav PROVE FALSE
  OBVIOUS
<1>3. disk[PLATINUM][1] = Stored /\ Stored \in Versions \ Long
  BY <1>1, <1>2, StoredWhole DEF Complete
<1> QED BY <1>1, <1>2, <1>3, ValuesAssumption DEF Unaccepted, Unwritten, Complete

\* A step that writes nothing and lets no process into the analysis.
LEMMA CleanUntouched ==
    ASSUME CleanInv, OneActive', UNCHANGED disk,
           NEW p \in Procs,
           \A q \in Procs \ {p} :
              /\ pc'[q] = pc[q] /\ at'[q] = at[q] /\ x'[q] = x[q] /\ pos'[q] = pos[q]
              /\ seen'[q] = seen[q] /\ load'[q] = load[q],
           FillerInv(p)', LoaderInv(p)',
           Writing(p, PLATINUM) => Unaccepted \/ Stored # NoWav \/ Writing(p, PLATINUM)'
    PROVE  CleanInv'
<1>1. /\ Unaccepted' <=> Unaccepted
      /\ Stored' = Stored
  BY DEF Unaccepted, Unwritten, Complete, Stored
<1>2. ASSUME NEW q \in Procs \ {p} PROVE FillerInv(q)' /\ LoaderInv(q)'
  <2>1. FillerInv(q) /\ LoaderInv(q)
    BY DEF CleanInv
  <2> QED BY <1>1, <2>1 DEF FillerInv, LoaderInv, Complete, Present
<1>3. (Unaccepted \/ Stored # NoWav \/ \E q \in Procs : Writing(q, PLATINUM))'
  BY <1>1 DEF CleanInv, Writing
<1> QED BY <1>2, <1>3 DEF CleanInv

\* The same of the state after a step.
LEMMA StoredAfter ==
    \A v \in Versions \ Long : (\A f \in Files : Complete(f, v)') => Stored' = v
<1>1. 1 \in Index /\ DIO \in Files
  BY BlocksAssumption DEF Index, Files, DIO, PLATINUM
<1>2. ASSUME NEW v \in Versions \ Long, \A f \in Files : Complete(f, v)'
      PROVE  Stored' = v
  <2>1. disk'[DIO][1] = v
    BY <1>1, <1>2 DEF Complete
  <2> QED BY <1>2, <2>1 DEF Stored
<1> QED BY <1>2

\* A reader that refuses a file has met no whole store.
LEMMA RefusedNotStored ==
    ASSUME TypeOK, NEW p \in Procs, LoaderInv(p), ReadCache(p), pc'[p] = "wav"
    PROVE  Stored = NoWav
<1>1. SUFFICES ASSUME Stored # NoWav PROVE FALSE
  OBVIOUS
<1>. DEFINE v == Stored
<1>2. /\ v \in Versions \ Long /\ v # Absent
      /\ \A f \in Files : Complete(f, v)
  BY <1>1, StoredWhole, ValuesAssumption
<1>3. \A f \in Files : Present(f) = Index
  BY <1>2 DEF Present, Complete
<1>4. /\ pc[p] = "read" /\ at[p] \in Files /\ 1 \in Index /\ DIO \in Files
      /\ seen[p] = Index
  BY <1>3, BlocksAssumption DEF ReadCache, LoaderInv, TypeOK, Index, Files, DIO, PLATINUM
<1>5. Contents(p)[1] = v
  BY <1>2, <1>4 DEF Contents, Complete
<1>6. at[p] # DIO => load[p][DIO][1] = v
  <2>1. at[p] # DIO => DIO < at[p]
    BY <1>4 DEF Files, DIO, PLATINUM
  <2> QED BY <1>2, <1>3, <1>4, <2>1 DEF LoaderInv, Reading, Complete
<1>7. Accepted(at[p], Contents(p), load[p][DIO])
  <2>1. at[p] = DIO \/ at[p] = STAR \/ at[p] = PLATINUM
    BY <1>4 DEF Files, DIO, STAR, PLATINUM
  <2> QED BY <1>2, <1>5, <1>6, <2>1
          DEF Accepted, DioAccepted, StarAccepted, PlatinumAccepted, DIO, STAR, PLATINUM
<1>8. seen[p] \subseteq Present(at[p])
  BY <1>3, <1>4
<1>9. pc'[p] # "wav"
  BY <1>7, <1>8 DEF ReadCache, TypeOK
<1> QED BY <1>9

LEMMA CleanPreserved ==
    ASSUME TypeOK, WriterInv, CleanInv, [CleanSerialNext]_vars
    PROVE  CleanInv'
<1>0. /\ OneActive
      /\ \A p \in Procs : FillerInv(p) /\ LoaderInv(p)
      /\ Unaccepted \/ Stored # NoWav \/ \E p \in Procs : Writing(p, PLATINUM)
  BY DEF CleanInv
<1>a. OneActive'
  BY <1>0, OneActivePreserved DEF SerialNext
<1>1. ASSUME NEW p \in Procs, InvokeAlone(p) PROVE CleanInv'
  <2>1. /\ pc[p] = "ready" /\ pc'[p] = "stat"
        /\ UNCHANGED <<wav, disk, at, seen, load, x, pos>>
        /\ \A q \in Procs \ {p} : pc'[q] = pc[q]
    BY <1>1 DEF InvokeAlone, Invoke, TypeOK
  <2>2. FillerInv(p)' /\ LoaderInv(p)'
    BY <1>0, <2>1 DEF FillerInv, LoaderInv, Filling, Reading, Files, DIO
  <2> QED BY <1>a, <2>1, <2>2, CleanUntouched DEF Writing
<1>2. ASSUME NEW p \in Procs, StatCache(p) PROVE CleanInv'
  <2>1. /\ pc[p] = "stat" /\ UNCHANGED <<wav, disk, at, load, x, pos>>
        /\ pc'[p] = IF Present(at[p]) = {} THEN "wav" ELSE "read"
        /\ seen'[p] = Present(at[p])
        /\ \A q \in Procs \ {p} : pc'[q] = pc[q] /\ seen'[q] = seen[q]
    BY <1>2 DEF StatCache, TypeOK
  <2>2. LoaderInv(p)'
    BY <1>0, <2>1 DEF LoaderInv, Reading, Present
  <2>3. FillerInv(p)'
    <3>1. CASE pc'[p] = "read"
      BY <3>1 DEF FillerInv, Filling
    <3>2. CASE pc'[p] = "wav"
      <4>1. Present(at[p]) = {} /\ at[p] \in Files /\ 1 \in Index
        BY <2>1, <3>2, BlocksAssumption DEF TypeOK, Index
      <4>2. disk[at[p]][1] = Absent
        BY <4>1 DEF Present
      <4>3. Stored = NoWav
        BY <4>1, <4>2, StoredWhole, ValuesAssumption DEF Complete
      <4>4. \A q \in Procs : ~Writing(q, PLATINUM)
        BY <1>0, <2>1 DEF OneActive, Active, Writing, Reading, Filling
      <4>5. Unaccepted
        BY <1>0, <4>3, <4>4
      <4> QED BY <2>1, <3>2, <4>5 DEF FillerInv, Filling, Unaccepted, Unwritten, Complete
    <3> QED BY <2>1, <3>1, <3>2
  <2> QED BY <1>a, <2>1, <2>2, <2>3, CleanUntouched DEF Writing
<1>3. ASSUME NEW p \in Procs, ReadCache(p) PROVE CleanInv'
  <2>1. /\ pc[p] = "read" /\ UNCHANGED <<wav, disk, seen, x, pos>>
        /\ pc'[p] \in {"stat", "done", "wav"}
        /\ \A q \in Procs \ {p} : /\ pc'[q] = pc[q] /\ at'[q] = at[q]
                                  /\ load'[q] = load[q]
    BY <1>3 DEF ReadCache, TypeOK
  <2>2. /\ at[p] \in Files /\ seen[p] = Present(at[p]) /\ x[p] = NoWav
        /\ \A f \in Files : f < at[p] => \A i \in Present(f) : load[p][f][i] = disk[f][i]
    BY <1>0, <2>1 DEF LoaderInv, Reading, TypeOK
  <2>3. CASE pc'[p] = "stat"
    <3>1. /\ at'[p] = at[p] + 1
          /\ load' = [load EXCEPT ![p][at[p]] = Contents(p)]
      BY <1>3, <2>3 DEF ReadCache, TypeOK
    <3>2. /\ load'[p][at[p]] = Contents(p)
          /\ \A f \in Files : f # at[p] => load'[p][f] = load[p][f]
      <4>1. load[p] = [f \in Files |-> load[p][f]] /\ load = [r \in Procs |-> load[r]]
        BY DEF TypeOK
      <4> QED BY <2>2, <3>1, <4>1
    <3>3. \A i \in Present(at[p]) : Contents(p)[i] = disk[at[p]][i]
      BY <2>2 DEF Contents, Present
    <3>4. \A f \in Files : f < at'[p] => f < at[p] \/ f = at[p]
      BY <2>2, <3>1 DEF Files, DIO, PLATINUM
    <3>5. \A f \in Files : Present(f)' = Present(f)
      BY <2>1 DEF Present
    <3>6. FillerInv(p)' /\ LoaderInv(p)'
      BY <2>1, <2>2, <2>3, <3>2, <3>3, <3>4, <3>5 DEF FillerInv, LoaderInv, Filling
    <3> QED BY <1>a, <2>1, <3>6, CleanUntouched DEF Writing
  <2>4. CASE pc'[p] = "done"
    <3>1. FillerInv(p)' /\ LoaderInv(p)'
      BY <2>4 DEF FillerInv, LoaderInv, Filling, Reading
    <3> QED BY <1>a, <2>1, <3>1, CleanUntouched DEF Writing
  <2>5. CASE pc'[p] = "wav"
    <3>1. Stored = NoWav
      BY <1>3, <2>1, <2>5, RefusedNotStored, <1>0
    <3>2. \A q \in Procs : ~Writing(q, PLATINUM)
      BY <1>0, <2>1 DEF OneActive, Active, Writing, Reading, Filling
    <3>3. Unaccepted /\ Unaccepted'
      BY <1>0, <2>1, <3>1, <3>2 DEF Unaccepted, Unwritten, Complete
    <3>4. FillerInv(p)' /\ LoaderInv(p)'
      BY <2>1, <2>2, <2>5, <3>3 DEF FillerInv, LoaderInv, Filling, Reading
    <3> QED BY <1>a, <2>1, <3>4, CleanUntouched DEF Writing
  <2> QED BY <2>1, <2>3, <2>4, <2>5
<1>4. ASSUME NEW p \in Procs, ReadWav(p) PROVE CleanInv'
  <2>1. /\ pc[p] = "wav" /\ pc'[p] \in {"failed", "fill"} /\ at'[p] = DIO
        /\ UNCHANGED <<wav, disk, seen, load, pos>>
        /\ \A q \in Procs \ {p} : pc'[q] = pc[q] /\ at'[q] = at[q] /\ x'[q] = x[q]
    BY <1>4 DEF ReadWav, TypeOK
  <2>2. Unaccepted /\ Unaccepted'
    BY <1>0, <2>1 DEF FillerInv, Unaccepted, Unwritten, Complete
  <2>3. FillerInv(p)' /\ LoaderInv(p)'
    BY <2>1, <2>2 DEF FillerInv, LoaderInv, Filling, Reading, Files, DIO
  <2> QED BY <1>a, <2>1, <2>3, CleanUntouched DEF Writing
<1>5. ASSUME NEW p \in Procs, FailAnalysis(p) PROVE CleanInv'
  <2>1. /\ pc[p] = "fill" /\ pc'[p] = "failed"
        /\ UNCHANGED <<wav, disk, at, seen, load, x, pos>>
        /\ \A q \in Procs \ {p} : pc'[q] = pc[q]
    BY <1>5 DEF FailAnalysis, TypeOK
  <2>2. FillerInv(p)' /\ LoaderInv(p)'
    BY <2>1 DEF FillerInv, LoaderInv, Filling, Reading
  <2> QED BY <1>a, <2>1, <2>2, CleanUntouched DEF Writing
<1>6. ASSUME NEW p \in Procs, OpenCache(p) PROVE CleanInv'
  <2>1. /\ pc[p] = "fill" /\ pc'[p] = "write" /\ pos'[p] = 0 /\ at[p] \in Files
        /\ disk'[at[p]] = Empty /\ \A f \in Files : f # at[p] => disk'[f] = disk[f]
        /\ UNCHANGED <<wav, at, seen, load, x>>
        /\ \A q \in Procs \ {p} : pc'[q] = pc[q] /\ pos'[q] = pos[q]
    BY <1>6 DEF OpenCache, TypeOK
  <2>2. \A q \in Procs \ {p} : pc[q] \notin Reading \cup {"wav"} \cup Filling
    BY <1>0, <2>1 DEF OneActive, Active, Filling
  <2>3. Empty = Prefix(x[p], 0)
    BY BlocksAssumption DEF Empty, Prefix, Index
  <2>4. Unaccepted'
    <3>1. Unaccepted
      BY <1>0, <2>1 DEF FillerInv, Filling
    <3>2. CASE at[p] = PLATINUM
      BY <2>1, <3>2 DEF Unaccepted, Unwritten, Empty
    <3>3. CASE at[p] # PLATINUM
      BY <2>1, <3>1, <3>3 DEF Unaccepted, Unwritten, Complete, Files, DIO, PLATINUM
    <3> QED BY <3>2, <3>3
  <2>5. \A f \in Files : f < at[p] => Complete(f, x[p])'
    <3>1. \A f \in Files : f < at[p] => Complete(f, x[p]) /\ f # at[p]
      BY <1>0, <2>1 DEF FillerInv, Filling, Files, DIO, PLATINUM
    <3> QED BY <2>1, <3>1 DEF Complete
  <2>6. FillerInv(p)' /\ LoaderInv(p)'
    BY <2>1, <2>3, <2>4, <2>5 DEF FillerInv, LoaderInv, Reading
  <2>7. ASSUME NEW q \in Procs \ {p} PROVE FillerInv(q)' /\ LoaderInv(q)'
    BY <1>0, <2>1, <2>2, <2>7 DEF FillerInv, LoaderInv, Reading, Filling
  <2> QED BY <1>a, <2>4, <2>6, <2>7 DEF CleanInv
<1>7. ASSUME NEW p \in Procs, WriteBlock(p) PROVE CleanInv'
  <2>1. /\ pc[p] = "write" /\ at[p] \in Files /\ x[p] \in Versions
        /\ pos[p] \in Nat /\ pos[p] < Blocks /\ pos'[p] = pos[p] + 1
        /\ disk'[at[p]] = Written(disk[at[p]], pos[p] + 1, x[p])
        /\ \A f \in Files : f # at[p] => disk'[f] = disk[f]
        /\ UNCHANGED <<wav, seen, load, x>>
        /\ \A q \in Procs \ {p} : pc'[q] = pc[q] /\ at'[q] = at[q] /\ pos'[q] = pos[q]
    BY <1>7 DEF WriteBlock, GoOn, TypeOK, WriterInv, Filling
  <2>2. \A q \in Procs \ {p} : pc[q] \notin Reading \cup {"wav"} \cup Filling
    BY <1>0, <2>1 DEF OneActive, Active, Filling
  <2>3. /\ disk'[at[p]] = Prefix(x[p], pos[p] + 1)
        /\ at[p] = PLATINUM \/ Unaccepted
        /\ \A f \in Files : f < at[p] => Complete(f, x[p])
    BY <1>0, <2>1, WrittenPrefix DEF FillerInv, Filling
  <2>4. at[p] # PLATINUM => Unaccepted'
    BY <2>1, <2>3 DEF Unaccepted, Unwritten, Complete, Files, DIO, PLATINUM
  <2>5. \A f \in Files : f < at[p] => Complete(f, x[p])'
    <3>1. \A f \in Files : f < at[p] => f # at[p]
      BY <2>1 DEF Files, DIO, PLATINUM
    <3> QED BY <2>1, <2>3, <3>1 DEF Complete
  <2>6. ASSUME NEW q \in Procs \ {p} PROVE FillerInv(q)' /\ LoaderInv(q)'
    BY <1>0, <2>1, <2>2, <2>6 DEF FillerInv, LoaderInv, Reading, Filling
  <2>7. CASE pos[p] + 1 # Blocks
    <3>1. pc' = pc /\ at' = at
      BY <1>7, <2>7 DEF WriteBlock
    <3>2. FillerInv(p)' /\ LoaderInv(p)'
      BY <2>1, <2>3, <2>4, <2>5, <3>1 DEF FillerInv, LoaderInv, Reading, Filling
    <3>3. Unaccepted' \/ Writing(p, PLATINUM)'
      BY <2>1, <2>4, <3>1 DEF Writing
    <3> QED BY <1>a, <2>6, <3>2, <3>3 DEF CleanInv
  <2>8. CASE pos[p] + 1 = Blocks /\ at[p] # PLATINUM
    <3>1. pc'[p] = "fill" /\ at'[p] = at[p] + 1
      BY <1>7, <2>8 DEF WriteBlock, GoOn, TypeOK
    <3>2. \A i \in Index : disk'[at[p]][i] = x[p]
      BY <2>1, <2>3, <2>8 DEF Prefix, Index
    <3>3. \A f \in Files : f < at'[p] => Complete(f, x[p])'
      <4>1. \A f \in Files : f < at'[p] => f < at[p] \/ f = at[p]
        BY <2>1, <3>1 DEF Files, DIO, PLATINUM
      <4> QED BY <2>1, <2>5, <3>2, <4>1 DEF Complete
    <3>4. FillerInv(p)' /\ LoaderInv(p)'
      BY <2>1, <2>4, <2>8, <3>1, <3>3 DEF FillerInv, LoaderInv, Reading
    <3> QED BY <1>a, <2>4, <2>6, <2>8, <3>4 DEF CleanInv
  <2>9. CASE pos[p] + 1 = Blocks /\ at[p] = PLATINUM
    <3>1. pc'[p] = "done"
      BY <1>7, <2>9 DEF WriteBlock, GoOn, TypeOK
    <3>2. \A f \in Files : Complete(f, x[p])'
      BY <2>1, <2>3, <2>5, <2>9 DEF Complete, Prefix, Index, Files, DIO, PLATINUM
    <3>3. FillerInv(p)' /\ LoaderInv(p)'
      BY <3>1 DEF FillerInv, LoaderInv, Reading, Filling
    <3>4. Unaccepted' \/ (Stored # NoWav)'
      <4>1. CASE x[p] \in Long
        <5>1. PICK v \in Long : v = x[p]
          BY <4>1
        <5>2. PLATINUM \in Files
          BY DEF Files, DIO, PLATINUM
        <5>3. \A i \in Index : disk'[PLATINUM][i] = v
          BY <2>1, <3>2, <5>1, <5>2 DEF Complete
        <5> QED BY <5>3 DEF Unaccepted, Complete
      <4>2. CASE x[p] \notin Long
        <5>1. PICK v \in Versions \ Long : v = x[p]
          BY <2>1, <4>2
        <5>2. \A f \in Files : Complete(f, v)'
          BY <2>1, <3>2, <5>1 DEF Complete
        <5> QED BY <5>2, StoredAfter, ValuesAssumption
      <4> QED BY <4>1, <4>2
    <3> QED BY <1>a, <2>6, <3>3, <3>4 DEF CleanInv
  <2> QED BY <2>7, <2>8, <2>9
<1>8. ASSUME UNCHANGED <<disk, pc, at, seen, load, x, pos>> PROVE CleanInv'
  <2>1. Stored' = Stored /\ (Unaccepted' <=> Unaccepted)
    BY <1>8 DEF Stored, Unaccepted, Unwritten, Complete
  <2>2. \A p \in Procs : FillerInv(p)' /\ LoaderInv(p)'
    BY <1>0, <1>8, <2>1 DEF FillerInv, LoaderInv, Complete, Present
  <2> QED BY <1>0, <1>8, <1>a, <2>1, <2>2 DEF CleanInv, Writing
<1> QED
  BY <1>1, <1>2, <1>3, <1>4, <1>5, <1>6, <1>7, <1>8
  DEF CleanSerialNext, Work, Edit, EditWav, Terminated, vars

-----------------------------------------------------------------------------
CacheInv == TypeOK /\ WriterInv /\ CleanInv

LEMMA CleanInvariant == CleanSerialSpec => []CacheInv
<1>1. Init => CleanInv
  <2>1. Init => OneActive /\ Unaccepted
    BY DEF Init, OneActive, Active, Reading, Filling, Unaccepted, Unwritten, Empty,
           Files, DIO, PLATINUM
  <2>2. Init => \A p \in Procs : FillerInv(p) /\ LoaderInv(p)
    BY DEF Init, FillerInv, LoaderInv, Reading, Filling
  <2> QED BY <2>1, <2>2 DEF CleanInv
<1>2. [CleanSerialNext]_vars => [Next]_vars
  BY SerialIsNext DEF SerialNext
<1>3. CacheInv /\ [CleanSerialNext]_vars => CacheInv'
  BY <1>2, TypePreserved, WriterPreserved, CleanPreserved DEF CacheInv
<1> QED BY <1>1, <1>3, InitType, PTL DEF CleanSerialSpec, CacheInv

\* While a process fills the cache there is nothing to serve.
NoneToServe == \A p \in Procs : pc[p] \in {"wav"} \cup Filling => Stored = NoWav

LEMMA FillersMiss == CacheInv => NoneToServe
<1>1. SUFFICES ASSUME CacheInv, NEW p \in Procs, pc[p] \in {"wav"} \cup Filling
               PROVE  Stored = NoWav
  BY DEF NoneToServe
<1>2. FillerInv(p)
  BY <1>1 DEF CacheInv, CleanInv
<1>3. CASE pc[p] = "write" /\ at[p] = PLATINUM
  <2>1. /\ disk[PLATINUM] = Prefix(x[p], pos[p]) /\ pos[p] < Blocks /\ pos[p] \in Nat
        /\ PLATINUM \in Files /\ Blocks \in Index
    BY <1>1, <1>2, <1>3, BlocksAssumption
    DEF CacheInv, FillerInv, WriterInv, TypeOK, Index, Files, DIO, PLATINUM
  <2>2. disk[PLATINUM][Blocks] = Absent
    BY <2>1, BlocksAssumption DEF Prefix, Index
  <2> QED BY <2>1, <2>2, StoredWhole, ValuesAssumption DEF Complete
<1> QED BY <1>1, <1>2, <1>3, UnacceptedMisses DEF FillerInv

\* The end of an analysis: there was nothing in the store, and what was analysed
\* is there now unless it is too long.
LEMMA StoreFilled ==
    ASSUME CacheInv, CacheInv', NEW p \in Procs, WriteBlock(p), pc'[p] = "done"
    PROVE  Stored = NoWav /\ Stored' = IF x[p] \in Long THEN NoWav ELSE x[p]
<1>1. /\ pc[p] = "write" /\ at[p] = PLATINUM /\ x[p] \in Versions /\ x' = x
      /\ pos[p] \in Nat /\ pos[p] < Blocks /\ pos[p] + 1 = Blocks
      /\ disk'[PLATINUM] = Written(disk[PLATINUM], Blocks, x[p])
      /\ \A f \in Files : f # PLATINUM => disk'[f] = disk[f]
      /\ PLATINUM \in Files
  BY DEF WriteBlock, GoOn, CacheInv, TypeOK, WriterInv, Filling, Files, DIO, PLATINUM
<1>2. /\ disk[PLATINUM] = Prefix(x[p], pos[p])
      /\ \A f \in Files : f < PLATINUM => Complete(f, x[p])
  BY <1>1 DEF CacheInv, CleanInv, FillerInv, Filling
<1>3. disk'[PLATINUM] = Prefix(x[p], Blocks)
  BY <1>1, <1>2, WrittenPrefix
<1>4. PICK v \in Versions : v = x[p]
  BY <1>1
<1>5. \A f \in Files : Complete(f, v)'
  BY <1>1, <1>2, <1>3, <1>4 DEF Complete, Prefix, Index, Files, DIO, PLATINUM
<1>6. Stored = NoWav
  BY <1>1, FillersMiss DEF NoneToServe, Filling
<1>7. CASE v \in Long
  <2>1. Unaccepted'
    BY <1>1, <1>5, <1>7 DEF Unaccepted
  <2>2. Unaccepted' => (Stored = NoWav)'
    BY UnacceptedMisses, PTL
  <2> QED BY <1>4, <1>6, <1>7, <2>1, <2>2
<1>8. CASE v \notin Long
  BY <1>4, <1>5, <1>6, <1>8, StoredAfter
<1> QED BY <1>7, <1>8

\* No other step changes it.
LEMMA StoreKept ==
    ASSUME CacheInv, CacheInv', [CleanSerialNext]_vars,
           \A p \in Procs : WriteBlock(p) => pc'[p] # "done"
    PROVE  Stored' = Stored
<1>1. CASE UNCHANGED disk
  BY <1>1 DEF Stored, Complete
<1>2. ASSUME NEW p \in Procs, OpenCache(p) \/ WriteBlock(p)
      PROVE  Stored' = Stored
  <2>1. pc[p] \in Filling /\ pc'[p] \in Filling
    BY <1>2 DEF OpenCache, WriteBlock, GoOn, Filling, CacheInv, TypeOK
  <2>2. CacheInv' => NoneToServe'
    BY FillersMiss, PTL
  <2> QED BY <2>1, <2>2, FillersMiss DEF NoneToServe
<1>3. \/ UNCHANGED disk
      \/ \E p \in Procs : OpenCache(p) \/ WriteBlock(p)
  BY DEF CleanSerialNext, InvokeAlone, Invoke, Work, StatCache, ReadCache, ReadWav,
         FailAnalysis, Edit, EditWav, Terminated, vars
<1> QED BY <1>1, <1>2, <1>3

\* Nothing is ever written over a whole cache, however often the wav is edited
\* between the notes that are rendered from it.
THEOREM StoreStays == CleanSerialSpec => StoreIsForever
<1>1. CacheInv /\ CacheInv' /\ [CleanSerialNext]_vars
         => [Stored # NoWav => Stored' = Stored]_vars
  BY StoreFilled, StoreKept
<1> QED BY <1>1, CleanInvariant, PTL DEF CleanSerialSpec, StoreIsForever

\* The mapping of ImplementsVoiceCache.
Job == [p \in Procs |-> IF pc[p] \in Filling THEN x[p] ELSE NoWav]
Voice == [p \in Procs |-> IF pc[p] # "done" THEN NoWav
                          ELSE IF x[p] # NoWav THEN x[p] ELSE Loaded(p)]

\* A process whose step leaves what it analyses and what it renders from.
LEMMA Unseen ==
    ASSUME NEW p \in Procs, Job'[p] = Job[p], Voice'[p] = Voice[p],
           \A q \in Procs \ {p} : /\ pc'[q] = pc[q] /\ x'[q] = x[q]
                                  /\ load'[q] = load[q]
    PROVE  Job' = Job /\ Voice' = Voice
BY DEF Job, Voice, Loaded

LEMMA Seen ==
    ASSUME NEW p \in Procs,
           \A q \in Procs \ {p} : /\ pc'[q] = pc[q] /\ x'[q] = x[q]
                                  /\ load'[q] = load[q]
    PROVE  /\ Job' = [Job EXCEPT ![p] = Job'[p]]
           /\ Voice' = [Voice EXCEPT ![p] = Voice'[p]]
<1>1. \A q \in Procs \ {p} : Job'[q] = Job[q] /\ Voice'[q] = Voice[q]
  BY DEF Job, Voice, Loaded
<1>2. /\ Job = [q \in Procs |-> Job[q]] /\ Job' = [q \in Procs |-> Job'[q]]
      /\ Voice = [q \in Procs |-> Voice[q]] /\ Voice' = [q \in Procs |-> Voice'[q]]
  BY DEF Job, Voice
<1> QED BY <1>1, <1>2

LEMMA MapsServe ==
    ASSUME NEW p \in Procs, Job[p] = NoWav, Voice[p] = NoWav, Stored # NoWav,
           Voice' = [Voice EXCEPT ![p] = Stored], UNCHANGED <<wav, Stored, Job>>
    PROVE  VC!Serve(p)
BY DEF VC!Serve, VC!Waiting, Job, Voice

LEMMA MapsTake ==
    ASSUME NEW p \in Procs, Job[p] = NoWav, Voice[p] = NoWav, Stored = NoWav, wav # NoWav,
           Job' = [Job EXCEPT ![p] = wav], UNCHANGED <<wav, Stored, Voice>>
    PROVE  VC!Take(p)
BY DEF VC!Take, VC!Waiting, Job, Voice

LEMMA MapsFill ==
    ASSUME NEW p \in Procs, Job[p] # NoWav, Voice' = [Voice EXCEPT ![p] = Job[p]],
           Stored' = IF Job[p] \in Long THEN Stored ELSE Job[p],
           Job' = [Job EXCEPT ![p] = NoWav], UNCHANGED wav
    PROVE  VC!Fill(p)
BY DEF VC!Fill, Job, Voice

LEMMA MapsAbandon ==
    ASSUME NEW p \in Procs, Job[p] # NoWav, Job' = [Job EXCEPT ![p] = NoWav],
           UNCHANGED <<wav, Stored, Voice>>
    PROVE  VC!Abandon(p)
BY DEF VC!Abandon, Job, Voice

LEMMA MapsStutter ==
    UNCHANGED <<wav, Stored, Job, Voice>> => UNCHANGED VC!vars
BY DEF VC!vars, Job, Voice

\* A reader that accepts the last file has read a whole store.
LEMMA HitServes ==
    ASSUME CacheInv, NEW p \in Procs, ReadCache(p), pc'[p] = "done"
    PROVE  Stored # NoWav /\ Loaded(p)' = Stored
<1>1. /\ pc[p] = "read" /\ at[p] = PLATINUM /\ PLATINUM \in Files /\ DIO \in Files
      /\ STAR \in Files /\ 1 \in Index
      /\ PlatinumAccepted(Contents(p), load[p][DIO])
      /\ load' = [load EXCEPT ![p][PLATINUM] = Contents(p)] /\ UNCHANGED disk
      /\ load \in [Procs -> [Files -> [Index -> Cells \cup {Garbage}]]]
  BY BlocksAssumption
  DEF ReadCache, CacheInv, TypeOK, Accepted, Files, Index, DIO, STAR, PLATINUM
<1>2. /\ seen[p] = Present(PLATINUM)
      /\ \A f \in Files : f < PLATINUM => \A i \in Present(f) : load[p][f][i] = disk[f][i]
  BY <1>1 DEF CacheInv, CleanInv, LoaderInv, Reading
<1>3. Contents(p)[1] \in Versions \ Long
  BY <1>1 DEF PlatinumAccepted
<1>4. disk[PLATINUM][1] \in Versions \ Long
  BY <1>1, <1>3, ValuesAssumption DEF Contents
<1>5. ~Unaccepted
  BY <1>1, <1>4, ValuesAssumption DEF Unaccepted, Unwritten, Complete
<1>6. \A q \in Procs : ~Writing(q, PLATINUM)
  BY <1>1 DEF CacheInv, CleanInv, OneActive, Active, Writing, Reading, Filling
<1>7. Stored # NoWav
  BY <1>5, <1>6 DEF CacheInv, CleanInv
<1>8. PICK v \in Versions \ Long : v = Stored /\ \A f \in Files : Complete(f, v)
  BY <1>7, StoredWhole
<1>9. \A f \in Files : Present(f) = Index
  BY <1>8, ValuesAssumption DEF Present, Complete
<1>10. \A i \in Index : Contents(p)[i] = v
  BY <1>1, <1>2, <1>8, <1>9 DEF Contents, Complete
<1>11. \A f \in Files : f < PLATINUM => \A i \in Index : load[p][f][i] = v
  BY <1>2, <1>8, <1>9 DEF Complete
<1>12. /\ load'[p][PLATINUM] = Contents(p)
       /\ \A f \in Files : f < PLATINUM => load'[p][f] = load[p][f]
  <2>1. \A f \in Files : f < PLATINUM => f # PLATINUM
    BY DEF Files, PLATINUM
  <2> QED BY <1>1, <2>1
<1>13. \A f \in Files, i \in Index : load'[p][f][i] = v
  <2>1. \A f \in Files : f < PLATINUM \/ f = PLATINUM
    BY DEF Files, PLATINUM
  <2> QED BY <1>10, <1>11, <1>12, <2>1
<1>14. Loaded(p)' = v
  BY <1>1, <1>8, <1>13 DEF Loaded
<1> QED BY <1>7, <1>8, <1>14

LEMMA RefinesStep ==
    ASSUME CacheInv, CacheInv', [CleanSerialNext]_vars
    PROVE  [VC!Next]_(VC!vars)
<1>0. TypeOK /\ \A p \in Procs : LoaderInv(p) /\ (pc[p] \in Filling => x[p] \in Versions)
  BY DEF CacheInv, CleanInv, WriterInv
<1>1. ASSUME NEW p \in Procs, InvokeAlone(p) \/ StatCache(p) PROVE UNCHANGED VC!vars
  <2>1. /\ pc[p] \in {"ready", "stat"} /\ pc'[p] \in {"stat", "wav", "read"}
        /\ UNCHANGED <<wav, disk, x, load>>
        /\ \A q \in Procs \ {p} : pc'[q] = pc[q]
    BY <1>0, <1>1 DEF InvokeAlone, Invoke, StatCache, TypeOK
  <2>2. Job'[p] = Job[p] /\ Voice'[p] = Voice[p]
    BY <2>1 DEF Job, Voice, Filling
  <2>3. Stored' = Stored
    BY <2>1 DEF Stored, Complete
  <2> QED BY <2>1, <2>2, <2>3, Unseen, MapsStutter
<1>2. ASSUME NEW p \in Procs, ReadCache(p) PROVE UNCHANGED VC!vars \/ VC!Serve(p)
  <2>1. /\ pc[p] = "read" /\ pc'[p] \in {"stat", "done", "wav"}
        /\ UNCHANGED <<wav, disk, x>>
        /\ \A q \in Procs \ {p} : pc'[q] = pc[q] /\ load'[q] = load[q]
    BY <1>0, <1>2 DEF ReadCache, TypeOK
  <2>2. Stored' = Stored
    BY <2>1 DEF Stored, Complete
  <2>3. CASE pc'[p] # "done"
    <3>1. Job'[p] = Job[p] /\ Voice'[p] = Voice[p]
      BY <2>1, <2>3 DEF Job, Voice, Filling
    <3> QED BY <2>1, <2>2, <3>1, Unseen, MapsStutter
  <2>4. CASE pc'[p] = "done"
    <3>1. x[p] = NoWav
      BY <1>0, <2>1 DEF LoaderInv, Reading
    <3>2. /\ Job[p] = NoWav /\ Job'[p] = NoWav /\ Voice[p] = NoWav
          /\ Voice'[p] = Loaded(p)'
      BY <2>1, <2>4, <3>1 DEF Job, Voice, Filling
    <3>3. Job' = Job /\ Voice' = [Voice EXCEPT ![p] = Stored]
      <4>1. Stored # NoWav /\ Loaded(p)' = Stored
        BY <1>2, <2>4, HitServes
      <4>2. Job' = [Job EXCEPT ![p] = Job[p]] /\ Voice' = [Voice EXCEPT ![p] = Stored]
        BY <2>1, <3>2, <4>1, Seen
      <4> QED BY <4>2 DEF Job
    <3> QED BY <1>2, <2>1, <2>2, <2>4, <3>2, <3>3, HitServes, MapsServe
  <2> QED BY <2>3, <2>4
<1>3. ASSUME NEW p \in Procs, ReadWav(p) PROVE UNCHANGED VC!vars \/ VC!Take(p)
  <2>1. /\ pc[p] = "wav" /\ x'[p] = wav
        /\ pc'[p] = IF wav = NoWav THEN "failed" ELSE "fill"
        /\ UNCHANGED <<wav, disk, load>>
        /\ \A q \in Procs \ {p} : pc'[q] = pc[q] /\ x'[q] = x[q]
    BY <1>0, <1>3 DEF ReadWav, TypeOK
  <2>2. Stored' = Stored /\ Stored = NoWav
    BY <2>1, FillersMiss DEF Stored, Complete, NoneToServe
  <2>3. Job[p] = NoWav /\ Voice[p] = NoWav /\ Job'[p] = wav /\ Voice'[p] = NoWav
    BY <2>1 DEF Job, Voice, Filling
  <2>4. Job' = [Job EXCEPT ![p] = wav] /\ Voice' = Voice
    <3>1. Job' = [Job EXCEPT ![p] = wav] /\ Voice' = [Voice EXCEPT ![p] = Voice[p]]
      BY <2>1, <2>3, Seen
    <3> QED BY <3>1 DEF Voice
  <2>5. CASE wav = NoWav
    BY <2>1, <2>2, <2>3, <2>5, Unseen, MapsStutter
  <2>6. CASE wav # NoWav
    BY <2>1, <2>2, <2>3, <2>4, <2>6, MapsTake
  <2> QED BY <2>5, <2>6
<1>4. ASSUME NEW p \in Procs, OpenCache(p) \/ WriteBlock(p), pc'[p] # "done"
      PROVE  UNCHANGED VC!vars
  <2>1. /\ pc[p] \in Filling /\ pc'[p] \in Filling /\ UNCHANGED <<wav, x, load>>
        /\ \A q \in Procs \ {p} : pc'[q] = pc[q]
    BY <1>0, <1>4 DEF OpenCache, WriteBlock, GoOn, TypeOK, Filling
  <2>2. Stored' = Stored
    <3>1. \A q \in Procs : WriteBlock(q) => q = p
      BY <2>1 DEF CacheInv, CleanInv, OneActive, Active, Filling, WriteBlock
    <3> QED BY <1>4, <3>1, StoreKept
  <2>3. Job'[p] = Job[p] /\ Voice'[p] = Voice[p]
    BY <2>1 DEF Job, Voice, Filling
  <2> QED BY <2>1, <2>2, <2>3, Unseen, MapsStutter
<1>5. ASSUME NEW p \in Procs, WriteBlock(p), pc'[p] = "done" PROVE VC!Fill(p)
  <2>1. /\ pc[p] = "write" /\ UNCHANGED <<wav, x, load>> /\ x[p] # NoWav
        /\ \A q \in Procs \ {p} : pc'[q] = pc[q]
    BY <1>0, <1>5, ValuesAssumption DEF WriteBlock, GoOn, TypeOK, Filling
  <2>2. Job[p] = x[p] /\ Job'[p] = NoWav /\ Voice'[p] = x[p]
    BY <1>5, <2>1 DEF Job, Voice, Filling
  <2>3. Job' = [Job EXCEPT ![p] = NoWav] /\ Voice' = [Voice EXCEPT ![p] = Job[p]]
    BY <2>1, <2>2, Seen
  <2>4. Stored' = IF Job[p] \in Long THEN Stored ELSE Job[p]
    BY <1>5, <2>2, StoreFilled
  <2> QED BY <2>1, <2>2, <2>3, <2>4, MapsFill
<1>6. ASSUME NEW p \in Procs, FailAnalysis(p) PROVE VC!Abandon(p)
  <2>1. /\ pc[p] = "fill" /\ pc'[p] = "failed" /\ UNCHANGED <<wav, disk, x, load>>
        /\ \A q \in Procs \ {p} : pc'[q] = pc[q]
    BY <1>0, <1>6 DEF FailAnalysis, TypeOK
  <2>2. /\ Job[p] # NoWav /\ Job'[p] = NoWav
        /\ Voice[p] = NoWav /\ Voice'[p] = NoWav
    BY <1>0, <2>1, ValuesAssumption DEF Job, Voice, Filling
  <2>3. Job' = [Job EXCEPT ![p] = NoWav] /\ Voice' = Voice
    <3>1. Job' = [Job EXCEPT ![p] = NoWav] /\ Voice' = [Voice EXCEPT ![p] = Voice[p]]
      BY <2>1, <2>2, Seen
    <3> QED BY <3>1 DEF Voice
  <2>4. Stored' = Stored
    BY <2>1 DEF Stored, Complete
  <2> QED BY <2>1, <2>2, <2>3, <2>4, MapsAbandon
<1>7. ASSUME NEW v \in Versions \cup {NoWav}, EditWav(v) PROVE VC!Edit(v)
  BY <1>7 DEF EditWav, VC!Edit, Stored, Complete, Loaded
<1>8. ASSUME UNCHANGED vars PROVE UNCHANGED VC!vars
  <2>1. Stored' = Stored /\ Job' = Job /\ Voice' = Voice /\ wav' = wav
    BY <1>8 DEF vars, Stored, Complete, Job, Voice, Loaded
  <2> QED BY <2>1, MapsStutter
<1>9. CASE UNCHANGED vars
  BY <1>8, <1>9
<1>10. CASE \E p \in Procs : InvokeAlone(p) \/ Work(p) \/ FailAnalysis(p)
  <2>1. PICK p \in Procs : InvokeAlone(p) \/ Work(p) \/ FailAnalysis(p)
    BY <1>10
  <2>2. \/ UNCHANGED VC!vars
        \/ VC!Serve(p) \/ VC!Take(p) \/ VC!Fill(p) \/ VC!Abandon(p)
    <3>1. OpenCache(p) => pc'[p] # "done"
      BY <1>0 DEF OpenCache, TypeOK
    <3> QED BY <1>1, <1>2, <1>3, <1>4, <1>5, <1>6, <2>1, <3>1 DEF Work
  <2> QED BY <2>2 DEF VC!Next
<1>11. CASE Edit
  <2>1. PICK v \in Versions \cup {NoWav} : EditWav(v)
    BY <1>11 DEF Edit
  <2> QED BY <1>7, <2>1 DEF VC!Next
<1> QED BY <1>9, <1>10, <1>11 DEF CleanSerialNext, Terminated

\* The three files are an implementation of the store of VoiceCache.
THEOREM CacheIsAStore == CleanSerialSpec => ImplementsVoiceCache
<1>1. Init => VC!Init
  <2>1. Init => Stored = NoWav
    <3>1. SUFFICES ASSUME Init PROVE Stored = NoWav
      OBVIOUS
    <3>2. 1 \in Index /\ DIO \in Files
      BY BlocksAssumption DEF Index, Files, DIO, PLATINUM
    <3>3. disk[DIO][1] \notin Versions
      BY <3>1, <3>2, ValuesAssumption DEF Init, Empty
    <3> QED BY <3>3 DEF Stored
  <2>2. Init => Job = [p \in Procs |-> NoWav] /\ Voice = [p \in Procs |-> NoWav]
    BY DEF Init, Job, Voice, Filling
  <2> QED BY <2>1, <2>2 DEF Init, VC!Init, Job, Voice
<1>2. CacheInv /\ CacheInv' /\ [CleanSerialNext]_vars => [VC!Next]_(VC!vars)
  BY RefinesStep
<1> QED
  BY <1>1, <1>2, CleanInvariant, PTL DEF CleanSerialSpec, ImplementsVoiceCache, VC!Spec
=============================================================================
