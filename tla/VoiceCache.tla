----------------------------- MODULE VoiceCache -----------------------------
(***************************************************************************)
(* What the analysis cache of one wav promises to the processes that       *)
(* render notes from it, without files: a store that holds the analysis of *)
(* one version of the wav or nothing.  A process either gets what the      *)
(* store holds, without looking at the wav, or takes the wav's version,    *)
(* analyses it and leaves the result in the store.                         *)
(*                                                                         *)
(* The store is never invalidated: once it holds an analysis, every later  *)
(* process gets that one, whatever becomes of the wav.                     *)
(***************************************************************************)
CONSTANTS
    Procs, Versions,
    NoWav,   \* the wav is missing; also "no version"
    Long     \* the versions whose analysis the store cannot hold

VARIABLES
    wav,     \* the version of the wav on disk
    store,   \* the version whose analysis is stored, or NoWav
    job,     \* job[p]: the version p is analysing, or NoWav
    voice    \* voice[p]: the version p renders from, NoWav before it has one

vars == <<wav, store, job, voice>>

Init ==
    /\ wav \in Versions \cup {NoWav}
    /\ store = NoWav
    /\ job = [p \in Procs |-> NoWav]
    /\ voice = [p \in Procs |-> NoWav]

Waiting(p) == job[p] = NoWav /\ voice[p] = NoWav

\* A hit: the wav is not consulted.
Serve(p) ==
    /\ Waiting(p)
    /\ store # NoWav
    /\ voice' = [voice EXCEPT ![p] = store]
    /\ UNCHANGED <<wav, store, job>>

\* A miss: the analysis starts from the wav as it is now.
Take(p) ==
    /\ Waiting(p)
    /\ store = NoWav
    /\ wav # NoWav
    /\ job' = [job EXCEPT ![p] = wav]
    /\ UNCHANGED <<wav, store, voice>>

\* The analysis is done, and stored unless it is too long.
Fill(p) ==
    /\ job[p] # NoWav
    /\ voice' = [voice EXCEPT ![p] = job[p]]
    /\ store' = IF job[p] \in Long THEN store ELSE job[p]
    /\ job' = [job EXCEPT ![p] = NoWav]
    /\ UNCHANGED wav

\* The analysis fails.
Abandon(p) ==
    /\ job[p] # NoWav
    /\ job' = [job EXCEPT ![p] = NoWav]
    /\ UNCHANGED <<wav, store, voice>>

Edit(v) ==
    /\ wav' = v
    /\ UNCHANGED <<store, job, voice>>

Next ==
    \/ \E p \in Procs : Serve(p) \/ Take(p) \/ Fill(p) \/ Abandon(p)
    \/ \E v \in Versions \cup {NoWav} : Edit(v)

Spec == Init /\ [][Next]_vars

=============================================================================
