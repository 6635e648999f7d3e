SPECIFICATION ProgramSpec
CONSTANTS
    Signals <- MCSignals
    Volumes <- MCVolumes
    Rates = {8000, 44100}
    Bits = {16, 24}
    LongSizes = {4, 8}
    WavFiles <- MCWavFiles
    Leftovers <- MCLeftovers
    MaxLength = 3
    MaxRows = 3
    MaxFailedMallocs = 2
    Wavs <- MCWavs
    Others <- MCOthers
    Old <- MCOld
    Earlier = {e1, e2}
    Unfit = Unfit
    WavLike = {"wav", "wav~"}
    MaxFailures = 1
INVARIANTS
    ProgramTypeOK
    ReadsWhatIsThere
    NoteWell
    MemorySound
PROPERTIES
    BatchSound
    ProgramEnds
