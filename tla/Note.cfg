SPECIFICATION NoteSpec
CONSTANTS
    BendFramePeriod = 7
    DefaultSteps = {3, 4}
    OutSamples = {1, 4, 10, 24}
    Steps = {0, 3, 20}
    Cents = {0, 3}
    Pitches = {0, 2, 3}
    Names <- MCNames
    Strings <- MCStrings
    Counts = {0, 3, 20}
    Garbage <- MCGarbage
    FramePeriod = 7
    Wavelengths <- MCWavelengths
    Offsets <- MCOffsets
    Fixeds <- MCFixeds
    Blanks <- MCBlanks
    Lengths <- MCLengths
    Velocities <- MCVelocities
INVARIANTS
    NoteTypeOK
    PitchSound
    CurveDecoded
PROPERTIES
    PlayedInOrder
    NoteEnds
