SPECIFICATION TimeMapSpec
CONSTANTS
    FramePeriod = 7
    Wavelengths <- MCWavelengths
    Offsets <- MCOffsets
    Fixeds <- MCFixeds
    Blanks <- MCBlanks
    Lengths <- MCLengths
    Velocities <- MCVelocities
INVARIANT
    BeforeBlank
