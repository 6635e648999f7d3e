SPECIFICATION AnalysisSpec
CONSTANTS
    Rates <- MCRates
    Pitches <- MCPitches
    Lengths <- MCLengths
    Times <- MCTimes
    Den = 5
    FLOOR_F0 = 71
    DEFAULT_F0 = 150
    Powers <- MCPowers
    IslandsLengths <- MCIslandsLengths
    PulsesLengths <- MCPulsesLengths
    FrameNum = 17
    FrameDen = 5
    Cycle = 60
    VoicedT0 = 5
    DefaultT0 = 6
    MaxIslands = 3
    Peaks <- MCPeaks
INVARIANTS
    AnalysisInv
    StarInside
    StarSymmetric
    IslandsTiled
    PulsesSound
