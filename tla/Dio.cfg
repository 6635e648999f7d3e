SPECIFICATION DioSpec
CONSTANTS
    Rates <- MCRates
    Lengths <- MCLengths
    FilterRates = {4000, 7995, 11025, 16000}
    FilterLengths = {1, 60, 211}
    FilterBands = {0, 1, 2, 3, 4, 5, 6}
    Length = 10
    Samples <- MCSamples
    Unit = 60
    XLengths = {2, 3, 4}
    YLengths = {0, 1, 2, 3}
    Coordinates = {0, 1, 2, 3, 4}
    Value <- MCValue
    Boundaries <- MCBoundaries
    FLOOR_F0 = 71
    Means <- MCMeans
    Deviations = {0, 1, 3}
    Candidates = 2
    Columns <- MCColumns
    f0Len = 10
INVARIANTS
    DioInv
    MeanOfWritten
    BuffersFit
    CentredOnSample
    Apart
    TrainsSound
    Interpolated
    BandChosen
    TrackKept
    IslandsFit
PROPERTIES
    StagesEnd
