SPECIFICATION RenderSpec
CONSTANTS
    Fftl = 8
    FramePeriod = 19
    DefaultPeriod = 34
    Periods <- MCPeriods
    Lengths <- MCLengths
    NaN = NaN
    FFTLengths = {4, 8, 16}
    NFrames = 3
    MaxResponses = 3
    Half = 4
    Levels <- MCLevels
    Residuals <- MCResiduals
    Ratios <- MCRatios
    Ln <- MCLn
    Loud <- MCLoud
    Silence = Silence
    Nothing = Nothing
INVARIANTS
    RenderInv
    FrameInRange
    Covered
    ResponsesSound
    StoredSpectrum
PROPERTIES
    RenderEnds
