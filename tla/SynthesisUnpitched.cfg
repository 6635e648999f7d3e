SPECIFICATION UnpitchedSpec
CONSTANTS
    Fftl = 16
    FramePeriod = 19
    DefaultPeriod = 57
    Periods <- MCPeriods
    Lengths <- MCLengths
    NaN = NaN
PROPERTIES
    EndsUnpitched
