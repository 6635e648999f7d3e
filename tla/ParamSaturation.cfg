SPECIFICATION CodecSpec
CONSTANTS
    Half = 1
    Levels <- MCPositive
    Residuals <- MCOut
    Ratios <- MCOneRatio
    Ln <- MCLogarithms
    Loud = 2840
    Silence = Silence
    Nothing = Nothing
INVARIANTS
    Saturated
