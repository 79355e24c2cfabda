SPECIFICATION Spec
CONSTANTS
    Ticks = 4
    MaxFftSize = 9
    UnsignedLimit = 64
    MaxAverage = 3
    MaxChunks = 4
    MaxSpare = 1
INVARIANTS
    TypeOK
    BandAroundFrequency
    BandwidthRoundedDown
    SpectrumWeight
