SPECIFICATION Spec
CONSTANTS
    Setups <- MCOddRandom
    WordSize = 256
    Multiplier = 45
    Increment = 79
    MaxFailures = 3
    MaxIndex = 0
    MaxTunnels = 3
INVARIANTS
    ExhaustedMeansNoneHealthy
