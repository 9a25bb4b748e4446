SPECIFICATION Spec
CONSTANTS
    Setups <- MCSetups
    WordSize = 16
    Multiplier = 13
    Increment = 15
    MaxFailures = 2
    MaxIndex = 9
    MaxTunnels = 2
INVARIANTS
    TypeOK
    ExhaustedMeansNoneHealthy
    BlacklistedExactly
    NoProxyStarves
