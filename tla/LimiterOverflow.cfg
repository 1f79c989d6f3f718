CONSTANTS
    k1 = k1
    k2 = k2
    Key <- MCKey
    BaseDelay = 1
    MaxDelay = 5
    FloatExponents = 5
SPECIFICATION LimiterSpec
PROPERTY FailureStartsWait
