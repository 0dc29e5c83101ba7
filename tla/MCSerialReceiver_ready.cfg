CONSTANTS
    HeadSize = 2
    MaxLen = 3
    Starts <- MCStarts
    Length <- MCLength
    Total = 11
    MaxFires = 2
SPECIFICATION Spec
INVARIANT PackReady
