CONSTANTS
    c1 = c1
    c2 = c2
    w = w
    Client = {c1, c2}
    Controller = {c1}
    Worker = w
    Capacity = 1
    MaxItems = 2
SPECIFICATION MCFairSpec
PROPERTIES StopReturns WorkGoesOn
