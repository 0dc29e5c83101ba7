SPECIFICATION FairSpec
CONSTANTS
    Caller = {c1, c2}
    Worker = worker
INVARIANT StopIsFinal
PROPERTIES FiresOnSilence TestsAgain
