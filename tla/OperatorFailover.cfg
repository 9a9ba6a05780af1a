SPECIFICATION FairSpec
CONSTANTS
    Nil = Nil
    Scenes <- TwoCrashes
CHECK_DEADLOCK FALSE
PROPERTIES
    FailoverEnds
