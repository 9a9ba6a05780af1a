SPECIFICATION FairSpec
CONSTANTS
    Nil = Nil
    Scenes <- ProgressScenes
CHECK_DEADLOCK FALSE
INVARIANTS
    DataKept
    OneAtATime
PROPERTIES
    Recovers
    ChangeApplied
    DeletionFinishes
