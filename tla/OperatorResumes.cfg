SPECIFICATION FairSpec
CONSTANTS
    Nil = Nil
    Scenes <- CrashedChanges
CHECK_DEADLOCK FALSE
PROPERTIES
    OperationResumes
