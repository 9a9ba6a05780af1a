SPECIFICATION Spec
CONSTANTS
    Nil = Nil
    Scenes <- SafetyScenes
CHECK_DEADLOCK FALSE
INVARIANTS
    OperatorTypeOK
    OneWriter
    ProofOfStop
    OneTarget
    SoleProcess
    OldPasswordGone
    ReportedMeansApplied
    DeletedMeansStopped
    OperationsNameTheKnown
PROPERTIES
    OneCache
    CandidateKept
