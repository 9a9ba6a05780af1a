SPECIFICATION FairNetworkSpec
CONSTANTS
    a = a
    b = b
    Instances = {a, b}
    Pods = {e1, e2}
    Settings = {1, 2}
    Times = {t1, t2, t3, t4}
    Nil = Nil
    Scenes <- NetworkScenes
CHECK_DEADLOCK FALSE
INVARIANTS NetworkTypeOK ConfirmedMeansLoaded
PROPERTIES OperationsWaitForEnvoy Undisturbed NetworkConverges
