SPECIFICATION FairSyncSpec
CONSTANTS
    Absent = Absent
    MaxGeneration = 2
    MaxUid = 4
    MaxFaults = 2
    MaxMeddling = 1
INVARIANT SyncTypeOK
INVARIANT NoFalseAlarm
INVARIANT SecretServesResource
INVARIANT DeletedMeansGone
PROPERTY NamespaceLast
PROPERTY OnlyOwnResource
PROPERTY DeletionEnds
PROPERTY IntentDelivered
PROPERTY LossReported
CHECK_DEADLOCK FALSE
