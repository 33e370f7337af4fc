SPECIFICATION RetentionSpec
CONSTANTS
    Ids = {"a", "b", "l"}
    Legacy = {"l"}
    IdTime <- MCIdTime
    Retention = 2
    Skew = 1
    Cutoff = 2
    MaxTime = 5
    MaxSetBacks = 1
PROPERTIES DatedAdmittedOnce AdmittedOnce SequenceNeverReused
