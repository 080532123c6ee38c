SPECIFICATION FairSpec
CONSTANTS
    Migrator = {r1, r2}
    NoMigrator = NoMigrator
    NumFiles = 2
    Rerunnable = {2}
    Service = {creator, worker}
    RestartCodes = {0, 1}
INVARIANTS
    TypeOK
    LedgerIsSchema
    ServicesHaveSchema
PROPERTIES
    HalfDeadGoesDown
    EveryReplicaServes
