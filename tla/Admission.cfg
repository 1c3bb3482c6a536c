SPECIFICATION Spec
CONSTANTS
    Requests = {r1, r2, r3, r4}
    Configs <- MCConfigs
INVARIANTS
    TypeOK
    Accounting
PROPERTIES
    ExcessOnlyDrains
    NobodyQueuesForEver
    Semaphore
