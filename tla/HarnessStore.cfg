CONSTANTS
    MaxRows = 4
    Orgs = {"o1", "o2"}
    Txs = {t1, t2}
    Legacy <- OlderTables
    MaxBoots = 2
    None = None
SPECIFICATION FairSpec
INVARIANTS TypeOK OneLive AdoptedWasLive
PROPERTIES VersionsGrow NewestKept ImplementsLifecycle BootCompletes RequestsEnd
CHECK_DEADLOCK FALSE
