SPECIFICATION LegacySpec
CONSTANTS
    old = old
    new = new
    NSegments = 2
    Payloads <- MCPayloads
    NoState = NoState
    GenMod = 3
    MaxFaults = 1
    Migrated <- MCMigrated
    Fresh <- MCFresh
INVARIANTS
    Durable
    HalfWrittenBankRefused
    MigrationResumes
    FallsBack
    LegacyIInv
PROPERTIES
    AtomicRegister
