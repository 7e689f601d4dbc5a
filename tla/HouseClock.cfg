SPECIFICATION FgSpec
CONSTANTS
    ResourceMax = 2
    ElapsedCap = 12
    DecaySeconds = 4
    GatherSeconds = 2
    ListenSeconds = 3
    KindlingPerRemnant = 2
    Seen = 1
    Held = 2
    Shared = 3
    HearthMax = 3
    StartKindling = 1
    BuildKindling <- ClockKindling
    BuildRemnants <- ClockRemnants
    Gaps = {1, 2, 3, 4, 5, 6, 7, 8, 9, 10, 11, 12, 17}
    Updates = 2
    DeferMax = 1
    Absences = {5}
INVARIANTS
    FgTypeOK
    TimerHeld
    CatchUpIsSecondBySecond
PROPERTIES
    ActionEnds
    ImplementsHouse
