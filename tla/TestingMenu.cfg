SPECIFICATION TmSpec
CONSTANTS
    ResourceMax = 4
    ElapsedCap = 3
    DecaySeconds = 1
    GatherSeconds = 1
    ListenSeconds = 1
    KindlingPerRemnant = 1
    Seen = 1
    Held = 2
    Shared = 3
    HearthMax = 3
    StartKindling = 4
    BuildKindling <- DayKindling
    BuildRemnants <- DayRemnants
    Gaps = {1}
    EditStep = 4
    NamedGuests = 3
    FinalDoor = 3
INVARIANTS
    EditsSavable
    EditsKeepJourney
    RowsHonest
