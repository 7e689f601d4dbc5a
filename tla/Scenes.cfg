SPECIFICATION Spec
CONSTANTS
    SceneMagic <- Hsc1
    StringMagic <- Hst1
    CodeMax = 128
    PageSize = 81
    ChoiceSize = 24
    Packs <- AllPacks
    Shipped <- ShippedPacks
    Strings <- AllStrings
    SceneIds = {1, 2, 3, 4, 5, 6, 7, 8, 9, 10, 11, 12, 13, 14, 15, 16, 17, 18, 19, 20}
    ScenesMax = 1
    Games <- AllGames
    Certificate <- ShippedCertificate
    Limit = 64
    CapMax = 999
    ResolveMax = 20
INVARIANTS
    InsideCode
    InRange
    ReadersAgree
    ShippedFit
PROPERTIES
    RunEnds
    ImplementsExchange
CHECK_DEADLOCK FALSE
