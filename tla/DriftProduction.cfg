SPECIFICATION Spec
CONSTANTS
    Center = 4
    Landmarks <- SmallLandmarks
    Place <- SmallPlace
    Roll <- SmallRoll
    Reach <- SmallReach
    ClarityCapacity <- SmallClarity
    RationCapacity <- SmallRations
    Nerve <- SmallNerve
    StartClarity = 4
    StartRations = 1
    CargoMax = 2
    RemnantMax = 3
    ThreadMax = 9
    HomeClarity = {3, 9}
    HomeRations = {0, 1, 9}
PROPERTIES
    ProductionKept
