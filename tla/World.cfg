SPECIFICATION Spec
CONSTANTS
    Center = 15
    Seeds <- AllSeeds
    RevealAt <- BorderWalk
INVARIANTS
    LandmarksDistinct
    LandmarksInRegion
    LandmarksAffordable
PROPERTIES
    VisibleIsTrodden
