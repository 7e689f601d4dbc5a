SPECIFICATION NavSpec
CONSTANTS
    ThreadMax = 1
INVARIANTS
    SelectedInRange
    HallXorDrift
    SceneShown
    ViewFits
    CopyFresh
    BackReturns
