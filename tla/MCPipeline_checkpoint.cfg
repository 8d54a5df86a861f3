CONSTANTS
    Stage <- MCStage
    NoExt = NoExt
    Content = {c1, c2}
    World <- MCSigned
    Alternative <- MCNoAlternative
    Dir = {build}
    Batch = FALSE
SPECIFICATION Spec
SYMMETRY Symmetry
INVARIANT CheckpointsFollowSource
