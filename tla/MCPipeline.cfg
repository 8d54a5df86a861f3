CONSTANTS
    Stage <- MCStage
    NoExt = NoExt
    Content = {c1, c2}
    World <- MCWorld
    Alternative <- MCAlternative
    Dir = {build}
    Batch = FALSE
SPECIFICATION Spec
SYMMETRY Symmetry
INVARIANTS CachedIsCurrent BuiltIsCurrent OnlyPipelineOutputs ForceRecovers FanOutCompletes
