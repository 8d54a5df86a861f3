CONSTANTS
    a = a b = b c = c k = k r1 = r1 r2 = r2 w1 = w1 w2 = w2 p = p q = q
    NoName = NoName
    NoExt = NoExt
    NoCluster = NoCluster
    Installed <- MCInstalled
    Stage <- MCStage
    Names = {a, b, c}
    Clusters = {k}
    PluginFiles <- MCPluginFiles
    Contents <- MCContents
    Defaults <- MCDefaults
    Pipelines <- MCPipelines
    Clients = {c1, c2}
    Starts <- MCStarts
    MaxRequests = 3
    MaxRacing = 2
SPECIFICATION Spec
SYMMETRY Symmetry
INVARIANTS PlanIsReference AcceptedPipelineInForce SettingsFollow
CHECK_DEADLOCK FALSE
