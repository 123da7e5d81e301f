SPECIFICATION Spec
CONSTANTS
    Refs = {"latest", "v1"}
    Manifests = {"a1", "a2", "b", "p"}
    Built = {"p"}
    Plat <- Platforms
    PackPlat <- BarePlatforms
    Selects <- Selectors
    Config <- Configs
    Layer <- Layers
    Published <- Versions
    Order <- Listing
    Stocks <- Stores
    Commands = 3
    Kills = 1
    None = None
    Part = Part
CHECK_DEADLOCK FALSE
PROPERTIES
    PullRepairs
    PullKeepsOthers
    DeleteKeepsOthers
    
