SPECIFICATION Spec
CONSTANTS
    Paths <- LifePaths
    KindOf <- LifeKinds
    Within <- LifeWithin
    Manifest <- ManifestPath
    Comps <- One
    ServicesIn <- LifeServices
    App <- AppPath
    Vol <- VolPath
    Script <- ScriptPath
    HooksIn <- LifeHooks
    Unmounted <- Plain
    Stories <- LifeStories
    MaxWrites = 2
    MaxMeddling = 1
 
PROPERTIES   StartsSetUp 
