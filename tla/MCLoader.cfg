SPECIFICATION Spec
CONSTANTS
    Comps <- Two
    NameOf <- Names
    InstanceOf <- Instances
    Hostname = "here"
    Manifest <- ManifestPath
    AppFile <- AppPath
    Attrs <- Five
    Stories <- LoaderStories
    MaxMeddling = 1
INVARIANT NoOrphanSecret
PROPERTIES StartsWithItsSecrets Settles
