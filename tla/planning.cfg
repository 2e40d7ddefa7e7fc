CONSTANTS
    Worlds <- MCWorlds
    Manifests <- MCManifests
    Index <- MCIndex
SPECIFICATION Spec
INVARIANTS FeaturesAreLeast LockReadsBack LockedStay NothingMissing OneCopy LtoServes NamesTell NeedsAgree HostUnwinds
PROPERTY Ends
