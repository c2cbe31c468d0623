SPECIFICATION FleetSpec
CONSTANTS
    None = None
    Specs <- MCSpecs
    Standard <- MCStandard
    Kinds = {"class"}
    Minimum = 4
    CoreTargets = 3
    Dirs <- MCDirs
    Layouts <- MCLayouts
    Edits <- MCEdits
    MaxEdits = 1
    MaxCrashes = 1
    Mobile = FALSE
    MaxStandardized = 1
INVARIANTS FleetTypeOK DirsAreOwned PublishedIsSound VouchedFor
PROPERTIES OwnWorkKept Fixpoint Converges
