SPECIFICATION Spec
CONSTANTS
    Drafts <- OneDraft
    Forms = {}
    Tabs = {b1}
    Phones = {ph1, ph2}
    Attempts = {a1, a2}
    Photographed <- OneDraft
    MaxSeasons = 2
    MaxVersions = 2
    Enforced = FALSE
    None = None
SYMMETRY Symmetry
INVARIANTS
    TypeOK
    FiledOnceInItsSeason
    ConfirmedMeansFiled
    ConflictMeansFiled
    PhotosFollowRecords
PROPERTIES
    RevocationIsImmediate
    ImplementsLog
