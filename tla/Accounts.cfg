SPECIFICATION AccountsSpec
CONSTANTS
    Parts = {"sessions", "rights", "menus"}
    Users = {ann}
    AutoApprove = TRUE
    Tabs = {t1, t2}
    Calls = {k1, k2}
    TabOf <- OneEach
    t1 = t1
    t2 = t2
    k1 = k1
    k2 = k2
    Desks = {d1, d2}
    MaxResets = 1
    MaxEvents = 3
    None = None
    Staff = {s1, s2, s3}
    Admins = {s1, s2}
    Roles <- SomeRoles
    SystemRoles <- KnownRoles
    Keys <- SomeKeys
    Privileged = {"override"}
    Sites = {p1, p2}
    Owner <- OwnerOf
    SupplierAdmins = {}
    Seed <- FirstRights
    Payloads <- Sent
    MaxSaves = 3
    s1 = s1
    s2 = s2
    s3 = s3
    p1 = p1
    p2 = p2
    Menus = {m1, m2, m3}
    Gates = {g1}
    Ungated = Ungated
    Root = Root
    MaxMenuEdits = 3
SYMMETRY Symmetry
CHECK_DEADLOCK FALSE
INVARIANTS
    SessionsAreEarned
    RotationHolds
    ScopesNest
    MenusAreShown
PROPERTIES
    LoneSavesStand
    OnlySupersMakeSupers
