SPECIFICATION ScreensSpec
CONSTANTS
    Parts = {"page", "dialog", "dashboard"}
    Plots = {p1, p2}
    PlotIds = {p1, p2}
    MaxSessions = 2
    MaxForms = 3
    MaxKeys = 3
    None = None
    Workbooks = {f1, f2}
    Bound = {f1}
    MaxAsks = 2
    MaxSends = 2
    MaxRev = 2
    SupplierOf <- OwnSupplier
    PCodes = {q1}
    Reports <- PoorOrDone
    Filters <- SomeFilters
    Windows <- SomeWindows
    OverdueDays = 0
    LowScore = 3
    LowYield = 80
    LowProduction = 70
    MaxVisits = 2
    MaxCycles = 2
    MaxDay = 1
    Null = Null
    NULL = NULL
    p1 = p1
    p2 = p2
    f1 = f1
    f2 = f2
    q1 = q1
SYMMETRY Symmetry
CHECK_DEADLOCK FALSE
INVARIANTS
    FormsAreFiledOnce
    DashboardAgrees
PROPERTIES
    PatientUsersAreServed
    DialogsKeepTheirWord
