SPECIFICATION OperationsSpec
CONSTANTS
    Parts = {"harvest", "form", "reset", "logs", "protocols", "deploy"}
    None = None
    ByHand = ByHand
    Plots = {p1}
    Requests = {t1}
    Records = {rec1, rec2}
    Plans = {plan}
    Reports <- Harvests
    Typed <- TypedIn
    Operations = {"start", "deactivate", "reactivate", "reactivateWithCycle",
                  "update", "close", "cancel", "rollover",
                  "createRecord", "publicRecord", "retractRecord"}
    MaxCycles = 2
    MaxClock = 3
    p1 = p1
    t1 = t1
    plan = plan
    rec1 = rec1
    rec2 = rec2
    Rows <- AllRows
    KindOf <- Tables
    ParentOf <- ForeignKeys
    Present <- OldRows
    People = {u1, u2}
    Accounts <- SomeAccounts
    MaxServed = 2
    Gone = Gone
    u1 = u1
    u2 = u2
    LogTables = {"activity_logs", "system_logs"}
    Audited = "activity_logs"
    MonthDays = 2
    Ahead = 2
    Warn = 1
    Retentions <- SomeRetentions
    DefaultDays = 3
    MaxToday = 8
    MaxLogged = 1
    Slots = {c, w}
    Wordings = {"old", "new"}
    Desks = {"d1", "d2"}
    Sheets = {"r1"}
    Scores = {3}
    StartLabels <- SomeLabels
    Fallback = "fallback"
    Blank = Blank
    c = c
    w = w
    f1 = f1
    ph1 = ph1
    a1 = a1
    a2 = a2
    Refs = {1, 2, 3}
    Revision <- Migrations
    FirstRef = 1
    MaxRows = 2
    MaxWritten = 1
SYMMETRY Symmetry
CHECK_DEADLOCK FALSE
INVARIANTS
    SeasonsOwnTheirHarvest
    ResetIsWhole
PROPERTIES
    NothingIsLost
    LogsAreKept
    LabelsStand
    RevocationIsImmediate
    DeploysAreSound
