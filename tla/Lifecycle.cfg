SPECIFICATION Spec
CONSTANTS
    Plots = {p1}
    Requests = {t1, t2}
    Records = {r1, r2}
    Plans = {a, b}
    Reports <- NoFigures
    Typed <- NoFigures
    Operations <- Everything
    MaxCycles = 2
    MaxClock = 2
    None = None
    ByHand = ByHand
SYMMETRY Symmetry
INVARIANTS
    TypeOK
    LockedReadsStayTrue
    ClosedPlotsAreDormant
PROPERTIES
    SeasonsTellTheirOwn
    HistoryStands
