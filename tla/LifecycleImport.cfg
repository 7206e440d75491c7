SPECIFICATION Spec
CONSTANTS
    Plots = {p1}
    Requests = {t1, t2}
    Records = {r1}
    Plans = {a}
    Reports <- NoFigures
    Typed <- NoFigures
    Operations <- Everything
    MaxCycles = 1
    MaxClock = 1
    None = None
    ByHand = ByHand
SYMMETRY Symmetry
INVARIANT FallowAdvertisesNothing
