SPECIFICATION MCSpec
CONSTANTS
    Plots <- OneToThree
    Planted <- OneAndTwo
    Jobs = {j1, j2}
    Works <- AllWorks
    Series = {c1, c2, l1, l2}
    Printed <- Prints
    None = None
    c1 = c1
    c2 = c2
    l1 = l1
    l2 = l2
    b1 = b1
    ph1 = ph1
    a1 = a1
    p1 = p1
    t1 = t1
    t2 = t2
    r1 = r1
    pl1 = pl1
    ByHand = ByHand
INVARIANTS
    NumbersAreSound
    PlotLocksNeverDeadlock
PROPERTIES
    CommitsWhatWasApproved
    EverythingEnds
    ImplementsLedger
