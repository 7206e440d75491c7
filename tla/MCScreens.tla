------------------------------ MODULE MCScreens ------------------------------
(* What is shown on a screen against what the server has: the public          *)
(* inspection page, the import dialogs, the executive dashboard.  part says   *)
(* which of them takes the steps of this behaviour; the others stand still.   *)
EXTENDS InspectPage, ImportDialog, ExecutiveDashboard, TLC

CONSTANTS
    Parts,          \* the parts of this run
    p1, p2, f1, f2, q1

VARIABLE part

\* One supplier per plot, known by it.
OwnSupplier == [p \in PlotIds |-> p]

Narrowed(code, status) == [code |-> code, status |-> status]
SomeFilters == {Narrowed(NULL, NULL), Narrowed(q1, NULL), Narrowed(NULL, "harvested")}

From(start, end) == [start |-> start, end |-> end]
SomeWindows == {From(NULL, NULL), From(1, NULL), From(0, 0)}

Reported(target, yield, cleaned, score) ==
    [target |-> target, yield |-> yield, cleaned |-> cleaned, score |-> score]
PoorOrDone == {Reported(10, 5, NULL, 2), Reported(10, 8, 6, 5)}

ScreensInit ==
    /\ part \in Parts
    /\ Init /\ DialogInit /\ DashboardInit
    /\ part # "page" => ~patient
    /\ part # "dialog" => kind = "plots" /\ ~careful /\ flawed = {}

ScreensNext ==
    /\ UNCHANGED part
    /\ \/ part = "page" /\ Next /\ UNCHANGED <<dialogVars, tableVars>>
       \/ part = "dialog" /\ DialogNext /\ UNCHANGED <<vars, tableVars>>
       \/ part = "dashboard" /\ DashboardNext /\ UNCHANGED <<vars, dialogVars>>

ScreensSpec == ScreensInit /\ [][ScreensNext]_<<part, vars, dialogVars, tableVars>>

Symmetry == Permutations(Plots)
=============================================================================
