--------------------------- MODULE MCPlotLifecycle ---------------------------
(* Instances of PlotLifecycle for TLC. *)
EXTENDS PlotLifecycle, TLC

\* Every operation, and the operations of the API without the Excel import.
Everything == AllOps
Endpoints == AllOps \ ImportOps

\* What inspections and closing users report, from nothing to the full set.
NoFigures == {{}}
SomeReports == {{}, {"kg"}, {"kg", "clean"}, {"clean"}}
SomeTyped == {{}, {"clean"}, Figures}

Symmetry == Permutations(Requests) \cup Permutations(Plans) \cup Permutations(Records)

=============================================================================
