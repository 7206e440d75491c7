------------------------- MODULE ExecutiveDashboard -------------------------
(***************************************************************************)
(* The executive dashboard (repositories/dashboard_repository.py): cards,  *)
(* production lenses, comparison table, concerns and the follow-up list,   *)
(* each a query of its own over plots, cycles and records, which must      *)
(* agree with one another whatever seasons, visits and retractions have    *)
(* led to.  The queries are operators over the tables; the tables change   *)
(* by committed requests, one at a time (PlotLifecycle has them in full).  *)
(*                                                                         *)
(* Abstracted: the four condition scores to their LEAST, a day to a        *)
(* number, the supplier filter (it narrows plots and records alike), the   *)
(* sums' NULL to 0, percentages to the weights they divide.                *)
(***************************************************************************)
EXTENDS Integers, Sequences, FiniteSets, FiniteSetsExt

CONSTANTS
    PlotIds,        \* plots.id
    SupplierOf,     \* each plot's supplier
    PCodes,         \* P.Codes a cycle may carry, besides none
    Reports,        \* what an inspection may report
    Filters,        \* what the page is narrowed to: [code, status], NULL for all
    Windows,        \* time ranges to look through: [start, end], NULL for open
    OverdueDays,    \* OVERDUE_DAYS
    LowScore,       \* LOW_SCORE
    LowYield,       \* LOW_YIELD_PCT
    LowProduction,  \* PRODUCTION_LOW_PCT
    MaxVisits,      \* bound on inspections
    MaxCycles,      \* bound on cycles, all plots together
    MaxDay,         \* bound on the days that pass
    NULL            \* SQL NULL

VARIABLES
    today,
    plot,           \* plots: is_active and the snapshot's lowest score
    cycles,         \* plot_cycles by plot and cycle_no
    visit           \* records in the order of created_at

tableVars == <<today, plot, cycles, visit>>

Report == [target : Nat \cup {NULL}, yield : Nat \cup {NULL},
           cleaned : Nat \cup {NULL}, score : Nat \cup {NULL}]
Visit == [plot : PlotIds, cycle : 1 .. MaxCycles, date : 0 .. MaxDay,
          report : Reports, live : BOOLEAN]
PlotRecord == [active : BOOLEAN, score : Nat \cup {NULL}]
CycleStatuses == {"active", "harvested", "cancelled"}
CycleRecord == [status : CycleStatuses, p_code : PCodes \cup {NULL},
                pct : Nat \cup {NULL}]

ASSUME ReportsAssumption == Reports \subseteq Report
ASSUME FiltersAssumption ==
    Filters \subseteq [code : PCodes \cup {NULL}, status : CycleStatuses \cup {NULL}]
ASSUME TablesAssumption ==
    /\ IsFiniteSet(PlotIds) /\ NULL \notin Nat
    /\ {MaxVisits, MaxCycles, MaxDay} \subseteq Nat
ASSUME ThresholdsAssumption == {OverdueDays, LowScore, LowYield, LowProduction} \subseteq Nat

DashboardTypeOK ==
    /\ today \in 0 .. MaxDay
    /\ DOMAIN plot \subseteq PlotIds /\ \A p \in DOMAIN plot : plot[p] \in PlotRecord
    /\ cycles \in [PlotIds -> Seq(CycleRecord)]
    /\ visit \in Seq(Visit)

DashboardInit ==
    /\ today = 0
    /\ plot = <<>>
    /\ cycles = [p \in PlotIds |-> <<>>]
    /\ visit = <<>>

-----------------------------------------------------------------------------
(* What happens in the field and in the office *)

Last(p) == Len(cycles[p])

\* A plot has at most one active cycle, and it is the latest (PlotLifecycle).
Growing(p) == cycles[p] # <<>> /\ cycles[p][Last(p)].status = "active"

\* POST /plots, or a create row of an import.
CreatePlot(p) ==
    /\ p \notin DOMAIN plot
    /\ plot' = [q \in DOMAIN plot \cup {p} |->
                  IF q = p THEN [active |-> TRUE, score |-> NULL] ELSE plot[q]]
    /\ UNCHANGED <<today, cycles, visit>>

SetInService(p) == /\ ~Growing(p)
                   /\ plot' = [plot EXCEPT ![p].active = ~@]
                   /\ UNCHANGED <<today, cycles, visit>>

StartCycle(p, code) ==
    /\ plot[p].active /\ ~Growing(p) /\ SumFunction([q \in PlotIds |-> Last(q)]) < MaxCycles
    /\ cycles' = [cycles EXCEPT ![p] =
                    Append(@, [status |-> "active", p_code |-> code, pct |-> NULL])]
    /\ UNCHANGED <<today, plot, visit>>

Visits(p) == {i \in DOMAIN visit : visit[i].live /\ visit[i].plot = p}
OfLastCycle(p) == {i \in Visits(p) : visit[i].cycle = Last(p)}

\* SQL: NULL in any comparison or division is neither less nor more.
Share(value, target) ==
    IF value = NULL \/ target = NULL \/ target = 0 THEN NULL ELSE (100 * value) \div target
Below(value, limit) == value # NULL /\ value < limit

\* Mutant: the snapshot is cleared to a number that stands for none.
Cleared_Sentinel == -1

\* clear_plot_cycle_mirror_and_inspection_snapshot
Cleared == NULL

\* close_cycle and cancel: the plot's snapshot is cleared; the final estimate of a
\* harvested cycle is that of its newest record.
EndCycle(p, status) ==
    /\ Growing(p)
    /\ LET newest == visit[Max(OfLastCycle(p))].report
           pct == IF status = "cancelled" \/ OfLastCycle(p) = {} THEN NULL
                  ELSE Share(newest.yield, newest.target)
       IN cycles' = [cycles EXCEPT ![p][Last(p)].status = status, ![p][Last(p)].pct = pct]
    /\ plot' = [plot EXCEPT ![p].score = Cleared]
    /\ UNCHANGED <<today, visit>>

\* A visit may be typed in on a later day than that of the visit.
Inspect(p, date, report) ==
    /\ Growing(p) /\ date <= today /\ Len(visit) < MaxVisits
    /\ visit' = Append(visit, [plot |-> p, cycle |-> Last(p), date |-> date,
                               report |-> report, live |-> TRUE])
    /\ plot' = [plot EXCEPT ![p].score = report.score]
    /\ UNCHANGED <<today, cycles>>

\* resync: the snapshot falls back to the newest record left in the open cycle.
Retract(i) ==
    LET p == visit[i].plot
        rest == OfLastCycle(p) \ {i}
    IN /\ visit[i].live
       /\ visit' = [visit EXCEPT ![i].live = FALSE]
       /\ plot' = IF Growing(p) /\ visit[i].cycle = Last(p)
                  THEN [plot EXCEPT ![p].score =
                            IF rest = {} THEN Cleared ELSE visit[Max(rest)].report.score]
                  ELSE plot
       /\ UNCHANGED <<today, cycles>>

NextDay == /\ today < MaxDay
           /\ today' = today + 1
           /\ UNCHANGED <<plot, cycles, visit>>

DashboardNext ==
    \/ \E p \in PlotIds : CreatePlot(p)
    \/ \E p \in DOMAIN plot : SetInService(p)
    \/ \E p \in DOMAIN plot, code \in PCodes \cup {NULL} : StartCycle(p, code)
    \/ \E p \in DOMAIN plot, status \in {"harvested", "cancelled"} : EndCycle(p, status)
    \/ \E p \in DOMAIN plot, date \in 0 .. MaxDay, report \in Reports : Inspect(p, date, report)
    \/ \E i \in DOMAIN visit : Retract(i)
    \/ NextDay

DashboardSpec == DashboardInit /\ [][DashboardNext]_tableVars

-----------------------------------------------------------------------------
(* What the queries share *)

InWindow(w, date) == (w.start = NULL \/ w.start <= date) /\ (w.end = NULL \/ date <= w.end)

OpenCycles(p) == {c \in DOMAIN cycles[p] : cycles[p][c].status = "active"}
LatestStatus(p) == IF cycles[p] = <<>> THEN NULL ELSE cycles[p][Last(p)].status

\* _plot_scope: a plot is of a P.Code if it grows it now.
PlotScope(f) ==
    {p \in DOMAIN plot : /\ plot[p].active
                   /\ f.code # NULL => \E c \in OpenCycles(p) : cycles[p][c].p_code = f.code
                   /\ f.status # NULL => LatestStatus(p) = f.status}

\* _last_visit_sq, over all time.
LastVisit(p) == Max({visit[i].date : i \in Visits(p)})

\* _last_record_sq: by record_date, then created_at.
LastRecord(p) == Max({i \in Visits(p) : visit[i].date = LastVisit(p)})

Visited(P) == {p \in P : Visits(p) # {}}
LastRecords(P, w) ==
    {LastRecord(p) : p \in {q \in Visited(P) : InWindow(w, visit[LastRecord(q)].date)}}

\* Mutant: any cleaned weight finishes a plot, not only its last record's.
Finished_EverCleaned(i) == \E k \in Visits(visit[i].plot) : visit[k].report.cleaned # NULL

\* "A plot whose last record carries a cleaned weight has finished"
Finished(i) == visit[i].report.cleaned # NULL

Weight(value) == IF value = NULL THEN 0 ELSE value
TotalTarget(R) == SumFunction([i \in R |-> Weight(visit[i].report.target)])
TotalYield(R) == SumFunction([i \in R |-> Weight(visit[i].report.yield)])
TotalCleaned(R) == SumFunction([i \in R |-> Weight(visit[i].report.cleaned)])

-----------------------------------------------------------------------------
(* _flag_sets, get_executive_follow_up: of the plots P in scope *)

\* Mutant: a retracted inspection counts as a visit.
NeverInspected_AnyRecord(P) == {p \in P : \A i \in DOMAIN visit : visit[i].plot # p}

NeverInspected(P) == {p \in P : Visits(p) = {}}

Overdue(P) == {p \in Visited(P) : LastVisit(p) + OverdueDays < today}
LowScoring(P) == {p \in P : plot[p].score # NULL /\ plot[p].score <= LowScore}
ShortHarvests(p) == {c \in DOMAIN cycles[p] : /\ cycles[p][c].status = "harvested"
                                              /\ Below(cycles[p][c].pct, LowYield)}
LowYielding(P) == {p \in P : ShortHarvests(p) # {}}

FlagSets(P) == [never |-> NeverInspected(P), low_score |-> LowScoring(P),
                overdue |-> Overdue(P), low_yield |-> LowYielding(P)]

Flagged(P) == UNION {FlagSets(P)[reason] : reason \in DOMAIN FlagSets(P)}

\* Mutant: reasons in the order the cards list them.
Severity_AsOnCards == <<"overdue", "low_score", "low_yield", "never">>

\* _FOLLOW_UP_SEVERITY
Severity == <<"never", "low_score", "overdue", "low_yield">>

\* One row per plot, with its most serious reason.
FollowUp(P) ==
    [p \in Flagged(P) |-> Severity[Min({k \in DOMAIN Severity : p \in FlagSets(P)[Severity[k]]})]]

-----------------------------------------------------------------------------
(* get_executive_summary, get_production_status *)

\* Mutant: every plot with a record, in service or not.
InspectedPlots_AllPlots(P) == Visited(DOMAIN plot)

\* "both only count active ones"
InspectedPlots(P) == Visited(P)

\* The cards that know no time range.
Cards(P) == [plots |-> Cardinality(P),
             inspected |-> Cardinality(InspectedPlots(P)),
             overdue |-> Cardinality(Overdue(P)),
             watch |-> Cardinality(LowScoring(P)),
             actionable |-> Cardinality(Flagged(P))]

\* The cards of the last records R in the window.
YieldCards(R) ==
    LET cleaned == {i \in R : visit[i].report.cleaned # NULL} IN
    [target |-> TotalTarget(R), harvest |-> TotalYield(R), cleaned |-> TotalCleaned(R),
     cleanedPlots |-> Cardinality(cleaned), missing |-> Cardinality(R) - Cardinality(cleaned)]

\* The two lenses on them.
Production(R) ==
    LET done == {i \in R : Finished(i)}
        growing == R \ done
    IN [growing |-> Cardinality(growing), growingTarget |-> TotalTarget(growing),
        growingYield |-> TotalYield(growing),
        done |-> Cardinality(done), doneTarget |-> TotalTarget(done),
        doneCleaned |-> TotalCleaned(done), doneHarvest |-> TotalYield(done)]

-----------------------------------------------------------------------------
(* get_executive_breakdown, get_concerns *)

Groupings == {"supplier", "p_code"}

\* Mutant: joined with every cycle of the plot.
KeysOf_AnyCycle(g, p) ==
    IF g = "supplier" THEN {SupplierOf[p]}
    ELSE IF cycles[p] = <<>> THEN {NULL}
    ELSE {cycles[p][c].p_code : c \in DOMAIN cycles[p]}

\* The keys a plot's joined rows carry: its supplier's code, or its open cycle's P.Code.
KeysOf(g, p) ==
    IF g = "supplier" THEN {SupplierOf[p]}
    ELSE IF OpenCycles(p) = {} THEN {NULL}
    ELSE {cycles[p][c].p_code : c \in OpenCycles(p)}

\* Rows of plots LEFT JOIN records in the window: one of a plot without any.
JoinedRows(p, w) == Max({1, Cardinality({i \in Visits(p) : InWindow(w, visit[i].date)})})

\* SUM over the joined rows: a plot's last record comes once with every record it joins.
JoinedTarget(R, w) ==
    SumFunction([i \in R |-> JoinedRows(visit[i].plot, w) * Weight(visit[i].report.target)])

\* One row of the table: the plots of the key, and the last records of theirs among R.
BreakdownRow(g, P, late, R, w, key) ==
    LET of == {p \in P : key \in KeysOf(g, p)}
        lr == {i \in R : visit[i].plot \in of}
        done == {i \in lr : Finished(i)}
    IN [plots |-> Cardinality(of),
        overdue |-> Cardinality(of \cap late),
        growing |-> Cardinality(lr \ done),
        done |-> Cardinality(done),
        target |-> JoinedTarget(lr \ done, w) + JoinedTarget(done, w)]

\* The table of plots P, of which late are overdue.
Breakdown(g, P, late, R, w) ==
    [key \in UNION {KeysOf(g, p) : p \in P} |-> BreakdownRow(g, P, late, R, w, key)]

\* Short of plan, in either lens.
ShortOfPlan(i) ==
    Below(Share(IF Finished(i) THEN visit[i].report.cleaned ELSE visit[i].report.yield,
                visit[i].report.target), LowProduction)

\* Rows of one kind, per P.Code of the open cycle (_active_cycle_pcode_sq takes one).
ConcernRow(R, key) == Cardinality({i \in R : key \in KeysOf("p_code", visit[i].plot)})

\* Staff closed the cycle, but the last record has no cleaned weight.
MissingCleaned(R) == {i \in R : ~Finished(i) /\ LatestStatus(visit[i].plot) = "harvested"}

-----------------------------------------------------------------------------
(* Properties *)

\* All rows of a table, or of a kind of concern.
Total(table, column) == SumFunction([key \in DOMAIN table |-> table[key][column]])
ConcernTotal(R) ==
    SumFunction([key \in UNION {KeysOf("p_code", visit[i].plot) : i \in R} |-> ConcernRow(R, key)])

\* The plots that are in scope under one filter or another.
Scopes == {PlotScope(f) : f \in Filters} \ {{}}

\* The cards count what the lists below them list, under every filter: plots never
\* inspected are those left of the total by the inspected, and no plot is both never
\* inspected and overdue ("can never disagree about what they are counting").
CardsMatchLists ==
    \A P \in Scopes :
        LET cards == Cards(P)
            never == NeverInspected(P)
        IN /\ cards.inspected <= cards.plots
           /\ cards.plots - cards.inspected = Cardinality(never)
           /\ never \cap Overdue(P) = {}
           /\ cards.actionable = Cardinality(DOMAIN FollowUp(P))

\* Nobody is forgotten: a plot in service that is not on the follow-up list was visited
\* within the last OverdueDays days, by a visit that still counts.
NobodyIsForgotten ==
    \A P \in Scopes : \A p \in P \ Flagged(P) :
        \E i \in DOMAIN visit : /\ visit[i].live /\ visit[i].plot = p
                                /\ visit[i].date + OverdueDays >= today

\* A plot nobody has visited heads the list whatever else is wrong with it, and a plot is
\* listed as overdue only if nothing worse is known of it.
WorstReasonLeads ==
    \A P \in Scopes :
        LET rows == FollowUp(P) IN
        \A p \in DOMAIN rows :
            /\ rows[p] = "never" <=> Visits(p) = {}
            /\ rows[p] = "overdue" => plot[p].score = NULL \/ plot[p].score > LowScore

\* The two lenses and the cards cut the same last records: every plot seen in the window is
\* growing or finished, and weights and counts add up to the card's.
LensesPartition ==
    \A P \in Scopes : \A R \in {LastRecords(P, w) : w \in Windows} :
        LET cards == YieldCards(R)
            lenses == Production(R)
        IN /\ lenses.done = cards.cleanedPlots /\ lenses.growing = cards.missing
           /\ lenses.growingTarget + lenses.doneTarget = cards.target
           /\ lenses.growingYield + lenses.doneHarvest = cards.harvest
           /\ lenses.doneCleaned = cards.cleaned

\* In every grouping each plot is in one row of the comparison table and of each kind of
\* concern: the rows' plots add up to the cards'.
RowsAddUp ==
    \A P \in Scopes, w \in Windows :
        LET R == LastRecords(P, w)
            late == Overdue(P)
            lenses == Production(R)
            short == {i \in R : ShortOfPlan(i)}
            unweighed == MissingCleaned(R)
        IN /\ ConcernTotal(short) = Cardinality(short)
           /\ ConcernTotal(unweighed) = Cardinality(unweighed)
           /\ \A g \in Groupings :
                 LET table == Breakdown(g, P, late, R, w) IN
                 /\ Total(table, "plots") = Cardinality(P)
                 /\ Total(table, "overdue") = Cardinality(late)
                 /\ Total(table, "growing") = lenses.growing
                 /\ Total(table, "done") = lenses.done

\* "a plot's target must be counted once however many times somebody walked it"
\* (dashboard_repository.py:890): the table's targets add up to the card's.
BreakdownCountsOnce ==
    \A g \in Groupings, P \in Scopes, w \in Windows :
        LET R == LastRecords(P, w) IN
        Total(Breakdown(g, P, Overdue(P), R, w), "target") = TotalTarget(R)

\* Cards, lists and tables of the dashboard agree, over the same plots.
DashboardAgrees ==
    DashboardTypeOK /\ CardsMatchLists /\ NobodyIsForgotten /\ WorstReasonLeads
        /\ LensesPartition /\ RowsAddUp

=============================================================================
