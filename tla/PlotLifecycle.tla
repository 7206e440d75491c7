---------------------------- MODULE PlotLifecycle ----------------------------
(***************************************************************************)
(* Plots, their planting cycles and the inspection records filed against   *)
(* them, as changed by concurrent API requests.                            *)
(*                                                                         *)
(* A request is one PostgreSQL transaction (READ COMMITTED, committed      *)
(* before the response leaves).  It arrives, waits for the plot's row lock *)
(* (repositories/plot_repository.py get_plot_for_update, "the aggregate    *)
(* lock"), reads the plot and its active cycle under the lock, and then    *)
(* either commits every write of its handler at once or rolls back.        *)
(* What it read before it got the lock (an approved import preview, a      *)
(* public form's resolved cycle, a record looked up by id) may be stale by *)
(* then; the handlers' re-checks are the guards of the commit actions.     *)
(*                                                                         *)
(* Abstracted: plan fields to one value of Plans, an inspection's content  *)
(* to which harvest figures it carries, permissions and tenancy (a caller  *)
(* who lacks them is a request that rolls back), lot numbers, and the      *)
(* physical fields of a plot.                                              *)
(***************************************************************************)
EXTENDS Naturals, FiniteSets

CONSTANTS
    Plots,       \* rows the plots table may come to hold
    Requests,    \* concurrently served API requests (one transaction each)
    Records,     \* rows the records table may come to hold
    Plans,       \* contents of a cycle's plan columns
    Reports,     \* harvest figures an inspection may carry: subsets of {"kg", "clean"}
    Typed,       \* harvest figures a closing request may type in: subsets of Figures
    Operations,  \* operations the clients of this deployment call
    MaxCycles,   \* bound on cycles per plot
    MaxClock,    \* bound on transaction-start timestamps
    None,        \* SQL NULL
    ByHand       \* origin of actual-harvest figures all typed by the closing user

VARIABLES
    standing,    \* plots.is_active, or "absent" before the row is inserted
    cycle,       \* plot_cycles rows, by plot and cycle_no
    mirror,      \* plots.current_crop ... expected_yield_unit, as one plan
    snapshot,    \* plots.last_inspection_record_id and the columns copied with it
    record,      \* records rows
    txn,         \* what each request's transaction holds
    lock,        \* holder of each plot's row lock
    clock        \* latest transaction-start timestamp handed out by now()

vars == <<standing, cycle, mirror, snapshot, record, txn, lock, clock>>

CycleNos == 1 .. MaxCycles
Figures == {"kg", "clean", "date"}

PlotOps == {"start", "deactivate", "reactivate", "reactivateWithCycle"}
CycleOps == {"update", "close", "cancel", "rollover"}
RecordOps == {"createRecord", "publicRecord", "retractRecord"}
ImportOps == {"updateImport", "finalImport"}
AllOps == PlotOps \cup CycleOps \cup RecordOps \cup ImportOps

ASSUME BoundsAssumption == MaxCycles \in Nat \ {0} /\ MaxClock \in Nat
ASSUME OperationsAssumption == Operations \subseteq AllOps
ASSUME FiguresAssumption == /\ Reports \subseteq SUBSET {"kg", "clean"}
                            /\ Typed \subseteq SUBSET Figures
ASSUME NoneAssumption == /\ None \notin Plots \cup Requests \cup Records \cup Plans
                         /\ ByHand \notin Records \cup {None}

ClosedStatuses == {"harvested", "cancelled"}
Statuses == {"unused", "active"} \cup ClosedStatuses

CycleRow == [status : Statuses,
             plan : Plans \cup {None},
             final : Records \cup {None},            \* final_inspection_record_id
             harvest : Records \cup {None, ByHand}]  \* source of the actual-harvest set
UnusedCycle == [status |-> "unused", plan |-> None, final |-> None, harvest |-> None]

\* Mutant: a new row left in a status the CHECK constraint does not know.
OpenCycle_Planned(pl) == [UnusedCycle EXCEPT !.status = "planned", !.plan = pl]
OpenCycle(pl) == [UnusedCycle EXCEPT !.status = "active", !.plan = pl]

RecordRow == [plot : Plots \cup {None}, cycle : 0 .. MaxCycles, at : 0 .. MaxClock,
              live : BOOLEAN, report : (SUBSET {"kg", "clean"})]
NoRecord == [plot |-> None, cycle |-> 0, at |-> 0, live |-> FALSE, report |-> {}]

(* A request's transaction: the operation and its target, what it read     *)
(* before the lock (cycle, record, plan, at) and under it (serving, active)*)
Transaction == [pc : {"idle", "waiting", "locked"},
                op : AllOps \cup {"none"},
                plot : Plots \cup {None},
                cycle : 0 .. MaxCycles,
                record : Records \cup {None},
                plan : Plans \cup {None},
                at : 0 .. MaxClock,
                serving : BOOLEAN,
                active : 0 .. MaxCycles]
Idle == [pc |-> "idle", op |-> "none", plot |-> None, cycle |-> 0, record |-> None,
         plan |-> None, at |-> 0, serving |-> FALSE, active |-> 0]

TypeOK == /\ standing \in [Plots -> {"absent", "open", "closed"}]
          /\ cycle \in [Plots -> [CycleNos -> CycleRow]]
          /\ mirror \in [Plots -> Plans \cup {None}]
          /\ snapshot \in [Plots -> Records \cup {None}]
          /\ record \in [Records -> RecordRow]
          /\ txn \in [Requests -> Transaction]
          /\ lock \in [Plots -> Requests \cup {None}]
          /\ clock \in 0 .. MaxClock

Init == /\ standing = [p \in Plots |-> "absent"]
        /\ cycle = [p \in Plots |-> [n \in CycleNos |-> UnusedCycle]]
        /\ mirror = [p \in Plots |-> None]
        /\ snapshot = [p \in Plots |-> None]
        /\ record = [r \in Records |-> NoRecord]
        /\ txn = [t \in Requests |-> Idle]
        /\ lock = [p \in Plots |-> None]
        /\ clock = 0

-----------------------------------------------------------------------------
(* Queries *)

IsActive(p, n) == cycle[p][n].status = "active"

\* get_active_cycle_for_plot[_for_update]: n is the active cycle, 0 for no row.
ActiveIs(p, n) == IF n = 0 THEN \A m \in CycleNos : ~IsActive(p, m)
                           ELSE n \in CycleNos /\ IsActive(p, n)

\* _next_cycle_no: max(cycle_no) + 1 over the plot's rows, 1 when it has none.
IsNextCycleNo(p, n) ==
    /\ \A m \in CycleNos : cycle[p][m].status # "unused" => m < n
    /\ n > 1 => cycle[p][n - 1].status # "unused"

\* The partial unique index on plot_cycles(plot_id) WHERE status = 'active',
\* when every row but c (closed by the same statement batch) stays as it is.
UniqueIndexAdmits(p, c) == \A m \in CycleNos \ {c} : ~IsActive(p, m)

Filed(p, n) == {r \in Records : record[r].plot = p /\ record[r].cycle = n}
LiveIn(p, n) == {r \in Filed(p, n) : record[r].live}

\* Mutant: ascending order.
NewestIs_Oldest(S, r) == IF S = {} THEN r = None
                         ELSE r \in S /\ \A x \in S : record[x].at >= record[r].at

\* ORDER BY created_at DESC LIMIT 1 over the rows in S; None for no row.
NewestIs(S, r) == IF S = {} THEN r = None
                  ELSE r \in S /\ \A x \in S : record[x].at <= record[r].at

\* Mutant: the newest quantity, whether or not it is the cleaned one.
HarvestSourceIs_AnyQuantity(p, n, s) ==
    NewestIs({r \in LiveIn(p, n) : record[r].report # {}}, s)

\* The record a close takes its harvest figures from: records with an
\* after-cleaning figure first, then records with a quantity, newest of each.
HarvestSourceIs(p, n, s) ==
    LET clean == {r \in LiveIn(p, n) : "clean" \in record[r].report}
        kg == {r \in LiveIn(p, n) : "kg" \in record[r].report}
    IN NewestIs(IF clean # {} THEN clean ELSE kg, s)

\* actual_harvest_from_record: nothing without a quantity, else the quantity
\* with the record's own date, and the cleaned figure if the record has one.
CarriedFigures(s) == IF s = None \/ "kg" \notin record[s].report THEN {}
                     ELSE {"date"} \cup record[s].report

\* The harvest columns a close writes: all three figures or none of them;
\* a set that stays partial is refused (422, or the whole import file).
HarvestIs(p, n, h) ==
    \E typed \in Typed, s \in Records \cup {None} :
        /\ HarvestSourceIs(p, n, s)
        /\ typed \cup CarriedFigures(s) \in {{}, Figures}
        /\ h = IF typed = Figures THEN ByHand
               ELSE IF CarriedFigures(s) = {} THEN None ELSE s

-----------------------------------------------------------------------------
(* Arrival: the transaction begins, and reads what it reads without a lock *)

Arrive(t, q) == /\ txn[t].pc = "idle"
                /\ q.op \in Operations
                /\ txn' = [txn EXCEPT ![t] = q]
                /\ UNCHANGED <<standing, cycle, mirror, snapshot, record, lock>>

\* A transaction that is about to ask for plot p's lock.
Asks(op, p, n, r, pl, at) ==
    [pc |-> "waiting", op |-> op, plot |-> p, cycle |-> n, record |-> r,
     plan |-> pl, at |-> at, serving |-> FALSE, active |-> 0]

\* start / deactivate / reactivate / reactivate-with-cycle of an existing plot.
AskPlot(t, op, p) == /\ op \in PlotOps
                     /\ standing[p] # "absent"
                     /\ Arrive(t, Asks(op, p, 0, None, None, 0))
                     /\ UNCHANGED clock

\* update / close / cancel / rollover name a cycle, which may be closed by now.
AskCycle(t, op, p, n) == /\ op \in CycleOps
                         /\ cycle[p][n].status # "unused"
                         /\ Arrive(t, Asks(op, p, n, None, None, 0))
                         /\ UNCHANGED clock

\* Logged-in create: created_at will be this transaction's start.
AskRecord(t, p) == /\ standing[p] # "absent"
                   /\ clock < MaxClock
                   /\ clock' = clock + 1
                   /\ Arrive(t, Asks("createRecord", p, 0, None, None, clock + 1))

\* Public create: the token resolves, without a lock, to a plot in service whose
\* active cycle is the token's; then the photos are stored, and only then does
\* the request ask for the lock.
ResolvePublic(t, p, n) ==
    /\ standing[p] = "open"
    /\ IsActive(p, n)
    /\ clock < MaxClock
    /\ clock' = clock + 1
    /\ Arrive(t, Asks("publicRecord", p, n, None, None, clock + 1))

\* Record deactivation looks the record up before it locks the record's plot.
AskRetract(t, p, r) == /\ record[r].plot = p
                       /\ Arrive(t, Asks("retractRecord", p, 0, r, None, 0))
                       /\ UNCHANGED clock

\* An update row of an import is validated, without a lock, against the active
\* cycle: its crop, label and P Code must be that cycle's.
ValidateUpdate(t, p, n) == /\ standing[p] = "open"
                           /\ IsActive(p, n)
                           /\ Arrive(t, Asks("updateImport", p, n, None, None, 0))
                           /\ UNCHANGED clock

\* A final_plot import commits a preview the user approved: this active cycle
\* with this plan, and this record as its latest inspection.
ApproveFinal(t, p, n, r) ==
    /\ standing[p] = "open"
    /\ IsActive(p, n)
    /\ NewestIs(LiveIn(p, n), r)
    /\ Arrive(t, Asks("finalImport", p, n, r, cycle[p][n].plan, 0))
    /\ UNCHANGED clock

-----------------------------------------------------------------------------
(* The lock, and the two ways to let it go *)

\* Mutant: get_plot instead of get_plot_for_update.
LockFree_PlainSelect(p) == TRUE

\* SELECT ... FOR UPDATE waits while another transaction holds the row.
LockFree(p) == lock[p] = None

\* get_plot_for_update and the reads made under it.
Enter(t) ==
    LET p == txn[t].plot IN
    /\ txn[t].pc = "waiting"
    /\ LockFree(p)
    /\ lock' = [lock EXCEPT ![p] = t]
    /\ \E n \in 0 .. MaxCycles :
          /\ ActiveIs(p, n)
          /\ txn' = [txn EXCEPT ![t] = [@ EXCEPT !.pc = "locked",
                                                 !.serving = (standing[p] = "open"),
                                                 !.active = n]]
    /\ UNCHANGED <<standing, cycle, mirror, snapshot, record, clock>>

\* Mutant: a transaction that is abandoned open keeps its row locks.
Finish_KeepsLocks(t) == /\ txn' = [txn EXCEPT ![t] = Idle]
                        /\ UNCHANGED lock

\* The end of a transaction, by COMMIT or ROLLBACK, frees its row locks.
Finish(t) == /\ txn' = [txn EXCEPT ![t] = Idle]
             /\ lock' = [p \in Plots |-> IF lock[p] = t THEN None ELSE lock[p]]

\* A refused request (4xx), an exception, a lost connection, a failed COMMIT.
Rollback(t) == /\ txn[t].pc # "idle"
               /\ Finish(t)
               /\ UNCHANGED <<standing, cycle, mirror, snapshot, record, clock>>

Holds(t, op) == txn[t].pc = "locked" /\ txn[t].op = op

-----------------------------------------------------------------------------
(* Guards and writes that the handlers share *)

\* Mutant: plot.is_active not looked at.
InService_Unchecked(t) == TRUE
InService(t) == txn[t].serving

\* Mutant: the round 8-6H guard missing.
NothingGrowing_Unchecked(t) == TRUE
NothingGrowing(t) == txn[t].active = 0

\* The named cycle must still be the active one: the re-check under the lock.
\* Mutant: any active cycle will do.
NamedCycleIsActive_AnyCycle(t) == txn[t].active # 0
NamedCycleIsActive(t) == txn[t].active # 0 /\ txn[t].active = txn[t].cycle

\* clear_plot_inspection_snapshot
ClearSnapshot(p) == snapshot' = [snapshot EXCEPT ![p] = None]

\* clear_plot_cycle_mirror_and_inspection_snapshot
\* Mutant: the narrower helper called in its place.
ClearMirrorAndSnapshot_SnapshotOnly(p) == ClearSnapshot(p) /\ UNCHANGED mirror
ClearMirrorAndSnapshot(p) == ClearSnapshot(p) /\ mirror' = [mirror EXCEPT ![p] = None]

\* close_cycle: stamp the status and freeze the newest live record as the
\* source of the final estimate; h is the actual-harvest set, None for none.
ClosedRow(p, n, status, final, h) ==
    [cycle[p][n] EXCEPT !.status = status, !.final = final, !.harvest = h]

\* create_cycle: insert the next row as active and point the mirror at it.
InsertCycle(p, pl) ==
    \E n \in CycleNos :
        /\ IsNextCycleNo(p, n)
        /\ UniqueIndexAdmits(p, n)
        /\ cycle' = [cycle EXCEPT ![p][n] = OpenCycle(pl)]
        /\ mirror' = [mirror EXCEPT ![p] = pl]

\* update_cycle, then sync_plot_mirror_from_cycle.
Replan(p, n, pl) == /\ cycle' = [cycle EXCEPT ![p][n].plan = pl]
                    /\ mirror' = [mirror EXCEPT ![p] = pl]

-----------------------------------------------------------------------------
(* Commits *)

\* POST /plots: a plot with no cycle.
CreatePlot(p) == /\ standing[p] = "absent"
                 /\ standing' = [standing EXCEPT ![p] = "open"]
                 /\ UNCHANGED <<cycle, mirror, snapshot, record, txn, lock, clock>>

\* POST /plots/with-cycle and the import's create row: one transaction.
CreatePlotWithCycle(p, pl) ==
    /\ standing[p] = "absent"
    /\ standing' = [standing EXCEPT ![p] = "open"]
    /\ cycle' = [cycle EXCEPT ![p][1] = OpenCycle(pl)]
    /\ mirror' = [mirror EXCEPT ![p] = pl]
    /\ UNCHANGED <<snapshot, record, txn, lock, clock>>

StartCycle(t, pl) ==
    LET p == txn[t].plot IN
    /\ Holds(t, "start")
    /\ InService(t)
    /\ NothingGrowing(t)
    /\ InsertCycle(p, pl)
    /\ ClearSnapshot(p)
    /\ Finish(t)
    /\ UNCHANGED <<standing, record, clock>>

ReactivateWithCycle(t, pl) ==
    LET p == txn[t].plot IN
    /\ Holds(t, "reactivateWithCycle")
    /\ ~InService(t)
    /\ NothingGrowing(t)
    /\ standing' = [standing EXCEPT ![p] = "open"]
    /\ InsertCycle(p, pl)
    /\ ClearSnapshot(p)
    /\ Finish(t)
    /\ UNCHANGED <<record, clock>>

Reactivate(t) ==
    LET p == txn[t].plot IN
    /\ Holds(t, "reactivate")
    /\ ~InService(t)
    /\ NothingGrowing(t)
    /\ standing' = [standing EXCEPT ![p] = "open"]
    /\ ClearMirrorAndSnapshot(p)
    /\ Finish(t)
    /\ UNCHANGED <<cycle, record, clock>>

Deactivate(t) ==
    LET p == txn[t].plot IN
    /\ Holds(t, "deactivate")
    /\ NothingGrowing(t)
    /\ standing' = [standing EXCEPT ![p] = "closed"]
    /\ ClearMirrorAndSnapshot(p)
    /\ Finish(t)
    /\ UNCHANGED <<cycle, record, clock>>

UpdateCycle(t, pl) == /\ Holds(t, "update")
                      /\ NamedCycleIsActive(t)
                      /\ Replan(txn[t].plot, txn[t].cycle, pl)
                      /\ Finish(t)
                      /\ UNCHANGED <<standing, snapshot, record, clock>>

\* The update row of an import rewrites the plan of the cycle that is active
\* now; that it is the validated one is not looked at again.
UpdateImport(t, pl) == /\ Holds(t, "updateImport")
                       /\ InService(t)
                       /\ txn[t].active # 0
                       /\ Replan(txn[t].plot, txn[t].active, pl)
                       /\ Finish(t)
                       /\ UNCHANGED <<standing, snapshot, record, clock>>

\* With plots.delete (retire) the plot also leaves service.
CloseCycle(t, retire) ==
    LET p == txn[t].plot
        n == txn[t].cycle
    IN /\ Holds(t, "close")
       /\ NamedCycleIsActive(t)
       /\ \E f \in Records \cup {None}, h \in Records \cup {None, ByHand} :
             /\ NewestIs(LiveIn(p, n), f)
             /\ HarvestIs(p, n, h)
             /\ cycle' = [cycle EXCEPT ![p][n] = ClosedRow(p, n, "harvested", f, h)]
       /\ ClearMirrorAndSnapshot(p)
       /\ standing' = IF retire THEN [standing EXCEPT ![p] = "closed"] ELSE standing
       /\ Finish(t)
       /\ UNCHANGED <<record, clock>>

CancelCycle(t) ==
    LET p == txn[t].plot
        n == txn[t].cycle
    IN /\ Holds(t, "cancel")
       /\ NamedCycleIsActive(t)
       /\ \E f \in Records \cup {None} :
             /\ NewestIs(LiveIn(p, n), f)
             /\ cycle' = [cycle EXCEPT ![p][n] = ClosedRow(p, n, "cancelled", f, None)]
       /\ ClearMirrorAndSnapshot(p)
       /\ standing' = [standing EXCEPT ![p] = "closed"]
       /\ Finish(t)
       /\ UNCHANGED <<record, clock>>

\* Close and open in one transaction; a failed open undoes the close.
RolloverCycle(t, status, pl) ==
    LET p == txn[t].plot
        n == txn[t].cycle
    IN /\ Holds(t, "rollover")
       /\ InService(t)
       /\ NamedCycleIsActive(t)
       /\ \E f \in Records \cup {None}, next \in CycleNos :
             /\ NewestIs(LiveIn(p, n), f)
             /\ IsNextCycleNo(p, next)
             /\ UniqueIndexAdmits(p, n)
             /\ cycle' = [cycle EXCEPT ![p] =
                            [@ EXCEPT ![n] = ClosedRow(p, n, status, f, None),
                                      ![next] = OpenCycle(pl)]]
       /\ mirror' = [mirror EXCEPT ![p] = pl]
       /\ ClearSnapshot(p)
       /\ Finish(t)
       /\ UNCHANGED <<standing, record, clock>>

\* _verify_final_plot_snapshot: the plot's cycle, its plan and its newest record
\* are the ones the user approved (the plan stands for the rows' updated_at).
ApprovedStateStands(t) ==
    LET p == txn[t].plot
        n == txn[t].cycle
    IN /\ NamedCycleIsActive(t)
       /\ cycle[p][n].plan = txn[t].plan
       /\ NewestIs(LiveIn(p, n), txn[t].record)

\* The final_plot import row: the approved state is compared under the lock,
\* then the cycle is closed.  The branch writes neither mirror nor snapshot.
FinalImport(t, retire) ==
    LET p == txn[t].plot
        n == txn[t].cycle
    IN /\ Holds(t, "finalImport")
       /\ InService(t)
       /\ ApprovedStateStands(t)
       /\ \E h \in Records \cup {None, ByHand} :
             /\ HarvestIs(p, n, h)
             /\ cycle' = [cycle EXCEPT ![p][n] =
                            ClosedRow(p, n, "harvested", txn[t].record, h)]
       /\ standing' = IF retire THEN [standing EXCEPT ![p] = "closed"] ELSE standing
       /\ Finish(t)
       /\ UNCHANGED <<mirror, snapshot, record, clock>>

\* Mutant: what the row shows already is left alone.
SyncStatus_WhenEmpty(p, r) ==
    snapshot' = [snapshot EXCEPT ![p] = IF @ = None THEN r ELSE @]

\* sync_current_status_from_record "always overwrites unconditionally".
SyncStatus(p, r) == snapshot' = [snapshot EXCEPT ![p] = r]

\* create_record followed by the sync, which refuses a record of any cycle but the
\* active one.
InsertRecord(t, r, report) ==
    LET p == txn[t].plot IN
    /\ record[r].plot = None
    /\ record' = [record EXCEPT ![r] = [plot |-> p, cycle |-> txn[t].active,
                                        at |-> txn[t].at, live |-> TRUE,
                                        report |-> report]]
    /\ IsActive(p, txn[t].active)
    /\ SyncStatus(p, r)
    /\ Finish(t)
    /\ UNCHANGED <<standing, cycle, mirror, clock>>

CreateRecord(t, r, report) == /\ Holds(t, "createRecord")
                              /\ InService(t)
                              /\ txn[t].active # 0
                              /\ InsertRecord(t, r, report)

\* The locked re-check against the cycle resolved before the photos were stored.
PublicRecord(t, r, report) == /\ Holds(t, "publicRecord")
                              /\ InService(t)
                              /\ NamedCycleIsActive(t)
                              /\ InsertRecord(t, r, report)

\* The active cycle's records that count once the target is retracted.
\* Mutant: the query without its is_active filter.
Remaining_AnyRecord(t) == IF txn[t].active = 0 THEN {}
                          ELSE Filed(txn[t].plot, txn[t].active)
Remaining(t) == IF txn[t].active = 0 THEN {}
                ELSE LiveIn(txn[t].plot, txn[t].active) \ {txn[t].record}

\* Records are append-only but for this flag; resync_current_status_from_latest
\* recomputes the snapshot from the active cycle's remaining live records.
RetractRecord(t) ==
    LET p == txn[t].plot
        r == txn[t].record
    IN /\ Holds(t, "retractRecord")
       /\ record' = [record EXCEPT ![r].live = FALSE]
       /\ \E s \in Records \cup {None} :
             /\ NewestIs(Remaining(t), s)
             /\ snapshot' = [snapshot EXCEPT ![p] = s]
       /\ Finish(t)
       /\ UNCHANGED <<standing, cycle, mirror, clock>>

-----------------------------------------------------------------------------
Arrivals(t) ==
    \E p \in Plots :
        \/ \E op \in PlotOps : AskPlot(t, op, p)
        \/ \E op \in CycleOps, n \in CycleNos : AskCycle(t, op, p, n)
        \/ AskRecord(t, p)
        \/ \E n \in CycleNos : ResolvePublic(t, p, n)
        \/ \E n \in CycleNos : ValidateUpdate(t, p, n)
        \/ \E r \in Records : AskRetract(t, p, r)
        \/ \E n \in CycleNos, r \in Records \cup {None} : ApproveFinal(t, p, n, r)

Commit(t) ==
    \/ \E pl \in Plans : StartCycle(t, pl)
    \/ \E pl \in Plans : ReactivateWithCycle(t, pl)
    \/ Reactivate(t)
    \/ Deactivate(t)
    \/ \E pl \in Plans : UpdateCycle(t, pl)
    \/ \E pl \in Plans : UpdateImport(t, pl)
    \/ \E retire \in BOOLEAN : CloseCycle(t, retire)
    \/ CancelCycle(t)
    \/ \E status \in ClosedStatuses, pl \in Plans : RolloverCycle(t, status, pl)
    \/ \E retire \in BOOLEAN : FinalImport(t, retire)
    \/ \E r \in Records, report \in Reports : CreateRecord(t, r, report)
    \/ \E r \in Records, report \in Reports : PublicRecord(t, r, report)
    \/ RetractRecord(t)

Next == \/ \E p \in Plots : CreatePlot(p)
        \/ \E p \in Plots, pl \in Plans : CreatePlotWithCycle(p, pl)
        \/ \E t \in Requests : \/ Arrivals(t)
                               \/ Enter(t)
                               \/ Rollback(t)
                               \/ Commit(t)

Spec == Init /\ [][Next]_vars

\* PostgreSQL queues the waiters of a row lock, so a request cannot be overtaken
\* for ever; a handler that holds the lock ends its transaction (get_db commits
\* or rolls back on every path).  Arrivals are up to the clients.
Fairness == \A t \in Requests : /\ SF_vars(Enter(t))
                                /\ WF_vars(txn[t].pc = "locked" /\ (Rollback(t) \/ Commit(t)))
FairSpec == Spec /\ Fairness

-----------------------------------------------------------------------------
(* Properties *)

\* What the request read under its lock is the case, and it has the lock.
ReadsHold(t) == /\ lock[txn[t].plot] = t
                /\ txn[t].serving = (standing[txn[t].plot] = "open")
                /\ ActiveIs(txn[t].plot, txn[t].active)

\* Isolation: whatever a handler read under the plot lock (is the plot in
\* service, which cycle is active) is still true at every later moment until
\* its own transaction ends, and nobody else is between its read and its commit.
LockedReadsStayTrue == \A t \in Requests : txn[t].pc = "locked" => ReadsHold(t)

\* An open cycle of p is its latest one, and p is in service.
DormantAt(p) == \A n \in CycleNos : IsActive(p, n) =>
                   /\ standing[p] = "open"
                   /\ \A m \in CycleNos : m > n => cycle[p][m].status = "unused"

\* "Inactive" and "has an open cycle" are mutually exclusive (deactivate_plot's
\* contract), whatever starts, deactivations, closes and imports interleave; and
\* the open cycle is always the plot's latest one.
ClosedPlotsAreDormant == \A p \in Plots : DormantAt(p)

\* While a cycle is open the plot row advertises exactly that cycle's plan, and
\* its snapshot is a live inspection of that cycle, absent only if there is none.
AdvertisesActiveCycle ==
    \A p \in Plots, n \in CycleNos : IsActive(p, n) =>
        /\ mirror[p] = cycle[p][n].plan
        /\ IF LiveIn(p, n) = {} THEN snapshot[p] = None ELSE snapshot[p] \in LiveIn(p, n)

\* The plot row shows the newest live inspection of its open cycle, or that there is none.
ShowsNewest(p, n) ==
    IF LiveIn(p, n) = {} THEN snapshot[p] = None
    ELSE /\ snapshot[p] \in LiveIn(p, n)
         /\ \A x \in LiveIn(p, n) : record[x].at <= record[snapshot[p]].at

\* "plot current_* == the newest active record OF THE ACTIVE CYCLE", as
\* resync_current_status_from_latest says.  It is not so: created_at is the start of the
\* request's transaction, the filings of a plot commit in the order they get its lock, and
\* each overwrites the snapshot.
SnapshotIsNewest == \A p \in Plots, n \in CycleNos : IsActive(p, n) => ShowsNewest(p, n)

\* What is so: an open cycle's snapshot is the newest inspection from the moment the cycle
\* opens, ceases to be only when an inspection is filed whose request began before that
\* of one already filed, and is the newest again after the next retraction, or the next
\* filing that was begun after all the others.
NewestUnlessOvertaken ==
    [][\A p \in Plots, n \in CycleNos : IsActive(p, n)' =>
          \/ ShowsNewest(p, n)'
          \/ \E r \in LiveIn(p, n)' \ LiveIn(p, n), x \in LiveIn(p, n) :
                record'[r].at < record[x].at
          \/ IsActive(p, n) /\ UNCHANGED <<LiveIn(p, n), snapshot[p]>>]_vars

\* A plot with no open cycle advertises no plan and no inspection (the mirror is
\* "cleared when a plot has no active cycle").  Holds for the API endpoints.
FallowAdvertisesNothing ==
    \A p \in Plots : ActiveIs(p, 0) => mirror[p] = None /\ snapshot[p] = None

\* The final estimate frozen at a close is that cycle's own newest inspection,
\* and stays so: nothing is filed in a cycle after it closed, and of the records
\* still live none was made after the frozen one.
FinalEstimateIsLastWord ==
    \A p \in Plots, n \in CycleNos : cycle[p][n].status \in ClosedStatuses =>
        LET f == cycle[p][n].final IN
        IF f = None THEN LiveIn(p, n) = {}
        ELSE f \in Filed(p, n) /\ \A r \in LiveIn(p, n) : record[r].at <= record[f].at

\* Actual-harvest figures exist only on a harvested cycle, and when they were
\* carried over they come from a quantity reported in that very cycle, in
\* preference order: a report with the cleaned weight beats any without one,
\* and of two with it, or two without it, the newer one beats the older one.
HarvestComesFromItsSeason ==
    \A p \in Plots, n \in CycleNos :
        LET h == cycle[p][n].harvest IN
        /\ h # None => cycle[p][n].status = "harvested"
        /\ h \in Records =>
              /\ h \in Filed(p, n)
              /\ "kg" \in record[h].report
              /\ \A r \in LiveIn(p, n) :
                    /\ "clean" \in record[r].report =>
                          "clean" \in record[h].report /\ record[r].at <= record[h].at
                    /\ "kg" \in record[r].report =>
                          "clean" \in record[h].report \/ record[r].at <= record[h].at

\* History is additive: once closed, a cycle row never changes again; a record
\* keeps its plot, cycle, time and content, and a retracted one stays retracted.
HistoryIsAdditive ==
    [][/\ \A p \in Plots, n \in CycleNos :
             cycle[p][n].status \in ClosedStatuses => cycle'[p][n] = cycle[p][n]
       /\ \A r \in Records : record[r].plot # None =>
             record'[r] \in {record[r], [record[r] EXCEPT !.live = FALSE]}]_vars

\* A record is filed only in a cycle that is open at that moment, and one sent
\* through the public form only in the very cycle its token was resolved to,
\* however many rollovers committed while the photos were uploading.
RecordsJoinTheResolvedCycle ==
    [][\A r \in Records : record[r].plot = None /\ record'[r].plot # None =>
          \E t \in Requests : LET row == record'[r] IN
             /\ txn[t].plot = row.plot /\ txn[t].at = row.at /\ txn'[t] = Idle
             /\ IsActive(row.plot, row.cycle)
             /\ txn[t].op = "publicRecord" => row.cycle = txn[t].cycle]_vars

\* No request waits for a plot's lock for ever, and none keeps it for ever.
EveryRequestEnds == \A t \in Requests : txn[t].pc # "idle" ~> txn[t].pc = "idle"

\* The plot API implements the ledger of seasons.
Ledger == INSTANCE PlotLedger WITH
    phase <- [p \in Plots |->
                IF standing[p] = "absent" THEN "absent"
                ELSE IF standing[p] = "closed" THEN "retired"
                ELSE IF ActiveIs(p, 0) THEN "fallow" ELSE "growing"],
    season <- [p \in Plots |-> Cardinality({n \in CycleNos : cycle[p][n].status # "unused"})],
    ending <- [p \in Plots |-> [n \in CycleNos |->
                IF cycle[p][n].status \in ClosedStatuses THEN cycle[p][n].status ELSE "none"]],
    entries <- [p \in Plots |-> [n \in CycleNos |-> Filed(p, n)]]

ImplementsLedger == Ledger!Spec

\* An open season advertises its own plan and a live inspection of its own, the newest but
\* for one that overtook it on the way to the lock, and what a closed season keeps as its
\* last word is the newest it had.
SeasonsTellTheirOwn ==
    [](AdvertisesActiveCycle /\ FinalEstimateIsLastWord) /\ NewestUnlessOvertaken

\* Seasons and inspections are only ever added, and an inspection joins the season its
\* request settled on.
HistoryStands == HistoryIsAdditive /\ RecordsJoinTheResolvedCycle

\* Harvest figures belong to the season they were reported in, and between seasons a plot
\* advertises none.
SeasonsOwnTheirHarvest == HarvestComesFromItsSeason /\ FallowAdvertisesNothing

=============================================================================
