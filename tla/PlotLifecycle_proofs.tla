------------------------ MODULE PlotLifecycle_proofs ------------------------
(***************************************************************************)
(* What holds of PlotLifecycle for every set of plots, requests, records   *)
(* and plans, every deployment's operations and every bound.               *)
(*                                                                         *)
(* First types, the row lock, and closed plots (IInv); then what the       *)
(* seasons say of themselves, and that the API is a ledger of seasons      *)
(* (JInv). Whatever its handler, a step does one of eight things to one    *)
(* plot (Effects below): that is shown once, from IInv and from what a     *)
(* request knows of its target, and every property of the seasons is then  *)
(* proved effect by effect.                                                *)
(***************************************************************************)
EXTENDS PlotLifecycle, TLAPS, FiniteSetTheorems

-----------------------------------------------------------------------------
(* Type correctness *)

\* A request with no transaction has the type of one.
LEMMA IdleType == Idle \in Transaction
  BY BoundsAssumption DEF Idle, Transaction

\* A row that create_cycle inserts has the type of the table's rows.
LEMMA OpenCycleType == ASSUME NEW pl \in Plans PROVE OpenCycle(pl) \in CycleRow
  BY DEF OpenCycle, UnusedCycle, CycleRow, Statuses, ClosedStatuses

\* A row that close_cycle stamps has the type of the table's rows.
LEMMA ClosedRowType ==
  ASSUME TypeOK, NEW p \in Plots, NEW n \in CycleNos, NEW s \in ClosedStatuses,
         NEW f \in Records \cup {None}, NEW h \in Records \cup {None, ByHand}
  PROVE  ClosedRow(p, n, s, f, h) \in CycleRow
<1>1. cycle[p][n] \in CycleRow
  BY DEF TypeOK
<1> QED
  BY <1>1 DEF ClosedRow, CycleRow, Statuses

\* Arrivals and the ends of transactions leave txn and lock well typed.
LEMMA ArriveType ==
  ASSUME TypeOK, NEW t \in Requests, NEW q \in Transaction, Arrive(t, q)
  PROVE  /\ txn' \in [Requests -> Transaction]
         /\ UNCHANGED <<standing, cycle, mirror, snapshot, record, lock>>
  BY DEF TypeOK, Arrive, Transaction

\* The end of a transaction leaves transactions and locks typed.
LEMMA FinishType ==
  ASSUME TypeOK, NEW t \in Requests, Finish(t)
  PROVE  /\ txn' \in [Requests -> Transaction]
         /\ lock' \in [Plots -> Requests \cup {None}]
  BY IdleType DEF TypeOK, Finish

\* A request that waits for a lock has the type of a transaction.
LEMMA AsksType ==
  ASSUME NEW op \in AllOps, NEW p \in Plots, NEW n \in 0 .. MaxCycles,
         NEW r \in Records \cup {None}, NEW pl \in Plans \cup {None},
         NEW a \in 0 .. MaxClock
  PROVE  Asks(op, p, n, r, pl, a) \in Transaction
  BY BoundsAssumption DEF Asks, Transaction

\* Arriving keeps the types.
LEMMA TypeArrivals ==
  ASSUME TypeOK, NEW t \in Requests, Arrivals(t)
  PROVE  TypeOK'
<1> USE BoundsAssumption
<1>1. PICK p \in Plots :
        \/ \E op \in PlotOps : AskPlot(t, op, p)
        \/ \E op \in CycleOps, n \in CycleNos : AskCycle(t, op, p, n)
        \/ AskRecord(t, p)
        \/ \E n \in CycleNos : ResolvePublic(t, p, n)
        \/ \E n \in CycleNos : ValidateUpdate(t, p, n)
        \/ \E r \in Records : AskRetract(t, p, r)
        \/ \E n \in CycleNos, r \in Records \cup {None} : ApproveFinal(t, p, n, r)
  BY DEF Arrivals
<1>2. \A n \in CycleNos : n \in 0 .. MaxCycles
  BY DEF CycleNos
<1>0. 0 \in 0 .. MaxCycles /\ 0 \in 0 .. MaxClock /\ clock \in 0 .. MaxClock
  BY DEF TypeOK
<1>3. clock < MaxClock => clock + 1 \in 0 .. MaxClock
  BY DEF TypeOK
<1>4. \E q \in Transaction : Arrive(t, q) /\ clock' \in 0 .. MaxClock
  <2>1. CASE \E op \in PlotOps : AskPlot(t, op, p)
    BY <2>1, <1>0, AsksType DEF AskPlot, AllOps
  <2>2. CASE \E op \in CycleOps, n \in CycleNos : AskCycle(t, op, p, n)
    BY <2>2, <1>2, <1>0, AsksType DEF AskCycle, AllOps
  <2>3. CASE AskRecord(t, p)
    BY <2>3, <1>3, <1>0, AsksType DEF AskRecord, AllOps, RecordOps
  <2>4. CASE \E n \in CycleNos : ResolvePublic(t, p, n)
    BY <2>4, <1>2, <1>3, <1>0, AsksType DEF ResolvePublic, AllOps, RecordOps
  <2>7. CASE \E n \in CycleNos : ValidateUpdate(t, p, n)
    BY <2>7, <1>2, <1>0, AsksType DEF ValidateUpdate, AllOps, ImportOps
  <2>5. CASE \E r \in Records : AskRetract(t, p, r)
    BY <2>5, <1>0, AsksType DEF AskRetract, AllOps, RecordOps, TypeOK
  <2>6. CASE \E n \in CycleNos, r \in Records \cup {None} : ApproveFinal(t, p, n, r)
    <3>1. PICK n \in CycleNos, r \in Records \cup {None} : ApproveFinal(t, p, n, r)
      BY <2>6
    <3>2. cycle[p][n].plan \in Plans \cup {None}
      BY DEF TypeOK, CycleRow
    <3> QED
      BY <3>1, <3>2, <1>2, <1>0, AsksType DEF ApproveFinal, AllOps, ImportOps, TypeOK
  <2> QED
    BY <1>1, <2>1, <2>2, <2>3, <2>4, <2>5, <2>6, <2>7
<1> QED
  BY <1>4, ArriveType DEF TypeOK

\* A transaction that is under way is about a plot of Plots and holds well
\* typed values; an idle one is about no plot.
LEMMA TransactionParts ==
  ASSUME TypeOK, NEW t \in Requests
  PROVE  /\ txn[t].plot \in Plots \cup {None}
         /\ txn[t].cycle \in 0 .. MaxCycles /\ txn[t].active \in 0 .. MaxCycles
         /\ txn[t].record \in Records \cup {None} /\ txn[t].at \in 0 .. MaxClock
  BY DEF TypeOK, Transaction

\* Taking the lock and reading under it keeps the types.
LEMMA TypeEnter ==
  ASSUME TypeOK, NEW t \in Requests, Enter(t)
  PROVE  TypeOK'
<1>1. PICK n \in 0 .. MaxCycles :
        txn' = [txn EXCEPT ![t] = [@ EXCEPT !.pc = "locked",
                                            !.serving = (standing[txn[t].plot] = "open"),
                                            !.active = n]]
  BY DEF Enter
<1>2. txn[t] \in Transaction
  BY DEF TypeOK
<1>3. [txn[t] EXCEPT !.pc = "locked", !.serving = (standing[txn[t].plot] = "open"),
                     !.active = n] \in Transaction
  BY <1>2 DEF Transaction
<1>4. txn' \in [Requests -> Transaction]
  BY <1>1, <1>3 DEF TypeOK
<1>5. lock' \in [Plots -> Requests \cup {None}]
  BY DEF Enter, TypeOK
<1> QED
  BY <1>4, <1>5 DEF Enter, TypeOK

\* What a commit does to the tables, one fact per kind of write.
LEMMA TypeInsertCycle ==
  ASSUME TypeOK, NEW p \in Plots, NEW pl \in Plans, InsertCycle(p, pl)
  PROVE  /\ cycle' \in [Plots -> [CycleNos -> CycleRow]]
         /\ mirror' \in [Plots -> Plans \cup {None}]
  BY OpenCycleType DEF InsertCycle, TypeOK

\* The two clearing helpers keep the types.
LEMMA TypeClear ==
  ASSUME TypeOK, NEW p \in Plots
  PROVE  /\ ClearSnapshot(p) => snapshot' \in [Plots -> Records \cup {None}]
         /\ ClearMirrorAndSnapshot(p) => /\ snapshot' \in [Plots -> Records \cup {None}]
                                         /\ mirror' \in [Plots -> Plans \cup {None}]
  BY DEF TypeOK, ClearSnapshot, ClearMirrorAndSnapshot

\* So does writing plots.is_active.
LEMMA TypeStanding ==
  ASSUME TypeOK, NEW p \in Plots, NEW s \in {"absent", "open", "closed"}
  PROVE  [standing EXCEPT ![p] = s] \in [Plots -> {"absent", "open", "closed"}]
  BY DEF TypeOK

\* So does update_cycle with its mirror.
LEMMA TypeReplan ==
  ASSUME TypeOK, NEW p \in Plots, NEW n \in CycleNos, NEW pl \in Plans, Replan(p, n, pl)
  PROVE  /\ cycle' \in [Plots -> [CycleNos -> CycleRow]]
         /\ mirror' \in [Plots -> Plans \cup {None}]
<1>1. cycle[p][n] \in CycleRow
  BY DEF TypeOK
<1>2. [cycle[p][n] EXCEPT !.plan = pl] \in CycleRow
  BY <1>1 DEF CycleRow
<1> QED
  BY <1>2 DEF Replan, TypeOK

\* So does create_record with its snapshot.
LEMMA TypeInsertRecord ==
  ASSUME TypeOK, NEW t \in Requests, txn[t].plot \in Plots, NEW r \in Records,
         NEW report \in Reports, InsertRecord(t, r, report)
  PROVE  TypeOK'
<1>1. [plot |-> txn[t].plot, cycle |-> txn[t].active, at |-> txn[t].at, live |-> TRUE,
       report |-> report] \in RecordRow
  BY TransactionParts, FiguresAssumption DEF RecordRow
<1>2. record' \in [Records -> RecordRow]
  BY <1>1 DEF InsertRecord, SyncStatus, TypeOK
<1>3. snapshot' \in [Plots -> Records \cup {None}]
  BY DEF InsertRecord, SyncStatus, TypeOK
<1> QED
  BY <1>2, <1>3, FinishType DEF InsertRecord, SyncStatus, TypeOK

\* Every commit keeps the types.
LEMMA TypeCommit ==
  ASSUME TypeOK, NEW t \in Requests, txn[t].plot \in Plots, Commit(t)
  PROVE  TypeOK'
<1> DEFINE p == txn[t].plot
           n == txn[t].cycle
<1> USE TransactionParts
<1>0. NamedCycleIsActive(t) => n \in CycleNos
  BY BoundsAssumption DEF NamedCycleIsActive, CycleNos
<1>1. ASSUME NEW pl \in Plans, StartCycle(t, pl) PROVE TypeOK'
  BY <1>1, TypeInsertCycle, TypeClear, FinishType DEF StartCycle, TypeOK
<1>2. ASSUME NEW pl \in Plans, ReactivateWithCycle(t, pl) PROVE TypeOK'
  BY <1>2, TypeInsertCycle, TypeClear, TypeStanding, FinishType
     DEF ReactivateWithCycle, TypeOK
<1>3. CASE Reactivate(t)
  BY <1>3, TypeClear, TypeStanding, FinishType DEF Reactivate, TypeOK
<1>4. CASE Deactivate(t)
  BY <1>4, TypeClear, TypeStanding, FinishType DEF Deactivate, TypeOK
<1>5. ASSUME NEW pl \in Plans, UpdateCycle(t, pl) PROVE TypeOK'
  BY <1>0, <1>5, TypeReplan, FinishType DEF UpdateCycle, TypeOK
<1>13. ASSUME NEW pl \in Plans, UpdateImport(t, pl) PROVE TypeOK'
  <2>1. txn[t].active \in CycleNos
    BY <1>13, BoundsAssumption DEF UpdateImport, CycleNos
  <2> QED
    BY <1>13, <2>1, TypeReplan, FinishType DEF UpdateImport, TypeOK
<1>6. ASSUME NEW retire \in BOOLEAN, CloseCycle(t, retire) PROVE TypeOK'
  <2>1. PICK f \in Records \cup {None}, h \in Records \cup {None, ByHand} :
          cycle' = [cycle EXCEPT ![p][n] = ClosedRow(p, n, "harvested", f, h)]
    BY <1>6 DEF CloseCycle
  <2>2. ClosedRow(p, n, "harvested", f, h) \in CycleRow
    BY <1>0, <1>6, ClosedRowType DEF CloseCycle, ClosedStatuses
  <2>3. cycle' \in [Plots -> [CycleNos -> CycleRow]]
    BY <2>1, <2>2 DEF TypeOK
  <2> QED
    BY <1>6, <2>3, TypeClear, TypeStanding, FinishType DEF CloseCycle, TypeOK
<1>7. CASE CancelCycle(t)
  <2>1. PICK f \in Records \cup {None} :
          cycle' = [cycle EXCEPT ![p][n] = ClosedRow(p, n, "cancelled", f, None)]
    BY <1>7 DEF CancelCycle
  <2>2. ClosedRow(p, n, "cancelled", f, None) \in CycleRow
    BY <1>0, <1>7, ClosedRowType DEF CancelCycle, ClosedStatuses
  <2>3. cycle' \in [Plots -> [CycleNos -> CycleRow]]
    BY <2>1, <2>2 DEF TypeOK
  <2> QED
    BY <1>7, <2>3, TypeClear, TypeStanding, FinishType DEF CancelCycle, TypeOK
<1>8. ASSUME NEW status \in ClosedStatuses, NEW pl \in Plans, RolloverCycle(t, status, pl)
      PROVE TypeOK'
  <2>1. PICK f \in Records \cup {None}, next \in CycleNos :
          cycle' = [cycle EXCEPT ![p] = [@ EXCEPT ![n] = ClosedRow(p, n, status, f, None),
                                                  ![next] = OpenCycle(pl)]]
    BY <1>8 DEF RolloverCycle
  <2>2. ClosedRow(p, n, status, f, None) \in CycleRow
    BY <1>0, <1>8, ClosedRowType DEF RolloverCycle
  <2>3. cycle' \in [Plots -> [CycleNos -> CycleRow]]
    BY <2>1, <2>2, OpenCycleType DEF TypeOK
  <2>4. mirror' \in [Plots -> Plans \cup {None}]
    BY <1>8 DEF RolloverCycle, TypeOK
  <2> QED
    BY <1>8, <2>3, <2>4, TypeClear, FinishType DEF RolloverCycle, TypeOK
<1>9. ASSUME NEW retire \in BOOLEAN, FinalImport(t, retire) PROVE TypeOK'
  <2>1. PICK h \in Records \cup {None, ByHand} :
          cycle' = [cycle EXCEPT ![p][n] =
                      ClosedRow(p, n, "harvested", txn[t].record, h)]
    BY <1>9 DEF FinalImport
  <2>2. ClosedRow(p, n, "harvested", txn[t].record, h) \in CycleRow
    BY <1>0, <1>9, ClosedRowType DEF FinalImport, ApprovedStateStands, ClosedStatuses
  <2>3. cycle' \in [Plots -> [CycleNos -> CycleRow]]
    BY <2>1, <2>2 DEF TypeOK
  <2> QED
    BY <1>9, <2>3, TypeStanding, FinishType DEF FinalImport, TypeOK
<1>10. ASSUME NEW r \in Records, NEW report \in Reports, CreateRecord(t, r, report)
       PROVE TypeOK'
  BY <1>10, TypeInsertRecord DEF CreateRecord
<1>11. ASSUME NEW r \in Records, NEW report \in Reports, PublicRecord(t, r, report)
       PROVE TypeOK'
  BY <1>11, TypeInsertRecord DEF PublicRecord
<1>12. CASE RetractRecord(t)
  <2>0. ASSUME NEW x \in RecordRow PROVE [x EXCEPT !.live = FALSE] \in RecordRow
    BY DEF RecordRow
  <2>1. record' \in [Records -> RecordRow]
    BY <1>12, <2>0 DEF RetractRecord, TypeOK
  <2>2. snapshot' \in [Plots -> Records \cup {None}]
    BY <1>12 DEF RetractRecord, TypeOK
  <2> QED
    BY <1>12, <2>1, <2>2, FinishType DEF RetractRecord, TypeOK
<1> QED
  BY <1>1, <1>2, <1>3, <1>4, <1>5, <1>6, <1>7, <1>8, <1>9, <1>10, <1>11, <1>12, <1>13
     DEF Commit

\* Creating a plot keeps the types.
LEMMA TypeCreatePlot ==
  ASSUME TypeOK, NEW p \in Plots,
         CreatePlot(p) \/ \E pl \in Plans : CreatePlotWithCycle(p, pl)
  PROVE  TypeOK'
<1>1. CASE CreatePlot(p)
  BY <1>1, TypeStanding DEF CreatePlot, TypeOK
<1>2. ASSUME NEW pl \in Plans, CreatePlotWithCycle(p, pl) PROVE TypeOK'
  <2>1. cycle' \in [Plots -> [CycleNos -> CycleRow]] /\ mirror' \in [Plots -> Plans \cup {None}]
    BY <1>2, OpenCycleType DEF CreatePlotWithCycle, TypeOK
  <2> QED
    BY <1>2, <2>1, TypeStanding DEF CreatePlotWithCycle, TypeOK
<1> QED
  BY <1>1, <1>2

-----------------------------------------------------------------------------
(* The inductive invariant *)

\* A transaction under way is about a plot that exists.
TargetsExist == \A t \in Requests : txn[t].pc # "idle" =>
                   txn[t].plot \in Plots /\ standing[txn[t].plot] # "absent"

\* A plot that does not exist yet has no cycle.
AbsentPlotsAreEmpty == \A p \in Plots, n \in CycleNos :
                          standing[p] = "absent" => cycle[p][n].status = "unused"

\* A record's plot exists.
RecordsHavePlots == \A r \in Records : record[r].plot \in Plots =>
                       standing[record[r].plot] # "absent"

IInv == /\ TypeOK
        /\ TargetsExist
        /\ AbsentPlotsAreEmpty
        /\ RecordsHavePlots
        /\ LockedReadsStayTrue
        /\ ClosedPlotsAreDormant

\* An empty database satisfies the invariant.
LEMMA InitIInv == Init => IInv
<1> SUFFICES ASSUME Init PROVE IInv
  OBVIOUS
<1> USE BoundsAssumption
<1>1. TypeOK
  <2>1. UnusedCycle \in CycleRow
    BY DEF UnusedCycle, CycleRow, Statuses
  <2>2. NoRecord \in RecordRow
    BY DEF NoRecord, RecordRow
  <2> QED
    BY <2>1, <2>2, IdleType DEF Init, TypeOK
<1>2. \A t \in Requests : txn[t].pc = "idle"
  BY DEF Init, Idle
<1>3. \A p \in Plots, n \in CycleNos : cycle[p][n].status = "unused"
  BY DEF Init, UnusedCycle
<1>4. \A r \in Records : record[r].plot \notin Plots
  BY NoneAssumption DEF Init, NoRecord
<1> QED
  BY <1>1, <1>2, <1>3, <1>4 DEF IInv, TargetsExist, AbsentPlotsAreEmpty, RecordsHavePlots,
                               LockedReadsStayTrue, ClosedPlotsAreDormant, DormantAt, IsActive

\* Requests that stay out of a step on plot p keep what they hold: a step by
\* the request t that holds p's lock touches no other plot, and every other
\* locked request is on another plot.
LEMMA OthersUndisturbed ==
  ASSUME IInv, NEW t \in Requests, NEW p \in Plots, lock[p] = t, txn[t].plot = p,
         txn[t].pc = "locked", Finish(t),
         \A q \in Plots \ {p} : standing'[q] = standing[q] /\ cycle'[q] = cycle[q],
         standing'[p] # "absent"
  PROVE  TargetsExist' /\ LockedReadsStayTrue'
<1>1. ASSUME NEW u \in Requests, txn'[u].pc # "idle"
      PROVE  u # t /\ txn'[u] = txn[u]
  BY <1>1 DEF IInv, TypeOK, Finish, Idle
<1>2. TargetsExist'
  BY <1>1 DEF IInv, TargetsExist
<1>3. ASSUME NEW u \in Requests, txn'[u].pc = "locked"
      PROVE  ReadsHold(u)'
  <2>1. u # t /\ txn'[u] = txn[u]
    BY <1>1, <1>3
  <2>2. txn[u].plot \in Plots \ {p} /\ ReadsHold(u)
    BY <1>3, <2>1 DEF IInv, TargetsExist, LockedReadsStayTrue, ReadsHold
  <2>3. lock'[txn[u].plot] = u
    BY <2>1, <2>2 DEF Finish, ReadsHold
  <2>4. standing'[txn[u].plot] = standing[txn[u].plot] /\ cycle'[txn[u].plot] = cycle[txn[u].plot]
    BY <2>2
  <2> QED
    BY <2>1, <2>2, <2>3, <2>4 DEF ReadsHold, ActiveIs, IsActive
<1> QED
  BY <1>2, <1>3 DEF LockedReadsStayTrue

\* So a commit preserves the invariant when its own plot comes out dormant or
\* in service with its latest cycle open.
LEMMA CommitPreserves ==
  ASSUME IInv, TypeOK', NEW t \in Requests, NEW p \in Plots, lock[p] = t, txn[t].plot = p,
         txn[t].pc = "locked", Finish(t),
         \A q \in Plots \ {p} : standing'[q] = standing[q] /\ cycle'[q] = cycle[q],
         \A r \in Records : record'[r].plot \in {p, record[r].plot},
         standing'[p] # "absent", DormantAt(p)'
  PROVE  IInv'
<1>1. TargetsExist' /\ LockedReadsStayTrue'
  BY OthersUndisturbed
<1>2. AbsentPlotsAreEmpty'
  BY DEF IInv, AbsentPlotsAreEmpty
<1>3. ClosedPlotsAreDormant'
  BY DEF IInv, ClosedPlotsAreDormant, DormantAt, IsActive
<1>4. RecordsHavePlots'
  BY DEF IInv, RecordsHavePlots
<1> QED
  BY <1>1, <1>2, <1>3, <1>4 DEF IInv

\* The handler holds its plot's lock, and what it read is the case.
LEMMA HolderKnows ==
  ASSUME IInv, NEW t \in Requests, txn[t].pc = "locked"
  PROVE  /\ txn[t].plot \in Plots /\ lock[txn[t].plot] = t
         /\ standing[txn[t].plot] # "absent" /\ DormantAt(txn[t].plot)
         /\ txn[t].serving = (standing[txn[t].plot] = "open")
         /\ ActiveIs(txn[t].plot, txn[t].active)
  BY DEF IInv, TargetsExist, LockedReadsStayTrue, ReadsHold, ClosedPlotsAreDormant

\* Opening the next cycle of a plot in service with none growing.
LEMMA InsertCycleDormant ==
  ASSUME TypeOK, NEW p \in Plots, NEW pl \in Plans, InsertCycle(p, pl), standing'[p] = "open",
         ActiveIs(p, 0)
  PROVE  /\ DormantAt(p)'
         /\ \A q \in Plots \ {p} : cycle'[q] = cycle[q]
<1>1. PICK n \in CycleNos : /\ IsNextCycleNo(p, n)
                            /\ cycle' = [cycle EXCEPT ![p][n] = OpenCycle(pl)]
  BY DEF InsertCycle
<1>2. \A m \in CycleNos \ {n} : cycle'[p][m] = cycle[p][m]
  BY <1>1 DEF TypeOK
<1>3. \A m \in CycleNos : m > n => cycle[p][m].status = "unused"
  BY <1>1 DEF IsNextCycleNo, CycleNos
<1>4. \A m \in CycleNos \ {n} : ~IsActive(p, m)'
  BY <1>2 DEF ActiveIs, IsActive
<1>5. \A m \in CycleNos : m > n => cycle'[p][m].status = "unused"
  BY <1>2, <1>3 DEF CycleNos
<1>6. DormantAt(p)'
  BY <1>4, <1>5 DEF DormantAt
<1>7. \A q \in Plots \ {p} : cycle'[q] = cycle[q]
  BY <1>1 DEF TypeOK
<1> QED
  BY <1>6, <1>7

\* Closing the active cycle leaves a plot with none, whatever its standing.
LEMMA CloseDormant ==
  ASSUME TypeOK, NEW p \in Plots, NEW n \in CycleNos, DormantAt(p), IsActive(p, n),
         NEW s \in ClosedStatuses, NEW f, NEW h,
         cycle' = [cycle EXCEPT ![p][n] = ClosedRow(p, n, s, f, h)]
  PROVE  /\ DormantAt(p)'
         /\ \A q \in Plots \ {p} : cycle'[q] = cycle[q]
<1>1. cycle[p][n] \in CycleRow
  BY DEF TypeOK
<1>2. ClosedRow(p, n, s, f, h).status = s
  BY <1>1 DEF ClosedRow, CycleRow
<1>3. ~IsActive(p, n)'
  BY <1>2 DEF TypeOK, IsActive, ClosedStatuses
<1>4. \A m \in CycleNos \ {n} : cycle'[p][m] = cycle[p][m]
  BY DEF TypeOK
<1>5. ASSUME NEW m \in CycleNos, m # n PROVE ~IsActive(p, m)
  <2>1. CASE m > n
    BY <2>1 DEF DormantAt, IsActive
  <2>2. CASE n > m
    <3>1. cycle[p][n].status # "unused"
      BY DEF IsActive
    <3> QED
      BY <2>2, <3>1 DEF DormantAt
  <2> QED
    BY <1>5, <2>1, <2>2 DEF CycleNos
<1>6. \A m \in CycleNos : ~IsActive(p, m)'
  BY <1>3, <1>4, <1>5 DEF IsActive
<1> QED
  BY <1>6 DEF DormantAt, TypeOK

\* A new plan for one of the plot's cycles changes no status.
LEMMA ReplanDormant ==
  ASSUME TypeOK, NEW p \in Plots, NEW n \in CycleNos, NEW pl \in Plans, DormantAt(p),
         Replan(p, n, pl), standing' = standing
  PROVE  /\ DormantAt(p)'
         /\ \A q \in Plots \ {p} : cycle'[q] = cycle[q]
<1>1. cycle[p][n] \in CycleRow /\ cycle[p] \in [CycleNos -> CycleRow]
  BY DEF TypeOK
<1>2. cycle'[p] = [cycle[p] EXCEPT ![n] = [cycle[p][n] EXCEPT !.plan = pl]]
  BY DEF TypeOK, Replan
<1>3. [cycle[p][n] EXCEPT !.plan = pl].status = cycle[p][n].status
  BY <1>1 DEF CycleRow
<1>4. \A m \in CycleNos : cycle'[p][m].status = cycle[p][m].status
  BY <1>1, <1>2, <1>3
<1>5. DormantAt(p)'
  BY <1>4 DEF DormantAt, IsActive
<1> QED
  BY <1>5 DEF Replan, TypeOK

-----------------------------------------------------------------------------
(* Every step preserves the invariant *)

\* A request that arrives reads, and disturbs no other.
LEMMA ArrivalsIInv ==
  ASSUME IInv, NEW t \in Requests, Arrivals(t)
  PROVE  IInv'
<1> DEFINE Asked(p, q) == /\ standing[p] # "absent" /\ q.pc = "waiting" /\ q.plot = p
                          /\ Arrive(t, q)
<1>1. PICK p \in Plots :
        \/ \E op \in PlotOps : AskPlot(t, op, p)
        \/ \E op \in CycleOps, n \in CycleNos : AskCycle(t, op, p, n)
        \/ AskRecord(t, p)
        \/ \E n \in CycleNos : ResolvePublic(t, p, n)
        \/ \E n \in CycleNos : ValidateUpdate(t, p, n)
        \/ \E r \in Records : AskRetract(t, p, r)
        \/ \E n \in CycleNos, r \in Records \cup {None} : ApproveFinal(t, p, n, r)
  BY DEF Arrivals
<1>2. \E q : Asked(p, q)
  <2>1. CASE \E op \in PlotOps : AskPlot(t, op, p)
    BY <2>1 DEF AskPlot, Asks
  <2>2. CASE \E op \in CycleOps, n \in CycleNos : AskCycle(t, op, p, n)
    BY <2>2 DEF AskCycle, Asks, IInv, AbsentPlotsAreEmpty
  <2>3. CASE AskRecord(t, p)
    BY <2>3 DEF AskRecord, Asks
  <2>4. CASE \E n \in CycleNos : ResolvePublic(t, p, n)
    BY <2>4 DEF ResolvePublic, Asks
  <2>7. CASE \E n \in CycleNos : ValidateUpdate(t, p, n)
    BY <2>7 DEF ValidateUpdate, Asks
  <2>5. CASE \E r \in Records : AskRetract(t, p, r)
    BY <2>5 DEF AskRetract, Asks, IInv, RecordsHavePlots
  <2>6. CASE \E n \in CycleNos, r \in Records \cup {None} : ApproveFinal(t, p, n, r)
    BY <2>6 DEF ApproveFinal, Asks
  <2> QED
    BY <1>1, <2>1, <2>2, <2>3, <2>4, <2>5, <2>6, <2>7
<1>3. PICK q : Asked(p, q)
  BY <1>2
<1>4. /\ txn' = [txn EXCEPT ![t] = q]
      /\ UNCHANGED <<standing, cycle, mirror, snapshot, record, lock>>
  BY <1>3 DEF Arrive
<1>5. TypeOK'
  BY TypeArrivals DEF IInv
<1>6. TargetsExist'
  BY <1>3, <1>4 DEF IInv, TypeOK, TargetsExist
<1>7. LockedReadsStayTrue'
  BY <1>3, <1>4 DEF IInv, TypeOK, LockedReadsStayTrue, ReadsHold, ActiveIs, IsActive
<1>8. AbsentPlotsAreEmpty' /\ RecordsHavePlots' /\ ClosedPlotsAreDormant'
  BY <1>4 DEF IInv, AbsentPlotsAreEmpty, RecordsHavePlots, ClosedPlotsAreDormant,
              DormantAt, IsActive
<1> QED
  BY <1>5, <1>6, <1>7, <1>8 DEF IInv

\* The lock is free when it is taken, and what is read under it is the case.
LEMMA EnterIInv ==
  ASSUME IInv, NEW t \in Requests, Enter(t)
  PROVE  IInv'
<1> DEFINE p == txn[t].plot
<1>1. PICK n \in 0 .. MaxCycles :
        /\ ActiveIs(p, n)
        /\ txn' = [txn EXCEPT ![t] = [@ EXCEPT !.pc = "locked",
                                               !.serving = (standing[p] = "open"),
                                               !.active = n]]
  BY DEF Enter
<1>2. /\ lock[p] = None /\ lock' = [lock EXCEPT ![p] = t]
      /\ UNCHANGED <<standing, cycle, mirror, snapshot, record, clock>>
  BY DEF Enter, LockFree
<1>3. p \in Plots /\ standing[p] # "absent"
  BY DEF IInv, TargetsExist, Enter
<1>4. TypeOK'
  BY TypeEnter DEF IInv
<1>5. /\ txn'[t].plot = p /\ txn'[t].active = n
      /\ txn'[t].serving = (standing[p] = "open")
  <2>1. txn[t] \in Transaction
    BY DEF IInv, TypeOK
  <2> QED
    BY <1>1, <2>1 DEF IInv, TypeOK, Transaction
<1>6. \A u \in Requests \ {t} : txn'[u] = txn[u]
  BY <1>1 DEF IInv, TypeOK
<1>7. TargetsExist'
  BY <1>2, <1>3, <1>5, <1>6 DEF IInv, TargetsExist
<1>8. ReadsHold(t)'
  BY <1>1, <1>2, <1>3, <1>5 DEF IInv, TypeOK, ReadsHold, ActiveIs, IsActive
<1>9. ASSUME NEW u \in Requests \ {t}, txn'[u].pc = "locked" PROVE ReadsHold(u)'
  <2>1. ReadsHold(u) /\ txn[u].plot \in Plots
    BY <1>6, <1>9 DEF IInv, LockedReadsStayTrue, TargetsExist
  <2>2. txn[u].plot # p
    BY <1>2, <2>1, NoneAssumption DEF ReadsHold
  <2>3. lock'[txn[u].plot] = lock[txn[u].plot]
    BY <1>2, <2>1, <2>2 DEF IInv, TypeOK
  <2> QED
    BY <1>2, <1>6, <2>1, <2>3 DEF ReadsHold, ActiveIs, IsActive
<1>10. LockedReadsStayTrue'
  BY <1>8, <1>9 DEF LockedReadsStayTrue
<1>11. AbsentPlotsAreEmpty' /\ RecordsHavePlots' /\ ClosedPlotsAreDormant'
  BY <1>2 DEF IInv, AbsentPlotsAreEmpty, RecordsHavePlots, ClosedPlotsAreDormant,
              DormantAt, IsActive
<1> QED
  BY <1>4, <1>7, <1>10, <1>11 DEF IInv

\* A rollback changes no row and frees only its own locks.
LEMMA RollbackIInv ==
  ASSUME IInv, NEW t \in Requests, Rollback(t)
  PROVE  IInv'
<1>1. Finish(t) /\ UNCHANGED <<standing, cycle, mirror, snapshot, record, clock>>
  BY DEF Rollback
<1>2. TypeOK'
  BY <1>1, FinishType DEF IInv, TypeOK
<1>3. ASSUME NEW u \in Requests, txn'[u].pc # "idle"
      PROVE  u # t /\ txn'[u] = txn[u]
  BY <1>1, <1>3 DEF IInv, TypeOK, Finish, Idle
<1>4. TargetsExist'
  BY <1>1, <1>3 DEF IInv, TargetsExist
<1>5. ASSUME NEW u \in Requests, txn'[u].pc = "locked" PROVE ReadsHold(u)'
  <2>1. u # t /\ txn'[u] = txn[u] /\ ReadsHold(u) /\ txn[u].plot \in Plots
    BY <1>3, <1>5 DEF IInv, LockedReadsStayTrue, TargetsExist
  <2>2. lock'[txn[u].plot] = u
    BY <1>1, <2>1 DEF Finish, ReadsHold
  <2> QED
    BY <1>1, <2>1, <2>2 DEF ReadsHold, ActiveIs, IsActive
<1>6. AbsentPlotsAreEmpty' /\ RecordsHavePlots' /\ ClosedPlotsAreDormant'
  BY <1>1 DEF IInv, AbsentPlotsAreEmpty, RecordsHavePlots, ClosedPlotsAreDormant,
              DormantAt, IsActive
<1> QED
  BY <1>2, <1>4, <1>5, <1>6 DEF IInv, LockedReadsStayTrue

\* A new plot is nobody's target yet, and its first cycle is its only one.
LEMMA CreateIInv ==
  ASSUME IInv, NEW p \in Plots,
         CreatePlot(p) \/ \E pl \in Plans : CreatePlotWithCycle(p, pl)
  PROVE  IInv'
<1>1. /\ standing[p] = "absent" /\ standing' = [standing EXCEPT ![p] = "open"]
      /\ UNCHANGED <<snapshot, record, txn, lock, clock>>
      /\ \A q \in Plots \ {p} : cycle'[q] = cycle[q]
      /\ \A n \in CycleNos \ {1} : cycle'[p][n] = cycle[p][n]
  BY DEF CreatePlot, CreatePlotWithCycle, IInv, TypeOK
<1>2. TypeOK'
  BY TypeCreatePlot DEF IInv
<1>3. \A n \in CycleNos : cycle[p][n].status = "unused"
  BY <1>1 DEF IInv, AbsentPlotsAreEmpty
<1>4. DormantAt(p)'
  BY <1>1, <1>3 DEF DormantAt, IsActive, IInv, TypeOK, CycleNos
<1>5. ClosedPlotsAreDormant'
  BY <1>1, <1>4 DEF IInv, TypeOK, ClosedPlotsAreDormant, DormantAt, IsActive
<1>6. TargetsExist' /\ RecordsHavePlots'
  BY <1>1 DEF IInv, TypeOK, TargetsExist, RecordsHavePlots
<1>7. AbsentPlotsAreEmpty'
  BY <1>1 DEF IInv, TypeOK, AbsentPlotsAreEmpty
<1>8. ASSUME NEW u \in Requests, txn'[u].pc = "locked" PROVE ReadsHold(u)'
  <2>1. ReadsHold(u) /\ txn[u].plot \in Plots \ {p}
    BY <1>1, <1>8 DEF IInv, LockedReadsStayTrue, TargetsExist
  <2>2. standing'[txn[u].plot] = standing[txn[u].plot] /\ cycle'[txn[u].plot] = cycle[txn[u].plot]
    BY <1>1, <2>1 DEF IInv, TypeOK
  <2> QED
    BY <1>1, <2>1, <2>2 DEF ReadsHold, ActiveIs, IsActive
<1> QED
  BY <1>2, <1>5, <1>6, <1>7, <1>8 DEF IInv, LockedReadsStayTrue

\* The re-check under the lock: the cycle a request names is open and is its
\* plot's latest one.
LEMMA NamedIsOpen ==
  ASSUME IInv, NEW t \in Requests, txn[t].pc = "locked", NamedCycleIsActive(t)
  PROVE  txn[t].cycle \in CycleNos /\ IsActive(txn[t].plot, txn[t].cycle)
  BY HolderKnows DEF NamedCycleIsActive, ActiveIs

\* A rollover ends the open cycle and opens the next one, which is the only
\* open cycle then.
LEMMA RolloverDormant ==
  ASSUME IInv, NEW t \in Requests, NEW s \in ClosedStatuses, NEW pl \in Plans,
         NEW p \in Plots, p = txn[t].plot, RolloverCycle(t, s, pl), standing[p] = "open"
  PROVE  /\ DormantAt(p)'
         /\ \A q \in Plots \ {p} : cycle'[q] = cycle[q]
<1> DEFINE n == txn[t].cycle
<1>1. PICK f \in Records \cup {None}, next \in CycleNos :
        /\ IsNextCycleNo(p, next)
        /\ cycle' = [cycle EXCEPT ![p] = [@ EXCEPT ![n] = ClosedRow(p, n, s, f, None),
                                                   ![next] = OpenCycle(pl)]]
        /\ UniqueIndexAdmits(p, n)
  BY DEF RolloverCycle
<1>2. p \in Plots /\ n \in CycleNos /\ IsActive(p, n)
  BY HolderKnows, NamedIsOpen DEF RolloverCycle, Holds
<1>3. next # n /\ \A m \in CycleNos : m > next => m # n /\ cycle[p][m].status = "unused"
  BY <1>1, <1>2 DEF IsNextCycleNo, CycleNos, IsActive
<1>4. cycle[p][n] \in CycleRow /\ cycle[p] \in [CycleNos -> CycleRow]
  BY <1>2 DEF IInv, TypeOK
<1>5. ClosedRow(p, n, s, f, None).status = s
  BY <1>4 DEF ClosedRow, CycleRow
<1>6. /\ cycle'[p][n].status = s
      /\ \A m \in CycleNos \ {n, next} : cycle'[p][m] = cycle[p][m]
  BY <1>1, <1>2, <1>3, <1>4, <1>5 DEF IInv, TypeOK
<1>7. \A m \in CycleNos \ {next} : ~IsActive(p, m)'
  BY <1>1, <1>6 DEF UniqueIndexAdmits, IsActive, ClosedStatuses
<1>8. standing'[p] = "open"
  BY DEF RolloverCycle
<1>9. \A m \in CycleNos : m > next => cycle'[p][m].status = "unused"
  BY <1>3, <1>6 DEF CycleNos
<1>10. DormantAt(p)'
  BY <1>7, <1>8, <1>9 DEF DormantAt
<1>11. \A q \in Plots \ {p} : cycle'[q] = cycle[q]
  BY <1>1 DEF IInv, TypeOK
<1> QED
  BY <1>10, <1>11

\* A step that leaves the plot's row and cycles alone leaves it dormant.
LEMMA SameDormant ==
  ASSUME NEW p \in Plots, DormantAt(p), standing'[p] = standing[p], cycle'[p] = cycle[p]
  PROVE  DormantAt(p)'
  BY DEF DormantAt, IsActive

\* So does one that moves a plot with no open cycle in or out of service.
LEMMA FallowDormant ==
  ASSUME NEW p \in Plots, ActiveIs(p, 0), cycle'[p] = cycle[p]
  PROVE  DormantAt(p)'
  BY DEF DormantAt, ActiveIs, IsActive

\* A commit writes only the plot whose lock it holds, and leaves it dormant or growing
\* its latest cycle.
LEMMA CommitIInv ==
  ASSUME IInv, NEW t \in Requests, Commit(t)
  PROVE  IInv'
<1>1. txn[t].pc = "locked" /\ Finish(t)
  BY DEF Commit, Holds, StartCycle, ReactivateWithCycle, Reactivate, Deactivate, UpdateCycle,
         UpdateImport, CloseCycle, CancelCycle, RolloverCycle, FinalImport, CreateRecord, PublicRecord,
         InsertRecord, RetractRecord
<1>0. PICK p \in Plots : p = txn[t].plot
  BY <1>1, HolderKnows
<1> DEFINE n == txn[t].cycle
           Frame == /\ \A q \in Plots \ {p} : standing'[q] = standing[q] /\ cycle'[q] = cycle[q]
                    /\ \A r \in Records : record'[r].plot \in {p, record[r].plot}
                    /\ standing'[p] # "absent"
                    /\ DormantAt(p)'
<1>2. /\ p \in Plots /\ lock[p] = t /\ standing[p] # "absent" /\ DormantAt(p)
      /\ txn[t].serving = (standing[p] = "open") /\ ActiveIs(p, txn[t].active)
  BY <1>0, <1>1, HolderKnows
<1>3. TypeOK /\ TypeOK'
  BY <1>0, TypeCommit DEF IInv
<1>4. NothingGrowing(t) => ActiveIs(p, 0)
  BY <1>0, <1>2 DEF NothingGrowing
<1>5. NamedCycleIsActive(t) => n \in CycleNos /\ IsActive(p, n)
  BY <1>0, <1>1, NamedIsOpen
<1>6. Frame
  <2>1. ASSUME NEW pl \in Plans, StartCycle(t, pl) PROVE Frame
    <3>1. InsertCycle(p, pl) /\ standing' = standing /\ record' = record /\ standing'[p] = "open"
      BY <1>0, <1>2, <2>1 DEF StartCycle, InService
    <3>2. NothingGrowing(t)
      BY <1>0, <2>1 DEF StartCycle
    <3> QED
      BY <1>2, <1>3, <1>4, <3>1, <3>2, InsertCycleDormant
  <2>2. ASSUME NEW pl \in Plans, ReactivateWithCycle(t, pl) PROVE Frame
    <3>1. /\ InsertCycle(p, pl) /\ standing' = [standing EXCEPT ![p] = "open"]
          /\ record' = record /\ standing'[p] = "open"
      BY <1>0, <1>2, <1>3, <2>2 DEF ReactivateWithCycle, TypeOK
    <3>2. NothingGrowing(t)
      BY <1>0, <2>2 DEF ReactivateWithCycle
    <3> QED
      BY <1>2, <1>3, <1>4, <3>1, <3>2, InsertCycleDormant DEF TypeOK
  <2>3. CASE Reactivate(t)
    BY <1>0, <1>2, <1>3, <1>4, <2>3, FallowDormant DEF Reactivate, TypeOK
  <2>4. CASE Deactivate(t)
    BY <1>0, <1>2, <1>3, <1>4, <2>4, FallowDormant DEF Deactivate, TypeOK
  <2>5. ASSUME NEW pl \in Plans, UpdateCycle(t, pl) PROVE Frame
    <3>1. Replan(p, n, pl) /\ standing' = standing /\ record' = record /\ n \in CycleNos
      BY <1>0, <1>5, <2>5 DEF UpdateCycle
    <3> QED
      BY <1>2, <1>3, <3>1, ReplanDormant
  <2>12. ASSUME NEW pl \in Plans, UpdateImport(t, pl) PROVE Frame
    <3>1. /\ Replan(p, txn[t].active, pl) /\ standing' = standing /\ record' = record
          /\ txn[t].active \in CycleNos
      BY <1>0, <1>2, <2>12 DEF UpdateImport, ActiveIs
    <3> QED
      BY <1>2, <1>3, <3>1, ReplanDormant
  <2>6. ASSUME NEW retire \in BOOLEAN, CloseCycle(t, retire) PROVE Frame
    <3>1. PICK f, h : cycle' = [cycle EXCEPT ![p][n] = ClosedRow(p, n, "harvested", f, h)]
      BY <1>0, <2>6 DEF CloseCycle
    <3>2. n \in CycleNos /\ IsActive(p, n) /\ record' = record
      BY <1>0, <1>5, <2>6 DEF CloseCycle
    <3>3. DormantAt(p)' /\ \A q \in Plots \ {p} : cycle'[q] = cycle[q]
      BY <1>2, <1>3, <3>1, <3>2, CloseDormant DEF ClosedStatuses
    <3>4. /\ \A q \in Plots \ {p} : standing'[q] = standing[q]
          /\ standing'[p] # "absent"
      BY <1>0, <1>2, <1>3, <2>6 DEF CloseCycle, TypeOK
    <3> QED
      BY <3>2, <3>3, <3>4
  <2>7. CASE CancelCycle(t)
    <3>1. PICK f : cycle' = [cycle EXCEPT ![p][n] = ClosedRow(p, n, "cancelled", f, None)]
      BY <1>0, <2>7 DEF CancelCycle
    <3>2. n \in CycleNos /\ IsActive(p, n) /\ record' = record
      BY <1>0, <1>5, <2>7 DEF CancelCycle
    <3>3. DormantAt(p)' /\ \A q \in Plots \ {p} : cycle'[q] = cycle[q]
      BY <1>2, <1>3, <3>1, <3>2, CloseDormant DEF ClosedStatuses
    <3>4. /\ \A q \in Plots \ {p} : standing'[q] = standing[q]
          /\ standing'[p] # "absent"
      BY <1>0, <1>2, <1>3, <2>7 DEF CancelCycle, TypeOK
    <3> QED
      BY <3>2, <3>3, <3>4
  <2>8. ASSUME NEW s \in ClosedStatuses, NEW pl \in Plans, RolloverCycle(t, s, pl)
        PROVE  Frame
    <3>1. standing[p] = "open" /\ standing' = standing /\ record' = record
      BY <1>0, <1>2, <2>8 DEF RolloverCycle, InService
    <3> QED
      BY <1>0, <1>2, <2>8, <3>1, RolloverDormant
  <2>9. ASSUME NEW retire \in BOOLEAN, FinalImport(t, retire) PROVE Frame
    <3>1. PICK h : cycle' = [cycle EXCEPT ![p][n] =
                                ClosedRow(p, n, "harvested", txn[t].record, h)]
      BY <1>0, <2>9 DEF FinalImport
    <3>2. n \in CycleNos /\ IsActive(p, n) /\ record' = record
      BY <1>0, <1>5, <2>9 DEF FinalImport, ApprovedStateStands
    <3>3. DormantAt(p)' /\ \A q \in Plots \ {p} : cycle'[q] = cycle[q]
      BY <1>2, <1>3, <3>1, <3>2, CloseDormant DEF ClosedStatuses
    <3>4. /\ \A q \in Plots \ {p} : standing'[q] = standing[q]
          /\ standing'[p] # "absent"
      BY <1>0, <1>2, <1>3, <2>9 DEF FinalImport, TypeOK
    <3> QED
      BY <3>2, <3>3, <3>4
  <2>10. ASSUME NEW r \in Records, NEW report \in Reports,
                CreateRecord(t, r, report) \/ PublicRecord(t, r, report)
         PROVE  Frame
    <3>1. InsertRecord(t, r, report)
      BY <1>0, <2>10 DEF CreateRecord, PublicRecord
    <3>2. \A x \in Records : record'[x].plot \in {p, record[x].plot}
      BY <1>0, <1>3, <3>1 DEF InsertRecord, SyncStatus, TypeOK
    <3> QED
      BY <1>2, <3>1, <3>2, SameDormant DEF InsertRecord
  <2>11. CASE RetractRecord(t)
    <3>1. ASSUME NEW x \in Records PROVE record'[x].plot = record[x].plot
      BY <1>0, <1>3, <2>11 DEF RetractRecord, TypeOK, RecordRow
    <3> QED
      BY <1>0, <1>2, <2>11, <3>1, SameDormant DEF RetractRecord
  <2> QED
    BY <2>1, <2>2, <2>3, <2>4, <2>5, <2>6, <2>7, <2>8, <2>9, <2>10, <2>11, <2>12
       DEF Commit
<1> QED
  BY <1>0, <1>1, <1>2, <1>3, <1>6, CommitPreserves

\* Nor does a stuttering step break the invariant.
LEMMA StutterIInv == ASSUME IInv, UNCHANGED vars PROVE IInv'
  BY DEF IInv, vars, TypeOK, TargetsExist, AbsentPlotsAreEmpty, RecordsHavePlots,
         LockedReadsStayTrue, ReadsHold, ClosedPlotsAreDormant, DormantAt, ActiveIs, IsActive

\* No step of anyone breaks the invariant.
LEMMA NextIInv == IInv /\ [Next]_vars => IInv'
<1> SUFFICES ASSUME IInv, [Next]_vars PROVE IInv'
  OBVIOUS
<1>1. CASE \E p \in Plots : CreatePlot(p)
  BY <1>1, CreateIInv
<1>2. CASE \E p \in Plots, pl \in Plans : CreatePlotWithCycle(p, pl)
  BY <1>2, CreateIInv
<1>3. ASSUME NEW t \in Requests, Arrivals(t) \/ Enter(t) \/ Rollback(t) \/ Commit(t)
      PROVE  IInv'
  BY <1>3, ArrivalsIInv, EnterIInv, RollbackIInv, CommitIInv
<1>4. CASE UNCHANGED vars
  BY <1>4, StutterIInv
<1> QED
  BY <1>1, <1>2, <1>3, <1>4 DEF Next

\* The invariant holds of every behaviour.
LEMMA Inductive == Spec => []IInv
  BY InitIInv, NextIInv, PTL DEF Spec

-----------------------------------------------------------------------------
(* The theorems *)

\* Every row and every transaction keeps the columns and values its table and
\* its constraints allow.
THEOREM TypeCorrect == Spec => []TypeOK
<1>1. IInv => TypeOK
  BY DEF IInv
<1> QED
  BY <1>1, Inductive, PTL

\* What any handler read under the plot lock holds until its transaction ends,
\* for any number of requests, plots and cycles: the row lock taken by
\* get_plot_for_update is enough to serialise all the lifecycle operations.
THEOREM Isolation == Spec => []LockedReadsStayTrue
<1>1. IInv => LockedReadsStayTrue
  BY DEF IInv
<1> QED
  BY <1>1, Inductive, PTL

\* A plot out of service never has an open cycle, and an open cycle is its
\* plot's latest, in every interleaving of endpoints, imports and records.
THEOREM Dormancy == Spec => []ClosedPlotsAreDormant
<1>1. IInv => ClosedPlotsAreDormant
  BY DEF IInv
<1> QED
  BY <1>1, Inductive, PTL

-----------------------------------------------------------------------------
-----------------------------------------------------------------------------
(* What more is invariant *)

\* A request to retract a record is about a record of its plot.
RetractsItsOwn(t) == txn[t].pc # "idle" /\ txn[t].op = "retractRecord" =>
                        txn[t].record \in Records /\ record[txn[t].record].plot = txn[t].plot

\* A transaction under way is one this deployment serves.
IsServed(t) == txn[t].pc # "idle" => txn[t].op \in Operations

\* A plot's cycles are numbered from 1 on, without a gap.
Used(p) == {n \in CycleNos : cycle[p][n].status # "unused"}
NumberedInTurn(p) == \E k \in 0 .. MaxCycles : Used(p) = 1 .. k

\* A record's cycle has been opened.
IsInASeason(r) == record[r].plot \in Plots =>
                     record[r].cycle \in Used(record[r].plot)

\* The snapshot columns of a plot to come are empty.
ComesEmpty(p) == standing[p] = "absent" => snapshot[p] = None

JInv == /\ IInv
        /\ \A t \in Requests : RetractsItsOwn(t) /\ IsServed(t)
        /\ \A p \in Plots : NumberedInTurn(p) /\ ComesEmpty(p)
        /\ \A r \in Records : IsInASeason(r)

-----------------------------------------------------------------------------
(* Effects: what a step does to plot p.                                    *)

ElsewhereSame(p) ==
    \A q \in Plots \ {p} : /\ standing'[q] = standing[q] /\ cycle'[q] = cycle[q]
                           /\ mirror'[q] = mirror[q] /\ snapshot'[q] = snapshot[q]

Registers(p) ==
    /\ standing[p] = "absent" /\ standing'[p] = "open"
    /\ UNCHANGED <<cycle, mirror, snapshot, record>>

\* A cycle opens on a plot with none open.
Opens(p, n, pl) ==
    /\ ActiveIs(p, 0) /\ IsNextCycleNo(p, n)
    /\ standing'[p] = "open"
    /\ cycle'[p] = [cycle[p] EXCEPT ![n] = OpenCycle(pl)]
    /\ mirror'[p] = pl /\ snapshot'[p] = None
    /\ record' = record

\* A plot with no cycle open leaves service or comes back.
Moves(p) ==
    /\ ActiveIs(p, 0)
    /\ {standing[p], standing'[p]} \subseteq {"open", "closed"}
    /\ mirror'[p] = None /\ snapshot'[p] = None
    /\ UNCHANGED <<cycle, record>>

Replans(p, n, pl) ==
    /\ IsActive(p, n)
    /\ cycle'[p] = [cycle[p] EXCEPT ![n] = [cycle[p][n] EXCEPT !.plan = pl]]
    /\ mirror'[p] = pl
    /\ UNCHANGED <<standing, snapshot, record>>

\* The open cycle ends; only a final_plot import leaves what the plot row says.
Ends(p, n, s, f, h) ==
    /\ IsActive(p, n)
    /\ standing'[p] \in {"open", "closed"}
    /\ NewestIs(LiveIn(p, n), f)
    /\ h = None \/ (s = "harvested" /\ HarvestIs(p, n, h))
    /\ cycle'[p] = [cycle[p] EXCEPT ![n] = ClosedRow(p, n, s, f, h)]
    /\ \/ mirror'[p] = None /\ snapshot'[p] = None
       \/ "finalImport" \in Operations
    /\ record' = record

\* The open cycle ends and the next opens.
Turns(p, n, m, s, f, pl) ==
    /\ IsActive(p, n) /\ IsNextCycleNo(p, m)
    /\ NewestIs(LiveIn(p, n), f)
    /\ cycle'[p] = [cycle[p] EXCEPT ![n] = ClosedRow(p, n, s, f, None), ![m] = OpenCycle(pl)]
    /\ mirror'[p] = pl /\ snapshot'[p] = None
    /\ UNCHANGED <<standing, record>>

\* A record joins the open cycle.
Files(p, n, r) ==
    /\ IsActive(p, n) /\ record[r].plot = None
    /\ record'[r].plot = p /\ record'[r].cycle = n /\ record'[r].live
    /\ \A x \in Records \ {r} : record'[x] = record[x]
    /\ snapshot'[p] = r
    /\ UNCHANGED <<standing, cycle, mirror>>

\* A record of the plot is retracted; the newest of the others takes its place.
Retracts(p, n, r, s) ==
    /\ ActiveIs(p, n) /\ record[r].plot = p
    /\ record'[r] = [record[r] EXCEPT !.live = FALSE]
    /\ \A x \in Records \ {r} : record'[x] = record[x]
    /\ NewestIs(IF n = 0 THEN {} ELSE LiveIn(p, n) \ {r}, s)
    /\ snapshot'[p] = s
    /\ UNCHANGED <<standing, cycle, mirror>>

Still == UNCHANGED <<standing, cycle, mirror, snapshot, record>>

Effect(p) ==
    /\ ElsewhereSame(p)
    /\ \/ Registers(p)
       \/ \E n \in CycleNos, pl \in Plans : Opens(p, n, pl)
       \/ Moves(p)
       \/ \E n \in CycleNos, pl \in Plans : Replans(p, n, pl)
       \/ \E n \in CycleNos, s \in ClosedStatuses, f \in Records \cup {None},
             h \in Records \cup {None, ByHand} : Ends(p, n, s, f, h)
       \/ \E n, m \in CycleNos, s \in ClosedStatuses, f \in Records \cup {None}, pl \in Plans :
             Turns(p, n, m, s, f, pl)
       \/ \E n \in CycleNos, r \in Records : Files(p, n, r)
       \/ \E n \in 0 .. MaxCycles, r \in Records, s \in Records \cup {None} : Retracts(p, n, r, s)

-----------------------------------------------------------------------------
\* The handlers' commits, one effect each.
LEMMA CommitEffects ==
  ASSUME JInv, NEW t \in Requests, Commit(t)
  PROVE  \E p \in Plots : Effect(p)
<1>1. txn[t].pc = "locked"
  BY DEF Commit, Holds, StartCycle, ReactivateWithCycle, Reactivate, Deactivate, UpdateCycle,
         UpdateImport, CloseCycle, CancelCycle, RolloverCycle, FinalImport, CreateRecord,
         PublicRecord, InsertRecord, SyncStatus, RetractRecord
<1>0. PICK p \in Plots : p = txn[t].plot
  BY <1>1, HolderKnows DEF JInv
<1>2. /\ standing[p] \in {"open", "closed"}
      /\ txn[t].serving = (standing[p] = "open") /\ ActiveIs(p, txn[t].active)
  BY <1>0, <1>1, HolderKnows DEF JInv, IInv, TypeOK
<1>3. /\ standing \in [Plots -> {"absent", "open", "closed"}]
      /\ cycle \in [Plots -> [CycleNos -> CycleRow]]
      /\ mirror \in [Plots -> Plans \cup {None}]
      /\ snapshot \in [Plots -> Records \cup {None}]
      /\ record \in [Records -> RecordRow]
  BY DEF JInv, IInv, TypeOK
<1>4. PICK n \in 0 .. MaxCycles : n = txn[t].cycle
  BY TransactionParts DEF JInv, IInv
<1>5. NamedCycleIsActive(t) => n \in CycleNos /\ IsActive(p, n)
  BY <1>0, <1>1, <1>4, NamedIsOpen DEF JInv
<1>6. NothingGrowing(t) => ActiveIs(p, 0)
  BY <1>2 DEF NothingGrowing
<1>7. InService(t) => standing[p] = "open"
  BY <1>2 DEF InService
<1>i. ASSUME NEW pl \in Plans, InsertCycle(p, pl), ClearSnapshot(p), ActiveIs(p, 0),
             record' = record, standing'[p] = "open",
             \A q \in Plots \ {p} : standing'[q] = standing[q]
      PROVE  Effect(p)
  <2>1. PICK m \in CycleNos : /\ IsNextCycleNo(p, m)
                              /\ cycle' = [cycle EXCEPT ![p][m] = OpenCycle(pl)]
                              /\ mirror' = [mirror EXCEPT ![p] = pl]
    BY <1>i DEF InsertCycle
  <2>2. snapshot' = [snapshot EXCEPT ![p] = None]
    BY <1>i DEF ClearSnapshot
  <2>3. Opens(p, m, pl) /\ ElsewhereSame(p)
    BY <1>3, <1>i, <2>1, <2>2 DEF Opens, ElsewhereSame
  <2> QED
    BY <2>3 DEF Effect
<1>a. ASSUME NEW pl \in Plans, StartCycle(t, pl) PROVE Effect(p)
  BY <1>0, <1>6, <1>7, <1>a, <1>i DEF StartCycle
<1>b. ASSUME NEW pl \in Plans, ReactivateWithCycle(t, pl) PROVE Effect(p)
  <2>1. standing'[p] = "open" /\ \A q \in Plots \ {p} : standing'[q] = standing[q]
    BY <1>0, <1>3, <1>b DEF ReactivateWithCycle
  <2> QED
    BY <1>0, <1>6, <1>b, <1>i, <2>1 DEF ReactivateWithCycle
<1>c. CASE Reactivate(t) \/ Deactivate(t)
  <2>1. /\ ActiveIs(p, 0) /\ ClearMirrorAndSnapshot(p) /\ UNCHANGED <<cycle, record>>
        /\ \E s \in {"open", "closed"} : standing' = [standing EXCEPT ![p] = s]
    BY <1>0, <1>6, <1>c DEF Reactivate, Deactivate
  <2>2. mirror' = [mirror EXCEPT ![p] = None] /\ snapshot' = [snapshot EXCEPT ![p] = None]
    BY <2>1 DEF ClearMirrorAndSnapshot, ClearSnapshot
  <2>3. standing'[p] \in {"open", "closed"} /\ \A q \in Plots \ {p} : standing'[q] = standing[q]
    BY <1>3, <2>1
  <2>4. Moves(p) /\ ElsewhereSame(p)
    BY <1>2, <1>3, <2>1, <2>2, <2>3 DEF Moves, ElsewhereSame
  <2> QED
    BY <2>4 DEF Effect
<1>r. ASSUME NEW m \in CycleNos, NEW pl \in Plans, IsActive(p, m), Replan(p, m, pl),
             UNCHANGED <<standing, snapshot, record>>
      PROVE  Effect(p)
  <2>1. Replans(p, m, pl) /\ ElsewhereSame(p)
    BY <1>3, <1>r DEF Replan, Replans, ElsewhereSame
  <2> QED
    BY <2>1 DEF Effect
<1>d. ASSUME NEW pl \in Plans, UpdateCycle(t, pl) PROVE Effect(p)
  BY <1>0, <1>4, <1>5, <1>d, <1>r DEF UpdateCycle
<1>e. ASSUME NEW pl \in Plans, UpdateImport(t, pl) PROVE Effect(p)
  <2>1. txn[t].active \in CycleNos /\ IsActive(p, txn[t].active)
    BY <1>2, <1>e DEF UpdateImport, ActiveIs
  <2> QED
    BY <1>0, <1>e, <1>r, <2>1 DEF UpdateImport
<1>f. ASSUME NEW retire \in BOOLEAN, CloseCycle(t, retire) PROVE Effect(p)
  <2>1. n \in CycleNos /\ IsActive(p, n) /\ record' = record /\ ClearMirrorAndSnapshot(p)
    BY <1>0, <1>4, <1>5, <1>f DEF CloseCycle
  <2>2. PICK f \in Records \cup {None}, h \in Records \cup {None, ByHand} :
          /\ NewestIs(LiveIn(p, n), f) /\ HarvestIs(p, n, h)
          /\ cycle' = [cycle EXCEPT ![p][n] = ClosedRow(p, n, "harvested", f, h)]
    BY <1>0, <1>4, <1>f DEF CloseCycle
  <2>3. standing'[p] \in {"open", "closed"} /\ \A q \in Plots \ {p} : standing'[q] = standing[q]
    BY <1>0, <1>2, <1>3, <1>f DEF CloseCycle
  <2>4. mirror' = [mirror EXCEPT ![p] = None] /\ snapshot' = [snapshot EXCEPT ![p] = None]
    BY <2>1 DEF ClearMirrorAndSnapshot, ClearSnapshot
  <2>5. cycle'[p] = [cycle[p] EXCEPT ![n] = ClosedRow(p, n, "harvested", f, h)]
    BY <1>3, <2>2
  <2>6. Ends(p, n, "harvested", f, h)
    BY <1>3, <2>1, <2>2, <2>3, <2>4, <2>5 DEF Ends
  <2>7. ElsewhereSame(p)
    BY <1>3, <2>2, <2>3, <2>4 DEF ElsewhereSame
  <2> QED
    BY <2>1, <2>6, <2>7 DEF Effect, ClosedStatuses
<1>g. CASE CancelCycle(t)
  <2>1. n \in CycleNos /\ IsActive(p, n) /\ record' = record /\ ClearMirrorAndSnapshot(p)
    BY <1>0, <1>4, <1>5, <1>g DEF CancelCycle
  <2>2. PICK f \in Records \cup {None} :
          /\ NewestIs(LiveIn(p, n), f)
          /\ cycle' = [cycle EXCEPT ![p][n] = ClosedRow(p, n, "cancelled", f, None)]
    BY <1>0, <1>4, <1>g DEF CancelCycle
  <2>3. standing'[p] \in {"open", "closed"} /\ \A q \in Plots \ {p} : standing'[q] = standing[q]
    BY <1>0, <1>2, <1>3, <1>g DEF CancelCycle
  <2>4. mirror' = [mirror EXCEPT ![p] = None] /\ snapshot' = [snapshot EXCEPT ![p] = None]
    BY <2>1 DEF ClearMirrorAndSnapshot, ClearSnapshot
  <2>5. cycle'[p] = [cycle[p] EXCEPT ![n] = ClosedRow(p, n, "cancelled", f, None)]
    BY <1>3, <2>2
  <2>6. Ends(p, n, "cancelled", f, None)
    BY <1>3, <2>1, <2>2, <2>3, <2>4, <2>5 DEF Ends
  <2>7. ElsewhereSame(p)
    BY <1>3, <2>2, <2>3, <2>4 DEF ElsewhereSame
  <2> QED
    BY <2>1, <2>6, <2>7 DEF Effect, ClosedStatuses
<1>h. ASSUME NEW s \in ClosedStatuses, NEW pl \in Plans, RolloverCycle(t, s, pl) PROVE Effect(p)
  <2>1. n \in CycleNos /\ IsActive(p, n) /\ UNCHANGED <<standing, record>> /\ ClearSnapshot(p)
        /\ mirror' = [mirror EXCEPT ![p] = pl]
    BY <1>0, <1>4, <1>5, <1>h DEF RolloverCycle
  <2>2. PICK f \in Records \cup {None}, m \in CycleNos :
          /\ NewestIs(LiveIn(p, n), f) /\ IsNextCycleNo(p, m)
          /\ cycle' = [cycle EXCEPT ![p] = [@ EXCEPT ![n] = ClosedRow(p, n, s, f, None),
                                                     ![m] = OpenCycle(pl)]]
    BY <1>0, <1>4, <1>h DEF RolloverCycle
  <2>3. Turns(p, n, m, s, f, pl) /\ ElsewhereSame(p)
    BY <1>3, <2>1, <2>2 DEF Turns, ElsewhereSame, ClearSnapshot
  <2> QED
    BY <2>1, <2>3 DEF Effect
<1>k. ASSUME NEW retire \in BOOLEAN, FinalImport(t, retire) PROVE Effect(p)
  <2>1. n \in CycleNos /\ IsActive(p, n) /\ UNCHANGED <<record, mirror, snapshot>>
        /\ NewestIs(LiveIn(p, n), txn[t].record) /\ "finalImport" \in Operations
    BY <1>0, <1>1, <1>4, <1>5, <1>k DEF FinalImport, ApprovedStateStands, JInv, IsServed, Holds
  <2>2. PICK h \in Records \cup {None, ByHand} :
          /\ HarvestIs(p, n, h)
          /\ cycle' = [cycle EXCEPT ![p][n] = ClosedRow(p, n, "harvested", txn[t].record, h)]
    BY <1>0, <1>4, <1>k DEF FinalImport
  <2>3. standing'[p] \in {"open", "closed"} /\ \A q \in Plots \ {p} : standing'[q] = standing[q]
    BY <1>0, <1>2, <1>3, <1>k DEF FinalImport
  <2>4. PICK f \in Records \cup {None} : f = txn[t].record
    BY TransactionParts DEF JInv, IInv
  <2>5. Ends(p, n, "harvested", f, h) /\ ElsewhereSame(p)
    BY <1>3, <2>1, <2>2, <2>3, <2>4 DEF Ends, ElsewhereSame
  <2> QED
    BY <2>1, <2>5 DEF Effect, ClosedStatuses
<1>l. ASSUME NEW r \in Records, NEW report \in Reports,
             CreateRecord(t, r, report) \/ PublicRecord(t, r, report)
      PROVE  Effect(p)
  <2>1. InsertRecord(t, r, report)
    BY <1>l DEF CreateRecord, PublicRecord
  <2>2. PICK m \in CycleNos : m = txn[t].active
    BY <1>2, <1>l DEF CreateRecord, PublicRecord, NamedCycleIsActive, ActiveIs
  <2>3. /\ IsActive(p, m) /\ record[r].plot = None
        /\ record' = [record EXCEPT ![r] = [plot |-> p, cycle |-> m, at |-> txn[t].at,
                                            live |-> TRUE, report |-> report]]
        /\ snapshot' = [snapshot EXCEPT ![p] = r]
        /\ UNCHANGED <<standing, cycle, mirror>>
    BY <1>0, <2>1, <2>2 DEF InsertRecord, SyncStatus
  <2>4. Files(p, m, r) /\ ElsewhereSame(p)
    BY <1>3, <2>3 DEF Files, ElsewhereSame
  <2> QED
    BY <2>4 DEF Effect
<1>m. CASE RetractRecord(t)
  <2>1. PICK r \in Records : r = txn[t].record /\ record[r].plot = p
    BY <1>0, <1>1, <1>m DEF RetractRecord, Holds, JInv, RetractsItsOwn
  <2>2. PICK m \in 0 .. MaxCycles : m = txn[t].active
    BY TransactionParts DEF JInv, IInv
  <2>3. PICK s \in Records \cup {None} :
          /\ NewestIs(IF m = 0 THEN {} ELSE LiveIn(p, m) \ {r}, s)
          /\ snapshot' = [snapshot EXCEPT ![p] = s]
    BY <1>0, <1>m, <2>1, <2>2 DEF RetractRecord, Remaining
  <2>4. record' = [record EXCEPT ![r].live = FALSE] /\ UNCHANGED <<standing, cycle, mirror>>
    BY <1>m, <2>1 DEF RetractRecord
  <2>5. Retracts(p, m, r, s) /\ ElsewhereSame(p)
    BY <1>2, <1>3, <2>1, <2>2, <2>3, <2>4 DEF Retracts, ElsewhereSame
  <2> QED
    BY <2>5 DEF Effect
<1> QED
  BY <1>a, <1>b, <1>c, <1>d, <1>e, <1>f, <1>g, <1>h, <1>k, <1>l, <1>m DEF Commit

\* Every step of anyone: nothing that shows, or one effect on one plot.
LEMMA StepEffects ==
  ASSUME JInv, [Next]_vars
  PROVE  Still \/ \E p \in Plots : Effect(p)
<1>1. CASE \E p \in Plots : CreatePlot(p)
  <2>1. PICK p \in Plots : CreatePlot(p)
    BY <1>1
  <2>2. Registers(p) /\ ElsewhereSame(p)
    BY <2>1 DEF CreatePlot, Registers, ElsewhereSame, JInv, IInv, TypeOK
  <2> QED
    BY <2>2 DEF Effect
<1>2. CASE \E p \in Plots, pl \in Plans : CreatePlotWithCycle(p, pl)
  <2>1. PICK p \in Plots, pl \in Plans : CreatePlotWithCycle(p, pl)
    BY <1>2
  <2>2. \A m \in CycleNos : cycle[p][m].status = "unused"
    BY <2>1 DEF CreatePlotWithCycle, JInv, IInv, AbsentPlotsAreEmpty
  <2>3. ActiveIs(p, 0) /\ IsNextCycleNo(p, 1) /\ 1 \in CycleNos
    BY <2>2, BoundsAssumption DEF ActiveIs, IsActive, IsNextCycleNo, CycleNos
  <2>4. snapshot[p] = None
    BY <2>1 DEF CreatePlotWithCycle, JInv, ComesEmpty
  <2>5. Opens(p, 1, pl) /\ ElsewhereSame(p)
    BY <2>1, <2>3, <2>4 DEF CreatePlotWithCycle, Opens, ElsewhereSame, JInv, IInv, TypeOK
  <2> QED
    BY <2>3, <2>5 DEF Effect
<1>3. ASSUME NEW t \in Requests, Arrivals(t) \/ Enter(t) \/ Rollback(t)
      PROVE  Still
  BY <1>3 DEF Arrivals, AskPlot, AskCycle, AskRecord, ResolvePublic, ValidateUpdate, AskRetract,
     ApproveFinal, Arrive, Enter, Rollback, Still
<1>4. CASE UNCHANGED vars
  BY <1>4 DEF vars, Still
<1> QED
  BY <1>1, <1>2, <1>3, <1>4, CommitEffects DEF Next

-----------------------------------------------------------------------------
(* JInv is inductive *)

\* The number that _next_cycle_no gives is one more than the plot's cycles.
LEMMA NextFollows ==
  ASSUME NEW p \in Plots, NEW k \in 0 .. MaxCycles, Used(p) = 1 .. k,
         NEW n \in CycleNos, IsNextCycleNo(p, n)
  PROVE  n = k + 1
<1> USE BoundsAssumption
<1>1. \A m \in CycleNos : m \in 1 .. k <=> cycle[p][m].status # "unused"
  BY DEF Used
<1>2. k > 0 => k < n
  BY <1>1 DEF IsNextCycleNo, CycleNos
<1>3. n > 1 => n - 1 \in CycleNos
  BY DEF CycleNos
<1>4. n > 1 => n - 1 \in 1 .. k
  BY <1>1, <1>3 DEF IsNextCycleNo
<1> QED
  BY <1>2, <1>4 DEF CycleNos

\* What becomes of the set of a plot's cycles.
LEMMA UsedAfter ==
  ASSUME JInv, NEW p \in Plots, Effect(p)
  PROVE  /\ \A q \in Plots \ {p} : Used(q)' = Used(q)
         /\ \/ Used(p)' = Used(p)
            \/ \E n \in CycleNos : IsNextCycleNo(p, n) /\ Used(p)' = Used(p) \cup {n}
<1>1. \A q \in Plots \ {p} : Used(q)' = Used(q)
  BY DEF Effect, ElsewhereSame, Used
<1>2. cycle[p] \in [CycleNos -> CycleRow]
  BY DEF JInv, IInv, TypeOK
<1>3. CASE cycle'[p] = cycle[p]
  BY <1>1, <1>3 DEF Used
<1>4. ASSUME NEW n \in CycleNos, NEW pl \in Plans, Opens(p, n, pl)
      PROVE  IsNextCycleNo(p, n) /\ Used(p)' = Used(p) \cup {n}
  BY <1>2, <1>4 DEF Opens, OpenCycle, UnusedCycle, Used
<1>5. ASSUME NEW n \in CycleNos, NEW pl \in Plans, Replans(p, n, pl)
      PROVE  Used(p)' = Used(p)
  <2>1. [cycle[p][n] EXCEPT !.plan = pl].status = cycle[p][n].status
    BY <1>2 DEF CycleRow
  <2> QED
    BY <1>2, <1>5, <2>1 DEF Replans, Used
<1>6. ASSUME NEW n \in CycleNos, NEW s \in ClosedStatuses, NEW f, NEW h
      PROVE  ClosedRow(p, n, s, f, h).status = s /\ s # "unused"
  BY <1>2 DEF ClosedRow, CycleRow, ClosedStatuses
<1>7. ASSUME NEW n \in CycleNos, NEW s \in ClosedStatuses, NEW f, NEW h, Ends(p, n, s, f, h)
      PROVE  Used(p)' = Used(p)
  BY <1>2, <1>6, <1>7 DEF Ends, Used, IsActive
<1>8. ASSUME NEW n \in CycleNos, NEW m \in CycleNos, NEW s \in ClosedStatuses, NEW f,
             NEW pl \in Plans, Turns(p, n, m, s, f, pl)
      PROVE  IsNextCycleNo(p, m) /\ Used(p)' = Used(p) \cup {m}
  <2>1. IsActive(p, n) /\ IsNextCycleNo(p, m)
    BY <1>8 DEF Turns
  <2>2. cycle'[p] = [cycle[p] EXCEPT ![n] = ClosedRow(p, n, s, f, None), ![m] = OpenCycle(pl)]
    BY <1>8 DEF Turns
  <2>3. OpenCycle(pl).status = "active"
    BY DEF OpenCycle, UnusedCycle
  <2>4. \A x \in CycleNos : cycle'[p][x].status # "unused" <=>
                              x = m \/ cycle[p][x].status # "unused"
    BY <1>2, <1>6, <2>1, <2>2, <2>3 DEF IsActive
  <2> QED
    BY <2>1, <2>4 DEF Used
<1>9. CASE \/ Registers(p) \/ Moves(p)
           \/ \E n \in CycleNos, r \in Records : Files(p, n, r)
           \/ \E n \in 0 .. MaxCycles, r \in Records, s \in Records \cup {None} : Retracts(p, n, r, s)
  BY <1>3, <1>9 DEF Registers, Moves, Files, Retracts
<1> QED
  BY <1>1, <1>4, <1>5, <1>7, <1>8, <1>9 DEF Effect

\* The numbering stays without a gap.
LEMMA NumbersAfter ==
  ASSUME JInv, NEW p \in Plots, Effect(p), NEW q \in Plots
  PROVE  NumberedInTurn(q)'
<1> USE BoundsAssumption
<1>1. PICK k \in 0 .. MaxCycles : Used(q) = 1 .. k
  BY DEF JInv, NumberedInTurn
<1>2. CASE Used(q)' = Used(q)
  <2>1. Used(q)' = 1 .. k
    BY <1>1, <1>2
  <2> QED
    BY <2>1 DEF NumberedInTurn
<1>3. ASSUME NEW n \in CycleNos, IsNextCycleNo(q, n), Used(q)' = Used(q) \cup {n}
      PROVE  NumberedInTurn(q)'
  <2>1. n = k + 1
    BY <1>1, <1>3, NextFollows
  <2>2. Used(q)' = 1 .. n /\ n \in 0 .. MaxCycles
    BY <1>1, <1>3, <2>1 DEF CycleNos
  <2> QED
    BY <2>2 DEF NumberedInTurn
<1> QED
  BY <1>2, <1>3, UsedAfter

\* What becomes of the records: one may be filed in the open cycle, one may be retracted.
LEMMA RecordsAfter ==
  ASSUME JInv, NEW p \in Plots, Effect(p), NEW r \in Records
  PROVE  \/ record'[r] = record[r]
         \/ record'[r] = [record[r] EXCEPT !.live = FALSE]
         \/ /\ record[r].plot = None /\ record'[r].plot = p
            /\ record'[r].cycle \in CycleNos /\ IsActive(p, record'[r].cycle)
            /\ UNCHANGED cycle
  BY DEF Effect, Registers, Opens, Moves, Replans, Ends, Turns, Files, Retracts

\* A request under way after a step was under way before it with the same target, or
\* has just arrived.
LEMMA RequestsAfter ==
  ASSUME JInv, [Next]_vars, NEW u \in Requests, txn'[u].pc # "idle"
  PROVE  \/ /\ txn[u].pc # "idle" /\ txn'[u].op = txn[u].op
            /\ txn'[u].record = txn[u].record /\ txn'[u].plot = txn[u].plot
         \/ /\ txn'[u].op \in Operations /\ record' = record
            /\ txn'[u].op = "retractRecord" => /\ txn'[u].record \in Records
                                               /\ record[txn'[u].record].plot = txn'[u].plot
<1>0. txn \in [Requests -> Transaction] /\ Idle.pc = "idle"
  BY DEF JInv, IInv, TypeOK, Idle
<1>2. ASSUME NEW t \in Requests, Finish(t) PROVE txn[u].pc # "idle" /\ txn'[u] = txn[u]
  BY <1>0, <1>2 DEF Finish
<1>3. ASSUME NEW t \in Requests, Enter(t)
      PROVE  /\ txn[u].pc # "idle" /\ txn'[u].op = txn[u].op
             /\ txn'[u].record = txn[u].record /\ txn'[u].plot = txn[u].plot
  <2>1. txn[t].pc # "idle" /\ txn[t] \in Transaction
    BY <1>0, <1>3 DEF Enter
  <2>2. PICK n \in 0 .. MaxCycles, b \in BOOLEAN :
          txn' = [txn EXCEPT ![t] = [@ EXCEPT !.pc = "locked", !.serving = b, !.active = n]]
    BY <1>3 DEF Enter
  <2>3. DEFINE row == [txn[t] EXCEPT !.pc = "locked", !.serving = b, !.active = n]
  <2>4. row.op = txn[t].op /\ row.record = txn[t].record /\ row.plot = txn[t].plot
    BY <2>1 DEF Transaction
  <2>5. txn' = [txn EXCEPT ![t] = row]
    BY <2>2
  <2> HIDE DEF row
  <2> QED
    BY <1>0, <2>1, <2>4, <2>5
<1>4. ASSUME NEW t \in Requests, NEW q \in Transaction, Arrive(t, q), u # t
      PROVE  txn'[u] = txn[u]
  BY <1>0, <1>4 DEF Arrive
<1>5. ASSUME NEW t \in Requests, Arrivals(t)
      PROVE  \/ txn'[u] = txn[u]
             \/ /\ txn'[u].op \in Operations /\ record' = record
                /\ txn'[u].op = "retractRecord" => /\ txn'[u].record \in Records
                                                   /\ record[txn'[u].record].plot = txn'[u].plot
  <2>1. ASSUME NEW q, Arrive(t, q)
        PROVE  /\ record' = record /\ q.op \in Operations
               /\ txn'[u] = txn[u] \/ txn'[u] = q
    BY <1>0, <2>1 DEF Arrive
  <2>2. ASSUME NEW op, NEW p, NEW n, NEW r, NEW pl, NEW a
        PROVE  LET q == Asks(op, p, n, r, pl, a)
               IN q.op = op /\ q.plot = p /\ q.record = r
    BY DEF Asks
  <2>3. ASSUME NEW op, NEW p, NEW n, NEW r, NEW pl, NEW a, op # "retractRecord",
               Arrive(t, Asks(op, p, n, r, pl, a))
        PROVE  \/ txn'[u] = txn[u]
               \/ txn'[u].op \in Operations /\ record' = record /\ txn'[u].op # "retractRecord"
    BY <2>1, <2>2, <2>3
  <2>4. ASSUME NEW p \in Plots, NEW r \in Records, AskRetract(t, p, r)
        PROVE  \/ txn'[u] = txn[u]
               \/ /\ txn'[u].op \in Operations /\ record' = record
                  /\ txn'[u].record \in Records /\ record[txn'[u].record].plot = txn'[u].plot
    BY <2>1, <2>2, <2>4 DEF AskRetract
  <2> QED
    BY <1>5, <2>3, <2>4
       DEF Arrivals, AskPlot, AskCycle, AskRecord, ResolvePublic, ValidateUpdate, ApproveFinal,
           PlotOps, CycleOps
<1>6. ASSUME \E t \in Requests : Commit(t) \/ Rollback(t)
      PROVE  txn[u].pc # "idle" /\ txn'[u] = txn[u]
  BY <1>2, <1>6 DEF Commit, Rollback, StartCycle, ReactivateWithCycle, Reactivate, Deactivate,
     UpdateCycle, UpdateImport, CloseCycle, CancelCycle, RolloverCycle, FinalImport, CreateRecord,
     PublicRecord, InsertRecord, RetractRecord
<1>7. ASSUME UNCHANGED vars \/ \E p \in Plots : CreatePlot(p) \/ \E pl \in Plans : CreatePlotWithCycle(p, pl)
      PROVE  txn'[u] = txn[u]
  BY <1>7 DEF vars, CreatePlot, CreatePlotWithCycle
<1> DEFINE Known ==
        \/ /\ txn[u].pc # "idle" /\ txn'[u].op = txn[u].op
           /\ txn'[u].record = txn[u].record /\ txn'[u].plot = txn[u].plot
        \/ /\ txn'[u].op \in Operations /\ record' = record
           /\ txn'[u].op = "retractRecord" => /\ txn'[u].record \in Records
                                              /\ record[txn'[u].record].plot = txn'[u].plot
<1>8. txn'[u] = txn[u] => Known
  OBVIOUS
<1>9. ASSUME NEW t \in Requests, Arrivals(t) PROVE Known
  BY <1>5, <1>8, <1>9
<1>10. ASSUME NEW t \in Requests, Enter(t) PROVE Known
  BY <1>3, <1>10
<1> HIDE DEF Known
<1>11. (\E t \in Requests : Commit(t) \/ Rollback(t)) => Known
  BY <1>6, <1>8
<1>12. (UNCHANGED vars \/ \E p \in Plots : CreatePlot(p) \/ \E pl \in Plans : CreatePlotWithCycle(p, pl)) => Known
  BY <1>7, <1>8
<1>13. Known
  BY <1>9, <1>10, <1>11, <1>12 DEF Next
<1> QED
  BY <1>13 DEF Known

\* An empty database satisfies the invariant.
LEMMA InitJInv == Init => JInv
<1> SUFFICES ASSUME Init PROVE JInv
  OBVIOUS
<1>1. IInv
  BY InitIInv
<1>2. \A t \in Requests : txn[t].pc = "idle"
  BY DEF Init, Idle
<1>3. \A p \in Plots : Used(p) = 1 .. 0
  BY DEF Init, Used, UnusedCycle
<1>4. \A p \in Plots : NumberedInTurn(p)
  BY <1>3, BoundsAssumption DEF NumberedInTurn
<1>5. \A p \in Plots : ComesEmpty(p)
  BY DEF Init, ComesEmpty
<1>6. \A r \in Records : IsInASeason(r)
  BY NoneAssumption DEF Init, NoRecord, IsInASeason
<1> QED
  BY <1>1, <1>2, <1>4, <1>5, <1>6 DEF JInv, RetractsItsOwn, IsServed

\* Every step keeps the invariant.
LEMMA NextJInv == JInv /\ [Next]_vars => JInv'
<1> SUFFICES ASSUME JInv, [Next]_vars PROVE JInv'
  OBVIOUS
<1>1. IInv'
  BY NextIInv DEF JInv
<1>2. Still \/ \E p \in Plots : Effect(p)
  BY StepEffects
<1>3. \A r \in Records : record[r] \in RecordRow
  BY DEF JInv, IInv, TypeOK
<1>4. ASSUME NEW r \in Records, record[r].plot \in Plots
      PROVE  record'[r].plot = record[r].plot /\ record'[r].cycle = record[r].cycle
  <2>1. record[r].plot # None
    BY <1>4, NoneAssumption
  <2> QED
    BY <1>2, <1>3, <2>1, RecordsAfter DEF Still, RecordRow
<1>5. ASSUME NEW u \in Requests PROVE RetractsItsOwn(u)' /\ IsServed(u)'
  <2> SUFFICES ASSUME txn'[u].pc # "idle"
               PROVE  /\ txn'[u].op \in Operations
                      /\ txn'[u].op = "retractRecord" =>
                            /\ txn'[u].record \in Records
                            /\ record'[txn'[u].record].plot = txn'[u].plot
    BY DEF RetractsItsOwn, IsServed
  <2>1. CASE /\ txn[u].pc # "idle" /\ txn'[u].op = txn[u].op
             /\ txn'[u].record = txn[u].record /\ txn'[u].plot = txn[u].plot
    <3>1. txn[u].op \in Operations /\ txn[u].plot \in Plots
      BY <2>1 DEF JInv, IsServed, IInv, TargetsExist
    <3>2. txn[u].op = "retractRecord" => txn[u].record \in Records
                                         /\ record[txn[u].record].plot = txn[u].plot
      BY <2>1 DEF JInv, RetractsItsOwn
    <3> QED
      BY <1>4, <2>1, <3>1, <3>2
  <2> QED
    BY <2>1, RequestsAfter
<1>6. ASSUME NEW p \in Plots PROVE NumberedInTurn(p)'
  <2>1. CASE Still
    BY <2>1 DEF Still, JInv, NumberedInTurn, Used
  <2> QED
    BY <1>2, <2>1, NumbersAfter
<1>7. ASSUME NEW p \in Plots PROVE ComesEmpty(p)'
  <2>1. CASE Still
    BY <2>1 DEF Still, JInv, ComesEmpty
  <2>2. ASSUME NEW q \in Plots, Effect(q), p # q PROVE ComesEmpty(p)'
    BY <2>2 DEF Effect, ElsewhereSame, JInv, ComesEmpty
  <2>3. ASSUME Effect(p) PROVE standing'[p] # "absent" \/ snapshot'[p] = None
    <3>1. ASSUME NEW n \in CycleNos, IsActive(p, n) PROVE standing[p] # "absent"
      BY <3>1 DEF JInv, IInv, ClosedPlotsAreDormant, DormantAt
    <3>2. ASSUME NEW r \in Records, record[r].plot = p PROVE standing[p] # "absent"
      BY <3>2 DEF JInv, IInv, RecordsHavePlots
    <3> QED
      BY <2>3, <3>1, <3>2 DEF Effect, Registers, Opens, Moves, Replans, Ends, Turns, Files, Retracts
  <2> QED
    BY <1>2, <2>1, <2>2, <2>3 DEF ComesEmpty
<1>8. ASSUME NEW r \in Records PROVE IsInASeason(r)'
  <2>0. ASSUME NEW q \in Plots, record'[r].plot = q PROVE record'[r].cycle \in Used(q)'
    <3>1. CASE Still
      <4>1. record[r].plot = q /\ record'[r].cycle = record[r].cycle /\ Used(q)' = Used(q)
        BY <2>0, <3>1 DEF Still, Used
      <4> QED
        BY <4>1 DEF JInv, IsInASeason
    <3>2. ASSUME NEW p \in Plots, Effect(p) PROVE record'[r].cycle \in Used(q)'
      <4>1. Used(q) \subseteq Used(q)'
        BY <3>2, UsedAfter
      <4>2. CASE record[r].plot \in Plots
        <5>1. record[r].plot = q /\ record'[r].cycle = record[r].cycle
          BY <1>4, <2>0, <4>2
        <5> QED
          BY <4>1, <5>1 DEF JInv, IsInASeason
      <4>3. CASE record[r].plot \notin Plots
        <5>1. /\ record'[r].plot = p /\ record'[r].cycle \in CycleNos
              /\ IsActive(p, record'[r].cycle)
          BY <1>3, <2>0, <3>2, <4>3, RecordsAfter DEF RecordRow
        <5>2. record'[r].cycle \in Used(p)
          BY <5>1 DEF Used, IsActive
        <5> QED
          BY <2>0, <4>1, <5>1, <5>2
      <4> QED
        BY <4>2, <4>3
    <3> QED
      BY <1>2, <3>1, <3>2
  <2> QED
    BY <2>0 DEF IsInASeason
<1> QED
  BY <1>1, <1>5, <1>6, <1>7, <1>8 DEF JInv

\* The invariant holds throughout.
LEMMA Seasonal == Spec => []JInv
<1> QED
  BY InitJInv, NextJInv, PTL DEF Spec

-----------------------------------------------------------------------------
(* Rows and records, whatever the effect *)

\* A plot has one cycle open at most.
LEMMA OneOpen ==
  ASSUME JInv, NEW p \in Plots, NEW m \in CycleNos, NEW n \in CycleNos,
         IsActive(p, m), IsActive(p, n)
  PROVE  m = n
<1>1. ~(m > n) /\ ~(n > m)
  BY DEF JInv, IInv, ClosedPlotsAreDormant, DormantAt, IsActive
<1> QED
  BY <1>1 DEF CycleNos

\* The next cycle is not in use, and holds no record.
LEMMA NextIsFree ==
  ASSUME JInv, NEW p \in Plots, NEW n \in CycleNos, IsNextCycleNo(p, n)
  PROVE  cycle[p][n].status = "unused" /\ Filed(p, n) = {}
<1>1. n \notin Used(p)
  BY DEF IsNextCycleNo, Used, CycleNos
<1>2. Filed(p, n) = {}
  BY <1>1 DEF Filed, JInv, IsInASeason
<1> QED
  BY <1>1, <1>2 DEF Used

\* How an open cycle comes to be closed.
ClosesWell(p, n, s, f, h) ==
    /\ NewestIs(LiveIn(p, n), f)
    /\ h = None \/ (s = "harvested" /\ HarvestIs(p, n, h))
    /\ cycle'[p][n] = ClosedRow(p, n, s, f, h)

\* What becomes of a cycle's row: it stays, opens, is replanned while open, or closes.
RowAfter(p, n) ==
    \/ cycle'[p][n] = cycle[p][n]
    \/ /\ record' = record
       /\ \/ cycle[p][n].status = "unused" /\ \E pl \in Plans : cycle'[p][n] = OpenCycle(pl)
          \/ /\ IsActive(p, n)
             /\ \/ \E pl \in Plans : cycle'[p][n] = [cycle[p][n] EXCEPT !.plan = pl]
                \/ \E s \in ClosedStatuses, f \in Records \cup {None},
                      h \in Records \cup {None, ByHand} : ClosesWell(p, n, s, f, h)

\* Every effect treats every row in one of those ways.
LEMMA RowsAfter ==
  ASSUME JInv, NEW p \in Plots, Effect(p), NEW q \in Plots, NEW n \in CycleNos
  PROVE  RowAfter(q, n)
<1>1. cycle[p] \in [CycleNos -> CycleRow]
  BY DEF JInv, IInv, TypeOK
<1>2. CASE q # p
  BY <1>2 DEF Effect, ElsewhereSame, RowAfter
<1>3. CASE cycle'[p] = cycle[p] /\ q = p
  BY <1>3 DEF RowAfter
<1>4. ASSUME NEW m \in CycleNos, NEW pl \in Plans, Opens(p, m, pl), q = p
      PROVE  RowAfter(q, n)
  <2>1. cycle[p][m].status = "unused"
    BY <1>4, NextIsFree DEF Opens
  <2> QED
    BY <1>1, <1>4, <2>1 DEF Opens, RowAfter
<1>5. ASSUME NEW m \in CycleNos, NEW pl \in Plans, Replans(p, m, pl), q = p
      PROVE  RowAfter(q, n)
  <2>1. CASE n = m
    <3>1. IsActive(p, n) /\ record' = record /\ cycle'[p][n] = [cycle[p][n] EXCEPT !.plan = pl]
      BY <1>1, <1>5, <2>1 DEF Replans
    <3> QED
      BY <1>5, <3>1 DEF RowAfter
  <2>2. CASE n # m
    BY <1>1, <1>5, <2>2 DEF Replans, RowAfter
  <2> QED
    BY <2>1, <2>2
<1>6. ASSUME NEW m \in CycleNos, NEW s \in ClosedStatuses, NEW f \in Records \cup {None},
             NEW h \in Records \cup {None, ByHand}, Ends(p, m, s, f, h), q = p
      PROVE  RowAfter(q, n)
  <2>1. CASE n = m
    <3>1. IsActive(p, n) /\ record' = record /\ ClosesWell(p, n, s, f, h)
      BY <1>1, <1>6, <2>1 DEF Ends, ClosesWell
    <3> QED
      BY <1>6, <3>1 DEF RowAfter
  <2>2. CASE n # m
    BY <1>1, <1>6, <2>2 DEF Ends, RowAfter
  <2> QED
    BY <2>1, <2>2
<1>7. ASSUME NEW m \in CycleNos, NEW x \in CycleNos, NEW s \in ClosedStatuses,
             NEW f \in Records \cup {None}, NEW pl \in Plans, Turns(p, m, x, s, f, pl), q = p
      PROVE  RowAfter(q, n)
  <2>0. cycle[p][x].status = "unused" /\ m # x
    BY <1>7, NextIsFree DEF Turns, IsActive
  <2>1. CASE n = m
    <3>1. IsActive(p, n) /\ record' = record /\ ClosesWell(p, n, s, f, None)
      BY <1>1, <1>7, <2>0, <2>1 DEF Turns, ClosesWell
    <3> QED
      BY <1>7, <3>1 DEF RowAfter
  <2>2. CASE n = x
    BY <1>1, <1>7, <2>0, <2>2 DEF Turns, RowAfter
  <2>3. CASE n # m /\ n # x
    BY <1>1, <1>7, <2>3 DEF Turns, RowAfter
  <2> QED
    BY <2>1, <2>2, <2>3
<1>8. CASE \/ Registers(p) \/ Moves(p)
           \/ \E m \in CycleNos, r \in Records : Files(p, m, r)
           \/ \E m \in 0 .. MaxCycles, r \in Records, s \in Records \cup {None} : Retracts(p, m, r, s)
  BY <1>2, <1>3, <1>8 DEF Registers, Moves, Files, Retracts
<1> QED
  BY <1>2, <1>4, <1>5, <1>6, <1>7, <1>8 DEF Effect

\* Once closed, a row stays as it is.
LEMMA ClosedStays ==
  ASSUME JInv, [Next]_vars, NEW p \in Plots, NEW n \in CycleNos,
         cycle[p][n].status \in ClosedStatuses
  PROVE  cycle'[p][n] = cycle[p][n]
<1>1. CASE Still
  BY <1>1 DEF Still
<1>2. ASSUME NEW q \in Plots, Effect(q) PROVE RowAfter(p, n)
  BY <1>2, RowsAfter
<1> QED
  BY <1>1, <1>2, StepEffects DEF RowAfter, IsActive, ClosedStatuses

\* What is filed in a cycle stays filed, as old as it was; and only an open cycle gains
\* a record, or a live one.
LEMMA FilingsAfter ==
  ASSUME JInv, [Next]_vars, NEW p \in Plots, NEW n \in CycleNos
  PROVE  /\ Filed(p, n) \subseteq Filed(p, n)'
         /\ \A r \in Filed(p, n) : record'[r].at = record[r].at /\ record'[r].report = record[r].report
         /\ ~IsActive(p, n) => LiveIn(p, n)' \subseteq LiveIn(p, n)
<1>0. \A r \in Records : record[r] \in RecordRow
  BY DEF JInv, IInv, TypeOK
<1>1. CASE Still
  BY <1>1 DEF Still, Filed, LiveIn
<1>2. ASSUME NEW q \in Plots, Effect(q)
      PROVE  \A r \in Records :
                \/ /\ record'[r].plot = record[r].plot /\ record'[r].cycle = record[r].cycle
                   /\ record'[r].at = record[r].at /\ record'[r].report = record[r].report
                   /\ record'[r].live => record[r].live
                \/ record[r].plot = None /\ IsActive(record'[r].plot, record'[r].cycle)
  <2> TAKE r \in Records
  <2>1. CASE record'[r] = record[r]
    BY <2>1
  <2>2. CASE record'[r] = [record[r] EXCEPT !.live = FALSE]
    BY <1>0, <2>2 DEF RecordRow
  <2> QED
    BY <1>2, <2>1, <2>2, RecordsAfter
<1>3. None \notin Plots
  BY NoneAssumption
<1> QED
  BY <1>1, <1>2, <1>3, StepEffects DEF Filed, LiveIn

-----------------------------------------------------------------------------
\* History is additive, and a record joins the cycle its request settled on
\* (plots.close_cycle, record_repository.create_record: closed cycles and filed records
\* are never written again, but for the retraction flag).
THEOREM HistoryIsKept == Spec => HistoryStands
<1>1. ASSUME JInv, [Next]_vars, NEW r \in Records, record[r].plot # None
      PROVE  record'[r] \in {record[r], [record[r] EXCEPT !.live = FALSE]}
  BY <1>1, StepEffects, RecordsAfter DEF Still
<1>2. JInv /\ [Next]_vars =>
        [/\ \A p \in Plots, n \in CycleNos :
               cycle[p][n].status \in ClosedStatuses => cycle'[p][n] = cycle[p][n]
         /\ \A r \in Records : record[r].plot # None =>
               record'[r] \in {record[r], [record[r] EXCEPT !.live = FALSE]}]_vars
  BY <1>1, ClosedStays
<1>3. ASSUME JInv, [Next]_vars, NEW r \in Records, record[r].plot = None, record'[r].plot # None
      PROVE  \E t \in Requests : LET row == record'[r] IN
                /\ txn[t].plot = row.plot /\ txn[t].at = row.at /\ txn'[t] = Idle
                /\ IsActive(row.plot, row.cycle)
                /\ txn[t].op = "publicRecord" => row.cycle = txn[t].cycle
  <2>0. txn \in [Requests -> Transaction] /\ record \in [Records -> RecordRow]
    BY <1>3 DEF JInv, IInv, TypeOK
  <2>1. record' # record
    BY <1>3
  <2>a. ASSUME NEW t \in Requests, Arrivals(t) \/ Enter(t) \/ Rollback(t) PROVE FALSE
    BY <2>1, <2>a DEF Arrivals, AskPlot, AskCycle, AskRecord, ResolvePublic, ValidateUpdate,
       AskRetract, ApproveFinal, Arrive, Enter, Rollback
  <2>b. ASSUME NEW p \in Plots, CreatePlot(p) \/ \E pl \in Plans : CreatePlotWithCycle(p, pl)
        PROVE  FALSE
    BY <2>1, <2>b DEF CreatePlot, CreatePlotWithCycle
  <2>2. PICK t \in Requests : Commit(t)
    BY <1>3, <2>1, <2>a, <2>b DEF Next, vars
  <2>3. ~RetractRecord(t)
    <3> SUFFICES ASSUME RetractRecord(t) PROVE FALSE
      OBVIOUS
    <3>1. record' = [record EXCEPT ![txn[t].record].live = FALSE]
      BY DEF RetractRecord
    <3>2. record'[r].plot = record[r].plot
      BY <3>1 DEF JInv, IInv, TypeOK, RecordRow
    <3> QED
      BY <1>3, <3>2
  <2>4. PICK x \in Records, report \in Reports : CreateRecord(t, x, report) \/ PublicRecord(t, x, report)
    BY <2>1, <2>2, <2>3 DEF Commit, StartCycle, ReactivateWithCycle, Reactivate, Deactivate,
       UpdateCycle, UpdateImport, CloseCycle, CancelCycle, RolloverCycle, FinalImport
  <2>5. InsertRecord(t, x, report) /\ (txn[t].op = "publicRecord" => NamedCycleIsActive(t))
    BY <2>4 DEF CreateRecord, PublicRecord, Holds
  <2>6. x = r
    BY <1>3, <2>5 DEF InsertRecord, JInv, IInv, TypeOK
  <2>7. record'[r] = [plot |-> txn[t].plot, cycle |-> txn[t].active, at |-> txn[t].at,
                      live |-> TRUE, report |-> report]
    <3>1. record' = [record EXCEPT ![x] = [plot |-> txn[t].plot, cycle |-> txn[t].active,
                                           at |-> txn[t].at, live |-> TRUE, report |-> report]]
      BY <2>5 DEF InsertRecord
    <3> QED
      BY <2>0, <2>6, <3>1
  <2>8. txn'[t] = Idle /\ IsActive(txn[t].plot, txn[t].active)
    <3>1. txn' = [txn EXCEPT ![t] = Idle]
      BY <2>5 DEF InsertRecord, Finish
    <3>2. IsActive(txn[t].plot, txn[t].active)
      BY <2>5 DEF InsertRecord
    <3> QED
      BY <2>0, <3>1, <3>2
  <2> QED
    BY <2>5, <2>7, <2>8 DEF NamedCycleIsActive
<1>4. JInv /\ [Next]_vars =>
        [\A r \in Records : record[r].plot = None /\ record'[r].plot # None =>
            \E t \in Requests : LET row == record'[r] IN
               /\ txn[t].plot = row.plot /\ txn[t].at = row.at /\ txn'[t] = Idle
               /\ IsActive(row.plot, row.cycle)
               /\ txn[t].op = "publicRecord" => row.cycle = txn[t].cycle]_vars
  BY <1>3
<1> QED
  BY <1>2, <1>4, Seasonal, PTL DEF Spec, HistoryStands, HistoryIsAdditive, RecordsJoinTheResolvedCycle

-----------------------------------------------------------------------------
(* What an open season advertises *)

\* An effect on one plot leaves the others' records alone.
LEMMA OthersRecords ==
  ASSUME JInv, NEW p \in Plots, Effect(p), NEW q \in Plots \ {p}, NEW n \in CycleNos
  PROVE  LiveIn(q, n)' = LiveIn(q, n)
<1>0. \A r \in Records : record[r] \in RecordRow
  BY DEF JInv, IInv, TypeOK
<1>a. CASE record' = record
  BY <1>a DEF LiveIn, Filed
<1>b. ASSUME NEW m \in CycleNos, NEW r \in Records, Files(p, m, r)
      PROVE  LiveIn(q, n)' = LiveIn(q, n)
  <2>1. record[r].plot # q /\ record'[r].plot # q
    BY <1>b, NoneAssumption DEF Files
  <2> QED
    BY <1>b, <2>1 DEF Files, LiveIn, Filed
<1>c. ASSUME NEW m \in 0 .. MaxCycles, NEW r \in Records, NEW s, Retracts(p, m, r, s)
      PROVE  LiveIn(q, n)' = LiveIn(q, n)
  <2>1. record[r].plot # q /\ record'[r].plot # q
    BY <1>0, <1>c DEF Retracts, RecordRow
  <2> QED
    BY <1>c, <2>1 DEF Retracts, LiveIn, Filed
<1> QED
  BY <1>a, <1>b, <1>c DEF Effect, Registers, Opens, Moves, Replans, Ends, Turns

\* The open cycle's plan is the plot's, and a live record of its own the plot's snapshot.
Advertises(p, n) ==
    IsActive(p, n) =>
        /\ mirror[p] = cycle[p][n].plan
        /\ IF LiveIn(p, n) = {} THEN snapshot[p] = None ELSE snapshot[p] \in LiveIn(p, n)

\* Every effect leaves a plot that advertises its open cycle advertising it.
LEMMA AdvertisesAfter ==
  ASSUME JInv, NEW p \in Plots, Effect(p), NEW q \in Plots, NEW n \in CycleNos, Advertises(q, n)
  PROVE  Advertises(q, n)'
<1>0. cycle[p] \in [CycleNos -> CycleRow] /\ \A r \in Records : record[r] \in RecordRow
  BY DEF JInv, IInv, TypeOK
<1>1. CASE q # p
  <2>1. LiveIn(q, n)' = LiveIn(q, n)
    BY <1>1, OthersRecords
  <2>2. IsActive(q, n)' = IsActive(q, n)
    BY <1>1 DEF Effect, ElsewhereSame, IsActive
  <2>3. mirror'[q] = mirror[q] /\ snapshot'[q] = snapshot[q] /\ cycle'[q] = cycle[q]
    BY <1>1 DEF Effect, ElsewhereSame
  <2> QED
    BY <2>1, <2>2, <2>3 DEF Advertises
<1>2. CASE Registers(p) \/ Moves(p)
  <2>1. ~IsActive(p, n)
    BY <1>2 DEF Registers, Moves, ActiveIs, JInv, IInv, AbsentPlotsAreEmpty, IsActive
  <2>2. cycle' = cycle
    BY <1>2 DEF Registers, Moves
  <2> QED
    BY <1>1, <2>1, <2>2 DEF Advertises, IsActive
<1>3. ASSUME NEW m \in CycleNos, NEW pl, IsNextCycleNo(p, m), record' = record,
             mirror'[p] = pl, snapshot'[p] = None, cycle'[p][m] = OpenCycle(pl),
             \A x \in CycleNos \ {m} : cycle'[p][x].status # "active"
      PROVE  Advertises(p, n)'
  <2>1. LiveIn(p, m)' = {}
    BY <1>3, NextIsFree DEF LiveIn, Filed
  <2>2. cycle'[p][m].plan = pl
    BY <1>3 DEF OpenCycle, UnusedCycle
  <2>3. CASE n = m
    BY <1>3, <2>1, <2>2, <2>3 DEF Advertises
  <2>4. CASE n # m
    BY <1>3, <2>4 DEF Advertises, IsActive
  <2> QED
    BY <2>3, <2>4
<1>4. ASSUME NEW m \in CycleNos, NEW pl \in Plans, Opens(p, m, pl) PROVE Advertises(p, n)'
  <2>1. \A x \in CycleNos \ {m} : cycle'[p][x].status # "active"
    BY <1>0, <1>4 DEF Opens, ActiveIs, IsActive
  <2>2. cycle'[p][m] = OpenCycle(pl)
    BY <1>0, <1>4 DEF Opens
  <2> QED
    BY <1>3, <1>4, <2>1, <2>2 DEF Opens
<1>5. ASSUME NEW m \in CycleNos, NEW s \in ClosedStatuses
      PROVE  \A f, h : ClosedRow(p, m, s, f, h).status # "active"
  BY <1>0 DEF ClosedRow, CycleRow, ClosedStatuses
<1>6. ASSUME NEW m \in CycleNos, NEW x \in CycleNos, NEW s \in ClosedStatuses,
             NEW f \in Records \cup {None}, NEW pl \in Plans, Turns(p, m, x, s, f, pl)
      PROVE  Advertises(p, n)'
  <2>0. m # x
    BY <1>6, NextIsFree DEF Turns, IsActive
  <2>1. cycle'[p] = [cycle[p] EXCEPT ![m] = ClosedRow(p, m, s, f, None), ![x] = OpenCycle(pl)]
    BY <1>6 DEF Turns
  <2>2. cycle'[p][x] = OpenCycle(pl)
    BY <1>0, <2>1
  <2>3. ASSUME NEW y \in CycleNos \ {x} PROVE cycle'[p][y].status # "active"
    <3>1. CASE y = m
      BY <1>0, <1>5, <2>1, <3>1
    <3>2. CASE y # m
      <4>1. cycle'[p][y] = cycle[p][y]
        BY <1>0, <2>1, <3>2
      <4>2. ~IsActive(p, y)
        BY <1>6, <3>2, OneOpen DEF Turns
      <4> QED
        BY <4>1, <4>2 DEF IsActive
    <3> QED
      BY <3>1, <3>2
  <2> QED
    BY <1>3, <1>6, <2>2, <2>3 DEF Turns
<1>7. ASSUME NEW m \in CycleNos, NEW s \in ClosedStatuses, NEW f \in Records \cup {None},
             NEW h \in Records \cup {None, ByHand}, Ends(p, m, s, f, h)
      PROVE  ~IsActive(p, n)'
  <2>1. cycle'[p] = [cycle[p] EXCEPT ![m] = ClosedRow(p, m, s, f, h)] /\ IsActive(p, m)
    BY <1>7 DEF Ends
  <2>2. CASE n = m
    BY <1>0, <1>5, <2>1, <2>2 DEF IsActive
  <2>3. CASE n # m
    BY <1>0, <2>1, <2>3, OneOpen DEF IsActive
  <2> QED
    BY <2>2, <2>3
<1>8. ASSUME NEW m \in CycleNos, NEW pl \in Plans, Replans(p, m, pl), q = p
      PROVE  Advertises(p, n)'
  <2>1. cycle'[p] = [cycle[p] EXCEPT ![m] = [cycle[p][m] EXCEPT !.plan = pl]] /\ IsActive(p, m)
    BY <1>8 DEF Replans
  <2>2. LiveIn(p, n)' = LiveIn(p, n) /\ snapshot'[p] = snapshot[p] /\ mirror'[p] = pl
    BY <1>8 DEF Replans, LiveIn, Filed
  <2>3. CASE n = m
    <3>1. cycle'[p][n].plan = pl
      BY <1>0, <2>1, <2>3 DEF CycleRow
    <3> QED
      BY <1>8, <2>1, <2>2, <2>3, <3>1 DEF Advertises
  <2>4. CASE n # m
    BY <1>0, <2>1, <2>4, OneOpen DEF Advertises, IsActive
  <2> QED
    BY <2>3, <2>4
<1>9. ASSUME NEW m \in CycleNos, NEW r \in Records, Files(p, m, r), q = p
      PROVE  Advertises(p, n)'
  <2>1. cycle' = cycle /\ IsActive(p, m) /\ mirror' = mirror /\ snapshot'[p] = r
    BY <1>9 DEF Files
  <2>2. r \in LiveIn(p, m)'
    BY <1>9 DEF Files, LiveIn, Filed
  <2>3. n = m \/ ~IsActive(p, n)
    BY <2>1, OneOpen
  <2>4. CASE n = m
    <3>1. mirror[p] = cycle[p][n].plan
      BY <1>9, <2>1, <2>4 DEF Advertises
    <3> QED
      BY <2>1, <2>2, <2>4, <3>1 DEF Advertises
  <2>5. CASE ~IsActive(p, n)
    BY <2>1, <2>5 DEF Advertises, IsActive
  <2> QED
    BY <2>3, <2>4, <2>5
<1>10. ASSUME NEW m \in 0 .. MaxCycles, NEW r \in Records, NEW s \in Records \cup {None},
              Retracts(p, m, r, s), q = p
       PROVE  Advertises(p, n)'
  <2>1. cycle' = cycle /\ ActiveIs(p, m) /\ mirror' = mirror /\ snapshot'[p] = s
    BY <1>10 DEF Retracts
  <2>2. CASE IsActive(p, n)
    <3>1. m = n /\ m # 0
      BY <2>1, <2>2, OneOpen DEF ActiveIs, CycleNos
    <3>2. \A x \in Records : IF x = r THEN record'[x] = [record[x] EXCEPT !.live = FALSE]
                                      ELSE record'[x] = record[x]
      BY <1>10 DEF Retracts
    <3>3. LiveIn(p, n)' = LiveIn(p, n) \ {r}
      BY <1>0, <3>2 DEF LiveIn, Filed, RecordRow
    <3>4. NewestIs(LiveIn(p, n) \ {r}, s)
      BY <1>10, <3>1 DEF Retracts
    <3> QED
      BY <1>10, <2>1, <3>3, <3>4 DEF Advertises, NewestIs, IsActive
  <2> QED
    BY <2>1, <2>2 DEF Advertises, IsActive
<1> QED
  BY <1>1, <1>2, <1>4, <1>6, <1>7, <1>8, <1>9, <1>10 DEF Effect, Advertises

-----------------------------------------------------------------------------
(* Whether it is the newest                                                *)

\* A record is filed whose request began before that of one already filed.
Overtaken(p, n) == \E r \in LiveIn(p, n)' \ LiveIn(p, n), x \in LiveIn(p, n) :
                      record'[r].at < record[x].at

\* The snapshot of an open season becomes the newest, is overtaken, or stays what it was.
StaysNewest(p, n) ==
    IsActive(p, n)' => \/ ShowsNewest(p, n)'
                       \/ Overtaken(p, n)
                       \/ IsActive(p, n) /\ UNCHANGED <<LiveIn(p, n), snapshot[p]>>

\* An effect that ends or opens a season leaves open at most one that has no records yet.
LEMMA FreshAfter ==
  ASSUME JInv, NEW p \in Plots, NEW n \in CycleNos, NEW m \in CycleNos,
         \/ \E pl \in Plans : Opens(p, m, pl)
         \/ \E x \in CycleNos, s \in ClosedStatuses, f \in Records \cup {None}, pl \in Plans :
               Turns(p, x, m, s, f, pl)
         \/ \E s \in ClosedStatuses, f \in Records \cup {None}, h \in Records \cup {None, ByHand} :
               Ends(p, m, s, f, h)
  PROVE  StaysNewest(p, n)
<1>0. cycle[p] \in [CycleNos -> CycleRow]
  BY DEF JInv, IInv, TypeOK
<1>1. ASSUME NEW y \in CycleNos, NEW s \in ClosedStatuses
      PROVE  \A f, h : ClosedRow(p, y, s, f, h).status # "active"
  BY <1>0 DEF ClosedRow, CycleRow, ClosedStatuses
<1>2. ASSUME IsNextCycleNo(p, m), record' = record, snapshot'[p] = None
      PROVE  ShowsNewest(p, m)'
  <2>1. LiveIn(p, m)' = {}
    BY <1>2, NextIsFree DEF LiveIn, Filed
  <2> QED
    BY <1>2, <2>1 DEF ShowsNewest
<1>3. ASSUME NEW pl \in Plans, Opens(p, m, pl) PROVE StaysNewest(p, n)
  <2>1. n # m => ~IsActive(p, n)'
    BY <1>0, <1>3 DEF Opens, ActiveIs, IsActive
  <2>2. ShowsNewest(p, m)'
    BY <1>2, <1>3 DEF Opens
  <2> QED
    BY <2>1, <2>2 DEF StaysNewest
<1>4. ASSUME NEW x \in CycleNos, NEW s \in ClosedStatuses, NEW f \in Records \cup {None},
             NEW pl \in Plans, Turns(p, x, m, s, f, pl)
      PROVE  StaysNewest(p, n)
  <2>1. cycle'[p] = [cycle[p] EXCEPT ![x] = ClosedRow(p, x, s, f, None), ![m] = OpenCycle(pl)]
    BY <1>4 DEF Turns
  <2>2. CASE n = m
    BY <1>2, <1>4, <2>2 DEF Turns, StaysNewest
  <2>3. CASE n # m /\ n = x
    BY <1>0, <1>1, <2>1, <2>3 DEF StaysNewest, IsActive
  <2>4. CASE n # m /\ n # x
    <3>1. cycle'[p][n] = cycle[p][n]
      BY <1>0, <2>1, <2>4
    <3>2. ~IsActive(p, n)
      BY <1>4, <2>4, OneOpen DEF Turns
    <3> QED
      BY <3>1, <3>2 DEF StaysNewest, IsActive
  <2> QED
    BY <2>2, <2>3, <2>4
<1>5. ASSUME NEW s \in ClosedStatuses, NEW f \in Records \cup {None},
             NEW h \in Records \cup {None, ByHand}, Ends(p, m, s, f, h)
      PROVE  StaysNewest(p, n)
  <2>1. cycle'[p] = [cycle[p] EXCEPT ![m] = ClosedRow(p, m, s, f, h)] /\ IsActive(p, m)
    BY <1>5 DEF Ends
  <2>2. CASE n = m
    BY <1>0, <1>1, <2>1, <2>2 DEF StaysNewest, IsActive
  <2>3. CASE n # m
    BY <1>0, <2>1, <2>3, OneOpen DEF StaysNewest, IsActive
  <2> QED
    BY <2>2, <2>3
<1> QED
  BY <1>3, <1>4, <1>5

\* Every effect leaves a season's snapshot the newest, but for one that overtakes it.
LEMMA NewestAfter ==
  ASSUME JInv, TypeOK', NEW p \in Plots, Effect(p), NEW q \in Plots, NEW n \in CycleNos
  PROVE  StaysNewest(q, n)
<1>0. /\ cycle[p] \in [CycleNos -> CycleRow]
      /\ \A r \in Records : record[r] \in RecordRow /\ record'[r] \in RecordRow
  BY DEF JInv, IInv, TypeOK
<1>1. CASE q # p
  <2>1. LiveIn(q, n)' = LiveIn(q, n)
    BY <1>1, OthersRecords
  <2>2. cycle'[q] = cycle[q] /\ snapshot'[q] = snapshot[q]
    BY <1>1 DEF Effect, ElsewhereSame
  <2> QED
    BY <2>1, <2>2 DEF StaysNewest, IsActive
<1>2. CASE Registers(p) \/ Moves(p)
  <2>1. ~IsActive(p, n)
    BY <1>2 DEF Registers, Moves, ActiveIs, JInv, IInv, AbsentPlotsAreEmpty, IsActive
  <2>2. cycle' = cycle
    BY <1>2 DEF Registers, Moves
  <2> QED
    BY <1>1, <2>1, <2>2 DEF StaysNewest, IsActive
<1>3. ASSUME NEW m \in CycleNos, NEW pl \in Plans, Replans(p, m, pl), q = p
      PROVE  StaysNewest(p, n)
  <2>1. cycle'[p] = [cycle[p] EXCEPT ![m] = [cycle[p][m] EXCEPT !.plan = pl]] /\ IsActive(p, m)
    BY <1>3 DEF Replans
  <2>2. IsActive(p, n)' => IsActive(p, n)
    BY <1>0, <2>1 DEF IsActive
  <2>3. LiveIn(p, n)' = LiveIn(p, n) /\ snapshot'[p] = snapshot[p]
    BY <1>3 DEF Replans, LiveIn, Filed
  <2> QED
    BY <2>2, <2>3 DEF StaysNewest
<1>4. ASSUME NEW m \in CycleNos, NEW r \in Records, Files(p, m, r), q = p
      PROVE  StaysNewest(p, n)
  <2>1. cycle' = cycle /\ IsActive(p, m) /\ snapshot'[p] = r
    BY <1>4 DEF Files
  <2>2. CASE n # m
    BY <2>1, <2>2, OneOpen DEF StaysNewest, IsActive
  <2>3. CASE n = m
    <3>1. r \in LiveIn(p, n)' /\ r \notin LiveIn(p, n)
      BY <1>4, <2>3, NoneAssumption DEF Files, LiveIn, Filed
    <3>2. \A x \in LiveIn(p, n)' : x = r \/ (x \in LiveIn(p, n) /\ record'[x] = record[x])
      BY <1>4 DEF Files, LiveIn, Filed
    <3>3. \A x \in LiveIn(p, n) : record[x].at \in Nat
      BY <1>0 DEF LiveIn, Filed, RecordRow
    <3>4. record'[r].at \in Nat
      BY <1>0 DEF RecordRow
    <3>5. Overtaken(p, n) \/ \A x \in LiveIn(p, n) : record[x].at <= record'[r].at
      BY <3>1, <3>3, <3>4 DEF Overtaken
    <3>6. ASSUME \A x \in LiveIn(p, n) : record[x].at <= record'[r].at
          PROVE  ShowsNewest(p, n)'
      BY <2>1, <3>1, <3>2, <3>4, <3>6 DEF ShowsNewest
    <3> QED
      BY <3>5, <3>6 DEF StaysNewest
  <2> QED
    BY <2>2, <2>3
<1>5. ASSUME NEW m \in 0 .. MaxCycles, NEW r \in Records, NEW s \in Records \cup {None},
             Retracts(p, m, r, s), q = p, IsActive(p, n)
      PROVE  ShowsNewest(p, n)'
  <2>1. ActiveIs(p, m) /\ snapshot'[p] = s
    BY <1>5 DEF Retracts
  <2>2. m = n /\ m # 0
    BY <1>5, <2>1, OneOpen DEF ActiveIs, CycleNos
  <2>3. \A x \in Records : IF x = r THEN record'[x] = [record[x] EXCEPT !.live = FALSE]
                                    ELSE record'[x] = record[x]
    BY <1>5 DEF Retracts
  <2>4. LiveIn(p, n)' = LiveIn(p, n) \ {r} /\ \A x \in LiveIn(p, n)' : record'[x] = record[x]
    BY <1>0, <2>3 DEF LiveIn, Filed, RecordRow
  <2>5. NewestIs(LiveIn(p, n) \ {r}, s)
    BY <1>5, <2>2 DEF Retracts
  <2> QED
    BY <2>1, <2>4, <2>5 DEF ShowsNewest, NewestIs
<1>6. ASSUME NEW m \in 0 .. MaxCycles, NEW r \in Records, NEW s \in Records \cup {None},
             Retracts(p, m, r, s), q = p
      PROVE  StaysNewest(p, n)
  <2>1. cycle' = cycle
    BY <1>6 DEF Retracts
  <2> QED
    BY <1>5, <1>6, <2>1 DEF StaysNewest, IsActive
<1> QED
  BY <1>1, <1>2, <1>3, <1>4, <1>6, FreshAfter DEF Effect

-----------------------------------------------------------------------------
(* What a closed season keeps *)

\* The inspection frozen at a close is the cycle's last word.
KeepsLastWord(p, n) ==
    cycle[p][n].status \in ClosedStatuses =>
        LET f == cycle[p][n].final IN
        IF f = None THEN LiveIn(p, n) = {}
        ELSE f \in Filed(p, n) /\ \A r \in LiveIn(p, n) : record[r].at <= record[f].at

\* Every step leaves a closed cycle its last word, and gives one to a cycle it closes.
LEMMA LastWordAfter ==
  ASSUME JInv, [Next]_vars, NEW p \in Plots, NEW n \in CycleNos, KeepsLastWord(p, n)
  PROVE  KeepsLastWord(p, n)'
<1> SUFFICES ASSUME cycle'[p][n].status \in ClosedStatuses
             PROVE  IF cycle'[p][n].final = None THEN LiveIn(p, n)' = {}
                    ELSE /\ cycle'[p][n].final \in Filed(p, n)'
                         /\ \A r \in LiveIn(p, n)' :
                               record'[r].at <= record'[cycle'[p][n].final].at
  BY DEF KeepsLastWord
<1>1. CASE cycle[p][n].status \in ClosedStatuses
  <2>1. cycle'[p][n] = cycle[p][n] /\ ~IsActive(p, n)
    BY <1>1, ClosedStays DEF IsActive, ClosedStatuses
  <2>2. LiveIn(p, n)' \subseteq LiveIn(p, n) /\ Filed(p, n) \subseteq Filed(p, n)'
    BY <2>1, FilingsAfter
  <2>3. \A r \in Filed(p, n) : record'[r].at = record[r].at
    BY FilingsAfter
  <2>4. LiveIn(p, n) \subseteq Filed(p, n)
    BY DEF LiveIn
  <2> QED
    BY <1>1, <2>1, <2>2, <2>3, <2>4 DEF KeepsLastWord
<1>2. CASE cycle[p][n].status \notin ClosedStatuses
  <2>1. cycle[p][n] \in CycleRow
    BY DEF JInv, IInv, TypeOK
  <2>2. ~Still
    BY <1>2 DEF Still
  <2>3. RowAfter(p, n)
    BY <2>2, StepEffects, RowsAfter
  <2>4. PICK s \in ClosedStatuses, f \in Records \cup {None}, h \in Records \cup {None, ByHand} :
          ClosesWell(p, n, s, f, h) /\ record' = record
    BY <1>2, <2>1, <2>3 DEF RowAfter, OpenCycle, UnusedCycle, CycleRow, ClosedStatuses
  <2>5. cycle'[p][n].final = f /\ NewestIs(LiveIn(p, n), f)
    BY <2>1, <2>4 DEF ClosesWell, ClosedRow, CycleRow
  <2>6. LiveIn(p, n)' = LiveIn(p, n) /\ Filed(p, n)' = Filed(p, n)
    BY <2>4 DEF LiveIn, Filed
  <2>7. None \notin Records
    BY NoneAssumption
  <2> QED
    BY <2>4, <2>5, <2>6, <2>7 DEF NewestIs, LiveIn, Filed
<1> QED
  BY <1>1, <1>2

\* An open season advertises its own plan and a live inspection of its own, the newest but
\* for one whose request overtook that of another on the way to the lock; and what a closed
\* season keeps as its last word is the newest it had (plot_repository.
\* sync_plot_mirror_from_cycle, sync_current_status_from_record,
\* resync_current_status_from_latest, close_cycle), whatever requests interleave.
THEOREM SeasonsTheirOwn == Spec => SeasonsTellTheirOwn
<1> DEFINE Tells == \A p \in Plots, n \in CycleNos : Advertises(p, n) /\ KeepsLastWord(p, n)
<1>1. Init => Tells
  BY DEF Init, UnusedCycle, Advertises, KeepsLastWord, IsActive, ClosedStatuses
<1>2. JInv /\ Tells /\ [Next]_vars => Tells'
  <2> SUFFICES ASSUME JInv, Tells, [Next]_vars, NEW p \in Plots, NEW n \in CycleNos
               PROVE  Advertises(p, n)' /\ KeepsLastWord(p, n)'
    OBVIOUS
  <2>1. CASE Still
    <3>1. IsActive(p, n)' = IsActive(p, n) /\ LiveIn(p, n)' = LiveIn(p, n)
      BY <2>1 DEF Still, IsActive, LiveIn, Filed
    <3>2. Advertises(p, n)'
      BY <2>1, <3>1 DEF Still, Advertises
    <3> QED
      BY <3>2, LastWordAfter
  <2>2. ASSUME NEW q \in Plots, Effect(q) PROVE Advertises(p, n)'
    BY <2>2, AdvertisesAfter
  <2> QED
    BY <2>1, <2>2, StepEffects, LastWordAfter
<1>3. Tells => AdvertisesActiveCycle /\ FinalEstimateIsLastWord
  BY DEF AdvertisesActiveCycle, FinalEstimateIsLastWord, Advertises, KeepsLastWord
<1>4. ASSUME JInv, [Next]_vars, NEW p \in Plots, NEW n \in CycleNos
      PROVE  StaysNewest(p, n)
  <2>1. TypeOK'
    BY <1>4, NextIInv DEF JInv, IInv
  <2>2. CASE Still
    <3>1. LiveIn(p, n)' = LiveIn(p, n)
      BY <2>2 DEF Still, LiveIn, Filed
    <3> QED
      BY <2>2, <3>1 DEF Still, StaysNewest, IsActive
  <2>3. ASSUME NEW q \in Plots, Effect(q) PROVE StaysNewest(p, n)
    BY <1>4, <2>1, <2>3, NewestAfter
  <2> QED
    BY <1>4, <2>2, <2>3, StepEffects
<1>5. JInv /\ [Next]_vars =>
        [\A p \in Plots, n \in CycleNos : IsActive(p, n)' =>
            \/ ShowsNewest(p, n)'
            \/ \E r \in LiveIn(p, n)' \ LiveIn(p, n), x \in LiveIn(p, n) :
                  record'[r].at < record[x].at
            \/ IsActive(p, n) /\ UNCHANGED <<LiveIn(p, n), snapshot[p]>>]_vars
  BY <1>4 DEF StaysNewest, Overtaken
<1> QED
  BY <1>1, <1>2, <1>3, <1>5, Seasonal, PTL DEF Spec, SeasonsTellTheirOwn, NewestUnlessOvertaken

-----------------------------------------------------------------------------
(* Whose harvest figures a season has *)

\* A cycle's harvest figures come from its own reports, once it is harvested.
HasItsOwnHarvest(p, n) ==
    LET h == cycle[p][n].harvest IN
    /\ h # None => cycle[p][n].status = "harvested"
    /\ h \in Records =>
          /\ h \in Filed(p, n)
          /\ "kg" \in record[h].report
          /\ \A r \in LiveIn(p, n) :
                /\ "clean" \in record[r].report =>
                      "clean" \in record[h].report /\ record[r].at <= record[h].at
                /\ "kg" \in record[r].report =>
                      "clean" \in record[h].report \/ record[r].at <= record[h].at

\* Every step keeps a cycle's harvest its own.
LEMMA HarvestAfter ==
  ASSUME JInv, [Next]_vars, NEW p \in Plots, NEW n \in CycleNos, HasItsOwnHarvest(p, n)
  PROVE  HasItsOwnHarvest(p, n)'
<1>0. cycle[p][n] \in CycleRow
  BY DEF JInv, IInv, TypeOK
<1> DEFINE Sourced(h) == /\ h \in Filed(p, n)
                         /\ "kg" \in record[h].report
                         /\ \A r \in LiveIn(p, n) :
                               /\ "clean" \in record[r].report =>
                                     /\ "clean" \in record[h].report
                                     /\ record[r].at <= record[h].at
                               /\ "kg" \in record[r].report =>
                                     \/ "clean" \in record[h].report
                                     \/ record[r].at <= record[h].at
<1>1. CASE cycle'[p][n] = cycle[p][n]
  <2> SUFFICES ASSUME NEW h \in Records, h = cycle[p][n].harvest
               PROVE  Sourced(h)'
    BY <1>1 DEF HasItsOwnHarvest
  <2>1. Sourced(h) /\ ~IsActive(p, n)
    BY NoneAssumption DEF HasItsOwnHarvest, IsActive
  <2>2. LiveIn(p, n)' \subseteq LiveIn(p, n) /\ Filed(p, n) \subseteq Filed(p, n)'
    BY <2>1, FilingsAfter
  <2>3. \A r \in Filed(p, n) : record'[r].at = record[r].at /\ record'[r].report = record[r].report
    BY FilingsAfter
  <2>4. LiveIn(p, n) \subseteq Filed(p, n)
    BY DEF LiveIn
  <2> QED
    BY <2>1, <2>2, <2>3, <2>4
<1>2. CASE \E pl \in Plans : cycle'[p][n] = OpenCycle(pl)
  BY <1>2, NoneAssumption DEF OpenCycle, UnusedCycle, HasItsOwnHarvest
<1>3. CASE IsActive(p, n) /\ \E pl \in Plans : cycle'[p][n] = [cycle[p][n] EXCEPT !.plan = pl]
  <2>1. cycle'[p][n].harvest = cycle[p][n].harvest /\ cycle[p][n].harvest = None
    BY <1>0, <1>3 DEF CycleRow, IsActive, HasItsOwnHarvest
  <2> QED
    BY <2>1, NoneAssumption DEF HasItsOwnHarvest
<1>4. ASSUME NEW s \in ClosedStatuses, NEW f \in Records \cup {None},
             NEW h \in Records \cup {None, ByHand}, ClosesWell(p, n, s, f, h), record' = record
      PROVE  HasItsOwnHarvest(p, n)'
  <2>1. cycle'[p][n].harvest = h /\ cycle'[p][n].status = s
    BY <1>0, <1>4 DEF ClosesWell, ClosedRow, CycleRow
  <2>2. ASSUME h \in Records PROVE Sourced(h)
    <3>1. HarvestIs(p, n, h)
      BY <1>4, <2>2, NoneAssumption DEF ClosesWell
    <3>2. HarvestSourceIs(p, n, h) /\ CarriedFigures(h) # {}
      BY <2>2, <3>1, NoneAssumption DEF HarvestIs
    <3>3. "kg" \in record[h].report
      BY <3>2 DEF CarriedFigures
    <3> DEFINE clean == {r \in LiveIn(p, n) : "clean" \in record[r].report}
               kg == {r \in LiveIn(p, n) : "kg" \in record[r].report}
    <3>4. NewestIs(IF clean # {} THEN clean ELSE kg, h)
      BY <3>2 DEF HarvestSourceIs
    <3>5. h \in LiveIn(p, n)
      BY <2>2, <3>4, NoneAssumption DEF NewestIs
    <3>6. CASE clean # {}
      BY <3>3, <3>4, <3>5, <3>6 DEF NewestIs, LiveIn
    <3>7. CASE clean = {}
      BY <3>3, <3>4, <3>5, <3>7 DEF NewestIs, LiveIn
    <3> QED
      BY <3>6, <3>7
  <2>3. Sourced(h)' = Sourced(h)
    BY <1>4 DEF LiveIn, Filed
  <2> QED
    BY <1>4, <2>1, <2>2, <2>3 DEF HasItsOwnHarvest, ClosesWell
<1>5. CASE Still
  BY <1>1, <1>5 DEF Still
<1>6. CASE RowAfter(p, n)
  BY <1>1, <1>2, <1>3, <1>4, <1>6 DEF RowAfter
<1> QED
  BY <1>5, <1>6, StepEffects, RowsAfter

\* A plot with no open cycle advertises nothing.
LiesFallow(p) == ActiveIs(p, 0) => mirror[p] = None /\ snapshot[p] = None

\* Every step of a deployment without final_plot imports keeps fallow plots bare.
LEMMA FallowAfter ==
  ASSUME JInv, "finalImport" \notin Operations, NEW p \in Plots, Effect(p),
         NEW q \in Plots, LiesFallow(q)
  PROVE  LiesFallow(q)'
<1>0. cycle[p] \in [CycleNos -> CycleRow]
  BY DEF JInv, IInv, TypeOK
<1>1. CASE q # p
  BY <1>1 DEF Effect, ElsewhereSame, LiesFallow, ActiveIs, IsActive
<1>2. CASE q = p /\ (Registers(p) \/ Moves(p))
  BY <1>2 DEF Registers, Moves, LiesFallow, ActiveIs, IsActive
<1>3. ASSUME NEW n \in CycleNos, cycle'[p][n].status = "active", q = p PROVE LiesFallow(q)'
  BY <1>3 DEF LiesFallow, ActiveIs, IsActive
<1>4. ASSUME NEW n \in CycleNos, NEW pl \in Plans, Opens(p, n, pl) PROVE cycle'[p][n].status = "active"
  BY <1>0, <1>4 DEF Opens, OpenCycle, UnusedCycle
<1>5. ASSUME NEW n \in CycleNos, NEW pl \in Plans, Replans(p, n, pl) PROVE cycle'[p][n].status = "active"
  BY <1>0, <1>5 DEF Replans, CycleRow, IsActive
<1>6. ASSUME NEW n \in CycleNos, NEW m \in CycleNos, NEW s \in ClosedStatuses,
             NEW f \in Records \cup {None}, NEW pl \in Plans, Turns(p, n, m, s, f, pl)
      PROVE  cycle'[p][m].status = "active"
  BY <1>0, <1>6 DEF Turns, OpenCycle, UnusedCycle
<1>7. ASSUME NEW n \in CycleNos, NEW s, NEW f, NEW h, Ends(p, n, s, f, h), q = p
      PROVE  LiesFallow(q)'
  BY <1>7 DEF Ends, LiesFallow
<1>8. ASSUME NEW n \in CycleNos, NEW r \in Records, Files(p, n, r) PROVE cycle'[p][n].status = "active"
  BY <1>8 DEF Files, IsActive
<1>9. ASSUME NEW n \in 0 .. MaxCycles, NEW r \in Records, NEW s \in Records \cup {None},
             Retracts(p, n, r, s), q = p
      PROVE  LiesFallow(q)'
  <2>1. CASE n = 0
    BY <1>9, <2>1 DEF Retracts, LiesFallow, NewestIs, ActiveIs, IsActive
  <2>2. CASE n # 0
    BY <1>3, <1>9, <2>2 DEF Retracts, ActiveIs, IsActive
  <2> QED
    BY <2>1, <2>2
<1> QED
  BY <1>1, <1>2, <1>3, <1>4, <1>5, <1>6, <1>7, <1>8, <1>9 DEF Effect

\* Harvest figures stand on a harvested cycle only, and those carried over are from the
\* reports of that very cycle, in the order of preference of
\* record_repository.get_harvest_source_record.
THEOREM HarvestIsItsOwn == Spec => []HarvestComesFromItsSeason
<1> DEFINE Own == \A p \in Plots, n \in CycleNos : HasItsOwnHarvest(p, n)
<1>1. Init => Own
  BY NoneAssumption DEF Init, UnusedCycle, HasItsOwnHarvest
<1>2. JInv /\ Own /\ [Next]_vars => Own'
  BY HarvestAfter
<1>3. Own => HarvestComesFromItsSeason
  BY DEF HarvestComesFromItsSeason, HasItsOwnHarvest
<1> QED
  BY <1>1, <1>2, <1>3, Seasonal, PTL DEF Spec

\* Where no final_plot import is served, a plot between seasons advertises nothing either.
\* (With that import the second half fails: its branch writes neither mirror nor snapshot,
\* as the lifecycle_import run shows.)
THEOREM SeasonsHarvest ==
  ASSUME "finalImport" \notin Operations
  PROVE  Spec => []SeasonsOwnTheirHarvest
<1> DEFINE Bare == \A p \in Plots : LiesFallow(p)
<1>1. Init => Bare
  BY DEF Init, LiesFallow
<1>2. JInv /\ Bare /\ [Next]_vars => Bare'
  <2> SUFFICES ASSUME JInv, Bare, [Next]_vars, NEW p \in Plots PROVE LiesFallow(p)'
    OBVIOUS
  <2>1. CASE Still
    BY <2>1 DEF Still, LiesFallow, ActiveIs, IsActive
  <2> QED
    BY <2>1, StepEffects, FallowAfter
<1>3. Bare /\ HarvestComesFromItsSeason => SeasonsOwnTheirHarvest
  BY DEF SeasonsOwnTheirHarvest, FallowAdvertisesNothing, LiesFallow
<1> QED
  BY <1>1, <1>2, <1>3, HarvestIsItsOwn, Seasonal, PTL DEF Spec

-----------------------------------------------------------------------------
(* The API is a ledger of seasons *)

\* The ledger that the tables stand for, as ImplementsLedger reads it.
LedgerPhase == [p \in Plots |->
                  IF standing[p] = "absent" THEN "absent"
                  ELSE IF standing[p] = "closed" THEN "retired"
                  ELSE IF ActiveIs(p, 0) THEN "fallow" ELSE "growing"]
LedgerSeason == [p \in Plots |-> Cardinality({n \in CycleNos : cycle[p][n].status # "unused"})]
LedgerEnding == [p \in Plots |-> [n \in CycleNos |->
                  IF cycle[p][n].status \in ClosedStatuses THEN cycle[p][n].status ELSE "none"]]
LedgerEntries == [p \in Plots |-> [n \in CycleNos |-> Filed(p, n)]]

\* The ledger's season number is that of the newest cycle, the only one that may be open.
LEMMA SeasonIs ==
  ASSUME JInv, NEW p \in Plots
  PROVE  /\ LedgerSeason[p] \in 0 .. MaxCycles
         /\ Used(p) = 1 .. LedgerSeason[p]
         /\ \A n \in CycleNos : IsActive(p, n) => n = LedgerSeason[p]
         /\ \A n \in CycleNos : IsNextCycleNo(p, n) => n = LedgerSeason[p] + 1
<1> USE BoundsAssumption
<1>1. PICK k \in 0 .. MaxCycles : Used(p) = 1 .. k
  BY DEF JInv, NumberedInTurn
<1>2. Cardinality(1 .. k) = k
  BY FS_Interval
<1>3. LedgerSeason[p] = k
  BY <1>1, <1>2 DEF LedgerSeason, Used
<1>4. ASSUME NEW n \in CycleNos, IsActive(p, n) PROVE n = k
  <2>1. n \in 1 .. k
    BY <1>1, <1>4 DEF Used, IsActive
  <2>2. k \in CycleNos /\ cycle[p][k].status # "unused"
    <3>1. k \in Used(p)
      BY <1>1, <2>1
    <3> QED
      BY <3>1 DEF Used
  <2>3. ~(k > n)
    BY <1>4, <2>2 DEF JInv, IInv, ClosedPlotsAreDormant, DormantAt
  <2> QED
    BY <2>1, <2>3
<1>5. \A n \in CycleNos : IsNextCycleNo(p, n) => n = k + 1
  BY <1>1, NextFollows
<1> QED
  BY <1>1, <1>3, <1>4, <1>5

\* An effect on one plot leaves the other plots' entries alone.
LEMMA OthersFiled ==
  ASSUME JInv, NEW p \in Plots, Effect(p), NEW q \in Plots \ {p}, NEW n \in CycleNos
  PROVE  Filed(q, n)' = Filed(q, n)
<1>0. \A r \in Records : record[r] \in RecordRow
  BY DEF JInv, IInv, TypeOK
<1>1. ASSUME NEW r \in Records
      PROVE  \/ record'[r].plot = record[r].plot /\ record'[r].cycle = record[r].cycle
             \/ record[r].plot = None /\ record'[r].plot = p
  BY <1>0, RecordsAfter DEF RecordRow
<1> QED
  BY <1>1, NoneAssumption DEF Filed

\* An effect on one plot changes the ledger at that plot only.
LEMMA LedgerElsewhere ==
  ASSUME JInv, NEW p \in Plots, Effect(p)
  PROVE  /\ LedgerPhase' = [LedgerPhase EXCEPT ![p] = LedgerPhase'[p]]
         /\ LedgerSeason' = [LedgerSeason EXCEPT ![p] = LedgerSeason'[p]]
         /\ LedgerEnding' = [LedgerEnding EXCEPT ![p] = LedgerEnding'[p]]
         /\ LedgerEntries' = [LedgerEntries EXCEPT ![p] = LedgerEntries'[p]]
<1>1. ASSUME NEW q \in Plots \ {p}
      PROVE  /\ LedgerPhase'[q] = LedgerPhase[q] /\ LedgerSeason'[q] = LedgerSeason[q]
             /\ LedgerEnding'[q] = LedgerEnding[q] /\ LedgerEntries'[q] = LedgerEntries[q]
  <2>1. standing'[q] = standing[q] /\ cycle'[q] = cycle[q]
    BY DEF Effect, ElsewhereSame
  <2>2. ActiveIs(q, 0)' = ActiveIs(q, 0)
    BY <2>1 DEF ActiveIs, IsActive
  <2>3. LedgerEntries'[q] = LedgerEntries[q]
    BY OthersFiled DEF LedgerEntries
  <2> QED
    BY <2>1, <2>2, <2>3 DEF LedgerPhase, LedgerSeason, LedgerEnding
<1>2. /\ LedgerPhase = [q \in Plots |-> LedgerPhase[q]]
      /\ LedgerSeason = [q \in Plots |-> LedgerSeason[q]]
      /\ LedgerEnding = [q \in Plots |-> LedgerEnding[q]]
      /\ LedgerEntries = [q \in Plots |-> LedgerEntries[q]]
  BY DEF LedgerPhase, LedgerSeason, LedgerEnding, LedgerEntries
<1>3. /\ LedgerPhase' = [q \in Plots |-> LedgerPhase'[q]]
      /\ LedgerSeason' = [q \in Plots |-> LedgerSeason'[q]]
      /\ LedgerEnding' = [q \in Plots |-> LedgerEnding'[q]]
      /\ LedgerEntries' = [q \in Plots |-> LedgerEntries'[q]]
  BY DEF LedgerPhase, LedgerSeason, LedgerEnding, LedgerEntries
<1> QED
  BY <1>1, <1>2, <1>3

\* After the open cycle has ended without another opening, none is open.
LEMMA NoneOpenAfter ==
  ASSUME JInv, NEW p \in Plots, NEW m \in CycleNos, NEW s \in ClosedStatuses, NEW f, NEW h,
         IsActive(p, m), cycle'[p] = [cycle[p] EXCEPT ![m] = ClosedRow(p, m, s, f, h)]
  PROVE  ActiveIs(p, 0)' /\ cycle'[p][m].status = s
<1>0. cycle[p] \in [CycleNos -> CycleRow]
  BY DEF JInv, IInv, TypeOK
<1>1. cycle'[p][m].status = s /\ s # "active"
  BY <1>0 DEF ClosedRow, CycleRow, ClosedStatuses
<1>2. \A n \in CycleNos \ {m} : cycle'[p][n].status # "active"
  BY <1>0, OneOpen DEF IsActive
<1> QED
  BY <1>1, <1>2 DEF ActiveIs, IsActive

\* An open cycle's plot is growing.
LEMMA OpenIsGrowing ==
  ASSUME JInv, NEW p \in Plots, NEW n \in CycleNos, IsActive(p, n)
  PROVE  LedgerPhase[p] = "growing" /\ n = LedgerSeason[p]
<1>1. standing[p] = "open" /\ ~ActiveIs(p, 0)
  BY DEF JInv, IInv, ClosedPlotsAreDormant, DormantAt, ActiveIs
<1> QED
  BY <1>1, SeasonIs DEF LedgerPhase

\* The ledger at first.
LEMMA InitLedger == Init => Ledger!Init
<1> SUFFICES ASSUME Init PROVE Ledger!Init
  OBVIOUS
<1>1. \A p \in Plots : {n \in CycleNos : cycle[p][n].status # "unused"} = {}
  BY DEF Init, UnusedCycle
<1>2. LedgerSeason = [p \in Plots |-> 0]
  BY <1>1, FS_EmptySet DEF LedgerSeason
<1>3. LedgerPhase = [p \in Plots |-> "absent"]
  BY DEF Init, LedgerPhase
<1>4. LedgerEnding = [p \in Plots |-> [n \in CycleNos |-> "none"]]
  BY DEF Init, UnusedCycle, ClosedStatuses, LedgerEnding
<1>5. \A p \in Plots, n \in CycleNos : Filed(p, n) = {}
  BY NoneAssumption DEF Init, NoRecord, Filed
<1>6. LedgerEntries = [p \in Plots |-> [n \in CycleNos |-> {}]]
  BY <1>5 DEF LedgerEntries
<1> QED
  BY <1>2, <1>3, <1>4, <1>6
     DEF Ledger!Init, Ledger!Seasons, LedgerSeason, LedgerPhase, LedgerEnding, LedgerEntries, CycleNos

\* A retraction, or a step that leaves plot p's cycles and filings, leaves them in the ledger.
LEMMA SameRows ==
  ASSUME JInv, NEW p \in Plots, cycle'[p] = cycle[p], standing'[p] = standing[p]
  PROVE  /\ LedgerPhase'[p] = LedgerPhase[p] /\ LedgerSeason'[p] = LedgerSeason[p]
         /\ LedgerEnding'[p] = LedgerEnding[p]
<1>1. ActiveIs(p, 0)' = ActiveIs(p, 0)
  BY DEF ActiveIs, IsActive
<1> QED
  BY <1>1 DEF LedgerPhase, LedgerSeason, LedgerEnding

\* Without a new record the ledger's entries stay as they are.
LEMMA SameEntries ==
  ASSUME record' = record, NEW p \in Plots
  PROVE  LedgerEntries'[p] = LedgerEntries[p]
BY DEF LedgerEntries, Filed

\* The ledger's season number follows the set of cycles in use.
LEMMA SeasonAfter ==
  ASSUME JInv, JInv', NEW p \in Plots
  PROVE  /\ Used(p)' = Used(p) => LedgerSeason'[p] = LedgerSeason[p]
         /\ \A n \in CycleNos : IsNextCycleNo(p, n) /\ Used(p)' = Used(p) \cup {n} =>
               LedgerSeason'[p] = LedgerSeason[p] + 1 /\ LedgerSeason[p] < MaxCycles
<1> USE BoundsAssumption
<1>1. LedgerSeason[p] = Cardinality(Used(p)) /\ LedgerSeason'[p] = Cardinality(Used(p)')
  BY DEF LedgerSeason, Used
<1>2. ASSUME NEW n \in CycleNos, IsNextCycleNo(p, n), Used(p)' = Used(p) \cup {n}
      PROVE  LedgerSeason'[p] = LedgerSeason[p] + 1 /\ LedgerSeason[p] < MaxCycles
  <2>1. PICK k \in 0 .. MaxCycles : k = LedgerSeason[p] /\ Used(p) = 1 .. k /\ n = k + 1
    BY <1>2, SeasonIs
  <2>2. Used(p)' = 1 .. k + 1 /\ k + 1 <= MaxCycles
    BY <1>2, <2>1 DEF CycleNos
  <2>3. Cardinality(1 .. k + 1) = k + 1
    BY FS_Interval
  <2>4. LedgerSeason'[p] = k + 1
    BY <1>1, <2>2, <2>3
  <2> QED
    BY <2>1, <2>2, <2>4
<1> QED
  BY <1>1, <1>2

\* The ending of a season appears in the ledger when its row is stamped.
LEMMA EndingAfter ==
  ASSUME JInv, NEW p \in Plots, NEW n \in CycleNos, NEW s \in ClosedStatuses,
         cycle'[p][n].status = s,
         \A m \in CycleNos \ {n} :
            IF cycle[p][m].status \in ClosedStatuses
            THEN cycle'[p][m].status = cycle[p][m].status
            ELSE cycle'[p][m].status \notin ClosedStatuses
  PROVE  LedgerEnding'[p] = [LedgerEnding[p] EXCEPT ![n] = s]
BY DEF LedgerEnding

\* Each effect is one step of the ledger, or nothing to it.
LEMMA EffectIsLedgerStep ==
  ASSUME JInv, JInv', NEW p \in Plots, Effect(p)
  PROVE  [Ledger!Next]_(Ledger!ledger)
<1>0. cycle[p] \in [CycleNos -> CycleRow] /\ \A r \in Records : record[r] \in RecordRow
  BY DEF JInv, IInv, TypeOK
<1>p. ASSUME LedgerPhase'[p] = LedgerPhase[p] PROVE LedgerPhase' = LedgerPhase
  <2>1. LedgerPhase = [q \in Plots |-> LedgerPhase[q]]
    BY DEF LedgerPhase
  <2>2. LedgerPhase' = [LedgerPhase EXCEPT ![p] = LedgerPhase[p]]
    BY <1>p, LedgerElsewhere
  <2> QED
    BY <2>1, <2>2
<1>s. ASSUME LedgerSeason'[p] = LedgerSeason[p] PROVE LedgerSeason' = LedgerSeason
  BY <1>s, LedgerElsewhere DEF LedgerSeason
<1>e. ASSUME LedgerEnding'[p] = LedgerEnding[p] PROVE LedgerEnding' = LedgerEnding
  BY <1>e, LedgerElsewhere DEF LedgerEnding
<1>f. ASSUME LedgerEntries'[p] = LedgerEntries[p] PROVE LedgerEntries' = LedgerEntries
  BY <1>f, LedgerElsewhere DEF LedgerEntries
<1>m. ASSUME NEW from, NEW to, LedgerPhase[p] = from, LedgerPhase'[p] = to,
             UNCHANGED <<cycle, record>>
      PROVE  Ledger!Move(p, from, to)
  <2>1. UNCHANGED <<LedgerSeason, LedgerEnding, LedgerEntries>>
    BY <1>m DEF LedgerSeason, LedgerEnding, LedgerEntries, Filed
  <2>2. LedgerPhase' = [LedgerPhase EXCEPT ![p] = to]
    BY <1>m, LedgerElsewhere
  <2> QED
    BY <1>m, <2>1, <2>2 DEF Ledger!Move, LedgerPhase, LedgerSeason, LedgerEnding, LedgerEntries
<1>1. CASE Registers(p)
  <2>1. ActiveIs(p, 0)'
    BY <1>1 DEF Registers, ActiveIs, IsActive, JInv, IInv, AbsentPlotsAreEmpty
  <2>2. LedgerPhase[p] = "absent" /\ LedgerPhase'[p] = "fallow"
    BY <1>1, <2>1 DEF Registers, LedgerPhase
  <2>3. Ledger!Move(p, "absent", "fallow")
    BY <1>1, <1>m, <2>2 DEF Registers
  <2> QED
    BY <2>3 DEF Ledger!Register, Ledger!Next
<1>2. CASE Moves(p)
  <2>1. ActiveIs(p, 0)' /\ ActiveIs(p, 0)
    BY <1>2 DEF Moves, ActiveIs, IsActive
  <2>2. LedgerPhase[p] \in {"fallow", "retired"} /\ LedgerPhase'[p] \in {"fallow", "retired"}
    BY <1>2, <2>1 DEF Moves, LedgerPhase
  <2>3. CASE LedgerPhase'[p] = LedgerPhase[p]
    <3>1. UNCHANGED <<LedgerPhase, LedgerSeason, LedgerEnding, LedgerEntries>>
      BY <1>2, <1>p, <2>3 DEF Moves, LedgerSeason, LedgerEnding, LedgerEntries, Filed
    <3> QED
      BY <3>1 DEF Ledger!ledger, LedgerPhase, LedgerSeason, LedgerEnding, LedgerEntries
  <2>4. CASE LedgerPhase[p] = "fallow" /\ LedgerPhase'[p] = "retired"
    <3>1. Ledger!Move(p, "fallow", "retired")
      BY <1>2, <1>m, <2>4 DEF Moves
    <3> QED
      BY <3>1 DEF Ledger!Retire, Ledger!Next
  <2>5. CASE LedgerPhase[p] = "retired" /\ LedgerPhase'[p] = "fallow"
    <3>1. Ledger!Move(p, "retired", "fallow")
      BY <1>2, <1>m, <2>5 DEF Moves
    <3> QED
      BY <3>1 DEF Ledger!Restore, Ledger!Next
  <2> QED
    BY <2>2, <2>3, <2>4, <2>5
<1>3. ASSUME NEW n \in CycleNos, NEW pl \in Plans, Opens(p, n, pl)
      PROVE  Ledger!Sow(p)
  <2>1. LedgerPhase[p] \in {"absent", "fallow", "retired"}
    BY <1>3 DEF Opens, LedgerPhase
  <2>2. cycle'[p] = [cycle[p] EXCEPT ![n] = OpenCycle(pl)]
    BY <1>3 DEF Opens
  <2>3. cycle'[p][n].status = "active" /\ standing'[p] = "open"
    BY <1>0, <1>3, <2>2 DEF Opens, OpenCycle, UnusedCycle
  <2>4. LedgerPhase'[p] = "growing"
    BY <2>3 DEF LedgerPhase, ActiveIs, IsActive
  <2>5. Used(p)' = Used(p) \cup {n} /\ IsNextCycleNo(p, n)
    BY <1>0, <1>3, <2>2, <2>3 DEF Opens, Used
  <2>6. LedgerSeason'[p] = LedgerSeason[p] + 1 /\ LedgerSeason[p] < MaxCycles
    BY <2>5, SeasonAfter
  <2>7. cycle[p][n].status = "unused"
    BY <1>3, NextIsFree DEF Opens
  <2>8. LedgerEnding'[p] = LedgerEnding[p]
    <3>1. \A m \in CycleNos : IF m = n THEN cycle'[p][m].status \notin ClosedStatuses
                                            /\ cycle[p][m].status \notin ClosedStatuses
                                       ELSE cycle'[p][m] = cycle[p][m]
      BY <1>0, <2>2, <2>3, <2>7 DEF ClosedStatuses
    <3> QED
      BY <3>1 DEF LedgerEnding
  <2>9. record' = record
    BY <1>3 DEF Opens
  <2>10. LedgerEntries'[p] = LedgerEntries[p]
    BY <2>9, SameEntries
  <2>11. /\ LedgerPhase' = [LedgerPhase EXCEPT ![p] = "growing"]
         /\ LedgerSeason' = [LedgerSeason EXCEPT ![p] = LedgerSeason[p] + 1]
         /\ UNCHANGED <<LedgerEnding, LedgerEntries>>
    BY <1>e, <1>f, <2>4, <2>6, <2>8, <2>10, LedgerElsewhere
  <2> QED
    BY <2>1, <2>6, <2>11 DEF Ledger!Sow, LedgerPhase, LedgerSeason, LedgerEnding, LedgerEntries
<1>4. ASSUME NEW n \in CycleNos, NEW s \in ClosedStatuses, NEW f \in Records \cup {None},
             NEW h \in Records \cup {None, ByHand}, Ends(p, n, s, f, h)
      PROVE  \E next \in {"fallow", "retired"} : Ledger!End(p, s, next)
  <2>1. cycle'[p] = [cycle[p] EXCEPT ![n] = ClosedRow(p, n, s, f, h)] /\ IsActive(p, n)
        /\ record' = record /\ standing'[p] \in {"open", "closed"}
    BY <1>4 DEF Ends
  <2>2. LedgerPhase[p] = "growing" /\ n = LedgerSeason[p]
    BY <2>1, OpenIsGrowing
  <2>3. ActiveIs(p, 0)' /\ cycle'[p][n].status = s
    BY <2>1, NoneOpenAfter
  <2>4. LedgerPhase'[p] \in {"fallow", "retired"}
    BY <2>1, <2>3 DEF LedgerPhase
  <2>5. Used(p)' = Used(p)
    BY <1>0, <2>1, <2>3 DEF Used, IsActive, ClosedStatuses
  <2>6. LedgerSeason'[p] = LedgerSeason[p]
    BY <2>5, SeasonAfter
  <2>7. \A m \in CycleNos \ {n} : cycle'[p][m] = cycle[p][m]
    BY <1>0, <2>1
  <2>8. LedgerEnding'[p] = [LedgerEnding[p] EXCEPT ![n] = s]
    BY <2>3, <2>7, EndingAfter
  <2>9. LedgerEntries'[p] = LedgerEntries[p]
    BY <2>1, SameEntries
  <2>10. LedgerEnding' = [LedgerEnding EXCEPT ![p][LedgerSeason[p]] = s]
    BY <2>2, <2>8, LedgerElsewhere
  <2>11. LedgerPhase' = [LedgerPhase EXCEPT ![p] = LedgerPhase'[p]]
         /\ UNCHANGED <<LedgerSeason, LedgerEntries>>
    BY <1>s, <1>f, <2>6, <2>9, LedgerElsewhere
  <2>12. PICK next \in {"fallow", "retired"} : LedgerPhase' = [LedgerPhase EXCEPT ![p] = next]
    BY <2>4, <2>11
  <2>13. Ledger!End(p, s, next)
    BY <2>2, <2>10, <2>11, <2>12 DEF Ledger!End, LedgerPhase, LedgerSeason, LedgerEnding, LedgerEntries
  <2> QED
    BY <2>13
<1>5. ASSUME NEW n \in CycleNos, NEW m \in CycleNos, NEW s \in ClosedStatuses,
             NEW f \in Records \cup {None}, NEW pl \in Plans, Turns(p, n, m, s, f, pl)
      PROVE  Ledger!Turn(p, s)
  <2>1. /\ cycle'[p] = [cycle[p] EXCEPT ![n] = ClosedRow(p, n, s, f, None), ![m] = OpenCycle(pl)]
        /\ IsActive(p, n) /\ IsNextCycleNo(p, m) /\ record' = record /\ standing' = standing
    BY <1>5 DEF Turns
  <2>2. LedgerPhase[p] = "growing" /\ n = LedgerSeason[p]
    BY <2>1, OpenIsGrowing
  <2>3. cycle[p][m].status = "unused" /\ m # n
    BY <2>1, NextIsFree DEF IsActive
  <2>4. cycle'[p][n].status = s
    <3>1. cycle'[p][n] = ClosedRow(p, n, s, f, None)
      BY <1>0, <2>1, <2>3
    <3>2. cycle[p][n] \in CycleRow
      BY <1>0
    <3> QED
      BY <3>1, <3>2 DEF ClosedRow, CycleRow
  <2>5. cycle'[p][m].status = "active"
    BY <1>0, <2>1 DEF OpenCycle, UnusedCycle
  <2>6. \A x \in CycleNos \ {n, m} : cycle'[p][x] = cycle[p][x]
    BY <1>0, <2>1
  <2>7. LedgerPhase'[p] = LedgerPhase[p]
    <3>1. standing[p] = "open"
      BY <2>1 DEF JInv, IInv, ClosedPlotsAreDormant, DormantAt
    <3>2. ~ActiveIs(p, 0)'
      BY <2>5 DEF ActiveIs, IsActive
    <3> QED
      BY <2>1, <2>2, <3>1, <3>2 DEF LedgerPhase
  <2>8. Used(p)' = Used(p) \cup {m}
    BY <2>1, <2>4, <2>5, <2>6 DEF Used, IsActive, ClosedStatuses
  <2>9. LedgerSeason'[p] = LedgerSeason[p] + 1 /\ LedgerSeason[p] < MaxCycles
    BY <2>1, <2>8, SeasonAfter
  <2>10. LedgerEnding'[p] = [LedgerEnding[p] EXCEPT ![n] = s]
    <3>1. cycle[p][m].status \notin ClosedStatuses /\ cycle'[p][m].status \notin ClosedStatuses
      BY <2>3, <2>5 DEF ClosedStatuses
    <3> QED
      BY <2>4, <2>6, <3>1, EndingAfter
  <2>11. LedgerEntries'[p] = LedgerEntries[p]
    BY <2>1, SameEntries
  <2>12. /\ LedgerEnding' = [LedgerEnding EXCEPT ![p][LedgerSeason[p]] = s]
         /\ LedgerSeason' = [LedgerSeason EXCEPT ![p] = LedgerSeason[p] + 1]
         /\ UNCHANGED <<LedgerPhase, LedgerEntries>>
    BY <1>p, <1>f, <2>2, <2>7, <2>9, <2>10, <2>11, LedgerElsewhere
  <2> QED
    BY <2>2, <2>9, <2>12 DEF Ledger!Turn, LedgerPhase, LedgerSeason, LedgerEnding, LedgerEntries
<1>6. ASSUME NEW n \in CycleNos, NEW r \in Records, Files(p, n, r)
      PROVE  Ledger!File(p, r)
  <2>1. UNCHANGED <<standing, cycle>> /\ IsActive(p, n)
    BY <1>6 DEF Files
  <2>2. LedgerPhase[p] = "growing" /\ n = LedgerSeason[p]
    BY <2>1, OpenIsGrowing
  <2>3. \A q \in Plots, m \in CycleNos : r \notin LedgerEntries[q][m]
    BY <1>6, NoneAssumption DEF Files, LedgerEntries, Filed
  <2>4. \A m \in CycleNos : Filed(p, m)' = IF m = n THEN Filed(p, m) \cup {r} ELSE Filed(p, m)
    BY <1>6, NoneAssumption DEF Files, Filed
  <2>5. LedgerEntries'[p] = [LedgerEntries[p] EXCEPT ![n] = LedgerEntries[p][n] \cup {r}]
    BY <2>4 DEF LedgerEntries
  <2>6. UNCHANGED <<LedgerPhase, LedgerSeason, LedgerEnding>>
    BY <1>p, <1>s, <1>e, <2>1, SameRows
  <2>7. LedgerEntries' = [LedgerEntries EXCEPT ![p][LedgerSeason[p]] = LedgerEntries[p][LedgerSeason[p]] \cup {r}]
    BY <2>2, <2>5, LedgerElsewhere
  <2> QED
    BY <2>2, <2>3, <2>6, <2>7
       DEF Ledger!File, Ledger!Seasons, CycleNos, LedgerPhase, LedgerSeason, LedgerEnding, LedgerEntries
<1>7. ASSUME \/ \E n \in CycleNos, pl \in Plans : Replans(p, n, pl)
             \/ \E n \in 0 .. MaxCycles, r \in Records, s \in Records \cup {None} : Retracts(p, n, r, s)
      PROVE  UNCHANGED <<LedgerPhase, LedgerSeason, LedgerEnding, LedgerEntries>>
  <2>1. ASSUME NEW n \in CycleNos, NEW pl \in Plans, Replans(p, n, pl)
        PROVE  /\ \A m \in CycleNos : cycle'[p][m].status = cycle[p][m].status
               /\ standing' = standing /\ LedgerEntries'[p] = LedgerEntries[p]
    BY <1>0, <2>1, SameEntries DEF Replans, CycleRow
  <2>2. ASSUME NEW n \in 0 .. MaxCycles, NEW r \in Records, NEW s, Retracts(p, n, r, s)
        PROVE  cycle' = cycle /\ standing' = standing /\ LedgerEntries'[p] = LedgerEntries[p]
    <3>1. \A x \in Records : record'[x].plot = record[x].plot /\ record'[x].cycle = record[x].cycle
      BY <1>0, <2>2 DEF Retracts, RecordRow
    <3> QED
      BY <2>2, <3>1 DEF Retracts, LedgerEntries, Filed
  <2>3. /\ \A m \in CycleNos : cycle'[p][m].status = cycle[p][m].status
        /\ standing' = standing /\ LedgerEntries'[p] = LedgerEntries[p]
    BY <1>7, <2>1, <2>2
  <2>4. ActiveIs(p, 0)' = ActiveIs(p, 0)
    BY <2>3 DEF ActiveIs, IsActive
  <2>5. LedgerPhase'[p] = LedgerPhase[p] /\ LedgerEnding'[p] = LedgerEnding[p]
        /\ LedgerSeason'[p] = LedgerSeason[p]
    BY <2>3, <2>4 DEF LedgerPhase, LedgerEnding, LedgerSeason
  <2> QED
    BY <1>p, <1>s, <1>e, <1>f, <2>3, <2>5
<1>8. ASSUME UNCHANGED <<LedgerPhase, LedgerSeason, LedgerEnding, LedgerEntries>>
      PROVE  UNCHANGED Ledger!ledger
  BY <1>8 DEF Ledger!ledger, LedgerPhase, LedgerSeason, LedgerEnding, LedgerEntries
<1>9. CASE \E n \in CycleNos, pl \in Plans : Opens(p, n, pl)
  BY <1>3, <1>9 DEF Ledger!Next
<1>10. CASE \E n \in CycleNos, s \in ClosedStatuses, f \in Records \cup {None},
             h \in Records \cup {None, ByHand} : Ends(p, n, s, f, h)
  BY <1>4, <1>10 DEF Ledger!Next, Ledger!Endings, ClosedStatuses
<1>11. CASE \E n, m \in CycleNos, s \in ClosedStatuses, f \in Records \cup {None}, pl \in Plans :
             Turns(p, n, m, s, f, pl)
  BY <1>5, <1>11 DEF Ledger!Next, Ledger!Endings, ClosedStatuses
<1>12. CASE \E n \in CycleNos, r \in Records : Files(p, n, r)
  BY <1>6, <1>12 DEF Ledger!Next
<1> QED
  BY <1>1, <1>2, <1>7, <1>8, <1>9, <1>10, <1>11, <1>12 DEF Effect

\* The plot API is a ledger of seasons to whoever sees only what is committed: a season is
\* opened once, takes inspections while it grows, and ends once (the promise of PlotLedger,
\* kept by every handler of plots.py and records.py that writes plot_cycles or records).
THEOREM ApiIsALedger == Spec => ImplementsLedger
<1>1. JInv /\ JInv' /\ [Next]_vars => [Ledger!Next]_(Ledger!ledger)
  <2> SUFFICES ASSUME JInv, JInv', [Next]_vars PROVE [Ledger!Next]_(Ledger!ledger)
    OBVIOUS
  <2>1. CASE Still
    <3>1. \A p \in Plots : ActiveIs(p, 0)' = ActiveIs(p, 0)
      BY <2>1 DEF Still, ActiveIs, IsActive
    <3> QED
      BY <2>1, <3>1 DEF Still, Ledger!ledger, Filed
  <2> QED
    BY <2>1, StepEffects, EffectIsLedgerStep
<1> QED
  BY <1>1, InitLedger, Seasonal, PTL DEF Spec, ImplementsLedger, Ledger!Spec

=============================================================================
