----------------------------- MODULE PlotImport -----------------------------
(***************************************************************************)
(* The Excel plot import as a whole file, against other imports and the    *)
(* single-plot endpoints: which plots a transaction locks and in what      *)
(* order, what an approved preview binds it to, and how plot codes and lot *)
(* numbers are drawn from series that no row lock protects.                *)
(*                                                                         *)
(* A file is a sequence of rows; every request is one transaction          *)
(* (services/plot_import.py commit_import_execute: validate, check the     *)
(* preview's digest, lock every plot, verify, execute every row) and       *)
(* nothing of it is seen before its COMMIT.  A unique index lets one of    *)
(* two rows with the same key in: the second insert waits for the first    *)
(* transaction to end, as PostgreSQL does, and fails if that commits.      *)
(*                                                                         *)
(* Abstracted: a plot to what an approval is compared with; a series to a  *)
(* model value with the text it prints; columns, permissions and the       *)
(* wording of errors.  What one row does to a plot's cycle is PlotLifecycle*)
(***************************************************************************)
EXTENDS Naturals, Sequences, FiniteSets

CONSTANTS
    Plots,      \* the plots there are, as naturals in the order of str(plot.id)
    Planted,    \* those with an open cycle at first
    Jobs,       \* requests under way, each served once
    Works,      \* what a request may ask: sequences of rows
    Series,     \* numbering series of plot codes and of lots
    Printed,    \* the text a series prints before the number
    None

VARIABLES
    row,        \* plots and their credentials, as far as an approval is bound to them
    book,       \* per series, the numbers of its committed rows in commit order
    job         \* requests, with what their transaction holds

vars == <<row, book, job>>

ImportActs == {"create", "update", "final"}
EndpointActs == {"plot", "withCycle", "start", "password", "edit"}

(* A row of a file, or the one thing an endpoint does: the plot it names,  *)
(* the series it draws a number of, in order, and whether it carries a new *)
(* inspection password.                                                    *)
Row == [act : ImportActs \cup EndpointActs, plot : Plots \cup {None},
        keys : Seq(Series), password : BOOLEAN]

RowsOf(w) == {w[i] : i \in DOMAIN w}

ASSUME PlotsAssumption == Plots \subseteq Nat /\ None \notin Plots /\ Planted \subseteq Plots
ASSUME WorksAssumption ==
    /\ Works \subseteq Seq(Row) \ {<<>>}
    /\ \A w \in Works : \A r \in RowsOf(w) :
          r.plot = None <=> r.act \in {"create", "plot", "withCycle"}
ASSUME PrintedAssumption == DOMAIN Printed = Series

IsImport(w) == \E r \in RowsOf(w) : r.act \in ImportActs

\* The existing plots a request mutates.
Targets(w) == {r.plot : r \in RowsOf(w)} \ {None}

\* preview_state_required: a row closes a cycle or sets a password.
NeedsPreview(w) == \E r \in RowsOf(w) : r.act \in ImportActs /\ (r.act = "final" \/ r.password)

PlotRow == [open : BOOLEAN,     \* plots.is_active
            growing : BOOLEAN,  \* it has an active cycle
            rev : Nat,          \* updated_at of plot and cycle, and the latest record
            cred : Nat]         \* credential_version, 0 for no credential

(* pc: the preview is out ("approved"), locks are being taken ("locking"), *)
(* rows are being executed ("running").  at, key and number: the row, the  *)
(* key of that row, and the MAX + 1 read for it (0 before).                *)
Job == [pc : {"new", "approved", "locking", "running", "ended"},
        work : Works \cup {<<>>},
        seen : [Plots -> PlotRow],
        held : SUBSET Plots,
        at : Nat, key : Nat, number : Nat,
        mine : [Series -> Seq(Nat)],
        answer : {"none", "200", "409", "422", "500"}]

NewPlot == [open |-> TRUE, growing |-> FALSE, rev |-> 0, cred |-> 0]
NoNumbers == [s \in Series |-> <<>>]
NewJob == [pc |-> "new", work |-> <<>>, seen |-> [p \in Plots |-> NewPlot], held |-> {},
           at |-> 1, key |-> 1, number |-> 0, mine |-> NoNumbers, answer |-> "none"]

TypeOK == /\ row \in [Plots -> PlotRow]
          /\ book \in [Series -> Seq(Nat)]
          /\ job \in [Jobs -> Job]

Init == /\ row = [p \in Plots |-> [NewPlot EXCEPT !.growing = (p \in Planted)]]
        /\ book = NoNumbers
        /\ job = [j \in Jobs |-> NewJob]

-----------------------------------------------------------------------------
(* Preview and upload: nothing is locked yet *)

\* _validate_row: a row that names a plot finds it in service with an open cycle.
RowValid(r) == r.act \in {"update", "final"} => row[r.plot].open /\ row[r.plot].growing

\* _validate_all: every row, and no plot twice in a file.
Valid(w) ==
    /\ \A i, k \in DOMAIN w : i # k /\ w[i].plot # None => w[i].plot # w[k].plot
    /\ \A r \in RowsOf(w) : RowValid(r)

\* The plots whose state the preview shows and the commit is bound to.
BoundPlots(w) == {r.plot : r \in {x \in RowsOf(w) : x.act = "final" \/ x.password}} \ {None}

\* build_preview: the user is shown the file's plots as they are, and approves.
Preview(j, w) ==
    /\ job[j].pc = "new"
    /\ IsImport(w)
    /\ Valid(w)
    /\ job' = [job EXCEPT ![j].pc = "approved", ![j].work = w,
                          ![j].seen = [p \in Plots |-> IF p \in BoundPlots(w) THEN row[p]
                                                       ELSE NewPlot]]
    /\ UNCHANGED <<row, book>>

\* Mutant: a transaction that is abandoned open keeps its row locks.
End_KeepsLocks(j, answer) == job' = [job EXCEPT ![j].pc = "ended", ![j].answer = answer]

\* COMMIT or ROLLBACK: locks and uncommitted rows are gone.
End(j, answer) == job' = [job EXCEPT ![j] = [NewJob EXCEPT !.pc = "ended", !.answer = answer]]

\* _check_preview_state_file: the bytes sent are the bytes approved.
DigestMatches(j, w) == NeedsPreview(w) => job[j].pc = "approved" /\ job[j].work = w

Upload(j, w) ==
    /\ job[j].pc \in {"new", "approved"}
    /\ IsImport(w)
    /\ IF Valid(w) /\ DigestMatches(j, w)
       THEN job' = [job EXCEPT ![j].pc = "locking", ![j].work = w]
       ELSE End(j, IF Valid(w) THEN "409" ELSE "422")
    /\ UNCHANGED <<row, book>>

\* A single-plot endpoint: its transaction begins.
Call(j, w) == /\ job[j].pc = "new"
              /\ ~IsImport(w)
              /\ job' = [job EXCEPT ![j].pc = "locking", ![j].work = w]
              /\ UNCHANGED <<row, book>>

-----------------------------------------------------------------------------
(* _lock_existing_plots *)

\* Mutant: the plots in whatever order the rows reach them.
IsNextToLock_AnyOrder(j, p) == p \in Targets(job[j].work) \ job[j].held

\* "in one deterministic order (sorted by plot id)"
IsNextToLock(j, p) == LET rest == Targets(job[j].work) \ job[j].held
                      IN p \in rest /\ \A q \in rest : p <= q

\* Mutant: get_plot instead of get_plot_for_update.
LockFree_PlainSelect(p) == TRUE

\* SELECT ... FOR UPDATE waits while another transaction holds the row.
LockFree(p) == \A k \in Jobs : p \notin job[k].held

\* Only the inspection password may be set on a plot out of service.
Usable(j, p) == row[p].open \/ \A r \in RowsOf(job[j].work) : r.act \in {"password", "edit"}

Lock(j, p) == /\ job[j].pc = "locking"
              /\ IsNextToLock(j, p)
              /\ LockFree(p)
              /\ IF Usable(j, p) THEN job' = [job EXCEPT ![j].held = @ \cup {p}]
                                 ELSE End(j, IF IsImport(job[j].work) THEN "422" ELSE "409")
              /\ UNCHANGED <<row, book>>

\* _verify_credential_snapshot: the version is the one the preview showed.  (A credential
\* is never unset, so the version also tells "set" from "replace".)
CredentialStands(j, r) ==
    r.password /\ r.plot # None => row[r.plot].cred = job[j].seen[r.plot].cred

\* _verify_final_plot_snapshot: plot, active cycle and latest record are the ones shown.
FinalStands(j, r) ==
    r.act = "final" => /\ row[r.plot].rev = job[j].seen[r.plot].rev
                       /\ row[r.plot].growing

\* Everything is locked: compare, and only then execute.
Verify(j) ==
    LET rows == RowsOf(job[j].work) IN
    /\ job[j].pc = "locking"
    /\ Targets(job[j].work) \subseteq job[j].held
    /\ IF /\ IsImport(job[j].work) =>
                \A r \in rows : CredentialStands(j, r) /\ FinalStands(j, r)
          /\ \A r \in rows : r.act = "start" => ~row[r.plot].growing
       THEN job' = [job EXCEPT ![j].pc = "running"]
       ELSE End(j, "409")
    /\ UNCHANGED <<row, book>>

-----------------------------------------------------------------------------
(* _execute_row, and the handlers of the endpoints *)

Current(j) == job[j].work[job[j].at]
Runs(j) == job[j].pc = "running" /\ job[j].at \in DOMAIN job[j].work

\* A row on an existing plot writes what only its own transaction sees; an update row
\* whose cycle was closed since validation fails the whole file.
Execute(j) ==
    /\ Runs(j)
    /\ Current(j).keys = <<>>
    /\ IF Current(j).act = "update" => row[Current(j).plot].growing
       THEN job' = [job EXCEPT ![j].at = @ + 1]
       ELSE End(j, "422")
    /\ UNCHANGED <<row, book>>

NeedsNumber(j) == Runs(j) /\ Current(j).keys # <<>>
CurrentSeries(j) == Current(j).keys[job[j].key]

Numbers(seq) == {seq[i] : i \in DOMAIN seq}
\* Rows of series s that j's next statement sees: the committed ones and its own.
Visible(j, s) == Numbers(book[s]) \cup Numbers(job[j].mine[s])

\* _next_plot_code_running_no, _next_lot_running_no: MAX + 1.
IsNextNumber(j, s, n) == /\ \A m \in Visible(j, s) : m < n
                         /\ n = 1 \/ n - 1 \in Visible(j, s)

ReadMax(j) ==
    /\ NeedsNumber(j)
    /\ job[j].number = 0
    /\ \E n \in 1 .. Len(book[CurrentSeries(j)]) + Len(job[j].mine[CurrentSeries(j)]) + 1 :
          /\ IsNextNumber(j, CurrentSeries(j), n)
          /\ job' = [job EXCEPT ![j].number = n]
    /\ UNCHANGED <<row, book>>

\* The series that print the same text share their numbers.
Alike(s) == {x \in Series : Printed[x] = Printed[s]}

\* Mutants: no unique index; unique per series only, not per printed lot.
Taken_NoIndex(j, s, n) == FALSE
Taken_SeriesOnly(j, s, n) == n \in Visible(j, s)

\* uq_plots_auto_code_series_running, uq_plot_cycles_auto_lot_series_running and the
\* unique printed texts: a visible row has the key.
Taken(j, s, n) == \E x \in Alike(s) : n \in Visible(j, x)

\* ... or a transaction still under way has inserted it.
Contended(j, s, n) == \E k \in Jobs \ {j}, x \in Alike(s) : n \in Numbers(job[k].mine[x])

Insert(j) ==
    LET s == CurrentSeries(j)
        n == job[j].number
        last == job[j].key = Len(Current(j).keys)
    IN /\ NeedsNumber(j)
       /\ n # 0
       /\ ~Contended(j, s, n)
       /\ IF Taken(j, s, n)
          THEN End(j, "409")
          ELSE job' = [job EXCEPT ![j].mine[s] = Append(@, n),
                                  ![j].number = 0,
                                  ![j].key = IF last THEN 1 ELSE @ + 1,
                                  ![j].at = IF last THEN @ + 1 ELSE @]
       /\ UNCHANGED <<row, book>>

\* Mutant: the version of a first password is left unset.
NextVersion_Unset(v) == IF v = 0 THEN None ELSE v + 1

\* set_or_replace_plot_credential
NextVersion(v) == v + 1

\* What a row leaves of its plot; retire: the importer also holds plots.delete.
After(r, p, retire) ==
    [open |-> row[p].open /\ ~(r.act = "final" /\ retire),
     growing |-> IF r.act = "start" THEN TRUE ELSE row[p].growing /\ r.act # "final",
     rev |-> IF r.act = "password" THEN row[p].rev ELSE row[p].rev + 1,
     cred |-> IF r.password THEN NextVersion(row[p].cred) ELSE row[p].cred]

Commit(j) ==
    /\ job[j].pc = "running"
    /\ job[j].at \notin DOMAIN job[j].work
    /\ \E retire \in BOOLEAN :
          row' = [p \in Plots |->
                    IF p \notin Targets(job[j].work) THEN row[p]
                    ELSE After(CHOOSE r \in RowsOf(job[j].work) : r.plot = p, p, retire)]
    /\ book' = [s \in Series |-> book[s] \o job[j].mine[s]]
    /\ End(j, "200")

-----------------------------------------------------------------------------
(* Ways out that the request does not choose *)

\* The client goes away, the process or the COMMIT fails: everything is rolled back.
Drop(j) == /\ job[j].pc \notin {"new", "ended"}
           /\ End(j, "none")
           /\ UNCHANGED <<row, book>>

AwaitsPlotOf(j, k) == /\ job[j].pc = "locking"
                      /\ \E p \in job[k].held : IsNextToLock(j, p)
AwaitsNumberOf(j, k) == /\ NeedsNumber(j) /\ job[j].number # 0 /\ j # k
                        /\ \E x \in Alike(CurrentSeries(j)) :
                              job[j].number \in Numbers(job[k].mine[x])
Awaits(j, k) == AwaitsPlotOf(j, k) \/ AwaitsNumberOf(j, k)

\* PostgreSQL's deadlock detector aborts a waiter that waits for itself; nobody catches
\* that error, which is not an IntegrityError.
Victim(j) ==
    /\ \E S \in SUBSET Jobs : /\ j \in S
                              /\ \A k \in S : /\ \E l \in S : Awaits(k, l)
                                              /\ \E l \in S : Awaits(l, k)
    /\ End(j, "500")
    /\ UNCHANGED <<row, book>>

\* The requests are served, and nothing more arrives.
Quiet == (\A j \in Jobs : job[j].pc \in {"new", "ended"}) /\ UNCHANGED vars

Step(j) == \/ \E p \in Plots : Lock(j, p)
           \/ Verify(j)
           \/ Execute(j)
           \/ ReadMax(j)
           \/ Insert(j)
           \/ Commit(j)
           \/ Victim(j)

Next == \/ \E j \in Jobs, w \in Works : Preview(j, w) \/ Upload(j, w) \/ Call(j, w)
        \/ \E j \in Jobs : Step(j) \/ Drop(j)
        \/ Quiet

Spec == Init /\ [][Next]_vars

\* A statement that can run runs; the detector finds every deadlock.
Fairness == \A j \in Jobs : WF_vars(Step(j))
FairSpec == Spec /\ Fairness

-----------------------------------------------------------------------------
(* Properties *)

\* The i-th row committed in a series has number i: numbers are unique, without gaps, and
\* in the order their transactions committed, although MAX + 1 is read without a lock
\* and imports draw several numbers each.
NumbersFollowCommits == \A s \in Series : \A i \in DOMAIN book[s] : book[s][i] = i

\* No two committed rows print the same plot code or lot, even of series whose texts
\* coincide.
PrintsAreUnique ==
    \A s \in Series : \A x \in Alike(s) \ {s} : Numbers(book[s]) \cap Numbers(book[x]) = {}

\* Requests never wait for each other's plots in a circle, whatever the order of their
\* rows ("what prevents two concurrent imports ... from deadlocking each other").
PlotLocksNeverDeadlock ==
    \A S \in SUBSET Jobs : S # {} => \E j \in S : \A k \in S : ~AwaitsPlotOf(j, k)

\* An import closes a cycle, or replaces a password, only while the plot is as the user
\* was shown it in the preview, however long ago the comparison was made.
CommitsWhatWasApproved ==
    [][\A j \in Jobs : (IsImport(job[j].work) /\ job'[j].answer = "200" /\ job[j].answer # "200")
          => \A r \in RowsOf(job[j].work) :
                /\ r.act = "final" => /\ row[r.plot].rev = job[j].seen[r.plot].rev
                                      /\ row[r.plot].growing
                /\ r.password /\ r.plot # None => row[r.plot].cred = job[j].seen[r.plot].cred]_vars

\* Every request that was sent is answered, deadlocks over numbers included.
EveryJobEnds == \A j \in Jobs : job[j].pc \in {"locking", "running"} ~> job[j].pc = "ended"

\* The numbers handed out are those of committed rows, and none is printed twice.
NumbersAreSound == TypeOK /\ NumbersFollowCommits /\ PrintsAreUnique

=============================================================================
