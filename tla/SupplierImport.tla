--------------------------- MODULE SupplierImport ---------------------------
(***************************************************************************)
(* Suppliers: the forms that create, edit and deactivate one, and the      *)
(* spreadsheet import that creates and edits many in one transaction,      *)
(* after a preview that somebody approved.                                 *)
(*                                                                         *)
(* Unlike the plot import this one takes no lock: it compares what it read *)
(* with the preview, and writes later.  So it is two steps, and the forms, *)
(* which read a row before they write it, are two as well.  A transaction  *)
(* holds the rows it has flushed until it commits; nobody reads or writes  *)
(* them between, so its writes are one step.                               *)
(*                                                                         *)
(* Abstracted: the text columns of a row to one, name; the cells' own      *)
(* validation; the digest of a row, to the row.                            *)
(***************************************************************************)
EXTENDS Naturals

CONSTANTS
    Codes,     \* suppliers.code, in capitals: unique, never changed
    Names,
    Known,     \* the suppliers there are at first
    Lists,     \* files that may be imported
    Sheets,    \* imports under way
    Forms,     \* forms under way
    MaxWrites, \* bound on commits
    Absent

VARIABLES
    supplier,  \* the suppliers table
    sheet,     \* what each import is at
    form,      \* what each form is at
    writes

supplierVars == <<supplier, sheet, form, writes>>

ASSUME SupplierBoundsAssumption == MaxWrites \in Nat

SupplierRow == [name : Names, active : BOOLEAN]

ASSUME AbsentAssumption == Absent \notin SupplierRow \cup Codes \cup Sheets
ASSUME TablesAssumption == {Known} \cup Lists \subseteq [Codes -> SupplierRow \cup {Absent}]

Rights == SUBSET {"create", "update"}

(* rows: what the file wants, Absent where it has no row.  shown and read: *)
(* the rows it named when it was previewed, and when its commit began.     *)
(* meddled is history: someone else has written one of them since.         *)
Sheet == [at : {"idle", "shown", "writing"},
          rows : [Codes -> SupplierRow \cup {Absent}],
          shown : [Codes -> SupplierRow \cup {Absent}],
          read : [Codes -> SupplierRow \cup {Absent}], meddled : BOOLEAN]
Form == [at : {"idle", "create", "update", "deactivate"}, code : Codes \cup {Absent},
         read : SupplierRow \cup {Absent}]

Nothing == [c \in Codes |-> Absent]
IdleSheet == [at |-> "idle", rows |-> Nothing, shown |-> Nothing, read |-> Nothing,
              meddled |-> FALSE]
IdleForm == [at |-> "idle", code |-> Absent, read |-> Absent]

SupplierTypeOK ==
    /\ supplier \in [Codes -> SupplierRow \cup {Absent}]
    /\ sheet \in [Sheets -> Sheet]
    /\ form \in [Forms -> Form]
    /\ writes \in 0 .. MaxWrites

SupplierInit ==
    /\ supplier = Known
    /\ sheet = [i \in Sheets |-> IdleSheet]
    /\ form = [d \in Forms |-> IdleForm]
    /\ writes = 0

-----------------------------------------------------------------------------
Wants(i) == {c \in Codes : sheet[i].rows[c] # Absent}

\* Mutant: only the rows that were found.
existing_by_code_Found(rows) ==
    [c \in {d \in Codes : rows[d] # Absent /\ supplier[d] # Absent} |-> supplier[c]]

(* What the table holds of the rows a file names.                          *)
existing_by_code(rows) == [c \in Codes |-> IF rows[c] # Absent THEN supplier[c] ELSE Absent]

(* Rows whose operation the caller may not perform: an error each.         *)
ErrorRows(rows, rights) ==
    {c \in Codes :
        /\ rows[c] # Absent
        /\ \/ supplier[c] = Absent /\ "create" \notin rights
           \/ supplier[c] \notin {Absent, rows[c]} /\ "update" \notin rights}

\* Mutant: the whole row is written.
update_supplier_WholeRow(now, read, target) == target

(* The ORM writes the columns whose value differs from the one it read,    *)
(* over whatever the row has become.                                       *)
update_supplier(now, read, target) ==
    [name |-> IF target.name # read.name THEN target.name ELSE now.name,
     active |-> IF target.active # read.active THEN target.active ELSE now.active]

(* Every commit of another is noted by the imports that have read.         *)
Meddle(rows, by) ==
    [i \in Sheets |->
        [sheet[i] EXCEPT !.meddled =
            @ \/ (i # by /\ sheet[i].at = "writing" /\ rows \cap Wants(i) # {})]]

Write == writes < MaxWrites /\ writes' = writes + 1

-----------------------------------------------------------------------------
(* The forms.                                                              *)

create_supplier(d, c) ==
    /\ form[d].at = "idle" /\ supplier[c] = Absent
    /\ form' = [form EXCEPT ![d] = [IdleForm EXCEPT !.at = "create", !.code = c]]
    /\ UNCHANGED <<supplier, sheet, writes>>

read_supplier(d, c, what) ==
    /\ form[d].at = "idle" /\ supplier[c] # Absent
    /\ form' = [form EXCEPT ![d] = [at |-> what, code |-> c, read |-> supplier[c]]]
    /\ UNCHANGED <<supplier, sheet, writes>>

(* A code taken meanwhile: the unique index refuses the row.               *)
Insert(d, name) ==
    LET c == form[d].code IN
    /\ form[d].at = "create"
    /\ IF supplier[c] = Absent
       THEN /\ Write
            /\ supplier' = [supplier EXCEPT ![c] = [name |-> name, active |-> TRUE]]
            /\ sheet' = Meddle({c}, Absent)
       ELSE UNCHANGED <<supplier, sheet, writes>>
    /\ form' = [form EXCEPT ![d] = IdleForm]

Edit(d, target) ==
    LET c == form[d].code IN
    /\ form[d].at \in {"update", "deactivate"}
    /\ form[d].at = "deactivate" => target = [form[d].read EXCEPT !.active = FALSE]
    /\ Write
    /\ supplier' = [supplier EXCEPT ![c] = update_supplier(@, form[d].read, target)]
    /\ sheet' = Meddle({c}, Absent)
    /\ form' = [form EXCEPT ![d] = IdleForm]

-----------------------------------------------------------------------------
(* The import.                                                             *)

(* A preview with a row in error can be shown and never committed: rows in *)
(* error are shown without their state, and a commit wants every row's.    *)
build_preview(i, rows, rights) ==
    /\ sheet[i].at = "idle"
    /\ ErrorRows(rows, rights) = {}
    /\ sheet' = [sheet EXCEPT ![i] = [IdleSheet EXCEPT
         !.at = "shown", !.rows = rows, !.shown = existing_by_code(rows)]]
    /\ UNCHANGED <<supplier, form, writes>>

\* Mutant: the file is judged again, and not compared with what was shown.
_row_states_match_preview_ErrorsOnly(i, rights) == ErrorRows(sheet[i].rows, rights) = {}

(* A commit goes on only with no row in error and every row as it was      *)
(* shown.                                                                  *)
_row_states_match_preview(i, rights) ==
    /\ ErrorRows(sheet[i].rows, rights) = {}
    /\ existing_by_code(sheet[i].rows) = sheet[i].shown

CommitReads(i, rights) ==
    /\ sheet[i].at = "shown"
    /\ sheet' = [sheet EXCEPT ![i] =
         IF _row_states_match_preview(i, rights)
         THEN [@ EXCEPT !.at = "writing", !.read = existing_by_code(sheet[i].rows)]
         ELSE IdleSheet]
    /\ UNCHANGED <<supplier, form, writes>>

(* Rows it read as they are wanted are not written.                        *)
Landed(i) ==
    [c \in Codes |->
        IF c \notin Wants(i) THEN supplier[c]
        ELSE IF sheet[i].read[c] = Absent THEN sheet[i].rows[c]
        ELSE update_supplier(supplier[c], sheet[i].read[c], sheet[i].rows[c])]

(* One code taken meanwhile, and nothing is written.                       *)
CommitWrites(i) ==
    /\ sheet[i].at = "writing"
    /\ IF \E c \in Wants(i) : sheet[i].read[c] = Absent /\ supplier[c] # Absent
       THEN /\ sheet' = [sheet EXCEPT ![i] = IdleSheet]
            /\ UNCHANGED <<supplier, writes>>
       ELSE /\ Write
            /\ supplier' = Landed(i)
            /\ sheet' = [Meddle(Wants(i), i) EXCEPT ![i] = IdleSheet]
    /\ UNCHANGED form

(* A request may end without its commit at any moment: a fault, a          *)
(* deadlock with another import that wrote the rows in another order, a    *)
(* page closed before it approved.                                         *)
Abandon(i) ==
    /\ sheet[i].at # "idle"
    /\ sheet' = [sheet EXCEPT ![i] = IdleSheet]
    /\ UNCHANGED <<supplier, form, writes>>

-----------------------------------------------------------------------------
SupplierNext ==
    \/ \E d \in Forms :
         \/ \E c \in Codes :
              \/ create_supplier(d, c)
              \/ \E what \in {"update", "deactivate"} : read_supplier(d, c, what)
         \/ \E name \in Names : Insert(d, name)
         \/ \E target \in SupplierRow : Edit(d, target)
    \/ \E i \in Sheets :
         \/ \E rights \in Rights :
              \/ \E rows \in Lists : build_preview(i, rows, rights)
              \/ CommitReads(i, rights)
         \/ CommitWrites(i) \/ Abandon(i)

SupplierSpec == SupplierInit /\ [][SupplierNext]_supplierVars

-----------------------------------------------------------------------------
(* An import that writes lands as it was shown: if nobody else wrote one   *)
(* of its rows between its reading and its writing, the rows were as the   *)
(* preview showed them and all of them are afterwards what the file says,  *)
(* however many imports and forms were under way.  (Somebody who wrote     *)
(* between is merged column by column, without a conflict: the file is     *)
(* then not what the supplier looks like, supplier_import.py:38.)          *)
LandsAsShown ==
    [][\A i \in Sheets :
          (CommitWrites(i) /\ writes' # writes /\ ~sheet[i].meddled) =>
             \A c \in Wants(i) :
                /\ supplier[c] = sheet[i].shown[c]
                /\ supplier'[c] = sheet[i].rows[c]]_supplierVars

(* A writer that read a supplier active does not bring it back: somebody's *)
(* deactivation outlives the forms and imports that had read the row       *)
(* before it, because only changed columns are written.                    *)
DeactivationIsNotUndone ==
    [][\A c \in Codes :
          (/\ supplier[c] # Absent /\ ~supplier[c].active
           /\ supplier'[c].active) =>
             \/ \E d \in Forms : /\ form[d].code = c /\ form'[d] = IdleForm
                                 /\ form[d].read # Absent /\ ~form[d].read.active
             \/ \E i \in Sheets : /\ sheet[i].at = "writing" /\ sheet'[i] = IdleSheet
                                  /\ sheet[i].read[c] # Absent
                                  /\ ~sheet[i].read[c].active]_supplierVars

\* A file of suppliers lands as it was shown, and revives nobody.
SuppliersStand == []SupplierTypeOK /\ LandsAsShown /\ DeactivationIsNotUndone

=============================================================================
