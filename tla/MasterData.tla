----------------------------- MODULE MasterData -----------------------------
(***************************************************************************)
(* The crops, varieties and P.Codes of master_data: the forms that change  *)
(* a row, the spreadsheet import, and the new planting cycle that takes    *)
(* its variety from the P.Code it names.  A row names the row it is under  *)
(* by value, with no foreign key; a value is unique in its type; and a     *)
(* variety should own at most one active P.Code, which no index enforces.  *)
(*                                                                         *)
(* Every request reads before it writes and locks nothing, so it is two    *)
(* steps: its checks, and the write with the commit.  The checks of one    *)
(* form are a step: what happens between two of them could as well happen  *)
(* before or after both.  A new cycle reads three times, in three steps.   *)
(*                                                                         *)
(* Abstracted: cells that are too long or of no known status; order_index. *)
(***************************************************************************)
EXTENDS Naturals, FiniteSets

CONSTANTS
    Crops, Varieties, PCodes,  \* values of the three types
    Start,      \* the table as it was seeded
    Files,      \* files that may be imported: sets of rows
    Desks,      \* forms under way
    MaxOpen,    \* bound on requests under way at once
    MaxCommits, \* bound on commits
    NoRow

Values == Crops \cup Varieties \cup PCodes

(* id: the row's, new for every row.  raced is history, of a P.Code: the   *)
(* request that made it active overlapped another one's commit.            *)
Item == [parent : Values \cup {NoRow}, active : BOOLEAN, id : Nat \X Values, raced : BOOLEAN]

(* A P.Code names a variety, a variety a crop, or nothing.                 *)
Above(x) == IF x \in PCodes THEN Varieties ELSE IF x \in Varieties THEN Crops ELSE {}

(* A row of a file.  A blank cell is NoRow; status is what varietyStatus   *)
(* says, active when it is blank.                                          *)
FileRow == [crop : Crops, variety : Varieties \cup {NoRow},
            p_code : PCodes \cup {NoRow}, status : BOOLEAN]

ASSUME ValuesAssumption ==
    /\ Crops \cap Varieties = {} /\ Crops \cap PCodes = {} /\ Varieties \cap PCodes = {}
    /\ NoRow \notin Values \cup Item \cup [parent : Values \cup {NoRow}, active : BOOLEAN]
    /\ NoRow \notin Desks
(* The seeds name what they are under, and race nobody.                    *)
ASSUME StartAssumption ==
    /\ Start \in [Values -> Item \cup {NoRow}]
    /\ \A x \in Values : Start[x] # NoRow =>
          Start[x].id = <<0, x>> /\ Start[x].parent \in Above(x) \cup {NoRow}
    /\ \A q, r \in PCodes : q # r /\ Start[q] # NoRow /\ Start[r] # NoRow =>
          ~(Start[q].active /\ Start[r].active /\ Start[q].parent = Start[r].parent)
ASSUME FilesAssumption ==
    \A f \in Files :
        f \subseteq FileRow /\ \A r \in f : r.variety = NoRow => r.p_code = NoRow /\ r.status
ASSUME MasterBoundsAssumption == {MaxOpen, MaxCommits} \subseteq Nat

VARIABLES
    item,     \* master_data, by value
    desk,     \* what each form is at
    upload,   \* what the import is at
    planting, \* what the new cycle's request is at
    planted,  \* crop, P.Code and variety of the cycle just opened
    commits

masterVars == <<item, desk, upload, planting, planted, commits>>

(* value, and target: the row a form reads and the row it wants there, or  *)
(* at renamed.  stale: something was committed since the request read.     *)
Desk == [at : {"idle", "create", "update", "delete"}, value : Values \cup {NoRow},
         renamed : Values \cup {NoRow}, read : Item \cup {NoRow},
         target : Item \cup {NoRow}, stale : BOOLEAN]
Planting == [at : {"idle", "p_code", "variety", "save"}, crop : Item \cup {NoRow},
             named : Crops \cup {NoRow}, p_code : Item \cup {NoRow},
             code : PCodes \cup {NoRow}, stale : BOOLEAN]

IdleDesk == [at |-> "idle", value |-> NoRow, renamed |-> NoRow, read |-> NoRow,
             target |-> NoRow, stale |-> FALSE]
IdleUpload == [at |-> "idle", file |-> {}, plan |-> {}, read |-> Start, stale |-> FALSE]
IdlePlanting == [at |-> "idle", crop |-> NoRow, named |-> NoRow, p_code |-> NoRow,
                 code |-> NoRow, stale |-> FALSE]

MasterTypeOK ==
    /\ item \in [Values -> Item \cup {NoRow}]
    /\ \A x \in Values : item[x] # NoRow => item[x].parent \in Above(x) \cup {NoRow}
    /\ desk \in [Desks -> Desk]
    /\ upload.at \in {"idle", "shown", "writing"} /\ upload.file \subseteq FileRow
    /\ planting \in Planting
    /\ planted \in [crop : Crops, p_code : PCodes, variety : Varieties, stale : BOOLEAN]
                      \cup {NoRow}
    /\ commits \in 0 .. MaxCommits

MasterInit ==
    /\ item = Start
    /\ desk = [d \in Desks |-> IdleDesk]
    /\ upload = IdleUpload
    /\ planting = IdlePlanting
    /\ planted = NoRow
    /\ commits = 0

-----------------------------------------------------------------------------
SameType(x, y) == \E T \in {Crops, Varieties, PCodes} : x \in T /\ y \in T

Active(x) == item[x] # NoRow /\ item[x].active

active_p_code_for_variety(variety) ==
    {q \in PCodes : Active(q) /\ item[q].parent = variety}

\* Mutant: the variety is looked up, its other P.Codes are not.
assert_p_code_assignable_VarietyOnly(variety, except) ==
    variety \in Varieties /\ item[variety] # NoRow

(* A P.Code may be active under a variety that exists, active or not, and  *)
(* owns no other active one.                                               *)
assert_p_code_assignable(variety, except) ==
    /\ variety \in Varieties /\ item[variety] # NoRow
    /\ active_p_code_for_variety(variety) \subseteq {except}

UnderWay == Cardinality({d \in Desks : desk[d].at # "idle"})
              + (IF upload.at # "idle" THEN 1 ELSE 0)
              + (IF planting.at # "idle" THEN 1 ELSE 0)

Room == UnderWay < MaxOpen

(* The commit of one request is the change another may have missed.        *)
Commit(new) ==
    /\ commits < MaxCommits
    /\ commits' = commits + 1
    /\ item' = new

Stale(by) == [d \in Desks |-> IF d # by /\ desk[d].at # "idle"
                              THEN [desk[d] EXCEPT !.stale = TRUE] ELSE desk[d]]
StaleUpload == IF upload.at = "writing" THEN [upload EXCEPT !.stale = TRUE] ELSE upload
StalePlanting == IF planting.at # "idle" THEN [planting EXCEPT !.stale = TRUE] ELSE planting

-----------------------------------------------------------------------------
(* The forms.                                                              *)

create_master_data(d, x, parent) ==
    /\ desk[d].at = "idle" /\ item[x] = NoRow
    /\ x \in PCodes => assert_p_code_assignable(parent, x)
    /\ desk' = [desk EXCEPT ![d] = [IdleDesk EXCEPT
         !.at = "create", !.value = x, !.renamed = x,
         !.target = [parent |-> parent, active |-> TRUE, id |-> <<0, x>>, raced |-> FALSE]]]
    /\ UNCHANGED <<item, upload, planting, planted, commits>>

(* The value asked for is free; a P.Code that ends up active is assignable *)
(* to the variety it ends up under.                                        *)
update_master_data(d, x, y, target) ==
    /\ desk[d].at = "idle" /\ item[x] # NoRow
    /\ y # x => item[y] = NoRow
    /\ (x \in PCodes /\ target.active) => assert_p_code_assignable(target.parent, x)
    /\ desk' = [desk EXCEPT ![d] = [IdleDesk EXCEPT
         !.at = "update", !.value = x, !.renamed = y, !.read = item[x], !.target = target]]
    /\ UNCHANGED <<item, upload, planting, planted, commits>>

delete_master_data(d, x) ==
    /\ desk[d].at = "idle" /\ item[x] # NoRow
    /\ desk' = [desk EXCEPT ![d] = [IdleDesk EXCEPT
         !.at = "delete", !.value = x, !.read = item[x]]]
    /\ UNCHANGED <<item, upload, planting, planted, commits>>

(* The row a form has read: another may have renamed or deleted it.        *)
Where(row) == {x \in Values : row # NoRow /\ item[x] # NoRow /\ item[x].id = row.id}

(* Columns that differ from what was read, over what the row has become.   *)
update(now, read, target) ==
    [now EXCEPT !.parent = IF target.parent # read.parent THEN target.parent ELSE @,
                !.active = IF target.active # read.active THEN target.active ELSE @]

(* The value is written only if it was changed.                            *)
SaveCreate(d) ==
    /\ desk[d].at = "create" /\ item[desk[d].value] = NoRow
    /\ Commit([item EXCEPT ![desk[d].value] =
                 [desk[d].target EXCEPT !.id = <<commits + 1, desk[d].value>>,
                                        !.raced = desk[d].stale]])
    /\ desk' = [Stale(d) EXCEPT ![d] = IdleDesk]
    /\ upload' = StaleUpload /\ planting' = StalePlanting
    /\ UNCHANGED planted

SaveUpdate(d) ==
    /\ desk[d].at = "update"
    /\ \E x \in Where(desk[d].read) :
         LET y == IF desk[d].renamed = desk[d].value THEN x ELSE desk[d].renamed
             row == [update(item[x], desk[d].read, desk[d].target)
                       EXCEPT !.raced = desk[d].stale]
         IN  /\ y # x => item[y] = NoRow
             /\ Commit([[item EXCEPT ![x] = NoRow] EXCEPT ![y] = row])
    /\ desk' = [Stale(d) EXCEPT ![d] = IdleDesk]
    /\ upload' = StaleUpload /\ planting' = StalePlanting
    /\ UNCHANGED planted

SaveDelete(d) ==
    /\ desk[d].at = "delete"
    /\ \E x \in Where(desk[d].read) : Commit([item EXCEPT ![x] = NoRow])
    /\ desk' = [Stale(d) EXCEPT ![d] = IdleDesk]
    /\ upload' = StaleUpload /\ planting' = StalePlanting
    /\ UNCHANGED planted

(* The index refuses the value, the row is gone, or the request fails.     *)
GiveUp(d) ==
    /\ desk[d].at # "idle"
    /\ desk' = [desk EXCEPT ![d] = IdleDesk]
    /\ UNCHANGED <<item, upload, planting, planted, commits>>

-----------------------------------------------------------------------------
(* The import.  A row's plan holds all the preview binds: what the table   *)
(* has of its crop, variety and P.Code, and of the P.Code that owns the    *)
(* variety's slot.                                                         *)

Seen(x) == IF x = NoRow \/ item[x] = NoRow THEN NoRow
           ELSE [parent |-> item[x].parent, active |-> item[x].active]

(* Two rows of a file at odds: the same pair, the same crop alone, one     *)
(* variety under two crops, one P.Code twice.  (A file is a set here, so   *)
(* the same pair differs in status or P.Code, and a crop alone is once.)   *)
Clashes(r, file) ==
    \E s \in file \ {r} :
        \/ r.variety # NoRow /\ s.variety = r.variety
        \/ r.p_code # NoRow /\ s.p_code = r.p_code

\* Mutant: the variety's slot is not looked at.
RowErrors_AnySlot(r, file) ==
    \/ Clashes(r, file)
    \/ item[r.crop] # NoRow /\ ~Active(r.crop)
    \/ r.variety # NoRow /\ item[r.variety] # NoRow /\ item[r.variety].parent # r.crop
    \/ r.p_code # NoRow /\ item[r.p_code] # NoRow /\ item[r.p_code].parent # r.variety

RowErrors(r, file) ==
    \/ Clashes(r, file)
    \/ item[r.crop] # NoRow /\ ~Active(r.crop)
    \/ /\ r.variety # NoRow /\ item[r.variety] # NoRow
       /\ item[r.variety].parent # r.crop
    \/ /\ r.p_code # NoRow /\ item[r.p_code] # NoRow
       /\ item[r.p_code].parent # r.variety
    \/ /\ r.p_code # NoRow /\ ~Active(r.p_code)
       /\ active_p_code_for_variety(r.variety) # {}

_build_row_states(file) ==
    {[row |-> r, error |-> RowErrors(r, file),
      crop |-> Seen(r.crop), variety |-> Seen(r.variety), p_code |-> Seen(r.p_code),
      slot |-> IF r.variety = NoRow THEN {} ELSE active_p_code_for_variety(r.variety)] :
        r \in file}

build_preview_taxonomy(file) ==
    /\ upload.at = "idle"
    /\ upload' = [IdleUpload EXCEPT !.at = "shown", !.file = file,
                                    !.plan = _build_row_states(file)]
    /\ UNCHANGED <<item, desk, planting, planted, commits>>

CommitChecks ==
    /\ upload.at = "shown"
    /\ upload' = IF /\ _build_row_states(upload.file) = upload.plan
                    /\ \A p \in upload.plan : ~p.error
                 THEN [upload EXCEPT !.at = "writing", !.read = item]
                 ELSE IdleUpload
    /\ UNCHANGED <<item, desk, planting, planted, commits>>

\* Mutant: a new P.Code is put under the crop.
Creates_UnderCrop(x) ==
    {[parent |-> NoRow, active |-> TRUE] : p \in {q \in upload.plan : q.row.crop = x /\ q.crop = NoRow}}
    \cup {[parent |-> p.row.crop, active |-> p.row.status] :
            p \in {q \in upload.plan : q.row.variety = x /\ q.variety = NoRow}}
    \cup {[parent |-> p.row.crop, active |-> TRUE] :
            p \in {q \in upload.plan : q.row.p_code = x /\ q.p_code = NoRow}}

(* What the file writes at a value: a row that was not there, or the       *)
(* active column of one that was.  A crop or a P.Code that exists is left. *)
Creates(x) ==
    {[parent |-> NoRow, active |-> TRUE] : p \in {q \in upload.plan : q.row.crop = x /\ q.crop = NoRow}}
    \cup {[parent |-> p.row.crop, active |-> p.row.status] :
            p \in {q \in upload.plan : q.row.variety = x /\ q.variety = NoRow}}
    \cup {[parent |-> p.row.variety, active |-> TRUE] :
            p \in {q \in upload.plan : q.row.p_code = x /\ q.p_code = NoRow}}

Switches(x) ==
    {p.row.status : p \in {q \in upload.plan :
        q.row.variety = x /\ q.variety # NoRow /\ q.variety.active # q.row.status}}
    \cup {TRUE : p \in {q \in upload.plan :
            q.row.p_code = x /\ q.p_code # NoRow /\ ~q.p_code.active}}

Switched(y) ==
    UNION {Switches(x) : x \in {z \in Values : y \in Where(upload.read[z])}}

(* Crops, then varieties, then P.Codes; a value taken meanwhile, or a row  *)
(* that is gone, and nothing is written.                                   *)
CommitFile ==
    /\ upload.at = "writing"
    /\ IF \A x \in Values : /\ Creates(x) # {} => item[x] = NoRow
                            /\ Switches(x) # {} => Where(upload.read[x]) # {}
       THEN /\ Commit([x \in Values |->
                 IF Creates(x) # {}
                 THEN LET new == CHOOSE n \in Creates(x) : TRUE
                      IN  [parent |-> new.parent, active |-> new.active,
                           id |-> <<commits + 1, x>>, raced |-> upload.stale]
                 ELSE IF Switched(x) # {}
                 THEN [item[x] EXCEPT !.active = CHOOSE b \in Switched(x) : TRUE,
                                      !.raced = upload.stale]
                 ELSE item[x]])
            /\ desk' = Stale(NoRow)
            /\ planting' = StalePlanting
       ELSE UNCHANGED <<item, desk, planting, commits>>
    /\ upload' = IdleUpload
    /\ UNCHANGED planted

Dismiss ==
    /\ upload.at # "idle"
    /\ upload' = IdleUpload
    /\ UNCHANGED <<item, desk, planting, planted, commits>>

-----------------------------------------------------------------------------
(* A new cycle names a crop and a P.Code.                                  *)

ReadCrop(c, q) ==
    /\ planting.at = "idle"
    /\ planting' = [IdlePlanting EXCEPT !.at = "p_code", !.named = c, !.code = q,
                                        !.crop = item[c]]
    /\ planted' = NoRow
    /\ UNCHANGED <<item, desk, upload, commits>>

ReadPCode ==
    /\ planting.at = "p_code"
    /\ planting' = [planting EXCEPT !.at = "variety", !.p_code = item[planting.code]]
    /\ UNCHANGED <<item, desk, upload, planted, commits>>

\* Mutant: the variety of the P.Code is taken as it comes.
crop_p_code_errors_AnyVariety(crop, p_code, variety) ==
    \/ crop = NoRow \/ p_code = NoRow \/ variety = NoRow
    \/ ~crop.active \/ ~p_code.active

crop_p_code_errors(crop, p_code, variety) ==
    \/ crop = NoRow \/ p_code = NoRow \/ variety = NoRow
    \/ ~crop.active \/ ~p_code.active \/ ~variety.active
    \/ variety.parent # planting.named

(* The variety is the one the P.Code names, and it is stored.              *)
ReadVariety ==
    LET variety == IF planting.p_code = NoRow THEN NoRow ELSE planting.p_code.parent
        row == IF variety \in Varieties THEN item[variety] ELSE NoRow
    IN  /\ planting.at = "variety"
        /\ planted' = IF crop_p_code_errors(planting.crop, planting.p_code, row)
                      THEN planted
                      ELSE [crop |-> planting.named, p_code |-> planting.code,
                            variety |-> variety, stale |-> planting.stale]
        /\ planting' = IdlePlanting
        /\ UNCHANGED <<item, desk, upload, commits>>

-----------------------------------------------------------------------------
(* What a form may ask of a row: another value, parent or state.           *)
AskUpdate(d, x) ==
    \/ \E y \in Values \ {x} : SameType(x, y) /\ update_master_data(d, x, y, item[x])
    \/ \E parent \in Above(x) \cup {NoRow} :
         update_master_data(d, x, x, [item[x] EXCEPT !.parent = parent])
    \/ update_master_data(d, x, x, [item[x] EXCEPT !.active = ~@])

Begin ==
    \/ \E d \in Desks, x \in Values :
         \/ \E parent \in Above(x) \cup {NoRow} : create_master_data(d, x, parent)
         \/ item[x] # NoRow /\ AskUpdate(d, x)
         \/ delete_master_data(d, x)
    \/ \E file \in Files : build_preview_taxonomy(file)
    \/ \E c \in Crops, q \in PCodes : ReadCrop(c, q)

MasterNext ==
    \/ Room /\ Begin
    \/ \E d \in Desks : SaveCreate(d) \/ SaveUpdate(d) \/ SaveDelete(d) \/ GiveUp(d)
    \/ CommitChecks \/ CommitFile \/ Dismiss
    \/ ReadPCode \/ ReadVariety

MasterSpec == MasterInit /\ [][MasterNext]_masterVars

-----------------------------------------------------------------------------
(* A variety owns at most one active P.Code (p_code_master.py:11), by way  *)
(* of creating, editing, moving, reviving and importing them, unless one   *)
(* of two was made active by a request that overlapped another's commit:   *)
(* the rule is checked by reading, and no index backs it.                  *)
OneActivePCode ==
    \A q, r \in PCodes :
        (/\ q # r /\ Active(q) /\ Active(r) /\ item[q].parent = item[r].parent) =>
            item[q].raced \/ item[r].raced

(* A cycle takes a variety that is its P.Code's, active, and under its     *)
(* crop, crop and P.Code active too: at the moment of its last query, if   *)
(* nothing was committed between its three.                                *)
CyclesNameLiveTaxonomy ==
    [][planted' \notin {planted, NoRow} /\ ~planted'.stale =>
          LET p == planted' IN
            /\ Active(p.crop) /\ Active(p.p_code) /\ Active(p.variety)
            /\ item[p.p_code].parent = p.variety
            /\ item[p.variety].parent = p.crop]_masterVars

(* The variety owns the P.Code, and may use it.                            *)
Owns(table, variety, q) ==
    table[q] # NoRow /\ table[q].active /\ table[q].parent = variety

(* An import that writes, and that no commit came between, leaves every    *)
(* variety of the file under its crop with its status, every P.Code of the *)
(* file active under its variety, and every other row as it was: one row   *)
(* may bring in all three.  A P.Code it creates or revives is alone under  *)
(* its variety; one that was active already is left as it is, beside       *)
(* another that raced it there.                                            *)
FileLandsWhole ==
    [][(CommitFile /\ commits' # commits /\ ~upload.stale) =>
          /\ \A r \in upload.file :
               /\ item'[r.crop] # NoRow /\ item'[r.crop].active
               /\ r.variety # NoRow =>
                    item'[r.variety] # NoRow /\ item'[r.variety].parent = r.crop
                      /\ item'[r.variety].active = r.status
               /\ r.p_code # NoRow =>
                    /\ Owns(item', r.variety, r.p_code)
                    /\ item'[r.p_code] # item[r.p_code] =>
                          \A q \in PCodes \ {r.p_code} : ~Owns(item', r.variety, q)
          /\ \A x \in Values : item'[x] # item[x] =>
               \E r \in upload.file : x \in {r.crop, r.variety, r.p_code}]_masterVars

\* One active P.Code to a variety, cycles on living names, files whole.
TaxonomyStands == [](MasterTypeOK /\ OneActivePCode) /\ CyclesNameLiveTaxonomy /\ FileLandsWhole

=============================================================================
