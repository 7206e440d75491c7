---------------------------- MODULE AccessControl ----------------------------
(***************************************************************************)
(* Who may do and see what: roles with their permissions, the users who    *)
(* hold them, overrides of single permissions, assignments of plots, and   *)
(* the scope a request gets from them, once as conditions of its queries   *)
(* and once as the policies of the database.                               *)
(*                                                                         *)
(* Every save reads what is there and writes the difference to what it was *)
(* sent, under no lock: another save may commit in between.                *)
(*                                                                         *)
(* Abstracted: names and descriptions of roles, profiles of users, reasons *)
(* of overrides, audit rows.                                               *)
(***************************************************************************)
EXTENDS FiniteSets, Naturals

CONSTANTS
    Staff,
    Admins,        \* those of them who administer
    Roles,         \* names of roles: strings, some of which the code knows
    SystemRoles,   \* is_system
    Keys,          \* permission keys
    Privileged,    \* _PRIVILEGE_MANAGEMENT_KEYS and permissions.*
    Sites,         \* plots
    Owner,         \* supplier of a plot, and of the staff that have one
    SupplierAdmins,\* is_supplier_admin
    Seed,          \* role_permissions and user_roles at the start
    Payloads,      \* sets of keys, of roles and of users that may be sent
    MaxSaves       \* bound on requests

SuperAdmin == "internal:super_admin"
FieldOfficer == "farmlog:field_officer"
FullAccess == {SuperAdmin, "internal:admin", "farmlog:supervisor"}

VARIABLES
    roles,      \* roles that exist
    grants,     \* role_permissions
    holders,    \* user_roles
    overrides,  \* user_permission_overrides, oldest first
    assigned,   \* plot_assignments
    office,     \* per administrator: the request under way
    saves       \* history: requests so far

accessVars == <<roles, grants, holders, overrides, assigned, office, saves>>

ASSUME AccessAssumption ==
    /\ Admins \subseteq Staff /\ SuperAdmin \in SystemRoles /\ SystemRoles \subseteq Roles
    /\ Owner \in [Staff \cup Sites -> STRING] /\ MaxSaves \in Nat

\* Foreign keys.
ASSUME SeedAssumption ==
    /\ \A g \in Seed.grants : g[1] \in SystemRoles
    /\ \A h \in Seed.holders : h[2] \in SystemRoles

Override == [id : Nat, who : Staff, key : Keys, granted : BOOLEAN]

(* What is saved, of what, what was read of it and what was sent; n: the   *)
(* place of the request among all; crown: its sender was a super           *)
(* administrator when it was authenticated; alone (history): nobody else   *)
(* has been saving the same.                                               *)
Save(op, of, had, sent, crown) ==
    [op |-> op, of |-> of, had |-> had, sent |-> sent, crown |-> crown,
     n |-> saves + 1, alone |-> TRUE]

\* An empty desk.
Nobody == [op |-> "none"]

AccessInit ==
    /\ roles = SystemRoles
    /\ grants = Seed.grants
    /\ holders = Seed.holders
    /\ overrides = {}
    /\ assigned = {}
    /\ office = [a \in Admins |-> Nobody]
    /\ saves = 0

-----------------------------------------------------------------------------
(* What a user may do *)

RolesOf(u) == {h[2] : h \in {g \in holders : g[1] = u}}
KeysOf(r) == {g[2] : g \in {h \in grants : h[1] = r}}

RowsOf(u, k) == {o \in overrides : o.who = u /\ o.key = k}
Newest(rows) == CHOOSE o \in rows : \A p \in rows : p.id <= o.id

\* Of two rows for one key the later read decides.
Effective(u) ==
    {k \in Keys : IF RowsOf(u, k) = {} THEN \E r \in RolesOf(u) : k \in KeysOf(r)
                                       ELSE Newest(RowsOf(u, k)).granted}

IsSuper(u) == SuperAdmin \in RolesOf(u)

-----------------------------------------------------------------------------
(* Scope *)

\* Staff of no supplier.
SuppliersOwn == "none"

\* _resolve_scope
ScopeOf(u) ==
    LET names == RolesOf(u)
        full == names \cap FullAccess # {}
        officer == FieldOfficer \in names
    IN CASE full -> "all"
         [] ~full /\ officer -> "assigned"
         [] ~full /\ ~officer /\ Owner[u] # SuppliersOwn ->
               IF "supplier:owner" \in names \/ u \in SupplierAdmins THEN "supplier" ELSE "assigned"
         [] OTHER -> "none"

\* records_scope and plots_scope, of a record by the supplier and the plot in its row. A
\* record has the supplier of its plot, and neither ever changes it.
Policy(u, supplier, p) ==
    LET scope == ScopeOf(u)
    IN \/ scope = "all"
       \/ scope = "supplier" /\ supplier = Owner[u]
       \/ scope = "assigned" /\ <<u, p>> \in assigned

SeesPlot(u, p) == Policy(u, Owner[p], p)
SeesRecord(u, p) == Policy(u, Owner[p], p)

\* plot_cycles_scope, and those of the credentials and numbers: by what the policy of
\* plots lets through.
SeesCycle(u, p) ==
    IF ScopeOf(u) = "supplier" THEN SeesPlot(u, p) /\ Owner[p] = Owner[u]
                               ELSE Policy(u, Owner[p], p)

\* get_scope_filter: conditions on records in the query itself.
FindsRecord(u, p) ==
    LET scope == ScopeOf(u)
    IN \/ scope = "all"
       \/ scope = "assigned" /\ <<u, p>> \in assigned
       \/ scope = "supplier" /\ Owner[p] = Owner[u]

\* Mutant: every assigned user is taken for a supplier's own staff.
FindsSupplier_OwnOnly(u, s) == \/ ScopeOf(u) = "all"
                               \/ ScopeOf(u) \in {"supplier", "assigned"} /\ s = Owner[u]

\* get_supplier_scope_filter: suppliers have no policy.
FindsSupplier(u, s) ==
    LET scope == ScopeOf(u)
        officer == FieldOfficer \in RolesOf(u)
    IN \/ scope = "all"
       \/ scope = "supplier" /\ s = Owner[u]
       \/ scope = "assigned" /\ officer /\ \E p \in Sites : Owner[p] = s /\ <<u, p>> \in assigned
       \/ scope = "assigned" /\ ~officer /\ s = Owner[u]

-----------------------------------------------------------------------------
(* Requests: authenticated, guarded and read in one step ... *)

MayBegin(a) == office[a] = Nobody /\ saves < MaxSaves

Begin(a, save) ==
    /\ saves' = saves + 1
    /\ LET rivals == {b \in Admins : office[b] # Nobody /\ office[b].op = save.op
                                                        /\ office[b].of = save.of}
       IN office' = [b \in Admins |->
                        IF b = a THEN [save EXCEPT !.alone = rivals = {}]
                        ELSE IF b \in rivals THEN [office[b] EXCEPT !.alone = FALSE]
                        ELSE office[b]]
    /\ UNCHANGED <<roles, grants, holders, overrides, assigned>>

\* create_role and patch_role: the keys of a system role cannot be sent.
SaveRole(a, r, keys) ==
    /\ MayBegin(a) /\ "manage" \in Effective(a) /\ r \notin SystemRoles
    /\ Begin(a, Save(IF r \in roles THEN "role" ELSE "newRole", r, KeysOf(r), keys, IsSuper(a)))

DeleteRole(a, r) ==
    /\ MayBegin(a) /\ "manage" \in Effective(a) /\ r \in roles \ SystemRoles
    /\ \A u \in Staff : r \notin RolesOf(u)
    /\ Begin(a, Save("gone", r, {}, {}, IsSuper(a)))

\* Mutant: whoever may assign roles may assign each of them.
MayAssign_AnyRole(a, names) == "assign" \in Effective(a)

\* _require_role_assign
MayAssign(a, names) == /\ "assign" \in Effective(a)
                       /\ SuperAdmin \in names => IsSuper(a)

\* patch_user with role_names: never one's own.
SaveUser(a, u, names) ==
    /\ MayBegin(a) /\ a # u /\ "manage" \in Effective(a) /\ MayAssign(a, names)
    /\ Begin(a, Save("user", u, RolesOf(u), names \cap roles, IsSuper(a)))

\* add_override, never one's own; a key by which rights are managed takes a super
\* administrator.
SaveOverride(a, u, k, granted) ==
    /\ MayBegin(a) /\ a # u /\ "override" \in Effective(a) /\ (k \in Privileged => IsSuper(a))
    /\ Begin(a, Save("override", <<u, k>>, RowsOf(u, k), granted, IsSuper(a)))

\* assign_users: the users of a plot that the sender sees, and will see afterwards: it is
\* read once more.
AssignedTo(p) == {x[1] : x \in {y \in assigned : y[2] = p}}
Assign(a, p, users) ==
    /\ MayBegin(a) /\ "plots" \in Effective(a) /\ SeesPlot(a, p)
    /\ ScopeOf(a) = "assigned" => a \in users
    /\ Begin(a, Save("plot", p, AssignedTo(p), users, IsSuper(a)))

-----------------------------------------------------------------------------
(* ... and committed or rolled back in another *)

Close(a) == /\ office' = [office EXCEPT ![a] = Nobody]
            /\ UNCHANGED saves

\* Mutant: what is no longer sent stays.
Merge_OnlyAdds(now, save) == now \cup (save.sent \ save.had)

\* The unit of work inserts what was sent and not read, and deletes what was read and
\* not sent.
Merge(now, save) == (now \ (save.had \ save.sent)) \cup (save.sent \ save.had)

\* An INSERT of a pair that is there breaks the primary key.
Inserts(now, save) == (save.sent \ save.had) \cap now = {}

CommitRole(a) ==
    LET save == office[a]
        r == save.of
    IN /\ save # Nobody /\ save.op \in {"role", "newRole"}
       /\ (r \in roles) = (save.op = "role")
       /\ Inserts(KeysOf(r), save)
       /\ roles' = roles \cup {r}
       /\ grants' = {g \in grants : g[1] # r} \cup ({r} \X Merge(KeysOf(r), save))
       /\ Close(a)
       /\ UNCHANGED <<holders, overrides, assigned>>

\* What would write a row of the role that has gone fails on its foreign key or writes
\* nothing; the others go on without it: a role created again has another id.
Outlive(save, r) ==
    IF save = Nobody THEN save
    ELSE IF \/ save.op \in {"role", "gone"} /\ save.of = r
            \/ save.op = "user" /\ r \in save.sent \ save.had
    THEN [save EXCEPT !.op = "stranded"]
    ELSE IF save.op = "user" THEN [save EXCEPT !.had = @ \ {r}, !.sent = @ \ {r}]
    ELSE save

\* user_roles and role_permissions go with the role: ON DELETE CASCADE.
CommitDelete(a) ==
    LET save == office[a]
    IN /\ save # Nobody /\ save.op = "gone"
       /\ roles' = roles \ {save.of}
       /\ grants' = {g \in grants : g[1] # save.of}
       /\ holders' = {h \in holders : h[2] # save.of}
       /\ office' = [b \in Admins |-> IF b = a THEN Nobody ELSE Outlive(office[b], save.of)]
       /\ UNCHANGED <<overrides, assigned, saves>>

CommitUser(a) ==
    LET save == office[a]
        u == save.of
    IN /\ save # Nobody /\ save.op = "user"
       /\ Inserts(RolesOf(u), save)
       /\ holders' = {h \in holders : h[1] # u} \cup ({u} \X Merge(RolesOf(u), save))
       /\ Close(a)
       /\ UNCHANGED <<roles, grants, overrides, assigned>>

\* The first row read is updated and the others are deleted; an UPDATE of a row that has
\* gone fails.
Settled(save) ==
    IF save.had = {}
    THEN overrides \cup {[id |-> save.n, who |-> save.of[1],
                          key |-> save.of[2], granted |-> save.sent]}
    ELSE LET first == CHOOSE o \in save.had : \A p \in save.had : o.id <= p.id
         IN (overrides \ {o \in overrides : \E p \in save.had : p.id = o.id})
            \cup {[first EXCEPT !.granted = save.sent]}

CommitOverride(a) ==
    LET save == office[a]
    IN /\ save # Nobody /\ save.op = "override"
       /\ \A o \in save.had : \E p \in overrides : p.id = o.id
       /\ overrides' = Settled(save)
       /\ Close(a)
       /\ UNCHANGED <<roles, grants, holders, assigned>>

CommitAssign(a) ==
    LET save == office[a]
        p == save.of
    IN /\ save # Nobody /\ save.op = "plot"
       /\ Inserts(AssignedTo(p), save)
       /\ assigned' = {x \in assigned : x[2] # p} \cup (Merge(AssignedTo(p), save) \X {p})
       /\ Close(a)
       /\ UNCHANGED <<roles, grants, holders, overrides>>

\* A request may always fail and be rolled back.
GiveUp(a) == /\ office[a] # Nobody
             /\ Close(a)
             /\ UNCHANGED <<roles, grants, holders, overrides, assigned>>

-----------------------------------------------------------------------------

AccessNext ==
    \E a \in Admins :
        \/ \E r \in Roles, keys \in Payloads.keys : SaveRole(a, r, keys)
        \/ \E r \in Roles : DeleteRole(a, r)
        \/ \E u \in Staff, names \in Payloads.roles : SaveUser(a, u, names)
        \/ \E u \in Staff, k \in Keys, granted \in BOOLEAN : SaveOverride(a, u, k, granted)
        \/ \E p \in Sites, users \in Payloads.users : Assign(a, p, users)
        \/ CommitRole(a) \/ CommitDelete(a) \/ CommitUser(a) \/ CommitOverride(a)
        \/ CommitAssign(a) \/ GiveUp(a)

AccessSpec == AccessInit /\ [][AccessNext]_accessVars

-----------------------------------------------------------------------------
(* Properties *)

Stands(save) ==
    CASE save.op \in {"role", "newRole"} -> KeysOf(save.of) = save.sent
      [] save.op = "user" -> RolesOf(save.of) = save.sent \cap roles
      [] save.op = "override" -> /\ Cardinality(RowsOf(save.of[1], save.of[2])) = 1
                                 /\ (save.of[2] \in Effective(save.of[1])) = save.sent
      [] save.op = "plot" -> AssignedTo(save.of) = save.sent
      [] OTHER -> save.of \notin roles

tables == <<roles, grants, holders, overrides, assigned>>

\* A save that overlapped no other of the same thing leaves exactly what was sent: though
\* only differences are written, and whatever became of other roles, users and rows
\* meanwhile; of the overrides that two racing saves left for one key, one remains.
LoneSavesStand ==
    [][\A a \in Admins : \A save \in {office[a]} :
          save # Nobody /\ office'[a] = Nobody /\ tables' # tables /\ save.alone
          => Stands(save)']_accessVars

\* Nobody becomes a super administrator but by the hand of one.
OnlySupersMakeSupers ==
    [][\A u \in Staff : ~IsSuper(u) /\ IsSuper(u)' =>
          \E a \in Admins : office[a] # Nobody /\ office'[a] = Nobody /\ office[a].crown]_accessVars

\* The two layers that isolate suppliers agree, and what a user sees hangs together: with
\* a record its plot and its cycle, with a plot its supplier. (Staff assigned to a plot of
\* another supplier, which nothing prevents, see it without its supplier.)
ScopesNest ==
    \A u \in Staff, p \in Sites :
        /\ FindsRecord(u, p) = SeesRecord(u, p)
        /\ SeesRecord(u, p) => SeesPlot(u, p)
        /\ SeesCycle(u, p) = SeesPlot(u, p)
        /\ SeesPlot(u, p) => \/ FindsSupplier(u, Owner[p])
                             \/ FieldOfficer \notin RolesOf(u) /\ Owner[u] # Owner[p]
=============================================================================
