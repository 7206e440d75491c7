----------------------------- MODULE MCAccounts -----------------------------
(* Sessions of accounts, the rights that accounts have, and the menus that  *)
(* are shown for them: three parts that share no table here.  part says     *)
(* which of them takes the steps of this behaviour; the others stand still. *)
EXTENDS Accounts, AccessControl, MenuTree, TLC

CONSTANTS Parts, t1, t2, k1, k2, s1, s2, s3, p1, p2

VARIABLE part

OneEach == (k1 :> t1) @@ (k2 :> t2)

-----------------------------------------------------------------------------
(* A super administrator, another administrator, and someone of supplier A *)

SomeRoles == {SuperAdmin, FieldOfficer, "supplier:owner", "clerk"}
KnownRoles == SomeRoles \ {"clerk"}
SomeKeys == {"manage", "assign", "override", "plots"}
FirstRights ==
    [grants |-> ({SuperAdmin} \X SomeKeys) \cup {<<FieldOfficer, "manage">>,
                                                 <<FieldOfficer, "assign">>},
     holders |-> {<<s1, SuperAdmin>>, <<s2, FieldOfficer>>, <<s3, "supplier:owner">>}]
OwnerOf == s1 :> "none" @@ s2 :> "none" @@ s3 :> "A" @@ p1 :> "A" @@ p2 :> "B"
Sent == [keys |-> {{"plots"}, {"override", "plots"}},
         roles |-> {{"clerk"}, {SuperAdmin, FieldOfficer}},
         users |-> {{s2}, {s3}}]

-----------------------------------------------------------------------------

AccountsInit == /\ part \in Parts
                /\ Init /\ AccessInit /\ MenuInit
                /\ part # "menus" => menu = [m \in Menus |-> Root]

AccountsNext ==
    /\ UNCHANGED part
    /\ \/ part = "sessions" /\ Next /\ UNCHANGED <<accessVars, menuVars>>
       \/ part = "rights" /\ AccessNext /\ UNCHANGED <<vars, menuVars>>
       \/ part = "menus" /\ MenuNext /\ UNCHANGED <<vars, accessVars>>

AccountsSpec == AccountsInit /\ [][AccountsNext]_<<part, vars, accessVars, menuVars>>

-----------------------------------------------------------------------------

Symmetry == Permutations(Desks)

=============================================================================
