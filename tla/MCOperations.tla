---------------------------- MODULE MCOperations ----------------------------
(* What happens a few times a season: harvests on one plot, edits of the      *)
(* inspection labels, the monthly care of the log tables, and a reset of a    *)
(* test database.  part says which of them takes the steps of this behaviour; *)
(* the others stand still.                                                    *)
EXTENDS PlotLifecycle, DataReset, LogPartitions, InspectionProtocols, UatDeploy, TLC

CONSTANTS
    Parts,          \* the parts of this run
    p1, t1, plan, rec1, rec2, u1, u2, c, w, f1, ph1, a1, a2

VARIABLES
    part,
    phase, season, access, version, stale, draft, captured, tab,    \* InspectionDelivery
    form, attempt, records, photos, confirmed

deliveryVars == <<phase, season, access, version, stale, draft, captured, tab, form,
                  attempt, records, photos, confirmed>>

-----------------------------------------------------------------------------
(* The endpoints of one plot, one request at a time, with the harvest figures *)
(* inspections carry and closing users type                                   *)

Harvests == {{"kg"}, {"kg", "clean"}}
TypedIn == {{}, {"clean"}, {"kg", "clean", "date"}}

-----------------------------------------------------------------------------
(* The online form, under password enforcement, with two tries of one         *)
(* inspection                                                                 *)

Form == INSTANCE InspectionDelivery WITH
    Drafts <- {}, Forms <- {f1}, Tabs <- {}, Phones <- {ph1}, Attempts <- {a1, a2},
    Photographed <- {f1}, MaxSeasons <- 2, MaxVersions <- 2, Enforced <- TRUE

-----------------------------------------------------------------------------
(* A reset *)

\* A supplier's plot with its numbers, a cycle and a record, a crop, and a row of a
\* protected table; and what the service may add to them.
Chain(table, parent) == [kind |-> table, parent |-> parent]
Chains == "S" :> Chain("supplier", Gone) @@ "P" :> Chain("plot", "S")
             @@ "A" :> Chain("access", "P") @@ "C" :> Chain("cycle", "P")
             @@ "R" :> Chain("record", "C") @@ "K" :> Chain("crop", Gone)
             @@ "M" :> Chain("protected", Gone)
             @@ "S2" :> Chain("supplier", Gone) @@ "P2" :> Chain("plot", "S")
             @@ "C2" :> Chain("cycle", "P2") @@ "R2" :> Chain("record", "C")
             @@ "K2" :> Chain("crop", Gone) @@ "M2" :> Chain("protected", Gone)
AllRows == DOMAIN Chains
OldRows == {"S", "P", "A", "C", "R", "K", "M"}
Tables == [r \in AllRows |-> Chains[r].kind]
ForeignKeys == [r \in AllRows |-> Chains[r].parent]

Holder(provider, owner, internal) ==
    [provider |-> provider, owner |-> owner, internal |-> internal]
SomeAccounts ==
    {[u \in People |-> Gone]} \cup {u1 :> Holder("local", TRUE, FALSE) @@ u2 :> other :
                    other \in {Holder("local", TRUE, TRUE), Holder("azure", TRUE, FALSE),
                               Holder("local", FALSE, TRUE)}}

-----------------------------------------------------------------------------
(* Labels: a complete stage, and one that lacks a label *)

SomeLabels == {[s \in Slots |-> "old"], c :> "old" @@ w :> Blank}

-----------------------------------------------------------------------------
(* Logs: months of two days, and the retentions an administrator may type *)

SomeRetentions == {-3, 0, 1, 3}

-----------------------------------------------------------------------------

(* Deploys: a revision that is live, one with a migration more, and one       *)
(* without a new one                                                          *)

Migrations == [r \in Refs |-> IF r = 1 THEN 1 ELSE 2]

-----------------------------------------------------------------------------

OperationsInit ==
    /\ part \in Parts
    /\ Init /\ Form!Init /\ ResetInit /\ LogInit /\ ProtocolInit /\ DeployInit
    /\ part # "reset" => account = [u \in People |-> Gone]
    /\ part # "protocols" => label = [s \in Slots |-> "old"]

OperationsNext ==
    /\ UNCHANGED part
    /\ \/ /\ part = "harvest" /\ Next
          /\ UNCHANGED <<deliveryVars, resetVars, logVars, protocolVars, deployVars>>
       \/ /\ part = "form" /\ Form!Next
          /\ UNCHANGED <<vars, resetVars, logVars, protocolVars, deployVars>>
       \/ /\ part = "reset" /\ ResetNext
          /\ UNCHANGED <<vars, deliveryVars, logVars, protocolVars, deployVars>>
       \/ /\ part = "logs" /\ LogNext
          /\ UNCHANGED <<vars, deliveryVars, resetVars, protocolVars, deployVars>>
       \/ /\ part = "protocols" /\ ProtocolNext
          /\ UNCHANGED <<vars, deliveryVars, resetVars, logVars, deployVars>>
       \/ /\ part = "deploy" /\ DeployNext
          /\ UNCHANGED <<vars, deliveryVars, resetVars, logVars, protocolVars>>

OperationsSpec ==
    /\ OperationsInit
    /\ [][OperationsNext]_<<part, vars, deliveryVars, resetVars, logVars,
                            protocolVars, deployVars>>

Symmetry == Permutations(Records)

-----------------------------------------------------------------------------
\* Nothing is filed once its sender's number is revoked, its password replaced, or its
\* season over.
RevocationIsImmediate == Form!RevocationIsImmediate

=============================================================================
