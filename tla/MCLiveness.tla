----------------------------- MODULE MCLiveness -----------------------------
(* What must end: imports that wait for each other, requests that wait for    *)
(* one plot, and batches of drafts on a phone.  part says which of them takes *)
(* the steps of this behaviour; the others stand still, and what is assumed   *)
(* of their scheduling then says nothing.                                     *)
EXTENDS PlotImport, TLC

CONSTANTS c1, c2, l1, l2, b1, ph1, a1, p1, t1, t2, r1, pl1, ByHand

VARIABLES
    part,
    phase, season, access, version, stale, draft, captured, tab,    \* InspectionDelivery
    form, attempt, records, photos, confirmed,
    standing, cycle, mirror, snapshot, record, txn, lock, clock     \* PlotLifecycle

lifecycleVars == <<standing, cycle, mirror, snapshot, record, txn, lock, clock>>
deliveryVars == <<phase, season, access, version, stale, draft, captured, tab, form,
                  attempt, records, photos, confirmed>>

-----------------------------------------------------------------------------
(* Imports *)

OneToThree == {1, 2, 3}
OneAndTwo == {1, 2}

R(act, plot, keys, password) == [act |-> act, plot |-> plot, keys |-> keys, password |-> password]
NewPlotRow(c, l) == R("create", None, <<c, l>>, FALSE)

\* Files that draw the same numbers in opposite orders, or one series twice; that finalize,
\* update and set passwords with their rows in opposite orders; and one that does it all.
Files == {<<NewPlotRow(c1, l1), NewPlotRow(c2, l2)>>,
          <<NewPlotRow(c2, l2), NewPlotRow(c1, l1)>>,
          <<NewPlotRow(c1, l1), NewPlotRow(c1, l1)>>,
          <<R("final", 2, <<>>, FALSE), R("update", 1, <<>>, TRUE)>>,
          <<R("update", 1, <<>>, FALSE), R("final", 2, <<>>, TRUE)>>,
          <<R("update", 2, <<>>, TRUE), NewPlotRow(c2, l1), R("final", 1, <<>>, FALSE)>>}

Endpoint(act, plot, keys) == <<R(act, plot, keys, act = "password")>>
Endpoints == {Endpoint("plot", None, <<c1>>), Endpoint("withCycle", None, <<c2, l1>>),
              Endpoint("start", 3, <<l2>>), Endpoint("edit", 2, <<>>)}
             \cup {Endpoint("password", p, <<>>) : p \in {1, 2}}
AllWorks == Files \cup Endpoints

\* l1 and l2 are different series (supplier, label, P.Code) that print alike.
Prints == (c1 :> "c1") @@ (c2 :> "c2") @@ (l1 :> "l") @@ (l2 :> "l")

-----------------------------------------------------------------------------
(* One batch of two drafts *)

Delivery == INSTANCE InspectionDelivery WITH
    Drafts <- {1, 2}, Forms <- {}, Tabs <- {b1}, Phones <- {ph1}, Attempts <- {a1},
    Photographed <- {}, MaxSeasons <- 1, MaxVersions <- 1, Enforced <- FALSE

-----------------------------------------------------------------------------
(* Two requests on one plot, whose operations open, change and end seasons    *)
(* and file inspections; the others wait for the lock as these do             *)

Lifecycle == INSTANCE PlotLifecycle WITH
    Plots <- {p1}, Requests <- {t1, t2}, Records <- {r1}, Plans <- {pl1},
    Reports <- {{}}, Typed <- {{}}, MaxCycles <- 2, MaxClock <- 1,
    Operations <- {"start", "deactivate", "reactivate", "update", "close",
                   "rollover", "publicRecord", "finalImport"}

-----------------------------------------------------------------------------

MCInit == /\ part \in {"delivery", "import", "lifecycle"}
          /\ Delivery!Init /\ Init /\ Lifecycle!Init

MCNext ==
    /\ UNCHANGED part
    /\ \/ part = "delivery" /\ Delivery!Next /\ UNCHANGED <<vars, lifecycleVars>>
       \/ part = "import" /\ Next /\ UNCHANGED <<deliveryVars, lifecycleVars>>
       \/ part = "lifecycle" /\ Lifecycle!Next /\ UNCHANGED <<vars, deliveryVars>>

MCSpec == /\ MCInit
          /\ [][MCNext]_<<part, deliveryVars, lifecycleVars, vars>>
          /\ Delivery!Fairness /\ Fairness /\ Lifecycle!Fairness

-----------------------------------------------------------------------------
\* Every request for an import, every request that asks for a plot's lock, and every batch
\* of drafts comes to an end, whatever the server, the network and the other requests do.
EverythingEnds ==
    EveryJobEnds /\ Delivery!EveryBatchEnds /\ Lifecycle!EveryRequestEnds

\* The locked, interleaved handlers implement the serial ledger of seasons.
ImplementsLedger == Lifecycle!ImplementsLedger

=============================================================================
