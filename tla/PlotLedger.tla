------------------------------ MODULE PlotLedger ------------------------------
(***************************************************************************)
(* What the plot API promises to someone who sees only committed results:  *)
(* each plot is a serial ledger of seasons.  It is fallow, growing or      *)
(* retired; a season is opened once, takes inspections only while it is    *)
(* the plot's growing season, and ends once, as harvested or cancelled.    *)
(* Requests, locks, mirrors and timestamps do not appear here.             *)
(***************************************************************************)
EXTENDS Naturals

CONSTANTS Plots, Records, MaxCycles

VARIABLES
    phase,      \* what the plot is doing
    season,     \* how many seasons the plot has opened; the last may be growing
    ending,     \* how each ended season ended
    entries     \* the inspections ever filed in each season

ledger == <<phase, season, ending, entries>>

Seasons == 1 .. MaxCycles
Endings == {"harvested", "cancelled"}

Init == /\ phase = [p \in Plots |-> "absent"]
        /\ season = [p \in Plots |-> 0]
        /\ ending = [p \in Plots |-> [n \in Seasons |-> "none"]]
        /\ entries = [p \in Plots |-> [n \in Seasons |-> {}]]

\* A plot moves from one phase to another without touching any season.
Move(p, from, to) == /\ phase[p] = from
                     /\ phase' = [phase EXCEPT ![p] = to]
                     /\ UNCHANGED <<season, ending, entries>>

Register(p) == Move(p, "absent", "fallow")
Retire(p) == Move(p, "fallow", "retired")
Restore(p) == Move(p, "retired", "fallow")

\* A new season opens on a plot with none growing.
Sow(p) == /\ phase[p] \in {"absent", "fallow", "retired"}
          /\ phase' = [phase EXCEPT ![p] = "growing"]
          /\ season[p] < MaxCycles
          /\ season' = [season EXCEPT ![p] = @ + 1]
          /\ UNCHANGED <<ending, entries>>

\* The growing season ends; the plot stays in service or retires with it.
End(p, how, next) == /\ phase[p] = "growing"
                     /\ phase' = [phase EXCEPT ![p] = next]
                     /\ ending' = [ending EXCEPT ![p][season[p]] = how]
                     /\ UNCHANGED <<season, entries>>

\* One season ends and the next opens with nothing in between.
Turn(p, how) == /\ phase[p] = "growing"
                /\ season[p] < MaxCycles
                /\ ending' = [ending EXCEPT ![p][season[p]] = how]
                /\ season' = [season EXCEPT ![p] = @ + 1]
                /\ UNCHANGED <<phase, entries>>

\* An inspection joins the growing season, and no record is filed twice.
File(p, r) == /\ phase[p] = "growing"
              /\ \A q \in Plots, n \in Seasons : r \notin entries[q][n]
              /\ entries' = [entries EXCEPT ![p][season[p]] = @ \cup {r}]
              /\ UNCHANGED <<phase, season, ending>>

Next == \E p \in Plots :
           \/ Register(p)
           \/ Retire(p)
           \/ Restore(p)
           \/ Sow(p)
           \/ \E how \in Endings, next \in {"fallow", "retired"} : End(p, how, next)
           \/ \E how \in Endings : Turn(p, how)
           \/ \E r \in Records : File(p, r)

Spec == Init /\ [][Next]_ledger

=============================================================================
