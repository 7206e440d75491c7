---------------------------- MODULE MCBackOffice ----------------------------
(* The parts of the back office that share no table with one another, in   *)
(* one run: part says which of them takes the steps of this behaviour, and *)
(* the others stand still.                                                 *)
EXTENDS PhoneAccess, SupplierImport, MasterData, LotNumbers, YieldFigures, TLC

CONSTANTS p1, p2, f1, w1, w2, r1, r2, a1, s1, s2, n1, n2, c1, c2, v1, q1, q2

VARIABLE part

Requests == {r1, r2}
OneAddress == r1 :> a1 @@ r2 :> a1
EveryPlot == [p \in Plots |-> {f1}]
SamePassword == [p \in Plots |-> <<w1>>]

Row(name, active) == [name |-> name, active |-> active]
OneSupplier == s1 :> Row(n1, TRUE) @@ s2 :> Absent
SomeLists == {s1 :> Row(n2, FALSE) @@ s2 :> Absent,
              s1 :> Row(n1, TRUE) @@ s2 :> Row(n1, TRUE)}

Seed(x, parent) == [parent |-> parent, active |-> TRUE, id |-> <<0, x>>, raced |-> FALSE]
OneOfEach == c1 :> Seed(c1, NoRow) @@ v1 :> Seed(v1, c1) @@ q1 :> Seed(q1, v1)
                @@ [x \in {c2, q2} |-> NoRow]
Line(crop, variety, code, status) ==
    [crop |-> crop, variety |-> variety, p_code |-> code, status |-> status]
SomeFiles == {{Line(c2, v1, q2, TRUE)},
              {Line(c1, v1, q1, FALSE), Line(c2, NoRow, NoRow, TRUE)}}

SomeCharacters == Digit \cup {"A", "S", "-", "|", ":", " ", "zero width", "v2", "pcv1"}
TwoSuppliers == {<<"S">>, <<"S", "-", "1">>}
SomeLabels == {<<"A">>, <<"A", " ">>, <<"A", "-", "S">>, <<"1", ":", "A">>, <<"zero width">>,
               <<"A", "|", "1", ":", "A">>}
SomeCodes == {<<"A">>, <<"1", "-", "A">>, <<"S", "-", "A">>, <<"1", ":", "A", "|", "A">>, <<" ">>}
TwoMonths == {<<"2", "6", "0", "5">>, <<"2", "6", "1", "1">>}
NoneOrMany == {{}, {[supplier |-> <<"S">>, label |-> <<"A">>, code |-> <<"A">>, running |-> 999]}}
OneTyped == {[supplier |-> <<"S">>,
              plot_code |-> <<"S", "-", "2", "6", "0", "5", "-", "0", "0", "2">>]}

Planned(full, unit) == [full |-> full, unit |-> unit]
SomePlans == {Planned(3330, "kg"), Planned(16, "KG"), Planned(600, "g"), Planned(14500, "g"),
              Planned(30, "ton"), Planned(5, "crate")}
(* All the halves of these plans that IEEE 754 doubles round down, as the  *)
(* formulas of yield-planning.ts compute them.                             *)
RoundedDown == {<<"target", 14500>>, <<"pct", 29, 16>>, <<"pct", 207, 16>>,
                <<"quantity", 1750, 3330>>, <<"quantity", 11250, 3330>>}

Parts == {"phones", "suppliers", "master", "numbers", "figures"}

Init ==
    /\ part \in Parts
    /\ PhoneInit /\ SupplierInit /\ MasterInit /\ NumbersInit /\ FiguresInit
    /\ part # "phones" => enforced
    /\ part # "numbers" => cycles = {}
    /\ part # "figures" => plan = Planned(3330, "kg")

Next ==
    /\ UNCHANGED part
    /\ \/ /\ part = "phones" /\ PhoneNext
          /\ UNCHANGED <<supplierVars, masterVars, numberVars, figureVars>>
       \/ /\ part = "suppliers" /\ SupplierNext
          /\ UNCHANGED <<phoneVars, masterVars, numberVars, figureVars>>
       \/ /\ part = "master" /\ MasterNext
          /\ UNCHANGED <<phoneVars, supplierVars, numberVars, figureVars>>
       \/ /\ part = "numbers" /\ NumbersNext
          /\ UNCHANGED <<phoneVars, supplierVars, masterVars, figureVars>>
       \/ /\ part = "figures" /\ FiguresNext
          /\ UNCHANGED <<phoneVars, supplierVars, masterVars, numberVars>>

Spec == Init /\ [][Next]_<<part, phoneVars, supplierVars, masterVars, numberVars, figureVars>>

Symmetry == Permutations(Requests) \cup Permutations(Plots)
=============================================================================
