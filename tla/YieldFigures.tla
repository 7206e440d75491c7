---------------------------- MODULE YieldFigures ----------------------------
(***************************************************************************)
(* A harvest forecast: kilograms and the percentage of the cycle's target. *)
(* The page shows both as they are entered, computing one from the other   *)
(* against the target it was opened with; the server derives what is       *)
(* stored against the target of the moment; the next page opens with what  *)
(* was stored.  The plan, and with it the target, may be edited between.   *)
(*                                                                         *)
(* Figures are whole numbers of their last stored digit: hundredths of a   *)
(* kilogram (or of the plan's unit), tenths of a percent.                  *)
(*                                                                         *)
(* The server computes in decimals and rounds halves up.  The browser      *)
(* computes in binary fractions, which may miss an exact half by a hair:   *)
(* such a half is then rounded down.  FallShort lists those that do.       *)
(*                                                                         *)
(* Abstracted: the binary fractions in all but that (below a hundred       *)
(* million kilograms they err on no other quotient, see the README); the   *)
(* stages whose quantity is carried over or whose slider is hidden, both   *)
(* of which only enter a quantity.                                         *)
(***************************************************************************)
EXTENDS Integers

CONSTANTS
    Plans,      \* expected_yield_full and its unit, as they may be planned
    Quantities, \* what may be typed, in hundredths
    Percents,   \* where the slider may be left, in tenths
    MaxKg,      \* _MAX_KG_VALUE
    MaxPercent, \* MAX_STORABLE_YIELD_PCT
    MaxFilings, \* bound on inspections
    FallShort,  \* the halves a browser computes too small: <<"target", full>>,
                \* <<"pct", quantity, target>> and <<"quantity", pct, target>>
    Null

VARIABLES
    plan,    \* the active cycle's
    latest,  \* the plot's current_yield_pct
    page,    \* the form that is open, Null if none
    filed,   \* the last record, with the plan it was derived from
    answer,  \* how the last submission was answered
    filings

figureVars == <<plan, latest, page, filed, answer, filings>>

Plan == [full : Nat \cup {Null}, unit : {"kg", "KG", "g", "ton", "crate"}]
Figure == Nat \cup {Null}

(* how: what the figures of the form last came from.                       *)
Page == [plan : Plan, quantity : Figure, pct : Figure,
         how : {"opened", "typed", "slid"}, latest : Figure]
Record == [pct : (0 .. MaxPercent) \cup {Null}, quantity : Figure,
           target : (1 .. MaxKg) \cup {Null}, plan : Plan]

ASSUME PlansAssumption == Plans \subseteq Plan /\ Null \notin Nat \cup Plan \cup Page \cup Record
ASSUME FiguresAssumption ==
    /\ Quantities \cup {MaxKg, MaxPercent, MaxFilings} \subseteq Nat
    /\ Percents \subseteq 0 .. MaxPercent

FiguresTypeOK ==
    /\ plan \in Plan /\ latest \in Figure
    /\ page = Null \/ page \in Page
    /\ filed = Null \/ filed \in Record
    /\ answer \in {"none", "stored", "refused"}
    /\ filings \in 0 .. MaxFilings

FiguresInit ==
    /\ plan \in Plans /\ latest = Null /\ page = Null /\ filed = Null
    /\ answer = "none" /\ filings = 0

-----------------------------------------------------------------------------
\* Mutant: cut off.
Rounded_Down(n, d) == n \div d

(* n / d, half up.                                                         *)
Rounded(n, d) == (2 * n + d) \div (2 * d)

HalfWay(n, d) == (2 * n + d) % (2 * d) = 0

_normalize_unit(unit) == IF unit = "KG" THEN "kg" ELSE unit

Weights == {"kg", "g", "ton"}

(* Rounded to what will be stored before it is judged or divided by.       *)
_target_kg(p) ==
    IF p.full = Null \/ _normalize_unit(p.unit) \notin Weights THEN Null
    ELSE LET target == IF p.unit = "g" THEN Rounded(p.full, 1000)
                       ELSE IF p.unit = "ton" THEN 1000 * p.full ELSE p.full
         IN  IF target > 0 THEN target ELSE Null

Percentage(quantity, target) == Rounded(1000 * quantity, target)

\* Mutant: nothing is too large for its column.
derive_yield_Unbounded(quantity, client_pct, p) ==
    LET target == _target_kg(p)
        row == [pct |-> Null, quantity |-> quantity, target |-> Null, plan |-> p]
    IN  IF quantity = Null THEN [row EXCEPT !.pct = client_pct]
        ELSE IF target = Null THEN row
        ELSE [row EXCEPT !.pct = Percentage(quantity, target), !.target = target]

\* Mutant: the percentage is taken of the target before it is rounded.
derive_yield_RawTarget(quantity, client_pct, p) ==
    LET target == _target_kg(p)
        row == [pct |-> Null, quantity |-> quantity, target |-> Null, plan |-> p]
    IN  IF quantity = Null THEN [row EXCEPT !.pct = client_pct]
        ELSE IF target = Null THEN row
        ELSE IF target > MaxKg \/ Percentage(quantity, target) > MaxPercent THEN Null
        ELSE [row EXCEPT !.target = target,
                !.pct = IF p.unit = "g" THEN Rounded(1000000 * quantity, p.full)
                        ELSE Percentage(quantity, target)]

(* Null stands for an error too: nothing is stored.  A client of the time  *)
(* before kilograms sends a percentage alone.                              *)
derive_yield(quantity, client_pct, p) ==
    LET target == _target_kg(p)
        row == [pct |-> Null, quantity |-> quantity, target |-> Null, plan |-> p]
    IN  IF quantity = Null THEN [row EXCEPT !.pct = client_pct]
        ELSE IF target = Null THEN row
        ELSE IF target > MaxKg \/ Percentage(quantity, target) > MaxPercent THEN Null
        ELSE [row EXCEPT !.pct = Percentage(quantity, target), !.target = target]

(* A closed cycle's report divides figures of one unit only.               *)
actual_vs_target_pct(actual, actual_unit, p) ==
    IF actual = Null \/ p.full = Null \/ actual_unit # p.unit THEN Null
    ELSE IF p.full = 0 THEN Null ELSE Percentage(actual, p.full)

-----------------------------------------------------------------------------
(* The page's own arithmetic, in binary fractions.                         *)

(* Math.round of what the browser computes for n / d.                      *)
math_round(n, d, of) ==
    IF HalfWay(n, d) /\ of \in FallShort THEN Rounded(n, d) - 1 ELSE Rounded(n, d)

(* One unit in thousandths of a kilogram, 0 when it is no weight.          *)
KG_FACTOR(unit) ==
    IF unit = "kg" THEN 1000 ELSE IF unit = "g" THEN 1
    ELSE IF unit = "ton" THEN 1000 * 1000 ELSE 0

\* Mutant: grams are cut to hundredths of a kilogram.
targetToKg_Cut(p) ==
    LET whole == KG_FACTOR(_normalize_unit(p.unit))
    IN  IF p.full = Null \/ (p.full * whole) \div 1000 = 0
        THEN Null ELSE (p.full * whole) \div 1000

targetToKg(p) ==
    LET whole == KG_FACTOR(_normalize_unit(p.unit))
        target == math_round(p.full * whole, 1000, <<"target", p.full>>)
    IN  IF p.full = Null \/ target = 0 THEN Null ELSE target

quantityKgToPct(quantity, target) ==
    IF quantity = Null \/ target = Null THEN Null
    ELSE math_round(1000 * quantity, target, <<"pct", quantity, target>>)

pctToQuantityKg(pct, target) ==
    IF pct = Null \/ target = Null THEN Null
    ELSE math_round(pct * target, 1000, <<"quantity", pct, target>>)

(* The full target when nothing was inspected yet; no figures without one. *)
computeInitialYieldValue(p, last) ==
    LET target == targetToKg(p) IN
    IF target = Null THEN <<Null, Null>>
    ELSE IF last = Null THEN <<target, 1000>>
    ELSE <<pctToQuantityKg(last, target), last>>

validateYieldQuantityKg(quantity, target) ==
    quantity # Null =>
        /\ quantity <= MaxKg
        /\ target # Null => quantityKgToPct(quantity, target) <= MaxPercent

-----------------------------------------------------------------------------
(* The office edits the plan; what the plot shows of the last inspection   *)
(* stays.                                                                  *)
update_cycle(p) ==
    /\ p # plan
    /\ plan' = p
    /\ UNCHANGED <<latest, page, filed, answer, filings>>

Open ==
    LET initial == computeInitialYieldValue(plan, latest) IN
    /\ page = Null
    /\ page' = [plan |-> plan, quantity |-> initial[1], pct |-> initial[2],
                how |-> "opened", latest |-> latest]
    /\ UNCHANGED <<plan, latest, filed, answer, filings>>

(* An emptied box empties both.                                            *)
handleKgChange(quantity) ==
    /\ page # Null
    /\ page' = [page EXCEPT !.quantity = quantity, !.how = "typed",
                            !.pct = quantityKgToPct(quantity, targetToKg(page.plan))]
    /\ UNCHANGED <<plan, latest, filed, answer, filings>>

(* The slider is dead without a target, and shows where it was left.       *)
handlePctChange(pct) ==
    /\ page # Null /\ targetToKg(page.plan) # Null
    /\ page' = [page EXCEPT !.pct = pct, !.how = "slid",
                            !.quantity = pctToQuantityKg(pct, targetToKg(page.plan))]
    /\ UNCHANGED <<plan, latest, filed, answer, filings>>

Leave ==
    /\ page # Null
    /\ page' = Null
    /\ UNCHANGED <<plan, latest, filed, answer, filings>>

(* A record stored is the plot's latest (the lock and the rest of the      *)
(* handler are PlotLifecycle's); refused, the form stays.                  *)
Store(quantity, pct) ==
    LET row == derive_yield(quantity, pct, plan) IN
    /\ filings < MaxFilings /\ filings' = filings + 1
    /\ answer' = IF row = Null THEN "refused" ELSE "stored"
    /\ filed' = IF row = Null THEN filed ELSE row
    /\ latest' = IF row = Null THEN latest ELSE row.pct
    /\ UNCHANGED plan

Submit ==
    /\ page # Null /\ validateYieldQuantityKg(page.quantity, targetToKg(page.plan))
    /\ Store(page.quantity, page.pct)
    /\ page' = IF answer' = "stored" THEN Null ELSE page

SubmitLegacy(pct) == Store(Null, pct) /\ UNCHANGED page

FiguresNext ==
    \/ \E p \in Plans : update_cycle(p)
    \/ Open \/ Leave \/ Submit
    \/ \E quantity \in Quantities \cup {Null} : handleKgChange(quantity)
    \/ \E pct \in Percents : handlePctChange(pct) \/ SubmitLegacy(pct)

FiguresSpec == FiguresInit /\ [][FiguresNext]_figureVars

-----------------------------------------------------------------------------
(* Whoever divides the two stored figures gets the stored percentage, to   *)
(* its last digit, whatever the unit of the plan and its rounding; a       *)
(* percentage beside a quantity has its target beside it; and a report     *)
(* that compares the same quantity with the same plan does not contradict. *)
StoredFiguresAddUp ==
    (filed # Null /\ filed.quantity # Null) =>
        /\ filed.pct = Null <=> filed.target = Null
        /\ filed.target # Null =>
             /\ filed.target > 0
             /\ (2 * filed.pct - 1) * filed.target <= 2000 * filed.quantity
             /\ 2000 * filed.quantity < (2 * filed.pct + 1) * filed.target
        /\ actual_vs_target_pct(filed.quantity, "kg", filed.plan) \in {Null, filed.pct}

(* A plan in grams half-way between two hundredths of a kilogram: the page *)
(* may take its target a hundredth lower than the server does.             *)
HalfCent(p) == p.full # Null /\ p.unit = "g" /\ HalfWay(p.full, 1000)

(* Under the plan it was opened with, a form the page lets through is      *)
(* stored with the quantity typed and the percentage shown for it, or, the *)
(* quotient being an exact half, the tenth above.  Refused is only a       *)
(* target beyond its column, which the page does not look at, and a half   *)
(* the page rounded down to the last percentage that fits.                 *)
PageForetellsServer ==
    [][(Submit /\ page.plan = plan /\ page.how = "typed" /\ ~HalfCent(plan)) =>
          IF answer' = "stored"
          THEN /\ filed'.quantity = page.quantity
               /\ \/ page.pct = filed'.pct
                  \/ /\ HalfWay(1000 * page.quantity, filed'.target)
                     /\ page.pct = filed'.pct - 1
          ELSE \/ _target_kg(plan) > MaxKg
               \/ /\ HalfWay(1000 * page.quantity, _target_kg(plan))
                  /\ page.pct = MaxPercent]_figureVars

(* A form submitted as it opened says what the last inspection said, if    *)
(* that one was measured against the same plan: rounding back and forth    *)
(* between percent and kilograms does not walk, wherever the page's halves *)
(* fall.                                                                   *)
UntouchedSaysTheSame ==
    [][(/\ Submit /\ answer' = "stored" /\ page.how = "opened" /\ page.plan = plan
        /\ filed # Null /\ filed.plan = plan /\ filed.target # Null /\ page.latest = filed.pct
        /\ ~HalfCent(plan)) =>
          filed'.pct = filed.pct]_figureVars

\* The figures of a harvest agree with each other, on the page and on the server.
FiguresAgree ==
    [](FiguresTypeOK /\ StoredFiguresAddUp) /\ PageForetellsServer /\ UntouchedSaysTheSame

=============================================================================
