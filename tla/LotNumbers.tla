----------------------------- MODULE LotNumbers -----------------------------
(***************************************************************************)
(* The two identifiers the server makes up: the lot of a planting cycle,   *)
(* {label}-{supplier}-{P.Code}-{running}, and the code of a plot,          *)
(* {supplier}-{YYMM}-{running}.  Each running number counts in a series    *)
(* the identifier does not spell out: a key stored beside it.  How two     *)
(* requests race for one number is PlotImport's subject; here they come    *)
(* one after another, and what is of interest is the texts, made of what   *)
(* users type.                                                             *)
(*                                                                         *)
(* A text is the sequence of its characters, as what the code does with    *)
(* them (dropping spaces, joining with "-" and "|", counting) is what may  *)
(* go wrong.  Abstracted: the suppliers' codes, all of the form a plot     *)
(* code may embed; the date, to its four digits; MAX_AUTO_LOT_SERIES_KEY   *)
(* and the plot's side of the length limits.                               *)
(***************************************************************************)
EXTENDS Sequences, Naturals, FiniteSets

CONSTANTS
    Characters,   \* what texts are made of
    Suppliers,    \* suppliers.code
    Labels,       \* what may be typed as a cycle label
    ProductCodes, \* and as a P.Code
    Months,       \* YYMM of the planting date
    Grown,        \* cycles there may be at first
    TypedCodes,   \* plots there are at first, from when codes were typed
    MaxLotLength, \* MAX_LOT_NO_LENGTH
    MaxMade       \* bound on cycles and plots made

VARIABLES
    cycles,  \* plot_cycles with an automatic lot
    plots,   \* the plots table
    outcome  \* the last answer, and what had been asked

numberVars == <<cycles, plots, outcome>>

Text == Seq(Characters)

ASSUME TextsAssumption == Suppliers \cup Labels \cup ProductCodes \cup Months \subseteq Text
ASSUME TypedCodesAssumption ==
    IsFiniteSet(TypedCodes) /\ \A t \in TypedCodes : t.supplier \in Suppliers /\ t.plot_code \in Text
ASSUME NumberBoundsAssumption == {MaxLotLength, MaxMade} \subseteq Nat

-----------------------------------------------------------------------------
Blanks == {" ", "zero width"}

(* What is left of a text without its blanks.  (SelectSeq, spelled out to  *)
(* be reasoned about.)                                                     *)
_compact(text) ==
    LET kept[n \in 0 .. Len(text)] ==
            IF n = 0 THEN <<>>
            ELSE IF text[n] \in Blanks THEN kept[n - 1] ELSE Append(kept[n - 1], text[n])
    IN  kept[Len(text)]

DigitChars == <<"0", "1", "2", "3", "4", "5", "6", "7", "8", "9">>

Digit == {DigitChars[d] : d \in 1 .. 10}

ASSUME CharactersAssumption == Digit \cup {"-", "|", ":", "v2", "pcv1"} \subseteq Characters
ASSUME MonthsAssumption ==
    \A month \in Months : Len(month) = 4 /\ \A i \in 1 .. 4 : month[i] \in Digit

digits[n \in Nat] ==
    IF n < 10 THEN <<DigitChars[n + 1]>> ELSE Append(digits[n \div 10], DigitChars[(n % 10) + 1])

(* To three digits at least, never cut.                                    *)
zfill(n) == [i \in 1 .. (IF n < 10 THEN 2 ELSE IF n < 100 THEN 1 ELSE 0) |-> "0"] \o digits[n]

\* Mutant: parts joined without their lengths.
Prefixed_Bare(text) == text

Prefixed(text) == digits[Len(text)] \o <<":">> \o text

\* Mutant: the parts as they were typed.
build_auto_lot_series_key_AsTyped(supplier, label, code) ==
    <<"v2", "|">> \o Prefixed(supplier) \o <<"|">> \o Prefixed(label) \o <<"|">> \o Prefixed(code)

build_auto_lot_series_key(supplier, label, code) ==
    <<"v2", "|">> \o Prefixed(_compact(supplier)) \o <<"|">> \o Prefixed(_compact(label))
        \o <<"|">> \o Prefixed(_compact(code))

format_auto_lot_no(supplier, label, code, running) ==
    _compact(label) \o <<"-">> \o _compact(supplier) \o <<"-">> \o _compact(code)
        \o <<"-">> \o zfill(running)

_missing_components(supplier, label, code) ==
    \E text \in {supplier, label, code} : _compact(text) = <<>>

build_plot_code_series_key(supplier, month) ==
    <<"pcv1", "|">> \o Prefixed(supplier) \o <<"|">> \o Prefixed(month)

\* Mutant: the year alone is printed.
format_auto_plot_code_YearOnly(supplier, month, running) ==
    supplier \o <<"-">> \o SubSeq(month, 1, 2) \o <<"-">> \o zfill(running)

format_auto_plot_code(supplier, month, running) ==
    supplier \o <<"-">> \o month \o <<"-">> \o zfill(running)

MaxOf(numbers) == IF numbers = {} THEN 0 ELSE CHOOSE n \in numbers : \A k \in numbers : k <= n

\* Mutant: MAX without + 1.
_next_lot_running_no_Last(key) == MaxOf({c.running : c \in {d \in cycles : d.key = key}})

_next_lot_running_no(key) == MaxOf({c.running : c \in {d \in cycles : d.key = key}}) + 1

_next_plot_code_running_no(key) == MaxOf({p.running : p \in {q \in plots : q.key = key}}) + 1

-----------------------------------------------------------------------------
(* A series is the three texts without their blanks, and is numbered from  *)
(* anywhere without gaps.                                                  *)
Components(c) == <<_compact(c.supplier), _compact(c.label), _compact(c.code)>>

Numbered(rows) ==
    \A c, d \in rows : Components(c) = Components(d) =>
        /\ c.running = d.running => c = d
        /\ \A n \in c.running .. d.running :
              \E e \in rows : Components(e) = Components(c) /\ e.running = n

ASSUME GrownAssumption ==
    \A grown \in Grown :
        /\ IsFiniteSet(grown) /\ Numbered(grown)
        /\ \A g \in grown : /\ g.supplier \in Suppliers /\ g.label \in Text /\ g.code \in Text
                            /\ g.running \in Nat \ {0}

(* What the tables keep.  The label and the P.Code are stored as typed.    *)
CycleOf(supplier, label, code, running) ==
    [supplier |-> supplier, label |-> label, code |-> code, running |-> running,
     key |-> build_auto_lot_series_key(supplier, label, code),
     lot |-> format_auto_lot_no(supplier, label, code, running)]

PlotOf(supplier, month, running) ==
    [supplier |-> supplier, running |-> running,
     key |-> build_plot_code_series_key(supplier, month),
     plot_code |-> format_auto_plot_code(supplier, month, running)]

NumbersTypeOK ==
    /\ \A c \in cycles : /\ c.running \in Nat \ {0}
                         /\ {c.supplier, c.label, c.code, c.key, c.lot} \subseteq Text
    /\ \A p \in plots : p.running \in Nat /\ {p.supplier, p.key, p.plot_code} \subseteq Text
    /\ outcome.kind \in {"none", "made", "missing", "too_long", "lot taken", "code taken"}

NumbersInit ==
    /\ cycles \in {{CycleOf(g.supplier, g.label, g.code, g.running) : g \in grown} : grown \in Grown}
    /\ plots = {[supplier |-> t.supplier, running |-> 0, key |-> <<>>, plot_code |-> t.plot_code] :
                  t \in TypedCodes}
    /\ outcome = [kind |-> "none"]

Answered(kind, wanted) == outcome' = [kind |-> kind, wanted |-> wanted]

-----------------------------------------------------------------------------
(* uq_plot_cycles_auto_lot_v2_lot_no: a series of another key may print    *)
(* the same lot.  (Its other index, on key and running number, cannot      *)
(* refuse one request after another.)                                      *)
Taken(new) == \E c \in cycles : c.lot = new.lot

create_cycle(supplier, label, code) ==
    LET key == build_auto_lot_series_key(supplier, label, code)
        new == CycleOf(supplier, label, code, _next_lot_running_no(key))
        refused == IF _missing_components(supplier, label, code) THEN "missing"
                   ELSE IF Len(new.lot) > MaxLotLength THEN "too_long"
                   ELSE IF Taken(new) THEN "lot taken" ELSE "made"
    IN  /\ cycles' = IF refused = "made" THEN cycles \cup {new} ELSE cycles
        /\ Answered(refused, new)
        /\ UNCHANGED plots

(* uq_plots_supplier_code, whichever way a code came to be.                *)
CodeTaken(new) == \E p \in plots : p.supplier = new.supplier /\ p.plot_code = new.plot_code

create_plot(supplier, month) ==
    LET key == build_plot_code_series_key(supplier, month)
        new == PlotOf(supplier, month, _next_plot_code_running_no(key))
    IN  /\ plots' = IF CodeTaken(new) THEN plots ELSE plots \cup {new}
        /\ Answered(IF CodeTaken(new) THEN "code taken" ELSE "made", new)
        /\ UNCHANGED cycles

NumbersNext ==
    /\ Cardinality(cycles) + Cardinality(plots) < MaxMade
    /\ \/ \E supplier \in Suppliers, label \in Labels, code \in ProductCodes :
            create_cycle(supplier, label, code)
       \/ \E supplier \in Suppliers, month \in Months : create_plot(supplier, month)

NumbersSpec == NumbersInit /\ [][NumbersNext]_numberVars

-----------------------------------------------------------------------------
(* Spelled with or without spaces, a series is one series: its cycles have *)
(* numbers of their own, without gaps, and no text a user may type (digits *)
(* and separators included) puts a cycle into another's.                   *)
SeriesAreToldApart ==
    \A c, d \in cycles :
        /\ c.key = d.key <=> Components(c) = Components(d)
        /\ c # d /\ c.key = d.key => c.running # d.running
        /\ c.key = d.key /\ c.running < d.running =>
             \A n \in c.running .. d.running : \E e \in cycles : e.key = c.key /\ e.running = n

(* A lot is refused only because another series prints it: "Aug 2026" and  *)
(* "Aug2026" never stand in each other's way.                              *)
RefusedByAnotherSeries ==
    outcome.kind = "lot taken" =>
        \E c \in cycles : /\ c.lot = outcome.wanted.lot
                          /\ Components(c) # Components(outcome.wanted)

(* No two plots are given one code, of one supplier or of two, though a    *)
(* supplier's code may hold "-" and digits; a plot is refused only because *)
(* somebody had typed its code.                                            *)
PlotCodesAreUnique ==
    /\ \A p, q \in plots :
         p # q /\ p.running > 0 /\ q.running > 0 => p.plot_code # q.plot_code
    /\ outcome.kind = "code taken" =>
         \E p \in plots : p.running = 0 /\ p.plot_code = outcome.wanted.plot_code

\* Lots and plot codes tell plots and series apart.
CodesTellApart ==
    NumbersTypeOK /\ SeriesAreToldApart /\ RefusedByAnotherSeries /\ PlotCodesAreUnique

=============================================================================
