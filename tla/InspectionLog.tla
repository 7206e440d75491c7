---------------------------- MODULE InspectionLog ----------------------------
(***************************************************************************)
(* What the field app promises about an inspection once it is captured: it *)
(* belongs to the season growing at that moment, it is filed at most once, *)
(* only while that season still grows, and nobody is told it is saved      *)
(* before it is filed.  Phones, passwords, photos, drafts, requests and    *)
(* retries do not appear here.                                             *)
(***************************************************************************)
EXTENDS Naturals

CONSTANTS Keys, MaxSeasons

VARIABLES
    growing,    \* the season growing on the plot, 0 between seasons
    captured,   \* the season each inspection was captured in, 0 before that
    filings,    \* how many records each inspection has
    confirmed   \* inspections their author believes saved

log == <<growing, captured, filings, confirmed>>

Seasons == 0 .. MaxSeasons

Init == /\ growing = 1
        /\ captured \in [Keys -> {0, growing}]
        /\ filings = [k \in Keys |-> 0]
        /\ confirmed = {}

Turn == /\ growing' \in Seasons
        /\ UNCHANGED <<captured, filings, confirmed>>

Capture(k) == /\ captured[k] = 0
              /\ growing # 0
              /\ captured' = [captured EXCEPT ![k] = growing]
              /\ UNCHANGED <<growing, filings, confirmed>>

File(k) == /\ captured[k] = growing
           /\ growing # 0
           /\ filings[k] = 0
           /\ filings' = [filings EXCEPT ![k] = 1]
           /\ UNCHANGED <<growing, captured, confirmed>>

Confirm(k) == /\ filings[k] = 1
              /\ confirmed' = confirmed \cup {k}
              /\ UNCHANGED <<growing, captured, filings>>

Next == Turn \/ \E k \in Keys : Capture(k) \/ File(k) \/ Confirm(k)

Spec == Init /\ [][Next]_log

=============================================================================
