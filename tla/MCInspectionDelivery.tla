------------------------ MODULE MCInspectionDelivery ------------------------
(* Instances of InspectionDelivery for TLC. *)
EXTENDS InspectionDelivery, TLC

OneDraft == {1}
TwoDrafts == {1, 2}

Symmetry == Permutations(Tabs) \cup Permutations(Phones) \cup Permutations(Attempts)

=============================================================================
