------------------------ MODULE InspectionProtocols ------------------------
(* The labels of a growth stage's scores: administrators edit them on screens *)
(* that grow stale, while inspections are filed that keep the labels in force *)
(* at that moment.  A stage counts as a protocol only with a label for every  *)
(* slot; any other stage is filed without labels.  Some other stage is        *)
(* complete: an empty table, for which the built-in labels stand in, is left  *)
(* out.                                                                       *)
EXTENDS Naturals

CONSTANTS
    Slots,          \* the score columns of a record
    Wordings,       \* labels
    Desks,          \* screens of administrators
    Sheets,          \* records that may be filed
    Scores,         \* score values
    StartLabels,    \* the tables a run may start with
    Fallback,       \* the wording of a record without labels
    Blank           \* no label, no score, no snapshot

ASSUME ProtocolAssumption ==
    /\ StartLabels \subseteq [Slots -> Wordings \cup {Blank}]
    /\ Blank \notin Wordings /\ Blank \notin Scores /\ Fallback \notin Wordings
    /\ Blank \notin [Slots -> [label : Wordings, score : Scores \cup {Blank}]]

VARIABLES
    label,      \* the committed rows of the stage, Blank where a slot has none
    desk,       \* a screen: what it shows, what was typed, and its request
    kept        \* records: scores in the columns and the snapshot, with what was in force

protocolVars == <<label, desk, kept>>

Labelling == [Slots -> Wordings \cup {Blank}]
Unscored == [s \in Slots |-> Blank]
Looking(rows) == [at |-> "view", shown |-> rows, typed |-> rows, sent |-> Unscored, read |-> Unscored]
NoFile == [scores |-> Unscored, snapshot |-> Blank, force |-> Unscored]

-----------------------------------------------------------------------------
(* The administrator's screen *)

\* A refetch that brings other rows throws away what was typed.
Refetch(d) ==
    /\ desk[d].at \in {"view", "edit"} /\ desk[d].shown # label
    /\ desk' = [desk EXCEPT ![d] = Looking(label)]
    /\ UNCHANGED <<label, kept>>

Type(d, s, w) ==
    /\ desk[d].at \in {"view", "edit"} /\ label[s] # Blank
    /\ desk' = [desk EXCEPT ![d].at = "edit", ![d].typed[s] = w]
    /\ UNCHANGED <<label, kept>>

Cancel(d) ==
    /\ desk[d].at = "edit"
    /\ desk' = [desk EXCEPT ![d] = Looking(desk[d].shown)]
    /\ UNCHANGED <<label, kept>>

\* Mutant: every label of the stage is sent.
Changed_WholeStage(d) == desk[d].typed

\* The labels that differ from what the screen shows.
Changed(d) == [s \in Slots |-> IF desk[d].typed[s] = desk[d].shown[s] THEN Blank ELSE desk[d].typed[s]]

Save(d) ==
    /\ desk[d].at = "edit" /\ Changed(d) # Unscored
    /\ desk' = [desk EXCEPT ![d].at = "sent", ![d].sent = Changed(d)]
    /\ UNCHANGED <<label, kept>>

\* The request reads its rows without a lock.
ReadCriteria(d) ==
    /\ desk[d].at = "sent"
    /\ desk' = [desk EXCEPT ![d].at = "read", ![d].read = label]
    /\ UNCHANGED <<label, kept>>

\* Only a label that differs from the one read is written; then the screen fetches anew.
BulkUpdate(d) ==
    /\ desk[d].at = "read"
    /\ label' = [s \in Slots |->
                    IF desk[d].sent[s] \in {Blank, desk[d].read[s]} THEN label[s] ELSE desk[d].sent[s]]
    /\ desk' = [desk EXCEPT ![d] = Looking(label')]
    /\ UNCHANGED kept

Refused(d) ==
    /\ desk[d].at \in {"sent", "read"}
    /\ desk' = [desk EXCEPT ![d] = Looking(label)]
    /\ UNCHANGED <<label, kept>>

-----------------------------------------------------------------------------
(* Filing and showing a record *)

IsComplete == \A s \in Slots : label[s] # Blank

BuildSnapshot(scores) == [s \in Slots |-> [label |-> label[s], score |-> scores[s]]]

\* Mutant: a snapshot the client brings is kept.
ApplyProtocolSnapshot_Trusting(scores, own) ==
    IF own # Blank THEN own ELSE IF IsComplete THEN BuildSnapshot(scores) ELSE Blank

\* Mutant: a stage with some of its labels has a snapshot.
ApplyProtocolSnapshot_Partial(scores, own) ==
    IF \E s \in Slots : label[s] # Blank THEN BuildSnapshot(scores) ELSE Blank

\* A client's own snapshot is stripped; the server's is built from the rows of one query.
ApplyProtocolSnapshot(scores, own) == IF IsComplete THEN BuildSnapshot(scores) ELSE Blank

\* A snapshot as a draft may bring it, of the labels some screen shows.
Brought == {Blank} \cup {[s \in Slots |-> [label |-> desk[d].shown[s], score |-> Blank]] : d \in Desks}

File(r, scores, own) ==
    /\ kept[r] = NoFile /\ scores # Unscored
    /\ kept' = [kept EXCEPT ![r] =
                   [scores |-> scores, snapshot |-> ApplyProtocolSnapshot(scores, own),
                    force |-> IF IsComplete THEN label ELSE [s \in Slots |-> Fallback]]]
    /\ UNCHANGED <<label, desk>>

\* Labels from the snapshot where it has one, scores from it or else from the columns.
ScoreDisplay(r) ==
    [s \in Slots |->
        [label |-> IF kept[r].snapshot = Blank \/ kept[r].snapshot[s].label = Blank
                   THEN Fallback ELSE kept[r].snapshot[s].label,
         score |-> IF kept[r].snapshot = Blank \/ kept[r].snapshot[s].score = Blank
                   THEN kept[r].scores[s] ELSE kept[r].snapshot[s].score]]

-----------------------------------------------------------------------------

ProtocolInit ==
    /\ label \in StartLabels
    /\ desk = [d \in Desks |-> Looking(label)]
    /\ kept = [r \in Sheets |-> NoFile]

ProtocolNext ==
    \/ \E d \in Desks : \/ Refetch(d) \/ Cancel(d) \/ Save(d) \/ ReadCriteria(d) \/ BulkUpdate(d) \/ Refused(d)
                        \/ \E s \in Slots, w \in Wordings : Type(d, s, w)
    \/ \E r \in Sheets, scores \in [Slots -> Scores \cup {Blank}], own \in Brought :
          File(r, scores, own)

ProtocolSpec == ProtocolInit /\ [][ProtocolNext]_protocolVars

-----------------------------------------------------------------------------
(* Properties *)

ProtocolTypeOK ==
    /\ label \in Labelling
    /\ \A d \in Desks : /\ desk[d].at \in {"view", "edit", "sent", "read"}
                        /\ {desk[d].shown, desk[d].typed, desk[d].sent, desk[d].read} \subseteq Labelling
    /\ \A r \in Sheets : /\ kept[r].scores \in [Slots -> Scores \cup {Blank}]
                         /\ kept[r].snapshot = Blank \/ \A s \in Slots :
                               kept[r].snapshot[s].label \in Wordings

(* A saved edit changes only what its administrator retyped: labels another   *)
(* one saved since the screen was loaded stay as they are.                    *)
UntouchedLabelsSurvive ==
    [][\A s \in Slots : label'[s] # label[s] =>
          \E d \in Desks : /\ desk[d].at = "read" /\ label'[s] = desk[d].typed[s]
                           /\ desk[d].typed[s] # desk[d].shown[s]]_protocolVars

(* A record shows the scores it was filed with under the labels in force when *)
(* it was filed, or all of them under the old wording, whatever is edited     *)
(* later and whatever snapshot its sender brought.                            *)
HistoryReadsAsFiled ==
    \A r \in Sheets : kept[r] # NoFile =>
        ScoreDisplay(r) = [s \in Slots |-> [label |-> kept[r].force[s], score |-> kept[r].scores[s]]]

\* Labels change only where somebody retyped them, and what was filed reads as it did.
LabelsStand == [](ProtocolTypeOK /\ HistoryReadsAsFiled) /\ UntouchedLabelsSurvive

=============================================================================
