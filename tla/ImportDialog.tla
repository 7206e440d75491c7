---------------------------- MODULE ImportDialog ----------------------------
(***************************************************************************)
(* The dialogs that import an Excel file (PlotImportModal.tsx for plots,   *)
(* SupplierImportModal.tsx and MasterDataCropVarietyImportModal.tsx for    *)
(* lists): check a file, look at its preview, commit it, with a server     *)
(* that may answer late, after the 15 seconds axios waits, or never, and a *)
(* proxy (frontend/nginx.conf) that answers 502 for a server it has lost.  *)
(*                                                                         *)
(* Nothing cancels a check: choosing another file, or closing a message of *)
(* the plots dialog, leaves it under way, and its answer is shown when it  *)
(* comes.  What stands between a stale preview and the tables is then the  *)
(* server's comparison of what is sent with what was approved; files of    *)
(* plots that close no cycle and set no password are sent without it.      *)
(*                                                                         *)
(* Abstracted: a file to whether the server finds errors in it, and the    *)
(* data it touches to a revision.  The transaction of one import is        *)
(* PlotImport, SupplierImport and MasterData.                              *)
(***************************************************************************)
EXTENDS Naturals, Sequences, FiniteSets

CONSTANTS
    Workbooks,  \* the files the user has at hand
    Bound,      \* those the plots endpoint compares with an approval
    MaxAsks,    \* bound on checks
    MaxSends,   \* bound on commits
    MaxRev,     \* bound on changes of the data a file touches
    Null         \* JavaScript null

ASSUME DialogAssumption == {MaxAsks, MaxSends, MaxRev} \subseteq Nat

VARIABLES
    kind,       \* which dialog: "plots" or "list"
    careful,    \* this user leaves file and messages alone until every check is answered
    rev,        \* the data each file touches, as far as an approval is bound to it
    flawed,     \* files some row of which the server would refuse now
    chosen,     \* file
    preview,    \* preview
    outcome,    \* commitOutcome.phase, "unconfirmed" for an error with no response
    asks,       \* previewM's and refreshPreviewReadOnly's requests
    sends       \* commitM's requests, the last of them in hand while it waits

dialogData == <<rev, flawed>>
dialogVars == <<kind, careful, dialogData, chosen, preview, outcome, asks, sends>>

Preview == [file : Workbooks, rev : 0 .. MaxRev, errors : BOOLEAN, ask : 0 .. MaxAsks]
OptPreview == Preview \cup {Null}

\* button: a mutation of previewM; open: the dialog still listens.
Ask == [file : Workbooks, button : BOOLEAN, answer : OptPreview, open : BOOLEAN]
Send == [file : Workbooks, preview : Preview, answer : {"none", "200", "409", "422", "500"},
         waits : BOOLEAN]

DialogTypeOK ==
    /\ kind \in {"plots", "list"} /\ careful \in BOOLEAN
    /\ rev \in [Workbooks -> 0 .. MaxRev] /\ flawed \subseteq Workbooks
    /\ chosen \in Workbooks \cup {Null} /\ preview \in OptPreview
    /\ outcome \in {"idle", "completed", "blocked", "stateConflict", "error", "unconfirmed"}
    /\ asks \in Seq(Ask) /\ Len(asks) <= MaxAsks
    /\ sends \in Seq(Send) /\ Len(sends) <= MaxSends

DialogInit ==
    /\ kind \in {"plots", "list"} /\ careful \in BOOLEAN
    /\ rev = [f \in Workbooks |-> 0] /\ flawed \in SUBSET Workbooks
    /\ chosen = Null /\ preview = Null /\ outcome = "idle"
    /\ asks = <<>> /\ sends = <<>>

-----------------------------------------------------------------------------
(* What the buttons go by *)

Busy == \E i \in DOMAIN sends : sends[i].waits
Pending == \E i \in DOMAIN asks : /\ asks[i].open /\ asks[i].button
                                  /\ \A k \in i + 1 .. Len(asks) : ~asks[k].button

Waited == careful => \A i \in DOMAIN asks : ~asks[i].open

Asked(f, button) ==
    Append(asks, [file |-> f, button |-> button, answer |-> Null, open |-> TRUE])

-----------------------------------------------------------------------------
(* The user *)

\* onFileChange: everything shown goes, a check under way does not.
ChooseFile(f) ==
    /\ outcome # "completed" /\ ~Busy /\ Waited
    /\ f # chosen
    /\ chosen' = f /\ preview' = Null /\ outcome' = "idle"
    /\ UNCHANGED <<kind, careful, dialogData, asks, sends>>

\* Mutant: checking again stays possible after an import.
MayCheck_AfterImport == ~Pending /\ ~Busy

\* "Check the file", and "check the file again" under a refusal.
MayCheck == ~Pending /\ ~Busy /\ outcome # "completed"

\* The plots dialog's "close this message" under an error checks the file as well, and
\* is never disabled.
MayDismiss == kind = "plots" /\ outcome \in {"error", "unconfirmed"} /\ Waited

\* runPreview
Check == /\ chosen # Null /\ Len(asks) < MaxAsks
         /\ MayCheck \/ MayDismiss
         /\ preview' = Null
         /\ asks' = Asked(chosen, TRUE)
         /\ UNCHANGED <<kind, careful, dialogData, chosen, outcome, sends>>

\* Mutant: what was not confirmed may be sent again as it is.
CanCommit_Resends ==
    /\ chosen # Null /\ preview # Null /\ ~preview.errors /\ ~Pending /\ ~Busy
    /\ IF kind = "plots" THEN outcome \in {"idle", "unconfirmed"} ELSE outcome # "completed"

\* canCommit: after a refusal or an error the plots dialog waits for a fresh preview; the
\* list dialogs only let go of the preview a refusal has shown to be stale.
CanCommit ==
    /\ chosen # Null /\ preview # Null /\ ~preview.errors /\ ~Pending /\ ~Busy
    /\ IF kind = "plots" THEN outcome = "idle" ELSE outcome # "completed"

\* The file on the page is sent with the approval on the page.
CommitFile ==
    /\ CanCommit /\ Len(sends) < MaxSends
    /\ sends' = Append(sends, [file |-> chosen, preview |-> preview, answer |-> "none",
                               waits |-> TRUE])
    /\ UNCHANGED <<kind, careful, dialogData, chosen, preview, outcome, asks>>

\* handleClose, and the dialog opened anew; nobody hears the checks of the old one.
Reopen == /\ ~Busy /\ chosen # Null
          /\ chosen' = Null /\ preview' = Null /\ outcome' = "idle"
          /\ asks' = [i \in DOMAIN asks |-> [asks[i] EXCEPT !.open = FALSE, !.answer = Null]]
          /\ UNCHANGED <<kind, careful, dialogData, sends>>

-----------------------------------------------------------------------------
(* The server *)

\* preview_import: read-only.
ServeAsk(i) ==
    /\ asks[i].open /\ asks[i].answer = Null
    /\ asks' = [asks EXCEPT ![i].answer = [file |-> asks[i].file, rev |-> rev[asks[i].file],
                                           errors |-> asks[i].file \in flawed, ask |-> i]]
    /\ UNCHANGED <<kind, careful, dialogData, chosen, preview, outcome, sends>>

\* Mutants: the file's digest is not looked at; only the digest is.
Matches_AnyFile(s) == s.preview.rev = rev[s.preview.file]
Matches_DigestOnly(s) == s.preview.file = s.file

\* The bytes and the rows' resolved state are those of the approval.
Matches(s) == s.preview.file = s.file /\ s.preview.rev = rev[s.file]

Compared(f) == kind = "list" \/ f \in Bound

\* commit_import_execute validates before it compares, the list imports after.
Refusal(s) ==
    IF Compared(s.file) /\ ~Matches(s) /\ (kind = "list" \/ s.file \notin flawed) THEN "409"
    ELSE IF s.file \in flawed THEN "422"
    ELSE "none"

Answer(i, status) == sends' = [sends EXCEPT ![i].answer = status]

\* One transaction; it runs whether or not the dialog still waits for it.
Execute(i) ==
    LET s == sends[i] IN
    /\ s.answer = "none" /\ rev[s.file] < MaxRev
    /\ IF Refusal(s) = "none"
       THEN Answer(i, "200") /\ rev' = [rev EXCEPT ![s.file] = @ + 1]
       ELSE Answer(i, Refusal(s)) /\ UNCHANGED rev
    /\ UNCHANGED <<kind, careful, flawed, chosen, preview, outcome, asks>>

\* A number already taken, a deadlock, a COMMIT that fails: rolled back, and a 409, 422 or
\* 500 that is no refusal to the dialog.
Fail(i) == /\ sends[i].answer = "none"
           /\ Answer(i, "500")
           /\ UNCHANGED <<kind, careful, dialogData, chosen, preview, outcome, asks>>

\* Others edit what a file touches, or what its rows are judged by.
EditByOthers(f) ==
    /\ rev[f] < MaxRev
    /\ rev' = [rev EXCEPT ![f] = @ + 1]
    /\ flawed' \in {flawed, flawed \cup {f}, flawed \ {f}}
    /\ UNCHANGED <<kind, careful, chosen, preview, outcome, asks, sends>>

-----------------------------------------------------------------------------
(* Answers *)

Closed(i) == [asks EXCEPT ![i].open = FALSE, ![i].answer = Null]

\* previewM.onSuccess resets the outcome, refreshPreviewReadOnly does not.
OutcomeAfter(a) == IF a.button THEN "idle" ELSE outcome

HearAsk(i) ==
    /\ asks[i].open /\ asks[i].answer # Null
    /\ preview' = asks[i].answer
    /\ outcome' = OutcomeAfter(asks[i])
    /\ asks' = Closed(i)
    /\ UNCHANGED <<kind, careful, dialogData, chosen, sends>>

\* Refused, lost or timed out: the outcome stays, and so does Commit's being disabled.
LoseAsk(i) ==
    /\ asks[i].open /\ asks[i].answer = Null
    /\ asks' = Closed(i)
    /\ UNCHANGED <<kind, careful, dialogData, chosen, preview, outcome, sends>>

Current == Len(sends)
Heard == [sends EXCEPT ![Current].waits = FALSE]

\* commitM.onSuccess: completed, in either dialog.
HearCompleted ==
    /\ Busy /\ sends[Current].answer = "200"
    /\ sends' = Heard /\ outcome' = "completed"
    /\ UNCHANGED <<kind, careful, dialogData, chosen, preview, asks>>

\* A refusal of the plots endpoint; after a 422 the table is refreshed in the background.
HearRefusalOfPlots ==
    /\ Busy /\ kind = "plots" /\ sends[Current].answer \in {"409", "422"}
    /\ sends' = Heard
    /\ IF sends[Current].answer = "409"
       THEN outcome' = "stateConflict" /\ UNCHANGED asks
       ELSE /\ outcome' = "blocked" /\ Len(asks) < MaxAsks
            /\ asks' = Asked(chosen, FALSE)
    /\ UNCHANGED <<kind, careful, dialogData, chosen, preview>>

\* A refusal of a list endpoint takes the preview away; a 422 may bring the server's own.
HearRefusalOfList ==
    /\ Busy /\ kind = "list" /\ sends[Current].answer \in {"409", "422"}
    /\ sends' = Heard
    /\ IF sends[Current].answer = "409"
       THEN outcome' = "stateConflict" /\ preview' = Null
       ELSE /\ outcome' = "blocked"
            /\ preview' \in {Null, [sends[Current].preview EXCEPT !.errors = TRUE]}
    /\ UNCHANGED <<kind, careful, dialogData, chosen, asks>>

\* commitM.onError, past the refusals: phase is "error" for confirmed, which is
\* error.status !== null, and "unconfirmed" else.
HearError(phase) ==
    /\ Busy
    /\ outcome' = phase
    /\ sends' = Heard
    /\ UNCHANGED <<kind, careful, dialogData, chosen, preview, asks>>

\* The server says that it failed.
HearFailure == Busy /\ sends[Current].answer = "500" /\ HearError("error")

\* The proxy says 502, whatever the server behind it has done or is yet to do: it restarts,
\* or its connection breaks, before the transaction, within it, or after its COMMIT.
HearGateway == HearError("error")

\* Nobody says anything within the time axios waits.
HearNothing == HearError("unconfirmed")

DialogNext ==
    \/ \E f \in Workbooks : ChooseFile(f) \/ EditByOthers(f)
    \/ Check \/ CommitFile \/ Reopen
    \/ \E i \in DOMAIN asks : ServeAsk(i) \/ HearAsk(i) \/ LoseAsk(i)
    \/ \E i \in DOMAIN sends : Execute(i) \/ Fail(i)
    \/ HearCompleted \/ HearRefusalOfPlots \/ HearRefusalOfList
    \/ HearFailure \/ HearGateway \/ HearNothing

DialogSpec == DialogInit /\ [][DialogNext]_dialogVars

-----------------------------------------------------------------------------
(* Properties *)

Lands(i) == i \in DOMAIN sends /\ sends[i].answer = "none" /\ sends'[i].answer = "200"

\* What is imported is what the user was shown, without errors; by the server's comparison
\* the data is also still as it was shown.  Workbooks that are not compared have only the user
\* to rely on, who must let every check be answered before choosing another.
LandsAsPreviewed ==
    [][\A i \in 1 .. MaxSends : Lands(i) =>
          LET s == sends[i] IN
          /\ Compared(s.file) \/ careful => s.preview.file = s.file
          /\ s.preview.file = s.file => ~s.preview.errors
          /\ Compared(s.file) => s.preview.rev = rev[s.file]]_dialogVars

\* Whatever is clicked again after a lost answer, one approval is imported at most once.
EachApprovalLandsOnce ==
    \A i, k \in DOMAIN sends :
        /\ i # k /\ sends[i].answer = "200" /\ sends[k].answer = "200"
        => sends[i].preview.ask # sends[k].preview.ask

\* When a dialog shows a refusal, the commit it speaks of was refused and will not take
\* effect; when it says the file was imported, it was.  An error says nothing for certain,
\* although the dialog takes any response for a rollback: it may be the proxy's.
SaysWhatHappened ==
    /\ outcome \in {"blocked", "stateConflict"} /\ ~Busy
          => sends[Current].answer \in {"409", "422"}
    /\ outcome = "completed" => sends[Current].answer = "200" /\ sends[Current].file = chosen

\* After an import Commit is locked for as long as the dialog is open: always in the list
\* dialogs; in the plots dialog for a user who does not press "close this message" while
\* the check its last press began is under way.
ImportedStaysLocked ==
    [][outcome = "completed" /\ (kind = "list" \/ careful) => outcome' = "completed" \/ chosen' = Null]_dialogVars

\* A dialog imports what it showed, once, speaks the truth of refusals and imports, and
\* stays locked after an import.
DialogsKeepTheirWord ==
    /\ [](DialogTypeOK /\ EachApprovalLandsOnce /\ SaysWhatHappened)
    /\ LandsAsPreviewed /\ ImportedStaysLocked

=============================================================================
