----------------------------- MODULE InspectPage -----------------------------
(***************************************************************************)
(* The public inspection page (PublicInspect.tsx): one browser tab, one    *)
(* user, several plots.  Its event handlers are asynchronous functions;    *)
(* each runs to its next await, holds on to the values it was started with *)
(* and, when its answer comes, writes the page's state as it then is.      *)
(* The page disables the submit button while a submission is under way,    *)
(* not the buttons that leave the form.                                    *)
(*                                                                         *)
(* Abstracted: what is typed (a form is known by the plot and the number   *)
(* it was opened with), connectivity (an answer may simply be "failed"),   *)
(* seasons (InspectionDelivery has them; here each plot has one).          *)
(***************************************************************************)
EXTENDS Naturals

CONSTANTS
    Plots,          \* plots listed for the user's number
    MaxSessions,    \* bound on phone sessions begun
    MaxForms,       \* bound on forms opened
    MaxKeys,        \* bound on submission identities created
    None            \* JavaScript null

VARIABLES
    step,           \* what the page shows
    session,        \* phoneAccessSessionToken, by number
    selected,       \* selectedPlotId
    token,          \* plot of inspectionSessionToken
    info,           \* plot of plotInfo, the form's heading
    fields,         \* the form whose fields and photos the page holds
    identity,       \* submissionIdentityRef
    receipt,        \* the form whose receipt the success step shows
    select,         \* handlePlotClick under way
    submit,         \* handleSubmit under way
    reload,         \* session of a refreshPlotsList under way
    sessions, forms, keys,  \* numbers given out so far
    patient,        \* this user does nothing while an answer is outstanding
    adrift,         \* requests the page gave up on and the server may still take
    filed           \* what the server has filed

pageVars == <<step, session, selected, token, info, fields, identity, receipt>>
counters == <<sessions, forms, keys, patient>>
serverVars == <<adrift, filed>>
vars == <<pageVars, select, submit, reload, counters, serverVars>>

ASSUME BoundsAssumption == {MaxSessions, MaxForms, MaxKeys} \subseteq Nat \ {0}

OptPlot == Plots \cup {None}
OptSession == 1 .. MaxSessions \cup {None}
FormId == [plot : Plots, no : 1 .. MaxForms]
OptForm == FormId \cup {None}
Identity == [key : 1 .. MaxKeys, plot : Plots]

ASSUME NoneAssumption == None \notin Plots \cup Nat \cup FormId \cup Identity

\* What handleSubmit closed over, and the await it stands at.
Submission == [pc : {"none", "posting", "posted", "renewing", "reloading"},
               key : 0 .. MaxKeys, captured : OptPlot, token : OptPlot,
               form : OptForm, selected : OptPlot, session : OptSession]
NoSubmission == [pc |-> "none", key |-> 0, captured |-> None, token |-> None,
                 form |-> None, selected |-> None, session |-> None]

Selection == [plot : OptPlot, session : OptSession]
NoSelection == [plot |-> None, session |-> None]

Filing == [key : 1 .. MaxKeys, plot : Plots, form : FormId]

TypeOK == /\ step \in {"phone", "plots", "form", "success"}
          /\ session \in OptSession
          /\ {selected, token, info} \subseteq OptPlot
          /\ fields \in OptForm
          /\ identity \in Identity \cup {None}
          /\ receipt \in OptForm
          /\ select \in Selection
          /\ submit \in Submission
          /\ reload \in OptSession
          /\ sessions \in 0 .. MaxSessions
          /\ forms \in 0 .. MaxForms
          /\ keys \in 0 .. MaxKeys
          /\ patient \in BOOLEAN
          /\ adrift \subseteq Filing
          /\ filed \subseteq Filing

Init == /\ step = "phone"
        /\ session = None
        /\ selected = None
        /\ token = None
        /\ info = None
        /\ fields = None
        /\ identity = None
        /\ receipt = None
        /\ select = NoSelection
        /\ submit = NoSubmission
        /\ reload = None
        /\ sessions = 0
        /\ forms = 0
        /\ keys = 0
        /\ patient \in BOOLEAN
        /\ adrift = {}
        /\ filed = {}

-----------------------------------------------------------------------------
(* Helpers of the page *)

Quiet == select = NoSelection /\ submit = NoSubmission /\ reload = None

\* Mutant: the identity outlives the form it was made for.
ResetPlotDraft_KeepsIdentity == /\ selected' = None
                                /\ token' = None
                                /\ info' = None
                                /\ fields' = None
                                /\ UNCHANGED identity

\* resetPlotDraft
ResetPlotDraft == /\ selected' = None
                  /\ token' = None
                  /\ info' = None
                  /\ fields' = None
                  /\ identity' = None

\* clearPhoneSession, and the step that every caller sets after it.
EndSession == /\ ResetPlotDraft
              /\ session' = None
              /\ receipt' = None
              /\ step' = "phone"

KeepsForm == UNCHANGED <<selected, token, info, fields, identity>>
ServerOnly == UNCHANGED <<pageVars, select, reload, counters>>

-----------------------------------------------------------------------------
(* The user *)

\* No button but submit (and the plot cards) is disabled while an answer is
\* outstanding; whether the user waits for it is up to the user.
UserActs == patient => Quiet

\* handlePhoneLookup: the number (and password) entered, a new session.
Lookup == /\ UserActs
          /\ step = "phone"
          /\ sessions < MaxSessions
          /\ sessions' = sessions + 1
          /\ session' = sessions + 1
          /\ step' = "plots"
          /\ KeepsForm
          /\ UNCHANGED <<receipt, select, submit, reload, forms, keys, patient, serverVars>>

\* handlePlotClick up to its await; one at a time (selectingPlotId).
ClickPlot(p) == /\ UserActs
                /\ step = "plots"
                /\ session # None
                /\ select = NoSelection
                /\ select' = [plot |-> p, session |-> session]
                /\ UNCHANGED <<pageVars, submit, reload, counters, serverVars>>

\* Mutant: a new UUID for every try.
IdentityFor_EveryTry(id) == keys < MaxKeys /\ id = [key |-> keys + 1, plot |-> info]

\* ensureSubmissionIdentity
IdentityFor(id) == IF identity # None THEN id = identity
                   ELSE keys < MaxKeys /\ id = [key |-> keys + 1, plot |-> info]

\* handleSubmit up to its await.  One at a time; the form keeps one identity,
\* made at the first try for the plot it then shows.
Submit == /\ UserActs
          /\ step = "form"
          /\ info # None /\ token # None /\ fields # None
          /\ submit = NoSubmission
          /\ \E id \in Identity :
                /\ IdentityFor(id)
                /\ identity' = id
                /\ keys' = IF id.key > keys THEN id.key ELSE keys
                /\ submit' = [pc |-> "posting", key |-> id.key, captured |-> id.plot,
                              token |-> token, form |-> fields, selected |-> selected,
                              session |-> session]
          /\ UNCHANGED <<step, session, selected, token, info, fields, receipt>>
          /\ UNCHANGED <<select, reload, sessions, forms, patient, serverVars>>

\* handleBackToList; the user agrees to lose what the form holds.
BackToList == /\ UserActs
              /\ step = "form"
              /\ ResetPlotDraft
              /\ step' = "plots"
              /\ UNCHANGED <<session, receipt, select, submit, reload, counters, serverVars>>

\* handleChangePhone
ChangePhone == /\ UserActs
               /\ step # "phone"
               /\ EndSession
               /\ UNCHANGED <<select, submit, reload, counters, serverVars>>

\* inspectNextPlot / backToPlotsAfterSubmit up to their await.
NextPlot == /\ UserActs
            /\ step = "success"
            /\ ResetPlotDraft
            /\ step' = "plots"
            /\ reload' = session
            /\ UNCHANGED <<session, receipt, select, submit, counters, serverVars>>

-----------------------------------------------------------------------------
(* The server, as far as a key's fate depends on the page *)

\* What this submission would have filed.
Request == [key |-> submit.key, plot |-> submit.token, form |-> submit.form]

\* A key is filed once, by a token for the plot it was captured on.
Files(r) == /\ \A q \in filed : q.key # r.key
            /\ filed' = filed \cup {r}

FileSubmission == /\ submit.pc = "posting"
                  /\ submit.captured = submit.token
                  /\ Files(Request)
                  /\ submit' = [submit EXCEPT !.pc = "posted"]
                  /\ UNCHANGED adrift
                  /\ ServerOnly

\* A request that was given up arrives after all.
FileLate == \E r \in adrift : /\ Files(r)
                              /\ adrift' = adrift \ {r}
                              /\ UNCHANGED submit
                              /\ ServerOnly

FiledBefore == \E r \in filed : r.key = submit.key /\ r.plot = submit.token

-----------------------------------------------------------------------------
(* Answers: the handlers go on from their awaits *)

\* select-plot answers the click: the form opens on that plot.
OpenForm ==
    LET p == select.plot IN
    /\ p # None
    /\ forms < MaxForms
    /\ forms' = forms + 1
    /\ selected' = p
    /\ token' = p
    /\ info' = p
    /\ fields' = [plot |-> p, no |-> forms + 1]
    /\ step' = "form"
    /\ select' = NoSelection
    /\ UNCHANGED <<session, identity, receipt, submit, reload, sessions, keys, patient, serverVars>>

\* 404 or 409: the list is loaded again; anything else is only shown.
ClickRefused == /\ select.plot # None
                /\ reload' \in {reload, select.session}
                /\ select' = NoSelection
                /\ UNCHANGED <<pageVars, submit, counters, serverVars>>

ClickUnauthorized == /\ select.plot # None
                     /\ EndSession
                     /\ select' = NoSelection
                     /\ UNCHANGED <<submit, reload, counters, serverVars>>

\* refreshPlotsList: the list, or (401) the end of the session.
Reloaded == /\ reload # None
            /\ reload' = None
            /\ UNCHANGED <<pageVars, select, submit, counters, serverVars>>

ReloadUnauthorized == /\ reload # None
                      /\ reload' = None
                      /\ EndSession
                      /\ UNCHANGED <<select, submit, counters, serverVars>>

HandlerOnly == UNCHANGED <<select, reload, counters, serverVars>>

\* Mutant: the receipt kept is the record, not the form it answers.
Saved_Record == /\ submit.pc = "posted"
                /\ receipt' = Request
                /\ step' = "success"
                /\ submit' = NoSubmission
                /\ KeepsForm
                /\ UNCHANGED session
                /\ HandlerOnly

\* 201 or 200: the success step.
Saved == /\ \/ submit.pc = "posted"
            \/ submit.pc = "posting" /\ FiledBefore
         /\ receipt' = submit.form
         /\ step' = "success"
         /\ submit' = NoSubmission
         /\ KeepsForm
         /\ UNCHANGED session
         /\ HandlerOnly

\* Mutant: every refusal is taken for the plot's end.
NotSaved_Resets == /\ submit.pc = "posting"
                   /\ submit' = NoSubmission
                   /\ ResetPlotDraft
                   /\ UNCHANGED <<step, session, receipt>>
                   /\ HandlerOnly

\* 409, 422, 429, 5xx: a message, and the form as it is.
NotSaved == /\ submit.pc = "posting"
            /\ submit' = NoSubmission
            /\ UNCHANGED pageVars
            /\ HandlerOnly

\* No answer within the timeout: the same for the page, anything on the server.
NoAnswer == /\ submit.pc \in {"posting", "posted"}
            /\ adrift' = IF submit.pc = "posting" /\ submit.captured = submit.token
                         THEN adrift \cup {Request} ELSE adrift
            /\ submit' = NoSubmission
            /\ UNCHANGED <<pageVars, select, reload, counters, filed>>

\* 404: the form is reset, and the list loaded again.
PlotGone == /\ submit.pc = "posting"
            /\ ResetPlotDraft
            /\ submit' = [submit EXCEPT !.pc = "reloading"]
            /\ UNCHANGED <<step, session, receipt>>
            /\ HandlerOnly

\* Whatever refreshPlotsList did, the plots step follows.
BackFromGone == /\ submit.pc = "reloading"
                /\ \/ KeepsForm /\ UNCHANGED <<session, receipt>>
                   \/ ResetPlotDraft /\ session' = None /\ receipt' = None
                /\ step' = "plots"
                /\ submit' = NoSubmission
                /\ HandlerOnly

\* 401, up to the next await; with no session or no plot the session ends.
TokenExpired == /\ submit.pc = "posting"
                /\ IF submit.session = None \/ submit.selected = None
                   THEN EndSession /\ submit' = NoSubmission
                   ELSE UNCHANGED pageVars /\ submit' = [submit EXCEPT !.pc = "renewing"]
                /\ HandlerOnly

\* Mutant: the plot is opened again, as a click on its card opens it.
Renewed_OpensForm == /\ submit.pc = "renewing"
                     /\ forms < MaxForms
                     /\ forms' = forms + 1
                     /\ token' = submit.selected
                     /\ info' = submit.selected
                     /\ fields' = [plot |-> submit.selected, no |-> forms + 1]
                     /\ submit' = NoSubmission
                     /\ UNCHANGED <<step, session, selected, identity, receipt>>
                     /\ UNCHANGED <<select, reload, sessions, keys, patient, serverVars>>

\* handleInspectionTokenExpiredAtSubmit: the new token and heading are for the plot
\* the submission was for; fields, photos and identity are left alone.
Renewed == /\ submit.pc = "renewing"
           /\ token' = submit.selected
           /\ info' = submit.selected
           /\ submit' = NoSubmission
           /\ UNCHANGED <<step, session, selected, fields, identity, receipt>>
           /\ HandlerOnly

RenewalFailed == /\ submit.pc = "renewing"
                 /\ EndSession
                 /\ submit' = NoSubmission
                 /\ HandlerOnly

-----------------------------------------------------------------------------
User == \/ Lookup
        \/ \E p \in Plots : ClickPlot(p)
        \/ Submit
        \/ BackToList
        \/ ChangePhone
        \/ NextPlot

Answered == \/ OpenForm \/ ClickRefused \/ ClickUnauthorized
            \/ Reloaded \/ ReloadUnauthorized
            \/ Saved \/ NotSaved \/ NoAnswer \/ PlotGone \/ BackFromGone
            \/ TokenExpired \/ Renewed \/ RenewalFailed

Next == User \/ FileSubmission \/ FileLate \/ Answered

Spec == Init /\ [][Next]_vars

-----------------------------------------------------------------------------
(* Properties *)

\* No form is filed twice: retries, lost answers and renewed tokens all go under the
\* identity made at its first submission, which no other form inherits.
EachFormFiledOnce ==
    \A r, q \in filed : r.form = q.form \/ r.key = q.key => r = q

\* The success step is never shown for an inspection that is not filed.
SuccessIsFiled == receipt # None => \E r \in filed : r.form = receipt

\* An inspection is filed on the plot whose form it was written in ("the submission
\* identity belongs to ONE plot's draft").
FiledWhereWritten == \A r \in filed : r.plot = r.form.plot

\* For a user who waits for every answer it is, whatever expires, is refused or
\* arrives late in between.
PatientFilesWhereWritten == patient => FiledWhereWritten

\* What a patient user has in a form goes only when they leave it, or when its own
\* submission finds the plot gone or the session over ("cleared whenever that draft is
\* abandoned/superseded"; "deliberately untouched" by a renewed token); for the impatient
\* a late 404 of one plot takes away the form of the next.
PatientKeepsForms ==
    [][patient /\ fields # None /\ fields' # fields =>
          \/ BackToList \/ ChangePhone
          \/ NextPlot /\ receipt = fields
          \/ /\ submit.form = fields
             /\ PlotGone \/ session' = None]_vars

\* A form is filed once, and what is shown as saved was.
FormsAreFiledOnce == TypeOK /\ EachFormFiledOnce /\ SuccessIsFiled

\* Whoever waits for every answer files where they wrote, and loses no form.
PatientUsersAreServed == []PatientFilesWhereWritten /\ PatientKeepsForms

=============================================================================
