--------------------------- MODULE Screens_proofs ---------------------------
(***************************************************************************)
(* What holds of the public inspection page (InspectPage), of the import   *)
(* dialogs (ImportDialog) and of the executive dashboard                   *)
(* (ExecutiveDashboard) for any plots, files, users, reports, filters and  *)
(* windows, and numbers of sessions, forms, checks, commits and days.      *)
(*                                                                         *)
(* The page: Typed says what every variable holds. IdentityCleared says    *)
(* when the page has no submission identity: opening a form does not       *)
(* clear it, so it must already be clear whenever a form can open. Drawn   *)
(* relates identities to forms, over everything sent so far. Honest        *)
(* follows a submission to the receipt. Waiting is what holds for a user   *)
(* who waits for every answer.                                             *)
(*                                                                         *)
(* The dashboard: DashboardInv is the types and that only the latest cycle *)
(* of a plot can be open, which gives every plot one key per grouping. The *)
(* rest is about the queries: the sums and greatest values they return,    *)
(* by induction, and how sums and counts of parts add up to the whole.     *)
(***************************************************************************)
EXTENDS InspectPage, ImportDialog, ExecutiveDashboard, TLAPS, SequenceTheorems,
        WellFoundedInduction, FiniteSetTheorems

Posting == submit.pc \in {"posting", "posted"}

\* A submission under way is one the server could file.
Typed == TypeOK /\ (Posting => Request \in Filing)

\* No identity outlives its form: none where a form can be opened, nor while
\* the answer that opens one is awaited, nor after a 404 reset the form.
IdentityCleared ==
    /\ step \in {"phone", "plots"} => identity = None
    /\ select.plot # None => identity = None /\ step # "form"
    /\ submit.pc = "reloading" => identity = None

\* Whatever has left the page.
Sent == adrift \cup filed \cup (IF Posting THEN {Request} ELSE {})

\* A form has one key and a key one form; the form shown has the page's identity,
\* or has never been sent.
Drawn ==
    /\ identity # None => fields # None /\ identity.key <= keys
    /\ fields # None => fields.no <= forms
    /\ \A r \in Sent : r.key <= keys /\ r.form.no <= forms
    /\ \A r, q \in Sent : r.key = q.key <=> r.form = q.form
    /\ identity # None => \A r \in Sent : r.key = identity.key <=> r.form = fields
    /\ identity = None /\ fields # None => \A r \in Sent : r.form # fields

\* A key is filed once; an answer of success, and a receipt, are of what is filed.
Honest ==
    /\ \A r, q \in filed : r.key = q.key => r = q
    /\ submit.pc = "posted" => Request \in filed
    /\ SuccessIsFiled

\* A user who waits has one answer outstanding at most, a form only while none is
\* awaited but its own submission's, and a page that is all of one plot.
Waiting ==
    patient =>
        /\ select.plot # None => submit = NoSubmission /\ reload = None
        /\ reload # None => submit = NoSubmission
        /\ submit # NoSubmission => step = "form"
        /\ (\/ select.plot # None \/ reload # None \/ submit.pc = "reloading"
            \/ step \in {"phone", "plots"}) => fields = None
        /\ step = "success" => receipt = fields
        /\ fields # None => selected = fields.plot /\ token = fields.plot /\ info = fields.plot
        /\ identity # None => identity.plot = fields.plot
        /\ submit.pc \in {"posting", "posted", "renewing"} =>
              submit.form = fields /\ submit.selected = fields.plot
        /\ Posting => submit.token = fields.plot
        /\ \A r \in adrift \cup filed : r.plot = r.form.plot

-----------------------------------------------------------------------------
(* Types *)

\* The page as it opens has its shape.
LEMMA InitTyped == Init => Typed
  BY BoundsAssumption DEF Init, Typed, TypeOK, Posting, Selection, NoSelection, Submission,
     NoSubmission, OptPlot, OptSession, OptForm

\* Every step keeps the shapes.
LEMMA NextTyped == Typed /\ [Next]_vars => Typed'
<1> SUFFICES ASSUME Typed, [Next]_vars PROVE Typed'
  OBVIOUS
<1> USE BoundsAssumption
<1>t. /\ step \in {"phone", "plots", "form", "success"}
      /\ session \in OptSession
      /\ selected \in OptPlot /\ token \in OptPlot /\ info \in OptPlot
      /\ fields \in OptForm
      /\ identity \in Identity \cup {None}
      /\ receipt \in OptForm
      /\ select \in Selection
      /\ submit \in Submission
      /\ reload \in OptSession
      /\ sessions \in 0 .. MaxSessions
      /\ forms \in 0 .. MaxForms
      /\ keys \in 0 .. MaxKeys
      /\ patient \in BOOLEAN
      /\ adrift \subseteq Filing
      /\ filed \subseteq Filing
      /\ Posting => Request \in Filing
  BY DEF Typed, TypeOK
<1>n. /\ NoSubmission \in Submission /\ NoSubmission.pc = "none" /\ NoSelection \in Selection
      /\ None \in OptPlot /\ None \in OptSession /\ None \in OptForm
  BY DEF NoSubmission, Submission, NoSelection, Selection, OptPlot, OptSession, OptForm
<1>f. ASSUME NEW pc \in {"posted", "renewing", "reloading"},
             submit' = [submit EXCEPT !.pc = pc]
      PROVE /\ submit' \in Submission /\ submit'.pc = pc
            /\ Request' = Request
  BY <1>t, <1>f DEF Submission, Request
<1>1. CASE UNCHANGED vars
  BY <1>1, <1>t DEF vars, pageVars, counters, serverVars, Typed, TypeOK, Posting, Request
<1> USE DEF pageVars, counters, serverVars
<1>2. CASE User
  <2> USE <1>t, <1>n DEF Typed, TypeOK, Posting, Request
  <2>1. CASE Lookup
    <3>1. session' \in OptSession /\ sessions' \in 0 .. MaxSessions
      BY <2>1 DEF Lookup, OptSession
    <3> QED
      BY <2>1, <3>1 DEF Lookup, KeepsForm
  <2>2. CASE \E p \in Plots : ClickPlot(p)
    <3>1. select' \in Selection
      BY <2>2 DEF ClickPlot, Selection, OptPlot
    <3> QED
      BY <2>2, <3>1 DEF ClickPlot
  <2>3. CASE Submit
    <3>1. PICK id \in Identity :
            /\ IdentityFor(id)
            /\ identity' = id
            /\ keys' = IF id.key > keys THEN id.key ELSE keys
            /\ submit' = [pc |-> "posting", key |-> id.key, captured |-> id.plot,
                          token |-> token, form |-> fields, selected |-> selected,
                          session |-> session]
      BY <2>3 DEF Submit
    <3>2. token \in Plots /\ fields \in FormId
      BY <2>3 DEF Submit, OptPlot, OptForm
    <3>3. id.key \in 1 .. MaxKeys /\ id.plot \in Plots
      BY DEF Identity
    <3>4. submit' \in Submission /\ keys' \in 0 .. MaxKeys
      BY <3>1, <3>2, <3>3 DEF Submission, OptPlot, OptForm
    <3>5. Request' \in Filing
      BY <3>1, <3>2, <3>3 DEF Filing
    <3> QED
      BY <2>3, <3>1, <3>4, <3>5 DEF Submit
  <2>4. CASE BackToList
    BY <2>4 DEF BackToList, ResetPlotDraft
  <2>5. CASE ChangePhone
    BY <2>5 DEF ChangePhone, EndSession, ResetPlotDraft
  <2>6. CASE NextPlot
    BY <2>6 DEF NextPlot, ResetPlotDraft
  <2> QED
    BY <1>2, <2>1, <2>2, <2>3, <2>4, <2>5, <2>6 DEF User
<1>3. CASE FileSubmission
  <2>1. submit.pc = "posting" /\ submit' = [submit EXCEPT !.pc = "posted"]
    BY <1>3 DEF FileSubmission
  <2>2. filed' \subseteq Filing
    BY <1>3, <1>t, <2>1 DEF FileSubmission, Files, Posting
  <2> QED
    BY <1>3, <1>t, <1>f, <2>1, <2>2 DEF FileSubmission, ServerOnly, Typed, TypeOK, Posting
<1>4. CASE FileLate
  BY <1>4, <1>t DEF FileLate, Files, ServerOnly, Typed, TypeOK, Posting, Request
<1>5. CASE Answered
  <2> USE <1>n DEF HandlerOnly, KeepsForm, EndSession, ResetPlotDraft
  <2>1. CASE OpenForm
    <3>1. select.plot \in Plots
      BY <1>t, <2>1 DEF OpenForm, Selection, OptPlot
    <3>2. fields' \in OptForm /\ forms' \in 0 .. MaxForms
      BY <1>t, <2>1, <3>1 DEF OpenForm, OptForm, FormId
    <3> QED
      BY <1>t, <2>1, <3>1, <3>2 DEF OpenForm, Typed, TypeOK, Posting, Request, OptPlot
  <2>2. CASE ClickRefused \/ ClickUnauthorized \/ Reloaded \/ ReloadUnauthorized
    <3>1. select.session \in OptSession
      BY <1>t DEF Selection
    <3> QED
      BY <1>t, <2>2, <3>1 DEF ClickRefused, ClickUnauthorized, Reloaded, ReloadUnauthorized,
         Typed, TypeOK, Posting, Request
  <2>3. CASE Saved
    <3>1. submit.form \in OptForm
      BY <1>t DEF Submission
    <3> QED
      BY <1>t, <2>3, <3>1 DEF Saved, Typed, TypeOK, Posting
  <2>4. CASE NotSaved
    BY <1>t, <2>4 DEF NotSaved, Typed, TypeOK, Posting
  <2>5. CASE NoAnswer
    <3>1. adrift' \subseteq Filing
      BY <1>t, <2>5 DEF NoAnswer, Posting
    <3> QED
      BY <1>t, <2>5, <3>1 DEF NoAnswer, Typed, TypeOK, Posting
  <2>6. CASE PlotGone
    BY <1>t, <1>f, <2>6 DEF PlotGone, Typed, TypeOK, Posting
  <2>7. CASE BackFromGone
    BY <1>t, <2>7 DEF BackFromGone, Typed, TypeOK, Posting
  <2>8. CASE TokenExpired
    BY <1>t, <1>f, <2>8 DEF TokenExpired, Typed, TypeOK, Posting
  <2>9. CASE Renewed
    <3>1. submit.selected \in OptPlot
      BY <1>t DEF Submission
    <3> QED
      BY <1>t, <2>9, <3>1 DEF Renewed, Typed, TypeOK, Posting
  <2>10. CASE RenewalFailed
    BY <1>t, <2>10 DEF RenewalFailed, Typed, TypeOK, Posting
  <2> QED
    BY <1>5, <2>1, <2>2, <2>3, <2>4, <2>5, <2>6, <2>7, <2>8, <2>9, <2>10 DEF Answered
<1> QED
  BY <1>1, <1>2, <1>3, <1>4, <1>5 DEF Next

-----------------------------------------------------------------------------
(* The identity is clear where a form can open *)

\* Nothing is cleared that is still wanted as the page opens.
LEMMA InitCleared == Init => IdentityCleared
  BY DEF Init, IdentityCleared, NoSelection, NoSubmission

\* Every step leaves what belongs to no step of the page cleared.
LEMMA NextCleared == Typed /\ IdentityCleared /\ [Next]_vars => IdentityCleared'
<1> SUFFICES ASSUME Typed, IdentityCleared, [Next]_vars PROVE IdentityCleared'
  OBVIOUS
<1>t. submit \in Submission
  BY DEF Typed, TypeOK
<1>n. NoSubmission.pc = "none" /\ NoSelection.plot = None
  BY DEF NoSubmission, NoSelection
<1>1. CASE UNCHANGED vars
  BY <1>1 DEF vars, pageVars, IdentityCleared
<1> USE <1>n DEF pageVars, counters, serverVars
<1>2. CASE User
  <2>1. CASE Submit
    BY <2>1 DEF Submit, IdentityCleared
  <2>2. CASE NextPlot
    BY <2>2 DEF NextPlot, ResetPlotDraft, IdentityCleared
  <2>3. CASE Lookup \/ (\E p \in Plots : ClickPlot(p)) \/ BackToList \/ ChangePhone
    BY <2>3 DEF Lookup, KeepsForm, ClickPlot, BackToList, ChangePhone, EndSession, ResetPlotDraft,
       IdentityCleared
  <2> QED
    BY <1>2, <2>1, <2>2, <2>3 DEF User
<1>3. CASE FileSubmission \/ FileLate
  <2>1. UNCHANGED <<step, select, identity>> /\ submit'.pc \in {"posted", submit.pc}
    BY <1>t, <1>3 DEF FileSubmission, FileLate, ServerOnly, Submission
  <2> QED
    BY <2>1 DEF IdentityCleared
<1>4. CASE Answered
  <2>1. CASE OpenForm
    BY <2>1 DEF OpenForm, IdentityCleared
  <2>2. CASE ClickRefused \/ ClickUnauthorized \/ Reloaded \/ ReloadUnauthorized
    BY <2>2 DEF ClickRefused, ClickUnauthorized, Reloaded, ReloadUnauthorized, EndSession,
       ResetPlotDraft, IdentityCleared
  <2>3. CASE Saved \/ NotSaved \/ NoAnswer \/ Renewed \/ RenewalFailed
    BY <2>3 DEF Saved, NotSaved, NoAnswer, Renewed, RenewalFailed, EndSession, ResetPlotDraft,
       KeepsForm, HandlerOnly, IdentityCleared
  <2>4. CASE PlotGone
    BY <2>4 DEF PlotGone, ResetPlotDraft, HandlerOnly, IdentityCleared
  <2>5. CASE BackFromGone
    BY <2>5 DEF BackFromGone, ResetPlotDraft, KeepsForm, HandlerOnly, IdentityCleared
  <2>6. CASE TokenExpired
    <3>1. submit'.pc # "reloading" /\ select' = select
      BY <1>t, <2>6 DEF TokenExpired, Submission, HandlerOnly
    <3> QED
      BY <2>6, <3>1 DEF TokenExpired, EndSession, ResetPlotDraft, IdentityCleared
  <2> QED
    BY <1>4, <2>1, <2>2, <2>3, <2>4, <2>5, <2>6 DEF Answered
<1> QED
  BY <1>1, <1>2, <1>3, <1>4 DEF Next

-----------------------------------------------------------------------------
(* Forms and keys *)

\* No form is drawn as the page opens.
LEMMA InitDrawn == Init => Drawn
<1> SUFFICES ASSUME Init PROVE Drawn
  OBVIOUS
<1>1. Sent = {} /\ identity = None /\ fields = None
  BY DEF Init, Sent, Posting, NoSubmission
<1> QED
  BY <1>1 DEF Drawn

\* What holds of the numbers when nothing new is sent and the form is as it was.
LEMMA DrawnStands ==
    ASSUME Drawn, Sent' \subseteq Sent, UNCHANGED <<forms, keys>>,
           UNCHANGED <<fields, identity>> \/ (fields' = None /\ identity' = None)
    PROVE  Drawn'
<1>1. CASE UNCHANGED <<fields, identity>>
  <2>1. /\ identity' # None => fields' # None /\ identity'.key <= keys'
        /\ fields' # None => fields'.no <= forms'
        /\ identity' # None => \A r \in Sent' : r.key = identity'.key <=> r.form = fields'
        /\ identity' = None /\ fields' # None => \A r \in Sent' : r.form # fields'
    BY <1>1 DEF Drawn
  <2>2. /\ \A r \in Sent' : r.key <= keys' /\ r.form.no <= forms'
        /\ \A r, q \in Sent' : r.key = q.key <=> r.form = q.form
    BY DEF Drawn
  <2> QED
    BY <2>1, <2>2 DEF Drawn
<1>2. CASE fields' = None /\ identity' = None
  <2>1. /\ \A r \in Sent' : r.key <= keys' /\ r.form.no <= forms'
        /\ \A r, q \in Sent' : r.key = q.key <=> r.form = q.form
    BY DEF Drawn
  <2> QED
    BY <1>2, <2>1 DEF Drawn
<1> QED
  BY <1>1, <1>2

\* What was sent are submissions.
LEMMA SentTyped == Typed => Sent \subseteq Filing
  BY DEF Typed, TypeOK, Sent

\* A form opens with a number no form had, and without an identity.
LEMMA OpenFormDrawn == Typed /\ IdentityCleared /\ Drawn /\ OpenForm => Drawn'
<1> SUFFICES ASSUME Typed, IdentityCleared, Drawn, OpenForm PROVE Drawn'
  OBVIOUS
<1>1. /\ identity' = None /\ keys' = keys /\ forms' = forms + 1
      /\ fields' = [plot |-> select.plot, no |-> forms + 1]
  BY DEF OpenForm, IdentityCleared
<1>2. forms \in Nat
  BY BoundsAssumption DEF Typed, TypeOK
<1>3. Sent' = Sent
  BY DEF OpenForm, Sent, Posting, Request, serverVars
<1>4. ASSUME NEW r \in Sent'
      PROVE r.key <= keys' /\ r.form.no <= forms' /\ r.form # fields'
  <2>1. r.key <= keys /\ r.form.no <= forms /\ r.form.no \in Nat
    BY <1>3, <1>4, SentTyped, BoundsAssumption DEF Drawn, Filing, FormId
  <2>2. fields'.no = forms + 1
    BY <1>1
  <2> QED
    BY <1>1, <1>2, <2>1, <2>2
<1>5. \A r, q \in Sent' : r.key = q.key <=> r.form = q.form
  BY <1>3 DEF Drawn
<1>6. fields'.no <= forms'
  BY <1>1, <1>2
<1> QED
  BY <1>1, <1>4, <1>5, <1>6 DEF Drawn

\* A submission goes out under the form's identity, or under one no form had.
LEMMA SubmitDrawn == Typed /\ Drawn /\ Submit => Drawn'
<1> SUFFICES ASSUME Typed, Drawn, Submit PROVE Drawn'
  OBVIOUS
<1> USE BoundsAssumption
<1>1. PICK id \in Identity :
        /\ IdentityFor(id)
        /\ identity' = id
        /\ keys' = IF id.key > keys THEN id.key ELSE keys
        /\ submit' = [pc |-> "posting", key |-> id.key, captured |-> id.plot,
                      token |-> token, form |-> fields, selected |-> selected,
                      session |-> session]
  BY DEF Submit
<1>2. UNCHANGED <<fields, forms, adrift, filed>> /\ fields # None /\ submit.pc = "none"
  BY DEF Submit, NoSubmission, serverVars
<1>3. fields \in FormId /\ id # None /\ id.key \in Nat /\ keys \in Nat /\ forms \in Nat
  BY <1>2, NoneAssumption DEF Typed, TypeOK, OptForm, Identity
<1>4. PICK s : s = Request'
  OBVIOUS
<1>5. s.key = id.key /\ s.form = fields /\ Sent' = Sent \cup {s}
  BY <1>1, <1>2, <1>4 DEF Request, Sent, Posting
<1>6. \A r \in Sent : /\ r.key \in Nat /\ r.key <= keys /\ r.form.no <= forms
                      /\ r.key = id.key <=> r.form = fields
  <2>1. \A r \in Sent : r.key \in Nat /\ r.key <= keys /\ r.form.no <= forms
    BY SentTyped DEF Drawn, Filing
  <2>2. CASE identity # None
    BY <1>1, <2>1, <2>2 DEF IdentityFor, Drawn
  <2>3. CASE identity = None
    <3>1. id.key = keys + 1
      BY <1>1, <2>3 DEF IdentityFor
    <3>2. \A r \in Sent : r.form # fields
      BY <1>2, <2>3 DEF Drawn
    <3> QED
      BY <1>3, <2>1, <3>1, <3>2
  <2> QED
    BY <2>2, <2>3
<1>7. id.key <= keys' /\ keys <= keys' /\ keys' \in Nat
  BY <1>1, <1>3
<1>8. fields.no <= forms
  BY <1>2 DEF Drawn
<1>9. \A r \in Sent' : r.key <= keys' /\ r.form.no <= forms' /\ (r.key = id.key <=> r.form = fields)
  BY <1>2, <1>3, <1>5, <1>6, <1>7, <1>8
<1>10. \A r, q \in Sent' : r.key = q.key <=> r.form = q.form
  BY <1>5, <1>6 DEF Drawn
<1> QED
  BY <1>1, <1>2, <1>3, <1>7, <1>8, <1>9, <1>10 DEF Drawn

\* Every step keeps identities and forms one to one.
LEMMA NextDrawn == Typed /\ IdentityCleared /\ Drawn /\ [Next]_vars => Drawn'
<1> SUFFICES ASSUME Typed, IdentityCleared, Drawn, [Next]_vars PROVE Drawn'
  OBVIOUS
<1>t. submit \in Submission
  BY DEF Typed, TypeOK
<1>n. NoSubmission.pc = "none"
  BY DEF NoSubmission
<1>q. ASSUME UNCHANGED <<submit, adrift, filed>>
      PROVE Sent' = Sent
  BY <1>q DEF Sent, Posting, Request
<1>1. CASE UNCHANGED vars
  BY <1>1, <1>q, DrawnStands DEF vars, pageVars, counters, serverVars
<1> USE DEF pageVars, counters, serverVars
<1>2. CASE User
  <2>1. CASE Submit
    BY <2>1, SubmitDrawn
  <2>2. CASE Lookup \/ (\E p \in Plots : ClickPlot(p)) \/ BackToList \/ ChangePhone \/ NextPlot
    BY <2>2, <1>q, DrawnStands DEF Lookup, KeepsForm, ClickPlot, BackToList, ChangePhone, NextPlot,
       EndSession, ResetPlotDraft
  <2> QED
    BY <1>2, <2>1, <2>2 DEF User
<1>3. CASE FileSubmission
  <2>1. submit.pc = "posting" /\ submit'.pc = "posted" /\ Request' = Request
    BY <1>3, <1>t DEF FileSubmission, Request, Submission
  <2>2. Sent' \subseteq Sent
    BY <1>3, <2>1 DEF FileSubmission, Files, Sent, Posting
  <2> QED
    BY <1>3, <2>2, DrawnStands DEF FileSubmission, ServerOnly
<1>4. CASE FileLate
  <2>1. Sent' \subseteq Sent
    BY <1>4 DEF FileLate, Files, Sent, Posting, Request
  <2> QED
    BY <1>4, <2>1, DrawnStands DEF FileLate, ServerOnly
<1>5. CASE Answered
  <2>1. CASE OpenForm
    BY <2>1, OpenFormDrawn
  <2>2. CASE ClickRefused \/ ClickUnauthorized \/ Reloaded \/ ReloadUnauthorized
    BY <2>2, <1>q, DrawnStands DEF ClickRefused, ClickUnauthorized, Reloaded, ReloadUnauthorized,
       EndSession, ResetPlotDraft
  <2>3. CASE Answered /\ ~OpenForm
             /\ ~(ClickRefused \/ ClickUnauthorized \/ Reloaded \/ ReloadUnauthorized)
    <3>1. submit'.pc \in {"none", "renewing", "reloading"} /\ filed' = filed /\ UNCHANGED <<forms, keys>>
      BY <2>3, <1>n, <1>t DEF Answered, Saved, NotSaved, NoAnswer, PlotGone, BackFromGone,
         TokenExpired, Renewed, RenewalFailed, HandlerOnly, Submission
    <3>2. adrift' \subseteq Sent
      BY <2>3 DEF Answered, Saved, NotSaved, NoAnswer, PlotGone, BackFromGone,
         TokenExpired, Renewed, RenewalFailed, HandlerOnly, Sent, Posting
    <3>3. Sent' \subseteq Sent
      BY <3>1, <3>2 DEF Sent, Posting
    <3>4. UNCHANGED <<fields, identity>> \/ (fields' = None /\ identity' = None)
      BY <2>3 DEF Answered, Saved, NotSaved, NoAnswer, PlotGone, BackFromGone,
         TokenExpired, Renewed, RenewalFailed, KeepsForm, EndSession, ResetPlotDraft
    <3> QED
      BY <3>1, <3>3, <3>4, DrawnStands
  <2> QED
    BY <1>5, <2>1, <2>2, <2>3
<1> QED
  BY <1>1, <1>2, <1>3, <1>4, <1>5 DEF Next

-----------------------------------------------------------------------------
(* What is filed, and what is said of it *)

\* Nothing is filed or promised as the page opens.
LEMMA InitHonest == Init => Honest
  BY DEF Init, Honest, SuccessIsFiled, NoSubmission

\* Where nothing is filed, no submission becomes filed and no receipt appears.
LEMMA HonestStands ==
    ASSUME Honest, filed' = filed, UNCHANGED submit \/ submit'.pc # "posted",
           receipt' = receipt \/ receipt' = None
    PROVE  Honest'
  BY DEF Honest, SuccessIsFiled, Request

\* Every step leaves the success step to what is filed.
LEMMA NextHonest == Typed /\ Drawn /\ Honest /\ [Next]_vars => Honest'
<1> SUFFICES ASSUME Typed, Drawn, Honest, [Next]_vars PROVE Honest'
  OBVIOUS
<1>t. submit \in Submission
  BY DEF Typed, TypeOK
<1>n. NoSubmission.pc = "none"
  BY DEF NoSubmission
<1>f. ASSUME NEW s, Files(s)
      PROVE (\A r, q \in filed' : r.key = q.key => r = q) /\ filed \subseteq filed' /\ s \in filed'
  BY <1>f DEF Files, Honest
<1>1. CASE UNCHANGED vars
  BY <1>1, HonestStands DEF vars, pageVars, serverVars
<1> USE DEF pageVars, counters, serverVars
<1>2. CASE User
  BY <1>2, HonestStands DEF User, Submit, Lookup, KeepsForm, ClickPlot, BackToList, ChangePhone,
     NextPlot, EndSession, ResetPlotDraft
<1>3. CASE FileSubmission
  <2>1. Request' = Request /\ Files(Request) /\ receipt' = receipt
    BY <1>3, <1>t DEF FileSubmission, Request, Submission, ServerOnly
  <2> QED
    BY <1>f, <2>1 DEF Honest, SuccessIsFiled
<1>4. CASE FileLate
  <2>1. UNCHANGED <<submit, receipt>> /\ \E r \in adrift : Files(r)
    BY <1>4 DEF FileLate, ServerOnly
  <2>2. Request' = Request
    BY <2>1 DEF Request
  <2> QED
    BY <1>f, <2>1, <2>2 DEF Honest, SuccessIsFiled
<1>5. CASE Saved
  <2>1. Posting /\ receipt' = Request.form /\ filed' = filed /\ submit'.pc = "none"
    BY <1>5, <1>n DEF Saved, Posting, Request, HandlerOnly
  <2>2. \E r \in filed : r.form = Request.form
    <3>1. CASE submit.pc = "posted"
      BY <3>1 DEF Honest
    <3>2. CASE FiledBefore
      <4>1. PICK r \in filed : r.key = Request.key
        BY <3>2 DEF FiledBefore, Request
      <4>2. r \in Sent /\ Request \in Sent
        BY <2>1 DEF Sent
      <4> QED
        BY <4>1, <4>2 DEF Drawn
    <3> QED
      BY <1>5, <3>1, <3>2 DEF Saved
  <2> QED
    BY <2>1, <2>2 DEF Honest, SuccessIsFiled
<1>6. CASE Answered /\ ~Saved
  <2>1. filed' = filed /\ (receipt' = receipt \/ receipt' = None)
    BY <1>6 DEF Answered, OpenForm, ClickRefused, ClickUnauthorized, Reloaded, ReloadUnauthorized,
       NotSaved, NoAnswer, PlotGone, BackFromGone, TokenExpired, Renewed, RenewalFailed,
       EndSession, HandlerOnly
  <2>2. UNCHANGED submit \/ submit'.pc # "posted"
    BY <1>6, <1>n, <1>t DEF Answered, OpenForm, ClickRefused, ClickUnauthorized, Reloaded,
       ReloadUnauthorized, NotSaved, NoAnswer, PlotGone, BackFromGone, TokenExpired, Renewed,
       RenewalFailed, Submission
  <2> QED
    BY <2>1, <2>2, HonestStands
<1> QED
  BY <1>1, <1>2, <1>3, <1>4, <1>5, <1>6 DEF Next

-----------------------------------------------------------------------------
(* The patient user *)

\* No handler is under way as the page opens.
LEMMA InitWaiting == Init => Waiting
  BY DEF Init, Waiting, NoSelection, NoSubmission, Posting

\* Every step of a patient user leaves at most one handler under way.
LEMMA NextWaiting == Typed /\ IdentityCleared /\ Drawn /\ Waiting /\ [Next]_vars => Waiting'
<1> SUFFICES ASSUME Typed, IdentityCleared, Drawn, Waiting, [Next]_vars, patient' PROVE Waiting'
  BY DEF Waiting
<1>t. submit \in Submission /\ select \in Selection
  BY DEF Typed, TypeOK
<1>n. NoSubmission.pc = "none" /\ NoSelection.plot = None
  BY DEF NoSubmission, NoSelection
<1>w. /\ select.plot # None => submit = NoSubmission /\ reload = None
      /\ reload # None => submit = NoSubmission
      /\ submit # NoSubmission => step = "form"
      /\ (\/ select.plot # None \/ reload # None \/ submit.pc = "reloading"
          \/ step \in {"phone", "plots"}) => fields = None
      /\ step = "success" => receipt = fields
      /\ fields # None => selected = fields.plot /\ token = fields.plot /\ info = fields.plot
      /\ identity # None => identity.plot = fields.plot
      /\ submit.pc \in {"posting", "posted", "renewing"} =>
            submit.form = fields /\ submit.selected = fields.plot
      /\ Posting => submit.token = fields.plot
      /\ \A r \in adrift \cup filed : r.plot = r.form.plot
      /\ patient
  BY DEF Waiting, Next, User, Answered, vars, counters, Submit, Lookup, ClickPlot, BackToList,
     ChangePhone, NextPlot, FileSubmission, FileLate, ServerOnly, OpenForm, ClickRefused,
     ClickUnauthorized, Reloaded, ReloadUnauthorized, Saved, NotSaved, NoAnswer, PlotGone,
     BackFromGone, TokenExpired, Renewed, RenewalFailed, HandlerOnly
<1>r. Posting => Request.plot = Request.form.plot
  BY <1>w DEF Posting, Request
<1>1. CASE UNCHANGED vars
  BY <1>1, <1>w DEF vars, pageVars, counters, serverVars, Waiting, Posting
<1> USE DEF pageVars, counters, serverVars
<1>2. CASE User
  <2>q. Quiet \/ ~UserActs
    BY <1>w DEF UserActs
  <2>1. CASE Submit
    <3>1. PICK id \in Identity :
            /\ IdentityFor(id)
            /\ identity' = id
            /\ submit' = [pc |-> "posting", key |-> id.key, captured |-> id.plot,
                          token |-> token, form |-> fields, selected |-> selected,
                          session |-> session]
      BY <2>1 DEF Submit
    <3>2. fields # None /\ step = "form" /\ select = NoSelection /\ reload = None
      BY <2>1, <2>q DEF Submit, Quiet
    <3>3. id.plot = fields.plot
      BY <1>w, <3>1, <3>2 DEF IdentityFor
    <3> QED
      BY <1>n, <1>w, <2>1, <3>1, <3>2, <3>3 DEF Submit, Waiting, Posting
  <2>2. CASE Lookup
    BY <1>n, <1>w, <2>2 DEF Lookup, KeepsForm, Waiting, Posting
  <2>3. CASE \E p \in Plots : ClickPlot(p)
    <3>1. /\ submit = NoSubmission /\ reload = None /\ fields = None
          /\ UNCHANGED <<pageVars, submit, reload, patient, adrift, filed>>
      BY <1>w, <2>3, <2>q DEF ClickPlot, Quiet
    <3> QED
      BY <1>n, <1>w, <3>1 DEF Waiting, Posting
  <2>4. CASE BackToList
    BY <1>n, <1>w, <2>4, <2>q DEF BackToList, ResetPlotDraft, Waiting, Posting, Quiet
  <2>5. CASE ChangePhone
    BY <1>n, <1>w, <2>5, <2>q DEF ChangePhone, EndSession, ResetPlotDraft, Waiting, Posting, Quiet
  <2>6. CASE NextPlot
    BY <1>n, <1>w, <2>6, <2>q DEF NextPlot, ResetPlotDraft, Waiting, Posting, Quiet
  <2> QED
    BY <1>2, <2>1, <2>2, <2>3, <2>4, <2>5, <2>6 DEF User
<1>3. CASE FileSubmission
  <2>1. /\ submit.pc = "posting" /\ submit' = [submit EXCEPT !.pc = "posted"]
        /\ filed' = filed \cup {Request} /\ adrift' = adrift
    BY <1>3 DEF FileSubmission, Files
  <2>2. /\ submit'.pc = "posted" /\ submit'.form = submit.form /\ submit'.token = submit.token
        /\ submit'.selected = submit.selected
    BY <1>t, <2>1 DEF Submission
  <2>3. select.plot = None /\ reload = None /\ step = "form"
    BY <1>n, <1>w, <2>1
  <2>4. submit.form = fields /\ submit.selected = fields.plot /\ submit.token = fields.plot
    BY <1>w, <2>1 DEF Posting
  <2> QED
    BY <1>3, <1>r, <1>w, <2>1, <2>2, <2>3, <2>4 DEF FileSubmission, ServerOnly, Waiting, Posting
<1>4. CASE FileLate
  BY <1>4, <1>w DEF FileLate, Files, ServerOnly, Waiting, Posting
<1>5. CASE Answered
  <2>1. CASE OpenForm
    <3>1. /\ fields' = [plot |-> select.plot, no |-> forms + 1] /\ identity' = None
          /\ submit = NoSubmission /\ reload = None
      BY <1>w, <2>1 DEF OpenForm, IdentityCleared
    <3> QED
      BY <1>n, <1>w, <2>1, <3>1 DEF OpenForm, Waiting, Posting
  <2>2. CASE ClickRefused
    BY <1>n, <1>w, <2>2 DEF ClickRefused, Waiting, Posting
  <2>3. CASE ClickUnauthorized \/ ReloadUnauthorized
    BY <1>n, <1>w, <2>3 DEF ClickUnauthorized, ReloadUnauthorized, EndSession, ResetPlotDraft,
       Waiting, Posting
  <2>4. CASE Reloaded
    BY <1>n, <1>w, <2>4 DEF Reloaded, Waiting, Posting
  <2>5. CASE Saved
    BY <1>n, <1>w, <2>5 DEF Saved, KeepsForm, HandlerOnly, Waiting, Posting
  <2>6. CASE NotSaved
    BY <1>n, <1>w, <2>6 DEF NotSaved, HandlerOnly, Waiting, Posting
  <2>7. CASE NoAnswer
    BY <1>n, <1>r, <1>w, <2>7 DEF NoAnswer, Waiting, Posting
  <2>8. CASE PlotGone
    <3>1. submit'.pc = "reloading" /\ select.plot = None /\ reload = None /\ step = "form"
      BY <1>n, <1>t, <1>w, <2>8 DEF PlotGone, Submission
    <3> QED
      BY <1>w, <2>8, <3>1 DEF PlotGone, ResetPlotDraft, HandlerOnly, Waiting, Posting
  <2>9. CASE BackFromGone
    BY <1>n, <1>w, <2>9 DEF BackFromGone, ResetPlotDraft, KeepsForm, HandlerOnly, Waiting, Posting
  <2>10. CASE TokenExpired
    <3>1. CASE EndSession /\ submit' = NoSubmission
      <4>1. /\ select.plot = None /\ reload = None
            /\ UNCHANGED <<select, reload, patient, adrift, filed>>
        BY <1>n, <1>w, <2>10 DEF TokenExpired, HandlerOnly
      <4>2. step' = "phone" /\ fields' = None /\ identity' = None /\ submit'.pc = "none"
        BY <1>n, <3>1 DEF EndSession, ResetPlotDraft
      <4> QED
        BY <1>w, <3>1, <4>1, <4>2 DEF Waiting, Posting
    <3>2. CASE UNCHANGED pageVars /\ submit' = [submit EXCEPT !.pc = "renewing"]
      <4>1. /\ submit'.pc = "renewing" /\ submit'.form = submit.form
            /\ submit'.selected = submit.selected /\ submit.pc = "posting"
        BY <1>t, <2>10, <3>2 DEF TokenExpired, Submission
      <4>2. select.plot = None /\ reload = None /\ step = "form"
        BY <1>n, <1>w, <4>1
      <4> QED
        BY <1>w, <2>10, <3>2, <4>1, <4>2 DEF TokenExpired, HandlerOnly, Waiting, Posting
    <3> QED
      BY <2>10, <3>1, <3>2 DEF TokenExpired
  <2>11. CASE Renewed
    BY <1>n, <1>w, <2>11 DEF Renewed, HandlerOnly, Waiting, Posting
  <2>12. CASE RenewalFailed
    BY <1>n, <1>w, <2>12 DEF RenewalFailed, EndSession, ResetPlotDraft, HandlerOnly, Waiting, Posting
  <2> QED
    BY <1>5, <2>1, <2>2, <2>3, <2>4, <2>5, <2>6, <2>7, <2>8, <2>9, <2>10, <2>11, <2>12 DEF Answered
<1> QED
  BY <1>1, <1>2, <1>3, <1>4, <1>5 DEF Next

\* What a patient user has in a form goes in no step but theirs, the end of its plot or
\* that of its session.
LEMMA PatientSteps ==
    ASSUME Typed, Waiting, [Next]_vars, patient, fields # None, fields' # fields
    PROVE  \/ BackToList \/ ChangePhone
           \/ NextPlot /\ receipt = fields
           \/ /\ submit.form = fields
              /\ PlotGone \/ session' = None
<1>t. submit \in Submission
  BY DEF Typed, TypeOK
<1>1. select.plot = None /\ reload = None /\ submit.pc # "reloading"
  BY DEF Waiting
<1>2. ~OpenForm /\ ~ClickUnauthorized /\ ~ReloadUnauthorized /\ ~BackFromGone
  BY <1>1 DEF OpenForm, ClickUnauthorized, ReloadUnauthorized, BackFromGone
<1>3. NextPlot => receipt = fields
  BY DEF NextPlot, Waiting
<1>4. ASSUME PlotGone \/ TokenExpired \/ RenewalFailed
      PROVE  submit.form = fields /\ (PlotGone \/ session' = None)
  <2>1. submit.pc \in {"posting", "renewing"}
    BY <1>4 DEF PlotGone, TokenExpired, RenewalFailed
  <2>2. submit.form = fields
    BY <2>1 DEF Waiting
  <2>3. TokenExpired \/ RenewalFailed => session' = None
    BY DEF TokenExpired, RenewalFailed, EndSession, pageVars
  <2> QED
    BY <1>4, <2>2, <2>3
<1> QED
  BY <1>2, <1>3, <1>4 DEF Next, User, Answered, vars, pageVars, Lookup, KeepsForm, ClickPlot, Submit,
     FileSubmission, FileLate, ServerOnly, ClickRefused, Reloaded, Saved, NotSaved, NoAnswer, Renewed

-----------------------------------------------------------------------------
Kept == Typed /\ IdentityCleared /\ Drawn /\ Honest /\ Waiting

\* The invariant of the page, all five parts together.
LEMMA AllKept == Spec => []Kept
<1>1. Init => Kept
  BY InitTyped, InitCleared, InitDrawn, InitHonest, InitWaiting DEF Kept
<1>2. Kept /\ [Next]_vars => Kept'
  BY NextTyped, NextCleared, NextDrawn, NextHonest, NextWaiting DEF Kept
<1> QED
  BY <1>1, <1>2, PTL DEF Spec

(* No form is filed twice, no key files two forms, and the success step is *)
(* only for what is filed, whatever the user leaves, repeats or is refused *)
(* while handleSubmit, handlePlotClick and their answers overtake one      *)
(* another.                                                                *)
THEOREM FormsOnce == Spec => []FormsAreFiledOnce
<1>1. Kept => FormsAreFiledOnce
  <2> SUFFICES ASSUME Kept PROVE FormsAreFiledOnce
    OBVIOUS
  <2>1. TypeOK /\ SuccessIsFiled
    BY DEF Kept, Typed, Honest
  <2>2. EachFormFiledOnce
    BY DEF Kept, Drawn, Honest, Sent, EachFormFiledOnce
  <2> QED
    BY <2>1, <2>2 DEF FormsAreFiledOnce
<1> QED
  BY <1>1, AllKept, PTL

(* Whoever waits for every answer files each inspection on the plot whose  *)
(* form it was written in, and loses what is in a form only by leaving it, *)
(* or as its own submission finds its plot gone or the session over.       *)
THEOREM PatientServed == Spec => PatientUsersAreServed
<1>1. Kept => PatientFilesWhereWritten
  BY DEF Kept, Waiting, PatientFilesWhereWritten, FiledWhereWritten
<1>2. Kept /\ [Next]_vars =>
        [patient /\ fields # None /\ fields' # fields =>
          \/ BackToList \/ ChangePhone
          \/ NextPlot /\ receipt = fields
          \/ /\ submit.form = fields
             /\ PlotGone \/ session' = None]_vars
  BY PatientSteps DEF Kept
<1> QED
  BY <1>1, <1>2, AllKept, PTL DEF Spec, PatientUsersAreServed, PatientKeepsForms

-----------------------------------------------------------------------------
(***************************************************************************)
(* The import dialogs: that a dialog imports what it showed, once, says so *)
(* truthfully and stays locked after it (DialogsKeepTheirWord).            *)
(*                                                                         *)
(* Asking follows the checks to the preview they become, also those begun  *)
(* for a file no longer chosen. Sending says that the last commit alone    *)
(* waits, and what its answers were. Approving says that an approval is    *)
(* not sent twice (plots), or that what landed with it is older than the   *)
(* data it would be compared with (lists).                                 *)
(***************************************************************************)

-----------------------------------------------------------------------------
(* Sequences of requests *)

\* A sequence with one member replaced.
LEMMA OneAnew ==
  ASSUME NEW S, NEW s \in Seq(S), NEW i \in DOMAIN s, NEW x \in S,
         NEW t, t = [s EXCEPT ![i] = x]
  PROVE  /\ t \in Seq(S) /\ Len(t) = Len(s) /\ DOMAIN t = DOMAIN s
         /\ t[i] = x /\ \A k \in DOMAIN s : k # i => t[k] = s[k]
<1>1. Len(s) \in Nat /\ DOMAIN s = 1 .. Len(s) /\ \A k \in DOMAIN s : s[k] \in S
  BY LenProperties
<1>2. /\ t = [k \in 1 .. Len(s) |-> t[k]] /\ t[i] = x
      /\ \A k \in 1 .. Len(s) : k # i => t[k] = s[k]
  BY <1>1
<1>3. t \in [1 .. Len(s) -> S]
  BY <1>1, <1>2
<1>4. t \in Seq(S) /\ Len(t) = Len(s)
  BY <1>1, <1>3, IsASeq
<1> QED BY <1>1, <1>2, <1>4

\* A sequence with one more member.
LEMMA OneMore ==
  ASSUME NEW S, NEW s \in Seq(S), NEW x \in S, NEW t, t = Append(s, x)
  PROVE  /\ t \in Seq(S) /\ Len(t) = Len(s) + 1 /\ Len(s) \in Nat
         /\ DOMAIN s = 1 .. Len(s) /\ DOMAIN t = 1 .. Len(s) + 1
         /\ t[Len(s) + 1] = x /\ \A k \in DOMAIN s : t[k] = s[k]
<1>1. Len(s) \in Nat /\ DOMAIN s = 1 .. Len(s)
  BY LenProperties
<1> QED BY <1>1, AppendProperties

-----------------------------------------------------------------------------

\* What the assumption says of the bounds.
LEMMA DialogBounds == MaxAsks \in Nat /\ MaxSends \in Nat /\ MaxRev \in Nat
  BY DialogAssumption

\* The dialog, part by part.
LEMMA DialogTyped ==
  ASSUME DialogTypeOK
  PROVE  /\ Len(asks) \in 0 .. MaxAsks /\ DOMAIN asks = 1 .. Len(asks)
         /\ Len(sends) \in 0 .. MaxSends /\ DOMAIN sends = 1 .. Len(sends)
         /\ \A i \in DOMAIN asks :
              /\ asks[i] \in Ask
              /\ asks[i] = [file |-> asks[i].file, button |-> asks[i].button,
                            answer |-> asks[i].answer, open |-> asks[i].open]
              /\ asks[i].file \in Workbooks /\ asks[i].button \in BOOLEAN
              /\ asks[i].answer \in OptPreview /\ asks[i].open \in BOOLEAN
         /\ \A i \in DOMAIN sends :
              /\ sends[i] \in Send
              /\ sends[i] = [file |-> sends[i].file, preview |-> sends[i].preview,
                             answer |-> sends[i].answer, waits |-> sends[i].waits]
              /\ sends[i].file \in Workbooks /\ sends[i].preview \in Preview
              /\ sends[i].answer \in {"none", "200", "409", "422", "500"}
              /\ sends[i].waits \in BOOLEAN
<1>1. asks \in Seq(Ask) /\ Len(asks) <= MaxAsks /\ sends \in Seq(Send) /\ Len(sends) <= MaxSends
  BY DEF DialogTypeOK
<1>2. /\ Len(asks) \in Nat /\ DOMAIN asks = 1 .. Len(asks) /\ \A i \in DOMAIN asks : asks[i] \in Ask
      /\ Len(sends) \in Nat /\ DOMAIN sends = 1 .. Len(sends)
      /\ \A i \in DOMAIN sends : sends[i] \in Send
  BY <1>1, LenProperties
<1>3. \A x \in Ask : /\ x = [file |-> x.file, button |-> x.button, answer |-> x.answer, open |-> x.open]
                     /\ x.file \in Workbooks /\ x.button \in BOOLEAN
                     /\ x.answer \in OptPreview /\ x.open \in BOOLEAN
  BY DEF Ask
<1>4. \A x \in Send : /\ x = [file |-> x.file, preview |-> x.preview, answer |-> x.answer,
                              waits |-> x.waits]
                      /\ x.file \in Workbooks /\ x.preview \in Preview
                      /\ x.answer \in {"none", "200", "409", "422", "500"} /\ x.waits \in BOOLEAN
  BY DEF Send
<1>5. Len(asks) \in 0 .. MaxAsks /\ Len(sends) \in 0 .. MaxSends
  BY <1>1, <1>2, DialogBounds
<1> QED BY <1>2, <1>3, <1>4, <1>5

\* A check that is heard, lost or closed; a commit that is answered or heard.
Shut(a) == [file |-> a.file, button |-> a.button, answer |-> Null, open |-> FALSE]
AnsweredBy(s, status) == [file |-> s.file, preview |-> s.preview, answer |-> status, waits |-> s.waits]
Over(s) == [file |-> s.file, preview |-> s.preview, answer |-> s.answer, waits |-> FALSE]

\* A question that is closed is closed alone.
LEMMA Shuts ==
  ASSUME DialogTypeOK, NEW i \in DOMAIN asks, NEW t, t = Closed(i)
  PROVE  /\ t \in Seq(Ask) /\ Len(t) = Len(asks) /\ DOMAIN t = DOMAIN asks
         /\ t[i] = Shut(asks[i]) /\ \A k \in DOMAIN asks : k # i => t[k] = asks[k]
<1>1. asks[i] = [file |-> asks[i].file, button |-> asks[i].button,
                 answer |-> asks[i].answer, open |-> asks[i].open]
  BY DialogTyped
<1> PICK file, button, answer, open :
      asks[i] = [file |-> file, button |-> button, answer |-> answer, open |-> open]
  BY <1>1
<1>2. Shut(asks[i]) = [file |-> file, button |-> button, answer |-> Null, open |-> FALSE]
  BY DEF Shut
<1>3. Shut(asks[i]) \in Ask
  BY DialogTyped DEF Shut, Ask, OptPreview
<1>4. t = [asks EXCEPT ![i] = Shut(asks[i])]
  <2> DEFINE no == FALSE
  <2>1. [[asks[i] EXCEPT !.open = no] EXCEPT !.answer = Null] = Shut(asks[i])
    <3>1. Shut(asks[i]) = [file |-> file, button |-> button, answer |-> Null, open |-> no]
      BY <1>2
    <3> HIDE DEF no
    <3> PICK one : one = [asks[i] EXCEPT !.open = no]
      OBVIOUS
    <3>2. one = [file |-> file, button |-> button, answer |-> answer, open |-> no]
      OBVIOUS
    <3>3. [[file |-> file, button |-> button, answer |-> answer, open |-> no] EXCEPT !.answer = Null]
             = [file |-> file, button |-> button, answer |-> Null, open |-> no]
      OBVIOUS
    <3>4. [one EXCEPT !.answer = Null] = Shut(asks[i])
      BY <3>1, <3>2, <3>3, Zenon
    <3> QED BY <3>4
  <2> QED BY <2>1 DEF Closed
<1>5. asks \in Seq(Ask)
  BY DEF DialogTypeOK
<1> QED BY <1>3, <1>4, <1>5, OneAnew

\* A commit that is answered is answered alone.
LEMMA Answers ==
  ASSUME DialogTypeOK, NEW i \in DOMAIN sends,
         NEW status \in {"none", "200", "409", "422", "500"}, Answer(i, status)
  PROVE  /\ sends' \in Seq(Send) /\ Len(sends') = Len(sends) /\ DOMAIN sends' = DOMAIN sends
         /\ sends'[i] = AnsweredBy(sends[i], status)
         /\ \A k \in DOMAIN sends : k # i => sends'[k] = sends[k]
<1>1. sends[i] = [file |-> sends[i].file, preview |-> sends[i].preview,
                  answer |-> sends[i].answer, waits |-> sends[i].waits]
  BY DialogTyped
<1> PICK file, seen, answer, waits :
      sends[i] = [file |-> file, preview |-> seen, answer |-> answer, waits |-> waits]
  BY <1>1
<1>2. AnsweredBy(sends[i], status) = [file |-> file, preview |-> seen, answer |-> status, waits |-> waits]
  BY DEF AnsweredBy
<1>3. AnsweredBy(sends[i], status) \in Send
  BY DialogTyped DEF AnsweredBy, Send
<1>4. sends' = [sends EXCEPT ![i] = AnsweredBy(sends[i], status)]
  <2>1. [sends[i] EXCEPT !.answer = status] = AnsweredBy(sends[i], status)
    BY <1>2
  <2> QED BY <2>1 DEF Answer
<1>5. sends \in Seq(Send)
  BY DEF DialogTypeOK
<1> QED BY <1>3, <1>4, <1>5, OneAnew

\* An answer that is heard is the current one.
LEMMA Hears ==
  ASSUME DialogTypeOK, Current \in DOMAIN sends, NEW t, t = Heard
  PROVE  /\ t \in Seq(Send) /\ Len(t) = Len(sends) /\ DOMAIN t = DOMAIN sends
         /\ t[Current] = Over(sends[Current])
         /\ \A k \in DOMAIN sends : k # Current => t[k] = sends[k]
<1> PICK i \in DOMAIN sends : i = Current
  OBVIOUS
<1>1. sends[i] = [file |-> sends[i].file, preview |-> sends[i].preview,
                  answer |-> sends[i].answer, waits |-> sends[i].waits]
  BY DialogTyped
<1> PICK file, seen, answer, waits :
      sends[i] = [file |-> file, preview |-> seen, answer |-> answer, waits |-> waits]
  BY <1>1
<1>2. Over(sends[i]) = [file |-> file, preview |-> seen, answer |-> answer, waits |-> FALSE]
  BY DEF Over
<1>3. Over(sends[i]) \in Send
  BY DialogTyped DEF Over, Send
<1>4. t = [sends EXCEPT ![i] = Over(sends[i])]
  <2> DEFINE no == FALSE
  <2>1. [sends[i] EXCEPT !.waits = no] = Over(sends[i])
    <3>1. Over(sends[i]) = [file |-> file, preview |-> seen, answer |-> answer, waits |-> no]
      BY <1>2
    <3> HIDE DEF no
    <3> QED BY <3>1
  <2> QED BY <2>1 DEF Heard
<1>5. sends \in Seq(Send)
  BY DEF DialogTypeOK
<1>6. t \in Seq(Send) /\ Len(t) = Len(sends) /\ DOMAIN t = DOMAIN sends
      /\ t[i] = Over(sends[i]) /\ \A k \in DOMAIN sends : k # i => t[k] = sends[k]
  BY <1>3, <1>4, <1>5, OneAnew
<1> QED BY <1>6

-----------------------------------------------------------------------------
(* The invariant *)

NoneUnderWay == \A i \in DOMAIN asks : ~(asks[i].open /\ asks[i].button)

\* Of the checks: each is shown once, as itself; where somebody is careful, or may not but
\* wait, one at most is under way, none beside a commit, and all of the chosen file.
Asking ==
    /\ \A i \in DOMAIN asks : asks[i].answer # Null =>
          asks[i].answer.file = asks[i].file /\ asks[i].answer.ask = i
    /\ careful => /\ \A i \in DOMAIN asks : asks[i].open => asks[i].file = chosen
                  /\ preview # Null => preview.file = chosen
    /\ careful \/ kind = "list" =>
          /\ \A i, k \in DOMAIN asks : asks[i].open /\ asks[i].button /\ i < k => ~asks[k].button
          /\ Busy \/ outcome = "completed" => NoneUnderWay

\* Of the commits: the last alone waits, of the chosen file, and what was said of it is so.
Sending ==
    /\ \A i \in DOMAIN sends : sends[i].waits => i = Current /\ sends[i].file = chosen
    /\ \A i \in DOMAIN sends : /\ ~sends[i].preview.errors
                               /\ careful => sends[i].preview.file = sends[i].file
    /\ outcome # "idle" => Current \in DOMAIN sends
    /\ kind = "plots" /\ Busy => outcome = "idle"
    /\ outcome = "completed" => ~Busy
    /\ SaysWhatHappened

Like(p, q) == p.ask = q.ask => p.file = q.file /\ p.rev = q.rev

\* Of the approvals: they are of checks that were heard, what was approved once is not
\* changed, what landed is past, and in the plots dialog each is sent once.
Approving ==
    /\ \A k \in DOMAIN sends :
          /\ sends[k].preview.ask \in 1 .. Len(asks)
          /\ \A i \in DOMAIN asks : asks[i].open => sends[k].preview.ask # i
          /\ preview # Null => Like(preview, sends[k].preview)
          /\ sends[k].answer = "200" /\ Compared(sends[k].file) =>
                /\ sends[k].preview.file = sends[k].file
                /\ sends[k].preview.rev < rev[sends[k].file]
    /\ preview # Null =>
          /\ preview.ask \in 1 .. Len(asks)
          /\ \A i \in DOMAIN asks : asks[i].open => preview.ask # i
    /\ \A i, k \in DOMAIN sends : Like(sends[i].preview, sends[k].preview)
    /\ kind = "plots" =>
          /\ \A i, k \in DOMAIN sends : i # k => sends[i].preview.ask # sends[k].preview.ask
          /\ preview # Null /\ outcome = "idle" /\ ~Busy =>
                \A k \in DOMAIN sends : sends[k].preview.ask # preview.ask
    /\ EachApprovalLandsOnce

DialogInv == DialogTypeOK /\ Asking /\ Sending /\ Approving

\* A dialog that has just opened has asked and sent nothing.
LEMMA DialogInitInv == DialogInit => DialogInv
<1> SUFFICES ASSUME DialogInit PROVE DialogInv
  OBVIOUS
<1>1. asks = <<>> /\ sends = <<>> /\ preview = Null /\ outcome = "idle" /\ chosen = Null
  BY DEF DialogInit
<1>2. DOMAIN asks = {} /\ DOMAIN sends = {} /\ Len(asks) = 0 /\ Len(sends) = 0
  BY <1>1
<1>3. DialogTypeOK
  BY <1>1, <1>2, DialogBounds DEF DialogInit, DialogTypeOK, OptPreview
<1>4. Asking
  BY <1>1, <1>2 DEF Asking, Busy
<1>5. Sending
  BY <1>1, <1>2 DEF Sending, Busy, SaysWhatHappened
<1>6. Approving
  BY <1>1, <1>2 DEF Approving, EachApprovalLandsOnce
<1> QED BY <1>3, <1>4, <1>5, <1>6 DEF DialogInv

-----------------------------------------------------------------------------
(* What does not touch a part of it *)

\* What is said of commits stands while they do.
LEMMA SendingStays ==
  ASSUME DialogInv, UNCHANGED <<kind, careful, chosen, outcome, sends>> PROVE Sending'
  BY DEF DialogInv, Sending, Busy, Current, SaysWhatHappened

\* A file is chosen, or all is closed: nothing is shown any more.
LEMMA FreshFile ==
  ASSUME DialogInv, UNCHANGED <<kind, careful, rev, sends>>, ~Busy, outcome' = "idle",
         preview' = Null, Len(asks') = Len(asks), DOMAIN asks' = DOMAIN asks,
         \A i \in DOMAIN asks : asks'[i].open => asks[i].open
  PROVE  Sending' /\ Approving'
<1>1. Busy' = Busy /\ Current' = Current
  BY DEF Busy, Current
<1>2. Sending'
  BY <1>1 DEF DialogInv, Sending, SaysWhatHappened, Busy
<1>3. Approving'
  BY DEF DialogInv, Approving, Compared, EachApprovalLandsOnce
<1> QED BY <1>2, <1>3

\* A file is chosen.
LEMMA ChooseInv == ASSUME DialogInv, NEW f \in Workbooks, ChooseFile(f) PROVE DialogInv'
<1>1. /\ outcome # "completed" /\ ~Busy /\ Waited
      /\ chosen' = f /\ preview' = Null /\ outcome' = "idle"
      /\ UNCHANGED <<kind, careful, rev, flawed, asks, sends>>
  BY DEF ChooseFile, dialogData
<1>2. DialogTypeOK'
  BY <1>1 DEF DialogInv, DialogTypeOK, OptPreview
<1>3. Asking'
  BY <1>1 DEF DialogInv, Asking, Waited, Busy, NoneUnderWay
<1> QED BY <1>1, <1>2, <1>3, FreshFile DEF DialogInv

\* The dialog is closed and opened again.
LEMMA ReopenInv == ASSUME DialogInv, Reopen PROVE DialogInv'
<1>1. /\ ~Busy /\ chosen' = Null /\ preview' = Null /\ outcome' = "idle"
      /\ UNCHANGED <<kind, careful, rev, flawed, sends>>
  BY DEF Reopen, dialogData
<1>2. asks' \in Seq(Ask) /\ Len(asks') = Len(asks) /\ DOMAIN asks' = DOMAIN asks
      /\ \A i \in DOMAIN asks : asks'[i] = Shut(asks[i])
  <2>0. DialogTypeOK
    BY DEF DialogInv
  <2>1. \A i \in DOMAIN asks : Closed(i)[i] = Shut(asks[i]) /\ Shut(asks[i]) \in Ask
    <3> SUFFICES ASSUME NEW i \in DOMAIN asks PROVE Closed(i)[i] = Shut(asks[i]) /\ Shut(asks[i]) \in Ask
      OBVIOUS
    <3>1. Closed(i)[i] = Shut(asks[i])
      BY <2>0, Shuts
    <3>2. Shut(asks[i]) \in Ask
      BY <2>0, DialogTyped DEF Shut, Ask, OptPreview
    <3> QED BY <3>1, <3>2
  <2>2. \A i \in DOMAIN asks : Closed(i)[i] = [asks[i] EXCEPT !.open = FALSE, !.answer = Null]
    BY DEF Closed
  <2>3. asks' = [i \in DOMAIN asks |-> [asks[i] EXCEPT !.open = FALSE, !.answer = Null]]
    BY DEF Reopen
  <2>4. \A i \in DOMAIN asks : asks'[i] = Shut(asks[i])
    BY <2>1, <2>2, <2>3
  <2>5. DOMAIN asks = 1 .. Len(asks) /\ Len(asks) \in Nat /\ DOMAIN asks' = DOMAIN asks
    <3>1. DOMAIN asks = 1 .. Len(asks) /\ Len(asks) \in 0 .. MaxAsks
      BY <2>0, DialogTyped
    <3>2. Len(asks) \in Nat
      BY <3>1, DialogBounds
    <3>3. DOMAIN asks' = DOMAIN asks
      BY <2>3
    <3> QED BY <3>1, <3>2, <3>3
  <2>6. asks' = [i \in 1 .. Len(asks) |-> asks'[i]]
    BY <2>3, <2>5
  <2>7. asks' \in [1 .. Len(asks) -> Ask]
    BY <2>1, <2>4, <2>5, <2>6
  <2> QED BY <2>4, <2>5, <2>7, IsASeq
<1>3. DialogTypeOK'
  BY <1>1, <1>2 DEF DialogInv, DialogTypeOK, OptPreview
<1>4. \A i \in DOMAIN asks' : ~asks'[i].open /\ asks'[i].answer = Null
  BY <1>2 DEF Shut
<1>5. Asking'
  BY <1>1, <1>4 DEF Asking, NoneUnderWay
<1> QED BY <1>1, <1>2, <1>3, <1>4, <1>5, FreshFile DEF DialogInv

\* The chosen file is sent for a preview.
LEMMA CheckInv == ASSUME DialogInv, Check PROVE DialogInv'
<1>1. /\ chosen # Null /\ Len(asks) < MaxAsks /\ (MayCheck \/ MayDismiss) /\ preview' = Null
      /\ UNCHANGED <<kind, careful, rev, flawed, chosen, outcome, sends>>
  BY DEF Check, dialogData
<1>0. DialogTypeOK
  BY DEF DialogInv
<1> DEFINE a == [file |-> chosen, button |-> TRUE, answer |-> Null, open |-> TRUE]
<1>2. a \in Ask
  BY <1>0, <1>1 DEF DialogTypeOK, Ask, OptPreview
<1>3. asks' = Append(asks, a) /\ asks \in Seq(Ask)
  BY <1>0 DEF Check, Asked, DialogTypeOK
<1>4. /\ a.file = chosen /\ a.answer = Null /\ a.open /\ a.button
  OBVIOUS
<1> HIDE DEF a
<1>5. /\ asks' \in Seq(Ask) /\ Len(asks') = Len(asks) + 1 /\ Len(asks) \in Nat
      /\ DOMAIN asks = 1 .. Len(asks) /\ DOMAIN asks' = 1 .. Len(asks) + 1
      /\ asks'[Len(asks) + 1] = a /\ \A k \in DOMAIN asks : asks'[k] = asks[k]
  BY <1>2, <1>3, OneMore
<1>6. DialogTypeOK'
  BY <1>0, <1>1, <1>5, DialogBounds DEF DialogTypeOK, OptPreview
<1>7. ~Busy /\ outcome # "completed"
  BY <1>1 DEF MayCheck, MayDismiss, DialogInv, Sending
<1>8. careful \/ kind = "list" => NoneUnderWay
  <2>1. CASE ~Pending
    <3> SUFFICES ASSUME careful \/ kind = "list", NEW i \in DOMAIN asks, asks[i].open, asks[i].button
                 PROVE  FALSE
      BY DEF NoneUnderWay
    <3>1. \A k \in i + 1 .. Len(asks) : ~asks[k].button
      BY <1>5 DEF DialogInv, Asking
    <3> QED BY <2>1, <3>1 DEF Pending
  <2>2. CASE MayDismiss
    BY <2>2 DEF MayDismiss, Waited, NoneUnderWay
  <2> QED BY <1>1, <2>1, <2>2 DEF MayCheck
<1>9. Asking'
  <2>1. \A i \in DOMAIN asks' : asks'[i].answer # Null =>
          asks'[i].answer.file = asks'[i].file /\ asks'[i].answer.ask = i
    BY <1>4, <1>5 DEF DialogInv, Asking
  <2>2. careful' => \A i \in DOMAIN asks' : asks'[i].open => asks'[i].file = chosen'
    BY <1>1, <1>4, <1>5 DEF DialogInv, Asking
  <2>3. careful \/ kind = "list" =>
          \A i, k \in DOMAIN asks' : asks'[i].open /\ asks'[i].button /\ i < k => ~asks'[k].button
    BY <1>5, <1>8 DEF NoneUnderWay
  <2>4. ~(Busy' \/ outcome' = "completed")
    BY <1>1, <1>7 DEF Busy
  <2> QED BY <1>1, <2>1, <2>2, <2>3, <2>4 DEF Asking
<1>10. Sending'
  BY <1>1, SendingStays
<1>11. Approving'
  <2>1. \A k \in DOMAIN sends : sends[k].preview.ask \in 1 .. Len(asks)
    BY DEF DialogInv, Approving
  <2> QED BY <1>1, <1>5, <2>1 DEF DialogInv, Approving, EachApprovalLandsOnce, Compared
<1> QED BY <1>6, <1>9, <1>10, <1>11 DEF DialogInv

\* The chosen file is sent for a commit.
LEMMA CommitFileInv == ASSUME DialogInv, CommitFile PROVE DialogInv'
<1>1. /\ CanCommit /\ Len(sends) < MaxSends
      /\ UNCHANGED <<kind, careful, rev, flawed, chosen, preview, outcome, asks>>
  BY DEF CommitFile, dialogData
<1>0. DialogTypeOK
  BY DEF DialogInv
<1>2. /\ chosen \in Workbooks /\ preview \in Preview /\ ~preview.errors /\ ~Pending /\ ~Busy
      /\ preview # Null /\ (kind = "plots" => outcome = "idle") /\ outcome # "completed"
  BY <1>0, <1>1 DEF CanCommit, DialogTypeOK, OptPreview
<1> DEFINE s == [file |-> chosen, preview |-> preview, answer |-> "none", waits |-> TRUE]
<1>3. s \in Send
  BY <1>2 DEF Send
<1>4. sends' = Append(sends, s) /\ sends \in Seq(Send)
  BY <1>0 DEF CommitFile, DialogTypeOK
<1>5. s.file = chosen /\ s.preview = preview /\ s.answer = "none" /\ s.waits
  OBVIOUS
<1> HIDE DEF s
<1>6. /\ sends' \in Seq(Send) /\ Len(sends') = Len(sends) + 1 /\ Len(sends) \in Nat
      /\ DOMAIN sends = 1 .. Len(sends) /\ DOMAIN sends' = 1 .. Len(sends) + 1
      /\ sends'[Len(sends) + 1] = s /\ \A k \in DOMAIN sends : sends'[k] = sends[k]
  BY <1>3, <1>4, OneMore
<1>7. DialogTypeOK'
  BY <1>0, <1>1, <1>6, DialogBounds DEF DialogTypeOK
<1>8. Busy' /\ Current' = Len(sends) + 1
  BY <1>5, <1>6 DEF Busy, Current
<1>9. Asking'
  <2>1. careful \/ kind = "list" => NoneUnderWay
    <3> SUFFICES ASSUME careful \/ kind = "list", NEW i \in DOMAIN asks, asks[i].open, asks[i].button
                 PROVE  FALSE
      BY DEF NoneUnderWay
    <3>1. \A k \in i + 1 .. Len(asks) : ~asks[k].button
      BY <1>0, DialogTyped DEF DialogInv, Asking
    <3> QED BY <1>2, <3>1 DEF Pending
  <2> QED BY <1>1, <2>1 DEF DialogInv, Asking, NoneUnderWay
<1>10. Sending'
  <2>1. \A i \in DOMAIN sends : ~sends[i].waits
    BY <1>2 DEF Busy
  <2>2. careful => preview.file = chosen
    BY <1>2 DEF DialogInv, Asking
  <2>3. \A i \in DOMAIN sends' : sends'[i].waits => i = Current' /\ sends'[i].file = chosen'
    BY <1>1, <1>5, <1>6, <1>8, <2>1
  <2>4. \A i \in DOMAIN sends' : /\ ~sends'[i].preview.errors
                                 /\ careful' => sends'[i].preview.file = sends'[i].file
    BY <1>1, <1>2, <1>5, <1>6, <2>2 DEF DialogInv, Sending
  <2>5. Current' \in DOMAIN sends'
    BY <1>6, <1>8
  <2>6. SaysWhatHappened'
    BY <1>1, <1>2, <1>8 DEF SaysWhatHappened
  <2> QED BY <1>1, <1>2, <1>8, <2>3, <2>4, <2>5, <2>6 DEF Sending
<1>11. Approving'
  <2>0. Approving
    BY DEF DialogInv
  <2>1. \A k \in DOMAIN sends' : \/ k \in DOMAIN sends /\ sends'[k] = sends[k]
                                 \/ k = Len(sends) + 1 /\ sends'[k] = s /\ k \notin DOMAIN sends
    BY <1>6
  <2>2. \A k \in DOMAIN sends' :
          /\ sends'[k].preview.ask \in 1 .. Len(asks)
          /\ \A i \in DOMAIN asks : asks[i].open => sends'[k].preview.ask # i
          /\ Like(preview, sends'[k].preview)
    BY <1>2, <1>5, <2>0, <2>1 DEF Approving, Like
  <2>3. \A k \in DOMAIN sends' : sends'[k].answer = "200" => k \in DOMAIN sends /\ sends'[k] = sends[k]
    BY <1>5, <2>1
  <2>4. \A i, k \in DOMAIN sends' : Like(sends'[i].preview, sends'[k].preview)
    BY <1>2, <1>5, <2>0, <2>1 DEF Approving, Like
  <2>5. kind = "plots" => \A i, k \in DOMAIN sends' : i # k => sends'[i].preview.ask # sends'[k].preview.ask
    BY <1>2, <1>5, <2>0, <2>1 DEF Approving
  <2>6. EachApprovalLandsOnce'
    BY <2>0, <2>3 DEF Approving, EachApprovalLandsOnce
  <2>7. \A k \in DOMAIN sends' :
          sends'[k].answer = "200" /\ (kind' = "list" \/ sends'[k].file \in Bound) =>
                /\ sends'[k].preview.file = sends'[k].file
                /\ sends'[k].preview.rev < rev'[sends'[k].file]
    BY <1>1, <2>0, <2>3 DEF Approving, Compared
  <2> QED BY <1>1, <1>2, <1>8, <2>0, <2>2, <2>4, <2>5, <2>6, <2>7 DEF Approving, Compared
<1> QED BY <1>7, <1>9, <1>10, <1>11 DEF DialogInv

-----------------------------------------------------------------------------
(* The server *)

\* The data a file touches only gets newer.
LEMMA EditInv == ASSUME DialogInv, NEW f \in Workbooks, EditByOthers(f) PROVE DialogInv'
<1>1. /\ rev[f] < MaxRev /\ rev' = [rev EXCEPT ![f] = @ + 1]
      /\ flawed' \in {flawed, flawed \cup {f}, flawed \ {f}}
      /\ UNCHANGED <<kind, careful, chosen, preview, outcome, asks, sends>>
  BY DEF EditByOthers
<1>2. rev \in [Workbooks -> 0 .. MaxRev] /\ flawed \subseteq Workbooks
  BY DEF DialogInv, DialogTypeOK
<1>3. rev' \in [Workbooks -> 0 .. MaxRev] /\ \A g \in Workbooks : rev[g] <= rev'[g]
  BY <1>1, <1>2, DialogBounds
<1>4. flawed' \subseteq Workbooks
  BY <1>1, <1>2
<1>5. DialogTypeOK'
  BY <1>1, <1>3, <1>4 DEF DialogInv, DialogTypeOK
<1>6. Asking'
  BY <1>1 DEF DialogInv, Asking, Busy, NoneUnderWay
<1>7. Sending'
  BY <1>1, SendingStays
<1>8. Approving'
  <2>0. DialogTypeOK /\ Approving
    BY DEF DialogInv
  <2>1. \A k \in DOMAIN sends :
          sends[k].answer = "200" /\ Compared(sends[k].file) =>
                /\ sends[k].preview.file = sends[k].file
                /\ sends[k].preview.rev < rev'[sends[k].file]
    <3> SUFFICES ASSUME NEW k \in DOMAIN sends, sends[k].answer = "200", Compared(sends[k].file)
                 PROVE  /\ sends[k].preview.file = sends[k].file
                        /\ sends[k].preview.rev < rev'[sends[k].file]
      OBVIOUS
    <3>1. /\ sends[k].preview.file = sends[k].file
          /\ sends[k].preview.rev < rev[sends[k].file]
      BY <2>0 DEF Approving
    <3>2. sends[k].preview \in Preview /\ sends[k].file \in Workbooks
      BY <2>0, DialogTyped
    <3>3. sends[k].preview.rev \in Int
      BY <3>2 DEF Preview
    <3> PICK old \in Int : old = rev[sends[k].file]
      BY <1>2, <3>2
    <3> PICK now \in Int : now = rev'[sends[k].file]
      BY <1>3, <3>2
    <3>4. old <= now
      BY <1>3, <3>2
    <3> QED BY <3>1, <3>3, <3>4
  <2> QED BY <1>1, <2>0, <2>1 DEF Approving, EachApprovalLandsOnce, Compared, Busy
<1> QED BY <1>5, <1>6, <1>7, <1>8 DEF DialogInv

\* A check is answered for the file it was begun with.
LEMMA ServeAskInv == ASSUME DialogInv, NEW i \in DOMAIN asks, ServeAsk(i) PROVE DialogInv'
<1>0. DialogTypeOK
  BY DEF DialogInv
<1>1. /\ asks[i].open /\ asks[i].answer = Null
      /\ UNCHANGED <<kind, careful, rev, flawed, chosen, preview, outcome, sends>>
  BY DEF ServeAsk, dialogData
<1> DEFINE p == [file |-> asks[i].file, rev |-> rev[asks[i].file],
                 errors |-> asks[i].file \in flawed, ask |-> i]
<1>2. p \in Preview
  <2>1. asks[i].file \in Workbooks /\ i \in 0 .. MaxAsks
    <3>1. i \in 1 .. Len(asks) /\ Len(asks) \in 0 .. MaxAsks
      BY <1>0, DialogTyped
    <3>2. asks[i].file \in Workbooks
      BY <1>0, DialogTyped
    <3> QED BY <3>1, <3>2, DialogBounds
  <2>2. rev[asks[i].file] \in 0 .. MaxRev
    BY <1>0, <2>1 DEF DialogTypeOK
  <2> QED BY <2>1, <2>2 DEF Preview
<1>3. asks' = [asks EXCEPT ![i].answer = p]
  BY DEF ServeAsk
<1>4. p.file = asks[i].file /\ p.ask = i
  OBVIOUS
<1> HIDE DEF p
<1> DEFINE a == [file |-> asks[i].file, button |-> asks[i].button, answer |-> p, open |-> asks[i].open]
<1>5. a \in Ask
  BY <1>0, <1>2, DialogTyped DEF Ask, OptPreview
<1>6. asks' = [asks EXCEPT ![i] = a]
  <2>1. asks[i] = [file |-> asks[i].file, button |-> asks[i].button,
                   answer |-> asks[i].answer, open |-> asks[i].open]
    BY <1>0, DialogTyped
  <2> PICK file, button, answer, open :
        asks[i] = [file |-> file, button |-> button, answer |-> answer, open |-> open]
    BY <2>1
  <2>2. [asks[i] EXCEPT !.answer = p] = a
    OBVIOUS
  <2> QED BY <1>3, <2>2
<1>7. /\ a.file = asks[i].file /\ a.button = asks[i].button /\ a.answer = p /\ a.open = asks[i].open
  OBVIOUS
<1> HIDE DEF a
<1>8. asks \in Seq(Ask)
  BY <1>0 DEF DialogTypeOK
<1>9. /\ asks' \in Seq(Ask) /\ Len(asks') = Len(asks) /\ DOMAIN asks' = DOMAIN asks
      /\ asks'[i] = a /\ \A k \in DOMAIN asks : k # i => asks'[k] = asks[k]
  BY <1>5, <1>6, <1>8, OneAnew
<1>10. \A k \in DOMAIN asks : /\ asks'[k].file = asks[k].file /\ asks'[k].button = asks[k].button
                              /\ asks'[k].open = asks[k].open
  BY <1>7, <1>9
<1>11. DialogTypeOK'
  BY <1>0, <1>1, <1>9 DEF DialogTypeOK
<1>12. Asking'
  <2>1. \A k \in DOMAIN asks' : asks'[k].answer # Null =>
          asks'[k].answer.file = asks'[k].file /\ asks'[k].answer.ask = k
    BY <1>4, <1>7, <1>9 DEF DialogInv, Asking
  <2> QED BY <1>1, <1>9, <1>10, <2>1 DEF DialogInv, Asking, Busy, NoneUnderWay
<1>13. Sending'
  BY <1>1, SendingStays
<1>14. Approving'
  BY <1>1, <1>9, <1>10 DEF DialogInv, Approving, EachApprovalLandsOnce, Compared, Busy
<1> QED BY <1>11, <1>12, <1>13, <1>14 DEF DialogInv

\* An answer is shown, whatever has been chosen since.
LEMMA HearAskInv == ASSUME DialogInv, NEW i \in DOMAIN asks, HearAsk(i) PROVE DialogInv'
<1>0. DialogTypeOK
  BY DEF DialogInv
<1>1. /\ asks[i].open /\ asks[i].answer # Null /\ preview' = asks[i].answer
      /\ outcome' = IF asks[i].button THEN "idle" ELSE outcome
      /\ asks' = Closed(i)
      /\ UNCHANGED <<kind, careful, rev, flawed, chosen, sends>>
  BY DEF HearAsk, OutcomeAfter, dialogData
<1>2. /\ asks' \in Seq(Ask) /\ Len(asks') = Len(asks) /\ DOMAIN asks' = DOMAIN asks
      /\ asks'[i] = Shut(asks[i]) /\ \A k \in DOMAIN asks : k # i => asks'[k] = asks[k]
  BY <1>0, <1>1, Shuts
<1>3. /\ ~asks'[i].open /\ asks'[i].answer = Null
      /\ asks'[i].file = asks[i].file /\ asks'[i].button = asks[i].button
  BY <1>2 DEF Shut
<1>4. /\ preview'.file = asks[i].file /\ preview'.ask = i
  BY <1>1 DEF DialogInv, Asking
<1>5. DialogTypeOK'
  <2>1. asks[i].answer \in OptPreview
    BY <1>0, DialogTyped
  <2>2. outcome' \in {"idle", "completed", "blocked", "stateConflict", "error", "unconfirmed"}
    BY <1>0, <1>1 DEF DialogTypeOK
  <2> QED BY <1>0, <1>1, <1>2, <2>1, <2>2 DEF DialogTypeOK
<1>6. \A k \in DOMAIN asks : asks'[k].open => asks[k].open /\ k # i /\ asks'[k] = asks[k]
  BY <1>2, <1>3
<1>7. outcome' \in {"idle", outcome}
  BY <1>1
<1>8. Asking'
  <2>1. \A k \in DOMAIN asks' : asks'[k].answer # Null =>
          asks'[k].answer.file = asks'[k].file /\ asks'[k].answer.ask = k
    BY <1>2, <1>3 DEF DialogInv, Asking
  <2>2. careful' => /\ \A k \in DOMAIN asks' : asks'[k].open => asks'[k].file = chosen'
                    /\ preview' # Null => preview'.file = chosen'
    BY <1>1, <1>2, <1>4, <1>6 DEF DialogInv, Asking
  <2>3. \A k \in DOMAIN asks : asks'[k].button = asks[k].button
    BY <1>2, <1>3
  <2>4. careful' \/ kind' = "list" =>
          /\ \A k, l \in DOMAIN asks' : asks'[k].open /\ asks'[k].button /\ k < l => ~asks'[l].button
          /\ Busy' \/ outcome' = "completed" => \A k \in DOMAIN asks' : ~(asks'[k].open /\ asks'[k].button)
    BY <1>1, <1>2, <1>6, <1>7, <2>3 DEF DialogInv, Asking, Busy, NoneUnderWay
  <2> QED BY <2>1, <2>2, <2>4 DEF Asking, NoneUnderWay
<1>9. Sending'
  BY <1>1, <1>7 DEF DialogInv, Sending, Busy, Current, SaysWhatHappened
<1>10. Approving'
  <2>0. Approving
    BY DEF DialogInv
  <2>1. \A k \in DOMAIN sends : sends[k].preview.ask # i
    BY <1>1, <2>0 DEF Approving
  <2>2. i \in 1 .. Len(asks)
    BY <1>0, DialogTyped
  <2>3. \A k \in DOMAIN sends : Like(preview', sends[k].preview) /\ sends[k].preview.ask # preview'.ask
    BY <1>4, <2>1 DEF Like
  <2>4. /\ preview'.ask \in 1 .. Len(asks')
        /\ \A k \in DOMAIN asks' : asks'[k].open => preview'.ask # k
    BY <1>2, <1>4, <1>6, <2>2
  <2>5. \A k \in DOMAIN sends : \A l \in DOMAIN asks' : asks'[l].open => sends[k].preview.ask # l
    BY <1>2, <1>6, <2>0 DEF Approving
  <2> QED BY <1>1, <1>2, <2>0, <2>3, <2>4, <2>5 DEF Approving, EachApprovalLandsOnce, Compared, Busy
<1> QED BY <1>5, <1>8, <1>9, <1>10 DEF DialogInv

\* The answer to a preview is lost.
LEMMA LoseAskInv == ASSUME DialogInv, NEW i \in DOMAIN asks, LoseAsk(i) PROVE DialogInv'
<1>0. DialogTypeOK
  BY DEF DialogInv
<1>1. /\ asks[i].open /\ asks' = Closed(i)
      /\ UNCHANGED <<kind, careful, rev, flawed, chosen, preview, outcome, sends>>
  BY DEF LoseAsk, dialogData
<1>2. /\ asks' \in Seq(Ask) /\ Len(asks') = Len(asks) /\ DOMAIN asks' = DOMAIN asks
      /\ asks'[i] = Shut(asks[i]) /\ \A k \in DOMAIN asks : k # i => asks'[k] = asks[k]
  BY <1>0, <1>1, Shuts
<1>3. /\ ~asks'[i].open /\ asks'[i].answer = Null
      /\ asks'[i].file = asks[i].file /\ asks'[i].button = asks[i].button
  BY <1>2 DEF Shut
<1>4. \A k \in DOMAIN asks : asks'[k].open => asks[k].open /\ asks'[k] = asks[k]
  BY <1>2, <1>3
<1>5. \A k \in DOMAIN asks : asks'[k].button = asks[k].button
  BY <1>2, <1>3
<1>6. DialogTypeOK'
  BY <1>0, <1>1, <1>2 DEF DialogTypeOK
<1>7. Asking'
  <2>1. \A k \in DOMAIN asks' : asks'[k].answer # Null =>
          asks'[k].answer.file = asks'[k].file /\ asks'[k].answer.ask = k
    BY <1>2, <1>3 DEF DialogInv, Asking
  <2> QED BY <1>1, <1>2, <1>4, <1>5, <2>1 DEF DialogInv, Asking, Busy, NoneUnderWay
<1>8. Sending'
  BY <1>1, SendingStays
<1>9. Approving'
  BY <1>1, <1>2, <1>4 DEF DialogInv, Approving, EachApprovalLandsOnce, Compared, Busy
<1> QED BY <1>6, <1>7, <1>8, <1>9 DEF DialogInv

\* A commit is answered: with success only for what it was approved as, where that is compared.
LEMMA AnswerInv ==
  ASSUME DialogInv, NEW i \in DOMAIN sends, sends[i].answer = "none",
         NEW status \in {"200", "409", "422", "500"}, Answer(i, status),
         UNCHANGED <<kind, careful, flawed, chosen, preview, outcome, asks>>,
         rev' \in [Workbooks -> 0 .. MaxRev], \A f \in Workbooks : rev[f] <= rev'[f],
         status = "200" /\ Compared(sends[i].file) =>
            Matches(sends[i]) /\ rev[sends[i].file] < rev'[sends[i].file]
  PROVE  DialogInv'
<1>0. DialogTypeOK /\ Asking /\ Sending /\ Approving
  BY DEF DialogInv
<1>1. /\ sends' \in Seq(Send) /\ Len(sends') = Len(sends) /\ DOMAIN sends' = DOMAIN sends
      /\ sends'[i] = AnsweredBy(sends[i], status)
      /\ \A k \in DOMAIN sends : k # i => sends'[k] = sends[k]
  BY <1>0, Answers
<1>2. /\ sends'[i].file = sends[i].file /\ sends'[i].preview = sends[i].preview
      /\ sends'[i].waits = sends[i].waits /\ sends'[i].answer = status
  BY <1>1 DEF AnsweredBy
<1>3. \A k \in DOMAIN sends :
        /\ sends'[k].file = sends[k].file /\ sends'[k].preview = sends[k].preview
        /\ sends'[k].waits = sends[k].waits /\ (k # i => sends'[k].answer = sends[k].answer)
  BY <1>1, <1>2
<1>4. Busy' = Busy /\ Current' = Current
  BY <1>1, <1>3 DEF Busy, Current
<1>5. DialogTypeOK'
  BY <1>0, <1>1 DEF DialogTypeOK
<1>6. Asking'
  BY <1>0, <1>4 DEF Asking, NoneUnderWay
<1>7. Sending'
  <2>1. SaysWhatHappened'
    <3>1. outcome \in {"blocked", "stateConflict"} /\ ~Busy
            => Current # i /\ Current \in DOMAIN sends /\ sends[Current].answer \in {"409", "422"}
      BY <1>0 DEF Sending, SaysWhatHappened
    <3>2. outcome = "completed"
            => Current # i /\ Current \in DOMAIN sends /\ sends[Current].answer = "200"
               /\ sends[Current].file = chosen
      BY <1>0 DEF Sending, SaysWhatHappened
    <3> QED BY <1>3, <1>4, <3>1, <3>2 DEF SaysWhatHappened
  <2>2. \A k \in DOMAIN sends' : sends'[k].waits => k = Current' /\ sends'[k].file = chosen'
    BY <1>0, <1>1, <1>3, <1>4 DEF Sending
  <2>3. \A k \in DOMAIN sends' : /\ ~sends'[k].preview.errors
                                 /\ careful' => sends'[k].preview.file = sends'[k].file
    BY <1>0, <1>1, <1>3 DEF Sending
  <2> QED BY <1>0, <1>1, <1>4, <2>1, <2>2, <2>3 DEF Sending
<1>8. Approving'
  <2>1. \A k \in DOMAIN sends' :
          /\ sends'[k].preview.ask \in 1 .. Len(asks)
          /\ \A j \in DOMAIN asks : asks[j].open => sends'[k].preview.ask # j
          /\ preview # Null => Like(preview, sends'[k].preview)
    BY <1>0, <1>1, <1>3 DEF Approving
  <2>2. \A k \in DOMAIN sends' : sends'[k].answer = "200" /\ Compared(sends[k].file) =>
                /\ sends'[k].preview.file = sends'[k].file
                /\ sends'[k].preview.rev < rev'[sends'[k].file]
    <3> SUFFICES ASSUME NEW k \in DOMAIN sends, sends'[k].answer = "200", Compared(sends[k].file)
                 PROVE  /\ sends[k].preview.file = sends[k].file
                        /\ sends[k].preview.rev < rev'[sends[k].file]
      BY <1>1, <1>3
    <3>1. sends[k].preview \in Preview /\ sends[k].file \in Workbooks
      BY <1>0, DialogTyped
    <3>2. sends[k].preview.rev \in Int
      BY <3>1 DEF Preview
    <3> PICK old \in Int : old = rev[sends[k].file]
      BY <1>0, <3>1 DEF DialogTypeOK
    <3> PICK now \in Int : now = rev'[sends[k].file]
      BY <3>1
    <3>3. old <= now
      BY <3>1
    <3>4. CASE k = i
      BY <1>2, <3>4 DEF Matches
    <3>5. CASE k # i
      <4>1. sends[k].answer = "200"
        BY <1>3, <3>5
      <4>2. /\ sends[k].preview.file = sends[k].file
            /\ sends[k].preview.rev < rev[sends[k].file]
        BY <1>0, <4>1 DEF Approving
      <4> QED BY <3>2, <3>3, <4>2
    <3> QED BY <3>4, <3>5
  <2>3. \A j, k \in DOMAIN sends' : Like(sends'[j].preview, sends'[k].preview)
    BY <1>0, <1>1, <1>3 DEF Approving
  <2>4. kind = "plots" =>
          \A j, k \in DOMAIN sends' : j # k => sends'[j].preview.ask # sends'[k].preview.ask
    BY <1>0, <1>1, <1>3 DEF Approving
  <2>5. EachApprovalLandsOnce'
    <3> SUFFICES ASSUME NEW j \in DOMAIN sends, NEW k \in DOMAIN sends, j # k,
                        sends'[j].answer = "200", sends'[k].answer = "200",
                        sends[j].preview.ask = sends[k].preview.ask
                 PROVE  FALSE
      BY <1>1, <1>3 DEF EachApprovalLandsOnce
    <3>1. kind = "list"
      BY <1>0, <1>1, <1>3, <2>4 DEF DialogTypeOK
    <3>2. \A l \in DOMAIN sends : Compared(sends[l].file)
      BY <3>1 DEF Compared
    <3>3. j = i \/ k = i
      BY <1>0, <1>3 DEF Approving, EachApprovalLandsOnce
    <3>4. status = "200" /\ sends[i].preview.file = sends[i].file /\ sends[i].preview.rev = rev[sends[i].file]
      BY <1>2, <3>2, <3>3 DEF Matches
    <3>5. \A l \in DOMAIN sends : l # i /\ sends'[l].answer = "200" =>
            /\ sends[l].preview.file = sends[l].file
            /\ sends[l].preview.rev < rev[sends[l].file]
      BY <1>0, <1>3, <3>2 DEF Approving
    <3>6. Like(sends[j].preview, sends[k].preview)
      BY <1>0 DEF Approving
    <3>7. PICK l \in DOMAIN sends :
            /\ l # i /\ sends'[l].answer = "200"
            /\ sends[l].preview.file = sends[i].preview.file /\ sends[l].preview.rev = sends[i].preview.rev
      BY <3>3, <3>6 DEF Like
    <3>8. sends[l].preview.rev < rev[sends[l].file] /\ sends[l].file = sends[i].file
      BY <3>4, <3>5, <3>7
    <3>9. sends[l].preview.rev = rev[sends[i].file]
      BY <3>4, <3>7
    <3>10. rev[sends[i].file] \in Int
      <4>1. sends[i].file \in Workbooks
        BY <1>0, DialogTyped
      <4> QED BY <1>0, <4>1 DEF DialogTypeOK
    <3> QED BY <3>8, <3>9, <3>10
  <2>6. kind = "plots" /\ preview # Null /\ outcome = "idle" /\ ~Busy =>
          \A k \in DOMAIN sends' : sends'[k].preview.ask # preview.ask
    BY <1>0, <1>1, <1>3 DEF Approving
  <2>7. \A k \in DOMAIN sends' :
          sends'[k].answer = "200" /\ (kind' = "list" \/ sends'[k].file \in Bound) =>
                /\ sends'[k].preview.file = sends'[k].file
                /\ sends'[k].preview.rev < rev'[sends'[k].file]
    BY <1>1, <1>3, <2>2 DEF Compared
  <2> QED BY <1>0, <1>4, <2>1, <2>3, <2>4, <2>5, <2>6, <2>7 DEF Approving, Compared
<1> QED BY <1>5, <1>6, <1>7, <1>8 DEF DialogInv

\* The server commits a file.
LEMMA ExecuteInv == ASSUME DialogInv, NEW i \in DOMAIN sends, Execute(i) PROVE DialogInv'
<1>1. /\ sends[i].answer = "none" /\ rev[sends[i].file] < MaxRev
      /\ UNCHANGED <<kind, careful, flawed, chosen, preview, outcome, asks>>
  BY DEF Execute
<1>2. /\ rev \in [Workbooks -> 0 .. MaxRev] /\ sends[i].file \in Workbooks
  BY DialogTyped DEF DialogInv, DialogTypeOK
<1>3. CASE Refusal(sends[i]) = "none"
  <2>1. Answer(i, "200") /\ rev' = [rev EXCEPT ![sends[i].file] = @ + 1]
    BY <1>3 DEF Execute
  <2>2. rev' \in [Workbooks -> 0 .. MaxRev] /\ \A f \in Workbooks : rev[f] <= rev'[f]
    BY <1>1, <1>2, <2>1, DialogBounds
  <2>3. Compared(sends[i].file) => Matches(sends[i])
    BY <1>3 DEF Refusal
  <2>4. rev[sends[i].file] < rev'[sends[i].file]
    BY <1>2, <2>1
  <2> QED BY <1>1, <2>1, <2>2, <2>3, <2>4, AnswerInv
<1>4. CASE Refusal(sends[i]) # "none"
  <2>1. Refusal(sends[i]) \in {"409", "422"}
    BY <1>4 DEF Refusal
  <2>2. Answer(i, Refusal(sends[i])) /\ UNCHANGED rev
    BY <1>4 DEF Execute
  <2>3. \A f \in Workbooks : rev[f] <= rev'[f]
    BY <1>2, <2>2
  <2>4. PICK status \in {"409", "422"} : Answer(i, status)
    BY <2>1, <2>2
  <2>5. status \in {"200", "409", "422", "500"} /\ status # "200"
    OBVIOUS
  <2> QED BY <1>1, <1>2, <2>2, <2>3, <2>4, <2>5, AnswerInv
<1> QED BY <1>3, <1>4

\* The server refuses a file, or fails.
LEMMA FailInv == ASSUME DialogInv, NEW i \in DOMAIN sends, Fail(i) PROVE DialogInv'
<1>1. /\ sends[i].answer = "none" /\ Answer(i, "500")
      /\ UNCHANGED <<kind, careful, rev, flawed, chosen, preview, outcome, asks>>
  BY DEF Fail, dialogData
<1>2. rev' \in [Workbooks -> 0 .. MaxRev] /\ \A f \in Workbooks : rev[f] <= rev'[f]
  BY <1>1, DialogBounds DEF DialogInv, DialogTypeOK
<1> QED BY <1>1, <1>2, AnswerInv

-----------------------------------------------------------------------------
(* Answers to a commit *)

Phases == {"completed", "blocked", "stateConflict", "error", "unconfirmed"}

\* Whatever the answer says, the dialog stops waiting and shows a phase that is true of it.
LEMMA HearingInv ==
  ASSUME DialogInv, Busy, sends' = Heard, UNCHANGED <<kind, careful, rev, flawed, chosen>>,
         outcome' \in Phases, preview' \in OptPreview, asks' \in Seq(Ask), Len(asks') <= MaxAsks,
         outcome' \in {"blocked", "stateConflict"} => sends[Current].answer \in {"409", "422"},
         outcome' = "completed" => sends[Current].answer = "200",
         \/ preview' \in {Null, preview}
         \/ /\ preview'.file = sends[Current].preview.file /\ preview'.rev = sends[Current].preview.rev
            /\ preview'.ask = sends[Current].preview.ask,
         \/ asks' = asks
         \/ /\ Len(asks') = Len(asks) + 1 /\ outcome' # "completed"
            /\ \A k \in DOMAIN asks : asks'[k] = asks[k]
            /\ asks'[Len(asks')].file = chosen /\ asks'[Len(asks')].answer = Null
            /\ ~asks'[Len(asks')].button
  PROVE  DialogInv'
<1>0. DialogTypeOK /\ Asking /\ Sending /\ Approving
  BY DEF DialogInv
<1>1. Current \in DOMAIN sends /\ sends[Current].waits /\ sends[Current].file = chosen
  BY <1>0 DEF Busy, Sending
<1>2. /\ sends' \in Seq(Send) /\ Len(sends') = Len(sends) /\ DOMAIN sends' = DOMAIN sends
      /\ sends'[Current] = Over(sends[Current])
      /\ \A k \in DOMAIN sends : k # Current => sends'[k] = sends[k]
  BY <1>0, <1>1, Hears
<1>3. \A k \in DOMAIN sends :
        /\ sends'[k].file = sends[k].file /\ sends'[k].preview = sends[k].preview
        /\ sends'[k].answer = sends[k].answer
  BY <1>1, <1>2 DEF Over
<1>4. \A k \in DOMAIN sends : ~sends'[k].waits
  BY <1>0, <1>1, <1>2 DEF Over, Sending
<1>5. Current' = Current /\ ~Busy'
  BY <1>2, <1>4 DEF Busy, Current
<1>6. DialogTypeOK'
  BY <1>0, <1>2 DEF DialogTypeOK, Phases
<1>7. /\ DOMAIN asks = 1 .. Len(asks) /\ Len(asks) \in Nat /\ DOMAIN asks' = 1 .. Len(asks')
      /\ Len(asks') \in Nat
  BY <1>0, LenProperties DEF DialogTypeOK
<1>8. /\ Len(asks) <= Len(asks')
      /\ \A k \in DOMAIN asks' : \/ k \in DOMAIN asks /\ asks'[k] = asks[k]
                                 \/ /\ k \notin DOMAIN asks /\ k = Len(asks) + 1 /\ outcome' # "completed"
                                    /\ asks'[k].file = chosen /\ asks'[k].answer = Null
                                    /\ ~asks'[k].button
  <2>1. CASE asks' = asks
    BY <1>7, <2>1
  <2>2. CASE /\ Len(asks') = Len(asks) + 1 /\ outcome' # "completed"
             /\ \A k \in DOMAIN asks : asks'[k] = asks[k]
             /\ asks'[Len(asks')].file = chosen /\ asks'[Len(asks')].answer = Null
             /\ ~asks'[Len(asks')].button
    <3> PICK n \in Nat : n = Len(asks)
      BY <1>7
    <3>1. \A k \in DOMAIN asks' : k \in DOMAIN asks \/ k = n + 1
      BY <1>7, <2>2
    <3>2. n + 1 \notin DOMAIN asks /\ n <= n + 1
      <4>1. DOMAIN asks = 1 .. n
        BY <1>7
      <4>2. n + 1 \notin 1 .. n /\ n <= n + 1
        OBVIOUS
      <4> QED BY <4>1, <4>2
    <3> QED BY <2>2, <3>1, <3>2
  <2> QED BY <2>1, <2>2
<1>9. Asking'
  <2>1. \A k \in DOMAIN asks' : asks'[k].answer # Null =>
          asks'[k].answer.file = asks'[k].file /\ asks'[k].answer.ask = k
    BY <1>0, <1>8 DEF Asking
  <2>2. careful => \A k \in DOMAIN asks' : asks'[k].open => asks'[k].file = chosen
    BY <1>0, <1>8 DEF Asking
  <2>3. careful /\ preview' # Null => preview'.file = chosen
    <3>1. careful => sends[Current].preview.file = chosen
      BY <1>0, <1>1 DEF Sending
    <3> QED BY <1>0, <3>1 DEF Asking
  <2>4. careful \/ kind = "list" =>
          \A k, l \in DOMAIN asks' : asks'[k].open /\ asks'[k].button /\ k < l => ~asks'[l].button
    BY <1>0, <1>8 DEF Asking
  <2>5. careful \/ kind = "list" => \A k \in DOMAIN asks' : ~(asks'[k].open /\ asks'[k].button)
    BY <1>0, <1>8 DEF Asking, NoneUnderWay
  <2> QED BY <2>1, <2>2, <2>3, <2>4, <2>5 DEF Asking, NoneUnderWay
<1>10. Sending'
  <2>1. SaysWhatHappened'
    BY <1>1, <1>3, <1>5 DEF SaysWhatHappened
  <2>2. \A k \in DOMAIN sends' : /\ ~sends'[k].preview.errors
                                 /\ careful' => sends'[k].preview.file = sends'[k].file
    BY <1>0, <1>2, <1>3 DEF Sending
  <2> QED BY <1>1, <1>2, <1>4, <1>5, <2>1, <2>2 DEF Sending
<1>11. Approving'
  <2>0. 1 .. Len(asks) \subseteq 1 .. Len(asks')
    <3> PICK n \in Nat, m \in Nat : n = Len(asks) /\ m = Len(asks')
      BY <1>7
    <3>1. n <= m
      BY <1>8
    <3>2. 1 .. n \subseteq 1 .. m
      BY <3>1
    <3> QED BY <3>2
  <2>1. \A k \in DOMAIN sends' : sends'[k].preview.ask \in 1 .. Len(asks) /\ sends'[k].preview.ask \in 1 .. Len(asks')
    BY <1>0, <1>2, <1>3, <2>0 DEF Approving
  <2>2. \A k \in DOMAIN sends' : \A j \in DOMAIN asks' : asks'[j].open => sends'[k].preview.ask # j
    <3> SUFFICES ASSUME NEW k \in DOMAIN sends, NEW j \in DOMAIN asks', asks'[j].open,
                        sends[k].preview.ask = j
                 PROVE  FALSE
      BY <1>2, <1>3
    <3>1. j \in DOMAIN asks
      BY <1>0, <1>7 DEF Approving
    <3>2. asks[j].open
      BY <1>8, <3>1
    <3> QED BY <1>0, <3>1, <3>2 DEF Approving
  <2>3. \A k \in DOMAIN sends' : preview' # Null => Like(preview', sends'[k].preview)
    BY <1>0, <1>1, <1>2, <1>3 DEF Approving, Like
  <2>4. \A k \in DOMAIN sends' :
          sends'[k].answer = "200" /\ (kind' = "list" \/ sends'[k].file \in Bound) =>
                /\ sends'[k].preview.file = sends'[k].file
                /\ sends'[k].preview.rev < rev'[sends'[k].file]
    BY <1>0, <1>2, <1>3 DEF Approving, Compared
  <2>5. preview' # Null => /\ preview'.ask \in 1 .. Len(asks) /\ preview'.ask \in 1 .. Len(asks')
                           /\ \A j \in DOMAIN asks' : asks'[j].open => preview'.ask # j
    <3>1. CASE preview' \in {Null, preview}
      <4> SUFFICES ASSUME preview' # Null
                   PROVE  /\ preview'.ask \in 1 .. Len(asks)
                          /\ \A j \in DOMAIN asks' : asks'[j].open => preview'.ask # j
        BY <2>0
      <4>1. preview' = preview /\ preview.ask \in 1 .. Len(asks)
        BY <1>0, <3>1 DEF Approving
      <4>2. ASSUME NEW j \in DOMAIN asks', asks'[j].open, preview.ask = j PROVE FALSE
        <5>1. j \in DOMAIN asks
          BY <1>7, <4>1, <4>2
        <5>2. asks[j].open
          BY <1>8, <4>2, <5>1
        <5> QED BY <1>0, <4>1, <4>2, <5>1, <5>2 DEF Approving
      <4> QED BY <4>1, <4>2
    <3>2. CASE preview'.ask = sends[Current].preview.ask
      BY <1>0, <1>1, <1>2, <1>3, <2>1, <2>2, <3>2
    <3> QED BY <3>1, <3>2
  <2>6. \A j, k \in DOMAIN sends' : Like(sends'[j].preview, sends'[k].preview)
    BY <1>0, <1>2, <1>3 DEF Approving
  <2>7. kind = "plots" =>
          \A j, k \in DOMAIN sends' : j # k => sends'[j].preview.ask # sends'[k].preview.ask
    BY <1>0, <1>2, <1>3 DEF Approving
  <2>8. outcome' # "idle"
    BY DEF Phases
  <2>9. EachApprovalLandsOnce'
    BY <1>0, <1>2, <1>3 DEF Approving, EachApprovalLandsOnce
  <2> QED BY <2>1, <2>2, <2>3, <2>4, <2>5, <2>6, <2>7, <2>8, <2>9 DEF Approving, Compared
<1> QED BY <1>6, <1>9, <1>10, <1>11 DEF DialogInv

\* The dialog hears that its commit is done.
LEMMA HearCompletedInv == ASSUME DialogInv, HearCompleted PROVE DialogInv'
<1>1. /\ Busy /\ sends' = Heard /\ sends[Current].answer = "200" /\ outcome' = "completed"
      /\ UNCHANGED <<kind, careful, rev, flawed, chosen, preview, asks>>
  BY DEF HearCompleted, dialogData
<1>2. preview' \in OptPreview /\ asks' \in Seq(Ask) /\ Len(asks') <= MaxAsks /\ outcome' \in Phases
  BY <1>1 DEF DialogInv, DialogTypeOK, Phases
<1> QED BY <1>1, <1>2, HearingInv

\* It hears of an error, from the server, from the proxy, or from its own clock.
LEMMA HearErrorInv ==
  ASSUME DialogInv, NEW phase \in {"error", "unconfirmed"}, HearError(phase) PROVE DialogInv'
<1>1. /\ Busy /\ sends' = Heard /\ outcome' = phase
      /\ UNCHANGED <<kind, careful, rev, flawed, chosen, preview, asks>>
  BY DEF HearError, dialogData
<1>2. preview' \in OptPreview /\ asks' \in Seq(Ask) /\ Len(asks') <= MaxAsks /\ outcome' \in Phases
  BY <1>1 DEF DialogInv, DialogTypeOK, Phases
<1>3. outcome' \notin {"blocked", "stateConflict"} /\ outcome' # "completed"
  BY <1>1
<1>4. preview' \in {Null, preview} /\ asks' = asks /\ UNCHANGED <<kind, careful, rev, flawed, chosen>>
  BY <1>1
<1> QED BY <1>1, <1>2, <1>3, <1>4, HearingInv

\* Whoever it hears the error from.
LEMMA HearErrorsInv ==
  ASSUME DialogInv, HearFailure \/ HearGateway \/ HearNothing PROVE DialogInv'
<1>1. PICK phase \in {"error", "unconfirmed"} : HearError(phase)
  BY DEF HearFailure, HearGateway, HearNothing
<1> QED BY <1>1, HearErrorInv

\* The dialog for plots hears a refusal.
LEMMA HearRefusalOfPlotsInv == ASSUME DialogInv, HearRefusalOfPlots PROVE DialogInv'
<1>0. DialogTypeOK /\ Sending
  BY DEF DialogInv
<1>1. /\ Busy /\ sends' = Heard /\ sends[Current].answer \in {"409", "422"}
      /\ UNCHANGED <<kind, careful, rev, flawed, chosen, preview>>
  BY DEF HearRefusalOfPlots, dialogData
<1>2. preview' \in OptPreview
  BY <1>0, <1>1 DEF DialogTypeOK
<1>3. CASE sends[Current].answer = "409"
  <2>1. outcome' = "stateConflict" /\ asks' = asks
    BY <1>3 DEF HearRefusalOfPlots
  <2>2. asks' \in Seq(Ask) /\ Len(asks') <= MaxAsks /\ outcome' \in Phases
    BY <1>0, <2>1 DEF DialogTypeOK, Phases
  <2> QED BY <1>1, <1>2, <2>1, <2>2, HearingInv
<1>4. CASE sends[Current].answer # "409"
  <2> DEFINE a == [file |-> chosen, button |-> FALSE, answer |-> Null, open |-> TRUE]
  <2>1. outcome' = "blocked" /\ Len(asks) < MaxAsks /\ asks' = Append(asks, a)
    BY <1>4 DEF HearRefusalOfPlots, Asked
  <2>2. chosen \in Workbooks
    <3>1. Current \in DOMAIN sends /\ sends[Current].file = chosen
      BY <1>0, <1>1 DEF Busy, Sending
    <3> QED BY <1>0, <3>1, DialogTyped
  <2>3. a \in Ask
    BY <2>2 DEF Ask, OptPreview
  <2>4. a.file = chosen /\ a.answer = Null /\ ~a.button
    OBVIOUS
  <2> HIDE DEF a
  <2>5. asks \in Seq(Ask)
    BY <1>0 DEF DialogTypeOK
  <2>6. /\ asks' \in Seq(Ask) /\ Len(asks') = Len(asks) + 1 /\ Len(asks) \in Nat
        /\ asks'[Len(asks) + 1] = a /\ \A k \in DOMAIN asks : asks'[k] = asks[k]
    BY <2>1, <2>3, <2>5, OneMore
  <2>7. Len(asks') <= MaxAsks /\ outcome' \in Phases
    BY <2>1, <2>6, DialogBounds DEF Phases
  <2>8. /\ asks'[Len(asks')].file = chosen /\ asks'[Len(asks')].answer = Null
        /\ ~asks'[Len(asks')].button
    BY <2>4, <2>6
  <2>9. outcome' # "completed" /\ preview' \in {Null, preview} /\ UNCHANGED <<kind, careful, rev, flawed, chosen>>
    BY <1>1, <2>1
  <2>10. sends[Current].answer \in {"409", "422", "500"}
    BY <1>1
  <2> QED BY <1>1, <1>2, <2>6, <2>7, <2>8, <2>9, <2>10, HearingInv
<1> QED BY <1>3, <1>4

\* A dialog for lists hears a refusal.
LEMMA HearRefusalOfListInv == ASSUME DialogInv, HearRefusalOfList PROVE DialogInv'
<1>0. DialogTypeOK /\ Sending
  BY DEF DialogInv
<1>1. /\ Busy /\ sends' = Heard /\ sends[Current].answer \in {"409", "422"}
      /\ UNCHANGED <<kind, careful, rev, flawed, chosen, asks>>
  BY DEF HearRefusalOfList, dialogData
<1>2. asks' \in Seq(Ask) /\ Len(asks') <= MaxAsks
  BY <1>0, <1>1 DEF DialogTypeOK
<1>3. CASE sends[Current].answer = "409"
  <2>1. outcome' = "stateConflict" /\ preview' = Null
    BY <1>3 DEF HearRefusalOfList
  <2>2. outcome' \in Phases /\ preview' \in OptPreview
    BY <2>1 DEF OptPreview, Phases
  <2> QED BY <1>1, <1>2, <2>1, <2>2, HearingInv
<1>4. CASE sends[Current].answer # "409"
  <2>1. outcome' = "blocked" /\ preview' \in {Null, [sends[Current].preview EXCEPT !.errors = TRUE]}
    BY <1>4 DEF HearRefusalOfList
  <2>2. sends[Current].preview \in Preview
    <3>1. Current \in DOMAIN sends
      BY <1>0, <1>1 DEF Busy, Sending
    <3> QED BY <1>0, <3>1, DialogTyped
  <2>3. /\ preview' \in OptPreview
        /\ \/ preview' = Null
           \/ /\ preview'.file = sends[Current].preview.file /\ preview'.rev = sends[Current].preview.rev
              /\ preview'.ask = sends[Current].preview.ask
    <3> PICK p \in Preview : p = sends[Current].preview
      BY <2>2
    <3> DEFINE yes == TRUE
               q == [file |-> p.file, rev |-> p.rev, errors |-> yes, ask |-> p.ask]
    <3>1. yes \in BOOLEAN
      OBVIOUS
    <3> HIDE DEF yes
    <3>2. p = [file |-> p.file, rev |-> p.rev, errors |-> p.errors, ask |-> p.ask]
      BY DEF Preview
    <3> PICK file, when, errors, ask : p = [file |-> file, rev |-> when, errors |-> errors, ask |-> ask]
      BY <3>2
    <3>3. [p EXCEPT !.errors = yes] = q
      OBVIOUS
    <3>4. q \in Preview
      BY <3>1 DEF Preview
    <3>5. q.file = p.file /\ q.rev = p.rev /\ q.ask = p.ask
      OBVIOUS
    <3>6. preview' \in {Null, q}
      BY <2>1, <3>3 DEF yes
    <3> HIDE DEF q
    <3> QED BY <3>4, <3>5, <3>6 DEF OptPreview
  <2>4. outcome' \in Phases /\ outcome' # "completed"
    BY <2>1 DEF Phases
  <2>5. sends[Current].answer \in {"409", "422", "500"}
    BY <1>1
  <2> QED BY <1>1, <1>2, <2>3, <2>4, <2>5, HearingInv
<1> QED BY <1>3, <1>4

\* Every step keeps the invariant.
LEMMA DialogNextInv == ASSUME DialogInv, [DialogNext]_dialogVars PROVE DialogInv'
<1>1. CASE DialogNext
  BY <1>1, ChooseInv, EditInv, CheckInv, CommitFileInv, ReopenInv, ServeAskInv, HearAskInv,
     LoseAskInv, ExecuteInv, FailInv, HearCompletedInv, HearRefusalOfPlotsInv,
     HearRefusalOfListInv, HearErrorsInv DEF DialogNext
<1>2. CASE UNCHANGED dialogVars
  <2>1. UNCHANGED <<kind, careful, rev, flawed, chosen, preview, outcome, asks, sends>>
    BY <1>2 DEF dialogVars, dialogData
  <2>2. DialogTypeOK'
    BY <2>1 DEF DialogInv, DialogTypeOK
  <2>3. Asking'
    BY <2>1 DEF DialogInv, Asking, Busy, NoneUnderWay
  <2>4. Sending'
    BY <2>1, SendingStays
  <2>5. Approving'
    BY <2>1 DEF DialogInv, Approving, EachApprovalLandsOnce, Compared, Busy
  <2> QED BY <2>2, <2>3, <2>4, <2>5 DEF DialogInv
<1> QED BY <1>1, <1>2

-----------------------------------------------------------------------------
(* What a step may do *)

\* Only its own transaction turns a commit into an import, when nothing is held against it.
LEMMA OnlyExecuteLands ==
  ASSUME DialogInv, DialogNext, NEW i, Lands(i)
  PROVE  Execute(i) /\ Refusal(sends[i]) = "none"
<1>0. DialogTypeOK
  BY DEF DialogInv
<1>1. i \in DOMAIN sends /\ sends[i].answer = "none" /\ sends'[i].answer = "200"
  BY DEF Lands
<1>2. ~UNCHANGED sends
  BY <1>1
<1>3. ASSUME CommitFile PROVE FALSE
  <2> DEFINE s == [file |-> chosen, preview |-> preview, answer |-> "none", waits |-> TRUE]
  <2>1. chosen \in Workbooks /\ preview \in Preview
    BY <1>0, <1>3 DEF CommitFile, CanCommit, DialogTypeOK, OptPreview
  <2>2. s \in Send
    BY <2>1 DEF Send
  <2>3. sends' = Append(sends, s) /\ sends \in Seq(Send)
    BY <1>0, <1>3 DEF CommitFile, DialogTypeOK
  <2> HIDE DEF s
  <2>4. sends'[i] = sends[i]
    BY <1>1, <2>2, <2>3, OneMore
  <2> QED BY <1>1, <2>4
<1>4. ASSUME Busy, sends' = Heard PROVE FALSE
  <2>1. Current \in DOMAIN sends
    BY <1>4 DEF Busy, DialogInv, Sending
  <2>2. sends'[Current].answer = sends[Current].answer
        /\ \A k \in DOMAIN sends : k # Current => sends'[k] = sends[k]
    BY <1>0, <1>4, <2>1, Hears DEF Over
  <2> QED BY <1>1, <2>2
<1>5. ASSUME NEW k \in DOMAIN sends, NEW status \in {"none", "200", "409", "422", "500"}, Answer(k, status)
      PROVE  k = i /\ status = "200"
  <2>1. /\ sends'[k] = AnsweredBy(sends[k], status)
        /\ \A l \in DOMAIN sends : l # k => sends'[l] = sends[l]
    BY <1>0, <1>5, Answers
  <2>2. sends'[k].answer = status
    BY <2>1 DEF AnsweredBy
  <2> QED BY <1>1, <2>1, <2>2
<1>6. ASSUME NEW k \in DOMAIN sends, Fail(k) PROVE FALSE
  <2>1. Answer(k, "500")
    BY <1>6 DEF Fail
  <2> QED BY <1>5, <2>1
<1>7. ASSUME NEW k \in DOMAIN sends, Execute(k) PROVE Execute(i) /\ Refusal(sends[i]) = "none"
  <2>1. Refusal(sends[k]) \in {"none", "409", "422"}
    BY DEF Refusal
  <2>2. CASE Refusal(sends[k]) = "none"
    <3>1. Answer(k, "200")
      BY <1>7, <2>2 DEF Execute
    <3>2. k = i
      BY <1>5, <3>1
    <3> QED BY <1>7, <2>2, <3>2
  <2>3. CASE Refusal(sends[k]) # "none"
    <3>1. PICK status \in {"409", "422"} : Answer(k, status)
      BY <1>7, <2>1, <2>3 DEF Execute
    <3>2. status \in {"none", "200", "409", "422", "500"} /\ status # "200"
      OBVIOUS
    <3> QED BY <1>5, <3>1, <3>2
  <2> QED BY <2>2, <2>3
<1>8. ASSUME \/ HearCompleted \/ HearRefusalOfPlots \/ HearRefusalOfList
             \/ HearFailure \/ HearGateway \/ HearNothing
      PROVE  FALSE
  BY <1>4, <1>8 DEF HearCompleted, HearRefusalOfPlots, HearRefusalOfList, HearFailure,
                    HearGateway, HearNothing, HearError
<1>9. ASSUME NEW f \in Workbooks, ChooseFile(f) \/ EditByOthers(f) PROVE FALSE
  BY <1>2, <1>9 DEF ChooseFile, EditByOthers
<1>10. ASSUME Check \/ Reopen PROVE FALSE
  BY <1>2, <1>10 DEF Check, Reopen
<1>11. ASSUME NEW k \in DOMAIN asks, ServeAsk(k) \/ HearAsk(k) \/ LoseAsk(k) PROVE FALSE
  BY <1>2, <1>11 DEF ServeAsk, HearAsk, LoseAsk
<1> QED BY <1>3, <1>6, <1>7, <1>8, <1>9, <1>10, <1>11 DEF DialogNext

\* What lands is the file that was shown, without errors, and compared with what it is when it matters.
LEMMA StepLandsAsPreviewed ==
  ASSUME DialogInv, [DialogNext]_dialogVars, NEW i \in 1 .. MaxSends, Lands(i)
  PROVE  /\ Compared(sends[i].file) \/ careful => sends[i].preview.file = sends[i].file
         /\ sends[i].preview.file = sends[i].file => ~sends[i].preview.errors
         /\ Compared(sends[i].file) => sends[i].preview.rev = rev[sends[i].file]
<1>1. i \in DOMAIN sends /\ sends'[i] # sends[i]
  BY DEF Lands
<1>2. DialogNext
  BY <1>1 DEF dialogVars
<1>3. Execute(i) /\ Refusal(sends[i]) = "none"
  BY <1>2, OnlyExecuteLands
<1>4. Compared(sends[i].file) => Matches(sends[i])
  BY <1>3 DEF Refusal
<1>5. ~sends[i].preview.errors /\ (careful => sends[i].preview.file = sends[i].file)
  BY <1>1 DEF DialogInv, Sending
<1> QED BY <1>4, <1>5 DEF Matches

\* What is done is not sent again.
LEMMA StepStaysLocked ==
  ASSUME DialogInv, [DialogNext]_dialogVars, outcome = "completed", kind = "list" \/ careful
  PROVE  outcome' = "completed" \/ chosen' = Null
<1>1. ~Busy /\ NoneUnderWay
  BY DEF DialogInv, Asking, Sending
<1>2. ASSUME UNCHANGED dialogVars PROVE outcome' = "completed"
  BY <1>2 DEF dialogVars
<1>3. ASSUME NEW f \in Workbooks, ChooseFile(f) \/ EditByOthers(f) PROVE outcome' = "completed"
  BY <1>3 DEF ChooseFile, EditByOthers
<1>4. ASSUME Check \/ CommitFile PROVE outcome' = "completed"
  BY <1>4 DEF Check, CommitFile
<1>5. ASSUME Reopen PROVE chosen' = Null
  BY <1>5 DEF Reopen
<1>6. ASSUME NEW i \in DOMAIN asks, ServeAsk(i) \/ HearAsk(i) \/ LoseAsk(i)
      PROVE  outcome' = "completed"
  BY <1>1, <1>6 DEF ServeAsk, HearAsk, LoseAsk, OutcomeAfter, NoneUnderWay
<1>7. ASSUME NEW i \in DOMAIN sends, Execute(i) \/ Fail(i) PROVE outcome' = "completed"
  BY <1>7 DEF Execute, Fail
<1>8. /\ ~HearCompleted /\ ~HearRefusalOfPlots /\ ~HearRefusalOfList
      /\ ~HearFailure /\ ~HearGateway /\ ~HearNothing
  BY <1>1 DEF HearCompleted, HearRefusalOfPlots, HearRefusalOfList, HearFailure,
              HearGateway, HearNothing, HearError
<1> QED BY <1>2, <1>3, <1>4, <1>5, <1>6, <1>7, <1>8 DEF DialogNext

\* A dialog imports what it showed, once, speaks the truth of refusals and imports, and stays
\* locked after an import: for any files, any answers lost, late or given by the proxy, any
\* edits of others and any number of clicks.
THEOREM TruthfulDialogs == DialogSpec => DialogsKeepTheirWord
<1>1. DialogInit => DialogInv
  BY DialogInitInv
<1>2. DialogInv /\ [DialogNext]_dialogVars => DialogInv'
  BY DialogNextInv
<1>3. DialogInv => DialogTypeOK /\ EachApprovalLandsOnce /\ SaysWhatHappened
  BY DEF DialogInv, Approving, Sending
<1>4. DialogInv /\ [DialogNext]_dialogVars =>
        [\A i \in 1 .. MaxSends : Lands(i) =>
          LET s == sends[i] IN
          /\ Compared(s.file) \/ careful => s.preview.file = s.file
          /\ s.preview.file = s.file => ~s.preview.errors
          /\ Compared(s.file) => s.preview.rev = rev[s.file]]_dialogVars
  BY StepLandsAsPreviewed
<1>5. DialogInv /\ [DialogNext]_dialogVars =>
        [outcome = "completed" /\ (kind = "list" \/ careful) => outcome' = "completed" \/ chosen' = Null]_dialogVars
  BY StepStaysLocked
<1> QED BY <1>1, <1>2, <1>3, <1>4, <1>5, PTL
     DEF DialogSpec, DialogsKeepTheirWord, LandsAsPreviewed, ImportedStaysLocked

-----------------------------------------------------------------------------
(* Induction, over sets in place of predicates *)

LessThan == {ss \in Nat \X Nat : ss[1] < ss[2]}

\* The order of the natural numbers is well founded, in the form the library asks for.
LEMMA LessThanWF == IsWellFoundedOn(LessThan, Nat)
<1>1. OpToRel(<, Nat) = LessThan
  BY Zenon DEF OpToRel, LessThan
<1> QED BY Zenon, <1>1, NatLessThanWellFounded

\* By steps of one.
LEMMA Induction ==
  ASSUME NEW T, 0 \in T, \A n \in Nat : n \in T => n + 1 \in T
  PROVE  \A n \in Nat : n \in T
<1> DEFINE bad == {n \in Nat : n \notin T}
<1> SUFFICES ASSUME bad # {} PROVE FALSE
  OBVIOUS
<1>1. bad \subseteq Nat
  OBVIOUS
<1>2. PICK n \in bad : \A m \in bad : ~(<<m, n>> \in LessThan)
  <2> HIDE DEF bad
  <2> QED BY <1>1, WFMin, LessThanWF
<1>3. n # 0 /\ n - 1 \in Nat /\ n - 1 < n /\ (n - 1) + 1 = n
  OBVIOUS
<1>4. n - 1 \in T
  BY <1>2, <1>3 DEF LessThan
<1> QED BY <1>3, <1>4

\* By one element more.
LEMMA SetInduction ==
  ASSUME NEW D, IsFiniteSet(D), NEW T,
         \A A \in SUBSET D : (\A x \in A : A \ {x} \in T) => A \in T
  PROVE  \A A \in SUBSET D : A \in T
<1> DEFINE U == {n \in Nat : \A A \in SUBSET D : Cardinality(A) = n => A \in T}
<1>1. 0 \in U
  <2> SUFFICES ASSUME NEW A \in SUBSET D, Cardinality(A) = 0 PROVE A \in T
    OBVIOUS
  <2>1. A = {}
    BY FS_Subset, FS_EmptySet
  <2> QED BY <2>1
<1>2. ASSUME NEW n \in Nat, n \in U PROVE n + 1 \in U
  <2> SUFFICES ASSUME NEW A \in SUBSET D, Cardinality(A) = n + 1, NEW x \in A PROVE A \ {x} \in T
    OBVIOUS
  <2>1. IsFiniteSet(A)
    BY FS_Subset
  <2>2. Cardinality(A \ {x}) = Cardinality(A) - 1
    BY <2>1, FS_RemoveElement
  <2>3. Cardinality(A \ {x}) = n
    BY <2>2
  <2> QED BY <1>2, <2>3
<1>3. \A n \in Nat : n \in U
  <2> HIDE DEF U
  <2> QED BY <1>1, <1>2, Induction
<1>4. \A A \in SUBSET D : Cardinality(A) \in Nat
  BY FS_Subset, FS_CardinalityType
<1> QED BY <1>3, <1>4

-----------------------------------------------------------------------------
(* Sums *)

Some(s) == CHOOSE x \in s : TRUE
SumStep(f, g, s) == IF s = {} THEN 0 ELSE f[Some(s)] + g[s \ {Some(s)}]

\* The sums of all parts of D.
Sums(f, D, g) ==
    /\ g \in [SUBSET D -> Nat]
    /\ \A s \in SUBSET D : g[s] = SumStep(f, g, s)

Natural(f, D) == \A x \in D : f[x] \in Nat

\* A sum is found by recursion over the parts of its domain.
LEMMA SumIsFound ==
  ASSUME NEW f
  PROVE SumFunction(f) = (CHOOSE g : g = [s \in SUBSET DOMAIN f |-> SumStep(f, g, s)])[DOMAIN f]
  BY Zenon DEF SumFunction, SumFunctionOnSet, FoldFunctionOnSet, MapThenFoldSet, SumStep, Some

\* The recursion has a result.
LEMMA SumsExist ==
  ASSUME NEW f, NEW D, IsFiniteSet(D), Natural(f, D)
  PROVE  \E g : Sums(f, D, g)
<1> DEFINE Small(n) == {s \in SUBSET D : Cardinality(s) <= n}
           Up(n) == {h \in [Small(n) -> Nat] : \A s \in Small(n) : h[s] = SumStep(f, h, s)}
           T == {n \in Nat : Up(n) # {}}
<1>0. ASSUME NEW s \in SUBSET D
      PROVE  /\ IsFiniteSet(s) /\ Cardinality(s) \in Nat /\ Cardinality(s) <= Cardinality(D)
             /\ Cardinality(D) \in Nat
             /\ Cardinality(s) = 0 => s = {}
             /\ s # {} => /\ Some(s) \in s /\ s \ {Some(s)} \in SUBSET D
                          /\ Cardinality(s \ {Some(s)}) = Cardinality(s) - 1
  <2>1. IsFiniteSet(s) /\ Cardinality(s) \in Nat /\ Cardinality(s) <= Cardinality(D) /\ Cardinality(D) \in Nat
    BY FS_Subset, FS_CardinalityType
  <2>2. s # {} => Some(s) \in s
    BY Zenon DEF Some
  <2>3. s # {} => Cardinality(s \ {Some(s)}) = Cardinality(s) - 1
    BY <2>1, <2>2, FS_RemoveElement
  <2>4. Cardinality(s) = 0 => s = {}
    BY <2>1, FS_EmptySet
  <2> QED BY <2>1, <2>2, <2>3, <2>4
<1>1. 0 \in T
  <2> DEFINE h == [s \in Small(0) |-> 0]
  <2>1. ASSUME NEW s \in Small(0) PROVE s = {}
    <3>1. s \in SUBSET D /\ Cardinality(s) <= 0
      OBVIOUS
    <3>2. Cardinality(s) = 0
      <4>1. Cardinality(s) \in Nat
        BY <1>0, <3>1
      <4> HIDE DEF Small
      <4> QED BY <3>1, <4>1
    <3> QED BY <1>0, <3>1, <3>2
  <2>2. h \in Up(0)
    BY <2>1 DEF SumStep
  <2> QED BY <2>2
<1>2. ASSUME NEW n \in Nat, n \in T PROVE n + 1 \in T
  <2>1. PICK h \in [Small(n) -> Nat] : \A s \in Small(n) : h[s] = SumStep(f, h, s)
    BY <1>2
  <2> DEFINE g == [s \in Small(n + 1) |-> IF s \in Small(n) THEN h[s] ELSE SumStep(f, h, s)]
  <2>2. ASSUME NEW s \in Small(n + 1)
        PROVE  s # {} => /\ s \ {Some(s)} \in Small(n) /\ Some(s) \in D
                         /\ s \ {Some(s)} \in Small(n + 1)
    BY <1>0
  <2>3. ASSUME NEW s \in Small(n + 1) PROVE SumStep(f, h, s) \in Nat /\ SumStep(f, g, s) = SumStep(f, h, s)
    <3>1. CASE s = {}
      BY <3>1 DEF SumStep
    <3>2. CASE s # {}
      <4>1. s \ {Some(s)} \in Small(n) /\ s \ {Some(s)} \in Small(n + 1) /\ Some(s) \in D
        BY <2>2, <3>2
      <4>2. h[s \ {Some(s)}] \in Nat /\ f[Some(s)] \in Nat
        BY <2>1, <4>1 DEF Natural
      <4>3. g[s \ {Some(s)}] = h[s \ {Some(s)}]
        BY <4>1
      <4> HIDE DEF g, Small
      <4> QED BY <3>2, <4>2, <4>3 DEF SumStep
    <3> QED BY <3>1, <3>2
  <2>4. ASSUME NEW s \in Small(n + 1) PROVE g[s] \in Nat /\ g[s] = SumStep(f, g, s)
    <3>1. g[s] = IF s \in Small(n) THEN h[s] ELSE SumStep(f, h, s)
      OBVIOUS
    <3> HIDE DEF g, Small
    <3> QED BY <2>1, <2>3, <3>1
  <2>5. g \in [Small(n + 1) -> Nat]
    BY <2>4
  <2>6. Up(n + 1) # {}
    <3> HIDE DEF g, Small
    <3> QED BY <2>4, <2>5
  <2> HIDE DEF Up
  <2> QED BY <2>6
<1>3. \A n \in Nat : n \in T
  <2> HIDE DEF T
  <2> QED BY <1>1, <1>2, Induction
<1>4. PICK n \in Nat : n = Cardinality(D)
  BY FS_CardinalityType
<1>5. PICK h \in [Small(n) -> Nat] : \A s \in Small(n) : h[s] = SumStep(f, h, s)
  BY <1>3
<1>6. Small(n) = SUBSET D
  BY <1>0, <1>4
<1>7. Sums(f, D, h)
  <2> HIDE DEF Small
  <2> QED BY <1>5, <1>6 DEF Sums
<1> QED BY <1>7

\* And a sum is one.
LEMMA SumIsOne ==
  ASSUME NEW f, IsFiniteSet(DOMAIN f), Natural(f, DOMAIN f)
  PROVE  \E g : Sums(f, DOMAIN f, g) /\ SumFunction(f) = g[DOMAIN f]
<1> PICK D : D = DOMAIN f
  OBVIOUS
<1>1. PICK h : Sums(f, D, h)
  BY SumsExist
<1>2. h = [s \in SUBSET D |-> SumStep(f, h, s)]
  BY <1>1 DEF Sums
<1> DEFINE g == CHOOSE k : k = [s \in SUBSET D |-> SumStep(f, k, s)]
<1>3. g = [s \in SUBSET D |-> SumStep(f, g, s)]
  BY <1>2, Zenon
<1>4. SumFunction(f) = g[D]
  BY SumIsFound, Zenon
<1> HIDE DEF g
<1> PICK k : k = g
  OBVIOUS
<1>5. k = [s \in SUBSET D |-> SumStep(f, k, s)]
  BY <1>3, Zenon
<1>6. \A s \in SUBSET D : k[s] = SumStep(f, k, s)
  BY <1>5, Zenon
<1> DEFINE T == {s \in SUBSET D : k[s] \in Nat}
<1>7. ASSUME NEW A \in SUBSET D, \A x \in A : A \ {x} \in T PROVE A \in T
  <2>1. k[A] = SumStep(f, k, A)
    BY <1>6
  <2>2. CASE A = {}
    BY <2>1, <2>2 DEF SumStep
  <2>3. CASE A # {}
    <3>1. Some(A) \in A
      BY <2>3, Zenon DEF Some
    <3>2. k[A \ {Some(A)}] \in Nat /\ f[Some(A)] \in Nat
      BY <1>7, <3>1 DEF Natural
    <3> QED BY <2>1, <2>3, <3>2 DEF SumStep
  <2> QED BY <2>2, <2>3
<1>8. \A A \in SUBSET D : A \in T
  <2> HIDE DEF T
  <2> QED BY <1>7, SetInduction
<1>9. k \in [SUBSET D -> Nat]
  BY <1>5, <1>8
<1>10. Sums(f, D, k)
  BY <1>6, <1>9 DEF Sums
<1> QED BY <1>4, <1>10, Zenon

\* It does not matter which element is added last.
LEMMA SumsRemove ==
  ASSUME NEW f, NEW D, IsFiniteSet(D), Natural(f, D), NEW g, Sums(f, D, g)
  PROVE  \A A \in SUBSET D : \A x \in A : g[A] = f[x] + g[A \ {x}]
<1> DEFINE T == {A \in SUBSET D : \A x \in A : g[A] = f[x] + g[A \ {x}]}
<1>1. ASSUME NEW A \in SUBSET D, \A x \in A : A \ {x} \in T PROVE A \in T
  <2> SUFFICES ASSUME NEW x \in A PROVE g[A] = f[x] + g[A \ {x}]
    OBVIOUS
  <2> PICK c : c = Some(A)
    OBVIOUS
  <2>1. c \in A
    BY Zenon DEF Some
  <2>2. g[A] = f[c] + g[A \ {c}]
    BY DEF Sums, SumStep
  <2>3. CASE c = x
    BY <2>2, <2>3
  <2>4. CASE c # x
    <3>1. x \in A \ {c} /\ c \in A \ {x}
      BY <2>1, <2>4
    <3> PICK B : B = (A \ {c}) \ {x}
      OBVIOUS
    <3>2. B = (A \ {x}) \ {c} /\ B \in SUBSET D
      OBVIOUS
    <3>3. g[A \ {c}] = f[x] + g[B]
      BY <1>1, <2>1, <3>1
    <3>4. g[A \ {x}] = f[c] + g[B]
      BY <1>1, <3>1, <3>2
    <3>5. f[x] \in Nat /\ f[c] \in Nat /\ g[B] \in Nat
      BY <2>1, <3>2 DEF Natural, Sums
    <3> QED BY <2>2, <3>3, <3>4, <3>5
  <2> QED BY <2>3, <2>4
<1>2. \A A \in SUBSET D : A \in T
  <2> HIDE DEF T
  <2> QED BY <1>1, SetInduction
<1> QED BY <1>2

\* What is summed up over a part depends on that part alone.
LEMMA SumsAgree ==
  ASSUME NEW f, NEW D, NEW g, Sums(f, D, g), NEW k, NEW E, NEW h, Sums(k, E, h),
         IsFiniteSet(E), E \subseteq D, \A x \in E : f[x] = k[x]
  PROVE  \A A \in SUBSET E : g[A] = h[A]
<1> DEFINE T == {A \in SUBSET E : g[A] = h[A]}
<1>1. ASSUME NEW A \in SUBSET E, \A x \in A : A \ {x} \in T PROVE A \in T
  <2>1. g[A] = SumStep(f, g, A) /\ h[A] = SumStep(k, h, A)
    BY DEF Sums
  <2>2. A # {} => Some(A) \in A
    BY Zenon DEF Some
  <2>3. A # {} => g[A \ {Some(A)}] = h[A \ {Some(A)}] /\ f[Some(A)] = k[Some(A)]
    BY <1>1, <2>2
  <2> QED BY <2>1, <2>3 DEF SumStep
<1>2. \A A \in SUBSET E : A \in T
  <2> HIDE DEF T
  <2> QED BY <1>1, SetInduction
<1> QED BY <1>2

\* The sum of f over a part of its domain.
Sum(f, S) == SumFunction([x \in S |-> f[x]])

\* Sums: nothing of nothing, and of a set what one of its elements adds to the rest.
LEMMA SumIs ==
  ASSUME NEW f, NEW S, IsFiniteSet(S), Natural(f, S)
  PROVE  /\ Sum(f, S) \in Nat
         /\ S = {} => Sum(f, S) = 0
         /\ \A x \in S : Sum(f, S) = f[x] + Sum(f, S \ {x})
<1> PICK k : k = [x \in S |-> f[x]]
  OBVIOUS
<1>1. DOMAIN k = S /\ Natural(k, S) /\ \A x \in S : k[x] = f[x]
  BY DEF Natural
<1>2. PICK g : Sums(k, S, g) /\ SumFunction(k) = g[S]
  BY <1>1, SumIsOne
<1>3. Sum(f, S) = g[S]
  BY <1>2 DEF Sum
<1>4. Sum(f, S) \in Nat /\ (S = {} => Sum(f, S) = 0)
  BY <1>2, <1>3 DEF Sums, SumStep
<1>5. ASSUME NEW x \in S PROVE Sum(f, S) = f[x] + Sum(f, S \ {x})
  <2> PICK E : E = S \ {x}
    OBVIOUS
  <2> PICK m : m = [y \in E |-> f[y]]
    OBVIOUS
  <2>1. DOMAIN m = E /\ Natural(m, E) /\ \A y \in E : m[y] = k[y]
    BY <1>1 DEF Natural
  <2>2. IsFiniteSet(E) /\ E \subseteq S
    BY FS_Subset
  <2>3. PICK h : Sums(m, E, h) /\ SumFunction(m) = h[E]
    BY <2>1, <2>2, SumIsOne
  <2>4. g[E] = h[E]
    BY <1>2, <2>1, <2>2, <2>3, SumsAgree
  <2>5. g[S] = k[x] + g[E]
    BY <1>1, <1>2, SumsRemove
  <2>6. Sum(f, E) = h[E]
    BY <2>3 DEF Sum
  <2> QED BY <1>1, <1>3, <2>4, <2>5, <2>6
<1> QED BY <1>4, <1>5

\* A sum is of numbers as they are at each element, whatever function has them.
LEMMA SumSame ==
  ASSUME NEW f, NEW k, NEW S, \A x \in S : f[x] = k[x]
  PROVE  Sum(f, S) = Sum(k, S)
<1>1. [x \in S |-> f[x]] = [x \in S |-> k[x]]
  OBVIOUS
<1> QED BY <1>1, Zenon DEF Sum

\* The sum of two sets without a common element.
LEMMA SumSplit ==
  ASSUME NEW f, NEW A, NEW B, IsFiniteSet(A), IsFiniteSet(B), A \cap B = {}, Natural(f, A \cup B)
  PROVE  Sum(f, A \cup B) = Sum(f, A) + Sum(f, B)
<1> DEFINE T == {C \in SUBSET B : Sum(f, A \cup C) = Sum(f, A) + Sum(f, C)}
<1>1. ASSUME NEW C \in SUBSET B, \A x \in C : C \ {x} \in T PROVE C \in T
  <2>1. /\ IsFiniteSet(C) /\ IsFiniteSet(A \cup C)
        /\ Natural(f, A) /\ Natural(f, C) /\ Natural(f, A \cup C)
    BY FS_Subset, FS_Union DEF Natural
  <2>2. Sum(f, A) \in Nat /\ Sum(f, C) \in Nat
    BY <2>1, SumIs
  <2>3. CASE C = {}
    <3>1. A \cup C = A /\ Sum(f, C) = 0
      BY <2>1, <2>3, SumIs
    <3> QED BY <2>2, <3>1
  <2>4. CASE C # {}
    <3> PICK x \in C : TRUE
      BY <2>4
    <3> PICK E : E = C \ {x}
      OBVIOUS
    <3>1. (A \cup C) \ {x} = A \cup E /\ E \in SUBSET B
      OBVIOUS
    <3>2. Sum(f, A \cup C) = f[x] + Sum(f, A \cup E)
      BY <2>1, <3>1, SumIs
    <3>3. Sum(f, C) = f[x] + Sum(f, E)
      BY <2>1, SumIs
    <3>4. Sum(f, A \cup E) = Sum(f, A) + Sum(f, E)
      BY <1>1
    <3>5. f[x] \in Nat /\ Sum(f, E) \in Nat
      <4>1. IsFiniteSet(E) /\ Natural(f, E)
        BY <2>1, FS_Subset DEF Natural
      <4> QED BY <2>1, <4>1, SumIs DEF Natural
    <3> QED BY <2>2, <3>2, <3>3, <3>4, <3>5
  <2> QED BY <2>3, <2>4
<1>2. \A C \in SUBSET B : C \in T
  <2> HIDE DEF T
  <2> QED BY <1>1, SetInduction
<1> QED BY <1>2

\* The sum of nothings.
LEMMA SumZero ==
  ASSUME NEW f, NEW S, IsFiniteSet(S), \A x \in S : f[x] = 0
  PROVE  Sum(f, S) = 0
<1> DEFINE T == {A \in SUBSET S : Sum(f, A) = 0}
<1>1. ASSUME NEW A \in SUBSET S, \A x \in A : A \ {x} \in T PROVE A \in T
  <2>1. IsFiniteSet(A) /\ Natural(f, A)
    BY FS_Subset DEF Natural
  <2>2. CASE A = {}
    BY <2>1, <2>2, SumIs
  <2>3. CASE A # {}
    <3> PICK x \in A : TRUE
      BY <2>3
    <3>1. Sum(f, A) = f[x] + Sum(f, A \ {x}) /\ Sum(f, A \ {x}) = 0 /\ f[x] = 0
      BY <1>1, <2>1, SumIs
    <3> QED BY <3>1
  <2> QED BY <2>2, <2>3
<1>2. \A A \in SUBSET S : A \in T
  <2> HIDE DEF T
  <2> QED BY <1>1, SetInduction
<1> QED BY <1>2

\* No element adds more than the sum.
LEMMA SumBounds ==
  ASSUME NEW f, NEW S, IsFiniteSet(S), Natural(f, S), NEW x \in S
  PROVE  f[x] <= Sum(f, S)
<1>1. IsFiniteSet(S \ {x}) /\ Natural(f, S \ {x})
  BY FS_Subset DEF Natural
<1>2. Sum(f, S) = f[x] + Sum(f, S \ {x}) /\ Sum(f, S \ {x}) \in Nat /\ f[x] \in Nat
  BY <1>1, SumIs DEF Natural
<1> QED BY <1>2

RowCounts(k, S, K) == [key \in K |-> Cardinality({i \in S : k[i] = key})]

\* Rows that each element of a set is in one of add up to the set.
LEMMA RowsAddUpTo ==
  ASSUME NEW S, IsFiniteSet(S), NEW K, IsFiniteSet(K), NEW k, \A i \in S : k[i] \in K
  PROVE  SumFunction(RowCounts(k, S, K)) = Cardinality(S)
<1> PICK f : f = RowCounts(k, S, K)
  OBVIOUS
<1>0. \A key \in K : f[key] = Cardinality({i \in S : k[i] = key})
  BY DEF RowCounts
<1>1. Natural(f, K)
  <2>1. \A key \in K : Cardinality({i \in S : k[i] = key}) \in Nat
    <3> SUFFICES ASSUME NEW key \in K PROVE Cardinality({i \in S : k[i] = key}) \in Nat
      OBVIOUS
    <3>1. {i \in S : k[i] = key} \subseteq S
      OBVIOUS
    <3> QED BY <3>1, FS_Subset, FS_CardinalityType
  <2> QED BY <1>0, <2>1 DEF Natural
<1> DEFINE In(C) == {i \in S : k[i] \in C}
           T == {C \in SUBSET K : Sum(f, C) = Cardinality(In(C))}
<1>2. ASSUME NEW C \in SUBSET K, \A x \in C : C \ {x} \in T PROVE C \in T
  <2>1. IsFiniteSet(C) /\ Natural(f, C)
    BY <1>1, FS_Subset DEF Natural
  <2>2. CASE C = {}
    <3>1. Sum(f, C) = 0 /\ In(C) = {}
      BY <2>1, <2>2, SumIs
    <3> QED BY <3>1, FS_EmptySet
  <2>3. CASE C # {}
    <3> PICK x \in C : TRUE
      BY <2>3
    <3> PICK A, B : A = {i \in S : k[i] = x} /\ B = In(C \ {x})
      OBVIOUS
    <3>1. Sum(f, C) = f[x] + Sum(f, C \ {x})
      BY <2>1, SumIs
    <3>2. Sum(f, C \ {x}) = Cardinality(B) /\ f[x] = Cardinality(A)
      BY <1>0, <1>2
    <3>3. In(C) = A \cup B /\ A \cap B = {} /\ A \subseteq S /\ B \subseteq S
      OBVIOUS
    <3>4. IsFiniteSet(A) /\ IsFiniteSet(B) /\ Cardinality(A) \in Nat /\ Cardinality(B) \in Nat
      BY <3>3, FS_Subset, FS_CardinalityType
    <3>5. Cardinality(A \cup B) = Cardinality(A) + Cardinality(B) - Cardinality(A \cap B)
      BY <3>4, FS_Union
    <3>6. Cardinality(A \cap B) = 0
      BY <3>3, FS_EmptySet
    <3>7. Cardinality(In(C)) = f[x] + Sum(f, C \ {x})
      <4>1. Cardinality(A \cup B) = Cardinality(A) + Cardinality(B)
        BY <3>4, <3>5, <3>6
      <4>2. In(C) = A \cup B
        BY <3>3
      <4>3. Cardinality(In(C)) = Cardinality(A) + Cardinality(B)
        BY <4>1, <4>2, Zenon
      <4> QED BY <3>2, <4>3, Zenon
    <3> QED BY <3>1, <3>7
  <2> QED BY <2>2, <2>3
<1>3. \A C \in SUBSET K : C \in T
  <2> HIDE DEF T
  <2> QED BY <1>2, SetInduction
<1>4. Sum(f, K) = Cardinality(In(K))
  BY <1>3
<1>5. In(K) = S
  OBVIOUS
<1>6. [key \in K |-> f[key]] = RowCounts(k, S, K)
  BY <1>0 DEF RowCounts
<1>7. Sum(f, K) = SumFunction(RowCounts(k, S, K))
  BY <1>6, Zenon DEF Sum
<1> QED BY <1>4, <1>5, <1>7

-----------------------------------------------------------------------------
(* Greatest and least *)

\* A set of numbers up to n has a greatest.
LEMMA MaxIs ==
  ASSUME NEW n \in Nat, NEW S, S \subseteq 0 .. n, S # {}
  PROVE  Max(S) \in S /\ \A y \in S : y <= Max(S)
<1> DEFINE T == {m \in Nat : \A A \in SUBSET (0 .. m) : A # {} => \E x \in A : \A y \in A : x >= y}
<1>1. 0 \in T
  <2> SUFFICES ASSUME NEW A \in SUBSET (0 .. 0), NEW z \in A PROVE \E x \in A : \A y \in A : x >= y
    OBVIOUS
  <2>1. \A y \in A : y = 0
    OBVIOUS
  <2> QED BY <2>1
<1>2. ASSUME NEW m \in Nat, m \in T PROVE m + 1 \in T
  <2> SUFFICES ASSUME NEW A \in SUBSET (0 .. (m + 1)), A # {} PROVE \E x \in A : \A y \in A : x >= y
    OBVIOUS
  <2>1. CASE m + 1 \in A
    BY <2>1
  <2>2. CASE m + 1 \notin A
    <3>1. A \in SUBSET (0 .. m)
      BY <2>2
    <3> QED BY <1>2, <3>1
  <2> QED BY <2>1, <2>2
<1>3. \A m \in Nat : m \in T
  <2> HIDE DEF T
  <2> QED BY <1>1, <1>2, Induction
<1>4. \E x \in S : \A y \in S : x >= y
  BY <1>3
<1>5. Max(S) \in S /\ \A y \in S : Max(S) >= y
  BY <1>4, Zenon DEF Max
<1> QED BY <1>5

\* The least of some of the numbers from 1 to 4.
LEMMA MinIs ==
  ASSUME NEW S \in SUBSET (1 .. 4), S # {}
  PROVE  Min(S) \in S /\ \A y \in S : Min(S) <= y
<1>1. \E x \in S : \A y \in S : x <= y
  <2>0. \A y \in S : y = 1 \/ y = 2 \/ y = 3 \/ y = 4
    OBVIOUS
  <2>1. CASE 1 \in S
    BY <2>0, <2>1
  <2>2. CASE 1 \notin S /\ 2 \in S
    BY <2>0, <2>2
  <2>3. CASE 1 \notin S /\ 2 \notin S /\ 3 \in S
    BY <2>0, <2>3
  <2>4. CASE 1 \notin S /\ 2 \notin S /\ 3 \notin S
    <3>1. \A y \in S : y = 4
      BY <2>0, <2>4
    <3> PICK z \in S : TRUE
      OBVIOUS
    <3>2. \A y \in S : z <= y
      BY <3>1
    <3> QED BY <3>2
  <2> QED BY <2>1, <2>2, <2>3, <2>4
<1> QED BY <1>1, Zenon DEF Min

-----------------------------------------------------------------------------
(* Tables *)

\* A plot's cycles are few enough, and only the latest may be active.
SeasonsInv ==
    \A p \in PlotIds : /\ Last(p) <= MaxCycles
                       /\ \A c \in DOMAIN cycles[p] : cycles[p][c].status = "active" => c = Last(p)

DashboardInv == DashboardTypeOK /\ SeasonsInv

\* What the types say of one row.
LEMMA RowsAre ==
  ASSUME DashboardTypeOK
  PROVE  /\ today \in Nat /\ today <= MaxDay
         /\ Len(visit) \in Nat /\ DOMAIN visit = 1 .. Len(visit)
         /\ \A i \in DOMAIN visit :
               /\ visit[i] \in Visit
               /\ visit[i].plot \in PlotIds /\ visit[i].cycle \in 1 .. MaxCycles
               /\ visit[i].date \in 0 .. MaxDay /\ visit[i].live \in BOOLEAN
               /\ visit[i].report \in Reports /\ visit[i].report \in Report
         /\ \A p \in PlotIds :
               /\ cycles[p] \in Seq(CycleRecord)
               /\ Last(p) \in Nat /\ DOMAIN cycles[p] = 1 .. Last(p)
               /\ cycles[p] # <<>> => Last(p) \in DOMAIN cycles[p]
               /\ Growing(p) => Last(p) \in DOMAIN cycles[p]
<1>1. today \in 0 .. MaxDay /\ visit \in Seq(Visit) /\ cycles \in [PlotIds -> Seq(CycleRecord)]
  BY DEF DashboardTypeOK
<1>2. today \in Nat /\ today <= MaxDay
  BY <1>1, TablesAssumption
<1>3. Len(visit) \in Nat /\ DOMAIN visit = 1 .. Len(visit) /\ \A i \in DOMAIN visit : visit[i] \in Visit
  BY <1>1
<1>4. \A v \in Visit : /\ v.plot \in PlotIds /\ v.cycle \in 1 .. MaxCycles
                       /\ v.date \in 0 .. MaxDay /\ v.live \in BOOLEAN
                       /\ v.report \in Reports /\ v.report \in Report
  BY ReportsAssumption DEF Visit
<1>5. ASSUME NEW p \in PlotIds
      PROVE  /\ cycles[p] \in Seq(CycleRecord)
             /\ Last(p) \in Nat /\ DOMAIN cycles[p] = 1 .. Last(p)
             /\ cycles[p] # <<>> => Last(p) \in DOMAIN cycles[p]
             /\ Growing(p) => Last(p) \in DOMAIN cycles[p]
  <2> PICK s : s = cycles[p]
    OBVIOUS
  <2>1. s \in Seq(CycleRecord)
    BY <1>1
  <2>2. Len(s) \in Nat /\ DOMAIN s = 1 .. Len(s) /\ (s # <<>> => Len(s) \in DOMAIN s)
    BY <2>1
  <2> QED BY <2>1, <2>2 DEF Last, Growing
<1> QED BY <1>2, <1>3, <1>4, <1>5

\* Of a set of visits that is not empty, the newest is one.
LEMMA NewestIs ==
  ASSUME DashboardTypeOK, NEW S, S \subseteq DOMAIN visit, S # {}
  PROVE  Max(S) \in S /\ Max(S) \in DOMAIN visit /\ \A y \in S : y <= Max(S)
<1>1. Len(visit) \in Nat /\ S \subseteq 0 .. Len(visit)
  BY RowsAre
<1> QED BY <1>1, MaxIs

\* A season that is started finds room for it.
LEMMA RoomForOne ==
  ASSUME DashboardTypeOK, SumFunction([q \in PlotIds |-> Last(q)]) < MaxCycles, NEW p \in PlotIds
  PROVE  Last(p) + 1 <= MaxCycles
<1> PICK f : f = [q \in PlotIds |-> Last(q)]
  OBVIOUS
<1>1. Natural(f, PlotIds) /\ f[p] = Last(p)
  BY RowsAre DEF Natural
<1>2. [q \in PlotIds |-> f[q]] = f
  OBVIOUS
<1>3. Sum(f, PlotIds) = SumFunction(f)
  BY <1>2, Zenon DEF Sum
<1>4. f[p] <= Sum(f, PlotIds) /\ Sum(f, PlotIds) \in Nat
  BY <1>1, SumBounds, SumIs, TablesAssumption
<1> QED BY <1>1, <1>3, <1>4, RowsAre, TablesAssumption

\* An estimate is a number, if there is one.
LEMMA ShareIs ==
  ASSUME NEW a \in Nat \cup {NULL}, NEW b \in Nat \cup {NULL}
  PROVE  Share(a, b) \in Nat \cup {NULL}
<1>1. CASE a = NULL \/ b = NULL \/ b = 0
  BY <1>1 DEF Share
<1>2. CASE a # NULL /\ b # NULL /\ b # 0
  <2>1. a \in Nat /\ b \in Nat /\ b > 0
    BY <1>2
  <2> PICK n : n = 100 * a
    OBVIOUS
  <2>2. n \in Nat
    BY <2>1
  <2>3. n \div b \in Nat
    BY <2>1, <2>2
  <2> QED BY <1>2, <2>3 DEF Share
<1> QED BY <1>1, <1>2

\* Requests and days keep the tables as they should be.
LEMMA InvKept == DashboardInv /\ [DashboardNext]_tableVars => DashboardInv'
<1> SUFFICES ASSUME DashboardInv, [DashboardNext]_tableVars PROVE DashboardInv'
  OBVIOUS
<1>t. DashboardTypeOK /\ SeasonsInv
  BY DEF DashboardInv
<1>r. /\ today \in 0 .. MaxDay /\ DOMAIN plot \subseteq PlotIds
      /\ \A p \in DOMAIN plot : plot[p] \in PlotRecord
      /\ cycles \in [PlotIds -> Seq(CycleRecord)] /\ visit \in Seq(Visit)
  BY <1>t DEF DashboardTypeOK
<1>k. ASSUME UNCHANGED cycles PROVE SeasonsInv'
  BY <1>k, <1>t DEF SeasonsInv, Last
<1>u. CASE UNCHANGED tableVars
  <2>1. UNCHANGED <<today, plot, cycles, visit>>
    BY <1>u DEF tableVars
  <2> QED BY <1>k, <1>r, <2>1 DEF DashboardInv, DashboardTypeOK
<1>1. ASSUME NEW p \in PlotIds, CreatePlot(p) PROVE DashboardInv'
  <2>1. /\ plot' = [q \in DOMAIN plot \cup {p} |->
                       IF q = p THEN [active |-> TRUE, score |-> NULL] ELSE plot[q]]
        /\ UNCHANGED <<today, cycles, visit>>
    BY <1>1 DEF CreatePlot
  <2>2. [active |-> TRUE, score |-> NULL] \in PlotRecord
    BY DEF PlotRecord
  <2>3. DOMAIN plot' \subseteq PlotIds /\ \A q \in DOMAIN plot' : plot'[q] \in PlotRecord
    BY <1>r, <2>1, <2>2
  <2> QED BY <1>k, <1>r, <2>1, <2>3 DEF DashboardInv, DashboardTypeOK
<1>s. ASSUME NEW p, NEW v \in Nat \cup {NULL}, plot' = [plot EXCEPT ![p].score = v]
      PROVE  DOMAIN plot' \subseteq PlotIds /\ \A q \in DOMAIN plot' : plot'[q] \in PlotRecord
  <2>1. DOMAIN plot' = DOMAIN plot
    BY <1>s
  <2>2. ASSUME NEW q \in DOMAIN plot PROVE plot'[q] \in PlotRecord
    <3> PICK r \in PlotRecord : r = plot[q]
      BY <1>r
    <3>1. [r EXCEPT !.score = v] \in PlotRecord
      BY DEF PlotRecord
    <3>2. plot'[q] = IF q = p THEN [r EXCEPT !.score = v] ELSE r
      BY <1>s
    <3> QED BY <3>1, <3>2
  <2> QED BY <1>r, <2>1, <2>2
<1>2. ASSUME NEW p \in DOMAIN plot, SetInService(p) PROVE DashboardInv'
  <2>1. plot' = [plot EXCEPT ![p].active = ~@] /\ UNCHANGED <<today, cycles, visit>>
    BY <1>2 DEF SetInService
  <2>2. DOMAIN plot' = DOMAIN plot
    BY <2>1
  <2>3. ASSUME NEW q \in DOMAIN plot PROVE plot'[q] \in PlotRecord
    <3> PICK r \in PlotRecord : r = plot[q]
      BY <1>r
    <3>1. [r EXCEPT !.active = ~@] \in PlotRecord
      BY DEF PlotRecord
    <3>2. plot'[q] = IF q = p THEN [r EXCEPT !.active = ~@] ELSE r
      BY <2>1
    <3> QED BY <3>1, <3>2
  <2> QED BY <1>k, <1>r, <2>1, <2>2, <2>3 DEF DashboardInv, DashboardTypeOK
<1>3. ASSUME NEW p \in DOMAIN plot, NEW code \in PCodes \cup {NULL}, StartCycle(p, code)
      PROVE  DashboardInv'
  <2> PICK r : r = [status |-> "active", p_code |-> code, pct |-> NULL]
    OBVIOUS
  <2>1. /\ ~Growing(p) /\ SumFunction([q \in PlotIds |-> Last(q)]) < MaxCycles
        /\ cycles' = [cycles EXCEPT ![p] = Append(@, r)] /\ UNCHANGED <<today, plot, visit>>
    BY <1>3 DEF StartCycle
  <2>2. r \in CycleRecord
    BY DEF CycleRecord, CycleStatuses
  <2> PICK s : s = cycles[p]
    OBVIOUS
  <2>3. p \in PlotIds /\ s \in Seq(CycleRecord)
    BY <1>r
  <2> PICK t : t = Append(s, r)
    OBVIOUS
  <2>4. /\ t \in Seq(CycleRecord) /\ Len(t) = Len(s) + 1 /\ DOMAIN t = 1 .. Len(s) + 1
        /\ Len(s) \in Nat /\ \A c \in 1 .. Len(s) : t[c] = s[c]
    BY <2>2, <2>3
  <2>5. cycles' = [cycles EXCEPT ![p] = t]
    BY <2>1
  <2>6. cycles' \in [PlotIds -> Seq(CycleRecord)] /\ cycles'[p] = t
        /\ \A q \in PlotIds : q # p => cycles'[q] = cycles[q]
    BY <1>r, <2>3, <2>4, <2>5
  <2>7. Len(s) + 1 <= MaxCycles
    BY <1>t, <2>1, <2>3, RoomForOne DEF Last
  <2>8. ASSUME NEW c \in 1 .. Len(s) PROVE s[c].status # "active"
    <3>1. s # <<>> => s[Len(s)].status # "active"
      BY <2>1 DEF Growing, Last
    <3>2. s # <<>>
      BY <2>3
    <3>3. s[c].status = "active" => c = Len(s)
      BY <1>t, <2>3, <2>8 DEF SeasonsInv, Last
    <3> QED BY <3>1, <3>2, <3>3
  <2>9. \A c \in DOMAIN t : t[c].status = "active" => c = Len(t)
    BY <2>4, <2>8
  <2>10. SeasonsInv'
    <3>1. ASSUME NEW q \in PlotIds
          PROVE  /\ Len(cycles'[q]) <= MaxCycles
                 /\ \A c \in DOMAIN cycles'[q] :
                       cycles'[q][c].status = "active" => c = Len(cycles'[q])
      <4>1. CASE q = p
        BY <2>4, <2>6, <2>7, <2>9, <4>1
      <4>2. CASE q # p
        BY <1>t, <2>6, <4>2 DEF SeasonsInv, Last
      <4> QED BY <4>1, <4>2
    <3> QED BY <3>1 DEF SeasonsInv, Last
  <2> QED BY <1>r, <2>1, <2>6, <2>10 DEF DashboardInv, DashboardTypeOK
<1>4. ASSUME NEW p \in DOMAIN plot, NEW status \in {"harvested", "cancelled"}, EndCycle(p, status)
      PROVE  DashboardInv'
  <2>1. Growing(p) /\ p \in PlotIds
    BY <1>4, <1>r DEF EndCycle
  <2> PICK n, s : n = Last(p) /\ s = cycles[p]
    OBVIOUS
  <2>2. n = Len(s) /\ n \in DOMAIN s /\ s \in Seq(CycleRecord) /\ DOMAIN s = 1 .. n /\ n \in Nat
    BY <1>t, <2>1, RowsAre DEF Last
  <2>3. PICK pct \in Nat \cup {NULL} :
          cycles' = [cycles EXCEPT ![p][n].status = status, ![p][n].pct = pct]
    <3> PICK pct : pct = IF status = "cancelled" \/ OfLastCycle(p) = {} THEN NULL
                         ELSE Share(visit[Max(OfLastCycle(p))].report.yield,
                                    visit[Max(OfLastCycle(p))].report.target)
      OBVIOUS
    <3>1. cycles' = [cycles EXCEPT ![p][n].status = status, ![p][n].pct = pct]
      BY <1>4 DEF EndCycle
    <3>2. pct \in Nat \cup {NULL}
      <4>1. CASE OfLastCycle(p) # {}
        <5>1. Max(OfLastCycle(p)) \in DOMAIN visit
          BY <1>t, <4>1, NewestIs DEF OfLastCycle, Visits
        <5>2. visit[Max(OfLastCycle(p))].report \in Report
          BY <1>t, <5>1, RowsAre
        <5> PICK report \in Report : report = visit[Max(OfLastCycle(p))].report
          BY <5>2
        <5>3. Share(report.yield, report.target) \in Nat \cup {NULL}
          BY ShareIs DEF Report
        <5> QED BY <5>3
      <4>2. CASE OfLastCycle(p) = {}
        BY <4>2
      <4> QED BY <4>1, <4>2
    <3> QED BY <3>1, <3>2
  <2> PICK r \in CycleRecord : r = s[n]
    BY <2>2
  <2> PICK x : x = [r EXCEPT !.status = status, !.pct = pct]
    OBVIOUS
  <2>4. x \in CycleRecord /\ x.status # "active"
    BY DEF CycleRecord, CycleStatuses
  <2> PICK t : t = [s EXCEPT ![n] = x]
    OBVIOUS
  <2>5. /\ t \in Seq(CycleRecord) /\ Len(t) = Len(s) /\ DOMAIN t = 1 .. n
        /\ t[n] = x /\ \A c \in 1 .. n : c # n => t[c] = s[c]
    BY <2>2, <2>4
  <2>6. cycles' = [cycles EXCEPT ![p] = t]
    BY <1>r, <2>1, <2>2, <2>3
  <2>7. cycles' \in [PlotIds -> Seq(CycleRecord)] /\ cycles'[p] = t
        /\ \A q \in PlotIds : q # p => cycles'[q] = cycles[q]
    BY <1>r, <2>1, <2>5, <2>6
  <2>8. \A c \in DOMAIN t : t[c].status # "active"
    <3>1. \A c \in DOMAIN s : s[c].status = "active" => c = n
      BY <1>t, <2>1 DEF SeasonsInv
    <3> QED BY <2>2, <2>4, <2>5, <3>1
  <2>9. SeasonsInv'
    <3>1. ASSUME NEW q \in PlotIds
          PROVE  /\ Len(cycles'[q]) <= MaxCycles
                 /\ \A c \in DOMAIN cycles'[q] :
                       cycles'[q][c].status = "active" => c = Len(cycles'[q])
      <4>1. CASE q = p
        BY <1>t, <2>1, <2>5, <2>7, <2>8, <4>1 DEF SeasonsInv, Last
      <4>2. CASE q # p
        BY <1>t, <2>7, <4>2 DEF SeasonsInv, Last
      <4> QED BY <4>1, <4>2
    <3> QED BY <3>1 DEF SeasonsInv, Last
  <2>10. plot' = [plot EXCEPT ![p].score = Cleared] /\ UNCHANGED <<today, visit>>
    BY <1>4 DEF EndCycle
  <2>11. DOMAIN plot' \subseteq PlotIds /\ \A q \in DOMAIN plot' : plot'[q] \in PlotRecord
    BY <1>s, <2>10 DEF Cleared
  <2> QED BY <1>r, <2>7, <2>9, <2>10, <2>11 DEF DashboardInv, DashboardTypeOK
<1>5. ASSUME NEW p \in DOMAIN plot, NEW date \in 0 .. MaxDay, NEW report \in Reports,
             Inspect(p, date, report)
      PROVE  DashboardInv'
  <2> PICK v : v = [plot |-> p, cycle |-> Last(p), date |-> date, report |-> report, live |-> TRUE]
    OBVIOUS
  <2>1. /\ Growing(p) /\ visit' = Append(visit, v)
        /\ plot' = [plot EXCEPT ![p].score = report.score] /\ UNCHANGED <<today, cycles>>
    BY <1>5 DEF Inspect
  <2>2. p \in PlotIds /\ Last(p) \in 1 .. MaxCycles
    <3>1. p \in PlotIds
      BY <1>r
    <3>2. Last(p) \in Nat /\ Last(p) \in 1 .. Last(p) /\ Last(p) <= MaxCycles
      BY <1>t, <2>1, <3>1, RowsAre DEF SeasonsInv
    <3> QED BY <3>1, <3>2, TablesAssumption
  <2>3. v \in Visit
    BY <2>2 DEF Visit
  <2>4. visit' \in Seq(Visit)
    BY <1>r, <2>1, <2>3
  <2>5. report.score \in Nat \cup {NULL}
    BY ReportsAssumption DEF Report
  <2>6. DOMAIN plot' \subseteq PlotIds /\ \A q \in DOMAIN plot' : plot'[q] \in PlotRecord
    BY <1>s, <2>1, <2>5
  <2> QED BY <1>k, <1>r, <2>1, <2>4, <2>6 DEF DashboardInv, DashboardTypeOK
<1>6. ASSUME NEW i \in DOMAIN visit, Retract(i) PROVE DashboardInv'
  <2> PICK p : p = visit[i].plot
    OBVIOUS
  <2> PICK rest : rest = OfLastCycle(p) \ {i}
    OBVIOUS
  <2>1. /\ visit' = [visit EXCEPT ![i].live = FALSE] /\ UNCHANGED <<today, cycles>>
        /\ \/ plot' = plot
           \/ plot' = [plot EXCEPT ![p].score =
                         IF rest = {} THEN Cleared ELSE visit[Max(rest)].report.score]
    BY <1>6 DEF Retract
  <2>2. visit' \in Seq(Visit)
    <3> PICK v \in Visit : v = visit[i]
      BY <1>r
    <3> PICK x : x = [v EXCEPT !.live = FALSE]
      OBVIOUS
    <3>1. x \in Visit
      BY DEF Visit
    <3>2. visit' = [visit EXCEPT ![i] = x]
      BY <2>1
    <3> QED BY <1>r, <3>1, <3>2
  <2>3. (IF rest = {} THEN Cleared ELSE visit[Max(rest)].report.score) \in Nat \cup {NULL}
    <3>1. CASE rest = {}
      BY <3>1 DEF Cleared
    <3>2. CASE rest # {}
      <4>1. Max(rest) \in DOMAIN visit
        BY <1>t, <3>2, NewestIs DEF OfLastCycle, Visits
      <4>2. visit[Max(rest)].report \in Report
        BY <1>t, <4>1, RowsAre
      <4> QED BY <3>2, <4>2 DEF Report
    <3> QED BY <3>1, <3>2
  <2>4. DOMAIN plot' \subseteq PlotIds /\ \A q \in DOMAIN plot' : plot'[q] \in PlotRecord
    BY <1>r, <1>s, <2>1, <2>3
  <2> QED BY <1>k, <1>r, <2>1, <2>2, <2>4 DEF DashboardInv, DashboardTypeOK
<1>7. CASE NextDay
  <2>1. today' \in 0 .. MaxDay
    BY <1>7, <1>r, TablesAssumption DEF NextDay
  <2> QED BY <1>7, <1>k, <1>r, <2>1 DEF NextDay, DashboardInv, DashboardTypeOK
<1> QED BY <1>u, <1>1, <1>2, <1>3, <1>4, <1>5, <1>6, <1>7 DEF DashboardNext

-----------------------------------------------------------------------------
(* What the queries return *)

\* The tables start empty.
LEMMA InitHolds == DashboardInit => DashboardInv
<1> SUFFICES ASSUME DashboardInit PROVE DashboardInv
  OBVIOUS
<1>1. today = 0 /\ plot = <<>> /\ cycles = [p \in PlotIds |-> <<>>] /\ visit = <<>>
  BY DEF DashboardInit
<1>2. today \in 0 .. MaxDay
  BY <1>1, TablesAssumption
<1>3. DOMAIN plot = {}
  BY <1>1
<1>4. cycles \in [PlotIds -> Seq(CycleRecord)] /\ visit \in Seq(Visit)
  BY <1>1
<1>5. SeasonsInv
  <2>1. \A p \in PlotIds : cycles[p] = <<>> /\ Last(p) = 0 /\ DOMAIN cycles[p] = {}
    BY <1>1 DEF Last
  <2> QED BY <2>1, TablesAssumption DEF SeasonsInv
<1> QED BY <1>2, <1>3, <1>4, <1>5 DEF DashboardInv, DashboardTypeOK

\* Every scope is of plots there are, finitely many.
LEMMA ScopeIs ==
  ASSUME DashboardTypeOK, NEW P \in Scopes
  PROVE  P \subseteq DOMAIN plot /\ P \subseteq PlotIds /\ IsFiniteSet(P)
<1>1. P \subseteq DOMAIN plot
  BY DEF Scopes, PlotScope
<1>2. P \subseteq PlotIds
  BY <1>1 DEF DashboardTypeOK
<1> QED BY <1>1, <1>2, FS_Subset, TablesAssumption

\* A plot's last visit is the date of one, and its last record is one of that date.
LEMMA LastVisitIs ==
  ASSUME DashboardTypeOK, NEW p, Visits(p) # {}
  PROVE  /\ LastRecord(p) \in Visits(p) /\ visit[LastRecord(p)].date = LastVisit(p)
         /\ LastVisit(p) \in Nat
<1> PICK D, n : D = {visit[i].date : i \in Visits(p)} /\ n = MaxDay
  OBVIOUS
<1>1. D \subseteq 0 .. n /\ n \in Nat /\ D # {}
  BY RowsAre, TablesAssumption DEF Visits
<1>2. LastVisit(p) \in D /\ LastVisit(p) \in Nat
  <2>1. LastVisit(p) = Max(D)
    BY Zenon DEF LastVisit
  <2> PICK m : m = Max(D)
    OBVIOUS
  <2>2. m \in D
    BY <1>1, MaxIs
  <2>3. m \in Nat
    BY <1>1, <2>2
  <2> QED BY <2>1, <2>2, <2>3
<1> PICK S : S = {i \in Visits(p) : visit[i].date = LastVisit(p)}
  OBVIOUS
<1>3. S \subseteq DOMAIN visit /\ S # {}
  BY <1>2 DEF Visits
<1>4. LastRecord(p) \in S
  BY <1>3, NewestIs DEF LastRecord
<1> QED BY <1>2, <1>4

\* The last records are finitely many, each of a plot in scope.
LEMMA LastRecordsAre ==
  ASSUME DashboardTypeOK, NEW P \in Scopes, NEW w
  PROVE  /\ LastRecords(P, w) \subseteq DOMAIN visit /\ IsFiniteSet(LastRecords(P, w))
         /\ \A i \in LastRecords(P, w) : visit[i].plot \in P
<1>1. ASSUME NEW i \in LastRecords(P, w) PROVE i \in DOMAIN visit /\ visit[i].plot \in P
  <2>1. PICK p \in Visited(P) : i = LastRecord(p)
    BY DEF LastRecords
  <2>2. p \in P /\ Visits(p) # {}
    BY DEF Visited
  <2>3. i \in Visits(p)
    BY <2>1, <2>2, LastVisitIs
  <2> QED BY <2>2, <2>3 DEF Visits
<1>2. IsFiniteSet(DOMAIN visit)
  BY RowsAre, FS_Interval
<1> QED BY <1>1, <1>2, FS_Subset

\* The cards count what the lists list.
LEMMA CardsHold == DashboardInv => CardsMatchLists
<1> SUFFICES ASSUME DashboardTypeOK, NEW P \in Scopes
             PROVE  /\ Cards(P).inspected <= Cards(P).plots
                    /\ Cards(P).plots - Cards(P).inspected = Cardinality(NeverInspected(P))
                    /\ NeverInspected(P) \cap Overdue(P) = {}
                    /\ Cards(P).actionable = Cardinality(DOMAIN FollowUp(P))
  BY DEF DashboardInv, CardsMatchLists
<1>1. DOMAIN FollowUp(P) = Flagged(P)
  BY DEF FollowUp
<1>2. /\ Cards(P).plots = Cardinality(P) /\ Cards(P).inspected = Cardinality(InspectedPlots(P))
      /\ Cards(P).actionable = Cardinality(Flagged(P))
  BY DEF Cards
<1> PICK V, N : V = InspectedPlots(P) /\ N = NeverInspected(P)
  OBVIOUS
<1>3. P = V \cup N /\ V \cap N = {}
  BY DEF InspectedPlots, Visited, NeverInspected
<1>4. /\ IsFiniteSet(V) /\ IsFiniteSet(N) /\ Cardinality(V) \in Nat /\ Cardinality(N) \in Nat
      /\ Cardinality(V) <= Cardinality(P)
  BY <1>3, ScopeIs, FS_Subset, FS_CardinalityType
<1>5. Cardinality(V \cup N) = Cardinality(V) + Cardinality(N) - Cardinality(V \cap N)
  BY <1>4, FS_Union
<1>6. Cardinality(V \cap N) = 0
  BY <1>3, FS_EmptySet
<1>7. Cardinality(P) = Cardinality(V) + Cardinality(N)
  <2>1. Cardinality(V \cup N) = Cardinality(V) + Cardinality(N)
    BY <1>4, <1>5, <1>6
  <2> QED BY <1>3, <2>1, Zenon
<1>8. N \cap Overdue(P) = {}
  BY DEF NeverInspected, Overdue, Visited
<1> QED BY <1>1, <1>2, <1>4, <1>7, <1>8

\* A plot without a flag has a visit that is not too old.
LEMMA NobodyForgotten == DashboardInv => NobodyIsForgotten
<1> SUFFICES ASSUME DashboardTypeOK, NEW P \in Scopes, NEW p \in P \ Flagged(P)
             PROVE  \E i \in DOMAIN visit : /\ visit[i].live /\ visit[i].plot = p
                                            /\ visit[i].date + OverdueDays >= today
  BY DEF DashboardInv, NobodyIsForgotten
<1>1. p \notin NeverInspected(P) /\ p \notin Overdue(P)
  <2>1. DOMAIN FlagSets(P) = {"never", "low_score", "overdue", "low_yield"}
        /\ FlagSets(P)["never"] = NeverInspected(P) /\ FlagSets(P)["overdue"] = Overdue(P)
    BY DEF FlagSets
  <2> QED BY <2>1 DEF Flagged
<1>2. Visits(p) # {} /\ p \in Visited(P)
  BY <1>1 DEF NeverInspected, Visited
<1>3. ~(LastVisit(p) + OverdueDays < today)
  BY <1>1, <1>2 DEF Overdue
<1>4. /\ LastRecord(p) \in Visits(p) /\ visit[LastRecord(p)].date = LastVisit(p)
      /\ LastVisit(p) \in Nat
  BY <1>2, LastVisitIs
<1>5. LastVisit(p) + OverdueDays >= today
  BY <1>3, <1>4, RowsAre, ThresholdsAssumption
<1> QED BY <1>4, <1>5 DEF Visits

\* The reason shown is the first of the severity order that applies.
LEMMA WorstLeads == DashboardInv => WorstReasonLeads
<1> SUFFICES ASSUME DashboardTypeOK, NEW P \in Scopes, NEW p \in DOMAIN FollowUp(P)
             PROVE  /\ FollowUp(P)[p] = "never" <=> Visits(p) = {}
                    /\ FollowUp(P)[p] = "overdue" => plot[p].score = NULL \/ plot[p].score > LowScore
  BY DEF DashboardInv, WorstReasonLeads
<1> PICK K : K = {k \in DOMAIN Severity : p \in FlagSets(P)[Severity[k]]}
  OBVIOUS
<1>1. p \in Flagged(P) /\ FollowUp(P)[p] = Severity[Min(K)]
  BY DEF FollowUp
<1>2. DOMAIN Severity = 1 .. 4 /\ Severity[1] = "never" /\ Severity[2] = "low_score"
      /\ Severity[3] = "overdue" /\ Severity[4] = "low_yield"
  BY DEF Severity
<1>3. /\ DOMAIN FlagSets(P) = {"never", "low_score", "overdue", "low_yield"}
      /\ FlagSets(P)["never"] = NeverInspected(P) /\ FlagSets(P)["overdue"] = Overdue(P)
      /\ FlagSets(P)["low_score"] = LowScoring(P) /\ FlagSets(P)["low_yield"] = LowYielding(P)
  BY DEF FlagSets
<1>4. /\ 1 \in K <=> p \in NeverInspected(P)
      /\ 2 \in K <=> p \in LowScoring(P)
      /\ 3 \in K <=> p \in Overdue(P)
      /\ 4 \in K <=> p \in LowYielding(P)
  BY <1>2, <1>3
<1>5. p \in NeverInspected(P) \/ p \in LowScoring(P) \/ p \in Overdue(P) \/ p \in LowYielding(P)
  BY <1>1, <1>3 DEF Flagged
<1>6. K \in SUBSET (1 .. 4) /\ K # {}
  BY <1>2, <1>4, <1>5
<1> PICK m : m = Min(K)
  OBVIOUS
<1>7. m \in K /\ m \in 1 .. 4 /\ \A y \in K : m <= y
  BY <1>6, MinIs
<1>8. Severity[m] = "never" <=> m = 1
  BY <1>2, <1>7
<1>9. Severity[m] = "overdue" <=> m = 3
  BY <1>2, <1>7
<1>10. p \in P /\ p \in DOMAIN plot
  <2>1. p \in P
    BY <1>5 DEF NeverInspected, LowScoring, Overdue, Visited, LowYielding
  <2> QED BY <2>1, ScopeIs
<1>11. m = 1 <=> p \in NeverInspected(P)
  <2>1. 1 \in K => m <= 1
    BY <1>7
  <2>2. m <= 1 => m = 1
    BY <1>7
  <2> QED BY <1>4, <1>7, <2>1, <2>2
<1>12. p \in NeverInspected(P) <=> Visits(p) = {}
  BY <1>10 DEF NeverInspected
<1>13. m = 3 => plot[p].score = NULL \/ plot[p].score > LowScore
  <2> SUFFICES ASSUME m = 3, plot[p].score # NULL PROVE plot[p].score > LowScore
    OBVIOUS
  <2>1. 2 \notin K
    <3>1. 2 \in K => m <= 2
      BY <1>7, Zenon
    <3> QED BY <3>1
  <2>2. ~(plot[p].score <= LowScore)
    BY <1>4, <1>10, <2>1 DEF LowScoring
  <2>3. plot[p].score \in Nat
    <3>1. plot[p] \in PlotRecord
      BY <1>10 DEF DashboardTypeOK
    <3> QED BY <3>1 DEF PlotRecord
  <2> QED BY <2>2, <2>3, ThresholdsAssumption
<1> QED BY <1>1, <1>8, <1>9, <1>11, <1>12, <1>13

Done(R) == {i \in R : Finished(i)}
Unfinished(R) == \A i \in R : visit[i].report.cleaned = NULL

\* What the records weigh, together, is what they weigh in parts.
LEMMA TotalsSplit ==
  ASSUME DashboardTypeOK, NEW A, NEW B, A \subseteq DOMAIN visit, B \subseteq DOMAIN visit,
         A \cap B = {}
  PROVE  /\ TotalTarget(A \cup B) = TotalTarget(A) + TotalTarget(B)
         /\ TotalYield(A \cup B) = TotalYield(A) + TotalYield(B)
         /\ TotalCleaned(A \cup B) = TotalCleaned(A) + TotalCleaned(B)
         /\ TotalCleaned(A) \in Nat
         /\ Unfinished(B) => TotalCleaned(B) = 0
<1>1. /\ IsFiniteSet(A) /\ IsFiniteSet(B) /\ A \cup B \subseteq DOMAIN visit
  <2>1. IsFiniteSet(DOMAIN visit)
    BY RowsAre, FS_Interval
  <2> QED BY <2>1, FS_Subset
<1> PICK t, y, c : /\ t = [i \in DOMAIN visit |-> Weight(visit[i].report.target)]
                   /\ y = [i \in DOMAIN visit |-> Weight(visit[i].report.yield)]
                   /\ c = [i \in DOMAIN visit |-> Weight(visit[i].report.cleaned)]
  OBVIOUS
<1>2. ASSUME NEW i \in DOMAIN visit PROVE t[i] \in Nat /\ y[i] \in Nat /\ c[i] \in Nat
  <2> PICK r \in Report : r = visit[i].report
    BY RowsAre
  <2>1. r.target \in Nat \cup {NULL} /\ r.yield \in Nat \cup {NULL} /\ r.cleaned \in Nat \cup {NULL}
    BY DEF Report
  <2>2. Weight(r.target) \in Nat /\ Weight(r.yield) \in Nat /\ Weight(r.cleaned) \in Nat
    BY <2>1 DEF Weight
  <2> QED BY <2>2
<1>3. /\ Natural(t, A \cup B) /\ Natural(y, A \cup B) /\ Natural(c, A \cup B) /\ Natural(c, A)
  BY <1>1, <1>2 DEF Natural
<1>4. ASSUME NEW S, S \subseteq DOMAIN visit
      PROVE  TotalTarget(S) = Sum(t, S) /\ TotalYield(S) = Sum(y, S) /\ TotalCleaned(S) = Sum(c, S)
  <2>1. /\ [i \in S |-> Weight(visit[i].report.target)] = [i \in S |-> t[i]]
        /\ [i \in S |-> Weight(visit[i].report.yield)] = [i \in S |-> y[i]]
        /\ [i \in S |-> Weight(visit[i].report.cleaned)] = [i \in S |-> c[i]]
    BY <1>4
  <2> QED BY <2>1, Zenon DEF TotalTarget, TotalYield, TotalCleaned, Sum
<1>5. /\ Sum(t, A \cup B) = Sum(t, A) + Sum(t, B)
      /\ Sum(y, A \cup B) = Sum(y, A) + Sum(y, B)
      /\ Sum(c, A \cup B) = Sum(c, A) + Sum(c, B)
  BY <1>1, <1>3, SumSplit
<1>6. Sum(c, A) \in Nat
  BY <1>1, <1>3, SumIs
<1>7. ASSUME Unfinished(B) PROVE Sum(c, B) = 0
  <2>1. \A i \in B : c[i] = 0
    BY <1>7 DEF Weight, Unfinished
  <2> QED BY <1>1, <2>1, SumZero
<1>8. TotalTarget(A \cup B) = TotalTarget(A) + TotalTarget(B)
  BY <1>1, <1>4, <1>5
<1>9. TotalYield(A \cup B) = TotalYield(A) + TotalYield(B)
  BY <1>1, <1>4, <1>5
<1>10. TotalCleaned(A \cup B) = TotalCleaned(A) + TotalCleaned(B)
  BY <1>1, <1>4, <1>5
<1>11. TotalCleaned(A) = Sum(c, A) /\ TotalCleaned(B) = Sum(c, B)
  BY <1>4
<1> QED BY <1>6, <1>7, <1>8, <1>9, <1>10, <1>11

\* Of finitely many records, the finished and the growing ones are the two parts.
LEMMA LensesAre ==
  ASSUME NEW R, IsFiniteSet(R)
  PROVE  /\ Cardinality(R \ Done(R)) = Cardinality(R) - Cardinality(Done(R))
         /\ Done(R) \subseteq R /\ Unfinished(R \ Done(R))
<1> PICK D : D = Done(R)
  OBVIOUS
<1>0. D \subseteq R
  BY DEF Done
<1> PICK G : G = R \ D
  OBVIOUS
<1>1. R = G \cup D /\ G \cap D = {}
  BY <1>0
<1>2. IsFiniteSet(G) /\ IsFiniteSet(D) /\ Cardinality(G) \in Nat /\ Cardinality(D) \in Nat
  BY <1>1, FS_Subset, FS_CardinalityType
<1>3. Cardinality(G \cup D) = Cardinality(G) + Cardinality(D) - Cardinality(G \cap D)
  BY <1>2, FS_Union
<1>4. Cardinality(G \cap D) = 0
  BY <1>1, FS_EmptySet
<1>5. Cardinality(G \cup D) = Cardinality(G) + Cardinality(D)
  BY <1>2, <1>3, <1>4
<1>6. Cardinality(R) = Cardinality(G) + Cardinality(D)
  BY <1>1, <1>5, Zenon
<1>7. Cardinality(G) = Cardinality(R) - Cardinality(D)
  BY <1>2, <1>6
<1>8. Unfinished(G)
  BY DEF Done, Finished, Unfinished
<1> QED BY <1>0, <1>7, <1>8

\* Cards and lenses cut the same records.
LEMMA LensesHold == DashboardInv => LensesPartition
<1> SUFFICES ASSUME DashboardTypeOK, NEW P \in Scopes, NEW w \in Windows
             PROVE  LET R == LastRecords(P, w)
                        cards == YieldCards(R)
                        lenses == Production(R)
                    IN /\ lenses.done = cards.cleanedPlots /\ lenses.growing = cards.missing
                       /\ lenses.growingTarget + lenses.doneTarget = cards.target
                       /\ lenses.growingYield + lenses.doneHarvest = cards.harvest
                       /\ lenses.doneCleaned = cards.cleaned
  BY DEF DashboardInv, LensesPartition
<1> PICK R : R = LastRecords(P, w)
  OBVIOUS
<1> PICK D : D = Done(R)
  OBVIOUS
<1> PICK G : G = R \ D
  OBVIOUS
<1>0. R \subseteq DOMAIN visit /\ IsFiniteSet(R)
  BY LastRecordsAre
<1>1. D = {i \in R : visit[i].report.cleaned # NULL}
  BY DEF Done, Finished
<1>2. /\ Production(R).done = Cardinality(D) /\ Production(R).growing = Cardinality(G)
      /\ Production(R).growingTarget = TotalTarget(G) /\ Production(R).doneTarget = TotalTarget(D)
      /\ Production(R).growingYield = TotalYield(G) /\ Production(R).doneHarvest = TotalYield(D)
      /\ Production(R).doneCleaned = TotalCleaned(D)
  BY DEF Production, Done
<1>3. /\ YieldCards(R).cleanedPlots = Cardinality(D)
      /\ YieldCards(R).missing = Cardinality(R) - Cardinality(D)
      /\ YieldCards(R).target = TotalTarget(R) /\ YieldCards(R).harvest = TotalYield(R)
      /\ YieldCards(R).cleaned = TotalCleaned(R)
  BY <1>1 DEF YieldCards
<1>4. /\ Cardinality(G) = Cardinality(R) - Cardinality(D)
      /\ R = G \cup D /\ R = D \cup G /\ G \cap D = {} /\ D \cap G = {}
      /\ Unfinished(G)
  <2>1. Cardinality(G) = Cardinality(R) - Cardinality(D) /\ D \subseteq R /\ Unfinished(G)
    BY <1>0, LensesAre, Zenon
  <2> QED BY <2>1
<1>5. G \subseteq DOMAIN visit /\ D \subseteq DOMAIN visit
  BY <1>0, <1>4
<1>6. /\ TotalTarget(G \cup D) = TotalTarget(G) + TotalTarget(D)
      /\ TotalYield(G \cup D) = TotalYield(G) + TotalYield(D)
  BY <1>4, <1>5, TotalsSplit
<1>7. TotalCleaned(D \cup G) = TotalCleaned(D)
  <2>1. /\ TotalCleaned(D \cup G) = TotalCleaned(D) + TotalCleaned(G)
        /\ TotalCleaned(D) \in Nat /\ TotalCleaned(G) = 0
    BY <1>4, <1>5, TotalsSplit, Zenon
  <2> QED BY <2>1
<1>8. /\ TotalTarget(R) = TotalTarget(G) + TotalTarget(D)
      /\ TotalYield(R) = TotalYield(G) + TotalYield(D)
  BY <1>4, <1>6, Zenon
<1>9. TotalCleaned(R) = TotalCleaned(D)
  BY <1>4, <1>7, Zenon
<1> QED BY <1>2, <1>3, <1>4, <1>8, <1>9

-----------------------------------------------------------------------------
(* Tables of rows *)

\* Finitely many things have finitely many values.
LEMMA ImageIsFinite ==
  ASSUME NEW S, IsFiniteSet(S), NEW k
  PROVE  IsFiniteSet({k[x] : x \in S})
<1> PICK T : T = {k[x] : x \in S}
  OBVIOUS
<1> PICK f : f = [x \in S |-> k[x]]
  OBVIOUS
<1>1. f \in Surjection(S, T)
  BY DEF Surjection
<1> QED BY <1>1, FS_Surjection

\* A plot has one key in every grouping.
LEMMA KeyIs ==
  ASSUME DashboardInv, NEW g \in Groupings, NEW p \in PlotIds
  PROVE  \E key : KeysOf(g, p) = {key}
<1>1. CASE g = "supplier"
  BY <1>1 DEF KeysOf
<1>2. CASE g # "supplier" /\ OpenCycles(p) = {}
  BY <1>2 DEF KeysOf
<1>3. CASE g # "supplier" /\ OpenCycles(p) # {}
  <2> PICK c : c = Last(p)
    OBVIOUS
  <2>1. OpenCycles(p) = {c}
    BY <1>3 DEF OpenCycles, DashboardInv, SeasonsInv
  <2>2. KeysOf(g, p) = {cycles[p][d].p_code : d \in OpenCycles(p)}
    BY <1>3 DEF KeysOf
  <2>3. KeysOf(g, p) = {cycles[p][c].p_code}
    BY <2>1, <2>2
  <2> QED BY <2>3
<1> QED BY <1>1, <1>2, <1>3

\* The keys of the plots, one each.
LEMMA KeysAre ==
  ASSUME DashboardInv, NEW g \in Groupings, NEW P, P \subseteq PlotIds
  PROVE  \E k : \A p \in P : KeysOf(g, p) = {k[p]}
<1> PICK k : k = [p \in P |-> CHOOSE key : KeysOf(g, p) = {key}]
  OBVIOUS
<1>1. ASSUME NEW p \in P PROVE KeysOf(g, p) = {k[p]}
  <2>1. \E key : KeysOf(g, p) = {key}
    BY KeyIs
  <2>2. KeysOf(g, p) = {CHOOSE key : KeysOf(g, p) = {key}}
    BY <2>1, Zenon
  <2>3. k[p] = CHOOSE key : KeysOf(g, p) = {key}
    OBVIOUS
  <2> QED BY <2>2, <2>3, Zenon
<1> QED BY <1>1

\* Each of S has its row, and the column counts, per key, what has the key.
Counts(table, column, S, k) ==
    /\ \A i \in S : k[i] \in DOMAIN table
    /\ \A key \in DOMAIN table : table[key][column] = Cardinality({i \in S : k[i] = key})

\* Such a column adds up to all there is.
LEMMA TotalIs ==
  ASSUME NEW table, NEW column, NEW S, IsFiniteSet(S), NEW k, IsFiniteSet(DOMAIN table),
         Counts(table, column, S, k)
  PROVE  Total(table, column) = Cardinality(S)
<1> PICK K : K = DOMAIN table
  OBVIOUS
<1>1. [key \in DOMAIN table |-> table[key][column]] = RowCounts(k, S, K)
  BY DEF RowCounts, Counts
<1>2. Total(table, column) = SumFunction(RowCounts(k, S, K))
  BY <1>1, Zenon DEF Total
<1>3. \A i \in S : k[i] \in K
  BY DEF Counts
<1> QED BY <1>2, <1>3, RowsAddUpTo

\* So do the rows of concerns.
LEMMA ConcernsAddUp ==
  ASSUME DashboardInv, NEW S, IsFiniteSet(S), S \subseteq DOMAIN visit
  PROVE  ConcernTotal(S) = Cardinality(S)
<1>1. PICK k : \A p \in PlotIds : KeysOf("p_code", p) = {k[p]}
  BY KeysAre DEF Groupings
<1>2. \A i \in S : visit[i].plot \in PlotIds
  BY RowsAre DEF DashboardInv
<1> PICK m : m = [i \in S |-> k[visit[i].plot]]
  OBVIOUS
<1>3. \A i \in S : KeysOf("p_code", visit[i].plot) = {m[i]}
  BY <1>1, <1>2
<1> PICK K : K = {m[i] : i \in S}
  OBVIOUS
<1>4. UNION {KeysOf("p_code", visit[i].plot) : i \in S} = K
  BY <1>3
<1>5. \A key \in K : ConcernRow(S, key) = Cardinality({i \in S : m[i] = key})
  <2> SUFFICES ASSUME NEW key \in K
               PROVE  ConcernRow(S, key) = Cardinality({i \in S : m[i] = key})
    OBVIOUS
  <2>1. {i \in S : key \in KeysOf("p_code", visit[i].plot)} = {i \in S : m[i] = key}
    BY <1>3
  <2> QED BY <2>1, Zenon DEF ConcernRow
<1>6. [key \in UNION {KeysOf("p_code", visit[i].plot) : i \in S} |-> ConcernRow(S, key)]
        = RowCounts(m, S, K)
  BY <1>4, <1>5 DEF RowCounts
<1>7. ConcernTotal(S) = SumFunction(RowCounts(m, S, K))
  BY <1>6, Zenon DEF ConcernTotal
<1>8. IsFiniteSet(K)
  BY ImageIsFinite
<1> QED BY <1>7, <1>8, RowsAddUpTo

\* Each plot, and each last record, is in one row of the comparison table.
LEMMA TableAddsUp ==
  ASSUME DashboardInv, NEW P \in Scopes, NEW w, NEW g \in Groupings,
         NEW R, R = LastRecords(P, w), NEW late, late = Overdue(P),
         NEW table, table = Breakdown(g, P, late, R, w)
  PROVE  /\ Total(table, "plots") = Cardinality(P)
         /\ Total(table, "overdue") = Cardinality(late)
         /\ Total(table, "growing") = Production(R).growing
         /\ Total(table, "done") = Production(R).done
<1>1. P \subseteq PlotIds /\ IsFiniteSet(P)
  BY ScopeIs DEF DashboardInv
<1>2. IsFiniteSet(R) /\ \A i \in R : visit[i].plot \in P
  BY LastRecordsAre DEF DashboardInv
<1>3. PICK k : \A p \in P : KeysOf(g, p) = {k[p]}
  BY <1>1, KeysAre
<1> PICK K : K = {k[p] : p \in P}
  OBVIOUS
<1>4. DOMAIN table = K /\ \A key \in K : table[key] = BreakdownRow(g, P, late, R, w, key)
  <2>1. UNION {KeysOf(g, p) : p \in P} = K
    BY <1>3
  <2> QED BY <2>1 DEF Breakdown
<1>5. IsFiniteSet(K)
  BY <1>1, ImageIsFinite
<1>m. PICK m : m = [i \in R |-> k[visit[i].plot]]
  OBVIOUS
<1>d. PICK D : D = Done(R)
  OBVIOUS
<1>g. PICK G : G = R \ D
  OBVIOUS
<1>6. Production(R).done = Cardinality(D) /\ Production(R).growing = Cardinality(G)
  BY <1>d, <1>g DEF Production, Done
<1>7. late \subseteq P /\ IsFiniteSet(late) /\ IsFiniteSet(D) /\ IsFiniteSet(G)
  <2>1. late \subseteq P
    BY DEF Overdue, Visited
  <2>2. D \subseteq R /\ G \subseteq R
    BY <1>d, <1>g DEF Done
  <2> QED BY <1>1, <1>2, <2>1, <2>2, FS_Subset
<1>8. /\ \A p \in P : k[p] \in K
      /\ \A i \in G : m[i] \in K
      /\ \A i \in D : m[i] \in K
  BY <1>2, <1>m, <1>d, <1>g DEF Done
<1>9. ASSUME NEW key \in K
      PROVE  /\ table[key]["plots"] = Cardinality({p \in P : k[p] = key})
             /\ table[key]["overdue"] = Cardinality({p \in late : k[p] = key})
             /\ table[key]["growing"] = Cardinality({i \in G : m[i] = key})
             /\ table[key]["done"] = Cardinality({i \in D : m[i] = key})
  <2> DEFINE of == {p \in P : key \in KeysOf(g, p)}
             lr == {i \in R : visit[i].plot \in of}
             done == {i \in lr : Finished(i)}
             target == JoinedTarget(lr \ done, w) + JoinedTarget(done, w)
  <2>1. of = {p \in P : k[p] = key}
    BY <1>3
  <2>2. of \cap late = {p \in late : k[p] = key}
    BY <1>7, <2>1
  <2>3. lr = {i \in R : m[i] = key}
    BY <1>2, <1>m, <2>1
  <2>4. lr \ done = {i \in G : m[i] = key} /\ done = {i \in D : m[i] = key}
    BY <1>d, <1>g, <2>3 DEF Done
  <2>5. BreakdownRow(g, P, late, R, w, key)
          = [plots |-> Cardinality(of), overdue |-> Cardinality(of \cap late),
             growing |-> Cardinality(lr \ done), done |-> Cardinality(done), target |-> target]
    BY Zenon DEF BreakdownRow
  <2> HIDE DEF of, lr, done, target
  <2>6. /\ table[key]["plots"] = Cardinality(of)
        /\ table[key]["overdue"] = Cardinality(of \cap late)
        /\ table[key]["growing"] = Cardinality(lr \ done)
        /\ table[key]["done"] = Cardinality(done)
    <3> PICK row : row = table[key]
      OBVIOUS
    <3>1. row = [plots |-> Cardinality(of), overdue |-> Cardinality(of \cap late),
                 growing |-> Cardinality(lr \ done), done |-> Cardinality(done),
                 target |-> target]
      BY <1>4, <2>5, Zenon
    <3> QED BY <3>1
  <2> QED BY <2>1, <2>2, <2>4, <2>6, Zenon
<1>10. Total(table, "plots") = Cardinality(P)
  <2>1. Counts(table, "plots", P, k)
    BY <1>4, <1>8, <1>9 DEF Counts
  <2> QED BY <1>1, <1>4, <1>5, <2>1, TotalIs, Zenon
<1>11. Total(table, "overdue") = Cardinality(late)
  <2>1. Counts(table, "overdue", late, k)
    BY <1>4, <1>7, <1>8, <1>9 DEF Counts
  <2> QED BY <1>4, <1>5, <1>7, <2>1, TotalIs, Zenon
<1>12. Total(table, "growing") = Cardinality(G)
  <2>1. Counts(table, "growing", G, m)
    BY <1>4, <1>8, <1>9 DEF Counts
  <2> QED BY <1>4, <1>5, <1>7, <2>1, TotalIs, Zenon
<1>13. Total(table, "done") = Cardinality(D)
  <2>1. Counts(table, "done", D, m)
    BY <1>4, <1>8, <1>9 DEF Counts
  <2> QED BY <1>4, <1>5, <1>7, <2>1, TotalIs, Zenon
<1> QED BY <1>6, <1>10, <1>11, <1>12, <1>13

\* The rows of all tables add up.
LEMMA RowsHold == DashboardInv => RowsAddUp
<1> SUFFICES ASSUME DashboardInv, NEW P \in Scopes, NEW w \in Windows
             PROVE  LET R == LastRecords(P, w)
                        late == Overdue(P)
                        lenses == Production(R)
                        short == {i \in R : ShortOfPlan(i)}
                        unweighed == MissingCleaned(R)
                    IN /\ ConcernTotal(short) = Cardinality(short)
                       /\ ConcernTotal(unweighed) = Cardinality(unweighed)
                       /\ \A g \in Groupings :
                             LET table == Breakdown(g, P, late, R, w) IN
                             /\ Total(table, "plots") = Cardinality(P)
                             /\ Total(table, "overdue") = Cardinality(late)
                             /\ Total(table, "growing") = lenses.growing
                             /\ Total(table, "done") = lenses.done
  BY DEF RowsAddUp
<1> PICK R : R = LastRecords(P, w)
  OBVIOUS
<1> PICK short, unweighed : short = {i \in R : ShortOfPlan(i)} /\ unweighed = MissingCleaned(R)
  OBVIOUS
<1>1. R \subseteq DOMAIN visit /\ IsFiniteSet(R)
  BY LastRecordsAre DEF DashboardInv
<1>2. short \subseteq R /\ unweighed \subseteq R
  BY DEF MissingCleaned
<1>3. /\ IsFiniteSet(short) /\ IsFiniteSet(unweighed)
      /\ short \subseteq DOMAIN visit /\ unweighed \subseteq DOMAIN visit
  BY <1>1, <1>2, FS_Subset
<1>4. ConcernTotal(short) = Cardinality(short) /\ ConcernTotal(unweighed) = Cardinality(unweighed)
  BY <1>3, ConcernsAddUp
<1>5. ASSUME NEW g \in Groupings
      PROVE  /\ Total(Breakdown(g, P, Overdue(P), R, w), "plots") = Cardinality(P)
             /\ Total(Breakdown(g, P, Overdue(P), R, w), "overdue") = Cardinality(Overdue(P))
             /\ Total(Breakdown(g, P, Overdue(P), R, w), "growing") = Production(R).growing
             /\ Total(Breakdown(g, P, Overdue(P), R, w), "done") = Production(R).done
  BY TableAddsUp
<1> QED BY <1>4, <1>5

\* Cards, lists, lenses and tables agree in every state the requests lead to.
LEMMA DashboardInvAgrees == DashboardInv => DashboardAgrees
  BY CardsHold, NobodyForgotten, WorstLeads, LensesHold, RowsHold DEF DashboardInv, DashboardAgrees

\* The executive dashboard (repositories/dashboard_repository.py) never contradicts itself:
\* whatever seasons, visits, retractions and days there were, under every filter and in every
\* window the cards count what the lists list, the two lenses cut the same last records, every
\* plot is in one row of each table, and no plot in service is forgotten.
THEOREM DashboardAlwaysAgrees == DashboardSpec => []DashboardAgrees
<1>1. DashboardInit => DashboardInv
  BY InitHolds
<1>2. DashboardInv /\ [DashboardNext]_tableVars => DashboardInv'
  BY InvKept
<1>3. DashboardInv => DashboardAgrees
  BY DashboardInvAgrees
<1> QED BY <1>1, <1>2, <1>3, PTL DEF DashboardSpec

=============================================================================
