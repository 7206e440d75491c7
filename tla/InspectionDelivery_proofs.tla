--------------------- MODULE InspectionDelivery_proofs ----------------------
(***************************************************************************)
(* What holds of InspectionDelivery for any number of drafts, forms, tabs, *)
(* phones, requests, seasons and passwords, enforced or not.               *)
(*                                                                         *)
(* FiledOnceInItsSeason is inductive only with what ties a request to the  *)
(* key and season it was checked for (Posted), and with the fact that a    *)
(* form's season is fixed before anything is sent for it (FormWired);      *)
(* ConfirmedMeansFiled needs the receipts followed from the handler to the *)
(* client that hears them (Receipts, TabWired, FormWired).                 *)
(***************************************************************************)
EXTENDS InspectionDelivery, TLAPS, FiniteSetTheorems

\* A request that was sent has a key and a phone; past the first checks its token's
\* season is the one its key was captured in.
Posted(a) == /\ attempt[a].pc # "unused" => attempt[a].key \in Keys /\ attempt[a].phone \in Phones
             /\ attempt[a].pc \in {"resolved", "stored"} =>
                   attempt[a].season = captured[attempt[a].key]

\* A receipt is given only for a key that is filed.
Receipts == \A a \in Attempts : attempt[a].answer = "ok" => SameKey(attempt[a].key) # {}

\* x is a request for key k.
IsFor(x, k) == x \in Attempts /\ attempt[x].pc # "unused" /\ attempt[x].key = k

TabWired(b) == /\ tab[b].pc # "idle" => tab[b].phone \in Phones
               /\ tab[b].pc \in {"waiting", "classify"} => tab[b].key \in Drafts
               /\ tab[b].pc = "waiting" => IsFor(tab[b].post, tab[b].key)
               /\ tab[b].pc = "classify" /\ tab[b].outcome = "ok" => SameKey(tab[b].key) # {}

\* Nothing is sent or filed for a form before it is opened.
Untouched(f) == /\ \A a \in Attempts : attempt[a].key # f
                /\ \A r \in records : r.key # f

FormWired(f) == /\ form[f].pc \in {"open", "waiting", "answered"} => form[f].phone \in Phones
                /\ form[f].pc = "waiting" => form[f].post # None
                /\ form[f].post # None => IsFor(form[f].post, f)
                /\ form[f].pc = "answered" /\ form[f].outcome = "ok" => SameKey(f) # {}
                /\ form[f].pc = "unopened" => Untouched(f)

IInv == /\ TypeOK
        /\ \A a \in Attempts : Posted(a)
        /\ Receipts
        /\ \A b \in Tabs : TabWired(b)
        /\ \A f \in Forms : FormWired(f)
        /\ FiledOnceInItsSeason
        /\ ConfirmedMeansFiled


-----------------------------------------------------------------------------
(* Types of the records the model is built from *)

\* The first version, no season and the first season are within the bounds.
LEMMA Ones == 1 \in Versions /\ 0 \in Seasons /\ 1 \in Seasons
  BY BoundsAssumption DEF Versions, Seasons

\* The records every batch, form and attempt starts from have their types.
LEMMA Blanks == NoBatch \in Batch /\ Unopened \in Form /\ Unused \in Attempt
  BY Ones DEF NoBatch, Batch, Unopened, Form, Unused, Attempt

\* A draft is a key and not a form.
LEMMA DraftsAreKeys == \A d \in Drafts : d \in Keys /\ d \notin Forms /\ d # None
  BY KeysAssumption, NoneAssumption DEF Keys

\* A form is a key and not a draft.
LEMMA FormsAreKeys == \A f \in Forms : f \in Keys /\ f \notin Drafts /\ f # None
  BY KeysAssumption, NoneAssumption DEF Keys

\* Before anything is sent everything is in order.
THEOREM InitIInv == Init => IInv
<1> SUFFICES ASSUME Init PROVE IInv
  OBVIOUS
<1> USE DEF Init
<1>1. TypeOK
  BY Ones, Blanks DEF TypeOK, DraftStatus, Row
<1>2. \A a \in Attempts : Posted(a)
  BY DEF Posted, Unused
<1>3. Receipts
  BY DEF Receipts, Unused
<1>4. \A b \in Tabs : TabWired(b)
  BY DEF TabWired, NoBatch
<1>5. \A f \in Forms : FormWired(f)
  BY FormsAreKeys DEF FormWired, Unopened, Untouched, Unused
<1>6. FiledOnceInItsSeason /\ ConfirmedMeansFiled
  BY DEF FiledOnceInItsSeason, ConfirmedMeansFiled
<1> QED
  BY <1>1, <1>2, <1>3, <1>4, <1>5, <1>6 DEF IInv

-----------------------------------------------------------------------------
(* The back office, time, and what only edits the queue *)

\* A step that leaves these six alone keeps all of IInv but the types.
LEMMA Framed ==
  ASSUME IInv, TypeOK', UNCHANGED <<attempt, captured, records, tab, form, confirmed>>
  PROVE  IInv'
<1>1. \A k : SameKey(k)' = SameKey(k)
  BY DEF SameKey
<1>2. \A a \in Attempts : Posted(a)'
  BY DEF IInv, Posted
<1>3. Receipts'
  BY <1>1 DEF IInv, Receipts
<1>4. \A b \in Tabs : TabWired(b)'
  BY <1>1 DEF IInv, TabWired, IsFor
<1>5. \A f \in Forms : FormWired(f)'
  BY <1>1 DEF IInv, FormWired, IsFor, Untouched
<1>6. FiledOnceInItsSeason' /\ ConfirmedMeansFiled'
  BY <1>1 DEF IInv, FiledOnceInItsSeason, ConfirmedMeansFiled
<1> QED
  BY <1>2, <1>3, <1>4, <1>5, <1>6 DEF IInv

\* Opening and closing seasons, replacing phones and passwords touch no submission.
LEMMA BackOfficeKeeps == ASSUME IInv, BackOffice PROVE IInv'
<1>1. TypeOK
  BY DEF IInv
<1>2. UNCHANGED <<stale, draft, captured, tab, form, attempt, records, photos, confirmed>>
  BY DEF BackOffice, OpenSeason, CloseSeason, Reactivate, ReplacePhones, ChangePassword, PlotOnly
<1>3. /\ phase' \in {"fallow", "growing", "retired"} /\ season' \in Seasons
      /\ access' \in [Phones -> BOOLEAN] /\ version' \in Versions
  BY <1>1, BoundsAssumption DEF TypeOK, Seasons, Versions, BackOffice, OpenSeason, CloseSeason,
     Reactivate, ReplacePhones, ChangePassword
<1>4. TypeOK'
  BY <1>1, <1>2, <1>3 DEF TypeOK
<1> QED
  BY <1>2, <1>4, Framed

\* A key that turns seven days old touches no submission.
LEMMA StaleKeeps == ASSUME IInv, NEW k \in Keys, GoStale(k) PROVE IInv'
<1>1. TypeOK'
  BY DEF IInv, TypeOK, GoStale, plotVars
<1> QED
  BY <1>1, Framed DEF GoStale

\* mutateExistingDraft leaves every draft with a status of the store.
LEMMA WriteType == ASSUME TypeOK, NEW d, NEW s, s \in DraftStatus \/ s = "none", Write(d, s)
                   PROVE  draft' \in [Drafts -> DraftStatus]
  BY DEF TypeOK, Write

\* Retrying, deleting and clearing drafts touch no submission.
LEMMA QueueKeeps ==
  ASSUME IInv, \/ \E d \in Drafts : Retry(d) \/ Delete(d)
               \/ ClearAll
  PROVE  IInv'
<1>1. TypeOK /\ QueueOnly
  BY DEF IInv, Retry, Delete, ClearAll
<1>2. draft' \in [Drafts -> DraftStatus]
  BY <1>1, WriteType DEF Retry, Delete, ClearAll, DraftStatus
<1>3. TypeOK' /\ UNCHANGED <<attempt, captured, records, tab, form, confirmed>>
  BY <1>1, <1>2 DEF TypeOK, QueueOnly, TabOnly, ClientOnly, plotVars
<1> QED
  BY <1>3, Framed

-----------------------------------------------------------------------------
(* The handler of one POST *)

\* What a step of handler a may do: move on, with an answer or none, and file.
Progress(a) ==
    /\ attempt' \in [Attempts -> Attempt]
    /\ \A x \in Attempts : /\ attempt'[x].key = attempt[x].key
                           /\ attempt'[x].phone = attempt[x].phone
                           /\ attempt'[x].season = attempt[x].season
                           /\ x # a => attempt'[x] = attempt[x]
    /\ attempt[a].pc # "unused" /\ attempt'[a].pc # "unused"

Advance(a) ==
    /\ Progress(a)
    /\ attempt'[a].pc \in {"resolved", "stored"} =>
          attempt[a].season = captured[attempt[a].key]
    /\ attempt'[a].answer = "ok" => attempt[a].answer = "ok" \/ SameKey(attempt[a].key)' # {}
    /\ photos' \subseteq Attempts
    /\ \/ records' = records
       \/ \E r \in Row : /\ records' = records \cup {r}
                         /\ r.key = attempt[a].key /\ r.season = captured[r.key]
                         /\ SameKey(r.key) = {}
    /\ ServerOnly

\* A handler that goes on leaves the requests typed, and changes only its own.
LEMMA MoveType ==
  ASSUME TypeOK, NEW a \in Attempts, attempt[a].pc # "unused",
         NEW pc \in {"resolved", "stored", "lost"}, Move(a, pc)
  PROVE  Progress(a) /\ attempt'[a].pc = pc /\ attempt'[a].answer = attempt[a].answer
<1>1. attempt \in [Attempts -> Attempt]
  BY DEF TypeOK
<1>2. [attempt[a] EXCEPT !.pc = pc] \in Attempt
  BY <1>1 DEF Attempt
<1>3. attempt' = [attempt EXCEPT ![a] = [attempt[a] EXCEPT !.pc = pc]]
  BY <1>1 DEF Move
<1> QED
  BY <1>1, <1>2, <1>3 DEF Progress, Attempt

\* A handler that answers leaves the requests typed, and changes only its own.
LEMMA AnswerType ==
  ASSUME TypeOK, NEW a \in Attempts, attempt[a].pc # "unused",
         NEW code \in Answers, Answer(a, code)
  PROVE  Progress(a) /\ attempt'[a].pc = "answered" /\ attempt'[a].answer = code
<1>1. attempt \in [Attempts -> Attempt]
  BY DEF TypeOK
<1>2. [attempt[a] EXCEPT !.pc = "answered", !.answer = code] \in Attempt
  BY <1>1 DEF Attempt
<1>3. attempt' = [attempt EXCEPT ![a] = [attempt[a] EXCEPT !.pc = "answered", !.answer = code]]
  BY <1>1 DEF Answer
<1> QED
  BY <1>1, <1>2, <1>3 DEF Progress, Attempt

\* "go" means that the season growing now is the token's and the key's; a receipt
\* means that the key is filed.
LEMMA VerdictMeans ==
  ASSUME NEW a \in Attempts
  PROVE  /\ Verdict(a) \in Answers \cup {"go"}
         /\ Verdict(a) = "go" => attempt[a].season = captured[attempt[a].key]
         /\ Verdict(a) = "ok" => SameKey(attempt[a].key) # {}
  BY DEF Verdict, Replay, Unreplayed, Answers

\* Every step of a handler is an Advance: its answer is a receipt only for a filed key,
\* and what it files is new and of the season its key was captured in.
LEMMA Advances == ASSUME IInv, NEW a \in Attempts, Handle(a) PROVE Advance(a)
<1>1. TypeOK /\ Posted(a)
  BY DEF IInv
<1>2. photos \subseteq Attempts /\ attempt[a] \in Attempt
  BY <1>1 DEF TypeOK
<1>u. UNCHANGED records => \A k : SameKey(k)' = SameKey(k)
  BY DEF SameKey
<1>a. {"unauthorized", "busy", "ok", "idempotency_conflict", "not_found"} \subseteq Answers
  BY DEF Answers
<1>3. CASE Resolve(a)
  <2>1. attempt[a].pc = "sent" /\ UNCHANGED <<records, photos>> /\ ServerOnly
    BY <1>3 DEF Resolve, serverVars
  <2>2. CASE Verdict(a) = "go"
    BY <1>1, <1>2, <1>3, <2>1, <2>2, MoveType, VerdictMeans DEF Resolve, Advance
  <2>3. CASE Verdict(a) # "go"
    <3>1. PICK code \in Answers : code = Verdict(a) /\ Answer(a, code)
      BY <1>3, <2>3, VerdictMeans DEF Resolve
    <3>2. Progress(a) /\ attempt'[a].pc = "answered" /\ attempt'[a].answer = code
      BY <1>1, <2>1, <3>1, AnswerType
    <3>3. code = "ok" => SameKey(attempt[a].key)' # {}
      BY <1>u, <2>1, <3>1, <3>2, VerdictMeans DEF Progress
    <3> QED
      BY <1>2, <2>1, <3>2, <3>3 DEF Advance
  <2> QED
    BY <2>2, <2>3
<1>4. CASE \E code \in Answers : Refuse(a, code)
  BY <1>1, <1>2, <1>4, AnswerType DEF Refuse, Advance, serverVars
<1>5. CASE StorePhotos(a)
  <2>1. attempt[a].pc = "resolved" /\ UNCHANGED records /\ ServerOnly /\ photos' \subseteq Attempts
    BY <1>2, <1>5 DEF StorePhotos
  <2>2. CASE Move(a, "stored")
    BY <1>1, <2>1, <2>2, MoveType DEF Advance, Posted
  <2>3. CASE Answer(a, "busy")
    BY <1>1, <1>a, <2>1, <2>3, AnswerType DEF Advance
  <2> QED
    BY <1>5, <2>2, <2>3 DEF StorePhotos
<1>6. CASE Insert(a)
  <2> DEFINE r == [key |-> attempt[a].key, phone |-> attempt[a].phone,
                   season |-> attempt[a].season, photos |-> IF a \in photos THEN a ELSE None]
  <2>1. attempt[a].pc \in {"resolved", "stored"} /\ SameKey(attempt[a].key) = {}
    BY <1>6 DEF Insert, ReadyToCommit, IndexAdmits
  <2>2. r \in Row /\ r.key = attempt[a].key /\ r.season = captured[r.key]
    BY <1>1, <1>2, <2>1 DEF Posted, Row, Attempt
  <2>3. records' = records \cup {r} /\ UNCHANGED photos /\ ServerOnly /\ Answer(a, "ok")
    BY <1>6 DEF Insert
  <2>4. SameKey(attempt[a].key)' # {}
    <3>1. Progress(a)
      BY <1>1, <1>a, <2>1, <2>3, AnswerType
    <3>2. r \in records' /\ r.key = attempt[a].key
      BY <2>3
    <3> HIDE DEF r
    <3> QED
      BY <3>1, <3>2 DEF SameKey, Progress
  <2>5. Progress(a) /\ attempt'[a].pc = "answered"
    BY <1>1, <1>a, <2>1, <2>3, AnswerType
  <2> HIDE DEF r
  <2> QED
    BY <1>2, <2>1, <2>2, <2>3, <2>4, <2>5 DEF Advance
<1>7. CASE LoseRace(a)
  <2>1. attempt[a].pc \in {"resolved", "stored"} /\ SameKey(attempt[a].key) # {}
    BY <1>7 DEF LoseRace, ReadyToCommit, IndexAdmits
  <2>2. Replay(a) \in Answers /\ Answer(a, Replay(a)) /\ UNCHANGED records /\ ServerOnly
    BY <1>7 DEF LoseRace, Replay, Answers
  <2>3. photos' \subseteq Attempts
    BY <1>2, <1>7 DEF LoseRace, Cleanup
  <2>4. SameKey(attempt[a].key)' # {}
    BY <1>1, <1>u, <2>1, <2>2, AnswerType DEF Progress
  <2> QED
    BY <1>1, <2>1, <2>2, <2>3, <2>4, AnswerType DEF Advance
<1>8. CASE Withdraw(a)
  <2>1. attempt[a].pc \in {"resolved", "stored"} /\ UNCHANGED records /\ ServerOnly
    BY <1>8 DEF Withdraw, ReadyToCommit
  <2>2. photos' \subseteq Attempts
    BY <1>2, <1>8 DEF Withdraw, Cleanup
  <2>3. PICK code \in {"busy", "not_found"} : Answer(a, code)
    BY <1>8 DEF Withdraw
  <2> QED
    BY <1>1, <1>a, <2>1, <2>2, <2>3, AnswerType DEF Advance
<1>9. CASE CommitFails(a)
  <2>1. /\ attempt[a].pc \in {"resolved", "stored"} /\ UNCHANGED <<records, photos>>
        /\ Answer(a, "busy") /\ ServerOnly
    BY <1>9 DEF CommitFails, ReadyToCommit, serverVars
  <2> QED
    BY <1>1, <1>2, <1>a, <2>1, AnswerType DEF Advance
<1>10. CASE Lose(a)
  <2>1. /\ attempt[a].pc \in {"sent", "resolved", "stored"} /\ UNCHANGED <<records, photos>>
        /\ Move(a, "lost") /\ ServerOnly
    BY <1>10 DEF Lose, serverVars
  <2> QED
    BY <1>1, <1>2, <2>1, MoveType DEF Advance
<1> QED
  BY <1>3, <1>4, <1>5, <1>6, <1>7, <1>8, <1>9, <1>10 DEF Handle

\* No step of the endpoints breaks the invariant.
LEMMA HandlerKeeps == ASSUME IInv, NEW a \in Attempts, Handle(a) PROVE IInv'
<1>1. Advance(a) /\ Progress(a) /\ TypeOK
  BY Advances DEF Advance, IInv
<1>2. /\ UNCHANGED <<phase, season, access, version, stale, draft, captured, tab, form, confirmed>>
      /\ attempt' \in [Attempts -> Attempt] /\ photos' \subseteq Attempts
  BY <1>1 DEF Advance, Progress, ServerOnly, plotVars
<1>3. records \subseteq records' /\ records' \subseteq Row
  BY <1>1 DEF Advance, TypeOK
<1>4. \A k : SameKey(k) \subseteq SameKey(k)'
  BY <1>3 DEF SameKey
<1>5. TypeOK'
  BY <1>1, <1>2, <1>3 DEF TypeOK
<1>6. \A x \in Attempts : Posted(x)'
  <2>1. Posted(a)'
    BY <1>1, <1>2 DEF IInv, Posted, Progress, Advance
  <2>2. \A x \in Attempts \ {a} : Posted(x)'
    BY <1>1, <1>2 DEF IInv, Posted, Progress
  <2> QED
    BY <2>1, <2>2
<1>7. Receipts'
  <2> SUFFICES ASSUME NEW x \in Attempts, attempt'[x].answer = "ok"
               PROVE  SameKey(attempt[x].key)' # {}
    BY DEF Receipts
  <2>1. attempt'[x].key = attempt[x].key
    BY <1>1 DEF Progress
  <2>2. CASE attempt[x].answer = "ok"
    BY <1>4, <2>1, <2>2 DEF IInv, Receipts
  <2>3. CASE attempt[x].answer # "ok"
    BY <1>1, <2>3 DEF Advance, Progress
  <2> QED
    BY <2>2, <2>3
<1>8. \A x, k : IsFor(x, k) => IsFor(x, k)'
  BY <1>1 DEF IsFor, Progress
<1>9. \A b \in Tabs : TabWired(b)'
  BY <1>2, <1>4, <1>8 DEF IInv, TabWired
<1>10. \A f \in Forms : FormWired(f)'
  <2> SUFFICES ASSUME NEW f \in Forms PROVE FormWired(f)'
    OBVIOUS
  <2>1. FormWired(f) /\ Posted(a)
    BY DEF IInv
  <2>2. Untouched(f) => Untouched(f)'
    BY <1>1 DEF Untouched, Advance, Progress
  <2> QED
    BY <1>2, <1>4, <1>8, <2>1, <2>2 DEF FormWired
<1>11. FiledOnceInItsSeason'
  <2>1. CASE records' = records
    BY <1>2, <2>1 DEF IInv, FiledOnceInItsSeason, SameKey
  <2>2. CASE records' # records
    <3>1. PICK n \in Row : /\ records' = records \cup {n}
                           /\ n.season = captured[n.key] /\ SameKey(n.key) = {}
      BY <1>1, <2>2 DEF Advance
    <3>2. \A r, q \in records' : r.key = q.key => r = q
      BY <3>1 DEF IInv, FiledOnceInItsSeason, SameKey
    <3>3. \A r \in records' : r.season = captured[r.key]
      BY <3>1 DEF IInv, FiledOnceInItsSeason
    <3> QED
      BY <1>2, <3>2, <3>3 DEF FiledOnceInItsSeason, SameKey
  <2> QED
    BY <2>1, <2>2
<1>12. ConfirmedMeansFiled'
  BY <1>2, <1>4 DEF IInv, ConfirmedMeansFiled
<1> QED
  BY <1>5, <1>6, <1>7, <1>9, <1>10, <1>11, <1>12 DEF IInv

-----------------------------------------------------------------------------
(* The clients: what they leave alone, and what a new POST adds *)

\* Taking an unused attempt leaves the requests typed and every other request as it was.
LEMMA SendAdds ==
  ASSUME IInv, NEW a \in Attempts, NEW k \in Keys, NEW ph \in Phones, NEW v \in Versions,
         NEW n \in Seasons, Send(a, k, ph, v, n), UNCHANGED <<captured, records>>
  PROVE  /\ attempt' \in [Attempts -> Attempt]
         /\ \A x \in Attempts : Posted(x)'
         /\ Receipts'
         /\ IsFor(a, k)'
         /\ \A x, y : IsFor(x, y) => IsFor(x, y)'
         /\ \A f \in Forms : f # k /\ Untouched(f) => Untouched(f)'
<1> DEFINE new == [pc |-> "sent", key |-> k, phone |-> ph, version |-> v,
                   season |-> n, answer |-> "none"]
<1>1. attempt \in [Attempts -> Attempt] /\ attempt[a].pc = "unused"
  BY DEF IInv, TypeOK, Send
<1>2. new \in Attempt
  BY DEF Attempt
<1>3. attempt' = [attempt EXCEPT ![a] = new]
  BY DEF Send
<1>4. /\ attempt' \in [Attempts -> Attempt] /\ attempt'[a] = new
      /\ \A x \in Attempts \ {a} : attempt'[x] = attempt[x]
  BY <1>1, <1>2, <1>3
<1>5. \A x \in Attempts : Posted(x)'
  <2>1. Posted(a)'
    BY <1>4 DEF Posted
  <2>2. \A x \in Attempts \ {a} : Posted(x)'
    BY <1>4 DEF Posted, IInv
  <2> QED
    BY <2>1, <2>2
<1>6. Receipts'
  <2> SUFFICES ASSUME NEW x \in Attempts, attempt'[x].answer = "ok"
               PROVE  SameKey(attempt[x].key)' # {}
    BY DEF Receipts
  <2>1. x # a /\ attempt'[x] = attempt[x]
    BY <1>4
  <2> QED
    BY <2>1 DEF IInv, Receipts, SameKey
<1>7. IsFor(a, k)'
  BY <1>4 DEF IsFor
<1>8. \A x, y : IsFor(x, y) => IsFor(x, y)'
  BY <1>1, <1>4 DEF IsFor
<1>9. \A f \in Forms : f # k /\ Untouched(f) => Untouched(f)'
  BY <1>4 DEF Untouched
<1> QED
  BY <1>4, <1>5, <1>6, <1>7, <1>8, <1>9

\* A step of a tab that sends nothing: its batch is typed and wired again, and what it
\* confirms is filed.
LEMMA TabKeeps ==
  ASSUME IInv, NEW b \in Tabs, NEW t \in Batch, TabOnly, UNCHANGED attempt,
         tab' = [tab EXCEPT ![b] = t], TabWired(b)', draft' \in [Drafts -> DraftStatus],
         confirmed' \subseteq Keys, \A k \in confirmed' \ confirmed : SameKey(k) # {}
  PROVE  IInv'
<1>1. UNCHANGED <<phase, season, access, version, stale, captured, form, records, photos>>
  BY DEF TabOnly, ClientOnly, plotVars
<1>2. TypeOK'
  BY <1>1 DEF IInv, TypeOK
<1>3. \A k : SameKey(k)' = SameKey(k)
  BY <1>1 DEF SameKey
<1>4. (\A a \in Attempts : Posted(a)') /\ Receipts'
  BY <1>1, <1>3 DEF IInv, Posted, Receipts
<1>5. \A x \in Tabs : TabWired(x)'
  <2>1. \A x \in Tabs \ {b} : tab'[x] = tab[x]
    BY DEF IInv, TypeOK
  <2>2. \A x \in Tabs \ {b} : TabWired(x)'
    BY <1>3, <2>1 DEF IInv, TabWired, IsFor
  <2> QED
    BY <2>2
<1>6. \A f \in Forms : FormWired(f)'
  BY <1>1, <1>3 DEF IInv, FormWired, IsFor, Untouched
<1>7. FiledOnceInItsSeason' /\ ConfirmedMeansFiled'
  BY <1>1, <1>3 DEF IInv, FiledOnceInItsSeason, ConfirmedMeansFiled
<1> QED
  BY <1>2, <1>4, <1>5, <1>6, <1>7 DEF IInv

\* What a tab may count on before its step.
LEMMA TabType == ASSUME IInv, NEW b \in Tabs
                 PROVE  tab \in [Tabs -> Batch] /\ tab[b] \in Batch /\ TabWired(b)
                        /\ draft \in [Drafts -> DraftStatus] /\ confirmed \subseteq Keys
  BY DEF IInv, TypeOK

\* Signing in, listing, ending a batch and closing a tab send nothing and confirm nothing.
LEMMA QuietTabStepKeeps ==
  ASSUME IInv, NEW b \in Tabs,
         \/ \E ph \in Phones : Reauthenticate(b, ph)
         \/ ListPending(b) \/ EndBatch(b) \/ CloseTab(b)
  PROVE  IInv'
<1>1. /\ TabOnly /\ UNCHANGED <<attempt, draft, confirmed>>
  BY DEF Reauthenticate, ListPending, EndBatch, CloseTab
<1>2. \E t \in Batch : tab' = [tab EXCEPT ![b] = t] /\ TabWired(b)'
  <2>1. CASE \E ph \in Phones : Reauthenticate(b, ph)
    <3>1. PICK ph \in Phones : Reauthenticate(b, ph)
      BY <2>1
    <3>2. [NoBatch EXCEPT !.pc = "authorized", !.phone = ph] \in Batch
      BY Blanks DEF NoBatch, Batch
    <3> QED
      BY <3>1, <3>2, TabType DEF Reauthenticate, TabWired, NoBatch
  <2>2. CASE ListPending(b)
    <3> DEFINE t == [tab[b] EXCEPT !.pc = "sending", !.todo = {d \in Drafts : draft[d] = "pending"}]
    <3>1. t \in Batch /\ t.pc = "sending" /\ t.phone = tab[b].phone
      BY TabType DEF Batch
    <3>2. tab' = [tab EXCEPT ![b] = t] /\ tab'[b] = t /\ tab[b].pc = "authorized"
      BY <2>2, <3>1, TabType DEF ListPending
    <3> HIDE DEF t
    <3> QED
      BY <3>1, <3>2, TabType DEF TabWired
  <2>3. CASE EndBatch(b) \/ CloseTab(b)
    <3>1. tab' = [tab EXCEPT ![b] = NoBatch] /\ tab'[b] = NoBatch
      BY <2>3, TabType DEF EndBatch, CloseTab
    <3>2. NoBatch.pc = "idle"
      BY DEF NoBatch
    <3>3. TabWired(b)'
      BY <3>1, <3>2 DEF TabWired
    <3> QED
      BY <3>1, <3>3, Blanks
  <2> QED
    BY <2>1, <2>2, <2>3
<1>3. PICK t \in Batch : tab' = [tab EXCEPT ![b] = t] /\ TabWired(b)'
  BY <1>2
<1> QED
  BY <1>1, <1>3, TabType, TabKeeps

\* A tab that hears a receipt hears it for a filed key.
LEMMA HearKeeps == ASSUME IInv, NEW b \in Tabs, Hear(b) PROVE IInv'
<1> DEFINE a == tab[b].post
<1>1. PICK code \in {attempt[a].answer, "network"} \ {"none"} :
        tab' = [tab EXCEPT ![b].pc = "classify", ![b].post = None, ![b].outcome = code]
  BY DEF Hear
<1>2. tab[b].pc = "waiting" /\ TabOnly /\ UNCHANGED <<draft, attempt, confirmed>>
  BY DEF Hear
<1>3. a \in Attempts /\ attempt[a].key = tab[b].key /\ attempt[a] \in Attempt
  BY <1>2, TabType DEF TabWired, IsFor, IInv, TypeOK
<1>4. code \in Answers /\ (code = "ok" => SameKey(tab[b].key) # {})
  BY <1>1, <1>3 DEF Attempt, Answers, IInv, Receipts
<1> DEFINE t == [tab[b] EXCEPT !.pc = "classify", !.post = None, !.outcome = code]
<1>5. t \in Batch /\ t.phone = tab[b].phone /\ t.key = tab[b].key /\ t.pc = "classify" /\ t.outcome = code
  BY <1>4, TabType DEF Batch
<1>6. tab' = [tab EXCEPT ![b] = t] /\ tab'[b] = t
  BY <1>1, <1>5, TabType
<1> HIDE DEF t, a
<1>8. TabWired(b)'
  <2>1. SameKey(tab[b].key)' = SameKey(tab[b].key)
    BY <1>2, <1>5, <1>6 DEF SameKey, TabOnly, ClientOnly
  <2> QED
    BY <1>2, <1>4, <1>5, <1>6, <2>1, TabType DEF TabWired
<1> QED
  BY <1>2, <1>5, <1>6, <1>8, TabType, TabKeeps

\* A draft is deleted as delivered, and the user told so, only when it is filed.
LEMMA ClassifyKeeps == ASSUME IInv, NEW b \in Tabs, Classify(b) PROVE IInv'
<1> DEFINE code == tab[b].outcome
           t == IF Stops(code) THEN NoBatch
                ELSE [NoBatch EXCEPT !.pc = "sending", !.phone = tab[b].phone,
                                     !.todo = Remaining(b)]
<1>1. /\ tab[b].pc = "classify" /\ Write(tab[b].key, Mark(code)) /\ TabOnly /\ UNCHANGED attempt
      /\ tab' = [tab EXCEPT ![b] = t]
      /\ confirmed' = IF code = "ok" THEN confirmed \cup {tab[b].key} ELSE confirmed
  BY DEF Classify
<1>2. tab[b].phone \in Phones /\ tab[b].key \in Drafts
      /\ (code = "ok" => SameKey(tab[b].key) # {})
  BY <1>1, TabType DEF TabWired
<1>3. Remaining(b) \subseteq Drafts
  BY TabType DEF Remaining, Batch
<1>4. t \in Batch /\ (t.pc # "idle" => t.phone \in Phones) /\ t.pc \in {"idle", "sending"}
  BY <1>2, <1>3, Blanks DEF NoBatch, Batch
<1>5. tab'[b] = t
  BY <1>1, TabType
<1>6. draft' \in [Drafts -> DraftStatus]
  <2>1. Mark(code) \in DraftStatus \/ Mark(code) = "none"
    BY DEF Mark, DraftStatus, Blocked
  <2> HIDE DEF code
  <2> QED
    BY <1>1, <2>1, WriteType DEF IInv
<1>7. confirmed' \subseteq Keys /\ \A k \in confirmed' \ confirmed : SameKey(k) # {}
  BY <1>1, <1>2, DraftsAreKeys, TabType
<1> HIDE DEF t, code
<1>8. TabWired(b)'
  BY <1>4, <1>5 DEF TabWired
<1> QED
  BY <1>1, <1>4, <1>6, <1>7, <1>8, TabKeeps

\* select-plot gives one of the answers.
LEMMA SelectsType == ASSUME NEW ph, NEW v PROVE Selects(ph, v) \in Answers
  BY DEF Selects, Answers

\* A draft's POST is sent for the key and with the token of the season that grows.
LEMMA SendDraftKeeps ==
  ASSUME IInv, NEW b \in Tabs, NEW d \in Drafts, SendDraft(b, d)
  PROVE  IInv'
<1> DEFINE ph == tab[b].phone
<1>1. tab[b].pc = "sending" /\ ph \in Phones /\ TabOnly /\ UNCHANGED <<draft, confirmed>>
  BY TabType DEF SendDraft, TabWired
<1>2. UNCHANGED <<phase, season, access, version, stale, captured, form, records, photos>>
  BY <1>1 DEF TabOnly, ClientOnly, plotVars
<1>3. CASE \E a \in Attempts : /\ Send(a, d, ph, 1, season)
                               /\ tab' = [tab EXCEPT ![b].pc = "waiting", ![b].key = d,
                                                     ![b].post = a]
  <2>1. PICK a \in Attempts : /\ Send(a, d, ph, 1, season)
                              /\ tab' = [tab EXCEPT ![b].pc = "waiting", ![b].key = d,
                                                    ![b].post = a]
    BY <1>3
  <2> DEFINE t == [tab[b] EXCEPT !.pc = "waiting", !.key = d, !.post = a]
  <2>2. /\ t \in Batch /\ t.phone = ph /\ t.key = d /\ t.pc = "waiting" /\ t.post = a
        /\ tab' = [tab EXCEPT ![b] = t] /\ tab'[b] = t
    BY <2>1, TabType DEF Batch
  <2>3. /\ attempt' \in [Attempts -> Attempt]
        /\ \A x \in Attempts : Posted(x)'
        /\ Receipts'
        /\ IsFor(a, d)'
        /\ \A x, y : IsFor(x, y) => IsFor(x, y)'
        /\ \A f \in Forms : Untouched(f) => Untouched(f)'
    <3>1. season \in Seasons
      BY DEF IInv, TypeOK
    <3> HIDE DEF ph
    <3> QED
      BY <1>1, <1>2, <2>1, <3>1, Ones, DraftsAreKeys, SendAdds
  <2> HIDE DEF t, ph
  <2>4. TypeOK'
    BY <1>1, <1>2, <2>2, <2>3 DEF IInv, TypeOK
  <2>5. \A k : SameKey(k)' = SameKey(k)
    BY <1>2 DEF SameKey
  <2>6. \A x \in Tabs : TabWired(x)'
    <3>1. TabWired(b)'
      BY <1>1, <2>2, <2>3 DEF TabWired
    <3>2. \A x \in Tabs \ {b} : tab'[x] = tab[x]
      BY <2>2, TabType
    <3>3. \A x \in Tabs \ {b} : TabWired(x)'
      BY <2>3, <2>5, <3>2 DEF IInv, TabWired
    <3> QED
      BY <3>1, <3>3
  <2>7. \A f \in Forms : FormWired(f)'
    BY <1>2, <2>3, <2>5 DEF IInv, FormWired
  <2>8. FiledOnceInItsSeason' /\ ConfirmedMeansFiled'
    BY <1>1, <1>2, <2>5 DEF IInv, FiledOnceInItsSeason, ConfirmedMeansFiled
  <2> QED
    BY <2>3, <2>4, <2>6, <2>7, <2>8 DEF IInv
<1>4. CASE \E code \in {Selects(ph, 1), "unauthorized", "busy", "network"} \ {"ok"} :
             /\ tab' = [tab EXCEPT ![b].pc = "classify", ![b].key = d, ![b].outcome = code]
             /\ UNCHANGED attempt
  <2>1. PICK code \in Answers \ {"ok"} :
           /\ tab' = [tab EXCEPT ![b].pc = "classify", ![b].key = d, ![b].outcome = code]
           /\ UNCHANGED attempt
    BY <1>4, SelectsType DEF Answers
  <2> DEFINE t == [tab[b] EXCEPT !.pc = "classify", !.key = d, !.outcome = code]
  <2>2. /\ t \in Batch /\ t.phone = ph /\ t.key = d /\ t.pc = "classify" /\ t.outcome # "ok"
        /\ tab' = [tab EXCEPT ![b] = t] /\ tab'[b] = t
    BY <2>1, TabType DEF Batch
  <2> HIDE DEF t, ph
  <2>3. TabWired(b)'
    BY <1>1, <2>2 DEF TabWired
  <2> QED
    BY <1>1, <2>1, <2>2, <2>3, TabType, TabKeeps
<1> QED
  BY <1>3, <1>4 DEF SendDraft

-----------------------------------------------------------------------------
(* The online form *)

\* What a form may count on before its step.
LEMMA FormType == ASSUME IInv, NEW f \in Forms
                  PROVE  form \in [Forms -> Form] /\ form[f] \in Form /\ FormWired(f)
                         /\ confirmed \subseteq Keys
  BY DEF IInv, TypeOK

\* A step of a form that sends nothing and captures nothing.
LEMMA FormKeeps ==
  ASSUME IInv, NEW f \in Forms, NEW g \in Form, FormOnly, UNCHANGED <<draft, captured, attempt>>,
         form' = [form EXCEPT ![f] = g], FormWired(f)',
         confirmed' \subseteq Keys, \A k \in confirmed' \ confirmed : SameKey(k) # {}
  PROVE  IInv'
<1>1. UNCHANGED <<phase, season, access, version, stale, tab, records, photos>>
  BY DEF FormOnly, plotVars
<1>2. TypeOK'
  BY <1>1 DEF IInv, TypeOK
<1>3. \A k : SameKey(k)' = SameKey(k)
  BY <1>1 DEF SameKey
<1>4. (\A a \in Attempts : Posted(a)') /\ Receipts'
  BY <1>1, <1>3 DEF IInv, Posted, Receipts
<1>5. \A b \in Tabs : TabWired(b)'
  BY <1>1, <1>3 DEF IInv, TabWired, IsFor
<1>6. \A x \in Forms : FormWired(x)'
  <2>1. \A x \in Forms \ {f} : form'[x] = form[x]
    BY FormType
  <2>2. \A x \in Forms \ {f} : FormWired(x)'
    BY <1>1, <1>3, <2>1 DEF IInv, FormWired, IsFor, Untouched
  <2> QED
    BY <2>2
<1>7. FiledOnceInItsSeason' /\ ConfirmedMeansFiled'
  BY <1>1, <1>3 DEF IInv, FiledOnceInItsSeason, ConfirmedMeansFiled
<1> QED
  BY <1>2, <1>4, <1>5, <1>6, <1>7 DEF IInv

\* A form that hears a receipt hears it for its own filed key.
LEMMA HearFormKeeps == ASSUME IInv, NEW f \in Forms, HearForm(f) PROVE IInv'
<1> DEFINE a == form[f].post
<1>1. PICK code \in {attempt[a].answer, "network"} \ {"none"} :
        form' = [form EXCEPT ![f].pc = "answered", ![f].post = None, ![f].outcome = code]
  BY DEF HearForm
<1>2. form[f].pc = "waiting" /\ FormOnly /\ UNCHANGED <<draft, captured, attempt, confirmed, records>>
  BY DEF HearForm, FormOnly
<1>3. a \in Attempts /\ attempt[a].key = f /\ attempt[a] \in Attempt
  BY <1>2, FormType DEF FormWired, IsFor, IInv, TypeOK
<1>4. code \in Answers /\ (code = "ok" => SameKey(f) # {})
  BY <1>1, <1>3 DEF Attempt, Answers, IInv, Receipts
<1> DEFINE g == [form[f] EXCEPT !.pc = "answered", !.post = None, !.outcome = code]
<1>5. /\ g \in Form /\ g.phone = form[f].phone /\ g.pc = "answered" /\ g.post = None
      /\ g.outcome = code
  BY <1>4, FormType DEF Form
<1>6. form' = [form EXCEPT ![f] = g] /\ form'[f] = g
  BY <1>1, <1>5, FormType
<1> HIDE DEF g, a
<1>7. FormWired(f)'
  BY <1>2, <1>4, <1>5, <1>6, FormType DEF FormWired, SameKey
<1> QED
  BY <1>2, <1>5, <1>6, <1>7, FormType, FormKeeps

\* The success step is shown for a filed form only.
LEMMA SettleFormKeeps == ASSUME IInv, NEW f \in Forms, SettleForm(f) PROVE IInv'
<1> DEFINE code == form[f].outcome
           pc == CASE code = "ok" -> "saved" [] code = "not_found" -> "gone" [] OTHER -> "open"
           g == [form[f] EXCEPT !.outcome = "none", !.pc = pc]
<1>1. /\ form[f].pc = "answered" /\ FormOnly /\ UNCHANGED <<draft, captured, attempt, records>>
      /\ confirmed' = IF code = "ok" THEN confirmed \cup {f} ELSE confirmed
      /\ form' = [form EXCEPT ![f].outcome = "none", ![f].pc = pc]
  BY DEF SettleForm, FormOnly
<1>2. pc \in {"saved", "gone", "open"}
  OBVIOUS
<1> HIDE DEF pc
<1>3. g \in Form /\ g.pc = pc /\ g.phone = form[f].phone /\ g.post = form[f].post
  BY <1>2, FormType DEF Form
<1>4. form' = [form EXCEPT ![f] = g] /\ form'[f] = g
  BY <1>1, <1>3, FormType
<1>5. confirmed' \subseteq Keys /\ \A k \in confirmed' \ confirmed : SameKey(k) # {}
  BY <1>1, FormType, FormsAreKeys DEF FormWired
<1> HIDE DEF g, code
<1>6. FormWired(f)'
  BY <1>1, <1>2, <1>3, <1>4, FormType DEF FormWired, IsFor
<1> QED
  BY <1>1, <1>3, <1>4, <1>5, <1>6, FormKeeps

\* A renewed token changes the form's season, not the one its key was captured in.
LEMMA RenewTokenKeeps == ASSUME IInv, NEW f \in Forms, RenewToken(f) PROVE IInv'
<1>1. /\ form[f].pc = "answered" /\ FormOnly
      /\ UNCHANGED <<draft, captured, attempt, confirmed, records>>
      /\ season \in Seasons
  BY DEF RenewToken, FormOnly, IInv, TypeOK
<1>2. PICK pc \in {"open", "gone"}, n \in Seasons :
        form' = [form EXCEPT ![f].pc = pc, ![f].outcome = "none", ![f].season = n]
  <2>1. CASE form' = [form EXCEPT ![f].pc = "open", ![f].outcome = "none", ![f].season = season]
    BY <1>1, <2>1
  <2>2. CASE form' = [form EXCEPT ![f].pc = "gone", ![f].outcome = "none"]
    <3>1. form[f].season \in Seasons
      BY FormType DEF Form
    <3>2. form' = [form EXCEPT ![f].pc = "gone", ![f].outcome = "none", ![f].season = form[f].season]
      BY <2>2, FormType DEF Form
    <3> QED
      BY <3>1, <3>2
  <2> QED
    BY <2>1, <2>2 DEF RenewToken
<1> DEFINE g == [form[f] EXCEPT !.pc = pc, !.outcome = "none", !.season = n]
<1>3. g \in Form /\ g.pc = pc /\ g.phone = form[f].phone /\ g.post = form[f].post
  BY FormType DEF Form
<1>4. form' = [form EXCEPT ![f] = g] /\ form'[f] = g
  BY <1>2, <1>3, FormType
<1> HIDE DEF g
<1>5. FormWired(f)'
  BY <1>1, <1>3, <1>4, FormType DEF FormWired, IsFor
<1> QED
  BY <1>1, <1>3, <1>4, <1>5, FormType, FormKeeps

\* Leaving a form files nothing and confirms nothing.
LEMMA AbandonFormKeeps == ASSUME IInv, NEW f \in Forms, AbandonForm(f) PROVE IInv'
<1> DEFINE g == [form[f] EXCEPT !.pc = "gone"]
<1>1. /\ FormOnly /\ UNCHANGED <<draft, captured, attempt, confirmed>>
      /\ form' = [form EXCEPT ![f].pc = "gone"]
  BY DEF AbandonForm
<1>2. g \in Form /\ g.pc = "gone" /\ g.post = form[f].post
  BY FormType DEF Form
<1>3. form' = [form EXCEPT ![f] = g] /\ form'[f] = g
  BY <1>1, <1>2, FormType
<1> HIDE DEF g
<1>4. FormWired(f)'
  BY <1>1, <1>2, <1>3, FormType DEF FormWired, IsFor
<1> QED
  BY <1>1, <1>2, <1>3, <1>4, FormType, FormKeeps

\* A receipt that comes after the form was left is for a filed form.
LEMMA LateReceiptKeeps == ASSUME IInv, NEW f \in Forms, LateReceipt(f) PROVE IInv'
<1> DEFINE g == [form[f] EXCEPT !.post = None]
<1>1. /\ form[f].pc = "gone" /\ FormOnly /\ UNCHANGED <<draft, captured, attempt>>
      /\ form' = [form EXCEPT ![f].post = None] /\ confirmed' = confirmed \cup {f}
  BY DEF LateReceipt
<1>2. g \in Form /\ g.pc = "gone" /\ g.post = None
  BY <1>1, FormType DEF Form
<1>3. form' = [form EXCEPT ![f] = g] /\ form'[f] = g
  BY <1>1, <1>2, FormType
<1>4. SameKey(f) # {}
  BY FormType DEF LateReceipt, FormWired, IsFor, IInv, Receipts
<1>5. confirmed' \subseteq Keys /\ \A k \in confirmed' \ confirmed : SameKey(k) # {}
  BY <1>1, <1>4, FormType, FormsAreKeys
<1> HIDE DEF g
<1>6. FormWired(f)'
  BY <1>2, <1>3 DEF FormWired
<1> QED
  BY <1>1, <1>2, <1>3, <1>5, <1>6, FormKeeps

\* The season of a form is fixed before anything is sent or filed for it.
LEMMA OpenFormKeeps ==
  ASSUME IInv, NEW f \in Forms, NEW ph \in Phones, OpenForm(f, ph)
  PROVE  IInv'
<1> DEFINE g == [Unopened EXCEPT !.pc = "open", !.phone = ph, !.version = version, !.season = season]
<1>1. /\ form[f].pc = "unopened" /\ UNCHANGED <<draft, attempt, confirmed>>
      /\ form' = [form EXCEPT ![f] = g] /\ captured' = [captured EXCEPT ![f] = season]
  BY DEF OpenForm
<1>2. UNCHANGED <<phase, season, access, version, stale, tab, records, photos>>
  BY DEF OpenForm, FormOnly, plotVars
<1>3. season \in Seasons /\ version \in Versions /\ captured \in [Keys -> Seasons]
  BY DEF IInv, TypeOK
<1>4. g \in Form /\ g.pc = "open" /\ g.phone = ph /\ g.post = None
  BY <1>3, Blanks DEF Unopened, Form
<1> HIDE DEF g
<1>5. form'[f] = g /\ \A x \in Forms \ {f} : form'[x] = form[x]
  BY <1>1, FormType
<1>6. captured' \in [Keys -> Seasons] /\ \A k \in Keys \ {f} : captured'[k] = captured[k]
  BY <1>1, <1>3
<1>7. TypeOK'
  BY <1>1, <1>2, <1>4, <1>6 DEF IInv, TypeOK
<1>8. Untouched(f)
  BY <1>1, FormType DEF FormWired
<1>9. \A k : SameKey(k)' = SameKey(k)
  BY <1>2 DEF SameKey
<1>10. \A a \in Attempts : Posted(a)'
  BY <1>1, <1>6, <1>8 DEF IInv, Posted, Untouched
<1>11. Receipts' /\ ConfirmedMeansFiled'
  BY <1>1, <1>9 DEF IInv, Receipts, ConfirmedMeansFiled
<1>12. \A b \in Tabs : TabWired(b)'
  BY <1>1, <1>2, <1>9 DEF IInv, TabWired, IsFor
<1>13. \A x \in Forms : FormWired(x)'
  <2>1. FormWired(f)'
    BY <1>4, <1>5 DEF FormWired
  <2>2. \A x \in Forms \ {f} : FormWired(x)'
    BY <1>1, <1>2, <1>5, <1>9 DEF IInv, FormWired, IsFor, Untouched
  <2> QED
    BY <2>1, <2>2
<1>14. FiledOnceInItsSeason'
  <2>1. \A r \in records : r.key \in Keys /\ r.key # f
    BY <1>8 DEF Untouched, IInv, TypeOK, Row
  <2> QED
    BY <1>2, <1>6, <1>9, <2>1 DEF IInv, FiledOnceInItsSeason
<1> QED
  BY <1>7, <1>10, <1>11, <1>12, <1>13, <1>14 DEF IInv

\* A form's POST is sent for the form's own key.
LEMMA SubmitKeeps == ASSUME IInv, NEW f \in Forms, Submit(f) PROVE IInv'
<1>1. PICK a \in Attempts : /\ Send(a, f, form[f].phone, form[f].version, form[f].season)
                            /\ form' = [form EXCEPT ![f].pc = "waiting", ![f].post = a]
  BY DEF Submit
<1>2. /\ form[f].pc = "open" /\ FormOnly /\ UNCHANGED <<draft, captured, confirmed>>
      /\ UNCHANGED <<phase, season, access, version, stale, tab, records, photos>>
  BY DEF Submit, FormOnly, plotVars
<1>3. form[f].phone \in Phones /\ form[f].version \in Versions /\ form[f].season \in Seasons
  BY <1>2, FormType DEF FormWired, Form
<1> DEFINE g == [form[f] EXCEPT !.pc = "waiting", !.post = a]
<1>4. g \in Form /\ g.pc = "waiting" /\ g.phone = form[f].phone /\ g.post = a
  BY <1>1, FormType DEF Form
<1>5. form' = [form EXCEPT ![f] = g] /\ form'[f] = g /\ \A x \in Forms \ {f} : form'[x] = form[x]
  BY <1>1, <1>4, FormType
<1> HIDE DEF g
<1>6. /\ attempt' \in [Attempts -> Attempt]
      /\ \A x \in Attempts : Posted(x)'
      /\ Receipts'
      /\ IsFor(a, f)'
      /\ \A x, y : IsFor(x, y) => IsFor(x, y)'
      /\ \A x \in Forms : x # f /\ Untouched(x) => Untouched(x)'
  BY <1>1, <1>2, <1>3, FormsAreKeys, SendAdds
<1>7. TypeOK'
  BY <1>2, <1>4, <1>5, <1>6 DEF IInv, TypeOK
<1>8. \A k : SameKey(k)' = SameKey(k)
  BY <1>2 DEF SameKey
<1>9. \A b \in Tabs : TabWired(b)'
  BY <1>2, <1>6, <1>8 DEF IInv, TabWired
<1>10. \A x \in Forms : FormWired(x)'
  <2>1. FormWired(f)'
    <3>1. a # None
      BY NoneAssumption
    <3> QED
      BY <1>3, <1>4, <1>5, <1>6, <3>1 DEF FormWired
  <2>2. \A x \in Forms \ {f} : FormWired(x)'
    BY <1>5, <1>6, <1>8 DEF IInv, FormWired
  <2> QED
    BY <2>1, <2>2
<1>11. FiledOnceInItsSeason' /\ ConfirmedMeansFiled'
  BY <1>2, <1>8 DEF IInv, FiledOnceInItsSeason, ConfirmedMeansFiled
<1> QED
  BY <1>6, <1>7, <1>9, <1>10, <1>11 DEF IInv

\* No step of a form breaks the invariant.
LEMMA FormStepKeeps == ASSUME IInv, NEW f \in Forms, FormStep(f) PROVE IInv'
  BY OpenFormKeeps, SubmitKeeps, HearFormKeeps, SettleFormKeeps, RenewTokenKeeps,
     AbandonFormKeeps, LateReceiptKeeps DEF FormStep

\* No step of a tab breaks the invariant.
LEMMA TabStepKeeps ==
  ASSUME IInv, NEW b \in Tabs, \/ \E ph \in Phones : Reauthenticate(b, ph)
                               \/ ListPending(b)
                               \/ BatchStep(b)
                               \/ CloseTab(b)
  PROVE  IInv'
  BY QuietTabStepKeeps, SendDraftKeeps, HearKeeps, ClassifyKeeps DEF BatchStep

-----------------------------------------------------------------------------
(* The theorems *)

\* No step of anyone breaks the invariant.
THEOREM NextIInv == IInv /\ [Next]_vars => IInv'
<1> SUFFICES ASSUME IInv, [Next]_vars PROVE IInv'
  OBVIOUS
<1>1. CASE BackOffice
  BY <1>1, BackOfficeKeeps
<1>2. CASE \E k \in Keys : GoStale(k)
  BY <1>2, StaleKeeps
<1>3. CASE \E a \in Attempts : Handle(a)
  BY <1>3, HandlerKeeps
<1>4. CASE \E b \in Tabs : \/ \E ph \in Phones : Reauthenticate(b, ph)
                           \/ ListPending(b)
                           \/ BatchStep(b)
                           \/ CloseTab(b)
  BY <1>4, TabStepKeeps
<1>5. CASE (\E d \in Drafts : Retry(d) \/ Delete(d)) \/ ClearAll
  BY <1>5, QueueKeeps
<1>6. CASE \E f \in Forms : FormStep(f)
  BY <1>6, FormStepKeeps
<1>7. CASE UNCHANGED vars
  <2>1. TypeOK' /\ UNCHANGED <<attempt, captured, records, tab, form, confirmed>>
    BY <1>7 DEF vars, IInv, TypeOK
  <2> QED
    BY <2>1, Framed
<1> QED
  BY <1>1, <1>2, <1>3, <1>4, <1>5, <1>6, <1>7 DEF Next

\* The invariant holds of every behaviour.
THEOREM Invariance == Spec => []IInv
  BY InitIInv, NextIInv, PTL DEF Spec

\* Drafts, batches, forms, requests and records keep the shapes and statuses the code
\* gives them.
THEOREM DeliveryTypes == Spec => []TypeOK
<1>1. IInv => TypeOK
  BY DEF IInv
<1> QED
  BY <1>1, Invariance, PTL

\* However many drafts, tabs, requests, retries and seasons: a key is filed at most
\* once, in the season it was captured in.
THEOREM AtMostOnce == Spec => []FiledOnceInItsSeason
<1>1. IInv => FiledOnceInItsSeason
  BY DEF IInv
<1> QED
  BY <1>1, Invariance, PTL

\* Nobody is told that an inspection is saved when it is not.
THEOREM NoFalseReceipt == Spec => []ConfirmedMeansFiled
<1>1. IInv => ConfirmedMeansFiled
  BY DEF IInv
<1> QED
  BY <1>1, Invariance, PTL

-----------------------------------------------------------------------------
(***************************************************************************)
(* What the records and the photos owe each other, what a conflict says,   *)
(* and when a request that was already under way may still file.           *)
(*                                                                         *)
(* CInv follows a conflict from the handler that answers it to the draft   *)
(* it blocks; PInv follows the photos of each request, which are on disk   *)
(* between "stored" and its answer, and stay there afterwards only for a   *)
(* record, a crash or a failed COMMIT.                                     *)
(***************************************************************************)

\* A conflict is answered only for a key that is filed, and heard only then.
ConflictAnswered == \A a \in Attempts :
    attempt[a].answer = "idempotency_conflict" => SameKey(attempt[a].key) # {}

ConflictHeard(b) == tab[b].pc = "classify" /\ tab[b].outcome = "idempotency_conflict"
                       => SameKey(tab[b].key) # {}

CInv == ConflictAnswered /\ (\A b \in Tabs : ConflictHeard(b)) /\ ConflictMeansFiled

\* Photos are on disk from "stored" on, and a record names those of an answered request.
PhotosOfRequest(a) == /\ attempt[a].pc \in {"unused", "sent", "resolved"} => a \notin photos
                      /\ attempt[a].pc = "stored" => a \in photos
                      /\ (\E r \in records : r.photos = a) => attempt[a].pc = "answered"

PInv == (\A a \in Attempts : PhotosOfRequest(a)) /\ PhotosFollowRecords

-----------------------------------------------------------------------------
(* Who files, and what a step of anyone else does to the requests *)

\* Some request is sent, and no other is touched; or none is.
Posts == \/ UNCHANGED attempt
         \/ \E a \in Attempts :
               /\ attempt[a].pc = "unused"
               /\ attempt'[a].pc = "sent" /\ attempt'[a].answer = "none"
               /\ \A x \in Attempts \ {a} : attempt'[x] = attempt[x]

\* A step of a client: it files nothing and stores nothing.
Elsewhere == UNCHANGED <<records, photos>> /\ Posts

\* A POST that leaves is such a step of the requests.
LEMMA SendPosts == ASSUME TypeOK, NEW a \in Attempts, NEW k, NEW ph, NEW v, NEW n,
                          Send(a, k, ph, v, n)
                   PROVE  Posts
  BY DEF Send, Posts, TypeOK

\* Only handlers file, and only clients send.
LEMMA ClientsFileNothing ==
  ASSUME TypeOK, [Next]_vars, ~\E a \in Attempts : Handle(a)
  PROVE  Elsewhere
<1> USE DEF Elsewhere
<1>1. CASE BackOffice \/ (\E k \in Keys : GoStale(k)) \/ UNCHANGED vars
  BY <1>1 DEF BackOffice, OpenSeason, CloseSeason, Reactivate, ReplacePhones, ChangePassword,
     PlotOnly, GoStale, vars, Posts
<1>2. CASE (\E d \in Drafts : Retry(d) \/ Delete(d)) \/ ClearAll
  BY <1>2 DEF Retry, Delete, ClearAll, QueueOnly, TabOnly, ClientOnly, Posts
<1>3. ASSUME NEW b \in Tabs, \/ \E ph \in Phones : Reauthenticate(b, ph)
                             \/ ListPending(b)
                             \/ BatchStep(b)
                             \/ CloseTab(b)
      PROVE  Elsewhere
  <2>1. CASE \E d \in Drafts : SendDraft(b, d)
    <3>1. UNCHANGED attempt \/ \E a \in Attempts, d \in Drafts : Send(a, d, tab[b].phone, 1, season)
      BY <2>1 DEF SendDraft
    <3>2. UNCHANGED <<records, photos>>
      BY <2>1 DEF SendDraft, TabOnly, ClientOnly
    <3> QED
      BY <3>1, <3>2, SendPosts DEF Posts
  <2>2. CASE ~\E d \in Drafts : SendDraft(b, d)
    BY <1>3, <2>2 DEF Reauthenticate, ListPending, BatchStep, Hear, Classify, EndBatch, CloseTab,
       TabOnly, ClientOnly, Posts
  <2> QED
    BY <2>1, <2>2
<1>4. ASSUME NEW f \in Forms, FormStep(f) PROVE Elsewhere
  <2>1. UNCHANGED <<records, photos>>
    BY <1>4 DEF FormStep, OpenForm, Submit, HearForm, SettleForm, RenewToken, AbandonForm,
       LateReceipt, FormOnly
  <2>2. UNCHANGED attempt \/ Submit(f)
    BY <1>4 DEF FormStep, OpenForm, HearForm, SettleForm, RenewToken, AbandonForm, LateReceipt
  <2>3. Submit(f) => \E a \in Attempts : Send(a, f, form[f].phone, form[f].version, form[f].season)
    BY DEF Submit
  <2> QED
    BY <2>1, <2>2, <2>3, SendPosts DEF Posts
<1> QED
  BY <1>1, <1>2, <1>3, <1>4 DEF Next

\* Records are never taken back.
LEMMA RecordsGrow == ASSUME IInv, [Next]_vars PROVE \A k : SameKey(k) \subseteq SameKey(k)'
<1>1. records \subseteq records'
  <2>1. CASE \E a \in Attempts : Handle(a)
    BY <2>1, Advances DEF Advance
  <2>2. CASE ~\E a \in Attempts : Handle(a)
    BY <2>2, ClientsFileNothing DEF Elsewhere, IInv
  <2> QED
    BY <2>1, <2>2
<1> QED
  BY <1>1 DEF SameKey

-----------------------------------------------------------------------------
(* Conflicts *)

\* A handler answers a conflict only for a key that is filed.
LEMMA HandlerConflicts ==
  ASSUME IInv, ConflictAnswered, NEW a \in Attempts, Handle(a)
  PROVE  ConflictAnswered'
<1> DEFINE conflict == "idempotency_conflict"
<1>1. Progress(a) /\ TypeOK
  BY Advances DEF Advance, IInv
<1>2. \A k : SameKey(k) \subseteq SameKey(k)'
  BY RecordsGrow DEF Next
<1>3. attempt'[a].answer = conflict => attempt[a].answer = conflict \/ SameKey(attempt[a].key) # {}
  <2>0. \A code : Answer(a, code) => attempt'[a].answer = code
    BY <1>1 DEF Answer, TypeOK, Attempt
  <2>m. \A pc : Move(a, pc) => attempt'[a].answer = attempt[a].answer
    BY <1>1 DEF Move, TypeOK, Attempt
  <2>1. CASE Resolve(a)
    <3>1. Verdict(a) = conflict => SameKey(attempt[a].key) # {}
      BY DEF Verdict, Replay, Unreplayed
    <3> QED
      BY <2>0, <2>m, <2>1, <3>1 DEF Resolve
  <2>2. CASE LoseRace(a)
    BY <2>2 DEF LoseRace, IndexAdmits
  <2>3. CASE StorePhotos(a) \/ Lose(a)
    <3>1. Answer(a, "busy") \/ \E pc : Move(a, pc)
      BY <2>3 DEF StorePhotos, Lose
    <3> QED
      BY <2>0, <2>m, <3>1
  <2>4. CASE (\E code \in Answers : Refuse(a, code)) \/ Insert(a) \/ Withdraw(a) \/ CommitFails(a)
    <3>1. \E code \in {"unauthorized", "busy", "ok", "not_found"} : Answer(a, code)
      BY <2>4 DEF Refuse, Insert, Withdraw, CommitFails
    <3> QED
      BY <2>0, <3>1
  <2> QED
    BY <2>1, <2>2, <2>3, <2>4 DEF Handle
<1> SUFFICES ASSUME NEW x \in Attempts, attempt'[x].answer = conflict
             PROVE  SameKey(attempt[x].key)' # {}
  BY DEF ConflictAnswered
<1>4. attempt[x].answer = conflict \/ SameKey(attempt[x].key) # {}
  BY <1>1, <1>3 DEF Progress
<1>5. attempt'[x].key = attempt[x].key
  BY <1>1 DEF Progress
<1> QED
  BY <1>2, <1>4, <1>5 DEF ConflictAnswered

\* What a client sends has no answer yet.
LEMMA PostsConflicts ==
  ASSUME ConflictAnswered, Elsewhere
  PROVE  ConflictAnswered'
<1>1. \A k : SameKey(k)' = SameKey(k)
  BY DEF SameKey, Elsewhere
<1> QED
  BY <1>1 DEF Elsewhere, Posts, ConflictAnswered

\* A tab hears a conflict only from the request for the draft in its hand.
LEMMA TabConflicts ==
  ASSUME IInv, CInv, [Next]_vars, NEW b \in Tabs
  PROVE  ConflictHeard(b)'
<1>1. \A k : SameKey(k) \subseteq SameKey(k)'
  BY RecordsGrow
<1>2. TabWired(b) /\ tab \in [Tabs -> Batch]
  BY TabType
<1>3. CASE tab'[b] = tab[b]
  BY <1>1, <1>3 DEF CInv, ConflictHeard
<1>4. CASE Hear(b)
  <2> DEFINE a == tab[b].post
  <2>1. a \in Attempts /\ attempt[a].key = tab[b].key
    BY <1>2, <1>4 DEF Hear, TabWired, IsFor
  <2>2. PICK code \in {attempt[a].answer, "network"} \ {"none"} :
          tab' = [tab EXCEPT ![b].pc = "classify", ![b].post = None, ![b].outcome = code]
    BY <1>4 DEF Hear
  <2>3. tab'[b].key = tab[b].key /\ tab'[b].outcome = code
    BY <1>2, <2>2 DEF Batch
  <2>4. code = "idempotency_conflict" => SameKey(tab[b].key) # {}
    BY <2>1, <2>2 DEF CInv, ConflictAnswered
  <2> QED
    BY <1>1, <2>3, <2>4 DEF ConflictHeard
<1>5. CASE \E d \in Drafts : SendDraft(b, d)
  <2>1. PICK d \in Drafts : SendDraft(b, d)
    BY <1>5
  <2>2. CASE \E a \in Attempts :
               tab' = [tab EXCEPT ![b].pc = "waiting", ![b].key = d, ![b].post = a]
    BY <1>2, <2>2 DEF ConflictHeard, Batch
  <2>3. CASE \E code \in {Selects(tab[b].phone, 1), "unauthorized", "busy", "network"} \ {"ok"} :
               tab' = [tab EXCEPT ![b].pc = "classify", ![b].key = d, ![b].outcome = code]
    <3>1. Selects(tab[b].phone, 1) # "idempotency_conflict"
      BY DEF Selects
    <3> QED
      BY <1>2, <2>3, <3>1 DEF ConflictHeard, Batch
  <2> QED
    BY <2>1, <2>2, <2>3 DEF SendDraft
<1>6. CASE ListPending(b)
  BY <1>2, <1>6 DEF ListPending, ConflictHeard, Batch
<1>7. CASE (\E ph \in Phones : Reauthenticate(b, ph)) \/ Classify(b) \/ EndBatch(b) \/ CloseTab(b)
  <2>1. tab'[b].pc \in {"idle", "authorized", "sending"}
    <3>1. \E t : tab' = [tab EXCEPT ![b] = t] /\ t.pc \in {"idle", "authorized", "sending"}
      <4>1. CASE Classify(b)
        <5> DEFINE t == IF Stops(tab[b].outcome) THEN NoBatch
                        ELSE [NoBatch EXCEPT !.pc = "sending", !.phone = tab[b].phone,
                                             !.todo = Remaining(b)]
        <5>1. tab' = [tab EXCEPT ![b] = t]
          BY <4>1 DEF Classify
        <5>2. t.pc \in {"idle", "sending"}
          BY DEF NoBatch
        <5> QED
          BY <5>1, <5>2
      <4>2. CASE EndBatch(b) \/ CloseTab(b)
        <5>1. tab' = [tab EXCEPT ![b] = NoBatch]
          BY <4>2 DEF EndBatch, CloseTab
        <5>2. NoBatch.pc = "idle"
          BY DEF NoBatch
        <5> QED
          BY <5>1, <5>2
      <4>3. CASE \E ph \in Phones : Reauthenticate(b, ph)
        <5>1. PICK ph \in Phones :
                tab' = [tab EXCEPT ![b] = [NoBatch EXCEPT !.pc = "authorized", !.phone = ph]]
          BY <4>3 DEF Reauthenticate
        <5>2. [NoBatch EXCEPT !.pc = "authorized", !.phone = ph].pc = "authorized"
          BY DEF NoBatch
        <5> QED
          BY <5>1, <5>2
      <4> QED
        BY <1>7, <4>1, <4>2, <4>3
    <3> QED
      BY <1>2, <3>1
  <2> QED
    BY <2>1 DEF ConflictHeard
<1>8. \/ tab'[b] = tab[b]
      \/ \E ph \in Phones : Reauthenticate(b, ph)
      \/ ListPending(b) \/ BatchStep(b) \/ CloseTab(b)
  <2>1. CASE \E x \in Tabs : \/ \E ph \in Phones : Reauthenticate(x, ph)
                             \/ ListPending(x)
                             \/ BatchStep(x)
                             \/ CloseTab(x)
    <3>1. PICK x \in Tabs : \/ \E ph \in Phones : Reauthenticate(x, ph)
                            \/ ListPending(x)
                            \/ BatchStep(x)
                            \/ CloseTab(x)
      BY <2>1
    <3>2. x # b => tab'[b] = tab[b]
      BY <1>2, <3>1 DEF Reauthenticate, ListPending, BatchStep, SendDraft, Hear, Classify, EndBatch,
         CloseTab
    <3> QED
      BY <3>1, <3>2
  <2>2. CASE UNCHANGED tab
    BY <2>2
  <2>3. ASSUME NEW a \in Attempts, Handle(a) PROVE UNCHANGED tab
    BY <2>3, Advances DEF Advance, ServerOnly
  <2>4. ASSUME NEW f \in Forms, FormStep(f) PROVE UNCHANGED tab
    BY <2>4 DEF FormStep, OpenForm, Submit, HearForm, SettleForm, RenewToken, AbandonForm,
       LateReceipt, FormOnly
  <2>5. BackOffice \/ (\E k \in Keys : GoStale(k)) \/ UNCHANGED vars => UNCHANGED tab
    BY DEF BackOffice, OpenSeason, CloseSeason, Reactivate, ReplacePhones, ChangePassword,
       PlotOnly, GoStale, vars
  <2>6. (\E d \in Drafts : Retry(d) \/ Delete(d)) \/ ClearAll => UNCHANGED tab
    BY DEF Retry, Delete, ClearAll, QueueOnly
  <2> QED
    BY <2>1, <2>2, <2>3, <2>4, <2>5, <2>6 DEF Next
<1> QED
  BY <1>3, <1>4, <1>5, <1>6, <1>7, <1>8 DEF BatchStep

\* A draft is marked a conflict only by a tab that heard one.
LEMMA DraftConflicts == ASSUME IInv, CInv, [Next]_vars PROVE ConflictMeansFiled'
<1>1. \A k : SameKey(k) \subseteq SameKey(k)'
  BY RecordsGrow
<1> SUFFICES ASSUME NEW d \in Drafts, draft'[d] = "blocked_conflict" PROVE SameKey(d)' # {}
  BY DEF ConflictMeansFiled
<1>2. CASE draft[d] = "blocked_conflict"
  BY <1>1, <1>2 DEF CInv, ConflictMeansFiled
<1>3. CASE draft[d] # "blocked_conflict"
  <2>1. draft \in [Drafts -> DraftStatus] /\ TypeOK
    BY DEF IInv, TypeOK
  <2>2. \E b \in Tabs : Classify(b)
    <3>1. ~((\E x \in Drafts : Retry(x) \/ Delete(x)) \/ ClearAll)
      BY <1>3, <2>1 DEF Retry, Delete, ClearAll, Write
    <3>2. ~\E a \in Attempts : Handle(a)
      BY <1>3, Advances DEF Advance, ServerOnly
    <3>3. ~\E f \in Forms : FormStep(f)
      BY <1>3 DEF FormStep, OpenForm, Submit, HearForm, SettleForm, RenewToken, AbandonForm,
         LateReceipt
    <3>4. ~(BackOffice \/ (\E k \in Keys : GoStale(k)) \/ UNCHANGED vars)
      BY <1>3 DEF BackOffice, OpenSeason, CloseSeason, Reactivate, ReplacePhones, ChangePassword,
         PlotOnly, GoStale, vars
    <3>5. ASSUME NEW b \in Tabs, \/ \E ph \in Phones : Reauthenticate(b, ph)
                                 \/ ListPending(b)
                                 \/ BatchStep(b)
                                 \/ CloseTab(b)
          PROVE  Classify(b)
      BY <1>3, <3>5 DEF Reauthenticate, ListPending, BatchStep, SendDraft, Hear, EndBatch, CloseTab
    <3> QED
      BY <3>1, <3>2, <3>3, <3>4, <3>5 DEF Next
  <2>3. PICK b \in Tabs : Classify(b)
    BY <2>2
  <2>4. tab[b].key = d /\ Mark(tab[b].outcome) = "blocked_conflict"
    BY <1>3, <2>1, <2>3 DEF Classify, Write
  <2>5. tab[b].outcome = "idempotency_conflict"
    BY <2>4 DEF Mark
  <2> QED
    BY <1>1, <2>3, <2>4, <2>5 DEF Classify, CInv, ConflictHeard
<1> QED
  BY <1>2, <1>3

\* Nothing is a conflict at first.
THEOREM InitCInv == Init => CInv
  BY DEF Init, CInv, ConflictAnswered, ConflictHeard, ConflictMeansFiled, Unused, NoBatch

\* No step calls an unfiled draft a conflict.
THEOREM NextCInv == IInv /\ CInv /\ [Next]_vars => CInv'
<1> SUFFICES ASSUME IInv, CInv, [Next]_vars PROVE CInv'
  OBVIOUS
<1>1. ConflictAnswered'
  <2>1. CASE \E a \in Attempts : Handle(a)
    BY <2>1, HandlerConflicts DEF CInv
  <2>2. CASE ~\E a \in Attempts : Handle(a)
    BY <2>2, ClientsFileNothing, PostsConflicts DEF CInv, IInv
  <2> QED
    BY <2>1, <2>2
<1> QED
  BY <1>1, TabConflicts, DraftConflicts DEF CInv

\* A draft the queue panel calls a conflict is already filed: blocking it hides
\* nothing that was never saved.
THEOREM NoFalseConflict == Spec => []ConflictMeansFiled
<1>1. CInv => ConflictMeansFiled
  BY DEF CInv
<1> QED
  BY <1>1, Invariance, InitCInv, NextCInv, PTL DEF Spec

-----------------------------------------------------------------------------
(* Photos *)

\* Nothing is on disk at first.
THEOREM InitPInv == Init => PInv
  BY DEF Init, PInv, PhotosOfRequest, PhotosFollowRecords, RecordsKeepTheirPhotos,
     PhotosHaveTheirRecord, Unused

\* A client that sends a POST stores nothing, and its request has not begun.
LEMMA ClientsKeepPhotos == ASSUME TypeOK, PInv, Elsewhere PROVE PInv'
<1>1. UNCHANGED <<records, photos>>
  BY DEF Elsewhere
<1>2. CASE UNCHANGED attempt
  BY <1>1, <1>2 DEF PInv, PhotosOfRequest, PhotosFollowRecords, RecordsKeepTheirPhotos,
     PhotosHaveTheirRecord
<1>3. ASSUME NEW a \in Attempts, attempt[a].pc = "unused", attempt'[a].pc = "sent",
             \A x \in Attempts \ {a} : attempt'[x] = attempt[x]
      PROVE  PInv'
  <2>1. a \notin photos /\ \A r \in records : r.photos # a
    BY <1>3 DEF PInv, PhotosOfRequest
  <2>2. PhotosOfRequest(a)'
    BY <1>1, <1>3, <2>1 DEF PhotosOfRequest
  <2>3. \A x \in Attempts \ {a} : PhotosOfRequest(x)'
    BY <1>1, <1>3 DEF PInv, PhotosOfRequest
  <2>4. RecordsKeepTheirPhotos'
    BY <1>1 DEF PInv, PhotosFollowRecords, RecordsKeepTheirPhotos
  <2>5. PhotosHaveTheirRecord'
    BY <1>1, <1>3, <2>1 DEF PInv, PhotosFollowRecords, PhotosHaveTheirRecord, TypeOK
  <2> QED
    BY <2>2, <2>3, <2>4, <2>5 DEF PInv, PhotosFollowRecords
<1> QED
  BY <1>2, <1>3 DEF Elsewhere, Posts

\* What a step of handler a may do to the photos of its request.
LEMMA PhotoStep ==
  ASSUME TypeOK, NEW a \in Attempts, PhotosOfRequest(a), Handle(a)
  PROVE  /\ attempt[a].pc \notin {"unused", "answered", "lost"}
         /\ \A x \in Attempts \ {a} : attempt'[x] = attempt[x] /\ (x \in photos' <=> x \in photos)
         /\ photos' \subseteq Attempts
         /\ attempt'[a].pc \in {"unused", "sent", "resolved"} => a \notin photos'
         /\ attempt'[a].pc = "stored" => a \in photos'
         /\ a \in photos' => \/ attempt'[a].pc \in {"stored", "lost"}
                               \/ attempt'[a].answer = "busy"
                               \/ \E r \in records' : r.photos = a
<1>1. /\ \A code : Answer(a, code) => /\ attempt'[a].answer = code /\ attempt'[a].pc = "answered"
                                      /\ \A x \in Attempts \ {a} : attempt'[x] = attempt[x]
      /\ \A pc : Move(a, pc) => /\ attempt'[a].pc = pc
                                /\ \A x \in Attempts \ {a} : attempt'[x] = attempt[x]
  BY DEF Answer, Move, TypeOK, Attempt
<1>2. photos \subseteq Attempts
  BY DEF TypeOK
<1>3. CASE Resolve(a)
  BY <1>1, <1>2, <1>3 DEF Resolve, serverVars, PhotosOfRequest
<1>4. CASE \E code \in Answers : Refuse(a, code)
  BY <1>1, <1>2, <1>4 DEF Refuse, serverVars, PhotosOfRequest
<1>5. CASE StorePhotos(a)
  BY <1>1, <1>2, <1>5 DEF StorePhotos, PhotosOfRequest
<1>6. CASE Insert(a)
  <2>1. a \in photos => \E r \in records' : r.photos = a
    <3> DEFINE n == [key |-> attempt[a].key, phone |-> attempt[a].phone,
                     season |-> attempt[a].season, photos |-> IF a \in photos THEN a ELSE None]
    <3>1. n \in records'
      BY <1>6 DEF Insert
    <3>2. a \in photos => n.photos = a
      OBVIOUS
    <3> HIDE DEF n
    <3> QED
      BY <3>1, <3>2
  <2>2. attempt[a].pc \in {"stored", "resolved"} /\ photos' = photos /\ Answer(a, "ok")
    BY <1>6 DEF Insert, ReadyToCommit
  <2> QED
    BY <1>1, <1>2, <2>1, <2>2
<1>7. CASE LoseRace(a)
  BY <1>1, <1>2, <1>7 DEF LoseRace, ReadyToCommit, Cleanup
<1>8. CASE Withdraw(a)
  BY <1>1, <1>2, <1>8 DEF Withdraw, ReadyToCommit, Cleanup
<1>9. CASE CommitFails(a)
  BY <1>1, <1>2, <1>9 DEF CommitFails, ReadyToCommit, serverVars
<1>10. CASE Lose(a)
  BY <1>1, <1>2, <1>10 DEF Lose, serverVars
<1> QED
  BY <1>3, <1>4, <1>5, <1>6, <1>7, <1>8, <1>9, <1>10 DEF Handle

\* A record that is new names the photos its own request has stored, or none.
LEMMA NewRecords ==
  ASSUME TypeOK, NEW a \in Attempts, Handle(a), PhotosOfRequest(a)
  PROVE  /\ records \subseteq records'
         /\ \A r \in records' \ records :
               /\ attempt'[a].pc = "answered"
               /\ r.photos \in {a, None}
               /\ r.key \in Photographed => r.photos \in photos'
<1>1. CASE Insert(a)
  <2> DEFINE n == [key |-> attempt[a].key, phone |-> attempt[a].phone,
                   season |-> attempt[a].season, photos |-> IF a \in photos THEN a ELSE None]
  <2>1. records' = records \cup {n} /\ photos' = photos /\ Answer(a, "ok") /\ ReadyToCommit(a)
    BY <1>1 DEF Insert
  <2>2. attempt'[a].pc = "answered"
    BY <2>1 DEF Answer, TypeOK, Attempt
  <2>3. n.key \in Photographed => n.photos \in photos
    BY <2>1 DEF ReadyToCommit, PhotosOfRequest
  <2>4. n.photos \in {a, None}
    OBVIOUS
  <2> HIDE DEF n
  <2> QED
    BY <2>1, <2>2, <2>3, <2>4
<1>2. CASE ~Insert(a)
  BY <1>2 DEF Handle, Resolve, Refuse, StorePhotos, LoseRace, Withdraw, CommitFails, Lose, serverVars
<1> QED
  BY <1>1, <1>2

\* A handler stores, keeps and cleans up only what its own request has stored.
LEMMA HandlerKeepsPhotos == ASSUME TypeOK, PInv, NEW a \in Attempts, Handle(a) PROVE PInv'
<1>1. PhotosOfRequest(a) /\ \A x \in Attempts : PhotosOfRequest(x)
  BY DEF PInv
<1>2. \A r \in records : r.photos # a
  BY <1>1, PhotoStep DEF PhotosOfRequest
<1>3. PhotosOfRequest(a)'
  BY <1>1, <1>2, PhotoStep, NewRecords DEF PhotosOfRequest
<1>4. \A x \in Attempts \ {a} : PhotosOfRequest(x)'
  <2> SUFFICES ASSUME NEW x \in Attempts \ {a} PROVE PhotosOfRequest(x)'
    OBVIOUS
  <2>1. attempt'[x] = attempt[x] /\ (x \in photos' <=> x \in photos)
    BY <1>1, PhotoStep
  <2>2. (\E r \in records' : r.photos = x) => \E r \in records : r.photos = x
    BY <1>1, NewRecords, NoneAssumption
  <2> QED
    BY <1>1, <2>1, <2>2 DEF PhotosOfRequest
<1>5. RecordsKeepTheirPhotos'
  <2> SUFFICES ASSUME NEW r \in records', r.key \in Photographed PROVE r.photos \in photos'
    BY DEF RecordsKeepTheirPhotos
  <2>1. CASE r \in records
    <3>1. r.photos \in photos /\ photos \subseteq Attempts
      BY <2>1 DEF PInv, PhotosFollowRecords, RecordsKeepTheirPhotos, TypeOK
    <3> QED
      BY <1>1, <1>2, <2>1, <3>1, PhotoStep
  <2>2. CASE r \notin records
    BY <1>1, <2>2, NewRecords
  <2> QED
    BY <2>1, <2>2
<1>6. PhotosHaveTheirRecord'
  <2> SUFFICES ASSUME NEW x \in photos'
               PROVE  \/ \E r \in records' : r.photos = x
                      \/ attempt'[x].pc \in {"stored", "lost"}
                      \/ attempt'[x].answer = "busy"
    BY DEF PhotosHaveTheirRecord
  <2>1. x \in Attempts
    BY <1>1, PhotoStep
  <2>2. CASE x # a
    <3>1. attempt'[x] = attempt[x] /\ x \in photos /\ records \subseteq records'
      BY <1>1, <2>1, <2>2, PhotoStep, NewRecords
    <3> QED
      BY <3>1 DEF PInv, PhotosFollowRecords, PhotosHaveTheirRecord
  <2>3. CASE x = a
    BY <1>1, <2>3, PhotoStep
  <2> QED
    BY <2>2, <2>3
<1> QED
  BY <1>3, <1>4, <1>5, <1>6 DEF PInv, PhotosFollowRecords

\* No step parts a record from its photos.
THEOREM NextPInv == TypeOK /\ PInv /\ [Next]_vars => PInv'
<1>1. TypeOK /\ PInv /\ [Next]_vars /\ (\E a \in Attempts : Handle(a)) => PInv'
  BY HandlerKeepsPhotos
<1>2. TypeOK /\ PInv /\ [Next]_vars /\ ~(\E a \in Attempts : Handle(a)) => PInv'
  BY ClientsFileNothing, ClientsKeepPhotos
<1> QED
  BY <1>1, <1>2

\* Whatever other requests for the same key store, lose and clean up, the photos a
\* record names stay on disk, and none stays for nothing but a crash or a failed COMMIT.
THEOREM PhotosStand == Spec => []PhotosFollowRecords
<1>1. PInv => PhotosFollowRecords
  BY DEF PInv
<1> QED
  BY <1>1, DeliveryTypes, InitPInv, NextPInv, PTL DEF Spec

-----------------------------------------------------------------------------
(* Revocation *)

\* A request that was under way when the phone was revoked, the password changed or
\* the season turned files nothing from that moment on.
THEOREM Revocation == Spec => RevocationIsImmediate
<1> DEFINE Entitled ==
      \A r \in records' \ records :
          /\ access[r.phone]
          /\ phase = "growing" /\ r.season = season
          /\ Enforced => \E a \in Attempts :
                /\ attempt[a].key = r.key /\ attempt[a].version = version
                /\ attempt[a].pc # "answered" /\ attempt'[a].answer = "ok"
<1>1. ASSUME TypeOK, NEW a \in Attempts, Handle(a) PROVE Entitled
  <2>1. CASE Insert(a)
    <3>1. /\ attempt[a].pc # "answered" /\ attempt'[a].answer = "ok"
          /\ access[attempt[a].phone] /\ (Enforced => version = attempt[a].version)
          /\ phase = "growing" /\ season = attempt[a].season
      BY <1>1, <2>1 DEF Insert, ReadyToCommit, StillEntitled, StillTheSeason, Answer, TypeOK, Attempt
    <3>2. \A r \in records' \ records :
            r.key = attempt[a].key /\ r.phone = attempt[a].phone /\ r.season = attempt[a].season
      BY <2>1 DEF Insert
    <3> QED
      BY <3>1, <3>2
  <2>2. CASE ~Insert(a)
    BY <1>1, <2>2 DEF Handle, Resolve, Refuse, StorePhotos, LoseRace, Withdraw, CommitFails, Lose,
       serverVars
  <2> QED
    BY <2>1, <2>2
<1>2. TypeOK /\ [Next]_vars => [Entitled]_vars
  <2> SUFFICES ASSUME TypeOK, [Next]_vars PROVE Entitled
    OBVIOUS
  <2>1. CASE \E a \in Attempts : Handle(a)
    BY <1>1, <2>1
  <2>2. CASE ~\E a \in Attempts : Handle(a)
    BY <2>2, ClientsFileNothing DEF Elsewhere
  <2> QED
    BY <2>1, <2>2
<1>3. [][Entitled]_vars => RevocationIsImmediate
  BY PTL DEF RevocationIsImmediate
<1> QED
  BY <1>2, <1>3, DeliveryTypes, PTL DEF Spec

-----------------------------------------------------------------------------
(* The at-most-once log *)

\* Seasons are counted from one, and a form that nobody opened captured nothing.
Fresh == /\ season # 0
         /\ \A f \in Forms : form[f].pc = "unopened" => captured[f] = 0

\* The log's view of the records.
growingNow == IF phase = "growing" THEN season ELSE 0
filed == [k \in Keys |-> IF SameKey(k) = {} THEN 0 ELSE 1]

\* Of records filed at most once each key has none or one.
LEMMA OneRecordEach ==
  ASSUME NEW R, \A r, q \in R : r.key = q.key => r = q
  PROVE  \A k : Cardinality({r \in R : r.key = k}) = IF {r \in R : r.key = k} = {} THEN 0 ELSE 1
<1>1. ASSUME NEW k, {r \in R : r.key = k} # {} PROVE Cardinality({r \in R : r.key = k}) = 1
  <2>1. PICK r \in R : r.key = k
    BY <1>1
  <2>2. {q \in R : q.key = k} = {r}
    BY <2>1
  <2> QED
    BY <2>2, FS_Singleton
<1>2. Cardinality({}) = 0
  BY FS_EmptySet
<1> QED
  BY <1>1, <1>2

\* The log's count of the records, before and after a step.
LEMMA Counts ==
  ASSUME IInv, IInv'
  PROVE  /\ [k \in Keys |-> Cardinality(SameKey(k))] = filed
         /\ [k \in Keys |-> Cardinality(SameKey(k))]' = filed'
<1>1. \A r, q \in records : r.key = q.key => r = q
  BY DEF IInv, FiledOnceInItsSeason, SameKey
<1>2. \A r, q \in records' : r.key = q.key => r = q
  BY DEF IInv, FiledOnceInItsSeason, SameKey
<1>3. \A k : Cardinality(SameKey(k)) = IF SameKey(k) = {} THEN 0 ELSE 1
  BY <1>1, OneRecordEach DEF SameKey
<1>4. \A k : Cardinality({r \in records' : r.key = k})
               = IF {r \in records' : r.key = k} = {} THEN 0 ELSE 1
  BY <1>2, OneRecordEach
<1> QED
  BY <1>3, <1>4 DEF filed, SameKey

\* Before anything happens nothing is captured by an unopened form.
LEMMA InitFresh == Init => Fresh
  BY FormsAreKeys DEF Init, Fresh, Unopened

\* A form that is opened captures the season that grows, and never unopens.
LEMMA NextFresh == ASSUME TypeOK, Fresh, [Next]_vars PROVE Fresh'
<1>0. season \in Nat /\ form \in [Forms -> Form] /\ captured \in [Keys -> Seasons] /\ Forms \subseteq Keys
  BY BoundsAssumption DEF TypeOK, Seasons, Keys
<1>1. season' # 0
  <2>1. season' = season \/ season' = season + 1
    <3>1. CASE \E a \in Attempts : Handle(a)
      BY <3>1 DEF Handle, Resolve, Refuse, StorePhotos, Insert, LoseRace, Withdraw, CommitFails, Lose,
         ServerOnly, plotVars
    <3>2. CASE \E f \in Forms : FormStep(f)
      BY <3>2 DEF FormStep, OpenForm, Submit, HearForm, SettleForm, RenewToken, AbandonForm,
         LateReceipt, FormOnly, plotVars
    <3>3. CASE \E b \in Tabs : \/ \E ph \in Phones : Reauthenticate(b, ph)
                               \/ ListPending(b)
                               \/ BatchStep(b)
                               \/ CloseTab(b)
      BY <3>3 DEF Reauthenticate, ListPending, BatchStep, SendDraft, Hear, Classify, EndBatch, CloseTab,
         TabOnly, ClientOnly, plotVars
    <3>4. CASE (\E d \in Drafts : Retry(d) \/ Delete(d)) \/ ClearAll
      BY <3>4 DEF Retry, Delete, ClearAll, QueueOnly, TabOnly, ClientOnly, plotVars
    <3>5. CASE BackOffice \/ (\E k \in Keys : GoStale(k)) \/ UNCHANGED vars
      BY <3>5 DEF BackOffice, OpenSeason, CloseSeason, Reactivate, ReplacePhones, ChangePassword,
         GoStale, plotVars, vars
    <3> QED
      BY <3>1, <3>2, <3>3, <3>4, <3>5 DEF Next
  <2> QED
    BY <1>0, <2>1 DEF Fresh
<1>2. ASSUME NEW f \in Forms, form'[f].pc = "unopened" PROVE captured'[f] = 0
  <2>1. CASE \E x \in Forms : FormStep(x)
    <3>1. PICK x \in Forms : FormStep(x)
      BY <2>1
    <3>2. \E g : form' = [form EXCEPT ![x] = g] /\ g.pc # "unopened"
      <4>1. CASE \E ph \in Phones : OpenForm(x, ph)
        <5>1. PICK ph \in Phones : OpenForm(x, ph)
          BY <4>1
        <5> DEFINE g == [Unopened EXCEPT !.pc = "open", !.phone = ph,
                                         !.version = version, !.season = season]
        <5>2. form' = [form EXCEPT ![x] = g]
          BY <5>1 DEF OpenForm
        <5>3. g.pc = "open"
          BY DEF Unopened
        <5> QED
          BY <5>2, <5>3
      <4>2. CASE Submit(x) \/ HearForm(x) \/ RenewToken(x) \/ AbandonForm(x)
        <5>1. form' = [form EXCEPT ![x] = form'[x]] /\ form'[x].pc # "unopened"
          BY <1>0, <4>2 DEF Submit, HearForm, RenewToken, AbandonForm, Form
        <5> QED
          BY <5>1
      <4>3. CASE SettleForm(x)
        <5> DEFINE pc == CASE form[x].outcome = "ok" -> "saved"
                           [] form[x].outcome = "not_found" -> "gone"
                           [] OTHER -> "open"
        <5>1. form' = [form EXCEPT ![x].outcome = "none", ![x].pc = pc]
          BY <4>3 DEF SettleForm
        <5>2. pc \in {"saved", "gone", "open"}
          OBVIOUS
        <5> HIDE DEF pc
        <5>3. form' = [form EXCEPT ![x] = form'[x]] /\ form'[x].pc # "unopened"
          BY <1>0, <5>1, <5>2 DEF Form
        <5> QED
          BY <5>3
      <4>4. CASE LateReceipt(x)
        <5>1. form' = [form EXCEPT ![x] = form'[x]] /\ form'[x].pc # "unopened"
          BY <1>0, <4>4 DEF LateReceipt, Form
        <5> QED
          BY <5>1
      <4> QED
        BY <3>1, <4>1, <4>2, <4>3, <4>4 DEF FormStep
    <3>3. f # x /\ form'[f] = form[f]
      BY <1>0, <1>2, <3>2
    <3>4. captured'[f] = captured[f]
      BY <1>0, <3>1, <3>3 DEF FormStep, OpenForm, Submit, HearForm, SettleForm, RenewToken, AbandonForm,
         LateReceipt
    <3> QED
      BY <1>2, <3>3, <3>4 DEF Fresh
  <2>2. CASE ~\E x \in Forms : FormStep(x)
    <3>1. UNCHANGED <<form, captured>>
      <4>1. CASE \E a \in Attempts : Handle(a)
        BY <4>1 DEF Handle, Resolve, Refuse, StorePhotos, Insert, LoseRace, Withdraw, CommitFails,
           Lose, ServerOnly
      <4>2. CASE \E b \in Tabs : \/ \E ph \in Phones : Reauthenticate(b, ph)
                                 \/ ListPending(b)
                                 \/ BatchStep(b)
                                 \/ CloseTab(b)
        BY <4>2 DEF Reauthenticate, ListPending, BatchStep, SendDraft, Hear, Classify, EndBatch,
           CloseTab, TabOnly, ClientOnly
      <4>3. CASE (\E d \in Drafts : Retry(d) \/ Delete(d)) \/ ClearAll
        BY <4>3 DEF Retry, Delete, ClearAll, QueueOnly, TabOnly, ClientOnly
      <4>4. CASE BackOffice \/ (\E k \in Keys : GoStale(k)) \/ UNCHANGED vars
        BY <4>4 DEF BackOffice, OpenSeason, CloseSeason, Reactivate, ReplacePhones, ChangePassword,
           PlotOnly, GoStale, vars
      <4> QED
        BY <2>2, <4>1, <4>2, <4>3, <4>4 DEF Next
    <3> QED
      BY <1>2, <3>1 DEF Fresh
  <2> QED
    BY <2>1, <2>2
<1> QED
  BY <1>1, <1>2 DEF Fresh

\* The log at first.
LEMMA InitLog == Init => Log!Init
<1> SUFFICES ASSUME Init PROVE Log!Init
  OBVIOUS
<1>1. FiledOnceInItsSeason /\ \A k : SameKey(k) = {}
  BY DEF Init, FiledOnceInItsSeason, SameKey
<1>2. [k \in Keys |-> Cardinality(SameKey(k))] = [k \in Keys |-> 0]
  BY <1>1, FS_EmptySet
<1> QED
  BY <1>2 DEF Init, Log!Init

\* The handler of a request files its key in the log, or does nothing there.
LEMMA FileSteps ==
  ASSUME IInv, IInv', Fresh, NEW a \in Attempts, Handle(a)
  PROVE  (\E k \in Keys : Log!File(k)) \/ UNCHANGED Log!log
<1>1. UNCHANGED <<phase, season, captured, confirmed>>
  BY Advances DEF Advance, ServerOnly, plotVars
<1>2. CASE Insert(a)
  <2>1. PICK k : k = attempt[a].key
    OBVIOUS
  <2>2. /\ SameKey(k) = {} /\ phase = "growing" /\ season = captured[k] /\ k \in Keys
    BY <1>2, <2>1 DEF Insert, IndexAdmits, StillTheSeason, ReadyToCommit, IInv, Posted
  <2>3. PICK r : records' = records \cup {r} /\ r.key = k
    <3> DEFINE r == [key |-> attempt[a].key, phone |-> attempt[a].phone,
                     season |-> attempt[a].season, photos |-> IF a \in photos THEN a ELSE None]
    <3>1. records' = records \cup {r} /\ r.key = k
      BY <1>2, <2>1 DEF Insert
    <3> HIDE DEF r
    <3> QED
      BY <3>1
  <2>4. SameKey(k)' # {} /\ \A x \in Keys \ {k} : SameKey(x)' = SameKey(x)
    BY <2>3 DEF SameKey
  <2>5. filed[k] = 0 /\ filed' = [filed EXCEPT ![k] = 1]
    BY <2>2, <2>4 DEF filed
  <2>6. Log!File(k)
    BY <1>1, <2>2, <2>5, Counts DEF Log!File, Fresh
  <2> QED
    BY <2>2, <2>6
<1>3. CASE ~Insert(a)
  <2>1. UNCHANGED records
    BY <1>3 DEF Handle, Resolve, Refuse, StorePhotos, LoseRace, Withdraw, CommitFails, Lose, serverVars
  <2>2. \A x \in Keys : SameKey(x)' = SameKey(x)
    BY <2>1 DEF SameKey
  <2> QED
    BY <1>1, <2>2 DEF Log!log
<1> QED
  BY <1>2, <1>3

\* A confirmation is one of the log when its key is filed.
LEMMA ConfirmSteps ==
  ASSUME IInv, IInv', NEW k \in Keys, SameKey(k) # {},
         UNCHANGED <<phase, season, captured, records>>,
         confirmed' = confirmed \cup {k}
  PROVE  Log!Confirm(k)
<1>1. [x \in Keys |-> Cardinality(SameKey(x))] = filed /\ filed[k] = 1
  BY Counts DEF filed
<1>2. \A x \in Keys : SameKey(x)' = SameKey(x)
  BY DEF SameKey
<1> QED
  BY <1>1, <1>2 DEF Log!Confirm

\* A step that touches neither records, captures nor confirmations is a turn of the log.
LEMMA TurnSteps ==
  ASSUME TypeOK', UNCHANGED <<captured, records, confirmed>>
  PROVE  Log!Turn
<1>1. \A x \in Keys : SameKey(x)' = SameKey(x)
  BY DEF SameKey
<1>2. growingNow' \in Seasons
  BY BoundsAssumption DEF growingNow, TypeOK, Seasons
<1> QED
  BY <1>1, <1>2 DEF Log!Turn, Log!Seasons, growingNow, Seasons

\* A tab confirms what its receipt says is filed, or does nothing in the log.
LEMMA TabLog ==
  ASSUME IInv, IInv', NEW b \in Tabs, \/ \E ph \in Phones : Reauthenticate(b, ph)
                                    \/ ListPending(b)
                                    \/ BatchStep(b)
                                    \/ CloseTab(b)
  PROVE  (\E k \in Keys : Log!Confirm(k)) \/ Log!Turn
<1>1. UNCHANGED <<phase, season, captured, records>>
  BY DEF Reauthenticate, ListPending, BatchStep, SendDraft, Hear, Classify, EndBatch, CloseTab,
     TabOnly, ClientOnly, plotVars
<1>2. CASE Classify(b) /\ tab[b].outcome = "ok"
  <2>1. PICK k : k = tab[b].key
    OBVIOUS
  <2>2. k \in Keys /\ SameKey(k) # {} /\ confirmed' = confirmed \cup {k}
    BY <1>2, <2>1, TabType, DraftsAreKeys DEF Classify, TabWired
  <2> QED
    BY <1>1, <2>2, ConfirmSteps
<1>3. CASE ~(Classify(b) /\ tab[b].outcome = "ok")
  <2>1. UNCHANGED confirmed
    BY <1>3 DEF Reauthenticate, ListPending, BatchStep, SendDraft, Hear, Classify, EndBatch, CloseTab
  <2> QED
    BY <1>1, <2>1, TurnSteps DEF IInv
<1> QED
  BY <1>2, <1>3

\* A form captures its season when it opens, confirms what is filed, or does nothing there.
LEMMA FormLog ==
  ASSUME IInv, IInv', Fresh, NEW f \in Forms, FormStep(f)
  PROVE  (\E k \in Keys : Log!Capture(k) \/ Log!Confirm(k)) \/ Log!Turn
<1>1. UNCHANGED <<phase, season, records>> /\ f \in Keys
  BY FormsAreKeys DEF FormStep, OpenForm, Submit, HearForm, SettleForm, RenewToken, AbandonForm,
     LateReceipt, FormOnly, plotVars
<1>2. CASE \E ph \in Phones : OpenForm(f, ph)
  <2>1. /\ phase = "growing" /\ season # 0 /\ captured[f] = 0
        /\ captured' = [captured EXCEPT ![f] = season] /\ UNCHANGED confirmed
    BY <1>2 DEF OpenForm, Selects, Fresh
  <2>2. \A x \in Keys : SameKey(x)' = SameKey(x)
    BY <1>1 DEF SameKey
  <2>3. Log!Capture(f)
    BY <1>1, <2>1, <2>2 DEF Log!Capture
  <2> QED
    BY <1>1, <2>3
<1>3. CASE (SettleForm(f) /\ form[f].outcome = "ok") \/ LateReceipt(f)
  <2>1. SameKey(f) # {} /\ confirmed' = confirmed \cup {f} /\ UNCHANGED captured
    BY <1>3, FormType DEF SettleForm, LateReceipt, FormWired, IsFor, IInv, Receipts
  <2> QED
    BY <1>1, <2>1, ConfirmSteps
<1>4. CASE ~\/ \E ph \in Phones : OpenForm(f, ph)
            \/ (SettleForm(f) /\ form[f].outcome = "ok")
            \/ LateReceipt(f)
  <2>1. UNCHANGED <<captured, confirmed>>
    BY <1>4 DEF FormStep, Submit, HearForm, SettleForm, RenewToken, AbandonForm
  <2> QED
    BY <1>1, <2>1, TurnSteps DEF IInv
<1> QED
  BY <1>2, <1>3, <1>4

\* Every step is one of the log, or nothing to it.
LEMMA NextLog == ASSUME IInv, IInv', Fresh, [Next]_vars PROVE [Log!Next]_Log!log
<1>1. ASSUME NEW a \in Attempts, Handle(a) PROVE [Log!Next]_Log!log
  BY <1>1, FileSteps DEF Log!Next
<1>2. ASSUME NEW b \in Tabs, \/ \E ph \in Phones : Reauthenticate(b, ph)
                             \/ ListPending(b)
                             \/ BatchStep(b)
                             \/ CloseTab(b)
      PROVE  [Log!Next]_Log!log
  BY <1>2, TabLog DEF Log!Next
<1>3. ASSUME NEW f \in Forms, FormStep(f) PROVE [Log!Next]_Log!log
  BY <1>3, FormLog DEF Log!Next
<1>4. CASE BackOffice \/ (\E k \in Keys : GoStale(k)) \/ UNCHANGED vars
  <2>1. UNCHANGED <<captured, records, confirmed>>
    BY <1>4 DEF BackOffice, OpenSeason, CloseSeason, Reactivate, ReplacePhones, ChangePassword,
       PlotOnly, GoStale, vars
  <2> QED
    BY <2>1, TurnSteps DEF IInv, Log!Next
<1>5. CASE (\E d \in Drafts : Retry(d) \/ Delete(d)) \/ ClearAll
  <2>1. UNCHANGED <<captured, records, confirmed>>
    BY <1>5 DEF Retry, Delete, ClearAll, QueueOnly, TabOnly, ClientOnly
  <2> QED
    BY <2>1, TurnSteps DEF IInv, Log!Next
<1> QED
  BY <1>1, <1>2, <1>3, <1>4, <1>5 DEF Next

\* The endpoints, the queue and the form together are an at-most-once log of captured
\* inspections: each is filed once, in the season it was captured in and while that
\* season grows, and nobody is told it is saved before.
THEOREM DeliveryIsALog == Spec => ImplementsLog
<1>1. TypeOK /\ Fresh /\ [Next]_vars => Fresh'
  BY NextFresh
<1>2. IInv /\ IInv' /\ Fresh /\ [Next]_vars => [Log!Next]_Log!log
  BY NextLog
<1> QED
  BY <1>1, <1>2, InitLog, InitFresh, Invariance, DeliveryTypes, PTL
     DEF Spec, ImplementsLog, Log!Spec

=============================================================================
