------------------------- MODULE InspectionDelivery -------------------------
(***************************************************************************)
(* How an inspection made in the field gets from a phone's browser into    *)
(* the records of one plot: the online form, the queue of drafts left on   *)
(* the device (IndexedDB) that the user sends in batches, possibly from    *)
(* two tabs, a network that loses requests and answers, and the public     *)
(* endpoints, which take each submission key at most once.                 *)
(*                                                                         *)
(* The plot is seen here as the ledger PlotLifecycle implements: a phase   *)
(* and a season.  A submission's final transaction is one step: it holds   *)
(* the plot's row lock from its re-checks to COMMIT (PlotLifecycle,        *)
(* LockedReadsStayTrue).                                                   *)
(*                                                                         *)
(* Abstracted: the inspection's content, the inspector type (the same on   *)
(* every attempt of a key), photo processing, rate limits and server       *)
(* errors (one answer, "busy"), clocks (a key may turn stale at any time). *)
(***************************************************************************)
EXTENDS Naturals, FiniteSets

CONSTANTS
    Drafts,         \* keys of drafts left in the queue, in capturedAt order
    Forms,          \* keys of submissions made in the online form
    Tabs,           \* browser tabs with the queue panel open on one device
    Phones,         \* access phones configured on the plot
    Attempts,       \* POST requests, each with its server-side handler
    Photographed,   \* keys whose inspection carries photos
    MaxSeasons,     \* bound on planting cycles
    MaxVersions,    \* bound on password changes
    Enforced,       \* PUBLIC_PLOT_PASSWORD_ENFORCEMENT
    None            \* no key, phone or attempt

VARIABLES
    phase,          \* the plot: "fallow", "growing" or "retired"
    season,         \* the plot's latest planting cycle
    access,         \* plot_access_phones.is_active, by phone
    version,        \* plot_access_credentials.credential_version
    stale,          \* keys captured more than seven days ago
    draft,          \* status of each queued draft, "absent" once deleted
    captured,       \* capturedPlotCycleId of each key, 0 before capture
    tab,            \* each tab's batch
    form,           \* each online form
    attempt,        \* each POST and its handler
    records,        \* records rows of the plot
    photos,         \* attempts whose photos are on disk
    confirmed       \* keys some client was told are saved

vars == <<phase, season, access, version, stale, draft, captured, tab, form,
          attempt, records, photos, confirmed>>
plotVars == <<phase, season, access, version>>
serverVars == <<records, photos>>

Keys == Drafts \cup Forms
Seasons == 0 .. MaxSeasons
Versions == 1 .. MaxVersions

ASSUME KeysAssumption == Drafts \subseteq Nat /\ Drafts \cap Forms = {} /\ Photographed \subseteq Keys
ASSUME BoundsAssumption == MaxSeasons \in Nat \ {0} /\ MaxVersions \in Nat \ {0}
ASSUME NoneAssumption == None \notin Keys \cup Phones \cup Attempts
ASSUME EnforcedAssumption == Enforced \in BOOLEAN

Blocked == {"blocked_access", "blocked_cycle_changed", "blocked_conflict", "blocked_expired"}
DraftStatus == {"pending", "absent"} \cup Blocked

\* What a call can come back with: a receipt, a refusal by its code, or nothing.
Answers == {"ok", "not_found", "no_active_cycle", "planting_cycle_changed",
            "idempotency_conflict", "offline_draft_expired", "unauthorized", "busy", "network"}

\* A batch: the phone it authenticated with, what is left to send, the draft in
\* hand, its POST, and the outcome to be classified.
Batch == [pc : {"idle", "authorized", "sending", "waiting", "classify"},
          phone : Phones \cup {None}, todo : SUBSET Drafts, key : Drafts \cup {None},
          post : Attempts \cup {None}, outcome : Answers \cup {"none"}]
NoBatch == [pc |-> "idle", phone |-> None, todo |-> {}, key |-> None, post |-> None,
            outcome |-> "none"]

\* An open form holds a phone session (phone, password version) and an inspection
\* token (season); gone is a form reset or abandoned.
Form == [pc : {"unopened", "open", "waiting", "answered", "saved", "gone"},
         phone : Phones \cup {None}, version : Versions, season : Seasons,
         post : Attempts \cup {None}, outcome : Answers \cup {"none"}]
Unopened == [pc |-> "unopened", phone |-> None, version |-> 1, season |-> 0,
             post |-> None, outcome |-> "none"]

Attempt == [pc : {"unused", "sent", "resolved", "stored", "answered", "lost"},
            key : Keys \cup {None}, phone : Phones \cup {None}, version : Versions,
            season : Seasons, answer : Answers \cup {"none"}]
Unused == [pc |-> "unused", key |-> None, phone |-> None, version |-> 1, season |-> 0,
           answer |-> "none"]

Row == [key : Keys, phone : Phones, season : Seasons, photos : Attempts \cup {None}]

TypeOK == /\ phase \in {"fallow", "growing", "retired"}
          /\ season \in Seasons
          /\ access \in [Phones -> BOOLEAN]
          /\ version \in Versions
          /\ stale \subseteq Keys
          /\ draft \in [Drafts -> DraftStatus]
          /\ captured \in [Keys -> Seasons]
          /\ tab \in [Tabs -> Batch]
          /\ form \in [Forms -> Form]
          /\ attempt \in [Attempts -> Attempt]
          /\ records \subseteq Row
          /\ photos \subseteq Attempts
          /\ confirmed \subseteq Keys

\* The page no longer queues new drafts: those it finds were captured in the
\* season that grows now.
Init == /\ phase = "growing"
        /\ season = 1
        /\ access = [ph \in Phones |-> TRUE]
        /\ version = 1
        /\ stale = {}
        /\ draft = [d \in Drafts |-> "pending"]
        /\ captured = [k \in Keys |-> IF k \in Drafts THEN 1 ELSE 0]
        /\ tab = [b \in Tabs |-> NoBatch]
        /\ form = [f \in Forms |-> Unopened]
        /\ attempt = [a \in Attempts |-> Unused]
        /\ records = {}
        /\ photos = {}
        /\ confirmed = {}

-----------------------------------------------------------------------------
(* The back office, and time *)

PlotOnly == UNCHANGED <<stale, draft, captured, tab, form, attempt, records, photos, confirmed>>

\* start / reactivate-with-cycle on a plot with no cycle, or a rollover.
OpenSeason == /\ season < MaxSeasons
              /\ phase' = "growing"
              /\ season' = season + 1
              /\ UNCHANGED <<access, version>>
              /\ PlotOnly

\* close, final_plot import, cancel, deactivate.
CloseSeason == /\ phase = "growing"
               /\ phase' \in {"fallow", "retired"}
               /\ UNCHANGED <<season, access, version>>
               /\ PlotOnly

Reactivate == /\ phase = "retired"
              /\ phase' = "fallow"
              /\ UNCHANGED <<season, access, version>>
              /\ PlotOnly

\* replace_plot_access_phones: rows are switched off and on again, never deleted.
ReplacePhones == /\ access' \in [Phones -> BOOLEAN]
                 /\ access' # access
                 /\ UNCHANGED <<phase, season, version>>
                 /\ PlotOnly

\* set_or_replace_plot_credential: same row, next version.
ChangePassword == /\ version < MaxVersions
                  /\ version' = version + 1
                  /\ UNCHANGED <<phase, season, access>>
                  /\ PlotOnly

GoStale(k) == /\ captured[k] # 0
              /\ stale' = stale \cup {k}
              /\ UNCHANGED <<draft, captured, tab, form, attempt, records, photos, confirmed>>
              /\ UNCHANGED plotVars

-----------------------------------------------------------------------------
(* POST /public/records and /public/records/with-photos *)

SameKey(k) == {r \in records : r.key = k}
Move(a, pc) == attempt' = [attempt EXCEPT ![a].pc = pc]
Answer(a, code) == attempt' = [attempt EXCEPT ![a].pc = "answered", ![a].answer = code]
ServerOnly == UNCHANGED <<stale, draft, captured, tab, form, confirmed>> /\ UNCHANGED plotVars

\* _matches_replay_identity: the plot and the inspector type agree by construction.
SameIdentity(r, a) == r.phone = attempt[a].phone

\* The answer to a key that is already filed.
Replay(a) == IF \A r \in SameKey(attempt[a].key) : SameIdentity(r, a)
             THEN "ok" ELSE "idempotency_conflict"

\* Mutant: step 6, the captured cycle against the active one, missing.
Unreplayed_AnyCapture(a) == IF phase # "growing" \/ season # attempt[a].season
                            THEN "not_found" ELSE "go"

\* The checks on a key not filed yet, before any photo is stored.
Unreplayed(a) ==
    IF attempt[a].key \in stale THEN "offline_draft_expired"
    ELSE IF phase # "growing" \/ season # attempt[a].season THEN "not_found"
    ELSE IF captured[attempt[a].key] # season THEN "planting_cycle_changed" ELSE "go"

\* _resolve_or_replay, reading without a lock.
Verdict(a) == IF phase = "retired" \/ ~access[attempt[a].phone] THEN "not_found"
              ELSE IF SameKey(attempt[a].key) # {} THEN Replay(a) ELSE Unreplayed(a)

Resolve(a) == /\ attempt[a].pc = "sent"
              /\ IF Verdict(a) = "go" THEN Move(a, "resolved") ELSE Answer(a, Verdict(a))
              /\ UNCHANGED serverVars
              /\ ServerOnly

\* The token has expired (401), or the rate limiter or an exception answers.
Refuse(a, code) == /\ attempt[a].pc = "sent"
                   /\ code \in {"unauthorized", "busy"}
                   /\ Answer(a, code)
                   /\ UNCHANGED serverVars
                   /\ ServerOnly

\* validate_and_save_photos: all of them under fresh names, or a refusal and none.
StorePhotos(a) == /\ attempt[a].pc = "resolved"
                  /\ attempt[a].key \in Photographed
                  /\ \/ photos' = photos \cup {a} /\ Move(a, "stored")
                     \/ Answer(a, "busy") /\ UNCHANGED photos
                  /\ UNCHANGED records
                  /\ ServerOnly

ReadyToCommit(a) == \/ attempt[a].pc = "stored"
                    \/ attempt[a].pc = "resolved" /\ attempt[a].key \notin Photographed

\* Mutant: the access row is locked but not looked at again.
StillEntitled_AnyPhone(a) == Enforced => version = attempt[a].version

\* Mutant: _recheck_plot_credential missing.
StillEntitled_AnyPassword(a) == access[attempt[a].phone]

\* The access row and the password, looked at again under the plot lock.
StillEntitled(a) == /\ access[attempt[a].phone]
                    /\ Enforced => version = attempt[a].version

\* Mutant: some active cycle is enough.
StillTheSeason_AnyCycle(a) == phase = "growing"

\* get_active_cycle_for_plot_for_update, against the cycle the request resolved.
StillTheSeason(a) == phase = "growing" /\ season = attempt[a].season

\* Mutant: the endpoint cleans up what this key, not this request, has stored.
Cleanup_ByKey(a) == photos' = {x \in photos : attempt[x].key # attempt[a].key}

\* Mutant: a lost race returns the winner's receipt and forgets its own photos.
Cleanup_Nothing(a) == UNCHANGED photos

\* cleanup_photos of the urls this request saved.
Cleanup(a) == photos' = photos \ {a}

\* Mutant: no unique index, the earlier lookup is trusted.
IndexAdmits_Always(k) == TRUE

\* uq_records_client_submission_id
IndexAdmits(k) == SameKey(k) = {}

\* _finish_creating_record: re-checked, inserted and committed.
Insert(a) == /\ ReadyToCommit(a)
             /\ StillTheSeason(a)
             /\ StillEntitled(a)
             /\ IndexAdmits(attempt[a].key)
             /\ records' = records \cup {[key |-> attempt[a].key, phone |-> attempt[a].phone,
                                          season |-> attempt[a].season,
                                          photos |-> IF a \in photos THEN a ELSE None]}
             /\ Answer(a, "ok")
             /\ UNCHANGED photos
             /\ ServerOnly

\* The unique index on client_submission_id: the winner's receipt, or a conflict.
LoseRace(a) == /\ ReadyToCommit(a)
               /\ StillTheSeason(a)
               /\ StillEntitled(a)
               /\ ~IndexAdmits(attempt[a].key)
               /\ Answer(a, Replay(a))
               /\ Cleanup(a)
               /\ UNCHANGED records
               /\ ServerOnly

\* A re-check fails (404) or the database raises (500) before COMMIT.
Withdraw(a) == /\ ReadyToCommit(a)
               /\ Answer(a, IF StillTheSeason(a) /\ StillEntitled(a) THEN "busy" ELSE "not_found")
               /\ Cleanup(a)
               /\ UNCHANGED records
               /\ ServerOnly

\* Mutant: the response is out before the COMMIT.
CommitFails_Answered(a) == /\ ReadyToCommit(a)
                           /\ StillTheSeason(a)
                           /\ StillEntitled(a)
                           /\ Answer(a, "ok")
                           /\ UNCHANGED serverVars
                           /\ ServerOnly

\* get_db commits after the endpoint has returned: a failing COMMIT is a 500 that
\* no cleanup follows.
CommitFails(a) == /\ ReadyToCommit(a)
                  /\ StillTheSeason(a)
                  /\ StillEntitled(a)
                  /\ Answer(a, "busy")
                  /\ UNCHANGED serverVars
                  /\ ServerOnly

\* The request never arrives, or its process dies.
Lose(a) == /\ attempt[a].pc \in {"sent", "resolved", "stored"}
           /\ Move(a, "lost")
           /\ UNCHANGED serverVars
           /\ ServerOnly

Handle(a) == \/ Resolve(a)
             \/ \E code \in Answers : Refuse(a, code)
             \/ StorePhotos(a)
             \/ Insert(a)
             \/ LoseRace(a)
             \/ Withdraw(a)
             \/ CommitFails(a)
             \/ Lose(a)

-----------------------------------------------------------------------------
(* POST /public/inspection-access/lookup and select-plot *)

\* The plot is listed for the phone.
Listed(ph) == phase # "retired" /\ access[ph]

\* The answer of select-plot to a session of phone ph and password version v (when
\* passwords are enforced a session with no plot left gets a 401 for its 404).
Selects(ph, v) == IF ~Listed(ph) \/ (Enforced /\ v # version) THEN "not_found"
                  ELSE IF phase # "growing" THEN "no_active_cycle" ELSE "ok"

\* A POST leaves with a token for the season that grows now.
Send(a, k, ph, v, n) == /\ attempt[a].pc = "unused"
                        /\ attempt' = [attempt EXCEPT ![a] =
                             [pc |-> "sent", key |-> k, phone |-> ph, version |-> v,
                              season |-> n, answer |-> "none"]]

-----------------------------------------------------------------------------
(* The queue panel and syncOfflineDrafts *)

ClientOnly == UNCHANGED <<stale, captured, records, photos>> /\ UNCHANGED plotVars
TabOnly == ClientOnly /\ UNCHANGED form

\* handleReauthSubmit: a phone-only lookup, which fails when passwords are enforced.
Reauthenticate(b, ph) ==
    /\ tab[b].pc = "idle"
    /\ ~Enforced
    /\ Listed(ph)
    /\ tab' = [tab EXCEPT ![b] = [NoBatch EXCEPT !.pc = "authorized", !.phone = ph]]
    /\ UNCHANGED <<draft, attempt, confirmed>>
    /\ TabOnly

\* syncOfflineDrafts lists the pending drafts once, at the start of the batch.
ListPending(b) == /\ tab[b].pc = "authorized"
                  /\ tab' = [tab EXCEPT ![b].pc = "sending",
                                        ![b].todo = {d \in Drafts : draft[d] = "pending"}]
                  /\ UNCHANGED <<draft, attempt, confirmed>>
                  /\ TabOnly

\* The oldest capturedAt first.
Oldest(b, d) == d \in tab[b].todo /\ \A x \in tab[b].todo : d <= x

\* sendOneDraft: select-plot, and on a token the POST.
SendDraft(b, d) ==
    LET ph == tab[b].phone IN
    /\ tab[b].pc = "sending"
    /\ Oldest(b, d)
    /\ \/ /\ Selects(ph, 1) = "ok"
          /\ \E a \in Attempts :
                /\ Send(a, d, ph, 1, season)
                /\ tab' = [tab EXCEPT ![b].pc = "waiting", ![b].key = d, ![b].post = a]
       \/ \E code \in {Selects(ph, 1), "unauthorized", "busy", "network"} \ {"ok"} :
             /\ tab' = [tab EXCEPT ![b].pc = "classify", ![b].key = d, ![b].outcome = code]
             /\ UNCHANGED attempt
    /\ UNCHANGED <<draft, confirmed>>
    /\ TabOnly

\* The answer arrives; or none within axios' timeout, whatever became of the POST.
Hear(b) == LET a == tab[b].post IN
           /\ tab[b].pc = "waiting"
           /\ \E code \in {attempt[a].answer, "network"} \ {"none"} :
                 tab' = [tab EXCEPT ![b].pc = "classify", ![b].post = None, ![b].outcome = code]
           /\ UNCHANGED <<draft, attempt, confirmed>>
           /\ TabOnly

\* Mutant: an unrecognised 409 counted as a conflict.
Mark_Conflict(code) ==
    CASE code = "not_found" -> "blocked_access"
      [] code = "planting_cycle_changed" -> "blocked_cycle_changed"
      [] code \in {"idempotency_conflict", "no_active_cycle"} -> "blocked_conflict"
      [] code = "offline_draft_expired" -> "blocked_expired"
      [] code = "ok" -> "absent"
      [] OTHER -> "none"

\* Mutant: an unrecognised 409 leaves its code as the status.
Mark_RawCode(code) == IF code = "no_active_cycle" THEN code ELSE Mark_Conflict(code)

\* The status classifyFailure writes, "none" where it writes nothing; a delivered
\* draft is deleted.
Mark(code) ==
    CASE code = "not_found" -> "blocked_access"
      [] code \in {"planting_cycle_changed", "no_active_cycle"} -> "blocked_cycle_changed"
      [] code = "idempotency_conflict" -> "blocked_conflict"
      [] code = "offline_draft_expired" -> "blocked_expired"
      [] code = "ok" -> "absent"
      [] code = "busy" -> "pending"      \* draft.status, as the batch listed it
      [] OTHER -> "none"

\* mutateExistingDraft: a draft that is gone is not brought back.
Write(d, status) == IF status = "none" \/ draft[d] = "absent" THEN UNCHANGED draft
                    ELSE draft' = [draft EXCEPT ![d] = status]

Stops(code) == code \in {"unauthorized", "busy", "network"}

\* Mutant: the same draft is tried again at once.
Remaining_All(b) == tab[b].todo
Remaining(b) == tab[b].todo \ {tab[b].key}

\* The draft is deleted or marked; the batch goes on with the next, or ends.
Classify(b) ==
    LET code == tab[b].outcome IN
    /\ tab[b].pc = "classify"
    /\ Write(tab[b].key, Mark(code))
    /\ tab' = [tab EXCEPT ![b] =
                 IF Stops(code) THEN NoBatch
                 ELSE [NoBatch EXCEPT !.pc = "sending", !.phone = tab[b].phone,
                                      !.todo = Remaining(b)]]
    /\ confirmed' = IF code = "ok" THEN confirmed \cup {tab[b].key} ELSE confirmed
    /\ UNCHANGED attempt
    /\ TabOnly

EndBatch(b) == /\ tab[b].pc = "sending"
               /\ tab[b].todo = {}
               /\ tab' = [tab EXCEPT ![b] = NoBatch]
               /\ UNCHANGED <<draft, attempt, confirmed>>
               /\ TabOnly

\* The tab is closed or reloaded.
CloseTab(b) == /\ tab[b].pc # "idle"
               /\ tab' = [tab EXCEPT ![b] = NoBatch]
               /\ UNCHANGED <<draft, attempt, confirmed>>
               /\ TabOnly

QueueOnly == UNCHANGED <<tab, attempt, confirmed>> /\ TabOnly

\* resetOfflineInspectionDraftForRetry
Retry(d) == /\ draft[d] = "blocked_access"
            /\ Write(d, "pending")
            /\ QueueOnly

\* The user deletes a draft, or purgeExpiredOfflineInspectionDrafts does.
Delete(d) == Write(d, "absent") /\ QueueOnly

ClearAll == /\ draft' = [d \in Drafts |-> "absent"]
            /\ QueueOnly

-----------------------------------------------------------------------------
(* The online form of PublicInspect *)

FormOnly == UNCHANGED <<stale, tab, records, photos>> /\ UNCHANGED plotVars

\* handlePlotClick: the form opens on the growing season, which its identity will
\* carry as capturedPlotCycleId for as long as the form lives.
OpenForm(f, ph) ==
    /\ form[f].pc = "unopened"
    /\ Selects(ph, version) = "ok"
    /\ form' = [form EXCEPT ![f] = [Unopened EXCEPT !.pc = "open", !.phone = ph,
                                                    !.version = version, !.season = season]]
    /\ captured' = [captured EXCEPT ![f] = season]
    /\ UNCHANGED <<draft, attempt, confirmed>>
    /\ FormOnly

\* handleSubmit: first or again, under the same identity.
Submit(f) == /\ form[f].pc = "open"
             /\ \E a \in Attempts :
                   /\ Send(a, f, form[f].phone, form[f].version, form[f].season)
                   /\ form' = [form EXCEPT ![f].pc = "waiting", ![f].post = a]
             /\ UNCHANGED <<draft, captured, confirmed>>
             /\ FormOnly

HearForm(f) == LET a == form[f].post IN
               /\ form[f].pc = "waiting"
               /\ \E code \in {attempt[a].answer, "network"} \ {"none"} :
                     form' = [form EXCEPT ![f].pc = "answered", ![f].post = None,
                                          ![f].outcome = code]
               /\ UNCHANGED <<draft, captured, attempt, confirmed>>
               /\ FormOnly

\* The success step, the reset on a 404, the form kept open on everything else.
SettleForm(f) ==
    LET code == form[f].outcome IN
    /\ form[f].pc = "answered"
    /\ code # "unauthorized"
    /\ form' = [form EXCEPT ![f].outcome = "none",
                            ![f].pc = CASE code = "ok" -> "saved"
                                        [] code = "not_found" -> "gone"
                                        [] OTHER -> "open"]
    /\ confirmed' = IF code = "ok" THEN confirmed \cup {f} ELSE confirmed
    /\ UNCHANGED <<draft, captured, attempt>>
    /\ FormOnly

\* handleInspectionTokenExpiredAtSubmit: a new token for whatever grows now, under
\* the old identity; or the session ends and the form with it.
RenewToken(f) ==
    /\ form[f].pc = "answered"
    /\ form[f].outcome = "unauthorized"
    /\ \/ /\ Selects(form[f].phone, form[f].version) = "ok"
          /\ form' = [form EXCEPT ![f].pc = "open", ![f].outcome = "none", ![f].season = season]
       \/ form' = [form EXCEPT ![f].pc = "gone", ![f].outcome = "none"]
    /\ UNCHANGED <<draft, captured, attempt, confirmed>>
    /\ FormOnly

\* The user leaves the form; a POST under way is not recalled.
AbandonForm(f) == /\ form[f].pc \in {"open", "waiting"}
                  /\ form' = [form EXCEPT ![f].pc = "gone"]
                  /\ UNCHANGED <<draft, captured, attempt, confirmed>>
                  /\ FormOnly

\* Its receipt may still bring up the success step, if the page is still there.
LateReceipt(f) == /\ form[f].pc = "gone"
                  /\ form[f].post # None
                  /\ attempt[form[f].post].answer = "ok"
                  /\ form' = [form EXCEPT ![f].post = None]
                  /\ confirmed' = confirmed \cup {f}
                  /\ UNCHANGED <<draft, captured, attempt>>
                  /\ FormOnly

-----------------------------------------------------------------------------
BackOffice == OpenSeason \/ CloseSeason \/ Reactivate \/ ReplacePhones \/ ChangePassword

BatchStep(b) == \/ \E d \in Drafts : SendDraft(b, d)
                \/ Hear(b)
                \/ Classify(b)
                \/ EndBatch(b)

FormStep(f) == \/ \E ph \in Phones : OpenForm(f, ph)
               \/ Submit(f)
               \/ HearForm(f)
               \/ SettleForm(f)
               \/ RenewToken(f)
               \/ AbandonForm(f)
               \/ LateReceipt(f)

Next == \/ BackOffice
        \/ \E k \in Keys : GoStale(k)
        \/ \E a \in Attempts : Handle(a)
        \/ \E b \in Tabs : \/ \E ph \in Phones : Reauthenticate(b, ph)
                           \/ ListPending(b)
                           \/ BatchStep(b)
                           \/ CloseTab(b)
        \/ \E d \in Drafts : Retry(d) \/ Delete(d)
        \/ ClearAll
        \/ \E f \in Forms : FormStep(f)

Spec == Init /\ [][Next]_vars

\* A started batch runs in the browser's event loop, and every call it makes ends
\* within axios' timeout.  Nothing is assumed of the server or the network.
Fairness == \A b \in Tabs : WF_vars(BatchStep(b))
FairSpec == Spec /\ Fairness

-----------------------------------------------------------------------------
(* Properties *)

\* However often a key is sent, from whichever tab or after whichever lost answer,
\* it is filed at most once, and in the planting cycle it was captured in.
FiledOnceInItsSeason ==
    \A r \in records : /\ r.season = captured[r.key]
                       /\ \A q \in SameKey(r.key) : q = r

\* A user who was told that an inspection is saved (and whose draft was deleted for
\* it) can count on it: the record is there.
ConfirmedMeansFiled == \A k \in confirmed : SameKey(k) # {}

\* A draft the panel calls a conflict is already filed; nothing unsent hides there.
ConflictMeansFiled == \A d \in Drafts : draft[d] = "blocked_conflict" => SameKey(d) # {}

\* The photos a record names are on disk, whatever other requests for the same key
\* stored and cleaned up.
RecordsKeepTheirPhotos ==
    \A r \in records : r.key \in Photographed => r.photos \in photos

\* Photos on disk belong to a record, to a request still at work or dead, or to one
\* whose database step failed: no request that was answered keeps photos for nothing.
PhotosHaveTheirRecord ==
    \A a \in photos : \/ \E r \in records : r.photos = a
                      \/ attempt[a].pc \in {"stored", "lost"}
                      \/ attempt[a].answer = "busy"

\* A request that was under way when the phone was revoked, the password changed or
\* the season turned files nothing from that moment on.
RevocationIsImmediate ==
    [][\A r \in records' \ records :
          /\ access[r.phone]
          /\ phase = "growing" /\ r.season = season
          /\ Enforced => \E a \in Attempts :
                /\ attempt[a].key = r.key /\ attempt[a].version = version
                /\ attempt[a].pc # "answered" /\ attempt'[a].answer = "ok"]_vars

\* A batch comes to an end with no help from the server: every call times out, and
\* no draft is tried twice.
InProgress(b) == tab[b].pc \in {"sending", "waiting", "classify"}
EveryBatchEnds == \A b \in Tabs : InProgress(b) ~> ~InProgress(b)

\* The endpoints, the queue and the form implement an at-most-once log of captured
\* inspections.
Log == INSTANCE InspectionLog WITH
    growing <- IF phase = "growing" THEN season ELSE 0,
    filings <- [k \in Keys |-> Cardinality(SameKey(k))]

ImplementsLog == Log!Spec

\* Photos and records stand and fall together, as far as the code can see to it.
PhotosFollowRecords == RecordsKeepTheirPhotos /\ PhotosHaveTheirRecord

=============================================================================
