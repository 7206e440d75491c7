# Field inspection: a verification project

The repository is a farm-inspection system: a FastAPI service over PostgreSQL
(`src/backend/app`), a React front end (`src/frontend/src`), and a public inspection page
that field inspectors open on a phone with nothing but a phone number. Administrators
register plots and run planting cycles on them; inspectors file inspection records
against the cycle that is growing; an Excel import does the administrators' work in bulk.

This directory holds TLA+ models of the parts whose correctness depends on the order in
which several actors act, the TLC runs that check them, and TLAPS proofs of the properties
that matter most, for every size of system. The reader is assumed to have the repository.

Contents: [the system](#the-system), [what is modelled where](#modules-and-code),
[the runs](#the-runs), [fairness](#fairness), [the proofs](#the-proofs),
[disagreements](#where-code-and-documentation-disagree),
[not modelled](#what-is-not-modelled), [what is left](#what-is-left).

---

## The system

### Components, their state and their operations

| Component | State | Operations |
|---|---|---|
| Plots and planting cycles (`api/v1/plots.py`, `repositories/plot_*`) | `plots.is_active`; `plot_cycles` rows with status, plan, final record, harvest set; on the plot row a *mirror* of the open cycle's plan and a *snapshot* of its newest inspection | create (with or without a cycle), start, update, close, cancel, rollover, deactivate, reactivate (with or without a cycle) |
| Inspection records (`api/v1/records.py`) | `records` rows, append-only but for `is_active` | create, retract, edit own fields |
| Request transactions (`db/session.py`) | one PostgreSQL transaction per request, READ COMMITTED | begin, lock, commit *before* the response, roll back |
| Plot import (`services/plot_import.py`) | a previewed file with a digest; nothing between requests | preview, commit: create rows, update rows, `final_plot` rows, credentials |
| Public submission (`api/v1/public_records.py`) | records keyed by `client_submission_id`; photo files | submit with or without photos, replay, clean up |
| Public access (`api/v1/public_inspection_access.py`) | access phones per plot, one versioned password per plot, stateless session tokens | lookup, select-plot, replace phones, set password |
| Lookup lockout (`core/public_access_lockout.py`) | counters in a rate-limit store | test, hit |
| Offline queue (`lib/offline-inspection-*.ts`, `OfflineInspectionQueuePanel.tsx`) | drafts in IndexedDB with a status | batch, classify, retry, delete, purge, clear |
| Inspection page (`PublicInspect.tsx`) | step, phone session, plot, token, form fields, submission identity | look up, choose a plot, submit, renew a token, go back, change phone |
| Import dialogs (`PlotImportModal.tsx` and two more) | file, preview, outcome | check, commit, dismiss, reopen |
| Lot numbers and plot codes (`services/lot_number.py`, `plot_code.py`) | unique columns | allocate MAX + 1 |
| Sessions, users, approval links (`api/v1/auth.py`, `users.py`, `user_approval.py`) | revoked `jti`s, `auth_version`, status, link token; cookie and tabs of a browser | log in, refresh, log out, approve, reject, deactivate, reset |
| Roles, overrides, assignments (`api/v1/roles.py`, `users.py`, `auth/permissions.py`) | five tables | save a role, its holders, an override, a plot's users; delete a role; resolve a scope |
| Menus (`api/v1/menus.py`, `me.py`) | a tree of rows | create, patch, delete; build a sidebar |
| Inspection protocols | labels per stage, and the snapshot a record keeps | edit (alone or in bulk), file, show |
| Suppliers and master data, with their imports | reference rows | edit, deactivate, preview, commit |
| Yield figures (`services/yield_calculation.py`, `lib/yield-planning.ts`) | none: pure functions on both sides | derive, compare, foretell |
| Dashboard (`repositories/dashboard_repository.py`) | none: queries | cards, lenses, breakdown, concerns, follow-up |
| Log tables (`core/scheduler.py`, a migration's function) | monthly partitions, retentions | create ahead, drop, report coverage |
| Data reset (`db/uat_data_reset.py`) | one transaction between a backup and two checks | snapshot, back up, wipe, seed, verify |
| Deployment (`deploy-uat.sh`) | images, containers, tags and schema of a host | rehearse, deploy, roll back |
| Field definitions, reports, notifications, integrations | configuration, read-only views, outside calls | see [below](#what-is-not-modelled) |

`PROJECT.json` lists the same parts with the files of each.

### How they interact

- *Everything that changes a plot's seasons takes the plot's row lock first*
  (`get_plot_for_update`, `plot_repository.py:82`), then the cycle's row, then an access
  phone's. The code calls it the aggregate lock. What a handler reads before it (a cycle
  id in the path, an approved preview, the cycle a public token resolved to) may be stale
  by the time the lock is granted; the handler compares again.
- *Nothing else takes such a lock.* Users, roles, suppliers, master data and labels are
  read, then written as differences to what was read, with whatever unique indexes and
  foreign keys refuse.
- *The commit comes before the response* (`get_db`, `session.py:75`). A client that has a
  2xx has a committed row; a client that has nothing may have one too.
- *The public page and the queue share no code path for retries but share the key*:
  `clientSubmissionId` with the cycle the inspection was captured in. The server files a
  key once, through a look-up, and through a unique index for what the look-up misses.
- *The mirror and the snapshot are copies* on the plot row that every lifecycle operation
  must keep in step with the cycle and the records.
- *The page's handlers are asynchronous closures*. Each goes on after its `await` with the
  values of the render it was started in, and writes the page as it is by then. The import
  dialogs are the same in small.
- *Tabs of one browser share the refresh cookie* and each has its own access token.
- *Numbers are drawn under no lock* that covers their series; the unique indexes judge, and
  the loser's transaction is rolled back whole.

### Where it is hard

Two requests between arrival, lock and commit (start against deactivate, rollover against
an upload in flight); `created_at` fixed at a transaction's *start* while the lock orders
its *end*; answers lost on the way to a phone, so that every submission may be a retry;
two handlers with one key past the same look-up; photos written to disk before a
transaction that may not commit; phones, passwords and seasons revoked under a request that
passed its checks; two tabs sending one queue; late answers on a page that has moved on; a
spreadsheet row validated before the lock and executed under it; numbers allocated as
MAX + 1; two tabs spending one refresh token; saves computed from stale rows; a script or a
job that stops anywhere. `PROJECT.json` lists each under `hazards`, at its line, with the
properties that watch it.

### What makes each part correct

- **Lifecycle**: at most one cycle open, always the plot's latest; none on a plot out of
  service; ended cycles and filed records never change; a cycle's frozen final estimate is
  last inspection; harvest figures come from that season; the mirror says what the open
  cycle says, and the snapshot what its newest inspection says, but for one that overtook it
  on the way to the lock; and together these are a serial ledger of seasons.
- **Delivery**: an inspection is filed at most once, in the season it was captured in;
  nobody is told it is saved unless it is; revocation takes effect at once; photos and
  records name each other; a started batch ends.
- **Page and dialogs**: one form, one key; success is shown only for what is filed; a form
  is filed on its own plot; what is imported is what was shown, once.
- **Import**: two imports never wait for each other's plots in a circle; a file takes effect
  as a whole or not at all, on what was approved.
- **Numbering**: no two rows share a number, and a race ends in a refusal; different series
  never print one key.
- **Access and sessions**: a revoked or rotated token opens nothing; a password that was
  replaced proves nothing; only who proved number and password opens a form.
- **Rights**: a save that met no other leaves what it was sent; the two layers of isolation
  agree; the sidebar shows what leads somewhere.
- **Operations**: a reset that says READY is one, and loses nothing its backup lacks; log
  writes find a partition; a deploy that says DONE is live.

---

## Modules and code

| Module | Models | Promise, or what it is checked against |
|---|---|---|
| `PlotLifecycle` | plots, cycles and records under concurrent requests | `PlotLedger`, a serial ledger of seasons |
| `InspectionDelivery` | an inspection's way from a phone to one plot | `InspectionLog`, an at-most-once log |
| `InspectPage` | one tab of the public inspection page | |
| `PlotImport` | whole files and endpoints over many plots, series and passwords | |
| `PhoneAccess` | lookup, sessions, passwords, lockout | |
| `Accounts` | accounts, tokens, tabs over one cookie | |
| `AccessControl`, `MenuTree` | roles, overrides, assignments, scopes; menus and sidebar | scopes against policies, sidebar against the catalogue |
| `SupplierImport`, `MasterData` | reference rows, their forms and imports | |
| `LotNumbers`, `YieldFigures` | identifiers and figures as computed | the texts they stand for; page against server |
| `ImportDialog`, `ExecutiveDashboard` | what the screens show | the server's state; each query against the others |
| `InspectionProtocols`, `LogPartitions`, `DataReset`, `UatDeploy` | labels, log tables, the reset tool, the deploy script | |
| `MC…` | instances for TLC; several join parts that share no table | |
| `…_proofs` | theorems | see [the proofs](#the-proofs) |

### PlotLifecycle, the core

`PlotLifecycle.tla` models plots, cycles and records under concurrent requests.

| TLA+ | Code |
|---|---|
| `standing`, `mirror`, `snapshot` | `plots.is_active`; `current_crop` and the other plan columns; `last_inspection_record_id` and what is copied with it |
| `cycle[p][n]` | the `plot_cycles` row with `cycle_no` n |
| `record[r]` | a `records` row: plot, cycle, `created_at`, `is_active`, which harvest figures |
| `txn[t]` | one request's transaction: what it read before the lock and under it |
| `lock[p]` | the holder of the plot's row lock |
| `clock` | `now()` of the latest transaction that will insert a record |

A request goes through `Arrivals` (begin, reads without a lock), `Enter`
(`SELECT ... FOR UPDATE` with `populate_existing`, then the active cycle), and one action of
`Commit`, or `Rollback`. There is one commit action per endpoint or import row; its
conjuncts are the handler's re-checks in order, and all of its writes. `Rollback` is
possible from every point: it stands for refusals, missing permissions, exceptions,
lost connections, and a COMMIT that fails. A commit is one step because nothing a
transaction wrote is visible to the others before it, and because everything its re-checks
read is guarded by the lock; that second half is not assumed, it is `LockedReadsStayTrue`.

`SyncStatus` is what filing an inspection does to the plot row: it takes the place of the
snapshot, whatever stands there. As `created_at` is when a transaction began, and the lock
decides which ends first, the place may be taken from a newer one. So "the snapshot is the
newest live inspection" is false (run `snapshot_order`), and `NewestUnlessOvertaken`, a part of
`SeasonsTellTheirOwn`, says exactly when: a step that touches a plot's snapshot leaves it the
newest of the open season, unless the step files an inspection that began before the newest
one did. A retraction and a closing cycle go by `created_at` and make it right again.

Abstractions: the plan columns are one value; a report is the set of harvest figures it
carries; the row versions compared by a `final_plot` row (`updated_at`) are the plan and the
newest record; a plot's code, lot number, owner and other fields do not appear.

`PlotLedger.tla` is what the API promises: a plot is fallow, growing or retired, a season
opens once and ends once, inspections join the growing season only. `Ledger` in
`PlotLifecycle` is the refinement mapping, `ImplementsLedger` the claim.

### InspectionDelivery

`InspectionDelivery.tla` models how an inspection gets from a phone to one plot. The plot
is the ledger that `PlotLifecycle` implements (a phase and a season), and the handler's
final transaction is one step for the reason above; its photos, its first checks and its
answer are steps of their own.

| TLA+ | Code |
|---|---|
| `Handle(a)`: `Resolve`, `Refuse`, `StorePhotos`, `Insert`, `LoseRace`, `Withdraw`, `CommitFails`, `Lose` | the public endpoints from token check to commit: `_resolve_or_replay` with its order of checks (plot and phone, then replay of a filed key, then capture window, open season, captured season), photos, re-checks under the lock, the unique index and its loser, cleanup, `get_db`'s commit |
| `Selects`, `Listed` | the phone lookup and select-plot |
| `tab`: `Reauthenticate`, `ListPending`, `SendDraft`, `Hear`, `Classify`, `EndBatch`, `CloseTab` | `OfflineInspectionQueuePanel` and `syncOfflineDrafts`, one step per await |
| `Retry`, `Delete`, `ClearAll` | the panel's other buttons and the purge of expired drafts |
| `form`: `OpenForm`, `Submit`, `HearForm`, `SettleForm`, `RenewToken`, `AbandonForm`, `LateReceipt` | one form of `PublicInspect` as its server sees it |
| `OpenSeason` to `ChangePassword` | the back office |

A lost request is `Lose`; a lost or late answer is a client that hears `"network"` whatever
`attempt[a]` says; a duplicate is a second attempt with the same key; a dead process is
`Lose` after `StorePhotos`. Abstractions: content, inspector type, photo processing, the
exact time (`GoStale` may strike at any moment), and all of 429 and 5xx as `"busy"`.

`InspectionLog.tla` is the promise: captured, filed at most once while the season of its
capture still grows, confirmed only when filed. `ImplementsLog` is the refinement.

### InspectPage, ImportDialog, ExecutiveDashboard: the screens

`InspectPage` is one tab of `PublicInspect.tsx` with several plots. `select`, `submit` and
`reload` hold what each asynchronous handler closed over and the `await` it stands at. The
server is reduced to a key being filed once, for a token of the plot it was captured on; a
request given up on goes to `adrift` and may still be filed. The phone lookup is one step,
reloads of the list under way at once count as one, and each plot has one season. `patient`
is chosen at the start: a patient user does nothing while an answer is outstanding. It
separates what the page guarantees to everyone from what it guarantees only to users who
wait.

`ImportDialog` is any of the three dialogs: the file chosen, the preview shown, the outcome
line, and the requests under way, each of which may be answered late, lost, or repeated.
`careful` plays the part of `patient`. A file is what the server finds in it and the
revision of what it touches. Four things may be heard of a commit: that it was completed, a
refusal, an error, or nothing. An error is the server's own (`HearFailure`, after a rollback)
or the proxy's (`HearGateway`: nginx answers 502 when the connection to the service breaks,
before, within or after the transaction); the dialog cannot tell one from the other. Nothing
is heard once axios has waited 15 s (`HearNothing`); nginx's own 504, after 120 s, comes too
late for it. `DialogsKeepTheirWord` therefore holds a dialog to what it says of refusals and of
completed imports, and to nothing where it reports an error.

`ExecutiveDashboard` has each query of `dashboard_repository.py` as an operator over the
tables, and the tables changed by committed requests.

### PlotImport

`job[j]` is a request with what its transaction holds: the rows approved and read, the locks
it has, the numbers it has drawn. `row` is a plot as far as an approval is bound to it, `book`
the numbers of each series in the order of their commits. Locks are taken in the order of
`str(plot.id)`; inserts with the same printed number wait for one another as PostgreSQL makes
them, and a circle of such waits has a victim. One row's effect on a plot's cycles is
`PlotLifecycle`'s.

### PhoneAccess

The lookup is in three steps, because it awaits twice: the counters are tested before the
query, the password is compared with what the query read, and only then is the failure
counted or the session minted. `select-plot` reads everything again. The settings
(`usable`, `listed`, `passwords`, `enforced`) may change between any two of these.

### Accounts, AccessControl, MenuTree

`Accounts`: `user` is a row of `users`, `desk` an administrator's request, which reads a row
and writes it later, `call` a request of a browser with the step its answer is at, `jar` the
cookie that all tabs share. A refresh is two steps at the server (it checks the `jti` and
revokes it) and one in the browser; any answer may be lost.

`AccessControl`: every save reads, then writes a *difference* (`Merge`), as SQLAlchemy's unit
of work does; primary and foreign keys refuse what overlaps. `ScopeOf`, `Policy` and `Finds…`
are the code's scope, the database's policies, and the conditions of the queries.

`MenuTree`: the catalogue with the cascade its mapping really has, and `_build_tree`.

### SupplierImport, MasterData, LotNumbers, YieldFigures

The first two are forms and imports that read in one step and write in another, with no
lock. `LotNumbers` has texts as sequences of characters, as dropping blanks, joining with
separators and cutting at a length are what could go wrong. `YieldFigures` has the roundings
of `yield_calculation.py` and of `yield-planning.ts` over whole numbers of the last stored
digit. The server's are exact; the page's are binary fractions, in which a quotient that is
exactly half-way between two digits may come out a hair too small, so that `Math.round` rounds
it down (145 g is 0.145 kg, which times 100 is 14.499…). The constant `FallShort` lists the
halves that do, of all three computations (`targetToKg`, `quantityKgToPct`,
`pctToQuantityKg`); `MCBackOffice` gives those that IEEE 754 doubles have for its plans. No
other quotient is rounded otherwise than exactly: one that is no half is at least
1/(2 × divisor) away from a half, and the relative error of two or three operations is a few
times 2⁻⁵³, which is less for any amount below a hundred million kilograms. What then holds
of page and server is stated with the halves in it: `PageForetellsServer` allows a percentage
the page shows a tenth lower at an exact half, and a form let through where the server's half
is just beyond the last storable percentage; it and `UntouchedSaysTheSame` except plans in
grams half-way between two hundredths of a kilogram (`HalfCent`), whose targets may differ.

### InspectionProtocols, LogPartitions, DataReset, UatDeploy: operations

`InspectionProtocols`: screens with what they show and what was typed on them, saved as a
difference; a record's snapshot, and what is displayed of it. `LogPartitions`: the two daily
jobs, either of which may fail on any day. `DataReset`: a run of `--apply`, statement by
statement, against a service that goes on committing. `UatDeploy`: the steps of
`deploy-uat.sh`, at any of which it may die, leaving the host as it is.

### Harnesses and mutants

`MCOperations`, `MCScreens`, `MCAccounts`, `MCBackOffice` and `MCLiveness` join modules that
share no table: `part` is chosen at the start and says which of them moves; the others stand
still, so that their states add up and do not multiply.

Some operators have a neighbour named for a plausible mistake: `LockFree_PlainSelect`,
`IndexAdmits_Always`, `Cleanup_ByKey`. Putting one in the place of the operator it is named
after must break the property `PROJECT.json` pairs with it; each property of each passing
run has one, so that none of them holds merely because nothing could break it.

---

## The runs

Sizes and times are for two workers with coverage on.

| Run | Instance | Checks | Shows |
|---|---|---|---|
| `lifecycle` | 1 plot, 2 requests, 2 records, 2 plans, 2 cycles, 2 timestamps, all operations; 3 min | `TypeOK`, `LockedReadsStayTrue`, `ClosedPlotsAreDormant`, `SeasonsTellTheirOwn`, `HistoryStands` | Every pair of operations at every interleaving |
| `delivery` | 1 draft with photos, 1 tab, 2 phones, 2 POSTs, 2 seasons; 950 000 states | `TypeOK`, `FiledOnceInItsSeason`, `ConfirmedMeansFiled`, `ConflictMeansFiled`, `PhotosFollowRecords`, `RevocationIsImmediate`, `ImplementsLog` | The queue under lost answers, revocations and season changes |
| `operations` | parts `harvest` (1 request, 2 records with figures, 3 timestamps), `form` (an online form, 2 POSTs, 2 passwords, enforced), `reset`, `logs`, `protocols`, `deploy`; 817 000 states | `SeasonsOwnTheirHarvest`, `RevocationIsImmediate`, `ResetIsWhole`, `NothingIsLost`, `LogsAreKept`, `LabelsStand`, `DeploysAreSound` | What happens a few times a season |
| `screens` | parts `page` (2 plots, 2 sessions, 3 forms, 3 keys), `dialog` (2 files, 2 checks, 2 commits), `dashboard` (2 plots, 2 visits, 2 cycles); 945 000 states | `FormsAreFiledOnce`, `PatientUsersAreServed`, `DialogsKeepTheirWord`, `DashboardAgrees` | What a screen shows against what the server has |
| `accounts` | parts `sessions` (1 account, 2 tabs, 2 calls, 2 desks), `rights` (3 staff, 2 administrators, 4 roles), `menus` (3 menus); 453 000 states | `SessionsAreEarned`, `RotationHolds`, `LoneSavesStand`, `OnlySupersMakeSupers`, `ScopesNest`, `MenusAreShown` | Accounts, rights and what is shown for them |
| `back_office` | parts for phones, suppliers, master data, numbers, figures; 905 000 states | `LookupsAreGuarded`, `SuppliersStand`, `TaxonomyStands`, `CodesTellApart`, `FiguresAgree` | The rest of the back office |
| `liveness` | two requests, each any of the files and endpoints in `AllWorks`, over 3 plots and 4 series; a batch of two drafts; two requests for one plot, with eight of the operations, 1 record and 2 cycles; 4 min | `NumbersAreSound`, `PlotLocksNeverDeadlock`, `CommitsWhatWasApproved`, `EverythingEnds`, `ImplementsLedger` | Imports against each other; what must end; the handlers are a ledger |
| `lifecycle_import`, `snapshot_order`, `page_wrong_plot`, `dashboard_breakdown`, `deploy_rollback` | smallest instance that shows it | one documented statement each, violated | see [below](#where-code-and-documentation-disagree) |

### Bounds and why they suffice

- *One plot* in the lifecycle. Its operations on different plots share neither rows nor
  locks; what several plots bring is `PlotImport`'s, with three.
- *Two requests.* The lock makes every interaction one between a holder and a request
  that read something earlier; a third would only be another waiter. A request's slot is
  used again and again, so sequences of operations are bounded only by cycles and records.
- *Two cycles* give a stale cycle and its successor. *Two records* give an order by
  `created_at` that commits can reverse. *Two plans* tell an edit from none.
- *Eight operations* of the lifecycle in `liveness`: those that open, change and end seasons
  and file inspections, an import among them. The others ask for the same lock, and end by the
  same `Commit` or `Rollback`; `lifecycle` has them all.
- *Two POSTs* for a draft give the race on one key and the retry after a lost answer. *Two
  phones* give a conflict of identity. *Two seasons* and *two password versions* give the
  stale one and its successor.
- *Two plots and three forms* on the page give a form left, the next one, and the first
  plot's again; two sessions give an answer for a session that has ended.
- *Two tabs and two calls* give every race over one cookie; *two desks* every pair of stale
  administrators; three events give a token, its successor, and what revokes them.
- *Three staff and two administrators*: two saves at once about a third person.
- *Months of two days, eight days* (`logs`): four months with two ahead, so that coverage runs
  out and comes back; retentions below, at and above the length of a month.
- *Three revisions* (`deploy`): one live, one with a migration more, one with none.
- *Plans of 16 kg, 600 g, 14 500 g, 3330 kg, 30 ton and 5 crate, quantities of 0, 0.29 and
  2.07 kg* (`figures`): among their quotients are halves that binary fractions miss and halves
  that they hit, a half at the last storable percentage, and a target beyond its column.
- *One of each table* (`reset`), and one more that the service may add at any moment.
- Bounds that stop a behaviour (`Max…`, and the sizes of `Records` and `Attempts`) are guards
  that name the constant. Deadlock is checked where the system may not stop (`lifecycle`,
  `delivery`, `liveness`); the joined runs turn it off because a user or an operator who
  has used up the bounds may stop, and so may a real one.
- Symmetry is used in safety runs only, over values that nothing in the specification tells
  apart. Drafts are numbers, in the order of `capturedAt`, and are not permuted.

The theorems have none of these bounds but as constants of any size.

---

## Fairness

- `PlotLifecycle`, `SF(Enter(t))`: PostgreSQL keeps the waiters of a row lock in a queue, so
  one whose turn comes again and again gets it. `WF` of a lock holder's commit or rollback:
  `get_db` ends the transaction on every path, and PostgreSQL aborts it when the connection
  dies. No arrival is fair.
- `PlotImport`, `WF(Step(j))`, each request's own next step, to be `Victim` of a deadlock
  included: a statement that can run runs, and `deadlock_timeout` ends every circle of waits.
- `InspectionDelivery`, `WF(BatchStep(b))`: a started batch is code in the browser's event
  loop and each of its calls ends within axios' timeout. Nothing is assumed of the server,
  the network or the user; a closed tab ends its batch too.
- Nothing else claims that anything happens.

---

## The proofs

TLC checks the properties on the instances above. The theorems below state them for every
number of plots, requests, phones, tabs, records, files, accounts, roles and versions, under
the assumptions the modules name. `tlapm` checks every proof to its last leaf. Every safety
invariant and every action property that a passing run checks is the subject of one, and so
are the two refinements; what is left to TLC alone is liveness.

| Module | Theorems | About |
|---|---|---|
| `PlotLifecycle_proofs` | `TypeCorrect`, `Isolation`, `Dormancy`, `SeasonsTheirOwn`, `HistoryIsKept`, `SeasonsHarvest`, `ApiIsALedger` | `PlotLifecycle`, and that it implements `PlotLedger` |
| `InspectionDelivery_proofs` | `DeliveryTypes`, `AtMostOnce`, `NoFalseReceipt`, `NoFalseConflict`, `PhotosStand`, `Revocation`, `DeliveryIsALog` | `InspectionDelivery`, and that it implements `InspectionLog` |
| `PlotImport_proofs` | `NoDeadlock`, `ApprovalBinds`, `SoundNumbers` | `PlotImport` |
| `Accounts_proofs` | `AccountTypes`, `PasswordsRule`, `CookiesRotate` | `Accounts` |
| `AccessControl_proofs` | `LoneSaves`, `CrownsAreGiven`, `ScopesAlwaysNest`, `MenusAreAlwaysShown` | `AccessControl`, `MenuTree` |
| `Screens_proofs` | `FormsOnce`, `PatientServed`, `TruthfulDialogs`, `DashboardAlwaysAgrees` | `InspectPage`, `ImportDialog`, `ExecutiveDashboard` |
| `BackOffice_proofs` | `LookupsGuarded`, `LandedSuppliers`, `StandingTaxonomy`, `FiguresAddUp`, `CodesAlwaysTellApart` | `PhoneAccess`, `SupplierImport`, `MasterData`, `YieldFigures`, `LotNumbers` |
| `Operations_proofs` | `KeptLogs`, `StandingLabels`, `SoundDeploys`, `WholeResets`, `LosesNothing` | `LogPartitions`, `InspectionProtocols`, `UatDeploy`, `DataReset` |

Every proof has the same plan: an inductive invariant, a lemma per action that it is kept, a
lemma that the property follows (or, for what a step may never do, that it follows for one
step), and a last step in temporal logic.

### Assumptions

They are those of the modules, which TLC evaluates on every run: bounds are natural numbers,
values that stand for "none" are not among what they are not, the tables a system starts with
are such as its own columns and keys allow, clients, rows, plots and menus are finitely many
where they are counted or summed over, the root of the menu tree is no menu, a month is four
digits, and texts may hold any characters as long as digits, separators and prefixes are among
them. Each stands in the module that declares the constant. One theorem has a hypothesis
of its own: `SeasonsHarvest` is about API instances that serve no `final_plot` import
(`"finalImport" \notin Operations`). With that import its property is false, as the run
`lifecycle_import` shows; the part about harvest figures, `HarvestIsItsOwn`, is proved
without the hypothesis.

### The inductive invariants

*PlotLifecycle.* `IInv` joins types, `LockedReadsStayTrue` and `ClosedPlotsAreDormant` with
three facts about rows: what a request aims at exists, a plot that was never created has no
cycles, every record is of a plot that exists. Dormancy is not inductive without the first
property: a deactivation is sound because what it read under the lock is still so. `JInv` adds
what the other theorems need: a retraction holds the record it read, a request is for an
operation that is served, cycles are numbered without gaps, a cycle comes empty, a record is in
a season its plot has had. Over it, `StepEffects` says once what a step may do to the rows of
one plot (register, open a season, end one, edit one, inspect, retract, change standing, or
nothing). What an open season shows, newest unless overtaken, is a claim about such an effect
with the row before and after it; what a closed one keeps stays its last word because a closed
season takes no inspection and may only lose some. The history theorem, the mirror theorem and
the refinement each go through these effects, and not through the fifteen endpoints again.

*InspectionDelivery.* `IInv` says of each request that it belongs to a key whose owner sent it
and that its answer of success is of a filed key (`Receipts`); of each tab and form, that what
it waits for is a request for its own key, and that a form that has not been opened has sent
nothing. `ConfirmedMeansFiled` needs all of these because an answer may be heard long after it
was given. `CInv` adds the same for answers of conflict; `PInv` says which photos are on disk
at each point of a request, and that a record names those of an answered request.
`Revocation` needs no more than one step: the handler looks again, under the lock, at what was
revoked. The refinement maps confirmations to those who heard of them; a step that only moves
a request is a stutter of the log.

*PlotImport.* `Locking`: whoever holds plots holds a beginning of its sorted list, no plot has
two holders, and what a request waits for is next on its list. A circle of waits would then
descend for ever in the order of the plots' ids. `Numbered`: what a request has drawn
continues the numbers of its series, counting those the unique indexes keep others from
drawing; without `DrawnAnew`, that nobody else draws a number of a series that prints alike,
uniqueness is not inductive. `ApprovalBinds` follows from `Locking` and from the rows being as
they were compared while the lock is held.

*Accounts.* `Wired` gives every call its tab and account, with requests told apart by when
they were made. `Earned` adds that every token anybody holds is of a generation not later than
the account's, and of its password if it is the same. `Rotating` says of the cookie in the jar
that it is unspent or that its successor is with a call under way or lost; it needs that
tokens of a pair are told apart and minted once, though two racing refreshes of one token both
succeed.

*AccessControl.* `Tables` are the keys of the tables, foreign and primary. `Requests` says of
each open save what it has read, that no two that are alike believe to be alone, and that what
a lone one read still is in the tables. That is the content of `LoneSavesStand`, which
otherwise speaks of a difference between a state now and one long ago.

*InspectPage.* Five parts, kept in this order: `Typed`; `IdentityCleared`, no identity outlives
its form; `Drawn`, a key has one form and a form one key, over all that was ever sent; `Honest`,
success is of what is filed; `Waiting`, which a user who waits adds: one handler under way, on
a page that is all of one plot.

*ImportDialog.* `Asking`, of previews; `Sending`, of commits; `Approving`, which relates the
two: a preview that was approved and landed is older than the table by now, so that it cannot
land again.

*ExecutiveDashboard.* `DashboardInv` is the types and `SeasonsInv`: only the latest cycle of a
plot can be open, so that in either grouping a plot has one key. That a season may begin at all
needs a bound on the sum of all seasons, one of the facts about sums the theorem rests on
(`SumSplit`, `SumZero`, `SumBounds`): the lenses' weights add up to the cards' because the sum
over two parts is that over the whole, and the rows of a table because what each plot is counted
under is one row (`RowsAddUpTo`). `LastVisitIs` and `MinIs` say what the greatest date and the
first reason are.

*PhoneAccess.* `Vouched`: what a session or a request under way carries was proved by its
number and password. `Counted`: failures counted, with those that wait to be, never exceed the
limit by more than the clients there are; the sum is over a finite set, and its step lemma is
about cardinalities of what is still waiting.

*SupplierImport, MasterData.* What a form or a file has read *still holds unless something was
committed since* (`SheetHolds`, `DeskSees`, `UploadSees`, `PlantingSees`). A row of master data
keeps its type when it is renamed, and no two rows have one id. `OneActivePCode` is inductive
only with what each desk has checked and not yet written.

*YieldFigures.* `Prefilled`: a form as it opened shows what the last inspection left of the
plan; one typed into shows the percentage of what was typed. The theorem rests on arithmetic:
rounding a percentage to kilograms and back is the identity on percentages that came from
kilograms of the same target (`RoundTrip`), whatever the target, because either a kilogram's
last digit is coarser than a percentage's or the other way round. It is stated for any nearest
hundredth, so that it does not matter which way the page rounds a half, and `FiguresAddUp` is
proved for every set `FallShort`: the page rounds as the server does, or one down at an exact
half (`PageRounds`). That no other quotient errs is an argument about IEEE 754, given above,
and no theorem.

*LotNumbers.* `NumbersInv`: every row is what its own fields make (`MadeCycle`, `MadePlot`, or
typed by somebody), series are numbered without gaps, and a number is refused only where
another row prints it. That what is printed tells its fields is four steps: decimal digits tell
a number (`DigitsInjective`) and no digit is a separator; a text with its length in front tells
itself and what follows (`Netstring`), so a key tells its three texts (`KeysTell`) whatever
separators they hold; a lot, split at its last separator, tells its number (`LotsTell`); a plot
code, split twice, tells month and number (`CodesTell`).

*MenuTree.* The invariant is the type; the theorem is about the two recursions. A way up of *d*
steps is the whole way or has *d* + 1 menus (`LineageEnds`), so that as many steps as there are
menus miss nothing, and ways that run in a circle end too. A walk shows nothing but what leads
somewhere (`WalkShowsNoMore`), and all that does (`WalkShowsNoLess`).

*LogPartitions.* `Coverage`: from this month to the last one created, every table that was
not misset has its partitions; `NoneBeyond`, that there is none later, is why the health check
can go by the newest. *InspectionProtocols.* What is kept is faithful to the labels in force.
*UatDeploy.* Where the script stands says what it has done (`Shipped`, `Migrated`, `Swapped`),
and images saved as live never need more than the schema has (`SavedLive`).
*DataReset.* Until the commit, all there is is in the dump or came after it (`Backed`); the
accounts chosen are still fit (`Chosen`); what was looked at is clear, except for what came
late (`LookedAt`).

### Induction over data

The library's induction theorems take a predicate as a parameter, which the provers cannot be
given. The proofs use sets in place of predicates: `Induction`, `StrongInduction` and
`SetInduction` say that a set which has the first element, and with each the next, has all of
them, and follow from a least counterexample (`WFMin`). What a recursive function returns is
shown in two steps: that something satisfies its equation (`LineageRecurs`, `WalkRecurs`,
`DigitsRecur`, `SumsExist`), and from there by induction what does. So digits, ways up a tree,
walks down one and sums are reasoned about for every length, depth and size.

### What the proofs changed

An attempt that failed said something of the model more than once:

- A role deleted and created anew under its name is *another row*: overlapping saves of its
  holders do not reach it (`AccessControl`, `Outlive`).
- A file of master data leaves a P.Code that is already active where it is, beside another
  activated meanwhile: `FileLandsWhole` claims the P.Code for its variety, and that it is the
  only one only where the file turned it on.
- `MasterData` had to say that types part the values, and `DataReset` that its rows and
  accounts are finitely many, its seeds new and its owners local or not, before anything could
  be said of all instances; `YieldFigures`, that its value for none is no form and no record.
- `LotNumbers` names what texts are made of (`Characters`), and spells `_compact` out character
  by character: nothing could be proved of texts of which only samples were given.
- A way up the menus is followed for as many steps as there are menus, in place of a bound
  chosen by the instance (`Lineage`); the sums of `ExecutiveDashboard` are over functions, not
  over operators, which no lemma can take. Both return what they did before.

### What is only model-checked

- *Liveness*: `EverythingEnds`, of which `EveryRequestEnds` is a part. Fairness and ENABLED
  are outside the proof system's reach here.

- *The instances themselves*: that every action can happen, and that every property is broken
  by a plausible bug, which theorems do not say.
- *The five documented statements that the code does not keep*; see the next section.

---

## Where code and documentation disagree

### With a run that shows it

Each has an entry under `findings`.

1. **A closed cycle still advertised** (`lifecycle_import`). A `final_plot` import closes the
   cycle, and may retire the plot, without clearing mirror and snapshot; the close endpoint
   clears them, and the handover document says they are cleared.
2. **A form filed on another plot** (`page_wrong_plot`). The buttons that leave a form stay
   live while its submission is under way; the late 401 then puts the first plot's token
   under the second plot's form.
3. **A target counted per visit** (`dashboard_breakdown`). The comparison table joins plots
   with their records in the window and with their last record at once, and sums the latter.
4. **A rollback to code that never ran** (`deploy_rollback`). A deploy that stops between ship
   and swap leaves images that the next backup tags for rollback.
5. **An older inspection shown** (`snapshot_order`). Filing an inspection puts it on the plot
   row whichever is there (`plot_repository.py:825`). Of two filed at once, the one that began
   first may commit last; the comment at `plot_repository.py:841` promises that the plot shows
   the newest active record of its cycle.

### Seen while modelling, with no run of their own

*Seasons and records.* An `update_current_cycle` row edits whichever cycle is open at its
commit (`plot_import.py:2313`; the comment at `plots.py:1707` promises a 409).
`PLOT_CYCLE_HANDOVER.md` calls `is_active` and having an active cycle independent, which
`deactivate_plot` contradicts (`ClosedPlotsAreDormant` says which the code keeps). A comment on
`plot_cycle.py` gives the harvest columns to `final_plot` alone, although the close endpoint
writes them. `assign_users` takes no lock (a concurrent insert is a 500), and a user of scope
*assigned* who removes himself from a plot gets a 500 for his success.

*Delivery.* A filed draft whose answer was lost and whose plot has no cycle at the retry is
marked `blocked_cycle_changed`, though sent again later it would get its receipt
(`offline-inspection-sync.ts:188`). A late 404 takes away the form that is on the page by then
(`PatientUsersAreServed` holds only for those who wait). Two tabs write statuses from the copy
each listed. A failing COMMIT leaves photos on disk that nothing removes (`PhotosFollowRecords`
says exactly which). A lookup by QR clears the counters of a plot it then refuses, and
concurrent lookups overshoot the limits (`LookupsAreGuarded` says by how much).

*Imports and numbers.* Two imports that draw two series in opposite orders deadlock on the
unique indexes; `DeadlockDetected` is no `IntegrityError`, so the victim gets a 500 where
`plots.py:1707` and `plot_cycle_repository.py:216` promise a 409. Two series that print one lot
leave the second refused for ever (`plots.py:143`), as a code typed earlier does its series.
Re-importing a file of new plots after a timeout creates them twice. Supplier imports merge
column by column with a form's write in between (`supplier_import.py:38`); `POST /suppliers`
twice with one code is a 500. The rule of one active P.Code has no index
(`p_code_master.py:11`); renaming or deleting a variety or crop leaves what names it dangling.

*Import dialogs.* A late preview of file A can stand beside file B; a second press of "close
this message" lets a late preview unlock Commit after an import, although the header says it
is locked for good; the list dialogs keep Commit enabled after an unconfirmed error, and the
409 of the second press says that nothing was imported when the first one was. Any answer with
a status is reported as a failure for certain (`PlotImportModal.tsx:424`: "A response WAS
received", the transaction "already rolled back"; so too `plots.ts:1117`), though nginx answers
502 also when the connection breaks after the COMMIT.

*Figures and dashboard.* `yield-planning.ts:119` says that it mirrors the backend exactly, with
the same rounding, but its floats miss some halves: 145 g is 0.14 kg on the page and 0.15 kg on
the server, a percentage may be shown a tenth lower than stored, and one that is half a tenth
above the last storable is let through and then refused. The slider shows a tenth that is not
stored. The
concern "missing cleaned weight" joins the *active* cycle of harvested plots, so that its P.Code
is never there. Retention can exceed 100 %. Ties have no order.

*Accounts.* Two concurrent refreshes of one `jti` both succeed (`auth.py:273`). A refresh
answered after the logout sets the cookie again. Deactivating and reactivating revives old
tokens; withdrawing an approval ends no session. `login_failed` audit rows are rolled back with
the request they describe (`auth.py:150`), and so is the row a first SSO sign-in created before
its 403. An approval and a rejection by one link can both succeed (`user_approval.py:131`).
Mails go out before the COMMIT. Permissions of system roles can never be saved from the role
editor, which always sends them, nor can a user edit his own profile from the user editor, which
always sends roles. Deleting a role can lose an assignment made meanwhile.

*Menus and labels.* Deleting a sub-menu deletes its ancestors, the mapping's cascade being on
the wrong side (`models/menu_item.py`); a menu may become its own ancestor and vanish. Two bulk
edits of a stage's labels can mix, though the admin endpoint says that they never save in part;
a refetch discards what was typed. The labels frozen with a record are those in force when it is
filed, not those it was scored under.

*Operations.* A negative retention drops partitions of the current month (`LogsAreKept` excepts
it). The health route looks at one table's newest partition. The reset tool counts every owner
but deletes only local ones, so that with one of Azure AD it never succeeds; an account made
internal while it runs is deleted; what is committed between its backup and the wipe is gone.
`deploy-uat.sh` reports "old code on the old schema" when only the answer of a migration was
lost; a redeploy of the same images ends silently; a rehearsal moves the stamp that `rollback`
goes by. `deploy.sh` swaps before it migrates, although its header orders it otherwise.

---

## What is not modelled

- *Content*: spreadsheet parsing and writing, photo decoding, QR codes, GPS, descriptions,
  wording, layout, paging, sorting.
- *Permissions as guards*: one check at the start of a request; a refusal is a `Rollback`.
  How permissions come about is `AccessControl`.
- *Field definitions, reports, logs as read, notifications, chat, AI, other databases*:
  read-only views, or best-effort calls whose failure is caught.
- *The administration front end*: forms over the API, whose requests are operations of the
  modules whenever they come. The import dialogs are the exception.
- *Migrations, seeds and demo data*: run by hand on a stopped service.
- *`src/scripts/scaffold.py`, `setup.py`, `init_project.py`, `migrate-security.py`,
  `src/patches/`*: tooling of the project template the repository began from; no part of the
  running program.
- *Adding a draft to the offline queue*: no page calls it any more.
- *Two operators of one script at once* (`DataReset`, `UatDeploy`).

Each component's entry in `PROJECT.json` says the same in its note.

---

## What is left

- `EverythingEnds` waits for a prover of ENABLED. The safety half of
  what they need is proved for imports: no circle of waits (`NoDeadlock`).
- Staff moved to another supplier, the forced password change, and the dashboard's trend are
  the nearest extensions of modules that exist.
- Much of the repository is template tooling, schemas, seeds and views, of which nothing is
  modelled; see above.
