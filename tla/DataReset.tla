----------------------------- MODULE DataReset -----------------------------
(* app.db.uat_data_reset --apply: one process wipes a test database and      *)
(* seeds it again while the service may go on committing.  Everything it     *)
(* destroys, it destroys in one READ COMMITTED transaction, whose statements *)
(* each see what others committed before them; around that transaction stand *)
(* a snapshot of counts, a backup with its rehearsal, and two checks.        *)
(* A row stands for a table's rows, a parent for its foreign key.            *)
EXTENDS FiniteSets, Sequences, Naturals

CONSTANTS
    Rows,           \* rows the service has or may write
    KindOf,         \* the table of a row
    ParentOf,       \* the row it refers to, or Gone
    Present,        \* the rows there are at the start
    People,         \* accounts
    Accounts,       \* the sets of accounts a run may start with
    MaxServed,      \* commits of the service
    Gone

WipeOrder == <<"crop", "access", "record", "cycle", "plot", "supplier", "owner">>
CheckOrder == <<"supplier", "owner", "plot", "cycle", "record", "crop", "protected",
                "access", "internal">>
Kinds == {"crop", "access", "record", "cycle", "plot", "supplier", "protected"}

ASSUME ResetAssumption ==
    /\ KindOf \in [Rows -> Kinds]
    /\ ParentOf \in [Rows -> Rows \cup {Gone}]
    /\ Present \subseteq Rows /\ Gone \notin Rows
    /\ Rows \cap People = {}
    /\ IsFiniteSet(Present) /\ IsFiniteSet(People)
    /\ MaxServed \in Nat

VARIABLES
    db,         \* the rows that are committed
    account,    \* an account's provider and kinds of role, Gone if it does not exist
    stage,      \* where the process stands
    step,       \* the statement of the wipe, or the count of a check, it is at
    wiped,      \* what its open transaction has deleted: rows and accounts
    candidates, \* the accounts it will delete
    before,     \* the counts of its snapshot
    dump,       \* what its backup holds
    problems,   \* the counts that were wrong
    served,     \* the commits of the service
    since,      \* what the service wrote after the backup was taken
    late        \* what it wrote after the last look at its kind

resetVars == <<db, account, stage, step, wiped, candidates, before, dump, problems, served,
               since, late>>

Stages == {"start", "snapshot", "dumped", "rehearsed", "wiping", "seeding", "checking",
           "committed", "ready", "failed", "aborted"}

Account == [provider : {"local", "azure"}, owner : BOOLEAN, internal : BOOLEAN]

ASSUME AccountsAssumption ==
    Accounts \subseteq [People -> Account \cup {Gone}] /\ Gone \notin Account

-----------------------------------------------------------------------------
(* What a statement sees *)

Seeds == {"new supplier", "new plot", "new access"}
SeedKind(r) == CASE r = "new supplier" -> "supplier" [] r = "new plot" -> "plot"
                 [] r = "new access" -> "access"
SeededOwner == "new owner"

ASSUME SeedsAssumption == Seeds \cap Rows = {} /\ SeededOwner \notin People

TableOf(r) == IF r \in Rows THEN KindOf[r] ELSE SeedKind(r)
InTransaction == stage \in {"wiping", "seeding", "checking"}

\* The tool sees its own deletions and, once they are made, its seeds.
Visible == (db \ wiped) \cup (IF stage = "checking" THEN Seeds ELSE {})
Staying == {u \in People : account[u] # Gone /\ u \notin wiped}
Owners == {u \in Staying : account[u].owner}
              \cup (IF stage \in {"checking", "committed"} THEN {SeededOwner} ELSE {})

Count(kind) ==
    CASE kind = "owner" -> Cardinality(Owners)
      [] kind = "internal" -> Cardinality({u \in Staying : account[u].internal})
      [] OTHER -> Cardinality({r \in Visible : TableOf(r) = kind})

\* Every seeded table holds its seeds and nothing else, the wiped ones nothing, and the
\* protected ones as many rows as the snapshot counted.
Expected(kind) ==
    CASE kind \in {"protected", "internal"} -> before[kind]
      [] kind = "owner" -> 1
      [] OTHER -> Cardinality({r \in Seeds : SeedKind(r) = kind})

\* Mutant: an internal account that is also an owner is deleted.
IsDeletionCandidate_AnyOwner(a) == a.provider = "local" /\ a.owner
IsDeletionCandidate(a) == a.provider = "local" /\ a.owner /\ ~a.internal

-----------------------------------------------------------------------------
(* The tool *)

\* Mutant: the transaction is left open.
Abort_KeepsWork ==
    /\ stage \notin {"ready", "failed", "aborted"}
    /\ stage' = "aborted"
    /\ UNCHANGED <<db, account, step, wiped, candidates, before, dump, problems, served, since, late>>

\* A refused gate, a failed command, a lost connection, a deadlock: the transaction, if
\* one is open, is rolled back, and the process exits 1.
Abort ==
    /\ stage \notin {"ready", "failed", "aborted"}
    /\ stage' = "aborted" /\ wiped' = {}
    /\ UNCHANGED <<db, account, step, candidates, before, dump, problems, served, since, late>>

TakeSnapshot ==
    /\ stage = "start"
    /\ before' = [kind \in {"protected", "internal"} |-> Count(kind)]
    /\ stage' = "snapshot"
    /\ UNCHANGED <<db, account, step, wiped, candidates, dump, problems, served, since, late>>

\* Mutant: an empty dump is good enough.
RunBackup_Empty ==
    /\ stage = "snapshot"
    /\ stage' = "dumped"
    /\ UNCHANGED <<db, account, step, wiped, candidates, before, dump, problems, served, since, late>>

\* pg_dump sees one state of the database.
RunBackup ==
    /\ stage = "snapshot"
    /\ dump' = db \cup {u \in People : account[u] # Gone}
    /\ stage' = "dumped"
    /\ UNCHANGED <<db, account, step, wiped, candidates, before, problems, served, since, late>>

\* The dump is restored into a database of its own, which is dropped again.
RestoreRehearsal ==
    /\ stage = "dumped"
    /\ stage' = "rehearsed"
    /\ UNCHANGED <<db, account, step, wiped, candidates, before, dump, problems, served, since, late>>

ReadCandidates ==
    /\ stage = "rehearsed"
    /\ candidates' = {u \in Staying : IsDeletionCandidate(account[u])}
    /\ stage' = "wiping" /\ step' = 1
    /\ UNCHANGED <<db, account, wiped, before, dump, problems, served, since, late>>

Children(rows) == {r \in db \ wiped : ParentOf[r] \in rows}
Cascades == {"access", "plot"}

\* What a DELETE takes away: the table's rows and what the foreign keys cascade to, which
\* is at most a new plot of a supplier and that plot's numbers.
Victims(kind) ==
    LET own == {r \in db \ wiped : KindOf[r] = kind}
        below == {r \in Children(own) : KindOf[r] \in Cascades}
    IN own \cup below \cup {r \in Children(below) : KindOf[r] \in Cascades}

\* Rows that may not lose their parent make the DELETE fail.
Restricts(rows) == \E r \in Children(rows) \ rows : KindOf[r] \notin Cascades

WipeBusinessData ==
    /\ stage = "wiping" /\ step <= Len(WipeOrder)
    /\ IF WipeOrder[step] = "owner"
       THEN /\ wiped' = wiped \cup candidates
            /\ stage' = "seeding" /\ step' = 1
       ELSE /\ wiped' = wiped \cup Victims(WipeOrder[step])
            /\ ~Restricts(Victims(WipeOrder[step]))
            /\ stage' = stage /\ step' = step + 1
    /\ UNCHANGED <<db, account, candidates, before, dump, problems, served, since, late>>

SeedRows ==
    /\ stage = "seeding"
    /\ stage' = "checking" /\ step' = 1
    /\ UNCHANGED <<db, account, wiped, candidates, before, dump, problems, served, since, late>>

\* One count after another, each a statement of its own; the process raises, or exits,
\* only after the last.
CollectInvariantProblems ==
    /\ stage \in {"checking", "committed"} /\ step <= Len(CheckOrder)
    /\ problems' = problems \cup {k \in {CheckOrder[step]} : Count(k) # Expected(k)}
    /\ step' = step + 1
    /\ UNCHANGED <<db, account, stage, wiped, candidates, before, dump, served, since, late>>

CommitWipe ==
    /\ stage = "checking" /\ step > Len(CheckOrder) /\ problems = {}
    /\ db' = Visible
    /\ account' = [u \in People |-> IF u \in wiped THEN Gone ELSE account[u]]
    /\ wiped' = {} /\ stage' = "committed" /\ step' = 1
    /\ UNCHANGED <<candidates, before, dump, problems, served, since, late>>

\* Mutant: READY without a look at what was committed.
PostCommitVerify_Assumed ==
    /\ stage = "committed"
    /\ stage' = "ready"
    /\ UNCHANGED <<db, account, step, wiped, candidates, before, dump, problems, served, since, late>>

PostCommitVerify ==
    /\ stage = "committed" /\ step > Len(CheckOrder)
    /\ stage' = IF problems = {} THEN "ready" ELSE "failed"
    /\ UNCHANGED <<db, account, step, wiped, candidates, before, dump, problems, served, since, late>>

-----------------------------------------------------------------------------
(* The service, which nothing stops *)

BeforeBackup == stage \in {"start", "snapshot"}

SeenLast(kind) ==
    \/ stage \in {"ready", "failed"}
    \/ stage = "committed" /\ \E n \in 1..(step - 1) : CheckOrder[n] = kind

\* A child waits for a parent that is being deleted, and fails if it was.
Serve(r) ==
    /\ served < MaxServed /\ stage # "start"
    /\ r \notin db \cup wiped
    /\ ParentOf[r] \in (db \ wiped) \cup {Gone}
    /\ db' = db \cup {r} /\ served' = served + 1
    /\ since' = IF BeforeBackup THEN since ELSE since \cup {r}
    /\ late' = IF SeenLast(KindOf[r]) THEN late \cup {r} ELSE late
    /\ UNCHANGED <<account, stage, step, wiped, candidates, before, dump, problems>>

AssignRoles(u, owner, internal) ==
    /\ served < MaxServed /\ stage # "start"
    /\ account[u] # Gone /\ u \notin wiped
    /\ account' = [account EXCEPT ![u].owner = owner, ![u].internal = internal]
    /\ account' # account
    /\ served' = served + 1
    /\ since' = IF BeforeBackup THEN since ELSE since \cup {u}
    /\ late' = IF SeenLast("owner") THEN late \cup {u} ELSE late
    /\ UNCHANGED <<db, stage, step, wiped, candidates, before, dump, problems>>

-----------------------------------------------------------------------------

ResetInit ==
    /\ db = Present /\ account \in Accounts
    /\ stage = "start" /\ step = 1 /\ wiped = {} /\ candidates = {} /\ dump = {}
    /\ before = [kind \in {"protected", "internal"} |-> 0]
    /\ problems = {} /\ served = 0 /\ since = {} /\ late = {}

ResetNext ==
    \/ Abort \/ TakeSnapshot \/ RunBackup \/ RestoreRehearsal \/ ReadCandidates
    \/ WipeBusinessData \/ SeedRows \/ CollectInvariantProblems \/ CommitWipe \/ PostCommitVerify
    \/ \E r \in Rows : Serve(r)
    \/ \E u \in People, owner, internal \in BOOLEAN : AssignRoles(u, owner, internal)

ResetSpec == ResetInit /\ [][ResetNext]_resetVars

-----------------------------------------------------------------------------
(* Properties *)

ResetTypeOK ==
    /\ db \subseteq Rows \cup Seeds
    /\ account \in [People -> Account \cup {Gone}]
    /\ stage \in Stages /\ step \in 1..(Len(CheckOrder) + 1)
    /\ wiped \subseteq Rows \cup People /\ (wiped # {} => InTransaction)
    /\ candidates \subseteq People /\ dump \subseteq Rows \cup People
    /\ before \in [{"protected", "internal"} -> Nat]
    /\ problems \subseteq Kinds \cup {"owner", "internal"}
    /\ served \in 0..MaxServed /\ late \cup since \subseteq Rows \cup People

(* "READY" is printed only over the seeded database: what the service       *)
(* committed between two statements of the wipe, or between the check and    *)
(* the commit, has been swept up or has turned READY into an alarm.  What it *)
(* wrote later than the last look at that table is its own.  An owner's      *)
(* account the tool does not delete, such as one of Azure AD, is enough to   *)
(* keep it from being READY.                                                 *)
ReadyMeansReset ==
    stage = "ready" =>
        /\ \A r \in db \ (Seeds \cup late) : KindOf[r] = "protected"
        /\ Seeds \subseteq db
        /\ \A u \in People \ late : account[u] # Gone => ~account[u].owner

(* Whatever the reset takes away is in its backup, or was committed by the   *)
(* service after the backup was taken.                                       *)
BackedUpOrNewer ==
    [][(db \ db') \cup {u \in People : account[u] # account'[u] /\ account'[u] = Gone}
           \subseteq dump \cup since]_resetVars

(* An account of Azure AD is never lost, and an internal one only if its     *)
(* roles were changed while the tool ran: it deletes by the roles it read    *)
(* before it began to wipe, and the count of internal accounts it checks     *)
(* does not miss one that became internal after the snapshot.                *)
ExcludedAccountsSurvive ==
    [][\A u \in People :
          account[u] # Gone /\ account'[u] = Gone
              => /\ account[u].provider = "local"
                 /\ account[u].internal => u \in since]_resetVars

\* A reset destroys nothing that is not in the backup but what came later, and leaves the
\* accounts it excludes.
NothingIsLost == BackedUpOrNewer /\ ExcludedAccountsSurvive

\* A reset that says READY left what it promised, in tables that fit together.
ResetIsWhole == ResetTypeOK /\ ReadyMeansReset

=============================================================================
