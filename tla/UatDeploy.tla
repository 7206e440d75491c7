------------------------------ MODULE UatDeploy ------------------------------
(* deploy-uat.sh: one operator brings a revision to the test host, rolls back, *)
(* or rehearses.  Any step may fail or lose its connection, and the script     *)
(* then stops where it is: what it has changed on the host stays, and the next *)
(* run starts from there.  The service goes on taking rows all the while.      *)
(*                                                                             *)
(* An image stands for the revision it was built from; a database is at the    *)
(* revision of its last migration.  The copy of the source tree on the host,   *)
(* which nothing runs from, is left out.                                       *)
EXTENDS Naturals

CONSTANTS
    Refs,           \* revisions that may be deployed
    Revision,           \* the newest migration each of them knows
    FirstRef,       \* the revision that is live at the start
    MaxRows,        \* bound on rows
    MaxWritten       \* bound on rows written or deleted by the service

Services == {"backend", "frontend"}

ASSUME RefsAssumption == FirstRef \in Refs /\ Revision \in [Refs -> Nat]
ASSUME RowsAssumption == MaxRows \in Nat \ {0} /\ MaxWritten \in Nat

VARIABLES
    script,         \* the run of the script, with what its shell has read
    latest,         \* host: revision of each service's image tagged "latest"
    running,        \* host: revision of the image each container was made of
    saved,          \* host: the images tagged rollback_$STAMP of the stamp on file
    schema,         \* alembic_version
    rows,           \* rows of the five RLS tables
    written

hostVars == <<latest, running, saved>>
deployVars == <<script, latest, running, saved, schema, rows, written>>

Images == [Services -> Refs]
Both(ref) == [s \in Services |-> ref]
NoStamp == [images |-> Both(FirstRef), live |-> FALSE, stamped |-> FALSE]
Stopped == [at |-> "stopped", ref |-> FirstRef, dry |-> FALSE, dump |-> 0, counts |-> 0]

DeployInit ==
    /\ script = Stopped
    /\ latest = Both(FirstRef) /\ running = Both(FirstRef)
    /\ saved = NoStamp
    /\ schema = Revision[FirstRef]
    /\ rows = 1 /\ written = 0

At(step) == script.at = step
Goto(step) == script' = [script EXCEPT !.at = step]
Stop == script' = Stopped

-----------------------------------------------------------------------------
(* The service *)

Write ==
    /\ written < MaxWritten /\ written' = written + 1
    /\ rows' \in {rows - 1, rows + 1} \cap (0 .. MaxRows)
    /\ UNCHANGED <<script, hostVars, schema>>

-----------------------------------------------------------------------------
(* The steps of a deploy *)

preflight ==
    /\ At("stopped")
    /\ \E ref \in Refs, dry \in BOOLEAN :
         script' = [Stopped EXCEPT !.at = "backup", !.ref = ref, !.dry = dry]
    /\ UNCHANGED <<hostVars, schema, rows, written>>

\* Any step may fail, or its connection break, with nothing changed yet.
Die ==
    /\ ~At("stopped") /\ Stop
    /\ UNCHANGED <<hostVars, schema, rows, written>>

\* pg_dump as the app role, in one snapshot.
DumpData ==
    /\ At("backup")
    /\ script' = [script EXCEPT !.at = "counts", !.dump = rows]
    /\ UNCHANGED <<hostVars, schema, rows, written>>

(* "new code must never run on a schema it does not match" (deploy-uat.sh:300): *)
(* no container runs code that knows a migration the database lacks.           *)
NewCodeMeetsItsSchema == Revision[running["backend"]] <= schema

\* The tags of a backup are those of the images tagged latest at that time, whatever the
\* containers run.  live, which is no state of the host, says whether they were running on
\* a schema they match.
TagForRollback(images) ==
    saved' = [images |-> images, live |-> images = running /\ NewCodeMeetsItsSchema,
              stamped |-> TRUE]

\* The live counts, a little later; then the tags and the stamp.
CountAndTag ==
    /\ At("counts")
    /\ script' = [script EXCEPT !.at = "verify", !.counts = rows]
    /\ TagForRollback(latest)
    /\ UNCHANGED <<latest, running, schema, rows, written>>

\* verify_pg_dump_rows.py: an empty dump is trusted only if the live tables are empty too.
DumpAccepted == script.dump = script.counts

VerifyBackup ==
    /\ At("verify") /\ DumpAccepted
    /\ Goto("build")
    /\ UNCHANGED <<hostVars, schema, rows, written>>

\* Both images, here; a rehearsal ends after it.
build ==
    /\ At("build")
    /\ IF script.dry THEN Stop ELSE Goto("ship")
    /\ UNCHANGED <<hostVars, schema, rows, written>>

\* docker load retags latest on the host at once, before anything is migrated; a
\* connection that breaks leaves the images that were through.
Loaded(images, done) == [s \in Services |-> IF s \in done THEN script.ref ELSE images[s]]

ship ==
    /\ At("ship")
    /\ \E done \in SUBSET Services :
         /\ latest' = Loaded(latest, done)
         /\ \/ done = Services /\ Goto("migrate")
            \/ Stop
    /\ UNCHANGED <<running, saved, schema, rows, written>>

\* alembic upgrade head, from the image tagged latest, in one transaction.  It fails on a
\* database at a revision its image does not know; its answer may be lost after the commit.
Upgradable == schema <= Revision[latest["backend"]]

migrate ==
    /\ At("migrate")
    /\ \/ Upgradable /\ schema' = Revision[latest["backend"]] /\ (Goto("check") \/ Stop)
       \/ UNCHANGED schema /\ Goto("check")                 \* exit 0, but not at head
    /\ UNCHANGED <<hostVars, rows, written>>

\* Mutant: alembic's exit status is trusted.
AtHead_Trusted == TRUE

\* "A zero exit is not proof the schema is at head".
AtHead == schema = Revision[latest["backend"]]

CheckHead ==
    /\ At("check") /\ AtHead
    /\ Goto("swap")
    /\ UNCHANGED <<hostVars, schema, rows, written>>

\* docker compose up -d --no-build: containers whose image is not latest's any more are
\* made anew, one after another.
Behind == {s \in Services : running[s] # latest[s]}
Recreated(done) == [s \in Services |-> IF s \in done THEN latest[s] ELSE running[s]]

\* Under pipefail a failure of up, or no line with Recreated or Started in its output, ends
\* the script here.
swap ==
    /\ At("swap")
    /\ \E done \in SUBSET Behind :
         /\ running' = Recreated(done)
         /\ \/ done = Behind /\ done # {} /\ Goto("gate")
            \/ (done # Behind \/ done = {}) /\ Stop
    /\ UNCHANGED <<latest, saved, schema, rows, written>>

\* The containers' health says nothing of the schema: main.py's /health "deliberately
\* touches nothing".
HealthGate ==
    /\ At("gate")
    /\ Goto("done") \/ Goto("rollback")
    /\ UNCHANGED <<hostVars, schema, rows, written>>

Report ==
    /\ At("done") /\ Stop
    /\ UNCHANGED <<hostVars, schema, rows, written>>

\* By the script, or by hand; up may fail half-way.
do_rollback ==
    /\ At("rollback") \/ At("stopped")
    /\ saved.stamped
    /\ latest' = saved.images
    /\ \E done \in SUBSET {s \in Services : running[s] # saved.images[s]} :
         running' = [s \in Services |-> IF s \in done THEN saved.images[s] ELSE running[s]]
    /\ Stop
    /\ UNCHANGED <<saved, schema, rows, written>>

DeployNext ==
    \/ Write \/ Die \/ preflight \/ DumpData \/ CountAndTag \/ VerifyBackup \/ build
    \/ ship \/ migrate \/ CheckHead \/ swap \/ HealthGate \/ Report \/ do_rollback

DeploySpec == DeployInit /\ [][DeployNext]_deployVars

-----------------------------------------------------------------------------

DeployTypeOK ==
    /\ script.at \in {"stopped", "backup", "counts", "verify", "build", "ship", "migrate",
                      "check", "swap", "gate", "done", "rollback"}
    /\ script.ref \in Refs
    /\ {latest, running, saved.images} \subseteq Images
    /\ schema \in {Revision[r] : r \in Refs}
    /\ rows \in 0 .. MaxRows

(* "DONE -- $SHA is live": both services run what was asked for, on a schema   *)
(* at its head, whatever earlier runs had left on the host.                    *)
DoneMeansLive ==
    At("done") => running = Both(script.ref) /\ schema = Revision[script.ref]

(* "it changes nothing a user can see": a rehearsal leaves images, containers  *)
(* and schema, though it moves the stamp that a rollback goes by.              *)
RehearsalsShowNothing == [][script.dry => UNCHANGED <<latest, running, schema>>]_deployVars

(* Nothing but a rollback puts code on a schema it does not match, and only if *)
(* the backup it goes by tagged images that were not running, or did not match *)
(* already: what a run left that stopped between ship and swap.                *)
OnlyStrandedImagesMislead ==
    [][NewCodeMeetsItsSchema /\ ~NewCodeMeetsItsSchema' => do_rollback /\ ~saved.live]_deployVars

\* A deploy tells the truth, shows nothing of a rehearsal, and keeps code on its schema.
DeploysAreSound ==
    [](DeployTypeOK /\ DoneMeansLive) /\ RehearsalsShowNothing /\ OnlyStrandedImagesMislead

=============================================================================
