--------------------------- MODULE LogPartitions ---------------------------
(* The log tables are partitioned by month.  An audited write needs the       *)
(* partition of its month, or it takes the business write of its transaction  *)
(* with it; one daily job creates partitions ahead, another drops those that  *)
(* are older than a table's retention, which an administrator may set to any  *)
(* value.  Either job may fail, or not run, on any day.                       *)
EXTENDS Integers, FiniteSets

CONSTANTS
    LogTables,      \* activity_logs, system_logs, ai_call_logs
    Audited,        \* activity_logs: the table the health route looks at
    MonthDays,      \* days of a month
    Ahead,          \* months_ahead
    Warn,           \* PARTITION_COVERAGE_WARN_MONTHS
    Retentions,     \* values an administrator may set
    DefaultDays,    \* DEFAULT_RETENTION_DAYS
    MaxToday,       \* the last day
    MaxLogged       \* log rows written

ASSUME LogAssumption ==
    /\ Audited \in LogTables
    /\ {MonthDays, Ahead, Warn} \subseteq Nat \ {0} /\ Warn <= Ahead
    /\ Retentions \subseteq Int /\ {DefaultDays, MaxToday, MaxLogged} \subseteq Nat

VARIABLES
    today,
    partitions, \* per table, the months that have one
    logged,     \* rows: the table and the day of created_at
    retention,  \* app_settings
    ensured,    \* the month of the last run that created partitions
    misset      \* tables whose retention has been negative

logVars == <<today, partitions, logged, retention, ensured, misset>>

Month(day) == day \div MonthDays
NextMonthStarts(m) == (m + 1) * MonthDays

-----------------------------------------------------------------------------
(* The jobs *)

\* Mutant: one month short.
Needed_OneShort(m) == m .. (m + Ahead - 1)
Needed(m) == m .. (m + Ahead)

\* srm_ensure_log_partitions: every month that has none, of every table.
EnsurePartitionsExist ==
    /\ partitions' = [t \in LogTables |-> partitions[t] \cup Needed(Month(today))]
    /\ ensured' = Month(today)
    /\ UNCHANGED <<today, logged, retention, misset>>

\* Mutant: a partition's first day decides.
Expired_ByItsStart(m, days) == m * MonthDays <= today - days
Expired(m, days) == NextMonthStarts(m) <= today - days

\* drop_old_partitions: one transaction over all tables, by the settings of its day.
DropOldPartitions ==
    /\ partitions' = [t \in LogTables |-> {m \in partitions[t] : ~Expired(m, retention[t])}]
    /\ logged' = {r \in logged : Month(r.day) \in partitions'[r.table]}
    /\ UNCHANGED <<today, retention, ensured, misset>>

-----------------------------------------------------------------------------
(* The system around them *)

\* Mutant: a row without a partition is accepted.
LogRow_Anywhere(t, day) ==
    /\ Cardinality(logged) < MaxLogged
    /\ logged' = logged \cup {[table |-> t, day |-> day]}
    /\ UNCHANGED <<today, partitions, retention, ensured, misset>>

\* created_at is the day the transaction began, which may have been yesterday.
LogRow(t, day) ==
    /\ Cardinality(logged) < MaxLogged
    /\ Month(day) \in partitions[t]
    /\ logged' = logged \cup {[table |-> t, day |-> day]}
    /\ UNCHANGED <<today, partitions, retention, ensured, misset>>

UpdateSetting(t, days) ==
    /\ retention[t] # days
    /\ retention' = [retention EXCEPT ![t] = days]
    /\ misset' = IF days < 0 THEN misset \cup {t} ELSE misset
    /\ UNCHANGED <<today, partitions, logged, ensured>>

DayPasses ==
    /\ today < MaxToday
    /\ today' = today + 1
    /\ UNCHANGED <<partitions, logged, retention, ensured, misset>>

-----------------------------------------------------------------------------
(* GET /health/partitions *)

Newest(months) == CHOOSE m \in months : \A n \in months : n <= m
MonthsOfCoverage(t) == IF partitions[t] = {} THEN -1 ELSE Newest(partitions[t]) - Month(today)
\* Mutant: any coverage at all is enough.
HealthOk_NotYetOver == MonthsOfCoverage(Audited) >= 0
HealthOk == MonthsOfCoverage(Audited) >= Warn

-----------------------------------------------------------------------------

\* The migration leaves no gap behind.
LogInit ==
    /\ today = 0
    /\ partitions = [t \in LogTables |-> Needed(0)]
    /\ logged = {}
    /\ retention = [t \in LogTables |-> DefaultDays]
    /\ ensured = 0 /\ misset = {}

LogNext ==
    \/ EnsurePartitionsExist \/ DropOldPartitions \/ DayPasses
    \/ \E t \in LogTables, day \in {today, today - 1} \cap Nat : LogRow(t, day)
    \/ \E t \in LogTables, days \in Retentions : UpdateSetting(t, days)

LogSpec == LogInit /\ [][LogNext]_logVars

-----------------------------------------------------------------------------
(* Properties *)

LogTypeOK ==
    /\ today \in 0..MaxToday
    /\ partitions \in [LogTables -> SUBSET (0 .. Month(MaxToday) + Ahead)]
    /\ logged \subseteq [table : LogTables, day : 0..today]
    /\ \A r \in logged : Month(r.day) \in partitions[r.table]
    /\ retention \in [LogTables -> Retentions \cup {DefaultDays}]
    /\ ensured \in 0..Month(today) /\ misset \subseteq LogTables

(* For as many months as the job prepared, no audited write fails for want of *)
(* a partition, however often the jobs fail afterwards and whatever the       *)
(* retention job drops, unless a retention is set below zero.                 *)
AuditedWritesLand ==
    \A t \in LogTables \ misset : Month(today) <= ensured + Ahead => Month(today) \in partitions[t]

(* "ok" means that writes of every log table would land for the months it     *)
(* promises, though it looks at the newest partition of one table only.       *)
HealthIsHonest ==
    HealthOk /\ misset = {} =>
        \A t \in LogTables : Month(today) .. (Month(today) + Warn) \subseteq partitions[t]

(* No row is dropped before its table's retention, as it is set at that       *)
(* moment, has passed since the day it was written.                           *)
RetentionIsKept ==
    [][\A r \in logged : r \notin logged' => r.day < today - retention[r.table]]_logVars

\* The log tables take the writes of the months ahead, report so truthfully, and forget a
\* row no sooner than they were told to.
LogsAreKept == [](LogTypeOK /\ AuditedWritesLand /\ HealthIsHonest) /\ RetentionIsKept

=============================================================================
