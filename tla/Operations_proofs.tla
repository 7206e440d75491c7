------------------------- MODULE Operations_proofs --------------------------
(***************************************************************************)
(* What holds of LogPartitions, InspectionProtocols, UatDeploy and         *)
(* DataReset for any tables, months, retentions, labels, screens, records, *)
(* revisions, failures, rows, accounts and runs.                           *)
(***************************************************************************)
EXTENDS LogPartitions, InspectionProtocols, UatDeploy, DataReset, TLAPS, FiniteSetTheorems, WellFoundedInduction

-----------------------------------------------------------------------------
(***************************************************************************)
(* The log tables: a month is covered as far ahead as the last run that    *)
(* succeeded saw to (Coverage), and nothing is partitioned beyond          *)
(* (NoneBeyond).                                                           *)
(***************************************************************************)

\* A day lies in its month.
LEMMA MonthBounds ==
  ASSUME NEW d \in Nat
  PROVE  /\ Month(d) \in Nat
         /\ Month(d) * MonthDays <= d
         /\ d < NextMonthStarts(Month(d))
<1>1. MonthDays \in Nat \ {0}
  BY LogAssumption
<1> QED BY <1>1 DEF Month, NextMonthStarts

\* Later days lie in no earlier months.
LEMMA MonthGrows ==
  ASSUME NEW c \in Nat, NEW d \in Nat, c <= d PROVE Month(c) <= Month(d)
<1>1. MonthDays \in Nat \ {0}
  BY LogAssumption
<1> QED BY <1>1 DEF Month

\* A month that has ended is earlier than that of today.
LEMMA EarlierMonth ==
  ASSUME NEW m \in Nat, NEW d \in Nat, NextMonthStarts(m) <= d PROVE m < Month(d)
<1>1. MonthDays \in Nat \ {0}
  BY LogAssumption
<1> PICK k \in Nat : k = Month(d)
  BY MonthBounds
<1> SUFFICES ASSUME k <= m PROVE FALSE
  OBVIOUS
<1> PICK q \in Nat : q = m - k
  OBVIOUS
<1>2. (m + 1) * MonthDays = (k + 1) * MonthDays + q * MonthDays
  BY <1>1
<1>3. q * MonthDays \in Nat
  BY <1>1
<1>4. d < (k + 1) * MonthDays
  BY MonthBounds DEF NextMonthStarts
<1>5. (m + 1) * MonthDays <= d
  BY DEF NextMonthStarts
<1> PICK a \in Nat : a = (k + 1) * MonthDays
  BY <1>1
<1> PICK b \in Nat : b = (m + 1) * MonthDays
  BY <1>1
<1> PICK c \in Nat : c = q * MonthDays
  BY <1>3
<1> QED BY <1>2, <1>4, <1>5

-----------------------------------------------------------------------------
Coverage == \A t \in LogTables \ misset :
                Month(today) .. (ensured + Ahead) \subseteq partitions[t]

\* No partition lies beyond the months of the last run that created any.
NoneBeyond == \A t \in LogTables : partitions[t] \subseteq 0 .. (ensured + Ahead)

LogInv ==
    /\ LogTypeOK
    /\ \A t \in LogTables \ misset : retention[t] \in Nat
    /\ Coverage /\ NoneBeyond

\* What the assumption says of the constants.
LEMMA LogConstants ==
  /\ Audited \in LogTables /\ MonthDays \in Nat \ {0} /\ Ahead \in Nat \ {0} /\ Warn \in Nat \ {0}
  /\ Warn <= Ahead /\ Retentions \subseteq Int /\ DefaultDays \in Nat /\ MaxToday \in Nat
  BY LogAssumption

\* Today, and the day the partitions were last ensured, are days with months.
LEMMA TodaysMonth ==
  ASSUME LogTypeOK
  PROVE  /\ today \in Nat /\ Month(today) \in Nat /\ Month(MaxToday) \in Nat
         /\ Month(today) <= Month(MaxToday)
         /\ ensured \in Nat /\ ensured <= Month(today)
<1>1. today \in Nat /\ today <= MaxToday
  BY LogConstants DEF LogTypeOK
<1>2. Month(today) \in Nat /\ Month(MaxToday) \in Nat /\ Month(today) <= Month(MaxToday)
  BY <1>1, LogConstants, MonthBounds, MonthGrows
<1> QED BY <1>1, <1>2 DEF LogTypeOK

\* At the first start the partitions of this month and those ahead are there.
LEMMA LogInitInv == LogInit => LogInv
<1> SUFFICES ASSUME LogInit PROVE LogInv
  OBVIOUS
<1>1. Month(0) = 0 /\ Month(MaxToday) \in Nat
  BY LogConstants, MonthBounds DEF Month
<1>2. \A t \in LogTables : partitions[t] = 0 .. Ahead
  BY LogConstants DEF LogInit, Needed
<1>3. LogTypeOK
  BY <1>1, <1>2, LogConstants DEF LogInit, LogTypeOK, Needed
<1>4. Coverage /\ NoneBeyond
  BY <1>1, <1>2, LogConstants DEF LogInit, Coverage, NoneBeyond
<1> QED BY <1>3, <1>4, LogConstants DEF LogInit, LogInv

\* The job that creates partitions ahead.
LEMMA EnsureInv == ASSUME LogInv, EnsurePartitionsExist PROVE LogInv'
<1> USE LogConstants
<1>0. LogTypeOK
  BY DEF LogInv
<1> PICK m \in Nat : m = Month(today)
  BY <1>0, TodaysMonth
<1>1. ensured' = m /\ UNCHANGED <<today, logged, retention, misset>>
  BY DEF EnsurePartitionsExist
<1>2. \A t \in LogTables : partitions'[t] = partitions[t] \cup m .. (m + Ahead)
  BY DEF EnsurePartitionsExist, Needed
<1>3. m \in 0 .. Month(MaxToday) /\ ensured \in 0 .. m /\ Month(MaxToday) \in Nat
  BY <1>0, TodaysMonth
<1>4. partitions' \in [LogTables -> SUBSET (0 .. Month(MaxToday) + Ahead)]
  <2>1. \A t \in LogTables : partitions'[t] \subseteq 0 .. Month(MaxToday) + Ahead
    BY <1>0, <1>2, <1>3 DEF LogTypeOK
  <2>2. partitions' = [t \in LogTables |-> partitions'[t]]
    BY DEF EnsurePartitionsExist
  <2> QED BY <2>1, <2>2
<1>5. \A r \in logged : Month(r.day) \in partitions'[r.table]
  BY <1>0, <1>2 DEF LogTypeOK
<1>6. Month(today') = m
  BY <1>1
<1>7. LogTypeOK'
  BY <1>0, <1>1, <1>3, <1>4, <1>5, <1>6 DEF LogTypeOK
<1>8. Coverage'
  BY <1>1, <1>2, <1>6 DEF Coverage
<1>9. NoneBeyond'
  BY <1>1, <1>2, <1>3 DEF LogInv, NoneBeyond
<1> QED BY <1>1, <1>7, <1>8, <1>9 DEF LogInv

\* What a retention that is not negative drops lies before this month.
LEMMA DropsThePast ==
  ASSUME LogTypeOK, NEW m \in Nat, NEW days \in Nat, Expired(m, days)
  PROVE  m < Month(today)
<1>1. today \in Nat /\ Month(today) \in Nat /\ NextMonthStarts(m) \in Nat
  BY TodaysMonth, LogConstants DEF NextMonthStarts
<1>2. NextMonthStarts(m) <= today
  BY <1>1 DEF Expired
<1> QED BY <1>1, <1>2, EarlierMonth

\* The job that drops what is older than its retention.
LEMMA DropInv == ASSUME LogInv, DropOldPartitions PROVE LogInv'
<1> USE LogConstants
<1>0. LogTypeOK
  BY DEF LogInv
<1>1. UNCHANGED <<today, retention, ensured, misset>>
  BY DEF DropOldPartitions
<1>2. \A t \in LogTables : partitions'[t] = {m \in partitions[t] : ~Expired(m, retention[t])}
  BY DEF DropOldPartitions
<1>3. partitions' \in [LogTables -> SUBSET (0 .. Month(MaxToday) + Ahead)]
  <2>1. partitions' = [t \in LogTables |-> partitions'[t]]
    BY DEF DropOldPartitions
  <2>2. \A t \in LogTables : partitions'[t] \subseteq 0 .. Month(MaxToday) + Ahead
    BY <1>0, <1>2 DEF LogTypeOK
  <2> QED BY <2>1, <2>2
<1>4. logged' = {r \in logged : Month(r.day) \in partitions'[r.table]}
  BY DEF DropOldPartitions
<1>5. Month(today') = Month(today)
  BY <1>1
<1>6. LogTypeOK'
  BY <1>0, <1>1, <1>3, <1>4, <1>5 DEF LogTypeOK
<1>7. Coverage'
  <2> SUFFICES ASSUME NEW t \in LogTables \ misset, NEW m \in Month(today) .. (ensured + Ahead)
               PROVE  m \in partitions'[t]
    BY <1>1, <1>5 DEF Coverage
  <2>1. m \in partitions[t] /\ retention[t] \in Nat
    BY DEF LogInv, Coverage
  <2>2. m \in Nat /\ ~(m < Month(today))
    BY <1>0, TodaysMonth
  <2>3. ~Expired(m, retention[t])
    BY <1>0, <2>1, <2>2, DropsThePast
  <2> QED BY <1>2, <2>1, <2>3
<1>8. NoneBeyond'
  BY <1>1, <1>2 DEF LogInv, NoneBeyond
<1> QED BY <1>1, <1>6, <1>7, <1>8 DEF LogInv

\* A row is written, where there is a partition for it.
LEMMA LogRowInv ==
  ASSUME LogInv, NEW t \in LogTables, NEW day \in {today, today - 1} \cap Nat, LogRow(t, day)
  PROVE  LogInv'
<1> USE LogConstants
<1>0. LogTypeOK
  BY DEF LogInv
<1>1. day \in 0 .. today
  BY <1>0, TodaysMonth
<1>2. logged' = logged \cup {[table |-> t, day |-> day]} /\ Month(day) \in partitions[t]
      /\ UNCHANGED <<today, partitions, retention, ensured, misset>>
  BY DEF LogRow
<1>3. Month(today') = Month(today)
  BY <1>2
<1>4. LogTypeOK'
  BY <1>0, <1>1, <1>2, <1>3 DEF LogTypeOK
<1> QED BY <1>2, <1>3, <1>4 DEF LogInv, Coverage, NoneBeyond

\* A retention is set.
LEMMA SettingInv ==
  ASSUME LogInv, NEW t \in LogTables, NEW days \in Retentions, UpdateSetting(t, days)
  PROVE  LogInv'
<1> USE LogConstants
<1>0. LogTypeOK
  BY DEF LogInv
<1>1. UNCHANGED <<today, partitions, logged, ensured>>
      /\ retention' = [retention EXCEPT ![t] = days]
  BY DEF UpdateSetting
<1>2. misset' = IF days < 0 THEN misset \cup {t} ELSE misset
  BY DEF UpdateSetting
<1>3. Month(today') = Month(today)
  BY <1>1
<1>4. LogTypeOK'
  BY <1>0, <1>1, <1>2, <1>3 DEF LogTypeOK
<1>5. days \in Int
  OBVIOUS
<1>6. \A s \in LogTables \ misset' : retention'[s] \in Nat
  BY <1>0, <1>1, <1>2, <1>5 DEF LogTypeOK, LogInv
<1>7. Coverage' /\ NoneBeyond'
  BY <1>1, <1>2, <1>3 DEF LogInv, Coverage, NoneBeyond
<1> QED BY <1>4, <1>6, <1>7 DEF LogInv

\* A day passes.
LEMMA DayInv == ASSUME LogInv, DayPasses PROVE LogInv'
<1> USE LogConstants
<1>0. LogTypeOK
  BY DEF LogInv
<1>1. today' = today + 1 /\ today' \in 0 .. MaxToday
      /\ UNCHANGED <<partitions, logged, retention, ensured, misset>>
  BY <1>0, TodaysMonth DEF DayPasses
<1>2. /\ today \in Nat /\ Month(today) \in Nat /\ Month(today') \in Nat /\ ensured \in Nat
      /\ Month(today) <= Month(today') /\ ensured <= Month(today)
  BY <1>0, <1>1, TodaysMonth, MonthBounds, MonthGrows
<1>3. LogTypeOK'
  BY <1>0, <1>1, <1>2 DEF LogTypeOK
<1>4. Coverage'
  BY <1>1, <1>2 DEF LogInv, Coverage
<1>5. NoneBeyond'
  BY <1>1 DEF LogInv, NoneBeyond
<1> QED BY <1>1, <1>3, <1>4, <1>5 DEF LogInv

\* Every step keeps the invariant.
LEMMA LogNextInv == ASSUME LogInv, [LogNext]_logVars PROVE LogInv'
<1>1. CASE UNCHANGED logVars
  BY <1>1 DEF logVars, LogInv, LogTypeOK, Coverage, NoneBeyond, Month
<1> QED
  BY <1>1, EnsureInv, DropInv, LogRowInv, SettingInv, DayInv DEF LogNext

-----------------------------------------------------------------------------
LessThan == {ss \in Nat \X Nat : ss[1] < ss[2]}

\* The order of the natural numbers is well founded, in the form the library asks for.
LEMMA LessThanWF == IsWellFoundedOn(LessThan, Nat)
<1>1. OpToRel(<, Nat) = LessThan
  BY Zenon DEF OpToRel, LessThan
<1> QED BY Zenon, <1>1, NatLessThanWellFounded

\* A set of naturals below a bound has a newest member.
LEMMA NewestIs ==
  ASSUME NEW bound \in Nat, NEW months \in SUBSET (0 .. bound), months # {}
  PROVE  Newest(months) \in months
<1> DEFINE Down == {n \in Nat : n <= bound /\ bound - n \in months}
<1>1. Down \subseteq Nat /\ Down # {}
  <2>1. PICK x \in months : TRUE
    OBVIOUS
  <2>2. bound - x \in Nat /\ bound - (bound - x) = x /\ bound - x <= bound
    BY <2>1
  <2> QED BY <2>1, <2>2
<1>2. PICK n \in Down : \A y \in Down : ~(<<y, n>> \in LessThan)
  <2> HIDE DEF Down
  <2> QED BY <1>1, WFMin, LessThanWF
<1>3. ASSUME NEW y \in months PROVE y <= bound - n
  <2>1. y \in Int /\ bound - y \in Nat /\ bound - (bound - y) = y /\ bound - y <= bound
    OBVIOUS
  <2>2. bound - y \in Down /\ ~(bound - y < n)
    BY <1>2, <2>1 DEF LessThan
  <2> QED BY <2>1, <2>2
<1>4. \E m \in months : \A y \in months : y <= m
  BY <1>2, <1>3
<1> QED BY <1>4 DEF Newest

\* What the health check calls well has partitions for the months to come.
LEMMA HealthTells == LogInv => HealthIsHonest
<1> SUFFICES ASSUME LogInv, HealthOk, misset = {}, NEW t \in LogTables
             PROVE  Month(today) .. (Month(today) + Warn) \subseteq partitions[t]
  BY DEF HealthIsHonest
<1> USE LogConstants
<1>1. Month(today) \in Nat /\ ensured \in Nat
  BY TodaysMonth DEF LogInv
<1>2. partitions[Audited] # {}
  BY DEF HealthOk, MonthsOfCoverage
<1>3. partitions[Audited] \subseteq 0 .. (ensured + Ahead)
  BY DEF LogInv, NoneBeyond
<1>4. Newest(partitions[Audited]) \in 0 .. (ensured + Ahead)
  <2>1. PICK bound \in Nat : bound = ensured + Ahead
    BY <1>1
  <2>2. partitions[Audited] \in SUBSET (0 .. bound)
    BY <1>3, <2>1
  <2>3. Newest(partitions[Audited]) \in partitions[Audited]
    BY <1>2, <2>2, NewestIs
  <2> QED BY <1>3, <2>3
<1>5. Month(today) + Warn <= ensured + Ahead
  BY <1>1, <1>2, <1>4 DEF HealthOk, MonthsOfCoverage
<1>6. Month(today) .. (ensured + Ahead) \subseteq partitions[t]
  BY DEF LogInv, Coverage
<1> QED BY <1>1, <1>5, <1>6

\* While the job ran within the months it creates ahead, a row of today has its partition.
LEMMA WritesLand == LogInv => AuditedWritesLand
<1> SUFFICES ASSUME LogInv, NEW t \in LogTables \ misset, Month(today) <= ensured + Ahead
             PROVE  Month(today) \in partitions[t]
  BY DEF AuditedWritesLand
<1>1. Month(today) \in Nat /\ ensured \in Nat
  BY TodaysMonth DEF LogInv
<1> QED BY <1>1, LogConstants DEF LogInv, Coverage

\* Only rows beyond their retention are dropped.
LEMMA ForgetStep ==
  ASSUME LogInv, LogNext, NEW r \in logged, r \notin logged'
  PROVE  r.day < today - retention[r.table]
<1> USE LogConstants
<1>1. DropOldPartitions
  BY DEF LogNext, EnsurePartitionsExist, LogRow, UpdateSetting, DayPasses
<1>2. r.table \in LogTables /\ r.day \in Nat /\ Month(r.day) \in partitions[r.table]
  BY TodaysMonth DEF LogInv, LogTypeOK
<1>3. Expired(Month(r.day), retention[r.table])
  BY <1>1, <1>2 DEF DropOldPartitions
<1>4. NextMonthStarts(Month(r.day)) <= today - retention[r.table]
  BY <1>3 DEF Expired
<1>5. r.day < NextMonthStarts(Month(r.day)) /\ Month(r.day) \in Nat
  BY <1>2, MonthBounds
<1>6. NextMonthStarts(Month(r.day)) \in Nat
  BY <1>5 DEF NextMonthStarts
<1>7. retention[r.table] \in Int /\ today \in Nat
  <2>1. retention \in [LogTables -> Retentions \cup {DefaultDays}] /\ today \in Nat
    BY TodaysMonth DEF LogInv, LogTypeOK
  <2>2. retention[r.table] \in Retentions \cup {DefaultDays}
    BY <1>2, <2>1
  <2>3. Retentions \cup {DefaultDays} \subseteq Int
    BY DEF LogTypeOK
  <2>4. retention[r.table] \in Int
    BY <2>2, <2>3, Zenon
  <2> QED BY <2>1, <2>4
<1> QED BY <1>2, <1>4, <1>5, <1>6, <1>7

\* The log tables take the writes of the months ahead, report so truthfully, and forget
\* a row no sooner than they were told to: scheduler.py and the health route, for months
\* of any length, any retentions, and jobs that fail on any day.
THEOREM KeptLogs == LogSpec => LogsAreKept
<1>1. LogInv => LogTypeOK /\ AuditedWritesLand /\ HealthIsHonest
  BY WritesLand, HealthTells DEF LogInv
<1>2. LogInv /\ [LogNext]_logVars => LogInv'
  BY LogNextInv
<1>3. LogInv /\ [LogNext]_logVars =>
        [\A r \in logged : r \notin logged' => r.day < today - retention[r.table]]_logVars
  BY ForgetStep
<1> QED
  BY <1>1, <1>2, <1>3, LogInitInv, PTL DEF LogSpec, LogsAreKept, RetentionIsKept

-----------------------------------------------------------------------------
(***************************************************************************)
(* The labels of the inspection protocols: what a record's snapshot holds  *)
(* is what was in force (Faithful), and what a screen sends is what was    *)
(* retyped on it (Requested).                                              *)
(***************************************************************************)

Screen == [at : {"view", "edit", "sent", "read"}, shown : Labelling, typed : Labelling,
           sent : Labelling, read : Labelling]
Marks == [Slots -> Scores \cup {Blank}]
Snapshots == [Slots -> [label : Wordings, score : Scores \cup {Blank}]]
Kept == [scores : Marks, snapshot : Snapshots \cup {Blank},
         force : [Slots -> Wordings \cup {Fallback, Blank}]]

\* A snapshot holds the labels in force and the scores in the columns.
Faithful(k) == IF k.snapshot = Blank THEN k.force = [s \in Slots |-> Fallback]
               ELSE k.snapshot = [s \in Slots |-> [label |-> k.force[s], score |-> k.scores[s]]]

\* What is under way was typed over what its screen still shows.
Requested(d) == desk[d].at \in {"sent", "read"} => desk[d].sent = Changed(d)

ProtocolInv ==
    /\ label \in Labelling
    /\ desk \in [Desks -> Screen]
    /\ kept \in [Sheets -> Kept]
    /\ \A r \in Sheets : kept[r] # NoFile => Faithful(kept[r])
    /\ \A d \in Desks : Requested(d)

\* A screen that only shows labels is one.
LEMMA ScreenLooking == \A labels \in Labelling : Looking(labels) \in Screen
  BY DEF Looking, Screen, Unscored, Labelling

\* No sheet is filed at first, and every screen shows the labels as they are.
LEMMA ProtocolInitInv == ProtocolInit => ProtocolInv
<1> SUFFICES ASSUME ProtocolInit PROVE ProtocolInv
  OBVIOUS
<1>1. label \in Labelling
  BY ProtocolAssumption DEF ProtocolInit, Labelling
<1>2. desk \in [Desks -> Screen]
  BY <1>1, ScreenLooking DEF ProtocolInit
<1>3. NoFile \in Kept
  BY DEF NoFile, Kept, Marks, Unscored
<1> QED
  BY <1>1, <1>2, <1>3 DEF ProtocolInit, ProtocolInv, Requested, Looking

\* A filed sheet shows the labels that were in force, with its scores.
LEMMA DisplayFaithful ==
  ASSUME ProtocolInv, NEW r \in Sheets, kept[r] # NoFile
  PROVE  ScoreDisplay(r) = [s \in Slots |-> [label |-> kept[r].force[s], score |-> kept[r].scores[s]]]
<1> DEFINE shown(s) == [label |-> IF kept[r].snapshot = Blank \/ kept[r].snapshot[s].label = Blank
                                  THEN Fallback ELSE kept[r].snapshot[s].label,
                        score |-> IF kept[r].snapshot = Blank \/ kept[r].snapshot[s].score = Blank
                                  THEN kept[r].scores[s] ELSE kept[r].snapshot[s].score]
<1>1. kept[r] \in Kept /\ Faithful(kept[r])
  BY DEF ProtocolInv
<1>2. CASE kept[r].snapshot = Blank
  BY <1>1, <1>2 DEF Faithful, ScoreDisplay
<1>3. CASE kept[r].snapshot # Blank
  <2>1. kept[r].snapshot \in Snapshots
    BY <1>1, <1>3 DEF Kept
  <2>2. \A s \in Slots : /\ kept[r].snapshot[s].label = kept[r].force[s]
                         /\ kept[r].snapshot[s].score = kept[r].scores[s]
                         /\ kept[r].snapshot[s].label # Blank
    <3>1. kept[r].snapshot = [s \in Slots |-> [label |-> kept[r].force[s],
                                                score |-> kept[r].scores[s]]]
      BY <1>1, <1>3 DEF Faithful
    <3>2. \A s \in Slots : kept[r].snapshot[s].label \in Wordings
      BY <2>1 DEF Snapshots
    <3>3. \A s \in Slots : kept[r].snapshot[s].label # Blank
      BY <3>2, ProtocolAssumption
    <3>4. \A s \in Slots : kept[r].snapshot[s] = [label |-> kept[r].force[s],
                                                   score |-> kept[r].scores[s]]
      BY <3>1, Zenon
    <3> SUFFICES ASSUME NEW s \in Slots
                 PROVE  /\ kept[r].snapshot[s].label = kept[r].force[s]
                        /\ kept[r].snapshot[s].score = kept[r].scores[s]
                        /\ kept[r].snapshot[s].label # Blank
      OBVIOUS
    <3> PICK x : x = kept[r].snapshot[s]
      OBVIOUS
    <3>5. x = [label |-> kept[r].force[s], score |-> kept[r].scores[s]]
      BY <3>4
    <3>6. x.label = kept[r].force[s] /\ x.score = kept[r].scores[s]
      BY <3>5
    <3>7. x.label # Blank
      BY <3>3
    <3> QED BY <3>6, <3>7
  <2>a. \A s \in Slots : (IF kept[r].snapshot = Blank \/ kept[r].snapshot[s].label = Blank
                           THEN Fallback ELSE kept[r].snapshot[s].label) = kept[r].force[s]
    BY <1>3, <2>2
  <2>b. \A s \in Slots : (IF kept[r].snapshot = Blank \/ kept[r].snapshot[s].score = Blank
                           THEN kept[r].scores[s] ELSE kept[r].snapshot[s].score) = kept[r].scores[s]
    BY <1>3, <2>2
  <2>3. \A s \in Slots : shown(s) = [label |-> kept[r].force[s], score |-> kept[r].scores[s]]
    BY <2>a, <2>b
  <2> HIDE DEF shown
  <2>4. ScoreDisplay(r) = [s \in Slots |-> shown(s)]
    BY DEF ScoreDisplay, shown
  <2> QED BY <2>3, <2>4
<1> QED BY <1>2, <1>3

\* A sheet is filed with the labels of its season.
LEMMA FileStep ==
  ASSUME ProtocolInv, NEW r \in Sheets, NEW scores \in Marks, NEW own,
         File(r, scores, own)
  PROVE  ProtocolInv'
<1> DEFINE k == [scores |-> scores, snapshot |-> ApplyProtocolSnapshot(scores, own),
                 force |-> IF IsComplete THEN label ELSE [s \in Slots |-> Fallback]]
<1>1. kept' = [kept EXCEPT ![r] = k] /\ UNCHANGED <<label, desk>>
  BY DEF File
<1>2. k \in Kept /\ Faithful(k)
  <2>1. CASE IsComplete
    <3>1. \A s \in Slots : label[s] \in Wordings
      BY <2>1 DEF IsComplete, ProtocolInv, Labelling
    <3>2. BuildSnapshot(scores) \in Snapshots
      BY <3>1 DEF BuildSnapshot, Snapshots, Marks
    <3>3. BuildSnapshot(scores) # Blank
      BY <3>2, ProtocolAssumption DEF Snapshots
    <3>4. k = [scores |-> scores, snapshot |-> BuildSnapshot(scores), force |-> label]
      BY <2>1 DEF ApplyProtocolSnapshot
    <3>5. label \in [Slots -> Wordings \cup {Fallback, Blank}]
      BY DEF ProtocolInv, Labelling
    <3> HIDE DEF k
    <3> QED BY <3>2, <3>3, <3>4, <3>5 DEF Kept, Faithful, BuildSnapshot
  <2>2. CASE ~IsComplete
    BY <2>2 DEF ApplyProtocolSnapshot, Kept, Faithful
  <2> QED BY <2>1, <2>2
<1> HIDE DEF k
<1>3. kept' \in [Sheets -> Kept]
  BY <1>1, <1>2 DEF ProtocolInv
<1>4. \A q \in Sheets : kept'[q] # NoFile => Faithful(kept'[q])
  BY <1>1, <1>2 DEF ProtocolInv
<1> QED BY <1>1, <1>3, <1>4 DEF ProtocolInv, Requested, Changed

\* A step of one screen that leaves the records alone.
LEMMA DeskStep ==
  ASSUME ProtocolInv, NEW d \in Desks, NEW x \in Screen,
         desk' = [desk EXCEPT ![d] = x], UNCHANGED kept, label' \in Labelling,
         x.at \in {"sent", "read"} =>
            x.sent = [s \in Slots |-> IF x.typed[s] = x.shown[s] THEN Blank ELSE x.typed[s]]
  PROVE  ProtocolInv'
  BY DEF ProtocolInv, Requested, Changed

\* Labels are shown, typed and saved, and no filed sheet changes.
LEMMA ScreenStep ==
  ASSUME ProtocolInv, NEW d \in Desks,
         \/ Refetch(d) \/ Cancel(d) \/ Save(d) \/ ReadCriteria(d) \/ BulkUpdate(d) \/ Refused(d)
         \/ \E s \in Slots, w \in Wordings : Type(d, s, w)
  PROVE  ProtocolInv'
<1>0. desk[d] \in Screen /\ label \in Labelling /\ Requested(d) /\ desk \in [Desks -> Screen]
  BY DEF ProtocolInv
<1>1. CASE Refetch(d)
  BY <1>0, <1>1, ScreenLooking, DeskStep DEF Refetch, Looking
<1>2. CASE Cancel(d)
  <2>1. Looking(desk[d].shown) \in Screen
    BY <1>0, ScreenLooking DEF Screen
  <2> QED BY <1>0, <1>2, <2>1, DeskStep DEF Cancel, Looking
<1>3. CASE Save(d)
  <2> PICK x : x = [desk[d] EXCEPT !.at = "sent", !.sent = Changed(d)]
    OBVIOUS
  <2>1. Changed(d) \in Labelling
    BY <1>0 DEF Changed, Labelling, Screen
  <2>2. x \in Screen
    BY <1>0, <2>1 DEF Screen
  <2>3. desk' = [desk EXCEPT ![d] = x] /\ UNCHANGED <<label, kept>>
    BY <1>3 DEF Save
  <2>4. x.sent = [s \in Slots |-> IF x.typed[s] = x.shown[s] THEN Blank ELSE x.typed[s]]
    BY <1>0 DEF Changed, Screen
  <2>5. label' \in Labelling
    BY <1>0, <2>3
  <2> QED BY <2>2, <2>3, <2>4, <2>5, DeskStep
<1>4. CASE ReadCriteria(d)
  <2> PICK x : x = [desk[d] EXCEPT !.at = "read", !.read = label]
    OBVIOUS
  <2>1. x \in Screen /\ x.sent = desk[d].sent /\ x.typed = desk[d].typed /\ x.shown = desk[d].shown
    BY <1>0 DEF Screen
  <2>2. desk' = [desk EXCEPT ![d] = x] /\ UNCHANGED <<label, kept>> /\ desk[d].at = "sent"
    BY <1>4 DEF ReadCriteria
  <2>3. x.sent = [s \in Slots |-> IF x.typed[s] = x.shown[s] THEN Blank ELSE x.typed[s]]
    BY <1>0, <2>1, <2>2 DEF Requested, Changed
  <2>4. label' \in Labelling
    BY <1>0, <2>2
  <2> QED BY <2>1, <2>2, <2>3, <2>4, DeskStep
<1>5. CASE BulkUpdate(d)
  <2>1. label' \in Labelling
    BY <1>0, <1>5 DEF BulkUpdate, Labelling, Screen
  <2> PICK x : x = Looking(label')
    OBVIOUS
  <2>2. x \in Screen /\ x.at = "view"
    BY <2>1, ScreenLooking DEF Looking
  <2>3. desk' = [desk EXCEPT ![d] = x] /\ UNCHANGED kept
    BY <1>5 DEF BulkUpdate
  <2> QED BY <2>1, <2>2, <2>3, DeskStep
<1>6. CASE Refused(d)
  BY <1>0, <1>6, ScreenLooking, DeskStep DEF Refused, Looking
<1>7. ASSUME NEW s \in Slots, NEW w \in Wordings, Type(d, s, w) PROVE ProtocolInv'
  <2> PICK x : x = [desk[d] EXCEPT !.at = "edit", !.typed[s] = w]
    OBVIOUS
  <2>1. [desk[d].typed EXCEPT ![s] = w] \in Labelling
    BY <1>0 DEF Labelling, Screen
  <2>2. x \in Screen /\ x.at = "edit"
    BY <1>0, <2>1 DEF Screen
  <2>3. desk' = [desk EXCEPT ![d] = x] /\ UNCHANGED <<label, kept>>
    BY <1>7 DEF Type
  <2> QED BY <1>0, <2>2, <2>3, DeskStep
<1> QED BY <1>1, <1>2, <1>3, <1>4, <1>5, <1>6, <1>7

\* Every step keeps the invariant.
LEMMA ProtocolNextInv ==
  ASSUME ProtocolInv, [ProtocolNext]_protocolVars PROVE ProtocolInv'
<1>1. CASE UNCHANGED protocolVars
  BY <1>1 DEF protocolVars, ProtocolInv, Requested, Changed
<1>2. CASE ProtocolNext
  BY <1>2, ScreenStep, FileStep DEF ProtocolNext, Marks
<1> QED BY <1>1, <1>2

\* Labels change in one action only, and by what it was sent.
LEMMA RetypedStep ==
  ASSUME ProtocolInv, ProtocolNext, NEW s \in Slots, label'[s] # label[s]
  PROVE  \E d \in Desks : /\ desk[d].at = "read" /\ label'[s] = desk[d].typed[s]
                          /\ desk[d].typed[s] # desk[d].shown[s]
<1>1. PICK d \in Desks : BulkUpdate(d)
  BY DEF ProtocolNext, Refetch, Cancel, Save, ReadCriteria, Refused, Type, File
<1>2. desk[d].at = "read" /\ desk[d].sent[s] # Blank /\ label'[s] = desk[d].sent[s]
  BY <1>1 DEF BulkUpdate
<1>3. desk[d].sent = Changed(d)
  BY <1>2 DEF ProtocolInv, Requested
<1> QED BY <1>2, <1>3 DEF Changed

\* Labels change only where somebody retyped them, and what was filed reads as it did:
\* inspection_protocols_admin.py and its screen, for any number of screens, slots and records.
THEOREM StandingLabels == ProtocolSpec => LabelsStand
<1>1. ProtocolInv => ProtocolTypeOK /\ HistoryReadsAsFiled
  <2> SUFFICES ASSUME ProtocolInv PROVE ProtocolTypeOK /\ HistoryReadsAsFiled
    OBVIOUS
  <2>1. HistoryReadsAsFiled
    BY DisplayFaithful DEF HistoryReadsAsFiled
  <2>2. \A d \in Desks : desk[d] \in Screen
    BY DEF ProtocolInv
  <2>3. \A r \in Sheets : kept[r] \in Kept
    BY DEF ProtocolInv
  <2> QED BY <2>1, <2>2, <2>3 DEF ProtocolInv, ProtocolTypeOK, Screen, Kept, Marks, Snapshots
<1>2. ProtocolInv /\ [ProtocolNext]_protocolVars => ProtocolInv'
  BY ProtocolNextInv
<1>3. ProtocolInv /\ [ProtocolNext]_protocolVars =>
        [\A s \in Slots : label'[s] # label[s] =>
          \E d \in Desks : /\ desk[d].at = "read" /\ label'[s] = desk[d].typed[s]
                           /\ desk[d].typed[s] # desk[d].shown[s]]_protocolVars
  BY RetypedStep
<1> QED
  BY <1>1, <1>2, <1>3, ProtocolInitInv, PTL DEF ProtocolSpec, LabelsStand, UntouchedLabelsSurvive

-----------------------------------------------------------------------------
(***************************************************************************)
(* Deployment: what the script knows of the host at each of its steps      *)
(* (Shipped, Migrated, Swapped, Rehearsing), and what a tag tells of the   *)
(* images it was put on (SavedLive).                                       *)
(***************************************************************************)

Steps == {"stopped", "backup", "counts", "verify", "build", "ship", "migrate",
          "check", "swap", "gate", "done", "rollback"}

\* What the script knows of the host at each of its steps, and what a tag tells of the
\* images it was put on.
ScriptTyped ==
    /\ script \in [at : Steps, ref : Refs, dry : BOOLEAN, dump : Nat, counts : Nat]
    /\ latest \in Images /\ running \in Images
    /\ saved \in [images : Images, live : BOOLEAN, stamped : BOOLEAN]
    /\ \E r \in Refs : schema = Revision[r]
    /\ rows \in 0 .. MaxRows
Shipped == script.at \in {"migrate", "check", "swap", "gate", "done"} =>
               latest = Both(script.ref)
Migrated == script.at \in {"swap", "gate", "done"} => schema = Revision[script.ref]
Swapped == script.at \in {"gate", "done"} => running = Both(script.ref)
Rehearsing == script.dry => script.at \in {"backup", "counts", "verify", "build"}
SavedLive == saved.live => Revision[saved.images["backend"]] <= schema

DeployInv == ScriptTyped /\ Shipped /\ Migrated /\ Swapped /\ Rehearsing /\ SavedLive

\* An image is made of both services of one revision.
LEMMA BothImages == \A r \in Refs : Both(r) \in Images
  BY DEF Both, Images

\* The schema never goes back.
LEMMA SchemaGrows ==
  ASSUME DeployInv, DeployNext PROVE schema' >= schema
<1>1. schema \in Nat
  BY RefsAssumption DEF DeployInv, ScriptTyped
<1>2. CASE migrate
  <2>1. latest["backend"] \in Refs
    BY DEF DeployInv, ScriptTyped, Images, Services
  <2>2. Revision[latest["backend"]] \in Nat
    BY <2>1, RefsAssumption
  <2> QED BY <1>1, <1>2, <2>2 DEF migrate, Upgradable
<1>3. CASE ~migrate
  <2>1. UNCHANGED schema
    BY <1>3 DEF DeployNext, Write, Die, preflight, DumpData, CountAndTag, VerifyBackup, build,
           ship, CheckHead, swap, HealthGate, Report, do_rollback
  <2> QED BY <1>1, <2>1
<1> QED BY <1>2, <1>3

\* A host that runs what it was given satisfies the invariant.
LEMMA DeployInitInv == DeployInit => DeployInv
<1> SUFFICES ASSUME DeployInit PROVE DeployInv
  OBVIOUS
<1>1. Both(FirstRef) \in Images
  BY BothImages, RefsAssumption
<1>2. Stopped \in [at : Steps, ref : Refs, dry : BOOLEAN, dump : Nat, counts : Nat]
  BY RefsAssumption DEF Stopped, Steps
<1>3. NoStamp \in [images : Images, live : BOOLEAN, stamped : BOOLEAN]
  BY <1>1 DEF NoStamp
<1>4. ScriptTyped
  BY <1>1, <1>2, <1>3, RefsAssumption, RowsAssumption DEF DeployInit, ScriptTyped
<1> QED
  BY <1>4 DEF DeployInit, DeployInv, Shipped, Migrated, Swapped, Rehearsing, SavedLive, Stopped,
              NoStamp

\* Each step of the script, and of the service.
LEMMA DeployNextInv ==
  ASSUME DeployInv, [DeployNext]_deployVars PROVE DeployInv'
<1> USE DEF DeployInv
<1>0. CASE UNCHANGED deployVars
  BY <1>0 DEF deployVars, ScriptTyped, Shipped, Migrated, Swapped, Rehearsing, SavedLive
<1>s. Stopped \in [at : Steps, ref : Refs, dry : BOOLEAN, dump : Nat, counts : Nat]
  BY RefsAssumption DEF Stopped, Steps
<1>i. schema \in Nat /\ rows \in Nat /\ MaxRows \in Nat
  BY RefsAssumption, RowsAssumption DEF ScriptTyped
<1>1. CASE Write
  BY <1>1, <1>i DEF Write, hostVars, ScriptTyped, Shipped, Migrated, Swapped, Rehearsing, SavedLive
<1>2. CASE Die
  BY <1>2, <1>s DEF Die, Stop, Stopped, hostVars, ScriptTyped, Shipped, Migrated, Swapped,
                    Rehearsing, SavedLive
<1>3. CASE preflight
  BY <1>3, <1>s DEF preflight, Steps, Stopped, hostVars, ScriptTyped, Shipped, Migrated, Swapped,
                    Rehearsing, SavedLive
<1>4. CASE DumpData
  BY <1>4, <1>i DEF DumpData, At, Steps, hostVars, ScriptTyped, Shipped, Migrated, Swapped,
                    Rehearsing, SavedLive
<1>5. CASE CountAndTag
  <2>1. ScriptTyped'
    BY <1>5, <1>i DEF CountAndTag, TagForRollback, At, Steps, hostVars, ScriptTyped
  <2>2. SavedLive'
    BY <1>5, <1>i DEF CountAndTag, TagForRollback, NewCodeMeetsItsSchema, SavedLive
  <2> QED BY <1>5, <2>1, <2>2 DEF CountAndTag, At, ScriptTyped, Shipped, Migrated, Swapped, Rehearsing
<1>6. CASE VerifyBackup
  BY <1>6 DEF VerifyBackup, Goto, At, Steps, hostVars, ScriptTyped, Shipped, Migrated, Swapped,
              Rehearsing, SavedLive
<1>7. CASE build
  BY <1>7, <1>s DEF build, Goto, Stop, Stopped, At, Steps, hostVars, ScriptTyped, Shipped, Migrated,
              Swapped, Rehearsing, SavedLive
<1>8. CASE ship
  <2> PICK done \in SUBSET Services :
         /\ latest' = Loaded(latest, done)
         /\ \/ done = Services /\ Goto("migrate")
            \/ Stop
    BY <1>8 DEF ship
  <2>1. latest' \in Images
    BY DEF Loaded, ScriptTyped, Images
  <2>2. done = Services => latest' = Both(script.ref)
    BY DEF Loaded, Both
  <2>3. script.dry = FALSE
    BY <1>8 DEF ship, At, Rehearsing, ScriptTyped
  <2> QED
    BY <1>8, <1>s, <2>1, <2>2, <2>3 DEF ship, Goto, Stop, Stopped, At, Steps, ScriptTyped, Shipped,
              Migrated, Swapped, Rehearsing, SavedLive
<1>9. CASE migrate
  <2>1. latest["backend"] \in Refs
    BY DEF ScriptTyped, Images, Services
  <2>2. Revision[latest["backend"]] \in Nat
    BY <2>1, RefsAssumption
  <2>3. schema' >= schema /\ \E r \in Refs : schema' = Revision[r]
    BY <1>9, <1>i, <2>1, <2>2 DEF migrate, Upgradable, ScriptTyped
  <2>4. ScriptTyped'
    BY <1>9, <1>s, <2>3 DEF migrate, Goto, Stop, Steps, hostVars, ScriptTyped
  <2>5. SavedLive'
    <3>1. saved.live => Revision[saved.images["backend"]] \in Nat
      BY RefsAssumption DEF ScriptTyped, Images, Services
    <3> QED BY <1>9, <1>i, <2>3, <3>1, RefsAssumption DEF migrate, hostVars, SavedLive, ScriptTyped
  <2> QED BY <1>9, <2>4, <2>5 DEF migrate, Goto, Stop, Stopped, At, hostVars, ScriptTyped, Shipped,
              Migrated, Swapped, Rehearsing
<1>10. CASE CheckHead
  <2>1. latest = Both(script.ref)
    BY <1>10 DEF CheckHead, At, Shipped
  <2>2. latest["backend"] = script.ref
    BY <2>1 DEF Both, Services
  <2> QED BY <1>10, <2>1, <2>2 DEF CheckHead, AtHead, Goto, At, Steps, hostVars, ScriptTyped, Shipped,
              Migrated, Swapped, Rehearsing, SavedLive
<1>11. CASE swap
  <2> PICK done \in SUBSET Behind :
         /\ running' = Recreated(done)
         /\ \/ done = Behind /\ done # {} /\ Goto("gate")
            \/ (done # Behind \/ done = {}) /\ Stop
    BY <1>11 DEF swap
  <2>1. running' \in Images
    BY DEF Recreated, ScriptTyped, Images
  <2>2. latest = Both(script.ref)
    BY <1>11 DEF swap, At, Shipped
  <2>3. done = Behind => running' = Both(script.ref)
    <3> SUFFICES ASSUME done = Behind PROVE running' = Both(script.ref)
      OBVIOUS
    <3>1. \A s \in Services : (IF s \in done THEN latest[s] ELSE running[s]) = script.ref
      BY <2>2 DEF Behind, Both
    <3> QED BY <3>1 DEF Recreated, Both
  <2> QED
    BY <1>11, <1>s, <2>1, <2>2, <2>3 DEF swap, Goto, Stop, Stopped, At, Steps, ScriptTyped, Shipped,
              Migrated, Swapped, Rehearsing, SavedLive
<1>12. CASE HealthGate
  BY <1>12 DEF HealthGate, Goto, At, Steps, hostVars, ScriptTyped, Shipped, Migrated, Swapped,
               Rehearsing, SavedLive
<1>13. CASE Report
  BY <1>13, <1>s DEF Report, Stop, Stopped, At, hostVars, ScriptTyped, Shipped, Migrated, Swapped,
               Rehearsing, SavedLive
<1>14. CASE do_rollback
  <2> PICK done \in SUBSET {s \in Services : running[s] # saved.images[s]} :
         running' = [s \in Services |-> IF s \in done THEN saved.images[s] ELSE running[s]]
    BY <1>14 DEF do_rollback
  <2>1. running' \in Images /\ latest' \in Images
    BY <1>14 DEF do_rollback, ScriptTyped, Images
  <2> QED
    BY <1>14, <1>s, <2>1 DEF do_rollback, Stop, Stopped, At, ScriptTyped, Shipped,
              Migrated, Swapped, Rehearsing, SavedLive
<1> QED
  BY <1>0, <1>1, <1>2, <1>3, <1>4, <1>5, <1>6, <1>7, <1>8, <1>9, <1>10, <1>11, <1>12, <1>13, <1>14
     DEF DeployNext

\* The invariant contains the shapes, and that a deployment that is done is live.
LEMMA DeployTyped == DeployInv => DeployTypeOK /\ DoneMeansLive
  BY DEF DeployInv, ScriptTyped, Steps, Migrated, Swapped, DeployTypeOK, DoneMeansLive, At

\* A rehearsal changes nothing on the host.
LEMMA RehearsalStep ==
  ASSUME DeployInv, [DeployNext]_deployVars, script.dry
  PROVE  UNCHANGED <<latest, running, schema>>
  BY DEF DeployInv, ScriptTyped, Rehearsing, DeployNext, deployVars, hostVars, At, Write, Die, preflight, DumpData, CountAndTag, VerifyBackup,
         build, ship, migrate, CheckHead, swap, HealthGate, Report, do_rollback

\* Only a rollback to images that never ran strands code on a schema that is not its own.
LEMMA StrandedStep ==
  ASSUME DeployInv, [DeployNext]_deployVars, NewCodeMeetsItsSchema, ~NewCodeMeetsItsSchema'
  PROVE  do_rollback /\ ~saved.live
<1>i. schema \in Nat
  BY RefsAssumption DEF DeployInv, ScriptTyped
<1>r. \A s \in Services : /\ running[s] \in Refs /\ latest[s] \in Refs /\ saved.images[s] \in Refs
                          /\ Revision[running[s]] \in Nat
  BY RefsAssumption DEF DeployInv, ScriptTyped, Images
<1>b. "backend" \in Services
  BY DEF Services
<1>1. DeployNext
  BY DEF deployVars, NewCodeMeetsItsSchema
<1>2. schema' >= schema /\ schema' \in Nat
  <2>1. DeployInv'
    BY DeployNextInv
  <2>2. schema' \in Nat
    BY <2>1, RefsAssumption DEF DeployInv, ScriptTyped
  <2> QED BY <1>1, <2>2, SchemaGrows
<1>3. running' # running
  BY <1>i, <1>r, <1>b, <1>2 DEF NewCodeMeetsItsSchema
<1>4. ~swap
  <2> SUFFICES ASSUME swap PROVE FALSE
    OBVIOUS
  <2>1. /\ latest = Both(script.ref) /\ schema = Revision[script.ref] /\ schema' = schema
    BY DEF swap, At, DeployInv, Shipped, Migrated
  <2>2. running'["backend"] \in {latest["backend"], running["backend"]}
    BY <1>b DEF swap, Recreated
  <2>3. latest["backend"] = script.ref
    BY <1>b, <2>1 DEF Both
  <2> QED BY <1>i, <2>1, <2>2, <2>3 DEF NewCodeMeetsItsSchema
<1>5. do_rollback
  BY <1>1, <1>3, <1>4 DEF DeployNext, hostVars, Write, Die, preflight, DumpData, CountAndTag, VerifyBackup,
         build, ship, migrate, CheckHead, HealthGate, Report
<1>6. running'["backend"] \in {saved.images["backend"], running["backend"]}
  BY <1>5, <1>b DEF do_rollback
<1>7. ~saved.live
  BY <1>5, <1>6, <1>i DEF do_rollback, NewCodeMeetsItsSchema, DeployInv, SavedLive
<1> QED BY <1>5, <1>7

\* A deploy tells the truth, shows nothing of a rehearsal, and keeps code on its schema
\* but for images that an earlier run had stranded: deploy-uat.sh, for any number of
\* revisions, runs and failures.
THEOREM SoundDeploys == DeploySpec => DeploysAreSound
<1>1. DeployInv /\ [DeployNext]_deployVars => DeployInv'
  BY DeployNextInv
<1>2. DeployInv /\ [DeployNext]_deployVars
         => [script.dry => UNCHANGED <<latest, running, schema>>]_deployVars
  BY RehearsalStep
<1>3. DeployInv /\ [DeployNext]_deployVars
         => [NewCodeMeetsItsSchema /\ ~NewCodeMeetsItsSchema' => do_rollback /\ ~saved.live]_deployVars
  BY StrandedStep
<1> QED
  BY <1>1, <1>2, <1>3, DeployInitInv, DeployTyped, PTL
     DEF DeploySpec, DeploysAreSound, RehearsalsShowNothing, OnlyStrandedImagesMislead

-----------------------------------------------------------------------------
(***************************************************************************)
(* The reset: that one that commits leaves what it is to leave             *)
(* (ResetIsWhole), and that nothing is lost to it but by the commit, after *)
(* a dump (NothingIsLost).                                                 *)
(*                                                                         *)
(* LookedAt is what the checks before the commit have established, up to   *)
(* what was written while they ran. Backed is the dump: until it commits,  *)
(* there is nothing it has not but what came later. Chosen is that the     *)
(* accounts to go were fit for it when they were read.                     *)
(***************************************************************************)

\* A look at a table that found nothing wrong found nothing but seeds, and no owner: what
\* is otherwise there now came later.
Clear(kind) ==
    /\ \A r \in db \ (late \cup Seeds) : KindOf[r] = kind => kind = "protected"
    /\ kind = "owner" => \A u \in People \ late : account[u] # Gone => ~account[u].owner

LookedAt ==
    /\ stage \in {"committed", "ready"} =>
          /\ Seeds \subseteq db
          /\ problems = {} => \A n \in 1 .. (step - 1) : Clear(CheckOrder[n])
    /\ stage = "ready" => problems = {} /\ step = Len(CheckOrder) + 1

\* Until it commits, there is nothing the backup has not but what came later.
Preparing == {"dumped", "rehearsed", "wiping", "seeding", "checking"}
Backed ==
    /\ stage \in {"start", "snapshot"} \cup Preparing => db \subseteq Rows
    /\ stage \in Preparing => db \cup {u \in People : account[u] # Gone} \subseteq dump \cup since

\* The accounts to be deleted were fit for it when they were chosen.
Chosen ==
    /\ wiped \cap People \subseteq candidates
    /\ InTransaction => \A u \in candidates :
          /\ account[u] # Gone /\ account[u].provider = "local"
          /\ account[u].internal => u \in since

ResetInv == ResetTypeOK /\ IsFiniteSet(db) /\ LookedAt /\ Backed /\ Chosen

-----------------------------------------------------------------------------

\* The tables that are checked and wiped, as the script lists them.
LEMMA Orders ==
  /\ Len(CheckOrder) = 9 /\ Len(WipeOrder) = 7
  /\ \A n \in 1 .. 9 : CheckOrder[n] \in Kinds \cup {"owner", "internal"}
  /\ \A kind \in Kinds : \E n \in 1 .. 9 : CheckOrder[n] = kind
  /\ \E n \in 1 .. 9 : CheckOrder[n] = "owner"
  /\ \A n \in 1 .. 7 : WipeOrder[n] \in Kinds \cup {"owner"}
<1>1. /\ Len(CheckOrder) = 9 /\ CheckOrder[1] = "supplier" /\ CheckOrder[2] = "owner"
      /\ CheckOrder[3] = "plot" /\ CheckOrder[4] = "cycle" /\ CheckOrder[5] = "record"
      /\ CheckOrder[6] = "crop" /\ CheckOrder[7] = "protected" /\ CheckOrder[8] = "access"
      /\ CheckOrder[9] = "internal"
  BY DEF CheckOrder
<1>2. /\ Len(WipeOrder) = 7 /\ WipeOrder[1] = "crop" /\ WipeOrder[2] = "access"
      /\ WipeOrder[3] = "record" /\ WipeOrder[4] = "cycle" /\ WipeOrder[5] = "plot"
      /\ WipeOrder[6] = "supplier" /\ WipeOrder[7] = "owner"
  BY DEF WipeOrder
<1>3. \A n \in 1 .. 9 : n \in {1, 2, 3, 4, 5, 6, 7, 8, 9}
  OBVIOUS
<1>4. \A n \in 1 .. 7 : n \in {1, 2, 3, 4, 5, 6, 7}
  OBVIOUS
<1>5. {1, 2, 3, 4, 5, 6, 7, 8, 9} \subseteq 1 .. 9
  OBVIOUS
<1>6. \A n \in 1 .. 9 : CheckOrder[n] \in Kinds \cup {"owner", "internal"}
  BY <1>1, <1>3 DEF Kinds
<1>7. \A kind \in Kinds : \E n \in 1 .. 9 : CheckOrder[n] = kind
  BY <1>1, <1>5 DEF Kinds
<1>8. \A n \in 1 .. 7 : WipeOrder[n] \in Kinds \cup {"owner"}
  BY <1>2, <1>4 DEF Kinds
<1> QED BY <1>1, <1>2, <1>5, <1>6, <1>7, <1>8

\* The rows that are seeded are finitely many.
LEMMA SeedsAreFew == IsFiniteSet(Seeds)
<1>1. Seeds = ({"new supplier"} \cup {"new plot"}) \cup {"new access"}
  BY DEF Seeds
<1>2. \A x : IsFiniteSet({x})
  BY FS_Singleton
<1> QED BY <1>1, <1>2, FS_Union

\* A count of rows is a number.
LEMMA Counted == ASSUME IsFiniteSet(db), NEW kind \in {"protected", "internal"} PROVE Count(kind) \in Nat
<1>1. IsFiniteSet(Seeds)
  BY SeedsAreFew
<1>2. IsFiniteSet(Visible)
  <2>1. IsFiniteSet(db \ wiped)
    BY FS_Difference
  <2>2. IsFiniteSet((db \ wiped) \cup Seeds) /\ IsFiniteSet((db \ wiped) \cup {})
    BY <1>1, <2>1, FS_Union, FS_EmptySet
  <2> QED BY <2>2 DEF Visible
<1>3. IsFiniteSet({r \in Visible : TableOf(r) = kind})
  BY <1>2, FS_Subset
<1>4. IsFiniteSet({u \in Staying : account[u].internal})
  <2>1. {u \in Staying : account[u].internal} \subseteq People
    BY DEF Staying
  <2> QED BY <2>1, FS_Subset, ResetAssumption
<1>5. /\ Cardinality({r \in Visible : TableOf(r) = kind}) \in Nat
      /\ Cardinality({u \in Staying : account[u].internal}) \in Nat
  BY <1>3, <1>4, FS_CardinalityType
<1> QED BY <1>5 DEF Count

\* Before it starts the script has looked at nothing.
LEMMA ResetInitInv == ResetInit => ResetInv
<1> SUFFICES ASSUME ResetInit PROVE ResetInv
  OBVIOUS
<1>1. account \in [People -> Account \cup {Gone}]
  BY AccountsAssumption DEF ResetInit
<1>2. before \in [{"protected", "internal"} -> Nat]
  BY DEF ResetInit
<1>3. ResetTypeOK
  BY <1>1, <1>2, ResetAssumption, Orders DEF ResetInit, ResetTypeOK, Stages
<1>4. IsFiniteSet(db)
  BY ResetAssumption DEF ResetInit
<1>5. LookedAt /\ Backed /\ Chosen
  BY ResetAssumption DEF ResetInit, LookedAt, Backed, Chosen, Preparing, InTransaction
<1> QED BY <1>3, <1>4, <1>5 DEF ResetInv

-----------------------------------------------------------------------------
(* The tool *)

\* The script stops, and its transaction with it.
LEMMA AbortInv == ASSUME ResetInv, Abort PROVE ResetInv'
  BY DEF ResetInv, Abort, ResetTypeOK, LookedAt, Backed, Chosen, Preparing, InTransaction, Stages

\* It looks at the tables that must not change.
LEMMA SnapshotInv == ASSUME ResetInv, TakeSnapshot PROVE ResetInv'
<1>1. before' \in [{"protected", "internal"} -> Nat]
  BY Counted DEF ResetInv, TakeSnapshot
<1> QED BY <1>1 DEF ResetInv, TakeSnapshot, ResetTypeOK, LookedAt, Backed, Chosen, Preparing,
              InTransaction, Stages

\* It dumps the database.
LEMMA BackupInv == ASSUME ResetInv, RunBackup PROVE ResetInv'
<1>1. dump' = db \cup {u \in People : account[u] # Gone}
  BY DEF RunBackup
<1>2. db \subseteq Rows
  BY DEF ResetInv, Backed, RunBackup
<1> QED BY <1>1, <1>2 DEF ResetInv, RunBackup, ResetTypeOK, LookedAt, Backed, Chosen, Preparing,
              InTransaction, Stages

\* It restores the dump elsewhere.
LEMMA RehearsalInv == ASSUME ResetInv, RestoreRehearsal PROVE ResetInv'
  BY DEF ResetInv, RestoreRehearsal, ResetTypeOK, LookedAt, Backed, Chosen, Preparing, InTransaction,
         Stages

\* It reads whom it will remove.
LEMMA CandidatesInv == ASSUME ResetInv, ReadCandidates PROVE ResetInv'
<1>1. wiped = {}
  BY DEF ResetInv, ResetTypeOK, ReadCandidates, InTransaction
<1>2. \A u \in candidates' : /\ u \in People /\ account[u] # Gone /\ account[u].provider = "local"
                             /\ ~account[u].internal
  BY DEF ReadCandidates, Staying, IsDeletionCandidate
<1>3. Chosen'
  BY <1>1, <1>2 DEF ReadCandidates, Chosen
<1>4. ResetTypeOK'
  BY <1>1, <1>2, Orders DEF ResetInv, ResetTypeOK, ReadCandidates, Stages, InTransaction
<1> QED BY <1>3, <1>4 DEF ResetInv, ReadCandidates, LookedAt, Backed, Preparing

\* What is wiped of a table are rows of it.
LEMMA VictimsAreRows == ASSUME NEW kind PROVE Victims(kind) \subseteq db
  BY DEF Victims, Children

\* It wipes one table.
LEMMA WipeInv == ASSUME ResetInv, WipeBusinessData PROVE ResetInv'
<1>1. /\ stage = "wiping" /\ stage' \in {"wiping", "seeding"} /\ step' \in 1 .. 8
      /\ UNCHANGED <<db, account, candidates, before, dump, problems, served, since, late>>
  BY Orders DEF WipeBusinessData, ResetInv, ResetTypeOK
<1>2. db \subseteq Rows
  BY <1>1 DEF ResetInv, Backed, Preparing
<1>3. wiped' \subseteq wiped \cup db \cup candidates /\ wiped' \cap People \subseteq candidates
  <2>1. CASE WipeOrder[step] = "owner"
    BY <2>1 DEF WipeBusinessData, ResetInv, Chosen
  <2>2. CASE WipeOrder[step] # "owner"
    <3>1. wiped' = wiped \cup Victims(WipeOrder[step])
      BY <2>2 DEF WipeBusinessData
    <3>2. Victims(WipeOrder[step]) \cap People = {}
      BY <1>2, VictimsAreRows, ResetAssumption
    <3> QED BY <3>1, <3>2, VictimsAreRows DEF ResetInv, Chosen
  <2> QED BY <2>1, <2>2
<1>4. ResetTypeOK'
  BY <1>1, <1>2, <1>3, Orders DEF ResetInv, ResetTypeOK, InTransaction, Stages
<1>5. Chosen'
  BY <1>1, <1>3 DEF ResetInv, Chosen, InTransaction
<1> QED BY <1>1, <1>4, <1>5 DEF ResetInv, LookedAt, Backed, Preparing

\* It inserts the rows it seeds.
LEMMA SeedInv == ASSUME ResetInv, SeedRows PROVE ResetInv'
  BY Orders DEF ResetInv, SeedRows, ResetTypeOK, LookedAt, Backed, Chosen, Preparing, InTransaction,
         Stages

\* A count that is as expected, of a table that was committed.
LEMMA LookIsClear ==
  ASSUME ResetInv, stage = "committed", NEW kind \in Kinds \cup {"owner", "internal"},
         Count(kind) = Expected(kind)
  PROVE  Clear(kind)
<1>1. /\ Seeds \subseteq db /\ wiped = {} /\ IsFiniteSet(db) /\ db \subseteq Rows \cup Seeds
  BY DEF ResetInv, LookedAt, ResetTypeOK, InTransaction
<1>2. Visible = db
  BY <1>1 DEF Visible
<1>3. CASE kind = "owner"
  <2>1. Cardinality(Owners) = 1
    BY <1>3 DEF Count, Expected
  <2>2. Owners = {u \in Staying : account[u].owner} \cup {SeededOwner}
    BY DEF Owners
  <2>3. IsFiniteSet(Owners)
    <3>1. {u \in Staying : account[u].owner} \subseteq People
      BY DEF Staying
    <3>2. IsFiniteSet({u \in Staying : account[u].owner})
      BY <3>1, FS_Subset, ResetAssumption
    <3> QED BY <2>2, <3>2, FS_AddElement
  <2>4. {SeededOwner} \subseteq Owners /\ Cardinality({SeededOwner}) = 1
    BY <2>2, FS_Singleton
  <2>5. Owners = {SeededOwner}
    BY <2>1, <2>3, <2>4, FS_Subset
  <2>6. \A u \in People : account[u] # Gone => ~account[u].owner
    <3> SUFFICES ASSUME NEW u \in People, account[u] # Gone, account[u].owner PROVE FALSE
      OBVIOUS
    <3>1. u \in Owners
      BY <1>1, <2>2 DEF Staying
    <3> QED BY <2>5, <3>1, SeedsAssumption
  <2>7. \A r \in db \ (late \cup Seeds) : KindOf[r] # "owner"
    BY <1>1, ResetAssumption DEF Kinds
  <2> QED BY <1>3, <2>6, <2>7 DEF Clear
<1>4. CASE kind \in {"protected", "internal"}
  BY <1>1, <1>4, ResetAssumption DEF Clear, Kinds
<1>5. CASE kind \in Kinds \ {"protected"}
  <2> DEFINE there == {r \in db : TableOf(r) = kind}
             seeds == {r \in Seeds : SeedKind(r) = kind}
  <2>1. Cardinality(there) = Cardinality(seeds)
    BY <1>2, <1>5 DEF Count, Expected, Kinds
  <2>2. seeds \subseteq there
    BY <1>1, SeedsAssumption DEF TableOf
  <2>3. IsFiniteSet(there)
    BY <1>1, FS_Subset
  <2>4. there = seeds
    BY <2>1, <2>2, <2>3, FS_Subset
  <2>5. \A r \in db \ (late \cup Seeds) : KindOf[r] # kind
    BY <1>1, <2>4 DEF TableOf
  <2> QED BY <1>5, <2>5 DEF Clear, Kinds
<1> QED BY <1>3, <1>4, <1>5

\* It looks for what is left over and what has changed.
LEMMA CollectInv == ASSUME ResetInv, CollectInvariantProblems PROVE ResetInv'
<1>1. /\ stage \in {"checking", "committed"} /\ step \in 1 .. 9 /\ step' = step + 1
      /\ problems' = problems \cup {k \in {CheckOrder[step]} : Count(k) # Expected(k)}
      /\ UNCHANGED <<db, account, stage, wiped, candidates, before, dump, served, since, late>>
  BY Orders DEF CollectInvariantProblems, ResetInv, ResetTypeOK
<1>2. CheckOrder[step] \in Kinds \cup {"owner", "internal"}
  BY <1>1, Orders
<1>3. ResetTypeOK'
  BY <1>1, <1>2, Orders DEF ResetInv, ResetTypeOK, InTransaction
<1>4. LookedAt'
  <2>1. ASSUME stage = "committed", problems' = {}, NEW n \in 1 .. (step' - 1) PROVE Clear(CheckOrder[n])'
    <3>1. n \in 1 .. (step - 1) \/ n = step
      BY <1>1
    <3>2. problems = {}
      BY <1>1, <2>1
    <3>3. CASE n \in 1 .. (step - 1)
      <4>1. Clear(CheckOrder[n])
        BY <2>1, <3>2, <3>3 DEF ResetInv, LookedAt
      <4> QED BY <1>1, <4>1 DEF Clear
    <3>4. CASE n = step
      <4>1. Count(CheckOrder[step]) = Expected(CheckOrder[step])
        BY <1>1, <2>1
      <4>2. Clear(CheckOrder[step])
        BY <1>2, <2>1, <4>1, LookIsClear
      <4> QED BY <1>1, <3>4, <4>2 DEF Clear
    <3> QED BY <3>1, <3>3, <3>4
  <2> QED BY <1>1, <2>1 DEF ResetInv, LookedAt
<1>5. Backed' /\ Chosen'
  BY <1>1 DEF ResetInv, Backed, Chosen, InTransaction
<1> QED BY <1>1, <1>3, <1>4, <1>5 DEF ResetInv

\* It commits.
LEMMA CommitInv == ASSUME ResetInv, CommitWipe PROVE ResetInv'
<1>1. /\ stage = "checking" /\ problems = {} /\ db' = Visible /\ wiped' = {} /\ stage' = "committed"
      /\ account' = [u \in People |-> IF u \in wiped THEN Gone ELSE account[u]] /\ step' = 1
      /\ UNCHANGED <<candidates, before, dump, problems, served, since, late>>
  BY DEF CommitWipe
<1>2. db' = (db \ wiped) \cup Seeds /\ db \subseteq Rows /\ IsFiniteSet(db)
  BY <1>1 DEF Visible, ResetInv, Backed, Preparing
<1>3. IsFiniteSet(db')
  <2>1. IsFiniteSet(Seeds)
    BY SeedsAreFew
  <2>2. IsFiniteSet(db \ wiped)
    BY <1>2, FS_Difference
  <2> QED BY <1>2, <2>1, <2>2, FS_Union
<1>4. account' \in [People -> Account \cup {Gone}]
  BY <1>1 DEF ResetInv, ResetTypeOK
<1>5. ResetTypeOK'
  BY <1>1, <1>2, <1>4, Orders DEF ResetInv, ResetTypeOK, Stages
<1>6. LookedAt'
  BY <1>1, <1>2 DEF LookedAt
<1>7. Backed' /\ Chosen'
  BY <1>1 DEF ResetInv, Backed, Chosen, InTransaction, Preparing
<1> QED BY <1>3, <1>5, <1>6, <1>7 DEF ResetInv

\* It looks again once it has committed.
LEMMA VerifyInv == ASSUME ResetInv, PostCommitVerify PROVE ResetInv'
<1>1. /\ stage = "committed" /\ step = 10 /\ stage' \in {"ready", "failed"}
      /\ stage' = "ready" => problems = {}
      /\ UNCHANGED <<db, account, step, wiped, candidates, before, dump, problems, served, since, late>>
  BY Orders DEF PostCommitVerify, ResetInv, ResetTypeOK
<1>2. wiped = {}
  BY <1>1 DEF ResetInv, ResetTypeOK, InTransaction
<1>3. LookedAt'
  BY <1>1, Orders DEF ResetInv, LookedAt, Clear
<1>4. ResetTypeOK'
  BY <1>1, <1>2 DEF ResetInv, ResetTypeOK, Stages
<1> QED BY <1>1, <1>3, <1>4 DEF ResetInv, Backed, Chosen, Preparing, InTransaction

-----------------------------------------------------------------------------
(* The service *)

\* The application writes a row meanwhile.
LEMMA ServeInv == ASSUME ResetInv, NEW r \in Rows, Serve(r) PROVE ResetInv'
<1>1. /\ served < MaxServed /\ db' = db \cup {r} /\ served' = served + 1
      /\ since' = IF BeforeBackup THEN since ELSE since \cup {r}
      /\ late' = IF SeenLast(KindOf[r]) THEN late \cup {r} ELSE late
      /\ UNCHANGED <<account, stage, step, wiped, candidates, before, dump, problems>>
  BY DEF Serve
<1>2. IsFiniteSet(db')
  BY <1>1, FS_AddElement DEF ResetInv
<1>3. ResetTypeOK'
  <2>1. served' \in 0 .. MaxServed
    BY <1>1, ResetAssumption DEF ResetInv, ResetTypeOK
  <2> QED BY <1>1, <2>1 DEF ResetInv, ResetTypeOK, InTransaction
<1>4. LookedAt'
  <2>1. ASSUME stage \in {"committed", "ready"}, problems = {}, NEW n \in 1 .. (step - 1)
        PROVE  Clear(CheckOrder[n])'
    <3>1. Clear(CheckOrder[n])
      BY <2>1 DEF ResetInv, LookedAt
    <3>2. KindOf[r] = CheckOrder[n] => r \in late'
      BY <1>1, <2>1 DEF SeenLast
    <3>3. \A x \in db' \ (late' \cup Seeds) : KindOf[x] = CheckOrder[n] => CheckOrder[n] = "protected"
      BY <1>1, <3>1, <3>2 DEF Clear
    <3> QED BY <1>1, <3>1, <3>3 DEF Clear
  <2> QED BY <1>1, <2>1 DEF ResetInv, LookedAt
<1>5. Backed'
  BY <1>1 DEF ResetInv, Backed, Preparing, BeforeBackup
<1>6. Chosen'
  BY <1>1 DEF ResetInv, Chosen, InTransaction
<1> QED BY <1>2, <1>3, <1>4, <1>5, <1>6 DEF ResetInv

\* Roles are replaced, the provider of an account is not.
LEMMA RolesAssigned ==
  ASSUME ResetTypeOK, NEW u \in People, NEW owner \in BOOLEAN, NEW internal \in BOOLEAN,
         AssignRoles(u, owner, internal)
  PROVE  /\ account' \in [People -> Account \cup {Gone}]
         /\ account'[u] # Gone /\ account'[u].provider = account[u].provider
         /\ \A v \in People : v # u => account'[v] = account[v]
<1>1. account \in [People -> Account \cup {Gone}] /\ account[u] \in Account
  BY DEF ResetTypeOK, AssignRoles
<1>2. account[u] = [provider |-> account[u].provider, owner |-> account[u].owner,
                    internal |-> account[u].internal]
  BY <1>1 DEF Account
<1> PICK provider, o, i : account[u] = [provider |-> provider, owner |-> o, internal |-> i]
  BY <1>2
<1> PICK one : one = [account EXCEPT ![u].owner = owner]
  OBVIOUS
<1>3. /\ DOMAIN one = People /\ one[u] = [provider |-> provider, owner |-> owner, internal |-> i]
      /\ \A v \in People : v # u => one[v] = account[v]
  BY <1>1
<1>4. account' = [one EXCEPT ![u].internal = internal]
  BY DEF AssignRoles
<1>5. /\ DOMAIN account' = People
      /\ account'[u] = [provider |-> provider, owner |-> owner, internal |-> internal]
      /\ \A v \in People : v # u => account'[v] = one[v]
  BY <1>3, <1>4
<1>6. account' = [v \in People |-> account'[v]]
  BY <1>4, <1>5
<1>7. account'[u] \in Account /\ account'[u].provider = account[u].provider
  BY <1>1, <1>5 DEF Account
<1>8. \A v \in People : account'[v] \in Account \cup {Gone}
  BY <1>1, <1>3, <1>5, <1>7
<1> QED BY <1>3, <1>5, <1>6, <1>7, <1>8, AccountsAssumption

\* An administrator changes an account meanwhile.
LEMMA AssignInv ==
  ASSUME ResetInv, NEW u \in People, NEW owner \in BOOLEAN, NEW internal \in BOOLEAN,
         AssignRoles(u, owner, internal)
  PROVE  ResetInv'
<1>1. /\ served < MaxServed /\ account[u] # Gone /\ served' = served + 1
      /\ since' = IF BeforeBackup THEN since ELSE since \cup {u}
      /\ late' = IF SeenLast("owner") THEN late \cup {u} ELSE late
      /\ UNCHANGED <<db, stage, step, wiped, candidates, before, dump, problems>>
  BY DEF AssignRoles
<1>2. account \in [People -> Account \cup {Gone}] /\ account[u] \in Account
  BY <1>1 DEF ResetInv, ResetTypeOK
<1>3. /\ account' \in [People -> Account \cup {Gone}]
      /\ account'[u] # Gone /\ account'[u].provider = account[u].provider
      /\ \A v \in People : v # u => account'[v] = account[v]
  BY RolesAssigned DEF ResetInv
<1>4. ResetTypeOK'
  <2>1. served' \in 0 .. MaxServed
    BY <1>1, ResetAssumption DEF ResetInv, ResetTypeOK
  <2> QED BY <1>1, <1>3, <2>1 DEF ResetInv, ResetTypeOK, InTransaction
<1>5. LookedAt'
  <2>1. ASSUME stage \in {"committed", "ready"}, problems = {}, NEW n \in 1 .. (step - 1)
        PROVE  Clear(CheckOrder[n])'
    <3>1. Clear(CheckOrder[n])
      BY <2>1 DEF ResetInv, LookedAt
    <3>2. CheckOrder[n] = "owner" => u \in late'
      BY <1>1, <2>1 DEF SeenLast
    <3>3. CheckOrder[n] = "owner" => \A v \in People \ late' : account'[v] # Gone => ~account'[v].owner
      BY <1>1, <1>3, <3>1, <3>2 DEF Clear
    <3> QED BY <1>1, <3>1, <3>3 DEF Clear
  <2> QED BY <1>1, <2>1 DEF ResetInv, LookedAt
<1>6. Backed'
  BY <1>1, <1>3 DEF ResetInv, Backed, Preparing, BeforeBackup
<1>7. Chosen'
  <2>1. stage \in {"wiping", "seeding", "checking"} => u \in since'
    BY <1>1 DEF BeforeBackup
  <2>2. candidates \subseteq People
    BY DEF ResetInv, ResetTypeOK
  <2> QED BY <1>1, <1>3, <2>1, <2>2 DEF ResetInv, Chosen, InTransaction
<1> QED BY <1>1, <1>4, <1>5, <1>6, <1>7 DEF ResetInv

\* Every step keeps the invariant.
LEMMA ResetNextInv == ResetInv /\ [ResetNext]_resetVars => ResetInv'
<1> SUFFICES ASSUME ResetInv, [ResetNext]_resetVars PROVE ResetInv'
  OBVIOUS
<1>1. CASE ResetNext
  BY <1>1, AbortInv, SnapshotInv, BackupInv, RehearsalInv, CandidatesInv, WipeInv, SeedInv,
     CollectInv, CommitInv, VerifyInv, ServeInv, AssignInv DEF ResetNext
<1>2. CASE UNCHANGED resetVars
  BY <1>2 DEF resetVars, ResetInv, ResetTypeOK, LookedAt, Backed, Chosen, Clear, InTransaction
<1> QED BY <1>1, <1>2

-----------------------------------------------------------------------------

\* What the script reports as ready is reset.
LEMMA ReadyIsReset == ResetInv => ReadyMeansReset
<1> SUFFICES ASSUME ResetInv, stage = "ready" PROVE ReadyMeansReset
  BY DEF ReadyMeansReset
<1>1. Seeds \subseteq db /\ \A n \in 1 .. 9 : Clear(CheckOrder[n])
  BY Orders DEF ResetInv, LookedAt
<1>2. \A r \in db \ (Seeds \cup late) : KindOf[r] = "protected"
  <2> SUFFICES ASSUME NEW r \in db \ (Seeds \cup late) PROVE KindOf[r] = "protected"
    OBVIOUS
  <2>1. r \in Rows /\ KindOf[r] \in Kinds
    BY ResetAssumption DEF ResetInv, ResetTypeOK
  <2>2. PICK n \in 1 .. 9 : CheckOrder[n] = KindOf[r]
    BY <2>1, Orders
  <2> QED BY <1>1, <2>2 DEF Clear
<1>3. \A u \in People \ late : account[u] # Gone => ~account[u].owner
  <2>1. PICK n \in 1 .. 9 : CheckOrder[n] = "owner"
    BY Orders
  <2> QED BY <1>1, <2>1 DEF Clear
<1> QED BY <1>1, <1>2, <1>3 DEF ReadyMeansReset

\* Only the commit of the wipe takes anything away.
LEMMA OnlyCommitLoses ==
  ASSUME ResetInv, [ResetNext]_resetVars
  PROVE  \/ CommitWipe
         \/ db \subseteq db' /\ \A u \in People : account[u] # Gone => account'[u] # Gone
<1>1. ASSUME NEW u \in People, NEW owner \in BOOLEAN, NEW internal \in BOOLEAN,
             AssignRoles(u, owner, internal)
      PROVE  db \subseteq db' /\ \A v \in People : account[v] # Gone => account'[v] # Gone
  <2>1. account'[u] # Gone /\ \A v \in People : v # u => account'[v] = account[v]
    BY <1>1, RolesAssigned DEF ResetInv
  <2> QED BY <1>1, <2>1 DEF AssignRoles
<1>2. ASSUME UNCHANGED resetVars PROVE UNCHANGED <<db, account>>
  BY <1>2 DEF resetVars
<1>3. ASSUME NEW r \in Rows, Serve(r) PROVE db \subseteq db' /\ account' = account
  BY <1>3 DEF Serve
<1>4. ASSUME \/ Abort \/ TakeSnapshot \/ RunBackup \/ RestoreRehearsal \/ ReadCandidates
             \/ WipeBusinessData \/ SeedRows \/ CollectInvariantProblems \/ PostCommitVerify
      PROVE  UNCHANGED <<db, account>>
  BY <1>4 DEF Abort, TakeSnapshot, RunBackup, RestoreRehearsal, ReadCandidates, WipeBusinessData,
     SeedRows, CollectInvariantProblems, PostCommitVerify
<1> QED BY <1>1, <1>2, <1>3, <1>4 DEF ResetNext

\* Whatever is lost is in the dump, or came after it.
LEMMA BackedUpStep ==
  ASSUME ResetInv, [ResetNext]_resetVars
  PROVE  (db \ db') \cup {u \in People : account[u] # account'[u] /\ account'[u] = Gone}
            \subseteq dump \cup since
<1>1. CASE CommitWipe
  <2>1. db \cup {u \in People : account[u] # Gone} \subseteq dump \cup since
    BY <1>1 DEF CommitWipe, ResetInv, Backed, Preparing
  <2> QED BY <2>1
<1>2. CASE db \subseteq db' /\ \A u \in People : account[u] # Gone => account'[u] # Gone
  BY <1>2
<1> QED BY <1>1, <1>2, OnlyCommitLoses

\* Whose account is removed is a local one that was external when it was read.
LEMMA ExcludedStep ==
  ASSUME ResetInv, [ResetNext]_resetVars, NEW u \in People, account[u] # Gone, account'[u] = Gone
  PROVE  account[u].provider = "local" /\ (account[u].internal => u \in since)
<1>1. CommitWipe
  BY OnlyCommitLoses
<1>2. u \in wiped
  BY <1>1 DEF CommitWipe
<1> QED BY <1>1, <1>2 DEF CommitWipe, ResetInv, Chosen, InTransaction

\* A reset that says READY left what it promised: uat_data_reset.py, for any tables, any
\* accounts, and whatever the service commits between its statements.
THEOREM WholeResets == ResetSpec => []ResetIsWhole
<1>1. ResetInv => ResetIsWhole
  BY ReadyIsReset DEF ResetInv, ResetIsWhole
<1> QED BY <1>1, ResetInitInv, ResetNextInv, PTL DEF ResetSpec

\* A reset destroys nothing that is not in its backup but what came later, and leaves the
\* accounts it excludes.
THEOREM LosesNothing == ResetSpec => NothingIsLost
<1>1. ResetInv /\ [ResetNext]_resetVars =>
        [(db \ db') \cup {u \in People : account[u] # account'[u] /\ account'[u] = Gone}
            \subseteq dump \cup since]_resetVars
  BY BackedUpStep
<1>2. ResetInv /\ [ResetNext]_resetVars =>
        [\A u \in People :
          account[u] # Gone /\ account'[u] = Gone
              => /\ account[u].provider = "local"
                 /\ account[u].internal => u \in since]_resetVars
  BY ExcludedStep
<1> QED BY <1>1, <1>2, ResetInitInv, ResetNextInv, PTL
     DEF ResetSpec, NothingIsLost, BackedUpOrNewer, ExcludedAccountsSurvive

=============================================================================
