--------------------------- MODULE PlotImport_proofs ---------------------------
(***************************************************************************)
(* What holds of PlotImport for any number of plots, requests and series,  *)
(* and for files of any length.  Two invariants:                           *)
(*                                                                         *)
(*   Locking   every transaction locks its plots from the lowest up and    *)
(*             alone, and what it compared with the preview stands for as  *)
(*             long as it holds them;                                      *)
(*   Numbered  the numbers a transaction has drawn of a series follow the  *)
(*             committed ones without a gap, and no two that print alike   *)
(*             are drawn or committed twice.                               *)
(***************************************************************************)
EXTENDS PlotImport, TLAPS, SequenceTheorems, WellFoundedInduction

-----------------------------------------------------------------------------
(* The largest of some naturals, and sequences of numbers *)

LessThan == {ss \in Nat \X Nat : ss[1] < ss[2]}

\* The library's fact, of a relation that is a set.
LEMMA LessThanWF == IsWellFoundedOn(LessThan, Nat)
<1>1. OpToRel(<, Nat) = LessThan
  BY Zenon DEF OpToRel, LessThan
<1> QED
  BY Zenon, <1>1, NatLessThanWellFounded

\* Naturals below a bound have a greatest.
LEMMA Greatest ==
  ASSUME NEW B \in Nat, NEW S \in SUBSET (0 .. B), S # {}
  PROVE  \E x \in S : \A y \in S : y <= x
<1> DEFINE Down == {n \in Nat : n <= B /\ B - n \in S}
<1>1. Down \subseteq Nat /\ Down # {}
  <2>1. PICK x \in S : TRUE
    OBVIOUS
  <2>2. B - x \in Nat /\ B - (B - x) = x /\ B - x <= B
    BY <2>1
  <2> QED
    BY <2>1, <2>2
<1>2. PICK n \in Down : \A y \in Down : ~(<<y, n>> \in LessThan)
  <2> HIDE DEF Down
  <2> QED
    BY <1>1, WFMin, LessThanWF
<1>3. ASSUME NEW y \in S PROVE y <= B - n
  <2>1. y \in Int /\ B - y \in Nat /\ B - (B - y) = y /\ B - y <= B
    OBVIOUS
  <2>2. B - y \in Down /\ ~(B - y < n)
    BY <1>2, <2>1 DEF LessThan
  <2> QED
    BY <2>1, <2>2
<1> QED
  BY <1>2, <1>3

\* A sequence holds its own elements, in the domain from 1 to its length.
LEMMA NumbersAre ==
  ASSUME NEW q \in Seq(Nat)
  PROVE  /\ Len(q) \in Nat /\ DOMAIN q = 1 .. Len(q) /\ q \in [1 .. Len(q) -> Nat]
         /\ \A n : n \in Numbers(q) <=> \E i \in 1 .. Len(q) : q[i] = n
  BY LenProperties DEF Numbers

\* One more number at the end.
LEMMA NumbersAppend ==
  ASSUME NEW q \in Seq(Nat), NEW n \in Nat
  PROVE  /\ Append(q, n) \in Seq(Nat) /\ Len(Append(q, n)) = Len(q) + 1
         /\ \A i \in 1 .. Len(q) : Append(q, n)[i] = q[i]
         /\ Append(q, n)[Len(q) + 1] = n
         /\ Numbers(Append(q, n)) = Numbers(q) \cup {n}
<1>1. /\ Append(q, n) \in Seq(Nat) /\ Len(Append(q, n)) = Len(q) + 1
      /\ \A i \in 1 .. Len(q) : Append(q, n)[i] = q[i]
      /\ Append(q, n)[Len(q) + 1] = n
  BY AppendProperties
<1>2. PICK a \in Seq(Nat) : a = Append(q, n)
  BY <1>1
<1>3. ASSUME NEW m PROVE m \in Numbers(a) <=> m \in Numbers(q) \cup {n}
  <2>1. Len(q) \in Nat /\ 1 .. Len(a) = (1 .. Len(q)) \cup {Len(q) + 1}
    BY <1>1, <1>2, NumbersAre
  <2>2. m \in Numbers(a) <=> \E i \in 1 .. Len(a) : a[i] = m
    BY NumbersAre
  <2>3. m \in Numbers(q) <=> \E i \in 1 .. Len(q) : q[i] = m
    BY NumbersAre
  <2> QED
    BY <1>1, <1>2, <2>1, <2>2, <2>3
<1> QED
  BY <1>1, <1>2, <1>3

\* Two sequences end to end.
LEMMA NumbersConcat ==
  ASSUME NEW q \in Seq(Nat), NEW t \in Seq(Nat)
  PROVE  /\ q \o t \in Seq(Nat) /\ Len(q \o t) = Len(q) + Len(t)
         /\ \A i \in 1 .. Len(q) : (q \o t)[i] = q[i]
         /\ \A i \in 1 .. Len(t) : (q \o t)[Len(q) + i] = t[i]
         /\ Numbers(q \o t) = Numbers(q) \cup Numbers(t)
<1>1. /\ q \o t \in Seq(Nat) /\ Len(q \o t) = Len(q) + Len(t)
      /\ \A i \in 1 .. Len(q) + Len(t) : (q \o t)[i] = IF i <= Len(q) THEN q[i] ELSE t[i - Len(q)]
  BY ConcatProperties
<1>2. Len(q) \in Nat /\ Len(t) \in Nat
  BY NumbersAre
<1>3. \A i \in 1 .. Len(q) : (q \o t)[i] = q[i]
  BY <1>1, <1>2
<1>4. ASSUME NEW i \in 1 .. Len(t) PROVE (q \o t)[Len(q) + i] = t[i]
  <2>1. Len(q) + i \in 1 .. Len(q) + Len(t) /\ ~(Len(q) + i <= Len(q)) /\ (Len(q) + i) - Len(q) = i
    BY <1>2
  <2> QED
    BY <1>1, <2>1
<1>5. PICK a \in Seq(Nat) : a = q \o t
  BY <1>1
<1>6. ASSUME NEW m PROVE m \in Numbers(a) <=> m \in Numbers(q) \cup Numbers(t)
  <2>1. ASSUME NEW i \in 1 .. Len(a), a[i] = m PROVE m \in Numbers(q) \cup Numbers(t)
    <3>1. CASE i <= Len(q)
      BY <1>1, <1>2, <1>5, <2>1, <3>1, NumbersAre
    <3>2. CASE ~(i <= Len(q))
      <4>1. i - Len(q) \in 1 .. Len(t) /\ a[i] = t[i - Len(q)]
        BY <1>1, <1>2, <1>5, <3>2
      <4> QED
        BY <2>1, <4>1, NumbersAre
    <3> QED
      BY <3>1, <3>2
  <2>2. ASSUME NEW i \in 1 .. Len(t) PROVE Len(q) + i \in 1 .. Len(a)
    BY <1>1, <1>2, <1>5
  <2>3. 1 .. Len(q) \subseteq 1 .. Len(a)
    BY <1>1, <1>2, <1>5
  <2>4. m \in Numbers(a) <=> \E i \in 1 .. Len(a) : a[i] = m
    BY NumbersAre
  <2>5. m \in Numbers(q) => m \in Numbers(a)
    BY <1>3, <1>5, <2>3, <2>4, NumbersAre
  <2>6. m \in Numbers(t) => m \in Numbers(a)
    <3>1. m \in Numbers(t) <=> \E i \in 1 .. Len(t) : t[i] = m
      BY NumbersAre
    <3> QED
      BY <1>4, <1>5, <2>2, <2>4, <3>1
  <2> QED
    BY <2>1, <2>4, <2>5, <2>6
<1> QED
  BY <1>1, <1>3, <1>4, <1>5, <1>6

\* An empty one holds nothing.
LEMMA NumbersNone == <<>> \in Seq(Nat) /\ Len(<<>>) = 0 /\ Numbers(<<>>) = {}
  BY DEF Numbers

-----------------------------------------------------------------------------
(* Files, and the steps of a request *)

\* The rows of a file are rows, and the plots they name are plots.
LEMMA RowsTyped ==
  ASSUME NEW w \in Works
  PROVE  /\ w # <<>> /\ Len(w) \in Nat /\ DOMAIN w = 1 .. Len(w)
         /\ \A i \in DOMAIN w : w[i] \in Row /\ w[i] \in RowsOf(w)
         /\ RowsOf(w) \subseteq Row /\ Targets(w) \subseteq Plots
         /\ \A r \in RowsOf(w) : r.plot # None => r.plot \in Targets(w)
<1>1. w \in Seq(Row) /\ w # <<>>
  BY WorksAssumption
<1>2. Len(w) \in Nat /\ DOMAIN w = 1 .. Len(w) /\ \A i \in DOMAIN w : w[i] \in Row
  BY <1>1, LenProperties, ElementOfSeq
<1>3. RowsOf(w) \subseteq Row /\ \A i \in DOMAIN w : w[i] \in RowsOf(w)
  BY <1>2 DEF RowsOf
<1> QED
  BY <1>1, <1>2, <1>3 DEF Targets, Row

\* A request as it comes ...
LEMMA Fresh ==
  /\ NewJob \in Job /\ NewJob.pc = "new" /\ NewJob.work = <<>> /\ NewJob.held = {}
  /\ NewJob.at = 1 /\ NewJob.key = 1 /\ NewJob.number = 0 /\ NewJob.mine = NoNumbers
  /\ NoNumbers \in [Series -> Seq(Nat)] /\ NewPlot \in PlotRow
<1>1. NoNumbers \in [Series -> Seq(Nat)] /\ NewPlot \in PlotRow
  BY NumbersNone DEF NoNumbers, NewPlot, PlotRow
<1> HIDE DEF NoNumbers, NewPlot
<1> QED
  BY <1>1 DEF NewJob, Job

\* ... and when it is over.
Over(answer) == [NewJob EXCEPT !.pc = "ended", !.answer = answer]

\* A job that has its answer has the shape of one, and holds nothing.
LEMMA OverType ==
  ASSUME NEW answer \in {"none", "200", "409", "422", "500"}
  PROVE  /\ Over(answer) \in Job /\ Over(answer).pc = "ended" /\ Over(answer).answer = answer
         /\ Over(answer).work = <<>> /\ Over(answer).held = {} /\ Over(answer).mine = NoNumbers
         /\ Over(answer).at = 1 /\ Over(answer).key = 1 /\ Over(answer).number = 0
  BY Fresh DEF Over, Job

\* The row a request is at has a number to draw, and which of them is known.
ProgressOK(c) ==
    /\ c.pc \in {"new", "approved", "locking"} => c.at = 1 /\ c.key = 1 /\ c.number = 0
    /\ c.pc \in {"approved", "locking", "running"} => c.work \in Works
    /\ c.key = 1 \/ (c.pc = "running" /\ c.at \in DOMAIN c.work /\ c.key \in 1 .. Len(c.work[c.at].keys))
    /\ c.number # 0 => c.pc = "running" /\ c.at \in DOMAIN c.work /\ c.work[c.at].keys # <<>>

Typed == TypeOK /\ \A j \in Jobs : ProgressOK(job[j])

\* What may happen to a request: it is sent, it ends, it locks the next plot, it has
\* compared everything it has locked, it works, or it commits.
SameWork(o, c) == c.work = o.work /\ c.seen = o.seen /\ c.answer = o.answer
SameNumbers(o, c) == c.at = o.at /\ c.key = o.key /\ c.number = o.number /\ c.mine = o.mine

Opens(o, c) == /\ o.pc \in {"new", "approved"} /\ c.pc \in {"approved", "locking"}
               /\ c.held = o.held /\ c.answer = o.answer /\ SameNumbers(o, c)

Ended(c) == /\ c.pc = "ended" /\ c.work = <<>> /\ c.held = {} /\ c.mine = NoNumbers

Locks(j, c) == /\ job[j].pc = "locking" /\ c.pc = "locking"
               /\ \E p \in Plots : /\ IsNextToLock(j, p) /\ LockFree(p)
                                   /\ c.held = job[j].held \cup {p}
               /\ SameWork(job[j], c) /\ SameNumbers(job[j], c)

Stands(j) == IsImport(job[j].work) =>
                \A r \in RowsOf(job[j].work) : CredentialStands(j, r) /\ FinalStands(j, r)

Verifies(j, c) == /\ job[j].pc = "locking" /\ c.pc = "running"
                  /\ Targets(job[j].work) \subseteq job[j].held /\ Stands(j)
                  /\ c.held = job[j].held /\ SameWork(job[j], c) /\ SameNumbers(job[j], c)

Draws(j, c) == LET s == CurrentSeries(j) IN
    \/ c.mine = job[j].mine /\ c.number = 0
    \/ /\ c.mine = job[j].mine /\ c.at = job[j].at /\ c.key = job[j].key
       /\ NeedsNumber(j) /\ c.number \in 1 .. Len(book[s]) + Len(job[j].mine[s]) + 1
    \/ /\ NeedsNumber(j) /\ job[j].number # 0 /\ c.number = 0
       /\ ~Contended(j, s, job[j].number) /\ ~Taken(j, s, job[j].number)
       /\ c.mine = [job[j].mine EXCEPT ![s] = Append(@, job[j].number)]

Executes(j, c) == /\ job[j].pc = "running" /\ c.pc = "running" /\ c.held = job[j].held
                /\ SameWork(job[j], c) /\ Draws(j, c)

Commits(j, c) == /\ job[j].pc = "running" /\ Ended(c)
                 /\ row' \in [Plots -> PlotRow]
                 /\ \A p \in Plots \ Targets(job[j].work) : row'[p] = row[p]
                 /\ book' = [s \in Series |-> book[s] \o job[j].mine[s]]

JobStep(j, c) ==
    /\ c \in Job /\ ProgressOK(c) /\ job' = [job EXCEPT ![j] = c]
    /\ \/ /\ UNCHANGED <<row, book>>
          /\ \/ Opens(job[j], c) \/ Locks(j, c) \/ Verifies(j, c) \/ Executes(j, c)
             \/ Ended(c) /\ c.answer # "200"
       \/ Commits(j, c)

StepOK(j) == \E c : JobStep(j, c)

\* A request that is refused or given up leaves nothing.
LEMMA EndSteps ==
  ASSUME NEW j \in Jobs, NEW answer \in {"none", "409", "422", "500"}, End(j, answer),
         UNCHANGED <<row, book>>
  PROVE  StepOK(j)
<1>1. job' = [job EXCEPT ![j] = Over(answer)]
  BY DEF End, Over
<1>2. ProgressOK(Over(answer)) /\ Ended(Over(answer)) /\ Over(answer).answer # "200"
  BY OverType DEF ProgressOK, Ended
<1> QED
  BY <1>1, <1>2, OverType DEF StepOK, JobStep

\* A request is sent.
LEMMA OpenSteps ==
  ASSUME Typed, NEW j \in Jobs, NEW w \in Works, Preview(j, w) \/ Upload(j, w) \/ Call(j, w)
  PROVE  StepOK(j)
<1>1. job[j] \in Job /\ ProgressOK(job[j]) /\ row \in [Plots -> PlotRow]
  BY DEF Typed, TypeOK
<1>2. CASE \E answer \in {"none", "409", "422", "500"} : End(j, answer) /\ UNCHANGED <<row, book>>
  BY <1>2, EndSteps
<1>3. CASE ~\E answer \in {"none", "409", "422", "500"} : End(j, answer) /\ UNCHANGED <<row, book>>
  <2>1. PICK pc \in {"approved", "locking"}, seen \in [Plots -> PlotRow] :
           /\ job[j].pc \in {"new", "approved"} /\ UNCHANGED <<row, book>>
           /\ job' = [job EXCEPT ![j].pc = pc, ![j].work = w, ![j].seen = seen]
    <3>1. CASE Preview(j, w)
      <4> DEFINE seen == [p \in Plots |-> IF p \in BoundPlots(w) THEN row[p] ELSE NewPlot]
      <4>1. seen \in [Plots -> PlotRow]
        BY <1>1 DEF NewPlot, PlotRow
      <4> HIDE DEF seen
      <4> QED
        BY <3>1, <4>1 DEF Preview, seen
    <3>2. CASE ~Preview(j, w)
      <4>1. /\ job[j].pc \in {"new", "approved"} /\ UNCHANGED <<row, book>>
            /\ job' = [job EXCEPT ![j].pc = "locking", ![j].work = w]
        BY <1>3, <3>2 DEF Upload, Call
      <4>2. job[j].seen \in [Plots -> PlotRow]
        BY <1>1 DEF Job
      <4>3. job' = [job EXCEPT ![j].pc = "locking", ![j].work = w, ![j].seen = job[j].seen]
        BY <1>1, <4>1 DEF Job, Typed, TypeOK
      <4> QED
        BY <4>1, <4>2, <4>3
    <3> QED
      BY <3>1, <3>2
  <2>2. PICK c : c = [job[j] EXCEPT !.pc = pc, !.work = w, !.seen = seen]
    OBVIOUS
  <2>3. /\ c \in Job /\ c.pc = pc /\ c.work = w /\ c.held = job[j].held /\ c.answer = job[j].answer
        /\ SameNumbers(job[j], c)
    BY <1>1, <2>2 DEF Job, SameNumbers
  <2>4. job' = [job EXCEPT ![j] = c]
    BY <2>1, <2>2 DEF Typed, TypeOK
  <2>5. ProgressOK(c) /\ Opens(job[j], c)
    BY <1>1, <2>1, <2>3 DEF ProgressOK, Opens, SameNumbers
  <2> QED
    BY <2>1, <2>3, <2>4, <2>5 DEF StepOK, JobStep
<1> QED
  BY <1>2, <1>3

\* What a request may count on before its step.
LEMMA JobType ==
  ASSUME Typed, NEW j \in Jobs
  PROVE  /\ job \in [Jobs -> Job] /\ job[j] \in Job /\ ProgressOK(job[j])
         /\ row \in [Plots -> PlotRow] /\ book \in [Series -> Seq(Nat)]
         /\ job[j].held \in SUBSET Plots /\ job[j].mine \in [Series -> Seq(Nat)]
         /\ job[j].at \in Nat /\ job[j].key \in Nat /\ job[j].number \in Nat
  BY DEF Typed, TypeOK, Job

\* It locks the next of its plots, or everything it has locked is as it should be.
LEMMA LockSteps ==
  ASSUME Typed, NEW j \in Jobs, (\E p \in Plots : Lock(j, p)) \/ Verify(j)
  PROVE  StepOK(j)
<1>0. job \in [Jobs -> Job] /\ job[j] \in Job /\ ProgressOK(job[j]) /\ job[j].held \in SUBSET Plots
  BY JobType
<1>1. CASE \E answer \in {"none", "409", "422", "500"} : End(j, answer) /\ UNCHANGED <<row, book>>
  BY <1>1, EndSteps
<1>2. CASE ~\E answer \in {"none", "409", "422", "500"} : End(j, answer) /\ UNCHANGED <<row, book>>
  <2>1. CASE \E p \in Plots : Lock(j, p)
    <3>1. PICK p \in Plots : Lock(j, p)
      BY <2>1
    <3>2. PICK c : c = [job[j] EXCEPT !.held = @ \cup {p}]
      OBVIOUS
    <3>3. /\ c \in Job /\ c.held = job[j].held \cup {p} /\ c.pc = job[j].pc
          /\ SameWork(job[j], c) /\ SameNumbers(job[j], c)
      BY <1>0, <3>2 DEF Job, SameWork, SameNumbers
    <3>4. job' = [job EXCEPT ![j] = c] /\ UNCHANGED <<row, book>>
      BY <1>0, <1>2, <3>1, <3>2 DEF Lock
    <3>5. Locks(j, c)
      BY <3>1, <3>3 DEF Lock, Locks
    <3>6. ProgressOK(c)
      BY <1>0, <3>3 DEF ProgressOK, SameWork, SameNumbers
    <3> QED
      BY <3>3, <3>4, <3>5, <3>6 DEF StepOK, JobStep
  <2>2. CASE Verify(j)
    <3>1. PICK c : c = [job[j] EXCEPT !.pc = "running"]
      OBVIOUS
    <3>2. /\ c \in Job /\ c.held = job[j].held /\ c.pc = "running"
          /\ SameWork(job[j], c) /\ SameNumbers(job[j], c)
      BY <1>0, <3>1 DEF Job, SameWork, SameNumbers
    <3>3. job' = [job EXCEPT ![j] = c] /\ UNCHANGED <<row, book>> /\ Stands(j)
          /\ job[j].pc = "locking" /\ Targets(job[j].work) \subseteq job[j].held
      BY <1>0, <1>2, <2>2, <3>1 DEF Verify, Stands
    <3>4. Verifies(j, c)
      BY <3>2, <3>3 DEF Verifies
    <3>5. ProgressOK(c)
      BY <1>0, <3>2, <3>3 DEF ProgressOK, SameWork, SameNumbers
    <3> QED
      BY <3>2, <3>3, <3>4, <3>5 DEF StepOK, JobStep
  <2> QED
    BY <2>1, <2>2
<1> QED
  BY <1>1, <1>2

\* The series of the key that a row is at.
LEMMA SeriesOfRow ==
  ASSUME Typed, NEW j \in Jobs, NeedsNumber(j)
  PROVE  /\ job[j].work \in Works /\ Current(j) \in Row
         /\ Len(Current(j).keys) \in Nat /\ job[j].key \in 1 .. Len(Current(j).keys)
         /\ CurrentSeries(j) \in Series
<1>1. job[j].pc = "running" /\ job[j].at \in DOMAIN job[j].work /\ Current(j).keys # <<>>
  BY DEF NeedsNumber, Runs
<1>2. job[j].work \in Works /\ ProgressOK(job[j])
  BY <1>1, JobType DEF ProgressOK
<1>3. Current(j) \in Row
  BY <1>1, <1>2, RowsTyped DEF Current
<1>4. PICK keys \in Seq(Series) : keys = Current(j).keys /\ keys # <<>>
  BY <1>1, <1>3 DEF Row
<1>5. Len(keys) \in Nat \ {0}
  BY <1>4, EmptySeq
<1>6. job[j].key \in 1 .. Len(keys)
  BY <1>2, <1>4, <1>5 DEF ProgressOK, Current
<1>7. keys[job[j].key] \in Series
  BY <1>4, <1>6, ElementOfSeq
<1> QED
  BY <1>2, <1>3, <1>4, <1>5, <1>6, <1>7 DEF CurrentSeries

\* A row on an existing plot, and a number read for a new one.
LEMMA ExecuteSteps ==
  ASSUME Typed, NEW j \in Jobs, Execute(j) \/ ReadMax(j)
  PROVE  StepOK(j)
<1>0. job \in [Jobs -> Job] /\ job[j] \in Job /\ ProgressOK(job[j]) /\ job[j].at \in Nat
      /\ job[j].number \in Nat
  BY JobType
<1>1. CASE \E answer \in {"none", "409", "422", "500"} : End(j, answer) /\ UNCHANGED <<row, book>>
  BY <1>1, EndSteps
<1>2. CASE Execute(j) /\ ~\E answer \in {"none", "409", "422", "500"} : End(j, answer) /\ UNCHANGED <<row, book>>
  <2>1. /\ job' = [job EXCEPT ![j].at = @ + 1] /\ UNCHANGED <<row, book>>
        /\ job[j].pc = "running" /\ job[j].at \in DOMAIN job[j].work /\ Current(j).keys = <<>>
    BY <1>2 DEF Execute, Runs
  <2>2. PICK n \in Nat : n = job[j].at + 1
    BY <1>0
  <2>3. PICK c : c = [job[j] EXCEPT !.at = n]
    OBVIOUS
  <2>4. /\ c \in Job /\ c.held = job[j].held /\ c.pc = job[j].pc /\ SameWork(job[j], c)
        /\ c.at = n /\ c.key = job[j].key /\ c.number = job[j].number /\ c.mine = job[j].mine
    BY <1>0, <2>3 DEF Job, SameWork
  <2>5. job' = [job EXCEPT ![j] = c]
    BY <1>0, <2>1, <2>2, <2>3
  <2>6. job[j].number = 0 /\ job[j].key = 1
    <3>1. Len(<<>>) = 0 /\ 1 .. 0 = {}
      OBVIOUS
    <3> QED
      BY <1>0, <2>1, <3>1 DEF ProgressOK, Current
  <2>7. ProgressOK(c) /\ Draws(j, c)
    BY <1>0, <2>1, <2>4, <2>6 DEF ProgressOK, Draws, SameWork
  <2> QED
    BY <2>1, <2>4, <2>5, <2>7 DEF StepOK, JobStep, Executes
<1>3. CASE ReadMax(j)
  <2>1. PICK n \in 1 .. Len(book[CurrentSeries(j)]) + Len(job[j].mine[CurrentSeries(j)]) + 1 :
           job' = [job EXCEPT ![j].number = n]
    BY <1>3 DEF ReadMax
  <2>2. NeedsNumber(j) /\ UNCHANGED <<row, book>> /\ n \in Nat
    <3>1. book[CurrentSeries(j)] \in Seq(Nat) /\ job[j].mine[CurrentSeries(j)] \in Seq(Nat)
      BY <1>3, SeriesOfRow, JobType DEF ReadMax
    <3>2. Len(book[CurrentSeries(j)]) \in Nat /\ Len(job[j].mine[CurrentSeries(j)]) \in Nat
      BY <3>1, NumbersAre
    <3> QED
      BY <1>3, <2>1, <3>2 DEF ReadMax
  <2>3. PICK c : c = [job[j] EXCEPT !.number = n]
    OBVIOUS
  <2>4. /\ c \in Job /\ c.held = job[j].held /\ c.pc = job[j].pc /\ SameWork(job[j], c)
        /\ c.at = job[j].at /\ c.key = job[j].key /\ c.number = n /\ c.mine = job[j].mine
    BY <1>0, <2>2, <2>3 DEF Job, SameWork
  <2>5. job' = [job EXCEPT ![j] = c]
    BY <1>0, <2>1, <2>3
  <2>6. ProgressOK(c) /\ Draws(j, c)
    BY <1>0, <2>1, <2>2, <2>4 DEF ProgressOK, Draws, SameWork, NeedsNumber, Runs, Current
  <2> QED
    BY <2>2, <2>4, <2>5, <2>6 DEF StepOK, JobStep, Executes, NeedsNumber, Runs
<1> QED
  BY <1>1, <1>2, <1>3

\* The number is a row's, unless a unique index has it.
LEMMA InsertSteps ==
  ASSUME Typed, NEW j \in Jobs, Insert(j)
  PROVE  StepOK(j)
<1>0. /\ job \in [Jobs -> Job] /\ job[j] \in Job /\ ProgressOK(job[j]) /\ job[j].number \in Nat
      /\ job[j].mine \in [Series -> Seq(Nat)] /\ job[j].at \in Nat /\ job[j].key \in Nat
  BY JobType
<1>1. CASE \E answer \in {"none", "409", "422", "500"} : End(j, answer) /\ UNCHANGED <<row, book>>
  BY <1>1, EndSteps
<1>2. CASE ~\E answer \in {"none", "409", "422", "500"} : End(j, answer) /\ UNCHANGED <<row, book>>
  <2> DEFINE last == job[j].key = Len(Current(j).keys)
             next == Append(job[j].mine[CurrentSeries(j)], job[j].number)
  <2>1. PICK s \in Series, n \in Nat : s = CurrentSeries(j) /\ n = job[j].number
    BY <1>0, SeriesOfRow DEF Insert
  <2>2. /\ job' = [job EXCEPT ![j].mine[s] = Append(@, n), ![j].number = 0,
                              ![j].key = IF last THEN 1 ELSE @ + 1,
                              ![j].at = IF last THEN @ + 1 ELSE @]
        /\ NeedsNumber(j) /\ n # 0 /\ ~Contended(j, s, n) /\ ~Taken(j, s, n)
        /\ UNCHANGED <<row, book>>
    BY <1>2, <2>1 DEF Insert
  <2>3. /\ job[j].pc = "running" /\ job[j].at \in DOMAIN job[j].work /\ job[j].work \in Works
        /\ Current(j) = job[j].work[job[j].at] /\ Current(j).keys # <<>>
        /\ Len(Current(j).keys) \in Nat /\ job[j].key \in 1 .. Len(Current(j).keys)
    BY <2>2, SeriesOfRow DEF NeedsNumber, Runs, Current
  <2>4. PICK key \in Nat, at \in Nat :
           /\ key = IF last THEN 1 ELSE job[j].key + 1
           /\ at = IF last THEN job[j].at + 1 ELSE job[j].at
    BY <1>0
  <2>5. PICK m \in [Series -> Seq(Nat)] : m = [job[j].mine EXCEPT ![s] = Append(@, n)]
    <3>1. Append(job[j].mine[s], n) \in Seq(Nat)
      BY <1>0, NumbersAppend
    <3> QED
      BY <1>0, <3>1
  <2>6. PICK c : c = [job[j] EXCEPT !.mine = m, !.number = 0, !.key = key, !.at = at]
    OBVIOUS
  <2>7. /\ c \in Job /\ c.held = job[j].held /\ c.pc = job[j].pc /\ SameWork(job[j], c)
        /\ c.at = at /\ c.key = key /\ c.number = 0 /\ c.mine = m
    BY <1>0, <2>6 DEF Job, SameWork
  <2>8. job' = [job EXCEPT ![j] = c]
    BY <1>0, <2>2, <2>4, <2>5, <2>6 DEF Job
  <2>9. ProgressOK(c)
    <3>1. key = 1 \/ (at = job[j].at /\ key \in 1 .. Len(Current(j).keys))
      <4>1. PICK k \in Nat, l \in Nat : k = job[j].key /\ l = Len(Current(j).keys)
        BY <1>0, <2>3
      <4>2. k \in 1 .. l /\ (last <=> k = l)
        BY <2>3, <4>1
      <4> HIDE DEF last
      <4> QED
        BY <2>4, <4>1, <4>2
    <3> QED
      BY <2>3, <2>7, <3>1 DEF ProgressOK, SameWork
  <2>10. Draws(j, c)
    BY <2>1, <2>2, <2>5, <2>7 DEF Draws
  <2> QED
    BY <2>2, <2>3, <2>7, <2>8, <2>9, <2>10 DEF StepOK, JobStep, Executes
<1> QED
  BY <1>1, <1>2

\* Everything a request wrote is seen at once.
LEMMA CommitSteps ==
  ASSUME Typed, NEW j \in Jobs, Commit(j)
  PROVE  StepOK(j)
<1>1. job[j].pc = "running" /\ job' = [job EXCEPT ![j] = Over("200")]
      /\ book' = [s \in Series |-> book[s] \o job[j].mine[s]]
  BY DEF Commit, End, Over
<1>2. PICK retire \in BOOLEAN :
         row' = [p \in Plots |->
                   IF p \notin Targets(job[j].work) THEN row[p]
                   ELSE After(CHOOSE r \in RowsOf(job[j].work) : r.plot = p, p, retire)]
  BY DEF Commit
<1>3. ASSUME NEW p \in Plots, NEW r PROVE After(r, p, retire) \in PlotRow
  <2>1. row[p].open \in BOOLEAN /\ row[p].growing \in BOOLEAN /\ row[p].rev \in Nat /\ row[p].cred \in Nat
    BY JobType DEF PlotRow
  <2>2. row[p].rev + 1 \in Nat /\ row[p].cred + 1 \in Nat
    BY <2>1
  <2> QED
    BY <2>1, <2>2 DEF After, NextVersion, PlotRow
<1>4. row' \in [Plots -> PlotRow] /\ \A p \in Plots \ Targets(job[j].work) : row'[p] = row[p]
  <2> HIDE DEF After
  <2>1. \A p \in Plots : row'[p] \in PlotRow
    BY <1>2, <1>3, JobType
  <2> QED
    BY <1>2, <2>1
<1>5. ProgressOK(Over("200")) /\ Ended(Over("200"))
  BY OverType DEF ProgressOK, Ended
<1>6. Commits(j, Over("200"))
  BY <1>1, <1>4, <1>5 DEF Commits
<1> QED
  BY <1>1, <1>5, <1>6, OverType DEF StepOK, JobStep

\* Every step is one of those of a request, or leaves everything as it is.
LEMMA NextCases == ASSUME Typed, [Next]_vars PROVE UNCHANGED vars \/ \E j \in Jobs : StepOK(j)
<1>1. ASSUME NEW j \in Jobs, Drop(j) \/ Victim(j) PROVE StepOK(j)
  BY <1>1, EndSteps DEF Drop, Victim
<1> QED
  BY <1>1, OpenSteps, LockSteps, ExecuteSteps, InsertSteps, CommitSteps DEF Next, Step, Quiet

-----------------------------------------------------------------------------
(* Types and progress *)

\* At first every request is still to come.
LEMMA InitTyped == ASSUME Init PROVE Typed
<1>1. ASSUME NEW p \in Plots PROVE row[p] \in PlotRow
  <2>1. row[p] = [open |-> TRUE, growing |-> (p \in Planted), rev |-> 0, cred |-> 0]
    BY DEF Init, NewPlot
  <2>2. (p \in Planted) \in BOOLEAN
    OBVIOUS
  <2> QED
    BY <2>1, <2>2 DEF PlotRow
<1>2. row \in [Plots -> PlotRow] /\ book \in [Series -> Seq(Nat)] /\ job \in [Jobs -> Job]
  BY <1>1, Fresh DEF Init
<1> QED
  BY <1>2, Fresh DEF Init, Typed, TypeOK, ProgressOK

\* No step leaves a request halfway through a row.
LEMMA NextTyped == ASSUME Typed, [Next]_vars PROVE Typed'
<1>1. CASE UNCHANGED vars
  BY <1>1 DEF vars, Typed, TypeOK, ProgressOK
<1>2. CASE \E j \in Jobs : StepOK(j)
  <2>0. PICK j \in Jobs : StepOK(j)
    BY <1>2
  <2>1. PICK c : JobStep(j, c)
    BY <2>0 DEF StepOK
  <2>2. job' \in [Jobs -> Job] /\ job'[j] = c /\ \A k \in Jobs \ {j} : job'[k] = job[k]
    BY <2>1, JobType DEF JobStep
  <2>3. row' \in [Plots -> PlotRow]
    BY <2>1, JobType DEF JobStep, Commits
  <2>4. book' \in [Series -> Seq(Nat)]
    <3>1. \A s \in Series : book[s] \o job[j].mine[s] \in Seq(Nat)
      BY JobType, NumbersConcat
    <3> QED
      BY <2>1, <3>1, JobType DEF JobStep, Commits
  <2>5. \A k \in Jobs : ProgressOK(job'[k])
    BY <2>1, <2>2, JobType DEF JobStep
  <2> QED
    BY <2>2, <2>3, <2>4, <2>5 DEF Typed, TypeOK, ProgressOK
<1> QED
  BY <1>1, <1>2, NextCases

-----------------------------------------------------------------------------
(* Locks, and what was compared under them *)

LocksOK(j) ==
    /\ job[j].pc \notin {"locking", "running"} => job[j].held = {}
    /\ job[j].pc = "locking" =>
          \A p \in job[j].held : \A q \in Targets(job[j].work) \ job[j].held : p < q
    /\ job[j].pc = "running" => Targets(job[j].work) \subseteq job[j].held /\ Stands(j)

Exclusive == \A j, k \in Jobs : j # k => job[j].held \cap job[k].held = {}

Bounded == \E B \in Nat : \A j \in Jobs : job[j].held \subseteq 0 .. B

Locking == Typed /\ (\A j \in Jobs : LocksOK(j)) /\ Exclusive /\ Bounded

\* At first nothing is locked.
THEOREM InitLocking == Init => Locking
<1> SUFFICES ASSUME Init PROVE Locking
  OBVIOUS
<1>1. \A j \in Jobs : job[j].held = {} /\ job[j].pc = "new"
  BY Fresh DEF Init
<1>2. Bounded
  BY <1>1 DEF Bounded
<1> QED
  BY <1>1, <1>2, InitTyped DEF Locking, LocksOK, Exclusive

\* Nobody's plots change under a request that has compared them.
LEMMA StandsStays ==
  ASSUME Locking, Exclusive, NEW j \in Jobs, NEW k \in Jobs \ {j}, NEW c, JobStep(k, c),
         LocksOK(j), job[j].pc = "running"
  PROVE  Stands(j)'
<1>1. job'[j] = job[j] /\ job[j].work \in Works
  BY JobType DEF JobStep, Locking, ProgressOK
<1>2. SUFFICES ASSUME IsImport(job[j].work), NEW r \in RowsOf(job[j].work)
               PROVE  CredentialStands(j, r)' /\ FinalStands(j, r)'
  BY <1>1 DEF Stands
<1>3. CredentialStands(j, r) /\ FinalStands(j, r) /\ Targets(job[j].work) \subseteq job[j].held
  BY <1>2 DEF LocksOK, Stands
<1>4. r.act = "final" => r.plot # None
  BY <1>1, <1>2, WorksAssumption
<1>5. r.plot # None => r.plot \in Plots /\ r.plot \in job[j].held
  BY <1>1, <1>2, <1>3, RowsTyped
<1>6. r.plot # None => row'[r.plot] = row[r.plot]
  <2>1. CASE UNCHANGED row
    BY <2>1
  <2>2. CASE Commits(k, c)
    <3>1. Targets(job[k].work) \subseteq job[k].held
      BY <2>2 DEF Commits, Locking, LocksOK
    <3> QED
      BY <1>5, <2>2, <3>1 DEF Commits, Exclusive
  <2> QED
    BY <2>1, <2>2 DEF JobStep
<1> QED
  BY <1>1, <1>3, <1>4, <1>6 DEF CredentialStands, FinalStands

\* A request that locks its next plot has locked lower ones, and alone.
LEMMA LocksStay ==
  ASSUME Locking, NEW j \in Jobs, NEW c, JobStep(j, c), Locks(j, c)
  PROVE  LocksOK(j)' /\ Exclusive' /\ Bounded'
<1>1. job'[j] = c /\ (\A k \in Jobs \ {j} : job'[k] = job[k]) /\ job[j].work \in Works
  BY JobType DEF JobStep, Locking, Locks, ProgressOK
<1>2. PICK p \in Plots : /\ IsNextToLock(j, p) /\ LockFree(p)
                         /\ c.held = job[j].held \cup {p} /\ c.work = job[j].work
                         /\ c.pc = "locking" /\ job[j].pc = "locking"
  BY DEF Locks, SameWork
<1>3. \A x \in Plots : x \in Nat
  BY PlotsAssumption
<1>4. Targets(job[j].work) \subseteq Plots
  BY <1>1, RowsTyped
<1>5. LocksOK(j)'
  <2>1. \A y \in Targets(c.work) \ c.held : p < y
    BY <1>2, <1>3, <1>4 DEF IsNextToLock
  <2>2. \A x \in job[j].held : \A y \in Targets(job[j].work) \ job[j].held : x < y
    BY <1>2 DEF Locking, LocksOK
  <2> QED
    BY <1>1, <1>2, <2>1, <2>2 DEF LocksOK
<1>6. Exclusive'
  BY <1>1, <1>2 DEF Exclusive, LockFree, Locking
<1>7. Bounded'
  <2>1. PICK B \in Nat : \A k \in Jobs : job[k].held \subseteq 0 .. B
    BY DEF Locking, Bounded
  <2>2. PICK C \in Nat : B <= C /\ p <= C
    <3>1. p \in Nat /\ B + p \in Nat /\ B <= B + p /\ p <= B + p
      BY <1>3
    <3> QED
      BY <3>1
  <2>3. \A k \in Jobs : job'[k].held \subseteq 0 .. C
    <3>1. 0 .. B \subseteq 0 .. C /\ p \in 0 .. C
      BY <1>3, <2>1, <2>2
    <3> QED
      BY <1>1, <1>2, <2>1, <3>1
  <2> QED
    BY <2>3 DEF Bounded
<1> QED
  BY <1>5, <1>6, <1>7

\* No step of any request breaks it.
THEOREM NextLocking == Locking /\ [Next]_vars => Locking'
<1> SUFFICES ASSUME Locking, [Next]_vars PROVE Locking'
  OBVIOUS
<1>0. Typed /\ Typed' /\ Exclusive
  BY NextTyped DEF Locking
<1>1. CASE UNCHANGED vars
  BY <1>0, <1>1 DEF vars, Locking, LocksOK, Exclusive, Bounded, Stands, CredentialStands, FinalStands
<1>2. CASE \E j \in Jobs : StepOK(j)
  <2>0. PICK j \in Jobs : StepOK(j)
    BY <1>2
  <2>1. PICK c : JobStep(j, c)
    BY <2>0 DEF StepOK
  <2>2. job'[j] = c /\ \A k \in Jobs \ {j} : job'[k] = job[k]
    BY <1>0, <2>1, JobType DEF JobStep
  <2>3. ASSUME NEW k \in Jobs \ {j} PROVE LocksOK(k)'
    <3>1. LocksOK(k) /\ job'[k] = job[k]
      BY <2>2 DEF Locking
    <3>2. job[k].pc = "running" => Stands(k)'
      BY <1>0, <2>1, <3>1, StandsStays
    <3> QED
      BY <3>1, <3>2 DEF LocksOK
  <2>4. CASE Locks(j, c)
    BY <1>0, <2>1, <2>3, <2>4, LocksStay DEF Locking
  <2>5. CASE ~Locks(j, c)
    <3>1. c.held = job[j].held \/ c.held = {}
      BY <2>1, <2>5 DEF JobStep, Opens, Verifies, Executes, Ended, Commits
    <3>2. Exclusive' /\ Bounded'
      BY <2>2, <3>1 DEF Locking, Exclusive, Bounded
    <3>3. LocksOK(j)'
      <4>1. CASE Opens(job[j], c) \/ Ended(c)
        BY <2>2, <4>1 DEF Opens, Ended, LocksOK, Locking
      <4>2. CASE Verifies(j, c) /\ UNCHANGED row
        BY <2>2, <4>2 DEF Verifies, SameWork, LocksOK, Stands, CredentialStands, FinalStands
      <4>3. CASE Executes(j, c) /\ UNCHANGED row
        BY <2>2, <4>3 DEF Executes, SameWork, LocksOK, Locking, Stands, CredentialStands, FinalStands
      <4> QED
        BY <2>1, <2>5, <4>1, <4>2, <4>3 DEF JobStep, Commits
    <3> QED
      BY <1>0, <2>3, <3>2, <3>3 DEF Locking
  <2> QED
    BY <2>4, <2>5
<1> QED
  BY <1>0, <1>1, <1>2, NextCases

\* Requests never wait for each other's plots in a circle: of those in a circle, take the
\* one whose next plot is the highest; whoever holds that plot waits for a higher one.
THEOREM NoDeadlock == Spec => []PlotLocksNeverDeadlock
<1>1. Locking => PlotLocksNeverDeadlock
  <2> SUFFICES ASSUME Locking, NEW S \in SUBSET Jobs, S # {},
                      \A j \in S : \E k \in S : AwaitsPlotOf(j, k)
               PROVE  FALSE
    BY DEF PlotLocksNeverDeadlock
  <2> DEFINE Awaited == {p \in Plots : \E j, k \in S : job[j].pc = "locking" /\ p \in job[k].held
                                                       /\ IsNextToLock(j, p)}
  <2>1. PICK B \in Nat : \A j \in Jobs : job[j].held \subseteq 0 .. B
    BY DEF Locking, Bounded
  <2>2. \A j \in S : \E p \in Awaited : job[j].pc = "locking" /\ IsNextToLock(j, p)
    BY JobType DEF AwaitsPlotOf, Locking
  <2>3. Awaited # {} /\ Awaited \in SUBSET (0 .. B)
    BY <2>1, <2>2
  <2>4. PICK p \in Awaited : \A q \in Awaited : q <= p
    <3> HIDE DEF Awaited
    <3> QED
      BY <2>1, <2>3, Greatest
  <2>5. PICK k \in S : p \in job[k].held
    BY <2>4
  <2>6. PICK q \in Awaited : job[k].pc = "locking" /\ IsNextToLock(k, q)
    BY <2>2, <2>5
  <2>7. p < q
    BY <2>5, <2>6 DEF IsNextToLock, Locking, LocksOK
  <2>8. p \in Nat /\ q \in Nat /\ q <= p
    BY <2>3, <2>4, <2>6
  <2> QED
    BY <2>7, <2>8
<1> QED
  BY <1>1, InitLocking, NextLocking, PTL DEF Spec

\* An import closes a cycle or replaces a password only on a plot that is as the preview
\* showed it, because nobody else has held it since it was compared.
THEOREM ApprovalBinds == Spec => CommitsWhatWasApproved
<1>1. ASSUME Locking, [Next]_vars, NEW j \in Jobs,
             IsImport(job[j].work), job'[j].answer = "200", job[j].answer # "200",
             NEW r \in RowsOf(job[j].work)
      PROVE  /\ r.act = "final" => row[r.plot].rev = job[j].seen[r.plot].rev /\ row[r.plot].growing
             /\ r.password /\ r.plot # None => row[r.plot].cred = job[j].seen[r.plot].cred
  <2>0. PICK k \in Jobs : StepOK(k)
    BY <1>1, NextCases DEF Locking, vars
  <2>1. PICK c : JobStep(k, c)
    BY <2>0 DEF StepOK
  <2>2. k = j /\ job'[j] = c
    BY <1>1, <2>1, JobType DEF JobStep, Locking
  <2>3. Commits(j, c)
    BY <1>1, <2>1, <2>2 DEF JobStep, Opens, Locks, Verifies, Executes, SameWork
  <2> QED
    BY <1>1, <2>3 DEF Commits, Locking, LocksOK, Stands, CredentialStands, FinalStands
<1>2. Locking /\ [Next]_vars =>
        [\A j \in Jobs : (IsImport(job[j].work) /\ job'[j].answer = "200" /\ job[j].answer # "200")
          => \A r \in RowsOf(job[j].work) :
                /\ r.act = "final" => /\ row[r.plot].rev = job[j].seen[r.plot].rev
                                      /\ row[r.plot].growing
                /\ r.password /\ r.plot # None => row[r.plot].cred = job[j].seen[r.plot].cred]_vars
  BY <1>1
<1> QED
  BY <1>2, InitLocking, NextLocking, PTL DEF Spec, CommitsWhatWasApproved

-----------------------------------------------------------------------------
(* Numbers *)

Mine(j, s) == Numbers(job[j].mine[s])

\* The numbers a request has drawn of a series follow the committed ones.
Continues(j) == \A s \in Series : \A i \in 1 .. Len(job[j].mine[s]) :
                   job[j].mine[s][i] = Len(book[s]) + i

\* The one it has read is at most the next.
Read(j) == job[j].number # 0 =>
    job[j].number <= Len(book[CurrentSeries(j)]) + Len(job[j].mine[CurrentSeries(j)]) + 1

\* No number is drawn twice by those that print alike, nor drawn and committed.
DrawnOnce == \A j, k \in Jobs : \A s \in Series : \A x \in Alike(s) :
                j # k \/ s # x => Mine(j, s) \cap Mine(k, x) = {}
DrawnAnew == \A j \in Jobs : \A s \in Series : \A x \in Alike(s) : Mine(j, s) \cap Numbers(book[x]) = {}

Numbered == /\ Typed
            /\ NumbersFollowCommits /\ PrintsAreUnique
            /\ \A j \in Jobs : Continues(j) /\ Read(j)
            /\ DrawnOnce /\ DrawnAnew

\* A series prints like itself, and who prints like it is printed like by it.
LEMMA AlikeIs == \A s \in Series : s \in Alike(s) /\ \A x \in Alike(s) : x \in Series /\ s \in Alike(x)
  BY DEF Alike

\* At first no number is drawn.
THEOREM InitNumbered == Init => Numbered
<1> SUFFICES ASSUME Init PROVE Numbered
  OBVIOUS
<1>1. \A s \in Series : book[s] = <<>> /\ \A j \in Jobs : job[j].mine[s] = <<>> /\ job[j].number = 0
  BY Fresh DEF Init, NoNumbers
<1>2. NumbersFollowCommits
  BY <1>1 DEF NumbersFollowCommits
<1>3. PrintsAreUnique
  BY <1>1, NumbersNone, AlikeIs DEF PrintsAreUnique
<1>4. \A j \in Jobs : Continues(j) /\ Read(j)
  <2>1. ASSUME NEW j \in Jobs PROVE Continues(j)
    <3>1. \A s \in Series : 1 .. Len(job[j].mine[s]) = {}
      BY <1>1, NumbersNone
    <3> QED
      BY <3>1 DEF Continues
  <2>2. \A j \in Jobs : Read(j)
    BY Fresh DEF Init, Read
  <2> QED
    BY <2>1, <2>2
<1>5. \A j \in Jobs : \A s \in Series : Mine(j, s) = {}
  BY <1>1, NumbersNone DEF Mine
<1>6. DrawnOnce /\ DrawnAnew
  BY <1>5 DEF DrawnOnce, DrawnAnew
<1> QED
  BY <1>2, <1>3, <1>4, <1>6, InitTyped DEF Numbered

\* A number that is inserted is the next of its series, and of nobody who prints alike.
LEMMA DrawKeeps ==
  ASSUME Numbered, NEW j \in Jobs, NEW c, JobStep(j, c), UNCHANGED <<row, book>>, Executes(j, c)
  PROVE  (\A k \in Jobs : Continues(k)') /\ DrawnOnce' /\ DrawnAnew'
<1>1. job'[j] = c /\ (\A k \in Jobs \ {j} : job'[k] = job[k]) /\ Typed
  BY JobType DEF JobStep, Numbered
<1>2. CASE c.mine = job[j].mine
  <2>1. \A k \in Jobs : job'[k].mine = job[k].mine
    BY <1>1, <1>2
  <2>2. \A k \in Jobs, s \in Series : Mine(k, s)' = Mine(k, s)
    BY <2>1 DEF Mine
  <2>3. ASSUME NEW k \in Jobs PROVE Continues(k)'
    <3>1. Continues(k) /\ job'[k].mine = job[k].mine /\ book' = book
      BY <2>1 DEF Numbered
    <3> QED
      BY <3>1 DEF Continues
  <2>4. DrawnOnce'
    BY <2>2, AlikeIs DEF Numbered, DrawnOnce
  <2>5. DrawnAnew'
    BY <2>2 DEF Numbered, DrawnAnew
  <2> QED
    BY <2>3, <2>4, <2>5
<1>3. CASE c.mine # job[j].mine
  <2>1. PICK s \in Series, n \in Nat : s = CurrentSeries(j) /\ n = job[j].number
    BY <1>1, <1>3, SeriesOfRow, JobType DEF Executes, Draws
  <2>2. /\ n # 0 /\ ~Contended(j, s, n) /\ ~Taken(j, s, n)
        /\ c.mine = [job[j].mine EXCEPT ![s] = Append(@, n)]
    BY <1>3, <2>1 DEF Executes, Draws
  <2>3. PICK b \in Seq(Nat), m \in Seq(Nat) : b = book[s] /\ m = job[j].mine[s]
    BY <1>1, JobType
  <2>4. /\ c.mine[s] = Append(m, n) /\ \A x \in Series \ {s} : c.mine[x] = job[j].mine[x]
        /\ Len(b) \in Nat /\ Len(m) \in Nat
    BY <1>1, <2>2, <2>3, JobType, NumbersAre
  <2>5. n = Len(b) + Len(m) + 1
    <3>1. n <= Len(b) + Len(m) + 1
      BY <2>1, <2>2, <2>3 DEF Numbered, Read
    <3>2. n \notin Numbers(b) /\ n \notin Numbers(m)
      BY <2>2, <2>3, AlikeIs DEF Taken, Visible
    <3>3. \A i \in 1 .. Len(b) : i \in Numbers(b)
      BY <2>3, NumbersAre DEF Numbered, NumbersFollowCommits
    <3>4. ASSUME NEW i \in 1 .. Len(m) PROVE Len(b) + i \in Numbers(m)
      <4>1. m[i] = Len(b) + i
        BY <2>3 DEF Numbered, Continues
      <4>2. m[i] \in Numbers(m)
        BY NumbersAre
      <4> QED
        BY <4>1, <4>2
    <3>5. ~(n \in 1 .. Len(b))
      BY <3>2, <3>3
    <3>6. ~(n - Len(b) \in 1 .. Len(m))
      <4>1. ASSUME n - Len(b) \in 1 .. Len(m) PROVE FALSE
        <5>1. Len(b) + (n - Len(b)) = n
          BY <2>4
        <5> QED
          BY <3>2, <3>4, <4>1, <5>1
      <4> QED
        BY <4>1
    <3> QED
      BY <2>2, <2>4, <3>1, <3>5, <3>6
  <2>6. /\ Mine(j, s)' = Mine(j, s) \cup {n}
        /\ \A k \in Jobs, x \in Series : k # j \/ x # s => Mine(k, x)' = Mine(k, x)
    <3>1. Mine(j, s)' = Mine(j, s) \cup {n}
      BY <1>1, <2>3, <2>4, NumbersAppend DEF Mine
    <3>2. \A k \in Jobs, x \in Series : k # j \/ x # s => job'[k].mine[x] = job[k].mine[x]
      BY <1>1, <2>4
    <3> QED
      BY <3>1, <3>2 DEF Mine
  <2>7. ASSUME NEW k \in Jobs PROVE Continues(k)'
    <3>1. CASE k = j
      <4>1. ASSUME NEW i \in 1 .. Len(Append(m, n)) PROVE Append(m, n)[i] = Len(b) + i
        <5>1. Len(Append(m, n)) = Len(m) + 1 /\ Append(m, n)[Len(m) + 1] = n
              /\ \A x \in 1 .. Len(m) : Append(m, n)[x] = m[x]
          BY NumbersAppend
        <5>2. i \in 1 .. Len(m) \/ i = Len(m) + 1
          BY <2>4, <5>1
        <5>3. \A x \in 1 .. Len(m) : m[x] = Len(b) + x
          BY <2>3 DEF Numbered, Continues
        <5>4. CASE i \in 1 .. Len(m)
          BY <5>1, <5>3, <5>4
        <5>5. CASE i = Len(m) + 1
          <6>1. Append(m, n)[i] = n
            BY <5>1, <5>5
          <6> QED
            BY <6>1, <5>5, <2>4, <2>5
        <5> QED
          BY <5>2, <5>4, <5>5
      <4>2. ASSUME NEW x \in Series, NEW i \in 1 .. Len(c.mine[x])
            PROVE  c.mine[x][i] = Len(book[x]) + i
        <5>1. CASE x = s
          BY <2>3, <2>4, <4>1, <4>2, <5>1
        <5>2. CASE x # s
          <6>1. c.mine[x] = job[j].mine[x]
            BY <2>4, <5>2
          <6> QED
            BY <4>2, <6>1 DEF Numbered, Continues
        <5> QED
          BY <5>1, <5>2
      <4> QED
        BY <1>1, <3>1, <4>2 DEF Continues
    <3>2. CASE k # j
      BY <1>1, <3>2 DEF Numbered, Continues
    <3> QED
      BY <3>1, <3>2
  <2>8. DrawnOnce'
    <3>1. \A x \in Alike(s) : /\ n \notin Numbers(book[x]) /\ n \notin Mine(j, x)
                              /\ \A k \in Jobs \ {j} : n \notin Mine(k, x)
      BY <2>2 DEF Taken, Visible, Contended, Mine
    <3> QED
      BY <2>1, <2>6, <3>1, AlikeIs DEF Numbered, DrawnOnce
  <2>9. DrawnAnew'
    <3>1. \A x \in Alike(s) : n \notin Numbers(book[x])
      BY <2>2 DEF Taken, Visible
    <3>2. ASSUME NEW k \in Jobs, NEW y \in Series, NEW x \in Alike(y)
          PROVE  Mine(k, y)' \cap Numbers(book[x]) = {}
      <4>1. Mine(k, y) \cap Numbers(book[x]) = {}
        BY DEF Numbered, DrawnAnew
      <4>2. CASE k = j /\ y = s
        BY <2>6, <3>1, <4>1, <4>2
      <4>3. CASE k # j \/ y # s
        BY <2>6, <4>1, <4>3
      <4> QED
        BY <4>2, <4>3
    <3> QED
      BY <1>1, <3>2 DEF DrawnAnew
  <2> QED
    BY <2>7, <2>8, <2>9
<1> QED
  BY <1>2, <1>3

\* What a request has read stays at most the next number of its series.
LEMMA ReadKeeps ==
  ASSUME Numbered, Typed', NEW j \in Jobs, NEW c, JobStep(j, c),
         \A s \in Series : Len(book[s]) <= Len(book'[s])
  PROVE  \A k \in Jobs : Read(k)'
<1>1. job'[j] = c /\ (\A k \in Jobs \ {j} : job'[k] = job[k]) /\ Typed
  BY JobType DEF JobStep, Numbered
<1>2. ASSUME NEW k \in Jobs, Typed, NeedsNumber(k)
      PROVE  /\ CurrentSeries(k) \in Series
             /\ Len(book[CurrentSeries(k)]) \in Nat /\ Len(job[k].mine[CurrentSeries(k)]) \in Nat
  <2>1. CurrentSeries(k) \in Series
    BY <1>2, SeriesOfRow
  <2>2. book[CurrentSeries(k)] \in Seq(Nat) /\ job[k].mine[CurrentSeries(k)] \in Seq(Nat)
    BY <1>2, <2>1, JobType
  <2> QED
    BY <2>1, <2>2, NumbersAre
<1>3. ASSUME NEW k \in Jobs, job'[k].number # 0,
             UNCHANGED <<job[k].work, job[k].at, job[k].key, job[k].mine>>,
             NeedsNumber(k), job'[k].number \in Nat,
             job'[k].number <= Len(book[CurrentSeries(k)]) + Len(job[k].mine[CurrentSeries(k)]) + 1
      PROVE  Read(k)'
  <2>1. PICK s \in Series : s = CurrentSeries(k)
    BY <1>1, <1>2, <1>3
  <2>2. CurrentSeries(k)' = s
    BY <1>3, <2>1 DEF CurrentSeries, Current
  <2>3. Len(book[s]) <= Len(book'[s])
    OBVIOUS
  <2>4. book'[s] \in Seq(Nat)
    BY DEF Typed, TypeOK
  <2>5. Len(book'[s]) \in Nat
    BY <2>4, NumbersAre
  <2>6. PICK a \in Nat, m \in Nat, n \in Nat :
           a = Len(book[s]) /\ m = Len(job[k].mine[s]) /\ n = job'[k].number
    BY <1>1, <1>2, <1>3, <2>1
  <2>7. n <= a + m + 1
    BY <1>3, <2>1, <2>6
  <2>8. PICK b \in Nat : b = Len(book'[s])
    BY <2>5
  <2>9. a <= b
    BY <2>3, <2>6, <2>8
  <2>10. n <= b + m + 1
    BY <2>7, <2>9
  <2>11. Len(job'[k].mine[s]) = m
    BY <1>3, <2>6
  <2>12. n <= Len(book'[s]) + Len(job'[k].mine[s]) + 1
    BY <2>8, <2>10, <2>11
  <2> QED
    BY <2>2, <2>6, <2>12 DEF Read
<1>4. ASSUME NEW k \in Jobs \ {j}, job[k].number # 0 PROVE Read(k)'
  <2>1. job'[k] = job[k] /\ job[k].number \in Nat
    BY <1>1, JobType
  <2>2. NeedsNumber(k) /\ Read(k)
    BY <1>1, <1>4, JobType DEF ProgressOK, NeedsNumber, Runs, Current, Numbered
  <2>3. job[k].number <= Len(book[CurrentSeries(k)]) + Len(job[k].mine[CurrentSeries(k)]) + 1
    BY <1>4, <2>2 DEF Read
  <2>4. /\ job'[k].number # 0 /\ job'[k].number \in Nat
        /\ job'[k].number <= Len(book[CurrentSeries(k)]) + Len(job[k].mine[CurrentSeries(k)]) + 1
    BY <1>4, <2>1, <2>3
  <2> QED
    BY <1>3, <2>1, <2>2, <2>4
<1>5. ASSUME c.number # 0 PROVE Read(j)'
  <2>1. ProgressOK(job[j]) /\ ProgressOK(c) /\ c \in Job /\ c.number \in Nat
    BY <1>1, JobType DEF JobStep, Job
  <2>2. Executes(j, c)
    BY <1>5, <2>1 DEF JobStep, Opens, Locks, Verifies, Ended, Commits, ProgressOK, SameNumbers
  <2>3. /\ c.mine = job[j].mine /\ c.at = job[j].at /\ c.key = job[j].key /\ c.work = job[j].work
        /\ NeedsNumber(j)
        /\ c.number \in 1 .. Len(book[CurrentSeries(j)]) + Len(job[j].mine[CurrentSeries(j)]) + 1
    BY <1>5, <2>2 DEF Executes, Draws, SameWork
  <2>4. c.number <= Len(book[CurrentSeries(j)]) + Len(job[j].mine[CurrentSeries(j)]) + 1
    <3>1. PICK a \in Nat, b \in Nat : /\ a = Len(book[CurrentSeries(j)])
                                     /\ b = Len(job[j].mine[CurrentSeries(j)])
      BY <1>1, <1>2, <2>3
    <3>2. c.number \in 1 .. a + b + 1
      BY <2>3, <3>1
    <3>3. c.number <= a + b + 1
      BY <3>2
    <3> QED
      BY <3>1, <3>3
  <2>5. UNCHANGED <<job[j].work, job[j].at, job[j].key, job[j].mine>> /\ job'[j].number = c.number
    BY <1>1, <2>3
  <2>6. Read(j)'
    BY <1>3, <1>5, <2>1, <2>3, <2>4, <2>5
  <2> QED
    BY <2>6
<1>6. \A k \in Jobs : job'[k].number = 0 => Read(k)'
  BY DEF Read
<1> QED
  BY <1>1, <1>4, <1>5, <1>6

\* A commit moves its numbers to the end of the book: nobody else has drawn any of the
\* series it extends, so their next numbers stay next.
LEMMA CommitKeeps ==
  ASSUME Numbered, Typed', NEW j \in Jobs, NEW c, JobStep(j, c), Commits(j, c)
  PROVE  /\ \A s \in Series : Len(book[s]) <= Len(book'[s])
         /\ NumbersFollowCommits' /\ PrintsAreUnique'
         /\ (\A k \in Jobs : Continues(k)') /\ DrawnOnce' /\ DrawnAnew'
<1>1. job'[j] = c /\ (\A k \in Jobs \ {j} : job'[k] = job[k]) /\ Typed /\ c.mine = NoNumbers
  BY JobType DEF JobStep, Numbered, Commits, Ended
<1>2. \A s \in Series : /\ book'[s] = book[s] \o job[j].mine[s]
                        /\ book[s] \in Seq(Nat) /\ job[j].mine[s] \in Seq(Nat)
                        /\ Len(book[s]) \in Nat /\ Len(job[j].mine[s]) \in Nat
  BY <1>1, JobType, NumbersAre DEF Commits
<1>3. ASSUME NEW s \in Series
      PROVE  /\ Len(book'[s]) = Len(book[s]) + Len(job[j].mine[s])
             /\ Numbers(book'[s]) = Numbers(book[s]) \cup Mine(j, s)
  <2>1. PICK a \in Seq(Nat), m \in Seq(Nat) : a = book[s] /\ m = job[j].mine[s]
    BY <1>2
  <2>2. Len(a \o m) = Len(a) + Len(m) /\ Numbers(a \o m) = Numbers(a) \cup Numbers(m)
    BY NumbersConcat
  <2> QED
    BY <1>2, <2>1, <2>2 DEF Mine
<1>4. \A s \in Series : Mine(j, s)' = {} /\ job'[j].mine[s] = <<>>
  BY <1>1, NumbersNone DEF Mine, NoNumbers
<1>5. \A k \in Jobs \ {j}, s \in Series : Mine(k, s)' = Mine(k, s)
  BY <1>1 DEF Mine
<1>6. ASSUME NEW s \in Series PROVE Len(book[s]) <= Len(book'[s])
  <2>1. PICK n \in Nat, l \in Nat : n = Len(book[s]) /\ l = Len(job[j].mine[s])
    BY <1>2
  <2>2. Len(book'[s]) = n + l
    BY <1>3, <2>1
  <2>3. PICK b \in Nat : b = Len(book'[s])
    BY <2>2
  <2>4. n <= b
    BY <2>2, <2>3
  <2> QED
    BY <2>1, <2>3, <2>4
<1>7. NumbersFollowCommits'
  <2> SUFFICES ASSUME NEW s \in Series, NEW i \in 1 .. Len(book'[s]) PROVE book'[s][i] = i
    <3>1. \A s \in Series : book'[s] \in Seq(Nat) /\ DOMAIN book'[s] = 1 .. Len(book'[s])
      BY NumbersAre DEF Typed, TypeOK
    <3> QED
      BY <3>1 DEF NumbersFollowCommits
  <2>1. PICK a \in Seq(Nat), m \in Seq(Nat), n \in Nat, l \in Nat :
           a = book[s] /\ m = job[j].mine[s] /\ n = Len(a) /\ l = Len(m)
    BY <1>2
  <2>2. /\ book'[s] = a \o m /\ i \in 1 .. n + l
        /\ \A x \in 1 .. n : (a \o m)[x] = a[x]
        /\ \A x \in 1 .. l : (a \o m)[n + x] = m[x]
    <3>1. book'[s] = a \o m
      BY <1>2, <2>1
    <3>2. Len(book'[s]) = n + l
      BY <1>3, <2>1
    <3>3. /\ \A x \in 1 .. Len(a) : (a \o m)[x] = a[x]
          /\ \A x \in 1 .. Len(m) : (a \o m)[Len(a) + x] = m[x]
      BY NumbersConcat
    <3> QED
      BY <2>1, <3>1, <3>2, <3>3
  <2>3. CASE i \in 1 .. n
    <3>1. a[i] = i
      BY <2>1, <2>3, NumbersAre DEF Numbered, NumbersFollowCommits
    <3> QED
      BY <2>2, <2>3, <3>1
  <2>4. CASE i \notin 1 .. n
    <3>1. i - n \in 1 .. l /\ n + (i - n) = i
      BY <2>2, <2>4
    <3>2. m[i - n] = n + (i - n)
      BY <2>1, <3>1 DEF Numbered, Continues
    <3> QED
      BY <2>2, <3>1, <3>2
  <2> QED
    BY <2>3, <2>4
<1>8. PrintsAreUnique'
  <2> SUFFICES ASSUME NEW s \in Series, NEW x \in Alike(s) \ {s}
               PROVE  Numbers(book'[s]) \cap Numbers(book'[x]) = {}
    BY DEF PrintsAreUnique
  <2>1. x \in Series /\ s \in Alike(x)
    BY AlikeIs
  <2>2. Numbers(book[s]) \cap Numbers(book[x]) = {}
    BY DEF Numbered, PrintsAreUnique
  <2>3. Mine(j, s) \cap Numbers(book[x]) = {} /\ Mine(j, x) \cap Numbers(book[s]) = {}
    BY <2>1 DEF Numbered, DrawnAnew
  <2>4. Mine(j, s) \cap Mine(j, x) = {}
    BY DEF Numbered, DrawnOnce
  <2> QED
    BY <1>3, <2>1, <2>2, <2>3, <2>4
<1>9. ASSUME NEW k \in Jobs PROVE Continues(k)'
  <2> SUFFICES ASSUME NEW s \in Series, NEW i \in 1 .. Len(job'[k].mine[s])
               PROVE  job'[k].mine[s][i] = Len(book'[s]) + i
    BY DEF Continues
  <2>1. k # j
    BY <1>4, NumbersNone
  <2>2. job'[k].mine[s] = job[k].mine[s] /\ job[k].mine[s][i] = Len(book[s]) + i
    BY <1>1, <2>1 DEF Numbered, Continues
  <2>3. PICK m \in Seq(Nat), l \in Seq(Nat), n \in Nat : 
           m = job[k].mine[s] /\ l = job[j].mine[s] /\ n = Len(book[s])
    BY <1>1, <1>2, JobType
  <2>4. Len(m) \in Nat /\ Len(l) \in Nat
    BY NumbersAre
  <2>5. n + 1 \in Numbers(m)
    <3>1. 1 \in 1 .. Len(m)
      BY <2>2, <2>3, <2>4
    <3>2. m[1] = n + 1
      BY <2>3, <3>1 DEF Numbered, Continues
    <3> QED
      BY <3>1, <3>2, NumbersAre
  <2>6. CASE Len(l) # 0
    <3>1. 1 \in 1 .. Len(l)
      BY <2>4, <2>6
    <3>2. l[1] = n + 1
      BY <2>3, <3>1 DEF Numbered, Continues
    <3>3. n + 1 \in Numbers(l)
      BY <3>1, <3>2, NumbersAre
    <3> QED
      BY <2>1, <2>3, <2>5, <3>3, AlikeIs DEF Numbered, DrawnOnce, Mine
  <2>7. CASE Len(l) = 0
    <3>1. Len(book'[s]) = n + Len(l)
      BY <1>3, <2>3
    <3>2. Len(book'[s]) = n
      BY <2>7, <3>1
    <3> QED
      BY <2>2, <2>3, <3>2
  <2> QED
    BY <2>6, <2>7
<1>10. DrawnOnce'
  BY <1>4, <1>5, AlikeIs DEF Numbered, DrawnOnce
<1>11. DrawnAnew'
  <2> SUFFICES ASSUME NEW k \in Jobs, NEW s \in Series, NEW x \in Alike(s)
               PROVE  Mine(k, s)' \cap Numbers(book'[x]) = {}
    BY DEF DrawnAnew
  <2>1. Mine(k, s) \cap Numbers(book[x]) = {} /\ (k # j => Mine(k, s) \cap Mine(j, x) = {})
    BY DEF Numbered, DrawnAnew, DrawnOnce
  <2> QED
    BY <1>3, <1>4, <1>5, <2>1, AlikeIs
<1> QED
  BY <1>6, <1>7, <1>8, <1>9, <1>10, <1>11

\* No step of any request breaks it.
THEOREM NextNumbered == Numbered /\ [Next]_vars => Numbered'
<1> SUFFICES ASSUME Numbered, [Next]_vars PROVE Numbered'
  OBVIOUS
<1>0. Typed /\ Typed'
  BY NextTyped DEF Numbered
<1>1. CASE UNCHANGED vars
  BY <1>0, <1>1 DEF vars, Numbered, NumbersFollowCommits, PrintsAreUnique, Continues, Read,
                    CurrentSeries, Current, DrawnOnce, DrawnAnew, Mine
<1>2. CASE \E j \in Jobs : StepOK(j)
  <2>0. PICK j \in Jobs : StepOK(j)
    BY <1>2
  <2>1. PICK c : JobStep(j, c)
    BY <2>0 DEF StepOK
  <2>2. CASE Commits(j, c)
    BY <1>0, <2>1, <2>2, CommitKeeps, ReadKeeps DEF Numbered
  <2>3. CASE UNCHANGED <<row, book>>
    <3>1. NumbersFollowCommits' /\ PrintsAreUnique'
      BY <2>3 DEF Numbered, NumbersFollowCommits, PrintsAreUnique
    <3>2. \A s \in Series : Len(book[s]) <= Len(book'[s])
      <4>1. \A s \in Series : Len(book[s]) \in Nat
        BY <1>0, JobType, NumbersAre DEF Typed, TypeOK
      <4> QED
        BY <2>3, <4>1
    <3>3. \A k \in Jobs : Read(k)'
      BY <1>0, <2>1, <3>2, ReadKeeps
    <3>4. CASE Executes(j, c)
      BY <1>0, <2>1, <2>3, <3>1, <3>3, <3>4, DrawKeeps DEF Numbered
    <3>5. CASE ~Executes(j, c) /\ ~Commits(j, c)
      <4>1. job'[j] = c /\ (\A k \in Jobs \ {j} : job'[k] = job[k])
            /\ c.mine \in {job[j].mine, NoNumbers}
        BY <1>0, <2>1, <3>5, JobType DEF JobStep, Opens, Locks, Verifies, Ended, SameNumbers
      <4>2. \A k \in Jobs, s \in Series : job'[k].mine[s] \in {job[k].mine[s], <<>>}
        BY <4>1 DEF NoNumbers
      <4>3. \A k \in Jobs, s \in Series : Mine(k, s)' \in {Mine(k, s), {}}
        BY <4>2, NumbersNone DEF Mine
      <4>4. ASSUME NEW k \in Jobs, NEW s \in Series, NEW i \in 1 .. Len(job'[k].mine[s])
            PROVE  job'[k].mine[s][i] = Len(book'[s]) + i
        <5>1. 1 .. Len(<<>>) = {}
          BY NumbersNone
        <5>2. job'[k].mine[s] = job[k].mine[s]
          BY <4>2, <4>4, <5>1
        <5> QED
          BY <2>3, <4>4, <5>2 DEF Numbered, Continues
      <4>5. \A k \in Jobs : Continues(k)'
        BY <4>4 DEF Continues
      <4>6. DrawnOnce' /\ DrawnAnew'
        BY <2>3, <4>3, AlikeIs DEF Numbered, DrawnOnce, DrawnAnew
      <4> QED
        BY <1>0, <3>1, <3>3, <4>5, <4>6 DEF Numbered
    <3> QED
      BY <2>2, <3>4, <3>5
  <2> QED
    BY <2>1, <2>2, <2>3 DEF JobStep
<1> QED
  BY <1>0, <1>1, <1>2, NextCases

\* Numbers are handed out without gaps and in the order of the commits, and no two rows
\* print the same, although MAX + 1 is read under no lock.
THEOREM SoundNumbers == Spec => []NumbersAreSound
<1>1. Numbered => NumbersAreSound
  BY DEF Numbered, Typed, NumbersAreSound
<1> QED
  BY <1>1, InitNumbered, NextNumbered, PTL DEF Spec

===============================================================================
