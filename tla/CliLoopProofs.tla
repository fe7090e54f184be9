----------------------------- MODULE CliLoopProofs -----------------------------
(***************************************************************************)
(* Proofs about CliLoop for any number of files, of jobs among them, of    *)
(* threads and any size of the batches: that every file is accounted for   *)
(* once, and that a job to be retried can be fetched again.                *)
(***************************************************************************)
EXTENDS CliLoop, SequenceTheorems, FiniteSetTheorems, WellFoundedInduction, TLAPS

-----------------------------------------------------------------------------
(* The steps of JobClient keep the types of the client's variables.        *)

LEMMA ThreadFact ==
  /\ Idle \in ThreadStates
  /\ \A j \in Jobs : /\ At("submit", j) \in ThreadStates /\ At("mark", j) \in ThreadStates
                     /\ At("name", j) \in ThreadStates /\ At("fetch", j) \in ThreadStates
                     /\ At("callback", j) \in ThreadStates
  /\ \A t \in ThreadStates : t.at # "idle" => t.job \in Jobs
  BY DEF ThreadStates, Idle, At

TaskType == [do : {"submit", "fetch"}, job : Jobs]

LEMMA TasksType ==
  ASSUME NEW list \in Seq(Jobs), NEW what \in {"submit", "fetch"}
  PROVE  Tasks(what, list) \in Seq(TaskType)
<1>1. DOMAIN list = 1..Len(list) /\ Len(list) \in Nat
  OBVIOUS
<1>2. \A i \in 1..Len(list) : list[i] \in Jobs
  OBVIOUS
<1>3. Tasks(what, list) \in [1..Len(list) -> TaskType]
  BY <1>1, <1>2 DEF Tasks, Task, TaskType
<1> QED
  BY <1>1, <1>3, SeqDef

\* The steps of the callers that go through the registry.
LEMMA AddAndSubmitType ==
  ASSUME ClientTypeOK, NEW list \in Seq(Jobs), AddAndSubmit(list),
         UNCHANGED <<job_id, thread, fetch_future, serviceVars>>
  PROVE  ClientTypeOK'
<1>1. {list[i] : i \in DOMAIN list} \subseteq Jobs
  OBVIOUS
<1>2. Tasks("submit", list) \in Seq(TaskType)
  BY TasksType
<1>3. work' \in Seq(TaskType)
  BY <1>2, ConcatProperties DEF AddAndSubmit, ClientTypeOK, TaskType
<1> QED
  BY <1>1, <1>3 DEF AddAndSubmit, ClientTypeOK, States, serviceVars, TaskType

-----------------------------------------------------------------------------
(* The steps of the pool and of the service.                               *)

LEMMA TakeType ==
  ASSUME ClientTypeOK, NEW w \in Workers, Take(w)
  PROVE  ClientTypeOK'
<1>1. work \in Seq(TaskType) /\ work # <<>>
  BY DEF ClientTypeOK, Take, TaskType
<1>2. Head(work) \in TaskType /\ Tail(work) \in Seq(TaskType)
  BY <1>1, HeadTailProperties
<1>3. At(Head(work).do, Head(work).job) \in ThreadStates
  BY <1>2, ThreadFact DEF TaskType
<1> QED
  BY <1>2, <1>3 DEF ClientTypeOK, Take, TaskType, jobVars, serviceVars

LEMMA SendType ==
  ASSUME ClientTypeOK, NEW w \in Workers, Send(w)
  PROVE  ClientTypeOK'
<1>1. thread[w].job \in Jobs
  BY ThreadFact DEF ClientTypeOK, Send
<1> QED
  BY <1>1, ThreadFact DEF ClientTypeOK, Send, jobVars

LEMMA SendRaisesType ==
  ASSUME ClientTypeOK, NEW w \in Workers, NEW there \in ThreadStates, SendRaises(w, there)
  PROVE  ClientTypeOK'
<1>1. thread[w].job \in Jobs
  BY ThreadFact DEF ClientTypeOK, SendRaises
<1> QED
  BY <1>1 DEF ClientTypeOK, SendRaises, Become, States, serviceVars

LEMMA MarkType ==
  ASSUME ClientTypeOK, NEW w \in Workers, Mark(w)
  PROVE  ClientTypeOK'
<1>1. thread[w].job \in Jobs
  BY ThreadFact DEF ClientTypeOK, Mark
<1> QED
  BY <1>1, ThreadFact DEF ClientTypeOK, Mark, Become, States, serviceVars

LEMMA NameType ==
  ASSUME ClientTypeOK, NEW w \in Workers, NEW there \in ThreadStates, Name(w, there)
  PROVE  ClientTypeOK'
<1>1. thread[w].job \in Jobs
  BY ThreadFact DEF ClientTypeOK, Name
<1> QED
  BY <1>1 DEF ClientTypeOK, Name, serviceVars

LEMMA ProcessType ==
  ASSUME ClientTypeOK, NEW j \in Jobs, Process(j)
  PROVE  ClientTypeOK'
  BY DEF ClientTypeOK, Process, jobVars, poolVars


(* Lemmas about data. Induction over the numbers goes by sets of numbers.  *)

LEMMA LeastNumber ==
  ASSUME NEW T, T \subseteq Nat, T # {}
  PROVE  \E x \in T : \A y \in T : x <= y
<1> DEFINE R == OpToRel(<, Nat)
<1>1. IsWellFoundedOn(R, Nat)
  BY NatLessThanWellFounded
<1> HIDE DEF R
<1>2. PICK x \in T : \A y \in T : ~ (<<y, x>> \in R)
  BY <1>1, WFMin
<1>3. \A y \in T : ~ (y < x)
  BY <1>2 DEF R, OpToRel
<1> QED
  BY <1>2, <1>3

LEMMA SetInduction ==
  ASSUME NEW S, 0 \in S, \A n \in Nat : n \in S => n + 1 \in S
  PROVE  \A n \in Nat : n \in S
<1> SUFFICES ASSUME Nat \ S # {} PROVE FALSE
  OBVIOUS
<1>1. PICK x \in Nat \ S : \A y \in Nat \ S : x <= y
  BY LeastNumber
<1>2. x # 0 /\ x - 1 \in Nat
  BY <1>1
<1>3. x - 1 \in S
  BY <1>1, <1>2
<1>4. x - 1 + 1 = x
  BY <1>1
<1> QED
  BY <1>1, <1>2, <1>3, <1>4

\* What the loop of create_jobs_for_batch has made after k of the files.
JobsStep(p, list, k) == IF p + k \in Jobs THEN Append(list, p + k) ELSE list

\* list has the jobs of the n files after the first p, in their order.
AreJobsOf(list, p, n) ==
  /\ list \in Seq(Jobs) /\ Len(list) <= n
  /\ \A i \in 1..Len(list) : p + i <= list[i] /\ list[i] <= p + n
  /\ \A i, k \in 1..Len(list) : i # k => list[i] # list[k]
  /\ \A j \in Jobs : p + 1 <= j /\ j <= p + n => \E i \in 1..Len(list) : list[i] = j

LEMMA JobsFact == Jobs \subseteq Nat
  BY ClientAssumption

LEMMA AreJobsStep ==
  ASSUME NEW p \in Nat, NEW n \in Nat, NEW list, AreJobsOf(list, p, n)
  PROVE  AreJobsOf(JobsStep(p, list, n + 1), p, n + 1)
<1> USE DEF AreJobsOf
<1> DEFINE j == p + (n + 1)
<1>1. CASE j \in Jobs
  <2> DEFINE longer == Append(list, j)
  <2>1. /\ longer \in Seq(Jobs) /\ Len(longer) = Len(list) + 1 /\ Len(list) \in Nat
        /\ \A i \in 1..Len(list) : longer[i] = list[i]
        /\ longer[Len(list) + 1] = j
    BY <1>1, AppendProperties, LenProperties
  <2>2. \A i \in 1..Len(list) : list[i] \in Nat
    BY JobsFact, ElementOfSeq
  <2> HIDE DEF longer
  <2>3. \A i \in 1..Len(longer) : i \in 1..Len(list) \/ i = Len(list) + 1
    BY <2>1
  <2>4. \A i \in 1..Len(longer) : p + i <= longer[i] /\ longer[i] <= p + (n + 1)
    <3> SUFFICES ASSUME NEW i \in 1..Len(longer)
                 PROVE  p + i <= longer[i] /\ longer[i] <= p + (n + 1)
      OBVIOUS
    <3>1. CASE i \in 1..Len(list)
      <4>1. p + i <= list[i] /\ list[i] <= p + n /\ list[i] \in Nat
        BY <2>2, <3>1
      <4> QED
        BY <2>1, <3>1, <4>1
    <3>2. CASE i = Len(list) + 1
      BY <2>1, <3>2
    <3> QED
      BY <2>3, <3>1, <3>2
  <2>5. \A i, k \in 1..Len(longer) : i # k => longer[i] # longer[k]
    <3> SUFFICES ASSUME NEW i \in 1..Len(longer), NEW k \in 1..Len(longer), i # k
                 PROVE  longer[i] # longer[k]
      OBVIOUS
    <3>1. CASE i \in 1..Len(list) /\ k \in 1..Len(list)
      BY <2>1, <3>1
    <3>2. CASE i \in 1..Len(list) /\ k = Len(list) + 1
      BY <2>1, <2>2, <3>2
    <3>3. CASE i = Len(list) + 1 /\ k \in 1..Len(list)
      BY <2>1, <2>2, <3>3
    <3> QED
      BY <2>3, <3>1, <3>2, <3>3
  <2>6. \A q \in Jobs : p + 1 <= q /\ q <= p + (n + 1) => \E i \in 1..Len(longer) : longer[i] = q
    <3> SUFFICES ASSUME NEW q \in Jobs, p + 1 <= q, q <= p + (n + 1)
                 PROVE  \E i \in 1..Len(longer) : longer[i] = q
      OBVIOUS
    <3>1. CASE q = j
      BY <2>1, <3>1
    <3>2. CASE q # j
      <4>1. q \in Nat /\ q <= p + n
        BY <3>2, JobsFact
      <4>2. PICK i \in 1..Len(list) : list[i] = q
        BY <4>1
      <4> QED
        BY <2>1, <4>2
    <3> QED
      BY <3>1, <3>2
  <2>7. JobsStep(p, list, n + 1) = longer
    BY <1>1 DEF JobsStep, longer
  <2> QED
    BY <2>1, <2>4, <2>5, <2>6, <2>7
<1>2. CASE j \notin Jobs
  <2>1. JobsStep(p, list, n + 1) = list
    BY <1>2 DEF JobsStep
  <2>2. Len(list) \in Nat
    BY LenProperties
  <2>3. \A q \in Jobs : q \in Nat /\ q # p + (n + 1)
    BY <1>2, JobsFact
  <2>4. \A i \in 1..Len(list) : list[i] \in Nat
    BY JobsFact, ElementOfSeq
  <2>5. \A i \in 1..Len(list) : p + i <= list[i] /\ list[i] <= p + (n + 1)
    BY <2>4
  <2>6. \A q \in Jobs : p + 1 <= q /\ q <= p + (n + 1) => \E i \in 1..Len(list) : list[i] = q
    <3> SUFFICES ASSUME NEW q \in Jobs, p + 1 <= q, q <= p + (n + 1)
                 PROVE  \E i \in 1..Len(list) : list[i] = q
      OBVIOUS
    <3>1. q <= p + n
      BY <2>3
    <3> QED
      BY <3>1
  <2> QED
    BY <2>1, <2>2, <2>5, <2>6
<1> QED
  BY <1>1, <1>2

LEMMA AreJobsNone == \A p \in Nat : AreJobsOf(<<>>, p, 0)
<1>1. <<>> \in Seq(Jobs) /\ Len(<<>>) = 0
  BY EmptySeq
<1>2. \A j \in Jobs : j \in Nat
  BY JobsFact
<1> QED
  BY <1>1, <1>2 DEF AreJobsOf

\* The recursion has a solution, and every solution lists the jobs.
Solves(f, p, n) ==
  f = [k \in 0..n |-> IF k = 0 THEN <<>>
                      ELSE IF p + k \in Jobs THEN Append(f[k - 1], p + k) ELSE f[k - 1]]

LEMMA SolvesFact ==
  ASSUME NEW f, NEW p \in Nat, NEW n \in Nat, Solves(f, p, n)
  PROVE  /\ DOMAIN f = 0..n /\ f[0] = <<>>
         /\ \A k \in 1..n : f[k] = JobsStep(p, f[k - 1], k)
<1>1. DOMAIN f = 0..n
  BY DEF Solves
<1>2. 0 \in 0..n
  OBVIOUS
<1>3. f[0] = <<>>
  BY <1>2 DEF Solves
<1>4. ASSUME NEW k \in 1..n PROVE f[k] = JobsStep(p, f[k - 1], k)
  <2>1. k \in 0..n /\ k # 0
    OBVIOUS
  <2> QED
    BY <2>1 DEF Solves, JobsStep
<1> QED
  BY <1>1, <1>3, <1>4

LEMMA Solvable ==
  ASSUME NEW p \in Nat
  PROVE  \A n \in Nat : \E f : Solves(f, p, n)
<1> DEFINE S == {n \in Nat : \E f : Solves(f, p, n)}
<1>1. 0 \in S
  <2> DEFINE f == [k \in 0..0 |-> <<>>]
  <2>1. Solves(f, p, 0)
    BY DEF Solves
  <2> QED
    BY <2>1
<1>2. ASSUME NEW n \in Nat, n \in S PROVE n + 1 \in S
  <2>1. PICK f : Solves(f, p, n)
    BY <1>2
  <2> DEFINE g == [k \in 0..(n + 1) |-> IF k = n + 1 THEN JobsStep(p, f[n], n + 1) ELSE f[k]]
  <2>2. DOMAIN g = 0..(n + 1) /\ g[n + 1] = JobsStep(p, f[n], n + 1) /\ \A k \in 0..n : g[k] = f[k]
    OBVIOUS
  <2> DEFINE h == [k \in 0..(n + 1) |-> IF k = 0 THEN <<>>
                      ELSE IF p + k \in Jobs THEN Append(g[k - 1], p + k) ELSE g[k - 1]]
  <2>3. DOMAIN f = 0..n /\ f[0] = <<>>
        /\ \A k \in 1..n : f[k] = JobsStep(p, f[k - 1], k)
    BY <2>1, SolvesFact
  <2>4. ASSUME NEW k \in 0..(n + 1) PROVE g[k] = h[k]
    <3>1. CASE k = 0
      BY <2>2, <2>3, <3>1
    <3>2. CASE k \in 1..n
      <4>1. k - 1 \in 0..n /\ k # 0 /\ k \in 0..n
        BY <3>2
      <4> QED
        BY <2>2, <2>3, <3>2, <4>1 DEF JobsStep
    <3>3. CASE k = n + 1
      <4>1. k - 1 = n /\ k # 0 /\ n \in 0..n
        BY <3>3
      <4> QED
        BY <2>2, <3>3, <4>1 DEF JobsStep
    <3> QED
      BY <3>1, <3>2, <3>3
  <2>5. g = h
    BY <2>4
  <2>6. Solves(g, p, n + 1)
    BY <2>5 DEF Solves
  <2> QED
    BY <2>6
<1> HIDE DEF S
<1>3. \A n \in Nat : n \in S
  BY <1>1, <1>2, SetInduction
<1> QED
  BY <1>3 DEF S

LEMMA JobsAfterFact ==
  ASSUME NEW p \in Nat, NEW n \in Nat
  PROVE  AreJobsOf(JobsAfter(p, n), p, n)
<1> DEFINE f == CHOOSE f : Solves(f, p, n)
<1>1. Solves(f, p, n)
  BY Solvable
<1>2. JobsAfter(p, n) = f[n]
  BY DEF JobsAfter, Solves
<1> HIDE DEF f
<1>3. /\ f[0] = <<>>
      /\ \A k \in 1..n : f[k] = JobsStep(p, f[k - 1], k)
  BY <1>1, SolvesFact
<1> DEFINE S == {k \in Nat : k <= n => AreJobsOf(f[k], p, k)}
<1>4. 0 \in S
  BY <1>3, AreJobsNone
<1>5. ASSUME NEW k \in Nat, k \in S PROVE k + 1 \in S
  <2> SUFFICES ASSUME k + 1 <= n PROVE AreJobsOf(f[k + 1], p, k + 1)
    OBVIOUS
  <2>1. AreJobsOf(f[k], p, k)
    BY <1>5
  <2>2. f[k + 1] = JobsStep(p, f[k], k + 1)
    <3>1. k + 1 \in 1..n /\ (k + 1) - 1 = k
      OBVIOUS
    <3> QED
      BY <1>3, <3>1
  <2> QED
    BY <2>1, <2>2, AreJobsStep
<1> HIDE DEF S
<1>6. n \in S
  BY <1>4, <1>5, SetInduction
<1> QED
  BY <1>2, <1>6 DEF S

-----------------------------------------------------------------------------
(* The files are accounted for.                                            *)

TypeOK ==
  /\ ClientTypeOK
  /\ main \in {"loop", "ensure", "checked", "returned", "raised"}
  /\ processed \in 0..FileCount /\ progress \in Nat
  /\ retry \in Seq(Jobs) /\ batch \in Seq(Jobs) /\ unchecked \in Seq(Jobs)
  /\ awaiting \subseteq Jobs /\ outstanding \subseteq Jobs
  /\ done \subseteq Jobs /\ failed_jobs \subseteq Jobs
  /\ job_id_map \in [Jobs -> Nat]

Distinct(list) == \A i, k \in DOMAIN list : i # k => list[i] # list[k]
InBatch == main \in {"ensure", "checked"}

\* The lists hold no job twice, and only one of them is in use at a time. All
\* jobs of the files taken so far have names, those of later ones not even a task.
Lists ==
  /\ Distinct(retry) /\ Distinct(batch) /\ Len(batch) <= BatchSize
  /\ \A j \in Elements(batch) : j <= processed
  /\ InBatch => retry = <<>> /\ outstanding = {} /\ Elements(unchecked) \subseteq Elements(batch)
  /\ main = "checked" => unchecked # <<>>
  /\ Elements(retry) \cap outstanding = {}
  /\ outstanding \cup Elements(retry) \subseteq Elements(batch)

Named ==
  \A i, j \in Jobs : i <= processed /\ j <= processed =>
    job_id_map[j] \in 1..j /\ (i # j => job_id_map[i] # job_id_map[j])

Accounts ==
  main # "raised" =>
    /\ progress + Cardinality(InProgress) = processed
    /\ Jobs \cap (1..processed) = done \cup failed_jobs \cup InProgress
    /\ done \cap failed_jobs = {} /\ InProgress \cap (done \cup failed_jobs) = {}

Ledger == TypeOK /\ Lists /\ Named /\ Accounts

-----------------------------------------------------------------------------
(* The tasks of the pool.                                                  *)

\* What a worker holds: a submission, in one of its parts, or a fetch.
Parts(what) == IF what = "submit" THEN {"submit", "mark", "name"} ELSE {"fetch"}
Holds(w, what, j) == \E at \in Parts(what) : thread[w] = At(at, j)
Queued(i, what, j) == i \in DOMAIN work /\ work[i] = Task(what, j)

Under(what, j) == (\E i \in DOMAIN work : Queued(i, what, j)) \/ (\E w \in Workers : Holds(w, what, j))
Naming(j) == \E w \in Workers : thread[w] = At("name", j)

OneTask ==
  \A what \in {"submit", "fetch"}, j \in Jobs :
    /\ \A i, k \in DOMAIN work : Queued(i, what, j) /\ Queued(k, what, j) => i = k
    /\ \A v, w \in Workers : Holds(v, what, j) /\ Holds(w, what, j) => v = w
    /\ \A i \in DOMAIN work, w \in Workers : ~(Queued(i, what, j) /\ Holds(w, what, j))

\* No future of this caller has a callback.
NoCallback == \A w \in Workers : thread[w].at # "callback"

\* A submission is under way for jobs of the batch only, until the future is
\* done; those of the loop are submitted, or their submission failed meanwhile.
Submissions ==
  \A j \in Jobs :
    /\ Under("submit", j) =>
         /\ state[j] = IF Naming(j) THEN "SUBMITTED" ELSE "SUBMITTED_ASYNC"
         /\ submit_future[j] = "pending" /\ job_id[j] = "none" /\ j \in Elements(batch)
         /\ main \in {"loop", "returned"} => j \in InProgress
    /\ j > processed => job_id[j] = "none"

\* The jobs of the batch while the loop waits for their submissions ...
Ensuring ==
  InBatch => \A j \in Elements(batch) :
    /\ j \in job_states /\ state[j] \in {"SUBMITTED_ASYNC", "SUBMITTED", "FAILED"}
    /\ j \notin Elements(unchecked) \cup awaiting => state[j] # "SUBMITTED_ASYNC"

\* ... and those whose fetch it has not handled.
Fetching ==
  /\ \A j \in Jobs : Under("fetch", j) =>
       main = "loop" /\ j \in outstanding /\ fetch_future[j] = "pending"
  /\ \A j \in outstanding :
       /\ fetch_future[j] = "pending" => j \in job_states /\ state[j] \in {"SUBMITTED", "FAILED"}
       /\ fetch_future[j] = "timeout" => j \in job_states /\ state[j] = "SUBMITTED"
       /\ fetch_future[j] \in {"good", "failed"} => job_id[j] = "issued"
       /\ fetch_future[j] = "error" => state[j] = "FAILED"
  /\ \A j \in Elements(retry) : j \in job_states /\ state[j] = "SUBMITTED"

Pool == OneTask /\ NoCallback /\ Submissions /\ Ensuring /\ Fetching

IInv == Ledger /\ Pool

-----------------------------------------------------------------------------
(* Lists of jobs and the sets of their elements.                           *)

LEMMA FilesFact == FileCount \in Nat /\ BatchSize \in Nat /\ Jobs \subseteq 1..FileCount
  BY LoopAssumption DEF Files

LEMMA JobsFinite == ASSUME NEW S \in SUBSET Jobs PROVE IsFiniteSet(S)
<1>1. IsFiniteSet(1..FileCount)
  BY FilesFact, FS_Interval
<1> QED
  BY <1>1, FilesFact, FS_Subset

LEMMA ElementsFact ==
  ASSUME NEW list \in Seq(Jobs)
  PROVE  /\ Len(list) \in Nat /\ DOMAIN list = 1..Len(list)
         /\ Elements(list) \subseteq Jobs /\ IsFiniteSet(Elements(list))
         /\ \A i \in 1..Len(list) : list[i] \in Elements(list)
         /\ \A j \in Elements(list) : \E i \in 1..Len(list) : list[i] = j
<1>1. Len(list) \in Nat /\ DOMAIN list = 1..Len(list)
  BY LenProperties
<1>2. \A i \in 1..Len(list) : list[i] \in Jobs
  BY ElementOfSeq
<1>3. Elements(list) \subseteq Jobs
  BY <1>1, <1>2 DEF Elements
<1>4. IsFiniteSet(Elements(list))
  BY <1>3, JobsFinite
<1> QED
  BY <1>1, <1>3, <1>4 DEF Elements

LEMMA ElementsCount ==
  ASSUME NEW list \in Seq(Jobs)
  PROVE  /\ Cardinality(Elements(list)) <= Len(list)
         /\ Distinct(list) => Cardinality(Elements(list)) = Len(list)
<1> DEFINE n == Len(list)
<1>1. n \in Nat /\ DOMAIN list = 1..n /\ IsFiniteSet(Elements(list))
  BY ElementsFact
<1>2. IsFiniteSet(1..n) /\ Cardinality(1..n) = n
  BY <1>1, FS_Interval
<1>3. list \in [1..n -> Elements(list)]
  <2>1. list \in [1..n -> Jobs]
    BY LenProperties
  <2>2. \A i \in 1..n : list[i] \in Elements(list)
    BY ElementsFact
  <2> QED
    BY <2>1, <2>2
<1>4. list \in Surjection(1..n, Elements(list))
  BY <1>3, ElementsFact DEF Surjection
<1>5. Cardinality(Elements(list)) <= n
  BY <1>2, <1>4, FS_Surjection
<1>6. ASSUME Distinct(list) PROVE Cardinality(Elements(list)) = n
  <2>1. \A a, b \in 1..n : list[a] = list[b] => a = b
    BY <1>1, <1>6 DEF Distinct
  <2> HIDE DEF n
  <2>3. list \in Injection(1..n, Elements(list))
    BY <1>3, <2>1 DEF Injection, IsInjective
  <2>2. list \in Bijection(1..n, Elements(list))
    BY <1>4, <2>3 DEF Bijection
  <2> QED
    BY <1>2, <2>2, FS_Bijection DEF ExistsBijection
<1> QED
  BY <1>5, <1>6

LEMMA ElementsConcat ==
  ASSUME NEW s \in Seq(Jobs), NEW t \in Seq(Jobs)
  PROVE  /\ s \o t \in Seq(Jobs) /\ Len(s \o t) = Len(s) + Len(t)
         /\ Elements(s \o t) = Elements(s) \cup Elements(t)
         /\ (Distinct(s) /\ Distinct(t) /\ Elements(s) \cap Elements(t) = {}) => Distinct(s \o t)
<1> DEFINE u == s \o t
           m == Len(s)
           n == Len(t)
<1>1. /\ u \in Seq(Jobs) /\ Len(u) = m + n
      /\ \A i \in 1..(m + n) : u[i] = IF i <= m THEN s[i] ELSE t[i - m]
  BY ConcatProperties
<1>2. m \in Nat /\ n \in Nat /\ DOMAIN s = 1..m /\ DOMAIN t = 1..n /\ DOMAIN u = 1..(m + n)
  BY <1>1, ElementsFact, LenProperties
<1> HIDE DEF u, m, n
<1>3. \A i \in 1..m : i \in 1..(m + n) /\ u[i] = s[i]
  BY <1>1, <1>2
<1>4. \A i \in 1..n : m + i \in 1..(m + n) /\ u[m + i] = t[i]
  <2> SUFFICES ASSUME NEW i \in 1..n PROVE m + i \in 1..(m + n) /\ u[m + i] = t[i]
    OBVIOUS
  <2>1. m + i \in 1..(m + n) /\ ~(m + i <= m) /\ (m + i) - m = i
    BY <1>2
  <2> QED
    BY <1>1, <2>1
<1>5. \A i \in 1..(m + n) : \/ i \in 1..m /\ u[i] = s[i]
                            \/ i - m \in 1..n /\ ~(i <= m) /\ u[i] = t[i - m]
  <2> SUFFICES ASSUME NEW i \in 1..(m + n)
               PROVE  \/ i \in 1..m /\ u[i] = s[i]
                      \/ i - m \in 1..n /\ ~(i <= m) /\ u[i] = t[i - m]
    OBVIOUS
  <2>1. i <= m => i \in 1..m
    BY <1>2
  <2>2. ~(i <= m) => i - m \in 1..n
    BY <1>2
  <2> QED
    BY <1>1, <2>1, <2>2
<1>6. Elements(u) = Elements(s) \cup Elements(t)
  <2>1. Elements(u) = {u[i] : i \in 1..(m + n)}
    BY <1>2 DEF Elements
  <2>2. Elements(s) = {s[i] : i \in 1..m} /\ Elements(t) = {t[i] : i \in 1..n}
    BY <1>2 DEF Elements
  <2>3. Elements(u) \subseteq Elements(s) \cup Elements(t)
    BY <1>5, <2>1, <2>2
  <2>4. Elements(s) \subseteq Elements(u)
    BY <1>3, <2>1, <2>2
  <2>5. Elements(t) \subseteq Elements(u)
    BY <1>4, <2>1, <2>2
  <2> QED
    BY <2>3, <2>4, <2>5
<1>7. ASSUME Distinct(s), Distinct(t), Elements(s) \cap Elements(t) = {} PROVE Distinct(u)
  <2> SUFFICES ASSUME NEW i \in 1..(m + n), NEW k \in 1..(m + n), i # k PROVE u[i] # u[k]
    BY <1>2 DEF Distinct
  <2>1. CASE i \in 1..m /\ u[i] = s[i] /\ k \in 1..m /\ u[k] = s[k]
    BY <1>2, <1>7, <2>1 DEF Distinct
  <2>2. CASE i - m \in 1..n /\ u[i] = t[i - m] /\ k - m \in 1..n /\ u[k] = t[k - m]
    <3>1. i - m # k - m
      BY <1>2
    <3> QED
      BY <1>2, <1>7, <2>2, <3>1 DEF Distinct
  <2>3. ASSUME NEW a \in 1..m, NEW b \in 1..n PROVE s[a] # t[b]
    <3>1. s[a] \in Elements(s) /\ t[b] \in Elements(t)
      BY <1>2 DEF Elements
    <3> QED
      BY <1>7, <3>1
  <2> QED
    BY <1>5, <2>1, <2>2, <2>3
<1> QED
  BY <1>1, <1>6, <1>7 DEF u, m, n

LEMMA ElementsAppend ==
  ASSUME NEW s \in Seq(Jobs), NEW j \in Jobs
  PROVE  /\ Append(s, j) \in Seq(Jobs) /\ Elements(Append(s, j)) = Elements(s) \cup {j}
         /\ Distinct(s) /\ j \notin Elements(s) => Distinct(Append(s, j))
<1> DEFINE u == Append(s, j)
           n == Len(s)
<1>1. /\ u \in Seq(Jobs) /\ Len(u) = n + 1
      /\ \A i \in 1..n : u[i] = s[i]
      /\ u[n + 1] = j
  BY AppendProperties
<1>2. n \in Nat /\ DOMAIN s = 1..n /\ DOMAIN u = 1..(n + 1)
  BY <1>1, ElementsFact, LenProperties
<1> HIDE DEF u, n
<1>3. \A i \in 1..(n + 1) : i \in 1..n \/ i = n + 1
  BY <1>2
<1>4. \A i \in 1..n : i \in 1..(n + 1)
  BY <1>2
<1>5. n + 1 \in 1..(n + 1)
  BY <1>2
<1>6. Elements(u) = Elements(s) \cup {j}
  BY <1>1, <1>2, <1>3, <1>4, <1>5 DEF Elements
<1>7. ASSUME Distinct(s), j \notin Elements(s) PROVE Distinct(u)
  <2>1. \A i \in 1..n : s[i] # j
    BY <1>2, <1>7 DEF Elements
  <2> QED
    BY <1>1, <1>2, <1>3, <1>7, <2>1 DEF Distinct
<1> QED
  BY <1>1, <1>6, <1>7 DEF u

LEMMA ElementsTail ==
  ASSUME NEW s \in Seq(Jobs), s # <<>>
  PROVE  /\ Tail(s) \in Seq(Jobs) /\ Head(s) \in Elements(s)
         /\ Elements(s) = Elements(Tail(s)) \cup {Head(s)}
<1> DEFINE t == Tail(s)
           n == Len(s)
<1>1. /\ t \in Seq(Jobs) /\ Len(t) = n - 1 /\ \A i \in 1..Len(t) : t[i] = s[i + 1]
  BY HeadTailProperties
<1>2. n \in Nat \ {0} /\ DOMAIN s = 1..n /\ DOMAIN t = 1..(n - 1)
  BY <1>1, ElementsFact, EmptySeq
<1>3. Head(s) = s[1]
  OBVIOUS
<1> HIDE DEF t, n
<1>4. \A i \in 1..n : i # 1 => i - 1 \in 1..(n - 1) /\ t[i - 1] = s[i]
  <2> SUFFICES ASSUME NEW i \in 1..n, i # 1 PROVE i - 1 \in 1..(n - 1) /\ t[i - 1] = s[i]
    OBVIOUS
  <2>1. i - 1 \in 1..(n - 1) /\ (i - 1) + 1 = i /\ Len(t) = n - 1
    BY <1>1, <1>2
  <2> QED
    BY <1>1, <2>1
<1>5. \A i \in 1..(n - 1) : i + 1 \in 1..n /\ t[i] = s[i + 1]
  BY <1>1, <1>2
<1>6. 1 \in 1..n
  BY <1>2
<1>7. Elements(s) = {s[i] : i \in 1..n} /\ Elements(t) = {t[i] : i \in 1..(n - 1)}
  BY <1>2 DEF Elements
<1>8. Head(s) \in Elements(s)
  BY <1>3, <1>6, <1>7
<1>9. Elements(t) \subseteq Elements(s)
  BY <1>5, <1>7
<1>10. Elements(s) \subseteq Elements(t) \cup {Head(s)}
  BY <1>3, <1>4, <1>7
<1> QED
  BY <1>1, <1>8, <1>9, <1>10 DEF t

-----------------------------------------------------------------------------
(* The new jobs of a batch.                                                *)

LEMMA NewCountFact ==
  ASSUME TypeOK
  PROVE  /\ NewCount \in Nat /\ processed + NewCount \in 0..FileCount /\ processed \in Nat
         /\ Len(retry) \in Nat /\ (Len(retry) <= BatchSize => Len(retry) + NewCount <= BatchSize)
<1>1. Len(retry) \in Nat
  BY LenProperties DEF TypeOK
<1>2. Room \in Nat
  BY <1>1, FilesFact DEF Room
<1> QED
  BY <1>1, <1>2, FilesFact DEF TypeOK, NewCount, Room

LEMMA NewJobsFact ==
  ASSUME TypeOK
  PROVE  /\ NewJobs \in Seq(Jobs) /\ Len(NewJobs) \in Nat /\ Len(NewJobs) <= NewCount
         /\ Distinct(NewJobs)
         /\ Elements(NewJobs) = {j \in Jobs : processed < j /\ j <= processed + NewCount}
         /\ \A i \in 1..Len(NewJobs) : processed + i <= NewJobs[i]
<1>1. AreJobsOf(NewJobs, processed, NewCount)
  BY NewCountFact, JobsAfterFact DEF NewJobs
<1> DEFINE list == NewJobs
<1>2. list \in Seq(Jobs) /\ Len(list) <= NewCount
  BY <1>1 DEF AreJobsOf
<1> HIDE DEF list
<1>3. /\ DOMAIN list = 1..Len(list) /\ Len(list) \in Nat
      /\ \A i \in 1..Len(list) : list[i] \in Jobs
  BY <1>2, ElementsFact
<1>4. Distinct(list)
  BY <1>1, <1>3 DEF AreJobsOf, Distinct, list
<1>5. \A i \in 1..Len(list) : processed + i <= list[i] /\ list[i] <= processed + NewCount
  BY <1>1 DEF AreJobsOf, list
<1>6. \A i \in 1..Len(list) : processed < list[i]
  <2> SUFFICES ASSUME NEW i \in 1..Len(list) PROVE processed < list[i]
    OBVIOUS
  <2>1. list[i] \in Nat
    BY <1>3, JobsFact
  <2>3. processed \in Nat /\ i \in Nat /\ i >= 1
    BY <1>3, NewCountFact
  <2>2. processed + i <= list[i]
    BY <1>5
  <2> QED
    BY <2>1, <2>2, <2>3
<1>7. Elements(list) \subseteq {j \in Jobs : processed < j /\ j <= processed + NewCount}
  BY <1>3, <1>5, <1>6 DEF Elements
<1>8. ASSUME NEW j \in Jobs, processed < j, j <= processed + NewCount
      PROVE  j \in Elements(list)
  <2>1. processed + 1 <= j
    BY <1>8, NewCountFact, JobsFact
  <2>2. PICK i \in 1..Len(list) : list[i] = j
    BY <1>1, <1>8, <2>1 DEF AreJobsOf, list
  <2> QED
    BY <1>3, <2>2 DEF Elements
<1> QED
  BY <1>2, <1>3, <1>4, <1>5, <1>7, <1>8 DEF list

\* zip: a new job is given the name of a file not after it, and no two the same.
LEMMA NewNames ==
  ASSUME TypeOK, GenerateBatch, NEW j \in Jobs
  PROVE  /\ j \notin Elements(NewJobs) => job_id_map'[j] = job_id_map[j]
         /\ \A i \in 1..Len(NewJobs) : NewJobs[i] = j => job_id_map'[j] = processed + i
<1> DEFINE places == {i \in DOMAIN NewJobs \cap DOMAIN NewFiles : NewJobs[i] = j}
<1>1. job_id_map'[j] = IF places = {} THEN job_id_map[j] ELSE NewFiles[CHOOSE i \in places : TRUE]
  BY DEF GenerateBatch, Paired
<1>2. DOMAIN NewJobs = 1..Len(NewJobs) /\ DOMAIN NewFiles = 1..NewCount
  BY NewJobsFact, LenProperties DEF NewFiles
<1>3. \A i \in 1..NewCount : NewFiles[i] = processed + i
  BY DEF NewFiles
<1>4. j \notin Elements(NewJobs) => places = {}
  BY DEF Elements
<1>5. ASSUME NEW i \in 1..Len(NewJobs), NewJobs[i] = j PROVE job_id_map'[j] = processed + i
  <2>1. i \in 1..NewCount
    BY NewJobsFact, NewCountFact
  <2>2. i \in places
    BY <1>2, <1>5, <2>1
  <2>3. \A k \in places : k = i
    BY <1>2, <1>5, NewJobsFact DEF Distinct
  <2>4. (CHOOSE k \in places : TRUE) = i
    BY <2>2, <2>3
  <2> QED
    BY <1>1, <1>3, <2>1, <2>2, <2>4
<1> HIDE DEF places
<1> QED
  BY <1>1, <1>4, <1>5

-----------------------------------------------------------------------------
(* The ledger: the types first.                                            *)

LEMMA AddOnlyType ==
  ASSUME ClientTypeOK, NEW list \in Seq(Jobs), AddOnly(list),
         UNCHANGED <<job_id, poolVars, serviceVars>>
  PROVE  ClientTypeOK'
<1>1. {list[i] : i \in DOMAIN list} \subseteq Jobs
  BY ElementsFact DEF Elements
<1> QED
  BY <1>1 DEF AddOnly, ClientTypeOK, States, poolVars, serviceVars

LEMMA FetchAsyncType ==
  ASSUME ClientTypeOK, NEW list \in Seq(Jobs), FetchAsync(list),
         UNCHANGED <<jobVars, thread, submit_future, serviceVars>>
  PROVE  ClientTypeOK'
<1>1. Tasks("fetch", list) \in Seq(TaskType)
  BY TasksType
<1>2. work' \in Seq(TaskType)
  BY <1>1, ConcatProperties DEF FetchAsync, ClientTypeOK, TaskType
<1> QED
  BY <1>2 DEF FetchAsync, ClientTypeOK, jobVars, serviceVars, TaskType

LEMMA ClientKept ==
  ASSUME ClientTypeOK, UNCHANGED clientVars
  PROVE  ClientTypeOK'
  BY DEF ClientTypeOK, clientVars, jobVars, poolVars, serviceVars

LEMMA BecomeType ==
  ASSUME ClientTypeOK, NEW j \in Jobs, Become(j, "SUBMITTED"),
         UNCHANGED <<job_states, job_specs, job_id, poolVars, serviceVars>>
  PROVE  ClientTypeOK'
  BY DEF ClientTypeOK, Become, States, poolVars, serviceVars

LEMMA InitLedger == Init => Ledger
<1> SUFFICES ASSUME Init PROVE Ledger
  OBVIOUS
<1>1. ClientTypeOK
  BY EmptySeq DEF Init, ClientInit, ClientTypeOK, States, ThreadStates
<1>2. TypeOK
  BY <1>1, FilesFact, EmptySeq DEF Init, TypeOK
<1>3. Elements(<<>>) = {} /\ Distinct(<<>>) /\ Len(<<>>) = 0
  BY EmptySeq DEF Elements, Distinct
<1>4. Lists
  BY <1>3, FilesFact DEF Init, Lists, InBatch
<1>5. \A j \in Jobs : ~(j <= 0) /\ j \notin 1..0
  BY ClientAssumption
<1>6. Named
  BY <1>5 DEF Init, Named
<1>7. InProgress = {}
  BY <1>3 DEF Init, InProgress
<1>8. Accounts
  BY <1>5, <1>7, FS_EmptySet DEF Init, Accounts
<1> QED
  BY <1>2, <1>4, <1>6, <1>8 DEF Ledger

\* A step that leaves the loop's variables alone.
LEMMA LedgerKept ==
  ASSUME Ledger, ClientTypeOK', UNCHANGED loopVars
  PROVE  Ledger'
<1>1. TypeOK'
  BY DEF Ledger, TypeOK, loopVars
<1>2. Lists'
  BY DEF Ledger, Lists, InBatch, Elements, Distinct, loopVars
<1>3. Named'
  BY DEF Ledger, Named, loopVars
<1>4. InProgress' = InProgress
  BY DEF InProgress, Elements, loopVars
<1>5. Accounts'
  BY <1>4 DEF Ledger, Accounts, loopVars
<1> QED
  BY <1>1, <1>2, <1>3, <1>5 DEF Ledger

LEMMA ElementsNone == Elements(<<>>) = {} /\ Distinct(<<>>) /\ <<>> \in Seq(Jobs) /\ Len(<<>>) = 0
  BY EmptySeq DEF Elements, Distinct

LEMMA GenerateBatchLedger ==
  ASSUME Ledger, GenerateBatch
  PROVE  Ledger'
<1> DEFINE new == Elements(NewJobs)
           old == Elements(retry)
<1>1. /\ NewJobs \in Seq(Jobs) /\ Len(NewJobs) \in Nat /\ Len(NewJobs) <= NewCount /\ Distinct(NewJobs)
      /\ new = {j \in Jobs : processed < j /\ j <= processed + NewCount}
      /\ \A i \in 1..Len(NewJobs) : processed + i <= NewJobs[i]
  BY NewJobsFact DEF Ledger
<1>2. /\ NewCount \in Nat /\ processed + NewCount \in 0..FileCount /\ processed \in Nat
      /\ Len(retry) \in Nat /\ (Len(retry) <= BatchSize => Len(retry) + NewCount <= BatchSize)
  BY NewCountFact DEF Ledger
<1>3. retry \in Seq(Jobs) /\ Distinct(retry) /\ main = "loop" /\ outstanding = {}
  BY DEF Ledger, TypeOK, Lists, GenerateBatch, AtTop
<1>4. \A j \in old : j \in Jobs /\ j <= processed
  BY <1>3, ElementsFact DEF Ledger, Lists
<1>5. old \cap new = {}
  <2> SUFFICES ASSUME NEW j \in old, j \in new PROVE FALSE
    OBVIOUS
  <2>1. j \in Nat /\ j <= processed /\ processed < j
    BY <1>1, <1>4, JobsFact
  <2> QED
    BY <1>2, <2>1
<1>6. /\ batch' \in Seq(Jobs) /\ Len(batch') = Len(retry) + Len(NewJobs)
      /\ Elements(batch') = old \cup new /\ Distinct(batch')
  BY <1>1, <1>3, <1>5, ElementsConcat DEF GenerateBatch
<1>7. Cardinality(old) = Len(retry) /\ Cardinality(new) = Len(NewJobs)
  BY <1>1, <1>3, ElementsCount
<1>8. Len(retry) <= BatchSize
  <2>1. old \subseteq Elements(batch) /\ batch \in Seq(Jobs) /\ Len(batch) <= BatchSize
    BY DEF Ledger, TypeOK, Lists
  <2>2. Cardinality(old) <= Cardinality(Elements(batch)) /\ Cardinality(Elements(batch)) <= Len(batch)
    BY <2>1, ElementsFact, ElementsCount, FS_Subset
  <2>3. Cardinality(Elements(batch)) \in Nat /\ Len(batch) \in Nat
    BY <2>1, ElementsFact, FS_CardinalityType
  <2> QED
    BY <1>2, <1>7, <2>1, <2>2, <2>3, FilesFact
<1>9. IsFiniteSet(old) /\ IsFiniteSet(new)
  BY <1>1, <1>3, ElementsFact
<1>10. Cardinality(old \cup new) = Len(retry) + Len(NewJobs)
  <2>1. Cardinality(old \cap new) = 0
    BY <1>5, FS_EmptySet
  <2>2. Cardinality(old \cup new) = Cardinality(old) + Cardinality(new) - Cardinality(old \cap new)
    BY <1>9, FS_Union
  <2> QED
    BY <1>1, <1>2, <1>7, <2>1, <2>2
<1> HIDE DEF old, new
<1>11. ClientTypeOK'
  BY <1>1, AddAndSubmitType DEF Ledger, TypeOK, GenerateBatch
<1>12. Missing \in Nat /\ Missing = NewCount - Len(NewJobs)
  BY <1>1, <1>2 DEF Missing
<1>13. \A j \in Jobs : /\ j \notin new => job_id_map'[j] = job_id_map[j]
                       /\ \A i \in 1..Len(NewJobs) : NewJobs[i] = j => job_id_map'[j] = processed + i
  BY NewNames DEF Ledger, new
<1>14. \A j \in new : \E i \in 1..Len(NewJobs) : NewJobs[i] = j
  BY <1>1, ElementsFact DEF new
<1>15. \A j \in new : \E i \in 1..Len(NewJobs) :
          NewJobs[i] = j /\ job_id_map'[j] = processed + i /\ processed + i <= j /\ j \in Nat
  <2> SUFFICES ASSUME NEW j \in new
               PROVE  \E i \in 1..Len(NewJobs) :
          NewJobs[i] = j /\ job_id_map'[j] = processed + i /\ processed + i <= j /\ j \in Nat
    OBVIOUS
  <2>1. PICK i \in 1..Len(NewJobs) : NewJobs[i] = j
    BY <1>14
  <2>2. j \in Jobs /\ j \in Nat
    BY <1>1, JobsFact
  <2>3. \A k \in 1..Len(NewJobs) : NewJobs[k] = j => job_id_map'[j] = processed + k
    BY <1>13, <2>2
  <2>4. processed + i <= j
    BY <1>1, <2>1
  <2>5. job_id_map'[j] = processed + i
    BY <2>1, <2>3
  <2> QED
    BY <2>1, <2>2, <2>4, <2>5
<1>16. job_id_map' \in [Jobs -> Nat]
  <2>1. \A j \in Jobs : job_id_map'[j] \in Nat
    <3> SUFFICES ASSUME NEW j \in Jobs PROVE job_id_map'[j] \in Nat
      OBVIOUS
    <3>1. CASE j \in new
      <4>1. PICK i \in 1..Len(NewJobs) : job_id_map'[j] = processed + i
        BY <1>15, <3>1
      <4> QED
        BY <1>1, <1>2, <4>1
    <3>2. CASE j \notin new
      BY <1>13, <3>2 DEF Ledger, TypeOK
    <3> QED
      BY <3>1, <3>2
  <2>2. job_id_map' = [j \in Jobs |-> job_id_map'[j]]
    BY DEF GenerateBatch
  <2> QED
    BY <2>1, <2>2
<1>17. TypeOK'
  BY <1>2, <1>6, <1>11, <1>12, <1>16, ElementsNone DEF Ledger, TypeOK, GenerateBatch
<1>18. Lists'
  <2>1. main' = "ensure" /\ retry' = <<>> /\ unchecked' = batch' /\ outstanding' = {} /\ processed' = processed + NewCount
    BY <1>3 DEF GenerateBatch
  <2>2. Elements(unchecked)' = Elements(batch)' /\ Elements(retry)' = {} /\ Distinct(retry)'
    BY <2>1, ElementsNone DEF Elements, Distinct
  <2>3. \A j \in old \cup new : j <= processed + NewCount
    <3>1. ASSUME NEW j \in old PROVE j <= processed + NewCount
      <4>1. j \in Nat /\ j <= processed
        BY <1>4, JobsFact
      <4> QED
        BY <1>2, <4>1
    <3> QED
      BY <1>1, <3>1
  <2>4. Len(batch') <= BatchSize
    BY <1>1, <1>2, <1>6, <1>8, FilesFact
  <2> QED
    BY <1>6, <2>1, <2>2, <2>3, <2>4 DEF Lists, InBatch
<1>19. Named'
  <2> SUFFICES ASSUME NEW i \in Jobs, NEW j \in Jobs, i <= processed', j <= processed'
               PROVE  job_id_map'[j] \in 1..j /\ (i # j => job_id_map'[i] # job_id_map'[j])
    BY DEF Named
  <2>1. processed' = processed + NewCount
    BY DEF GenerateBatch
  <2>2. ASSUME NEW k \in Jobs, k <= processed'
        PROVE  /\ k \in new => \E a \in 1..Len(NewJobs) : NewJobs[a] = k /\ job_id_map'[k] = processed + a
                                      /\ processed + a <= k
               /\ k \notin new => k <= processed /\ job_id_map'[k] = job_id_map[k] /\ job_id_map[k] \in 1..k
    <3>1. k \notin new => k <= processed
      BY <1>1, <1>2, <2>1, <2>2, JobsFact
    <3> QED
      BY <1>13, <1>15, <3>1 DEF Ledger, Named
  <2>3. job_id_map'[j] \in 1..j
    <3>1. CASE j \in new
      BY <1>2, <2>2, <3>1, JobsFact
    <3>2. CASE j \notin new
      BY <2>2, <3>2
    <3> QED
      BY <3>1, <3>2
  <2>4. ASSUME i # j PROVE job_id_map'[i] # job_id_map'[j]
    <3>1. CASE i \in new /\ j \in new
      BY <1>2, <2>2, <2>4, <3>1
    <3>2. CASE i \in new /\ j \notin new
      BY <1>2, <2>2, <3>2, JobsFact
    <3>3. CASE i \notin new /\ j \in new
      BY <1>2, <2>2, <3>3, JobsFact
    <3>4. CASE i \notin new /\ j \notin new
      BY <2>2, <2>4, <3>4 DEF Ledger, Named
    <3> QED
      BY <3>1, <3>2, <3>3, <3>4
  <2> QED
    BY <2>3, <2>4
<1>20. Accounts'
  <2>1. InProgress = old /\ InProgress' = old \cup new
    <3>1. main' = "ensure"
      BY DEF GenerateBatch
    <3>2. Elements(batch)' = Elements(batch')
      BY DEF Elements
    <3> QED
      BY <1>3, <1>6, <3>1, <3>2 DEF InProgress, old
  <2>2. /\ progress + Len(retry) = processed
        /\ Jobs \cap (1..processed) = done \cup failed_jobs \cup old
        /\ done \cap failed_jobs = {} /\ old \cap (done \cup failed_jobs) = {}
    BY <1>3, <1>7, <2>1 DEF Ledger, Accounts, old
  <2>3. progress \in Nat
    BY DEF Ledger, TypeOK
  <2>4. progress' + Cardinality(old \cup new) = processed'
    <3>1. progress' = progress + (NewCount - Len(NewJobs)) /\ processed' = processed + NewCount
      BY <1>12 DEF GenerateBatch
    <3>2. progress + Len(retry) = processed
      BY <2>2
    <3> QED
      BY <1>1, <1>2, <1>10, <2>3, <3>1, <3>2
  <2>5. Jobs \cap (1..(processed + NewCount)) = (Jobs \cap (1..processed)) \cup new
    <3> SUFFICES ASSUME NEW j \in Jobs
                 PROVE  j \in 1..(processed + NewCount) <=> j \in 1..processed \/ j \in new
      BY <1>1
    <3>1. j \in Nat /\ j >= 1
      BY FilesFact
    <3>2. j \in new <=> processed < j /\ j <= processed + NewCount
      BY <1>1
    <3> QED
      BY <1>2, <3>1, <3>2
  <2>6. new \cap (done \cup failed_jobs) = {}
    BY <1>1, <1>2, <2>2, JobsFact
  <2>7. done' = done /\ failed_jobs' = failed_jobs /\ processed' = processed + NewCount
    BY DEF GenerateBatch
  <2> QED
    BY <2>1, <2>2, <2>4, <2>5, <2>6, <2>7 DEF Accounts
<1> QED
  BY <1>17, <1>18, <1>19, <1>20 DEF Ledger

\* A step that ends the loop with an exception keeps the rest of the ledger.
LEMMA RaisedLedger ==
  ASSUME Ledger, ClientTypeOK', main' = "raised",
         UNCHANGED <<processed, retry, batch, unchecked, awaiting, outstanding,
                     job_id_map, progress, done, failed_jobs>>
  PROVE  Ledger'
<1>1. TypeOK'
  BY DEF Ledger, TypeOK
<1>2. Lists'
  BY DEF Ledger, Lists, InBatch, Elements, Distinct
<1>3. Named'
  BY DEF Ledger, Named
<1>4. Accounts'
  BY DEF Accounts
<1> QED
  BY <1>1, <1>2, <1>3, <1>4 DEF Ledger

LEMMA GenerateRaisesLedger ==
  ASSUME Ledger, GenerateRaises
  PROVE  Ledger'
<1>1. NewJobs \in Seq(Jobs)
  BY NewJobsFact DEF Ledger
<1>2. ClientTypeOK'
  BY <1>1, AddOnlyType DEF Ledger, TypeOK, GenerateRaises
<1> QED
  BY <1>2, RaisedLedger DEF GenerateRaises

LEMMA RaisesLedger ==
  ASSUME Ledger, CheckRaises \/ \E j \in Jobs : AwaitRaises(j)
  PROVE  Ledger'
<1>1. ClientTypeOK'
  BY ClientKept DEF Ledger, TypeOK, CheckRaises, AwaitRaises
<1> QED
  BY <1>1, RaisedLedger DEF CheckRaises, AwaitRaises

\* A step within _ensure_submitted.
LEMMA EnsureLedger ==
  ASSUME Ledger, ClientTypeOK', InBatch, InBatch',
         unchecked' \in Seq(Jobs), Elements(unchecked)' \subseteq Elements(unchecked),
         awaiting' \subseteq Jobs, main' = "checked" => unchecked' # <<>>,
         UNCHANGED <<processed, retry, batch, outstanding, job_id_map, progress, done, failed_jobs>>
  PROVE  Ledger'
<1>1. TypeOK'
  BY DEF Ledger, TypeOK, InBatch
<1>2. Elements(batch)' = Elements(batch) /\ Elements(retry)' = Elements(retry)
  BY DEF Elements
<1>3. Lists'
  BY <1>2 DEF Ledger, Lists, InBatch, Distinct
<1>4. Named'
  BY DEF Ledger, Named
<1>5. InProgress' = InProgress /\ main # "raised"
  BY <1>2 DEF InProgress, InBatch
<1>6. Accounts'
  BY <1>5 DEF Ledger, Accounts
<1> QED
  BY <1>1, <1>3, <1>4, <1>6 DEF Ledger

LEMMA CheckLedger ==
  ASSUME Ledger, Check
  PROVE  Ledger'
<1>1. ClientTypeOK'
  BY ClientKept DEF Ledger, TypeOK, Check
<1>2. Elements(unchecked)' = Elements(unchecked)
  BY DEF Check, Elements
<1> QED
  BY <1>1, <1>2, EnsureLedger DEF Ledger, TypeOK, Check, Checking, InBatch

LEMMA AwaitLedger ==
  ASSUME Ledger, NEW j \in Jobs, Await(j)
  PROVE  Ledger'
<1>1. ClientTypeOK'
  BY BecomeType DEF Ledger, TypeOK, Await
<1>2. Elements(unchecked)' = Elements(unchecked)
  BY DEF Await, Elements
<1> QED
  BY <1>1, <1>2, EnsureLedger DEF Ledger, TypeOK, Await, Awaited, InBatch

LEMMA LaunchLedger ==
  ASSUME Ledger, Launch
  PROVE  Ledger'
<1>1. ClientTypeOK' /\ batch \in Seq(Jobs)
  BY FetchAsyncType DEF Ledger, TypeOK, Launch
<1>2. Elements(batch) \subseteq Jobs
  BY <1>1, ElementsFact
<1>3. TypeOK'
  BY <1>1, <1>2 DEF Ledger, TypeOK, Launch
<1>4. retry = <<>> /\ InBatch /\ ~InBatch'
  BY DEF Ledger, Lists, Launch, InBatch
<1>5. Elements(batch)' = Elements(batch) /\ Elements(retry)' = {} /\ outstanding' = Elements(batch)
  BY <1>4 DEF Elements, Launch
<1>6. Lists'
  BY <1>4, <1>5 DEF Ledger, Lists, Distinct, Launch
<1>7. Named'
  BY DEF Ledger, Named, Launch
<1>8. InProgress' = InProgress /\ main # "raised"
  BY <1>4, <1>5 DEF InProgress, InBatch
<1>9. Accounts'
  BY <1>8 DEF Ledger, Accounts, Launch
<1> QED
  BY <1>3, <1>6, <1>7, <1>9 DEF Ledger

LEMMA ReturnLedger ==
  ASSUME Ledger, Return
  PROVE  Ledger'
<1>1. ClientTypeOK'
  BY ClientKept DEF Ledger, TypeOK, Return
<1>2. TypeOK'
  BY <1>1 DEF Ledger, TypeOK, Return
<1>3. Elements(batch)' = Elements(batch) /\ Elements(retry)' = Elements(retry)
  BY DEF Elements, Return
<1>4. Lists'
  BY <1>3 DEF Ledger, Lists, InBatch, Distinct, Return, AtTop
<1>5. Named'
  BY DEF Ledger, Named, Return
<1>6. InProgress' = InProgress /\ main # "raised"
  BY <1>3 DEF InProgress, Return, AtTop
<1>7. Accounts'
  BY <1>6 DEF Ledger, Accounts, Return
<1> QED
  BY <1>2, <1>4, <1>5, <1>7 DEF Ledger

-----------------------------------------------------------------------------
\* A future that is handled: its job is done, has failed, or is to be retried.
LEMMA HandledLedger ==
  ASSUME Ledger, NEW j \in Jobs, Handled(j),
         \/ /\ done' = done \cup {j} /\ progress' = progress + 1
            /\ UNCHANGED <<retry, failed_jobs>>
         \/ /\ failed_jobs' = failed_jobs \cup {j} /\ progress' = progress + 1
            /\ UNCHANGED <<retry, done>>
  PROVE  Ledger'
<1>1. ClientTypeOK'
  BY ClientKept DEF Ledger, TypeOK, Handled
<1>2. TypeOK'
  BY <1>1 DEF Ledger, TypeOK, Handled
<1>3. Elements(batch)' = Elements(batch) /\ Elements(retry)' = Elements(retry)
  BY DEF Elements, Handled
<1>4. main = "loop" /\ main' = "loop" /\ j \in outstanding /\ outstanding' = outstanding \ {j}
  BY DEF Handled
<1>5. Lists'
  BY <1>3, <1>4 DEF Ledger, Lists, InBatch, Distinct, Handled
<1>6. Named'
  BY DEF Ledger, Named, Handled
<1>7. j \notin Elements(retry)
  BY <1>4 DEF Ledger, Lists
<1>8. j \in InProgress /\ InProgress' = InProgress \ {j}
  BY <1>3, <1>4, <1>7 DEF InProgress
<1>9. InProgress \subseteq Jobs
  BY <1>4, ElementsFact DEF InProgress, Ledger, TypeOK
<1>10. /\ Cardinality(InProgress') = Cardinality(InProgress) - 1
       /\ Cardinality(InProgress) \in Nat
  BY <1>8, <1>9, JobsFinite, FS_RemoveElement, FS_CardinalityType
<1>11. /\ progress + Cardinality(InProgress) = processed
       /\ Jobs \cap (1..processed) = done \cup failed_jobs \cup InProgress
       /\ done \cap failed_jobs = {} /\ InProgress \cap (done \cup failed_jobs) = {}
  BY <1>4 DEF Ledger, Accounts
<1>12. progress' + Cardinality(InProgress') = processed'
  BY <1>10, <1>11 DEF Ledger, TypeOK, Handled
<1>13. Accounts'
  BY <1>8, <1>11, <1>12 DEF Accounts, Handled
<1> QED
  BY <1>2, <1>5, <1>6, <1>13 DEF Ledger

LEMMA TimeoutLedger ==
  ASSUME Ledger, NEW j \in Jobs, HandleTimeout(j)
  PROVE  Ledger'
<1>1. ClientTypeOK'
  BY ClientKept DEF Ledger, TypeOK, Handled, HandleTimeout
<1>2. /\ main = "loop" /\ main' = "loop" /\ j \in outstanding /\ outstanding' = outstanding \ {j}
      /\ retry' = Append(retry, j)
  BY DEF Handled, HandleTimeout
<1>3. retry \in Seq(Jobs) /\ Distinct(retry) /\ j \notin Elements(retry)
  BY <1>2 DEF Ledger, TypeOK, Lists
<1>4. retry' \in Seq(Jobs) /\ Elements(retry') = Elements(retry) \cup {j} /\ Distinct(retry')
  BY <1>2, <1>3, ElementsAppend
<1>5. TypeOK'
  BY <1>1, <1>4 DEF Ledger, TypeOK, Handled, HandleTimeout
<1>6. /\ Elements(batch)' = Elements(batch) /\ Elements(retry)' = Elements(retry) \cup {j}
      /\ Distinct(retry)' /\ Distinct(batch)' = Distinct(batch)
  BY <1>4 DEF Elements, Distinct, Handled, HandleTimeout
<1>7. Lists'
  BY <1>2, <1>6 DEF Ledger, Lists, InBatch, Handled, HandleTimeout
<1>8. Named'
  BY DEF Ledger, Named, Handled, HandleTimeout
<1>9. InProgress' = InProgress
  BY <1>2, <1>6 DEF InProgress
<1>10. Accounts'
  BY <1>2, <1>9 DEF Ledger, Accounts, Handled, HandleTimeout
<1> QED
  BY <1>5, <1>7, <1>8, <1>10 DEF Ledger

LEMMA CheckAgainLedger ==
  ASSUME Ledger, CheckAgain
  PROVE  Ledger'
<1>1. ClientTypeOK'
  BY ClientKept DEF Ledger, TypeOK, CheckAgain
<1>2. unchecked \in Seq(Jobs) /\ unchecked' = Tail(unchecked) /\ unchecked # <<>>
  BY DEF Ledger, TypeOK, Lists, CheckAgain
<1>3. unchecked' \in Seq(Jobs) /\ Head(unchecked) \in Elements(unchecked)
      /\ Elements(unchecked') \subseteq Elements(unchecked)
  BY <1>2, ElementsTail
<1>4. awaiting' \subseteq Jobs
  BY <1>2, <1>3, ElementsFact DEF CheckAgain, Ledger, TypeOK
<1>5. Elements(unchecked)' \subseteq Elements(unchecked)
  BY <1>3 DEF Elements
<1> QED
  BY <1>1, <1>3, <1>4, <1>5, EnsureLedger DEF CheckAgain, InBatch

-----------------------------------------------------------------------------
(* The steps of the pool and of the service.                               *)

LEMMA WorkerType ==
  ASSUME Ledger, NEW w \in Workers, Worker(w)
  PROVE  ClientTypeOK'
<1>1. ClientTypeOK
  BY DEF Ledger, TypeOK
<1>2. CASE FetchTask(w)
  <2>1. thread[w].job \in Jobs
    BY <1>1, <1>2, ThreadFact DEF ClientTypeOK, FetchTask
  <2> DEFINE j == thread[w].job
  <2>2. PICK answer \in Answers :
          Fetch(j, answer) /\ fetch_future' = [fetch_future EXCEPT ![j] = answer]
    BY <1>2 DEF FetchTask
  <2>3. /\ state' \in [Jobs -> States] /\ job_states' \subseteq Jobs
        /\ service' \in [Jobs -> {"absent", "refused", "processing", "ready", "taken"}]
    BY <1>1, <2>1, <2>2 DEF Fetch, FetchRefused, FetchAnswered, FetchTimesOut, ClientTypeOK, Become, States
  <2>4. /\ fetch_future' \in [Jobs -> {"none", "pending"} \cup Answers]
        /\ thread' \in [Workers -> ThreadStates]
    BY <1>1, <1>2, <2>2, ThreadFact DEF ClientTypeOK, FetchTask
  <2> QED
    BY <1>1, <1>2, <2>3, <2>4 DEF ClientTypeOK, FetchTask
<1> QED
  BY <1>1, <1>2, TakeType, SendType, SendRaisesType, MarkType, NameType, ThreadFact DEF Worker

LEMMA NextLedger ==
  ASSUME Ledger, [Next]_vars
  PROVE  Ledger'
<1>1. CASE Main
  <2>1. CASE GenerateBatch
    BY <2>1, GenerateBatchLedger
  <2>2. CASE GenerateRaises
    BY <2>2, GenerateRaisesLedger
  <2>3. CASE Check
    BY <2>3, CheckLedger
  <2>4. CASE CheckRaises \/ \E j \in Jobs : AwaitRaises(j)
    BY <2>4, RaisesLedger
  <2>5. CASE CheckAgain
    BY <2>5, CheckAgainLedger
  <2>6. CASE Launch
    BY <2>6, LaunchLedger
  <2>7. CASE Return
    BY <2>7, ReturnLedger
  <2>8. ASSUME NEW j \in Jobs, Await(j) PROVE Ledger'
    BY <2>8, AwaitLedger
  <2>9. ASSUME NEW j \in Jobs, HandleResult(j) \/ HandleFailure(j) PROVE Ledger'
    BY <2>9, HandledLedger DEF HandleResult, HandleFailure
  <2>10. ASSUME NEW j \in Jobs, HandleTimeout(j) PROVE Ledger'
    BY <2>10, TimeoutLedger
  <2> QED
    BY <1>1, <2>1, <2>2, <2>3, <2>4, <2>5, <2>6, <2>7, <2>8, <2>9, <2>10 DEF Main
<1>2. ASSUME NEW w \in Workers, Worker(w) PROVE Ledger'
  BY <1>2, WorkerType, LedgerKept DEF Worker
<1>3. CASE Service
  BY <1>3, ProcessType, LedgerKept DEF Service, Ledger, TypeOK
<1>4. CASE UNCHANGED vars
  BY <1>4, ClientKept, LedgerKept DEF vars, Ledger, TypeOK
<1> QED
  BY <1>1, <1>2, <1>3, <1>4 DEF Next

LEMMA LedgerInvariance == LoopSpec => []Ledger
<1>1. Init => Ledger
  BY InitLedger
<1>2. Ledger /\ [Next]_vars => Ledger'
  BY NextLedger
<1> QED
  BY <1>1, <1>2, PTL DEF LoopSpec

\* FilesAccounted: every file the loop has taken made no job, or its job is done
\* under a name of its own, has failed, or is in progress, whatever times out, is
\* retried or fails (create_and_process_jobs).
THEOREM FilesAreAccounted == LoopSpec => []FilesAccounted
<1>1. ASSUME Ledger PROVE FilesAccounted
  <2> SUFFICES ASSUME main # "raised" PROVE FilesAccounted
    BY DEF FilesAccounted
  <2>1. /\ progress + Cardinality(InProgress) = processed
        /\ Jobs \cap (1..processed) = done \cup failed_jobs \cup InProgress
        /\ done \cap failed_jobs = {} /\ InProgress \cap (done \cup failed_jobs) = {}
    BY <1>1 DEF Ledger, Accounts
  <2>2. processed \in Nat
    BY <1>1, FilesFact DEF Ledger, TypeOK
  <2>3. \A j \in done : j \in Jobs /\ j \in 1..processed /\ j <= processed
    BY <2>1, <2>2
  <2>4. NamesApart
    BY <1>1, <2>3 DEF NamesApart, Ledger, Named
  <2> QED
    BY <2>1, <2>4 DEF FilesAccounted
<1> QED
  BY <1>1, LedgerInvariance, PTL

-----------------------------------------------------------------------------
(* The tasks of the pool: what the steps do to them.                       *)

LEMMA Values ==
  /\ \A a, b, j, k : At(a, j) = At(b, k) <=> a = b /\ j = k
  /\ \A a, j : At(a, j) # Idle /\ At(a, j).at = a /\ At(a, j).job = j
  /\ \A a, b, j, k : Task(a, j) = Task(b, k) <=> a = b /\ j = k
  /\ \A a, j : Task(a, j).do = a /\ Task(a, j).job = j
<1>1. \A a, j : At(a, j).at = a /\ At(a, j).job = j
  BY DEF At
<1>2. \A a, j : Task(a, j).do = a /\ Task(a, j).job = j
  BY DEF Task
<1>3. \A a, b, j, k : At(a, j) = At(b, k) <=> a = b /\ j = k
  BY <1>1
<1>4. \A a, b, j, k : Task(a, j) = Task(b, k) <=> a = b /\ j = k
  BY <1>2
<1>5. \A a, j : At(a, j) # Idle
  <2> SUFFICES ASSUME NEW a, NEW j, At(a, j) = Idle PROVE FALSE
    OBVIOUS
  <2>1. DOMAIN At(a, j) = {"at", "job"} /\ DOMAIN Idle = {"at"}
    BY DEF At, Idle
  <2>2. "job" \in {"at", "job"} /\ "job" \notin {"at"}
    OBVIOUS
  <2> QED
    BY <2>1, <2>2
<1> QED
  BY <1>1, <1>2, <1>3, <1>4, <1>5

LEMMA ThreadValue ==
  ASSUME ClientTypeOK, NEW w \in Workers, thread[w].at # "idle"
  PROVE  thread[w].job \in Jobs /\ thread[w] = At(thread[w].at, thread[w].job)
<1>1. thread[w] \in ThreadStates
  BY DEF ClientTypeOK
<1>2. thread[w] # Idle
  BY DEF Idle
<1>3. PICK t \in [at : {"submit", "mark", "name", "fetch", "callback"}, job : Jobs] : thread[w] = t
  BY <1>1, <1>2 DEF ThreadStates
<1> QED
  BY <1>3 DEF At

LEMMA IdleHoldsNothing ==
  ASSUME NEW w \in Workers, thread[w].at = "idle"
  PROVE  \A what, j : ~Holds(w, what, j) /\ thread[w] # At("name", j)
  BY Values DEF Holds, Parts

LEMMA PartsFact == Parts("submit") = {"submit", "mark", "name"} /\ Parts("fetch") = {"fetch"}
  BY DEF Parts

LEMMA TasksKept ==
  ASSUME UNCHANGED <<work, thread>>
  PROVE  /\ OneTask => OneTask'
         /\ NoCallback => NoCallback'
         /\ \A what, j : Under(what, j)' <=> Under(what, j)
         /\ \A j : Naming(j)' <=> Naming(j)
  BY DEF OneTask, NoCallback, Under, Naming, Queued, Holds

LEMMA TakeTasks ==
  ASSUME ClientTypeOK, OneTask, NoCallback, NEW w \in Workers, Take(w)
  PROVE  /\ OneTask' /\ NoCallback'
         /\ \A what \in {"submit", "fetch"}, j \in Jobs : Under(what, j)' => Under(what, j)
         /\ \A j : Naming(j)' <=> Naming(j)
<1>1. work \in Seq(TaskType) /\ work # <<>>
  BY DEF ClientTypeOK, Take, TaskType
<1> DEFINE n == Len(work)
<1>2. /\ Head(work) = work[1] /\ Head(work) \in TaskType
      /\ work' = Tail(work) /\ work' \in Seq(TaskType) /\ Len(work') = n - 1
      /\ \A i \in 1..Len(work') : work'[i] = work[i + 1]
  BY <1>1, HeadTailProperties DEF Take
<1>3. n \in Nat \ {0} /\ DOMAIN work = 1..n /\ DOMAIN work' = 1..(n - 1)
  BY <1>1, <1>2, LenProperties, EmptySeq
<1>4. PICK what \in {"submit", "fetch"}, j \in Jobs : Head(work) = Task(what, j)
  BY <1>2 DEF TaskType, Task
<1>5. work[1] = Task(what, j) /\ 1 \in DOMAIN work
  BY <1>2, <1>3, <1>4
<1>17. Head(work).do = what /\ Head(work).job = j
  BY <1>4, Values
<1>6. thread' = [thread EXCEPT ![w] = At(what, j)] /\ thread[w].at = "idle"
  BY <1>17 DEF Take
<1>7. thread'[w] = At(what, j) /\ \A v \in Workers \ {w} : thread'[v] = thread[v]
  BY <1>6 DEF ClientTypeOK
<1> HIDE DEF n
<1>8. \A i \in DOMAIN work' : i + 1 \in DOMAIN work /\ i + 1 # 1 /\ work'[i] = work[i + 1]
  BY <1>2, <1>3
<1>9. \A i, kind, k : Queued(i, kind, k)' => Queued(i + 1, kind, k) /\ i \in DOMAIN work' /\ i + 1 # 1
  BY <1>8 DEF Queued
<1>10. \A kind \in {"submit", "fetch"}, k \in Jobs : Holds(w, kind, k)' => kind = what /\ k = j
  <2> SUFFICES ASSUME NEW kind \in {"submit", "fetch"}, NEW k \in Jobs, Holds(w, kind, k)'
               PROVE  kind = what /\ k = j
    OBVIOUS
  <2>1. PICK at \in Parts(kind) : thread'[w] = At(at, k)
    BY DEF Holds
  <2>4. At(at, k) = At(what, j)
    BY <1>7, <2>1
  <2>2. at = what /\ k = j
    BY <2>4, Values
  <2>3. at \in Parts(kind)
    BY <2>1
  <2> QED
    BY <2>2, <2>3, PartsFact
<1>11. \A v \in Workers : v # w => \A kind, k : Holds(v, kind, k)' <=> Holds(v, kind, k)
  BY <1>7 DEF Holds
<1>12. /\ \A i \in DOMAIN work : Queued(i, what, j) => i = 1
       /\ \A v \in Workers : ~Holds(v, what, j)
  BY <1>5 DEF OneTask, Queued
<1>13. OneTask'
  <2> SUFFICES ASSUME NEW kind \in {"submit", "fetch"}, NEW k \in Jobs
               PROVE  /\ \A i, m \in DOMAIN work' : Queued(i, kind, k)' /\ Queued(m, kind, k)' => i = m
                      /\ \A u, v \in Workers : Holds(u, kind, k)' /\ Holds(v, kind, k)' => u = v
                      /\ \A i \in DOMAIN work', v \in Workers : ~(Queued(i, kind, k)' /\ Holds(v, kind, k)')
    BY DEF OneTask
  <2>1. \A i, m \in DOMAIN work' : Queued(i, kind, k)' /\ Queued(m, kind, k)' => i = m
    <3> SUFFICES ASSUME NEW i \in DOMAIN work', NEW m \in DOMAIN work',
                        Queued(i, kind, k)', Queued(m, kind, k)'
                 PROVE  i = m
      OBVIOUS
    <3>1. i + 1 = m + 1
      BY <1>8, <1>9 DEF OneTask
    <3> QED
      BY <1>3, <3>1
  <2>2. \A u, v \in Workers : Holds(u, kind, k)' /\ Holds(v, kind, k)' => u = v
    BY <1>10, <1>11, <1>12 DEF OneTask
  <2>3. \A i \in DOMAIN work', v \in Workers : ~(Queued(i, kind, k)' /\ Holds(v, kind, k)')
    BY <1>8, <1>9, <1>10, <1>11, <1>12 DEF OneTask
  <2> QED
    BY <2>1, <2>2, <2>3
<1>14. NoCallback'
  BY <1>7, Values DEF NoCallback
<1>15. \A kind \in {"submit", "fetch"}, k \in Jobs : Under(kind, k)' => Under(kind, k)
  <2> SUFFICES ASSUME NEW kind \in {"submit", "fetch"}, NEW k \in Jobs, Under(kind, k)' PROVE Under(kind, k)
    OBVIOUS
  <2>1. CASE \E i \in DOMAIN work' : Queued(i, kind, k)'
    BY <1>8, <1>9, <2>1 DEF Under
  <2>2. CASE \E v \in Workers : v # w /\ Holds(v, kind, k)'
    BY <1>11, <2>2 DEF Under
  <2>3. CASE Holds(w, kind, k)'
    <3>1. kind = what /\ k = j
      BY <1>10, <2>3
    <3> QED
      BY <1>5, <3>1 DEF Under, Queued
  <2> QED
    BY <2>1, <2>2, <2>3 DEF Under
<1>16. \A k : Naming(k)' <=> Naming(k)
  <2>1. \A k : thread'[w] # At("name", k) /\ thread[w] # At("name", k)
    BY <1>6, <1>7, Values
  <2> QED
    BY <1>7, <2>1 DEF Naming
<1> QED
  BY <1>13, <1>14, <1>15, <1>16

\* A worker goes on with its task, or is done with it.
LEMMA AdvanceTasks ==
  ASSUME OneTask, NoCallback, thread \in [Workers -> ThreadStates], NEW w \in Workers,
         NEW what \in {"submit", "fetch"}, NEW j \in Jobs, Holds(w, what, j),
         NEW t, t = Idle \/ \E at \in Parts(what) : t = At(at, j),
         UNCHANGED work, thread' = [thread EXCEPT ![w] = t]
  PROVE  /\ OneTask' /\ NoCallback'
         /\ \A kind \in {"submit", "fetch"}, k \in Jobs :
              kind # what \/ k # j => (Under(kind, k)' <=> Under(kind, k))
         /\ \A k \in Jobs : what # "submit" \/ k # j => (Naming(k)' <=> Naming(k))
         /\ Under(what, j)' => t # Idle
         /\ what = "submit" => (Naming(j)' <=> t = At("name", j))
<1>1. thread'[w] = t /\ \A v \in Workers \ {w} : thread'[v] = thread[v]
  OBVIOUS
<1>2. \A i, kind, k : Queued(i, kind, k)' <=> Queued(i, kind, k)
  BY DEF Queued
<1>3. \A v \in Workers : v # w => \A kind, k : Holds(v, kind, k)' <=> Holds(v, kind, k)
  BY <1>1 DEF Holds
<1>4. PICK at \in Parts(what) : thread[w] = At(at, j)
  BY DEF Holds
<1>5. \A kind \in {"submit", "fetch"}, k \in Jobs :
         /\ Holds(w, kind, k) <=> kind = what /\ k = j
         /\ Holds(w, kind, k)' => kind = what /\ k = j /\ t # Idle
  BY <1>1, <1>4, Values, PartsFact DEF Holds
<1>6. /\ \A i \in DOMAIN work : ~Queued(i, what, j)
      /\ \A v \in Workers : v # w => ~Holds(v, what, j)
  BY DEF OneTask
<1>7. OneTask'
  BY <1>2, <1>3, <1>5, <1>6 DEF OneTask
<1>8. NoCallback'
  BY <1>1, Values, PartsFact DEF NoCallback, Idle
<1>9. \A kind \in {"submit", "fetch"}, k \in Jobs :
         kind # what \/ k # j => (Under(kind, k)' <=> Under(kind, k))
  BY <1>2, <1>3, <1>5 DEF Under
<1>10. Under(what, j)' => t # Idle
  BY <1>2, <1>3, <1>5, <1>6 DEF Under
<1>11. \A k \in Jobs : what # "submit" \/ k # j => (Naming(k)' <=> Naming(k))
  <2> SUFFICES ASSUME NEW k \in Jobs, what # "submit" \/ k # j PROVE Naming(k)' <=> Naming(k)
    OBVIOUS
  <2>1. thread[w] # At("name", k) /\ thread'[w] # At("name", k)
    BY <1>1, <1>4, Values, PartsFact
  <2> QED
    BY <1>1, <2>1 DEF Naming
<1>12. ASSUME what = "submit" PROVE Naming(j)' <=> t = At("name", j)
  <2>1. \A v \in Workers : v # w => thread'[v] # At("name", j)
    BY <1>1, <1>6, <1>12, PartsFact DEF Holds
  <2> QED
    BY <1>1, <2>1 DEF Naming
<1> QED
  BY <1>7, <1>8, <1>9, <1>10, <1>11, <1>12

\* Tasks of one kind are put into the queue, for jobs that have none.
LEMMA AddTasks ==
  ASSUME ClientTypeOK, OneTask, NoCallback, NEW what \in {"submit", "fetch"},
         NEW list \in Seq(Jobs), Distinct(list),
         \A j \in Elements(list) : ~Under(what, j),
         work' = work \o Tasks(what, list), UNCHANGED thread
  PROVE  /\ OneTask' /\ NoCallback'
         /\ \A kind \in {"submit", "fetch"}, k \in Jobs :
              Under(kind, k)' => Under(kind, k) \/ (kind = what /\ k \in Elements(list))
         /\ \A k \in Jobs : Naming(k)' <=> Naming(k)
<1> DEFINE m == Len(work)
           n == Len(list)
           more == Tasks(what, list)
<1>1. work \in Seq(TaskType) /\ more \in Seq(TaskType)
  BY TasksType DEF ClientTypeOK, TaskType
<1>2. n \in Nat /\ DOMAIN list = 1..n /\ \A i \in 1..n : list[i] \in Elements(list)
  BY ElementsFact
<1>3. DOMAIN more = 1..n /\ Len(more) = n /\ \A i \in 1..n : more[i] = Task(what, list[i])
  <2>1. DOMAIN more = 1..n /\ \A i \in 1..n : more[i] = Task(what, list[i])
    BY <1>2 DEF Tasks
  <2>2. Len(more) \in Nat /\ DOMAIN more = 1..Len(more)
    BY <1>1, LenProperties
  <2> QED
    BY <1>2, <2>1, <2>2
<1>4. m \in Nat /\ DOMAIN work = 1..m
  BY <1>1, LenProperties
<1> HIDE DEF m, n, more
<1>5. /\ work' \in Seq(TaskType) /\ Len(work') = m + n
      /\ \A i \in 1..(m + n) : work'[i] = IF i <= m THEN work[i] ELSE more[i - m]
  BY <1>1, <1>3, ConcatProperties DEF m, more
<1>6. DOMAIN work' = 1..(m + n)
  BY <1>5, LenProperties
<1>7. ASSUME NEW i \in DOMAIN work'
      PROVE  \/ i \in DOMAIN work /\ work'[i] = work[i]
             \/ i - m \in 1..n /\ work'[i] = Task(what, list[i - m]) /\ i \notin DOMAIN work
  <2>1. CASE i <= m
    BY <1>4, <1>5, <1>6, <2>1
  <2>2. CASE ~(i <= m)
    <3>1. i - m \in 1..n /\ i \notin 1..m
      BY <1>2, <1>4, <1>6, <2>2
    <3> QED
      BY <1>3, <1>4, <1>5, <1>6, <2>2, <3>1
  <2> QED
    BY <2>1, <2>2
<1>8. ASSUME NEW i, NEW kind, NEW k, Queued(i, kind, k)'
      PROVE  /\ i \in DOMAIN work'
             /\ \/ i \in DOMAIN work /\ Queued(i, kind, k)
                \/ i - m \in 1..n /\ kind = what /\ k = list[i - m] /\ i \notin DOMAIN work
  <2>1. i \in DOMAIN work' /\ work'[i] = Task(kind, k)
    BY <1>8 DEF Queued
  <2> QED
    BY <1>7, <2>1, Values DEF Queued
<1>9. \A v, kind, k : Holds(v, kind, k)' <=> Holds(v, kind, k)
  BY DEF Holds
<1>10. \A i \in 1..n : /\ \A q \in DOMAIN work : ~Queued(q, what, list[i])
                       /\ \A v \in Workers : ~Holds(v, what, list[i])
  BY <1>2 DEF Under
<1>11. OneTask'
  <2> SUFFICES ASSUME NEW kind \in {"submit", "fetch"}, NEW k \in Jobs
               PROVE  /\ \A i, q \in DOMAIN work' : Queued(i, kind, k)' /\ Queued(q, kind, k)' => i = q
                      /\ \A u, v \in Workers : Holds(u, kind, k)' /\ Holds(v, kind, k)' => u = v
                      /\ \A i \in DOMAIN work', v \in Workers : ~(Queued(i, kind, k)' /\ Holds(v, kind, k)')
    BY DEF OneTask
  <2>1. ASSUME NEW i \in DOMAIN work', NEW q \in DOMAIN work', Queued(i, kind, k)', Queued(q, kind, k)'
        PROVE  i = q
    <3>1. CASE i \in DOMAIN work /\ q \in DOMAIN work
      BY <1>8, <2>1, <3>1 DEF OneTask
    <3>2. CASE i \notin DOMAIN work /\ q \notin DOMAIN work
      <4>1. i - m \in 1..n /\ q - m \in 1..n /\ list[i - m] = list[q - m]
        BY <1>8, <2>1, <3>2
      <4>2. i - m = q - m
        BY <1>2, <4>1 DEF Distinct
      <4> QED
        BY <1>2, <1>4, <1>6, <4>2
    <3>3. CASE i \in DOMAIN work /\ q \notin DOMAIN work
      BY <1>8, <1>10, <2>1, <3>3
    <3>4. CASE i \notin DOMAIN work /\ q \in DOMAIN work
      BY <1>8, <1>10, <2>1, <3>4
    <3> QED
      BY <3>1, <3>2, <3>3, <3>4
  <2>2. \A u, v \in Workers : Holds(u, kind, k)' /\ Holds(v, kind, k)' => u = v
    BY <1>9 DEF OneTask
  <2>3. \A i \in DOMAIN work', v \in Workers : ~(Queued(i, kind, k)' /\ Holds(v, kind, k)')
    BY <1>8, <1>9, <1>10 DEF OneTask
  <2> QED
    BY <2>1, <2>2, <2>3
<1>12. NoCallback'
  BY DEF NoCallback
<1>13. \A kind \in {"submit", "fetch"}, k \in Jobs :
          Under(kind, k)' => Under(kind, k) \/ (kind = what /\ k \in Elements(list))
  BY <1>2, <1>8, <1>9 DEF Under
<1>14. \A k \in Jobs : Naming(k)' <=> Naming(k)
  BY DEF Naming
<1> QED
  BY <1>11, <1>12, <1>13, <1>14

LEMMA UnderFact ==
  /\ \A w \in Workers, j \in Jobs, at \in {"submit", "mark", "name"} :
       thread[w] = At(at, j) => Holds(w, "submit", j) /\ Under("submit", j)
  /\ \A w \in Workers, j \in Jobs :
       thread[w] = At("fetch", j) => Holds(w, "fetch", j) /\ Under("fetch", j)
  /\ \A j \in Jobs : Naming(j) => Under("submit", j)
  BY PartsFact DEF Under, Naming, Holds

LEMMA LoopKept ==
  ASSUME UNCHANGED loopVars
  PROVE  /\ Elements(batch)' = Elements(batch) /\ Elements(retry)' = Elements(retry)
         /\ Elements(unchecked)' = Elements(unchecked)
         /\ InProgress' = InProgress /\ (InBatch' <=> InBatch)
         /\ UNCHANGED <<main, processed, awaiting, outstanding>>
  BY DEF Elements, InProgress, InBatch, loopVars

LEMMA TaskEnds ==
  ASSUME Ledger, Pool, NEW w \in Workers, NEW what \in {"submit", "fetch"}, NEW j \in Jobs,
         Holds(w, what, j), UNCHANGED work, thread' = [thread EXCEPT ![w] = Idle]
  PROVE  /\ OneTask' /\ NoCallback'
         /\ \A kind \in {"submit", "fetch"}, k \in Jobs :
              kind # what \/ k # j => (Under(kind, k)' <=> Under(kind, k))
         /\ \A k \in Jobs : what # "submit" \/ k # j => (Naming(k)' <=> Naming(k))
         /\ ~Under(what, j)'
<1>1. thread \in [Workers -> ThreadStates] /\ OneTask /\ NoCallback
  BY DEF Ledger, TypeOK, ClientTypeOK, Pool
<1>2. Idle = Idle \/ \E at \in Parts(what) : Idle = At(at, j)
  OBVIOUS
<1> QED
  BY <1>1, <1>2, AdvanceTasks

LEMMA SubmissionGoesOn ==
  ASSUME Ledger, Pool, NEW w \in Workers, NEW j \in Jobs, NEW at \in {"mark", "name"},
         Holds(w, "submit", j), UNCHANGED work, thread' = [thread EXCEPT ![w] = At(at, j)]
  PROVE  /\ OneTask' /\ NoCallback'
         /\ \A kind \in {"submit", "fetch"}, k \in Jobs :
              kind # "submit" \/ k # j => (Under(kind, k)' <=> Under(kind, k))
         /\ \A k \in Jobs : k # j => (Naming(k)' <=> Naming(k))
         /\ Naming(j)' <=> at = "name"
<1>1. thread \in [Workers -> ThreadStates] /\ OneTask /\ NoCallback
  BY DEF Ledger, TypeOK, ClientTypeOK, Pool
<1>2. at \in Parts("submit")
  BY PartsFact
<1>3. At(at, j) = Idle \/ \E part \in Parts("submit") : At(at, j) = At(part, j)
  BY <1>2
<1>4. At(at, j) = At("name", j) <=> at = "name"
  BY Values
<1> QED
  BY <1>1, <1>3, <1>4, AdvanceTasks

\* What the steps that keep the registry and the futures as they are preserve.
LEMMA PoolKept ==
  ASSUME Pool, OneTask', NoCallback', UNCHANGED <<loopVars, jobVars, submit_future, fetch_future>>,
         \A what \in {"submit", "fetch"}, j \in Jobs : Under(what, j)' => Under(what, j),
         \A j \in Jobs : Naming(j)' <=> Naming(j)
  PROVE  Pool'
<1>1. Submissions'
  BY LoopKept DEF Pool, Submissions, jobVars
<1>2. Ensuring'
  BY LoopKept DEF Pool, Ensuring, jobVars
<1>3. Fetching'
  BY LoopKept DEF Pool, Fetching, jobVars
<1> QED
  BY <1>1, <1>2, <1>3 DEF Pool

LEMMA TakePool ==
  ASSUME Ledger, Pool, NEW w \in Workers, Take(w), UNCHANGED loopVars
  PROVE  Pool'
<1>1. /\ OneTask' /\ NoCallback'
      /\ \A what \in {"submit", "fetch"}, j \in Jobs : Under(what, j)' => Under(what, j)
      /\ \A j \in Jobs : Naming(j)' <=> Naming(j)
  BY TakeTasks DEF Ledger, TypeOK, Pool
<1> QED
  BY <1>1, PoolKept DEF Take

\* What a worker has in hand while it submits a job.
LEMMA Submitting ==
  ASSUME Ledger, Pool, NEW w \in Workers, NEW at \in {"submit", "mark", "name"}, thread[w].at = at
  PROVE  /\ thread[w].job \in Jobs /\ thread[w] = At(at, thread[w].job)
         /\ Holds(w, "submit", thread[w].job) /\ Under("submit", thread[w].job)
         /\ Naming(thread[w].job) <=> at = "name"
<1> DEFINE j == thread[w].job
<1>1. j \in Jobs /\ thread[w] = At(at, j)
  BY ThreadValue DEF Ledger, TypeOK
<1>2. Holds(w, "submit", j) /\ Under("submit", j)
  BY <1>1, UnderFact
<1>3. ASSUME Naming(j) PROVE at = "name"
  <2>1. PICK v \in Workers : thread[v] = At("name", j)
    BY <1>3 DEF Naming
  <2>2. Holds(v, "submit", j)
    BY <1>1, <2>1, UnderFact
  <2>3. v = w
    BY <1>1, <1>2, <2>2 DEF Pool, OneTask
  <2> QED
    BY <1>1, <2>1, <2>3, Values
<1>4. at = "name" => Naming(j)
  BY <1>1 DEF Naming
<1> QED
  BY <1>1, <1>2, <1>3, <1>4

LEMMA SendPool ==
  ASSUME Ledger, Pool, NEW w \in Workers, Send(w), UNCHANGED loopVars
  PROVE  Pool'
<1>1. thread[w].at = "submit"
  BY DEF Send
<1>2. PICK j \in Jobs : j = thread[w].job /\ Holds(w, "submit", j) /\ Under("submit", j) /\ ~Naming(j)
  BY <1>1, Submitting
<1>3. thread' = [thread EXCEPT ![w] = At("mark", j)] /\ UNCHANGED work
  BY <1>2 DEF Send
<1>4. /\ OneTask' /\ NoCallback'
      /\ \A kind \in {"submit", "fetch"}, k \in Jobs :
           kind # "submit" \/ k # j => (Under(kind, k)' <=> Under(kind, k))
      /\ \A k \in Jobs : k # j => (Naming(k)' <=> Naming(k))
      /\ Naming(j)' <=> "mark" = "name"
  BY <1>2, <1>3, SubmissionGoesOn
<1>5. \A k \in Jobs : Naming(k)' <=> Naming(k)
  BY <1>2, <1>4
<1>6. \A kind \in {"submit", "fetch"}, k \in Jobs : Under(kind, k)' => Under(kind, k)
  BY <1>2, <1>4
<1>7. UNCHANGED <<loopVars, jobVars, submit_future, fetch_future>>
  BY DEF Send
<1> QED
  BY <1>4, <1>5, <1>6, <1>7, PoolKept

LEMMA MarkPool ==
  ASSUME Ledger, Pool, NEW w \in Workers, Mark(w), UNCHANGED loopVars
  PROVE  Pool'
<1>1. thread[w].at = "mark"
  BY DEF Mark
<1>2. PICK j \in Jobs : j = thread[w].job /\ Holds(w, "submit", j) /\ Under("submit", j) /\ ~Naming(j)
  BY <1>1, Submitting
<1>3. /\ thread' = [thread EXCEPT ![w] = At("name", j)] /\ Become(j, "SUBMITTED")
      /\ UNCHANGED <<work, job_states, job_id, submit_future, fetch_future>>
  BY <1>2 DEF Mark
<1>4. /\ OneTask' /\ NoCallback'
      /\ \A kind \in {"submit", "fetch"}, k \in Jobs :
           kind # "submit" \/ k # j => (Under(kind, k)' <=> Under(kind, k))
      /\ \A k \in Jobs : k # j => (Naming(k)' <=> Naming(k))
      /\ Naming(j)' <=> "name" = "name"
  BY <1>2, <1>3, SubmissionGoesOn
<1>5. state'[j] = "SUBMITTED" /\ \A k \in Jobs : k # j => state'[k] = state[k]
  BY <1>2, <1>3 DEF Become, Ledger, TypeOK, ClientTypeOK
<1>6. state[j] = "SUBMITTED_ASYNC"
  BY <1>2 DEF Pool, Submissions
<1>7. Submissions'
  BY <1>2, <1>3, <1>4, <1>5, LoopKept DEF Pool, Submissions
<1>8. \A k \in Elements(batch) \cup Elements(retry) : k \in Jobs
  BY ElementsFact DEF Ledger, TypeOK
<1>9. Ensuring'
  BY <1>3, <1>5, <1>8, LoopKept DEF Pool, Ensuring
<1>10. Fetching'
  BY <1>3, <1>4, <1>5, <1>6, <1>8, LoopKept DEF Pool, Fetching, Ledger, TypeOK
<1> QED
  BY <1>4, <1>7, <1>9, <1>10 DEF Pool

LEMMA NamePool ==
  ASSUME Ledger, Pool, NEW w \in Workers, Name(w, Idle), UNCHANGED loopVars
  PROVE  Pool'
<1>1. thread[w].at = "name"
  BY DEF Name
<1>2. PICK j \in Jobs : j = thread[w].job /\ Holds(w, "submit", j) /\ Under("submit", j)
  BY <1>1, Submitting
<1>3. /\ thread' = [thread EXCEPT ![w] = Idle]
      /\ UNCHANGED <<work, state, job_states, fetch_future>>
      /\ \A k \in Jobs : k # j => job_id'[k] = job_id[k] /\ submit_future'[k] = submit_future[k]
  BY <1>2 DEF Name, Ledger, TypeOK, ClientTypeOK
<1>4. /\ OneTask' /\ NoCallback'
      /\ \A kind \in {"submit", "fetch"}, k \in Jobs :
           kind # "submit" \/ k # j => (Under(kind, k)' <=> Under(kind, k))
      /\ \A k \in Jobs : k # j => (Naming(k)' <=> Naming(k))
      /\ ~Under("submit", j)'
  BY <1>2, <1>3, TaskEnds
<1>5. job_id[j] = "none" /\ j \in Elements(batch) /\ ~(j > processed)
  BY <1>2, JobsFact, FilesFact DEF Pool, Submissions, Ledger, Lists, TypeOK
<1>6. Submissions'
  BY <1>3, <1>4, <1>5, LoopKept DEF Pool, Submissions
<1>7. Ensuring'
  BY <1>3, LoopKept DEF Pool, Ensuring
<1>8. Fetching'
  BY <1>3, <1>4, <1>5, LoopKept DEF Pool, Fetching, Ledger, TypeOK
<1> QED
  BY <1>4, <1>6, <1>7, <1>8 DEF Pool

LEMMA SendRaisesPool ==
  ASSUME Ledger, Pool, NEW w \in Workers, SendRaises(w, Idle), UNCHANGED loopVars
  PROVE  Pool'
<1>1. thread[w].at = "submit"
  BY DEF SendRaises
<1>2. PICK j \in Jobs : j = thread[w].job /\ Holds(w, "submit", j) /\ Under("submit", j) /\ ~Naming(j)
  BY <1>1, Submitting
<1>3. /\ thread' = [thread EXCEPT ![w] = Idle] /\ state'[j] = "FAILED"
      /\ UNCHANGED <<work, job_states, job_id, fetch_future>>
      /\ \A k \in Jobs : k # j => state'[k] = state[k] /\ submit_future'[k] = submit_future[k]
  BY <1>2 DEF SendRaises, Become, Ledger, TypeOK, ClientTypeOK
<1>4. /\ OneTask' /\ NoCallback'
      /\ \A kind \in {"submit", "fetch"}, k \in Jobs :
           kind # "submit" \/ k # j => (Under(kind, k)' <=> Under(kind, k))
      /\ \A k \in Jobs : k # j => (Naming(k)' <=> Naming(k))
      /\ ~Under("submit", j)'
  BY <1>2, <1>3, TaskEnds
<1>5. state[j] = "SUBMITTED_ASYNC"
  BY <1>2 DEF Pool, Submissions
<1>6. Submissions'
  BY <1>3, <1>4, LoopKept DEF Pool, Submissions
<1>7. \A k \in Elements(batch) \cup Elements(retry) : k \in Jobs
  BY ElementsFact DEF Ledger, TypeOK
<1>8. Ensuring'
  BY <1>3, <1>7, LoopKept DEF Pool, Ensuring
<1>9. Fetching'
  BY <1>3, <1>4, <1>5, <1>7, LoopKept DEF Pool, Fetching, Ledger, TypeOK
<1> QED
  BY <1>4, <1>6, <1>8, <1>9 DEF Pool

LEMMA FetchPool ==
  ASSUME Ledger, Pool, NEW w \in Workers, FetchTask(w), UNCHANGED loopVars
  PROVE  Pool'
<1>1. PICK j \in Jobs : j = thread[w].job /\ thread[w] = At("fetch", j)
  BY ThreadValue DEF Ledger, TypeOK, FetchTask
<1>2. Holds(w, "fetch", j) /\ Under("fetch", j)
  BY <1>1, UnderFact
<1>3. PICK answer \in Answers :
        Fetch(j, answer) /\ fetch_future' = [fetch_future EXCEPT ![j] = answer]
  BY <1>1 DEF FetchTask
<1>4. /\ thread' = [thread EXCEPT ![w] = Idle]
      /\ UNCHANGED <<work, job_id, submit_future>>
  BY <1>1 DEF FetchTask
<1>5. /\ OneTask' /\ NoCallback'
      /\ \A kind \in {"submit", "fetch"}, k \in Jobs :
           kind # "fetch" \/ k # j => (Under(kind, k)' <=> Under(kind, k))
      /\ \A k \in Jobs : Naming(k)' <=> Naming(k)
      /\ ~Under("fetch", j)'
  BY <1>1, <1>2, <1>4, TaskEnds
<1>6. main = "loop" /\ j \in outstanding /\ fetch_future[j] = "pending"
  BY <1>1, <1>2 DEF Pool, Fetching
<1>7. j \in job_states /\ state[j] \in {"SUBMITTED", "FAILED"} /\ j \notin Elements(retry)
  BY <1>6 DEF Pool, Fetching, Ledger, Lists
<1>8. /\ \A k \in Jobs : k # j => /\ state'[k] = state[k] /\ (k \in job_states' <=> k \in job_states)
                                  /\ fetch_future'[k] = fetch_future[k]
      /\ fetch_future'[j] = answer
  BY <1>1, <1>3 DEF Fetch, FetchRefused, FetchAnswered, FetchTimesOut, Become, Ledger, TypeOK, ClientTypeOK
<1>9. \/ answer = "error" /\ state[j] = "FAILED" /\ UNCHANGED <<state, job_states>>
      \/ answer \in {"good", "failed"} /\ job_id[j] = "issued"
      \/ answer = "timeout" /\ state[j] = "SUBMITTED" /\ UNCHANGED <<state, job_states>>
  BY <1>1, <1>3, <1>7
     DEF Fetch, FetchRefused, FetchAnswered, FetchTimesOut, IsSubmitted, Ledger, TypeOK, ClientTypeOK
<1>10. \A k \in Elements(batch) \cup Elements(retry) \cup outstanding : k \in Jobs
  BY ElementsFact DEF Ledger, TypeOK
<1>11. Submissions'
  <2>1. state'[j] = state[j] \/ ~Under("submit", j)
    BY <1>1, <1>9 DEF Pool, Submissions
  <2> QED
    BY <1>1, <1>4, <1>5, <1>8, <2>1, LoopKept DEF Pool, Submissions
<1>12. Ensuring'
  BY <1>6, LoopKept DEF Ensuring, InBatch
<1>13. Fetching'
  BY <1>1, <1>4, <1>5, <1>6, <1>7, <1>8, <1>9, <1>10, LoopKept DEF Pool, Fetching
<1> QED
  BY <1>5, <1>11, <1>12, <1>13 DEF Pool

LEMMA KeptPool ==
  ASSUME Pool, UNCHANGED <<loopVars, jobVars, poolVars>>
  PROVE  Pool'
<1>1. /\ OneTask' /\ NoCallback'
      /\ \A what, j : Under(what, j)' <=> Under(what, j)
      /\ \A j : Naming(j)' <=> Naming(j)
  BY TasksKept DEF poolVars, Pool
<1> QED
  BY <1>1, PoolKept DEF poolVars

-----------------------------------------------------------------------------
(* The steps of the loop.                                                  *)

\* While the loop gathers or awaits a batch nothing is being fetched.
LEMMA NoneFetched ==
  ASSUME Ledger, Pool, outstanding = {}
  PROVE  \A j \in Jobs : ~Under("fetch", j)
  BY DEF Pool, Fetching

\* The jobs being submitted, and those the lists hold, are of files taken before.
LEMMA EarlierJobs ==
  ASSUME Ledger, Pool
  PROVE  /\ \A j \in Jobs : Under("submit", j) => j \in Elements(batch) /\ j <= processed
         /\ \A j \in Elements(batch) \cup Elements(retry) : j \in Jobs /\ j <= processed
         /\ \A j \in Elements(NewJobs) : j \in Jobs /\ j > processed /\ ~(j <= processed)
         /\ processed \in Nat /\ processed' \in Nat => \A j \in Jobs : j > processed' \/ j <= processed'
<1>1. \A j \in Elements(batch) \cup Elements(retry) : j \in Jobs /\ j <= processed
  BY ElementsFact DEF Ledger, TypeOK, Lists
<1>2. \A j \in Jobs : Under("submit", j) => j \in Elements(batch)
  BY DEF Pool, Submissions
<1>3. ASSUME NEW j \in Elements(NewJobs) PROVE j \in Jobs /\ j > processed /\ ~(j <= processed)
  <2>1. j \in Jobs /\ processed < j
    BY NewJobsFact DEF Ledger
  <2>2. j \in Nat /\ processed \in Nat
    BY <2>1, JobsFact, FilesFact DEF Ledger, TypeOK
  <2> QED
    BY <2>1, <2>2
<1>4. processed' \in Nat => \A j \in Jobs : j > processed' \/ j <= processed'
  <2> SUFFICES ASSUME processed' \in Nat, NEW j \in Jobs PROVE j > processed' \/ j <= processed'
    OBVIOUS
  <2>1. j \in Nat
    BY JobsFact
  <2> QED
    BY <2>1
<1> QED
  BY <1>1, <1>2, <1>3, <1>4

LEMMA GenerateBatchPool ==
  ASSUME Ledger, Pool, GenerateBatch
  PROVE  Pool'
<1>1. /\ NewJobs \in Seq(Jobs) /\ Distinct(NewJobs) /\ retry \in Seq(Jobs)
      /\ Elements(NewJobs) = {j \in Jobs : processed < j /\ j <= processed + NewCount}
  BY NewJobsFact DEF Ledger, TypeOK
<1>2. /\ main = "loop" /\ outstanding = {} /\ outstanding' = {} /\ main' = "ensure"
      /\ work' = work \o Tasks("submit", NewJobs)
      /\ UNCHANGED <<job_id, thread, fetch_future>>
      /\ batch' = retry \o NewJobs /\ unchecked' = batch' /\ retry' = <<>>
      /\ processed' = processed + NewCount
  BY DEF GenerateBatch, AtTop, AddAndSubmit
<1> PICK list \in Seq(Jobs) : list = NewJobs
  BY <1>1
<1>3. \A j \in Elements(list) : j \in Jobs /\ j > processed /\ ~(j <= processed) /\ ~Under("submit", j)
  BY EarlierJobs
<1>4. /\ OneTask' /\ NoCallback'
      /\ \A kind \in {"submit", "fetch"}, k \in Jobs :
           Under(kind, k)' => Under(kind, k) \/ (kind = "submit" /\ k \in Elements(list))
      /\ \A k \in Jobs : Naming(k)' <=> Naming(k)
  BY <1>1, <1>2, <1>3, AddTasks DEF Ledger, TypeOK, Pool
<1>5. \A j \in Jobs :
        /\ j \in Elements(list) =>
             state'[j] = "SUBMITTED_ASYNC" /\ submit_future'[j] = "pending" /\ j \in job_states'
        /\ j \notin Elements(list) =>
             state'[j] = state[j] /\ submit_future'[j] = submit_future[j]
        /\ j \in job_states => j \in job_states'
  BY DEF GenerateBatch, AddAndSubmit, Elements
<1>6. Elements(batch') = Elements(retry) \cup Elements(list) /\ Elements(retry') = {}
  BY <1>1, <1>2, ElementsConcat, ElementsNone
<1>7. /\ Elements(batch)' = Elements(batch') /\ Elements(retry)' = Elements(retry')
      /\ Elements(unchecked)' = Elements(batch')
  BY <1>2 DEF Elements
<1>8. InProgress = Elements(retry)
  BY <1>2 DEF InProgress
<1>9. \A j \in Jobs : j > processed' => j > processed
  <2> SUFFICES ASSUME NEW j \in Jobs, j > processed' PROVE j > processed
    OBVIOUS
  <2>1. j \in Nat /\ processed \in Nat /\ NewCount \in Nat
    BY JobsFact, NewCountFact DEF Ledger
  <2> QED
    BY <1>2, <2>1
<1>10. Submissions'
  <2> SUFFICES ASSUME NEW j \in Jobs
               PROVE  /\ Under("submit", j)' =>
                           /\ state'[j] = IF Naming(j)' THEN "SUBMITTED" ELSE "SUBMITTED_ASYNC"
                           /\ submit_future'[j] = "pending" /\ job_id'[j] = "none" /\ j \in Elements(batch)'
                      /\ j > processed' => job_id'[j] = "none"
    BY <1>2 DEF Submissions
  <2>1. j > processed' => job_id'[j] = "none"
    BY <1>2, <1>9 DEF Pool, Submissions
  <2>2. CASE j \in Elements(list)
    <3>1. ~Naming(j) /\ job_id[j] = "none"
      BY <1>3, <2>2, UnderFact DEF Pool, Submissions
    <3> QED
      BY <1>2, <1>4, <1>5, <1>6, <1>7, <2>1, <2>2, <3>1
  <2>3. CASE j \notin Elements(list)
    <3>1. Under("submit", j) =>
            /\ state[j] = IF Naming(j) THEN "SUBMITTED" ELSE "SUBMITTED_ASYNC"
            /\ submit_future[j] = "pending" /\ job_id[j] = "none" /\ j \in Elements(retry)
      BY <1>2, <1>8 DEF Pool, Submissions
    <3> QED
      BY <1>2, <1>4, <1>5, <1>6, <1>7, <2>1, <2>3, <3>1
  <2> QED
    BY <2>2, <2>3
<1>11. Ensuring'
  <2> SUFFICES ASSUME NEW j \in Elements(batch)'
               PROVE  /\ j \in job_states' /\ state'[j] \in {"SUBMITTED_ASYNC", "SUBMITTED", "FAILED"}
                      /\ j \in Elements(unchecked)'
    BY DEF Ensuring
  <2>1. CASE j \in Elements(list)
    BY <1>3, <1>5, <1>7, <2>1
  <2>2. CASE j \notin Elements(list)
    <3>1. j \in Elements(retry)
      BY <1>6, <1>7, <2>2
    <3>2. j \in Jobs /\ j \in job_states /\ state[j] = "SUBMITTED"
      BY <3>1, EarlierJobs DEF Pool, Fetching
    <3> QED
      BY <1>5, <1>7, <2>2, <3>2
  <2> QED
    BY <2>1, <2>2
<1>12. Fetching'
  BY <1>2, <1>4, <1>6, <1>7, NoneFetched DEF Fetching
<1> QED
  BY <1>4, <1>10, <1>11, <1>12 DEF Pool

LEMMA GenerateRaisesPool ==
  ASSUME Ledger, Pool, GenerateRaises
  PROVE  Pool'
<1>1. /\ main' = "raised" /\ outstanding = {} /\ outstanding' = {}
      /\ UNCHANGED <<job_id, work, thread, submit_future, fetch_future, batch, retry, processed>>
  BY DEF GenerateRaises, AtTop, poolVars
<1>2. \A j \in Jobs : /\ j \in job_states => j \in job_states'
                      /\ j \notin Elements(NewJobs) => state'[j] = state[j]
  BY DEF GenerateRaises, AddOnly, Elements
<1>3. /\ OneTask' /\ NoCallback'
      /\ \A what, j : Under(what, j)' <=> Under(what, j)
      /\ \A j : Naming(j)' <=> Naming(j)
  BY <1>1, TasksKept DEF Pool
<1>4. Elements(batch)' = Elements(batch) /\ Elements(retry)' = Elements(retry)
  BY <1>1 DEF Elements
<1>5. \A j \in Jobs : Under("submit", j) \/ j \in Elements(retry) => state'[j] = state[j]
  BY <1>2, EarlierJobs
<1>6. Submissions'
  BY <1>1, <1>3, <1>4, <1>5 DEF Pool, Submissions
<1>7. Ensuring'
  BY <1>1 DEF Ensuring, InBatch
<1>8. Fetching'
  BY <1>1, <1>2, <1>3, <1>4, <1>5, NoneFetched, EarlierJobs DEF Pool, Fetching
<1> QED
  BY <1>3, <1>6, <1>7, <1>8 DEF Pool

\* A step of the loop that leaves the client alone.
LEMMA MainPool ==
  ASSUME Ledger, Pool, UNCHANGED <<clientVars, processed, batch>>,
         Ensuring', Fetching',
         \A j \in Jobs : Under("submit", j) /\ main' \in {"loop", "returned"} => j \in InProgress'
  PROVE  Pool'
<1>1. /\ OneTask' /\ NoCallback'
      /\ \A what, j : Under(what, j)' <=> Under(what, j)
      /\ \A j : Naming(j)' <=> Naming(j)
  BY TasksKept DEF Pool, clientVars, poolVars
<1>2. Elements(batch)' = Elements(batch)
  BY DEF Elements
<1>3. Submissions'
  BY <1>1, <1>2 DEF Pool, Submissions, clientVars, jobVars, poolVars
<1> QED
  BY <1>1, <1>3 DEF Pool

\* What fetching needs of a step while there is nothing to fetch.
LEMMA FetchingKept ==
  ASSUME Ledger, Pool, outstanding = {}, outstanding' = {}, UNCHANGED <<clientVars, retry>>
  PROVE  Fetching'
<1>1. \A what, j : Under(what, j)' <=> Under(what, j)
  BY TasksKept DEF clientVars, poolVars
<1>2. Elements(retry)' = Elements(retry)
  BY DEF Elements
<1> QED
  BY <1>1, <1>2, NoneFetched DEF Pool, Fetching, clientVars, jobVars, poolVars

LEMMA CheckPool ==
  ASSUME Ledger, Pool, Check
  PROVE  Pool'
<1>1. InBatch /\ outstanding = {} /\ InBatch'
  BY DEF Ledger, Lists, Check, Checking, InBatch
<1>2. Elements(batch)' = Elements(batch) /\ Elements(unchecked)' = Elements(unchecked)
  BY DEF Elements, Check
<1>3. Ensuring'
  BY <1>1, <1>2 DEF Pool, Ensuring, Check, clientVars, jobVars
<1>4. Fetching'
  BY <1>1, FetchingKept DEF Check
<1> QED
  BY <1>3, <1>4, MainPool DEF Check

LEMMA RaisesPool ==
  ASSUME Ledger, Pool, CheckRaises \/ \E j \in Jobs : AwaitRaises(j)
  PROVE  Pool'
<1>1. /\ InBatch /\ outstanding = {} /\ outstanding' = {} /\ main' = "raised"
      /\ UNCHANGED <<clientVars, processed, batch, retry>>
  BY DEF Ledger, Lists, CheckRaises, AwaitRaises, Awaited, Checking, InBatch
<1>2. Ensuring'
  BY <1>1 DEF Ensuring, InBatch
<1>3. Fetching'
  BY <1>1, FetchingKept
<1> QED
  BY <1>1, <1>2, <1>3, MainPool

LEMMA CheckAgainPool ==
  ASSUME Ledger, Pool, CheckAgain
  PROVE  Pool'
<1>1. InBatch /\ outstanding = {} /\ unchecked # <<>> /\ unchecked \in Seq(Jobs)
  BY DEF Ledger, Lists, TypeOK, CheckAgain, InBatch
<1>2. /\ main' = "ensure" /\ outstanding' = {} /\ unchecked' = Tail(unchecked)
      /\ UNCHANGED <<clientVars, processed, batch, retry>>
  BY <1>1 DEF CheckAgain
<1>3. Elements(unchecked) = Elements(unchecked') \cup {Head(unchecked)}
  BY <1>1, <1>2, ElementsTail
<1>4. Elements(unchecked)' = Elements(unchecked') /\ Elements(batch)' = Elements(batch)
  BY <1>2 DEF Elements
<1>5. \A j : j \in Elements(unchecked) \cup awaiting /\ state[j] = "SUBMITTED_ASYNC"
             => j \in Elements(unchecked)' \cup awaiting'
  BY <1>3, <1>4 DEF CheckAgain
<1>6. Ensuring'
  BY <1>1, <1>2, <1>4, <1>5 DEF Pool, Ensuring, clientVars, jobVars
<1>7. Fetching'
  BY <1>1, <1>2, FetchingKept
<1> QED
  BY <1>2, <1>6, <1>7, MainPool

LEMMA AwaitPool ==
  ASSUME Ledger, Pool, NEW j \in Jobs, Await(j)
  PROVE  Pool'
<1>1. /\ InBatch /\ outstanding = {} /\ outstanding' = {} /\ retry = <<>> /\ retry' = <<>>
      /\ main = "ensure" /\ main' = "ensure" /\ submit_future[j] # "pending"
      /\ awaiting' = awaiting \ {j}
      /\ UNCHANGED <<job_states, job_id, work, thread, submit_future, fetch_future, processed,
                     batch, unchecked>>
  BY DEF Ledger, Lists, Await, Awaited, InBatch, poolVars
<1>2. state'[j] = "SUBMITTED" /\ \A k \in Jobs : k # j => state'[k] = state[k]
  BY DEF Await, Become, Ledger, TypeOK, ClientTypeOK
<1>3. /\ OneTask' /\ NoCallback'
      /\ \A what, k : Under(what, k)' <=> Under(what, k)
      /\ \A k : Naming(k)' <=> Naming(k)
  BY <1>1, TasksKept DEF Pool
<1>4. /\ Elements(batch)' = Elements(batch) /\ Elements(unchecked)' = Elements(unchecked)
      /\ Elements(retry)' = {} /\ \A k \in Elements(batch) : k \in Jobs
  BY <1>1, EarlierJobs DEF Elements
<1>5. ~Under("submit", j)
  BY <1>1 DEF Pool, Submissions
<1>6. Submissions'
  BY <1>1, <1>2, <1>3, <1>4, <1>5 DEF Pool, Submissions
<1>7. Ensuring'
  BY <1>1, <1>2, <1>4 DEF Pool, Ensuring, InBatch
<1>8. Fetching'
  BY <1>1, <1>3, <1>4, NoneFetched DEF Fetching
<1> QED
  BY <1>3, <1>6, <1>7, <1>8 DEF Pool

LEMMA LaunchPool ==
  ASSUME Ledger, Pool, Launch
  PROVE  Pool'
<1>1. /\ InBatch /\ outstanding = {} /\ retry = <<>> /\ retry' = <<>>
      /\ unchecked = <<>> /\ awaiting = {} /\ main' = "loop" /\ ~InBatch'
      /\ work' = work \o Tasks("fetch", batch) /\ outstanding' = Elements(batch)
      /\ UNCHANGED <<state, job_states, job_id, thread, submit_future, processed, batch>>
  BY DEF Ledger, Lists, Launch, InBatch, FetchAsync, jobVars
<1>2. batch \in Seq(Jobs) /\ Distinct(batch)
  BY DEF Ledger, TypeOK, Lists
<1>3. \A j \in Elements(batch) : j \in Jobs /\ ~Under("fetch", j)
  BY <1>1, NoneFetched, EarlierJobs
<1>4. /\ OneTask' /\ NoCallback'
      /\ \A kind \in {"submit", "fetch"}, k \in Jobs :
           Under(kind, k)' => Under(kind, k) \/ (kind = "fetch" /\ k \in Elements(batch))
      /\ \A k \in Jobs : Naming(k)' <=> Naming(k)
  BY <1>1, <1>2, <1>3, AddTasks DEF Ledger, TypeOK, Pool
<1>5. \A j \in Elements(batch) : fetch_future'[j] = "pending"
  BY <1>3 DEF Launch, FetchAsync, Elements
<1>6. Elements(batch)' = Elements(batch) /\ Elements(retry)' = {} /\ Elements(unchecked) = {}
  BY <1>1, ElementsNone DEF Elements
<1>7. InProgress' = Elements(batch)
  BY <1>1, <1>6 DEF InProgress
<1>8. Submissions'
  BY <1>1, <1>4, <1>6, <1>7 DEF Pool, Submissions
<1>9. Ensuring'
  BY <1>1 DEF Ensuring
<1>10. \A j \in Elements(batch) : j \in job_states /\ state[j] \in {"SUBMITTED", "FAILED"}
  BY <1>1, <1>6 DEF Pool, Ensuring
<1>11. Fetching'
  BY <1>1, <1>3, <1>4, <1>5, <1>6, <1>10, NoneFetched DEF Fetching
<1> QED
  BY <1>4, <1>8, <1>9, <1>11 DEF Pool

LEMMA ReturnPool ==
  ASSUME Ledger, Pool, Return
  PROVE  Pool'
<1>1. /\ outstanding = {} /\ outstanding' = {} /\ main = "loop" /\ main' = "returned"
      /\ UNCHANGED <<clientVars, processed, batch, retry>>
  BY DEF Return, AtTop
<1>2. Ensuring'
  BY <1>1 DEF Ensuring, InBatch
<1>3. Fetching'
  BY <1>1, FetchingKept
<1>4. InProgress' = InProgress
  BY <1>1 DEF InProgress, Elements
<1>5. \A j \in Jobs : Under("submit", j) => j \in InProgress'
  BY <1>1, <1>4 DEF Pool, Submissions
<1> QED
  BY <1>1, <1>2, <1>3, <1>5, MainPool

\* A fetch that is handled is over, and so is the submission, unless the job is
\* taken into the retries.
LEMMA HandledPool ==
  ASSUME Ledger, Pool, NEW j \in Jobs, HandleResult(j) \/ HandleFailure(j) \/ HandleTimeout(j)
  PROVE  Pool'
<1>1. /\ main = "loop" /\ main' = "loop" /\ j \in outstanding /\ outstanding' = outstanding \ {j}
      /\ UNCHANGED <<clientVars, processed, batch>> /\ fetch_future[j] \in Answers
  BY DEF HandleResult, HandleFailure, HandleTimeout, Handled, Answers
<1>2. \/ fetch_future[j] \in {"good", "failed", "error"} /\ Elements(retry)' = Elements(retry)
      \/ fetch_future[j] = "timeout" /\ Elements(retry)' = Elements(retry) \cup {j}
  <2>1. CASE HandleTimeout(j)
    <3>1. retry' = Append(retry, j) /\ retry \in Seq(Jobs)
      BY <2>1 DEF HandleTimeout, Ledger, TypeOK
    <3>2. Elements(retry') = Elements(retry) \cup {j}
      BY <1>1, <3>1, ElementsAppend DEF Ledger, Lists
    <3> QED
      BY <2>1, <3>2 DEF HandleTimeout, Elements
  <2>2. CASE HandleResult(j) \/ HandleFailure(j)
    BY <2>2 DEF HandleResult, HandleFailure, Elements
  <2> QED
    BY <2>1, <2>2
<1>3. \A what, k : Under(what, k)' <=> Under(what, k)
  BY <1>1, TasksKept DEF clientVars, poolVars
<1>4. ~Under("fetch", j)
  BY <1>1 DEF Pool, Fetching, Answers
<1>5. fetch_future[j] # "timeout" => ~Under("submit", j)
  BY <1>1 DEF Pool, Fetching, Submissions, Answers
<1>6. InProgress = outstanding \cup Elements(retry) /\ InProgress' = outstanding' \cup Elements(retry)'
  BY <1>1 DEF InProgress
<1>7. \A k \in Jobs : Under("submit", k) => k \in InProgress'
  BY <1>1, <1>2, <1>5, <1>6 DEF Pool, Submissions
<1>8. Ensuring'
  BY <1>1 DEF Ensuring, InBatch
<1>9. Fetching'
  BY <1>1, <1>2, <1>3, <1>4 DEF Pool, Fetching, clientVars, jobVars, poolVars
<1> QED
  BY <1>1, <1>7, <1>8, <1>9, MainPool

-----------------------------------------------------------------------------
LEMMA InitPool == Init => Pool
<1> SUFFICES ASSUME Init PROVE Pool
  OBVIOUS
<1>1. /\ work = <<>> /\ DOMAIN work = {} /\ \A w \in Workers : thread[w] = Idle /\ thread[w].at = "idle"
  BY EmptySeq DEF Init, ClientInit, Idle
<1>2. \A what, j : ~Under(what, j)
  BY <1>1, IdleHoldsNothing DEF Under
<1>3. OneTask /\ NoCallback
  BY <1>1, IdleHoldsNothing DEF OneTask, NoCallback
<1>4. Elements(retry) = {} /\ outstanding = {} /\ main = "loop" /\ \A j \in Jobs : job_id[j] = "none"
  BY ElementsNone DEF Init, ClientInit
<1>5. Submissions /\ Ensuring /\ Fetching
  BY <1>2, <1>4 DEF Submissions, Ensuring, Fetching, InBatch
<1> QED
  BY <1>3, <1>5 DEF Pool

LEMMA NextPool ==
  ASSUME IInv, [Next]_vars
  PROVE  Pool'
<1> USE DEF IInv
<1>1. CASE Main
  <2>1. CASE GenerateBatch
    BY <2>1, GenerateBatchPool
  <2>2. CASE GenerateRaises
    BY <2>2, GenerateRaisesPool
  <2>3. CASE Check
    BY <2>3, CheckPool
  <2>4. CASE CheckRaises \/ \E j \in Jobs : AwaitRaises(j)
    BY <2>4, RaisesPool
  <2>5. CASE CheckAgain
    BY <2>5, CheckAgainPool
  <2>6. CASE Launch
    BY <2>6, LaunchPool
  <2>7. CASE Return
    BY <2>7, ReturnPool
  <2>8. ASSUME NEW j \in Jobs, Await(j) PROVE Pool'
    BY <2>8, AwaitPool
  <2>9. ASSUME NEW j \in Jobs, HandleResult(j) \/ HandleFailure(j) \/ HandleTimeout(j) PROVE Pool'
    BY <2>9, HandledPool
  <2> QED
    BY <1>1, <2>1, <2>2, <2>3, <2>4, <2>5, <2>6, <2>7, <2>8, <2>9 DEF Main
<1>2. ASSUME NEW w \in Workers, Worker(w) PROVE Pool'
  BY <1>2, TakePool, SendPool, SendRaisesPool, MarkPool, NamePool, FetchPool DEF Worker
<1>3. CASE Service
  BY <1>3, KeptPool DEF Service, Process
<1>4. CASE UNCHANGED vars
  BY <1>4, KeptPool DEF vars, clientVars
<1> QED
  BY <1>1, <1>2, <1>3, <1>4 DEF Next

LEMMA Invariance == LoopSpec => []IInv
<1>1. Init => IInv
  BY InitLedger, InitPool DEF IInv
<1>2. IInv /\ [Next]_vars => IInv'
  BY NextLedger, NextPool DEF IInv
<1> QED
  BY <1>1, <1>2, PTL DEF LoopSpec

\* RetriesAreLive: a job whose fetch timed out is registered and submitted and has
\* no fetch left when the next batch takes it, and the pool never holds jobs of
\* more than one batch (create_and_process_jobs, _submit_job, _fetch_job_result).
THEOREM RetriesAreAlwaysLive == LoopSpec => []RetriesAreLive
<1>1. ASSUME IInv PROVE RetriesAreLive
  <2>1. \A j \in Elements(retry) : IsSubmitted(j)
    BY <1>1 DEF IInv, Pool, Fetching, IsSubmitted
  <2>2. \A j \in Jobs : Fetched(j) => Under("fetch", j)
    BY UnderFact DEF Fetched, Under, Queued
  <2>3. \A j \in Elements(retry) : ~Fetched(j)
    BY <1>1, <2>2, EarlierJobs DEF IInv, Ledger, Lists, Pool, Fetching
  <2>4. ASSUME NEW j \in Jobs, InPool(j) PROVE j \in Elements(batch)
    <3>1. CASE \E i \in DOMAIN work : work[i].job = j
      <4>1. PICK i \in DOMAIN work : work[i].job = j
        BY <3>1
      <4>5. work \in Seq(TaskType)
        BY <1>1 DEF IInv, Ledger, TypeOK, ClientTypeOK, TaskType
      <4>2. work[i] \in TaskType
        BY <4>1, <4>5, ElementOfSeq, LenProperties
      <4>3. PICK what \in {"submit", "fetch"} : work[i] = Task(what, j)
        BY <4>1, <4>2 DEF TaskType, Task
      <4>4. Under(what, j)
        BY <4>1, <4>3 DEF Under, Queued
      <4> QED
        BY <1>1, <4>4 DEF IInv, Pool, Submissions, Fetching, Ledger, Lists
    <3>2. CASE \E w \in Workers : thread[w].at # "idle" /\ thread[w].job = j
      <4>1. PICK w \in Workers : thread[w].at # "idle" /\ thread[w].job = j
        BY <3>2
      <4>2. thread[w] = At(thread[w].at, j) /\ thread[w] \in ThreadStates
        BY <1>1, <4>1, ThreadValue DEF IInv, Ledger, TypeOK, ClientTypeOK
      <4>3. thread[w].at \in {"submit", "mark", "name", "fetch"}
        BY <1>1, <4>1, <4>2 DEF ThreadStates, Idle, IInv, Pool, NoCallback
      <4>4. Under("submit", j) \/ Under("fetch", j)
        BY <4>2, <4>3, UnderFact
      <4> QED
        BY <1>1, <4>4 DEF IInv, Pool, Submissions, Fetching, Ledger, Lists
    <3> QED
      BY <2>4, <3>1, <3>2 DEF InPool
  <2>5. PoolWithinBatch
    <3> DEFINE P == {j \in Jobs : InPool(j)}
    <3>1. batch \in Seq(Jobs) /\ Distinct(batch) /\ Len(batch) \in Nat /\ Len(batch) <= BatchSize
      BY <1>1, ElementsFact DEF IInv, Ledger, TypeOK, Lists
    <3>2. Cardinality(Elements(batch)) = Len(batch) /\ IsFiniteSet(Elements(batch))
      BY <3>1, ElementsCount, ElementsFact, JobsFinite
    <3>3. P \subseteq Elements(batch)
      BY <2>4
    <3>4. Cardinality(P) <= Len(batch) /\ Cardinality(P) \in Nat
      BY <3>2, <3>3, FS_Subset, FS_CardinalityType
    <3> HIDE DEF P
    <3>5. Cardinality(P) <= BatchSize
      BY <3>1, <3>4, FilesFact
    <3> QED
      BY <3>5 DEF P, PoolWithinBatch
  <2> QED
    BY <2>1, <2>3, <2>5 DEF RetriesAreLive
<1> QED
  BY <1>1, Invariance, PTL
=============================================================================
