--------------------------- MODULE ServiceProofs ---------------------------
(***************************************************************************)
(* Proofs about the services at both ends of the pipeline and the calls of *)
(* the client, for any sizes. The REST service: that a conversion which is *)
(* completed has the results of all its files, each once (ConvertStatus),  *)
(* and that what fetch_job gives a client is true (ResponseChannel). The   *)
(* inference services: that the answers to the requests of one call come   *)
(* to the inputs they are of (NimInference) and that no box of a page is   *)
(* lost or shared (BoxFusion). The vector database: that every collection  *)
(* of an upload holds the rows of its own kind (MilvusUpload). The         *)
(* Ingestor interface: that each job of an ingest has the tasks asked for  *)
(* and one answer (IngestorCalls). The recursive functions of these        *)
(* modules are shown to have their values by induction over sets of        *)
(* numbers, which the least number of a set gives.                         *)
(***************************************************************************)
EXTENDS ConvertStatus, ResponseChannel, NimInference, BoxFusion, MilvusUpload,
        IngestorCalls, SequenceTheorems, FiniteSetTheorems,
        WellFoundedInduction, TLAPS

-----------------------------------------------------------------------------
(* Numbers and recursive functions of numbers.                             *)

LEMMA LeastNumber ==
  ASSUME NEW T, T \subseteq Nat, T # {}
  PROVE  \E x \in T : \A y \in T : x <= y
<1> DEFINE R == OpToRel(<, Nat)
<1>1. IsWellFoundedOn(R, Nat)
  BY NatLessThanWellFounded
<1> HIDE DEF R
<1>2. PICK x \in T : \A y \in T : ~ (<<y, x>> \in R)
  BY <1>1, WFMin
<1>3. \A y \in T : ~ (y < x)
  BY <1>2 DEF R, OpToRel
<1> QED
  BY <1>2, <1>3

LEMMA SetInduction ==
  ASSUME NEW S, 0 \in S, \A n \in Nat : n \in S => n + 1 \in S
  PROVE  \A n \in Nat : n \in S
<1> SUFFICES ASSUME Nat \ S # {} PROVE FALSE
  OBVIOUS
<1>1. PICK x \in Nat \ S : \A y \in Nat \ S : x <= y
  BY LeastNumber
<1>2. x # 0 /\ x - 1 \in Nat
  BY <1>1
<1>3. x - 1 \in S
  BY <1>1, <1>2
<1>4. x - 1 + 1 = x
  BY <1>1
<1> QED
  BY <1>1, <1>2, <1>3, <1>4

\* f is what a recursion over 0..n has for values.
Solves(f, base, rule, A, n) ==
  f \in [0..n -> A] /\ f[0] = base /\ \A k \in 1..n : f[k] = rule[k][f[k - 1]]
Steps(rule, A, n) == rule \in [1..n -> [A -> A]]

\* What a recursion over 0..n is given in steps, some function is.
LEMMA Recursion ==
  ASSUME NEW A, NEW base \in A, NEW n \in Nat, NEW rule, Steps(rule, A, n)
  PROVE  \E f : Solves(f, base, rule, A, n)
<1> USE DEF Steps
<1> DEFINE Solved(m) == \E f \in [0..m -> A] : f[0] = base /\ \A k \in 1..m : f[k] = rule[k][f[k - 1]]
           S == {m \in Nat : m <= n => Solved(m)}
<1>1. 0 \in S
  <2> DEFINE f == [k \in 0..0 |-> base]
  <2>1. f \in [0..0 -> A] /\ f[0] = base /\ \A k \in 1..0 : f[k] = rule[k][f[k - 1]]
    OBVIOUS
  <2> QED BY <2>1
<1>2. ASSUME NEW m \in Nat, m \in S PROVE m + 1 \in S
  <2> SUFFICES ASSUME m + 1 <= n PROVE Solved(m + 1)
    OBVIOUS
  <2>1. PICK f \in [0..m -> A] : f[0] = base /\ \A k \in 1..m : f[k] = rule[k][f[k - 1]]
    BY <1>2
  <2> DEFINE g == [k \in 0..(m + 1) |-> IF k = m + 1 THEN rule[m + 1][f[m]] ELSE f[k]]
  <2>2. m \in 0..m /\ m + 1 \in 1..n /\ 0 \in 0..m
    OBVIOUS
  <2>3. rule[m + 1][f[m]] \in A
    BY <2>1, <2>2
  <2>4. \A k \in 0..(m + 1) : k = m + 1 \/ k \in 0..m
    OBVIOUS
  <2>5. g \in [0..(m + 1) -> A]
    BY <2>1, <2>3, <2>4
  <2>6. \A k \in 0..m : k # m + 1 /\ k \in 0..(m + 1)
    OBVIOUS
  <2>7. g[m + 1] = rule[m + 1][f[m]] /\ \A k \in 0..m : g[k] = f[k]
    BY <2>6
  <2>8. \A k \in 1..(m + 1) : g[k] = rule[k][g[k - 1]]
    <3> SUFFICES ASSUME NEW k \in 1..(m + 1) PROVE g[k] = rule[k][g[k - 1]]
      OBVIOUS
    <3> HIDE DEF g
    <3>1. CASE k = m + 1
      <4>1. k - 1 = m
        BY <3>1
      <4> QED BY <3>1, <4>1, <2>2, <2>7
    <3>2. CASE k # m + 1
      <4>1. k \in 1..m /\ k - 1 \in 0..m /\ k \in 0..m
        BY <3>2
      <4> QED BY <4>1, <2>1, <2>7
    <3> QED BY <3>1, <3>2
  <2>9. g[0] = base
    BY <2>1, <2>2, <2>7
  <2> QED BY <2>5, <2>8, <2>9
<1> HIDE DEF S
<1>3. n \in S
  BY <1>1, <1>2, SetInduction
<1> QED BY <1>3 DEF S, Solves

-----------------------------------------------------------------------------
(* Flattened sequences.                                                    *)

\* flatten, as FlattenSeq uses it.
Flattening(f, seqs) ==
  f = [i \in 1..Len(seqs) |-> IF i = 1 THEN seqs[i] ELSE f[i - 1] \o seqs[i]]

LEMMA FlatteningExists ==
  ASSUME NEW T, NEW seqs \in Seq(Seq(T)), Len(seqs) # 0
  PROVE  \E f : Flattening(f, seqs) /\ \A i \in 1..Len(seqs) : f[i] \in Seq(T)
<1> DEFINE A == Seq(T)
<1>1. PICK n \in Nat : n = Len(seqs)
  BY LenProperties
<1>2. \A k \in 1..n : seqs[k] \in A
  BY <1>1, ElementOfSeq
<1> DEFINE rule == [k \in 1..n |-> [x \in A |-> IF k = 1 THEN seqs[k] ELSE x \o seqs[k]]]
<1>3. Steps(rule, A, n)
  <2> USE DEF Steps
  <2> SUFFICES ASSUME NEW k \in 1..n, NEW x \in A PROVE (IF k = 1 THEN seqs[k] ELSE x \o seqs[k]) \in A
    OBVIOUS
  <2> QED BY <1>2, ConcatProperties
<1>4. \A k \in 1..n, x \in A : rule[k][x] = IF k = 1 THEN seqs[k] ELSE x \o seqs[k]
  OBVIOUS
<1> DEFINE base == <<>>
<1>5. base \in A
  BY EmptySeq
<1> HIDE DEF rule, A, base
<1>6. PICK g : Solves(g, base, rule, A, n)
  BY <1>3, <1>5, Recursion
<1> DEFINE f == [i \in 1..n |-> g[i]]
           h == [i \in 1..n |-> IF i = 1 THEN seqs[i] ELSE f[i - 1] \o seqs[i]]
<1>7. ASSUME NEW k \in 1..n PROVE f[k] = h[k]
  <2>1. k - 1 \in 0..n /\ (k # 1 => k - 1 \in 1..n)
    OBVIOUS
  <2>2. g[k] = IF k = 1 THEN seqs[k] ELSE g[k - 1] \o seqs[k]
    <3>1. g[k - 1] \in A /\ g[k] = rule[k][g[k - 1]]
      BY <2>1, <1>6 DEF Solves
    <3> QED BY <3>1, <1>4
  <2> QED BY <2>1, <2>2
<1>8. f = h
  BY <1>7
<1>9. Flattening(f, seqs)
  BY <1>1, <1>8 DEF Flattening
<1>10. \A k \in 1..n : k \in 0..n
  OBVIOUS
<1>11. \A k \in 1..n : f[k] \in Seq(T)
  BY <1>6, <1>10 DEF Solves, A
<1> QED BY <1>1, <1>9, <1>11

\* Two flattenings agree on what their sequences have in common.
Begins(s, t) ==
  Len(s) \in Nat /\ Len(t) \in Nat /\ Len(s) <= Len(t) /\ \A i \in 1..Len(s) : s[i] = t[i]
Agree(f, g, s) == \A i \in 1..Len(s) : f[i] = g[i]

LEMMA FlatteningsAgree ==
  ASSUME NEW s, NEW t, NEW f, NEW g, Flattening(f, s), Flattening(g, t), Begins(s, t)
  PROVE  Agree(f, g, s)
<1> USE DEF Begins
<1> DEFINE S == {i \in Nat : i + 1 \in 1..Len(s) => f[i + 1] = g[i + 1]}
<1>1. 0 \in S
  <2> SUFFICES ASSUME 1 \in 1..Len(s) PROVE f[1] = g[1]
    OBVIOUS
  <2>1. 1 \in 1..Len(t)
    OBVIOUS
  <2> QED BY <2>1 DEF Flattening
<1>2. ASSUME NEW i \in Nat, i \in S PROVE i + 1 \in S
  <2> DEFINE k == i + 2
  <2> SUFFICES ASSUME k \in 1..Len(s) PROVE f[k] = g[k]
    OBVIOUS
  <2>1. k \in 1..Len(t) /\ k # 1 /\ k - 1 = i + 1 /\ i + 1 \in 1..Len(s)
    OBVIOUS
  <2>2. f[i + 1] = g[i + 1]
    BY <1>2, <2>1
  <2>3. f[k] = f[i + 1] \o s[k] /\ g[k] = g[i + 1] \o t[k]
    <3> HIDE DEF k
    <3> QED BY <2>1 DEF Flattening
  <2> QED BY <2>2, <2>3
<1> HIDE DEF S
<1>3. \A i \in Nat : i \in S
  BY <1>1, <1>2, SetInduction
<1>4. ASSUME NEW i \in 1..Len(s) PROVE f[i] = g[i]
  <2>1. i - 1 \in Nat /\ (i - 1) + 1 = i
    OBVIOUS
  <2>2. i - 1 \in S
    BY <1>3, <2>1
  <2> QED BY <2>1, <2>2 DEF S
<1> QED BY <1>4 DEF Agree

LEMMA FlattenIs ==
  ASSUME NEW T, NEW seqs \in Seq(Seq(T)), NEW f, Flattening(f, seqs), Len(seqs) # 0
  PROVE  FlattenSeq(seqs) = f[Len(seqs)]
<1> DEFINE g == CHOOSE g : Flattening(g, seqs)
<1>1. Flattening(g, seqs)
  OBVIOUS
<1>2. FlattenSeq(seqs) = g[Len(seqs)]
  BY DEF FlattenSeq, Flattening
<1> HIDE DEF g
<1>3. Len(seqs) \in Nat /\ Len(seqs) \in 1..Len(seqs)
  BY LenProperties
<1>4. Begins(seqs, seqs)
  BY <1>3 DEF Begins
<1>5. Agree(g, f, seqs)
  BY <1>1, <1>4, FlatteningsAgree
<1> QED BY <1>2, <1>3, <1>5 DEF Agree

LEMMA FlattenEmpty == FlattenSeq(<<>>) = <<>>
<1>1. Len(<<>>) = 0
  BY EmptySeq
<1> QED BY <1>1 DEF FlattenSeq

LEMMA FlattenAppend ==
  ASSUME NEW T, NEW seqs \in Seq(Seq(T)), NEW s \in Seq(T), FlattenSeq(seqs) \in Seq(T)
  PROVE  FlattenSeq(Append(seqs, s)) = FlattenSeq(seqs) \o s
<1> DEFINE more == Append(seqs, s)
<1>1. PICK n \in Nat : n = Len(seqs)
  BY LenProperties
<1>2. more \in Seq(Seq(T)) /\ Len(more) = n + 1 /\ (\A i \in 1..n : more[i] = seqs[i]) /\ more[n + 1] = s
  BY <1>1, AppendProperties
<1> HIDE DEF more
<1>3. PICK g : Flattening(g, more)
  BY <1>2, FlatteningExists
<1>4. FlattenSeq(more) = g[n + 1]
  BY <1>2, <1>3, FlattenIs
<1>5. CASE n = 0
  <2>1. seqs = <<>>
    BY <1>1, <1>5, EmptySeq
  <2>2. FlattenSeq(seqs) = <<>>
    BY <2>1, FlattenEmpty
  <2>3. g[1] = s
    BY <1>2, <1>3, <1>5 DEF Flattening
  <2>4. <<>> \o s = s
    OBVIOUS
  <2> QED BY <2>2, <2>3, <2>4, <1>4, <1>5 DEF more
<1>6. CASE n # 0
  <2>1. PICK f : Flattening(f, seqs)
    BY <1>1, <1>6, FlatteningExists
  <2>2. FlattenSeq(seqs) = f[n]
    BY <2>1, <1>1, <1>6, FlattenIs
  <2>3. n \in 1..n /\ n + 1 \in 1..(n + 1) /\ n + 1 # 1 /\ (n + 1) - 1 = n
    BY <1>6
  <2>4. f[n] = g[n]
    <3>1. Begins(seqs, more)
      BY <1>1, <1>2 DEF Begins
    <3>2. Agree(f, g, seqs)
      BY <3>1, <2>1, <1>3, FlatteningsAgree
    <3> QED BY <3>2, <2>3, <1>1 DEF Agree
  <2>5. g[n + 1] = g[n] \o s
    BY <2>3, <1>2, <1>3 DEF Flattening
  <2> QED BY <2>2, <2>4, <2>5, <1>4 DEF more
<1> QED BY <1>5, <1>6

LEMMA FlattenTyped ==
  ASSUME NEW T, NEW seqs \in Seq(Seq(T))
  PROVE  FlattenSeq(seqs) \in Seq(T)
<1>1. PICK n \in Nat : n = Len(seqs)
  BY LenProperties
<1>2. CASE n = 0
  <2>1. seqs = <<>>
    BY <1>1, <1>2, EmptySeq
  <2>2. <<>> \in Seq(T)
    OBVIOUS
  <2> QED BY <2>1, <2>2, FlattenEmpty
<1>3. CASE n # 0
  <2>1. Len(seqs) # 0
    BY <1>1, <1>3
  <2>2. PICK f : Flattening(f, seqs) /\ \A i \in 1..Len(seqs) : f[i] \in Seq(T)
    BY <2>1, FlatteningExists
  <2>3. FlattenSeq(seqs) = f[Len(seqs)]
    BY <2>1, <2>2, FlattenIs
  <2>4. Len(seqs) \in 1..Len(seqs)
    BY <1>1, <1>3
  <2> QED BY <2>2, <2>3, <2>4
<1> QED BY <1>2, <1>3

-----------------------------------------------------------------------------
(* Places counted and sorted.                                              *)

LEMMA CountToN ==
  ASSUME NEW n \in Nat
  PROVE  IsFiniteSet(1..n) /\ Cardinality(1..n) = n
<1>1. 1 \in Int /\ n \in Int
  OBVIOUS
<1> QED BY <1>1, FS_Interval

\* As many numbers below n have a place as there are places for them.
LEMMA EveryRankIsTaken ==
  ASSUME NEW n \in Nat, NEW f \in [1..n -> 0..(n - 1)],
         \A i \in 1..n, k \in 1..n : f[i] = f[k] => i = k
  PROVE  \A m \in 0..(n - 1) : \E i \in 1..n : f[i] = m
<1>1. IsFiniteSet(1..n) /\ Cardinality(1..n) = n
  BY CountToN
<1>2. IsFiniteSet(0..(n - 1)) /\ Cardinality(0..(n - 1)) = n
  <2>1. 0 \in Int /\ n - 1 \in Int
    OBVIOUS
  <2>2. IsFiniteSet(0..(n - 1)) /\ Cardinality(0..(n - 1)) = IF 0 > n - 1 THEN 0 ELSE (n - 1) - 0 + 1
    BY <2>1, FS_Interval
  <2>3. (IF 0 > n - 1 THEN 0 ELSE (n - 1) - 0 + 1) = n
    OBVIOUS
  <2> QED BY <2>2, <2>3
<1> DEFINE S == 1..n
           T == 0..(n - 1)
<1>3. f \in Injection(S, T)
  BY DEF Injection, IsInjective
<1>4. IsFiniteSet(T) /\ Cardinality(S) = Cardinality(T)
  BY <1>1, <1>2
<1> HIDE DEF S, T
<1>5. f \in Surjection(S, T)
  BY <1>3, <1>4, FS_Injection
<1> QED BY <1>5 DEF Surjection, S, T

\* The places that come before i when places are sorted by their keys, those of
\* equal keys as they stand.
Earlier(key, i) == {k \in DOMAIN key : key[k] < key[i] \/ (key[k] = key[i] /\ k < i)}

LEMMA RankFact ==
  ASSUME NEW n \in Nat, NEW key \in [1..n -> Nat]
  PROVE  \A m \in 1..n : \E i \in 1..n : Cardinality(Earlier(key, i)) = m - 1
<1> DEFINE rank == [i \in 1..n |-> Cardinality(Earlier(key, i))]
<1>1. IsFiniteSet(1..n) /\ Cardinality(1..n) = n
  BY CountToN
<1>2. ASSUME NEW i \in 1..n
      PROVE  IsFiniteSet(Earlier(key, i)) /\ Cardinality(Earlier(key, i)) \in 0..(n - 1)
  <2>1. Earlier(key, i) \subseteq 1..n /\ i \notin Earlier(key, i)
    BY DEF Earlier
  <2>2. IsFiniteSet(Earlier(key, i)) /\ Cardinality(Earlier(key, i)) <= n
    BY <2>1, <1>1, FS_Subset
  <2>3. Cardinality(Earlier(key, i)) # n
    BY <2>1, <1>1, FS_Subset
  <2>4. Cardinality(Earlier(key, i)) \in Nat
    BY <2>2, FS_CardinalityType
  <2> QED BY <2>2, <2>3, <2>4
<1>3. ASSUME NEW i \in 1..n, NEW k \in 1..n, i \in Earlier(key, k)
      PROVE  Cardinality(Earlier(key, i)) # Cardinality(Earlier(key, k))
  <2>1. Earlier(key, i) \subseteq Earlier(key, k)
    BY <1>3 DEF Earlier
  <2>2. i \notin Earlier(key, i)
    BY DEF Earlier
  <2> QED BY <2>1, <2>2, <1>2, <1>3, FS_Subset
<1>4. \A i \in 1..n, k \in 1..n : rank[i] = rank[k] => i = k
  <2> SUFFICES ASSUME NEW i \in 1..n, NEW k \in 1..n, i # k PROVE rank[i] # rank[k]
    OBVIOUS
  <2>1. i \in Earlier(key, k) \/ k \in Earlier(key, i)
    BY DEF Earlier
  <2> QED BY <2>1, <1>3
<1>5. rank \in [1..n -> 0..(n - 1)]
  BY <1>2
<1>6. \A i \in 1..n : rank[i] = Cardinality(Earlier(key, i))
  OBVIOUS
<1> HIDE DEF rank
<1>7. \A m \in 0..(n - 1) : \E i \in 1..n : rank[i] = m
  BY <1>4, <1>5, EveryRankIsTaken
<1>8. \A m \in 1..n : m - 1 \in 0..(n - 1)
  OBVIOUS
<1> QED BY <1>6, <1>7, <1>8

-----------------------------------------------------------------------------
(* ConvertStatus: the answer of /v1/status.                                *)

Pushes == Files \X (Nat \ {0})
JobType == [filename : Files, status : {"in_progress", "success"},
            result : Pushes \cup {NoPush}, content : {"", "text"}]
Lists == {<<>>} \cup [Files -> JobType]

ConvertTypeOK ==
  /\ bad \in Files \cup {0} /\ broken \in SUBSET Files
  /\ converting \in {"submitting", "caching", "done", "error"}
  /\ file \in Nat /\ pushes \in [Files -> Nat]
  /\ submitted \in SUBSET Pushes /\ results \in Seq(Pushes)
  /\ cache \in [set : BOOLEAN, jobs : Lists]
  /\ poll \in [Pollers -> {Away} \cup [at : {"fetching"}, jobs : Lists, next : Nat \ {0}]]
  /\ upset \in BOOLEAN
  /\ converting = "submitting" => file \in Files

\* The results that no handler has taken yet: of pushes that are still to be made,
\* that are under way, and in the Redis list.
Ahead == {push \in Pushes : push[2] > pushes[push[1]]}
Queued == {results[i] : i \in DOMAIN results}
Fresh == Ahead \cup submitted \cup Queued

\* No result is twice in what a list has, and a job is a success by its result.
Sound(jobs, fresh) ==
  /\ \A i \in DOMAIN jobs : jobs[i].status = "success" <=> jobs[i].result # NoPush
  /\ NoneTwice(jobs)
  /\ ResultsIn(jobs) \cap fresh = {}

Distinct(s) == \A i, k \in DOMAIN s : s[i] = s[k] => i = k

\* A push is in one of the fresh places, once, or in lists.
Separate ==
  /\ submitted \cap (Ahead \cup Queued) = {} /\ Ahead \cap Queued = {}
  /\ Distinct(results)
  /\ Sound(cache.jobs, Fresh)
  /\ \A p \in Pollers : poll[p].at = "fetching" => Sound(poll[p].jobs, Fresh)

\* The answer, once it is given.
RepliesTrue ==
  reply.status = "completed" => reply.jobs = <<>> \/ AllResults(reply.jobs)

\* As long as nothing upsets the conversion, one handler runs at a time, and
\* what it holds is what the cache had and more.
Alone ==
  ~upset =>
    /\ converting # "error"
    /\ converting # "done" => cache = NoCache /\ \A p \in Pollers : poll[p] = Away
    /\ \A p \in Pollers :
         poll[p] # Away => /\ ResultsIn(cache.jobs) \subseteq ResultsIn(poll[p].jobs)
                           /\ \A q \in Pollers : q # p => poll[q] = Away

\* Where a result is, in one word.
Found(push) == \/ push \in Fresh \/ push \in ResultsIn(cache.jobs)
               \/ \E p \in Pollers : poll[p] # Away /\ push \in ResultsIn(poll[p].jobs)
Kept == ~upset => \A push \in Pushes : Found(push)

ConvertInv == ConvertTypeOK /\ Separate /\ RepliesTrue /\ Alone /\ Kept

-----------------------------------------------------------------------------
(* Lists of jobs and the Redis list.                                       *)

LEMMA SomeFiles == \E n \in Nat : n # 0 /\ Files = 1..n
<1>1. Cardinality(Files) \in Nat
  BY ConvertAssumption, FS_CardinalityType
<1>2. Cardinality(Files) # 0
  BY ConvertAssumption, FS_EmptySet
<1> QED BY <1>1, <1>2, ConvertAssumption

LEMMA NoPushIsNone == NoPush \notin Pushes
  BY SomeFiles DEF NoPush, Pushes

LEMMA JobStarts ==
  ASSUME NEW f \in Files
  PROVE  Processing(f) \in JobType /\ Processing(f).status = "in_progress" /\ Processing(f).result = NoPush
  BY DEF Processing, JobType

LEMMA JobHasResult == ASSUME NEW j \in JobType PROVE j.result \in Pushes \cup {NoPush}
  BY DEF JobType

LEMMA JobIsFetched ==
  ASSUME NEW j \in JobType, NEW push \in Pushes
  PROVE  /\ Fetched(j, push) \in JobType /\ Fetched(j, push).status = "success"
         /\ Fetched(j, push).result = push
<1>1. blob(push) \in {"", "text"}
  BY DEF blob
<1> QED BY <1>1 DEF Fetched, JobType

LEMMA ListsAreSeqs == ASSUME NEW jobs \in Lists PROVE jobs = <<>> \/ (DOMAIN jobs = Files /\ Len(jobs) \in Files)
<1>1. PICK n \in Nat : n # 0 /\ Files = 1..n
  BY SomeFiles
<1>2. CASE jobs \in [Files -> JobType]
  <2>1. jobs \in Seq(JobType)
    BY <1>1, <1>2
  <2>2. Len(jobs) = n
    BY <1>1, <1>2, <2>1
  <2> QED BY <1>1, <1>2, <2>2
<1> QED BY <1>2 DEF Lists

LEMMA EmptyList == ASSUME NEW S PROVE Sound(<<>>, S) /\ ResultsIn(<<>>) = {} /\ <<>> \in Lists
  BY DEF Sound, NoneTwice, ResultsIn, Lists

LEMMA SoundOfLess == ASSUME NEW jobs, NEW S, NEW T, Sound(jobs, S), T \subseteq S PROVE Sound(jobs, T)
  BY DEF Sound

\* A full list without results, as /convert caches it.
LEMMA NewList ==
  ASSUME NEW S, S \subseteq Pushes
  PROVE  /\ [i \in Files |-> Processing(i)] \in Lists
         /\ Sound([i \in Files |-> Processing(i)], S)
         /\ ResultsIn([i \in Files |-> Processing(i)]) = {}
<1> DEFINE jobs == [i \in Files |-> Processing(i)]
<1>1. \A i \in Files : Processing(i) \in JobType
  BY JobStarts
<1>2. DOMAIN jobs = Files /\ \A i \in Files : jobs[i].status = "in_progress" /\ jobs[i].result = NoPush
  BY JobStarts
<1>3. jobs \in Lists
  BY <1>1 DEF Lists
<1> HIDE DEF jobs
<1>4. ResultsIn(jobs) = {}
  BY <1>2 DEF ResultsIn
<1>5. NoneTwice(jobs)
  BY <1>2 DEF NoneTwice
<1>6. Sound(jobs, S)
  BY <1>2, <1>4, <1>5 DEF Sound
<1> QED BY <1>3, <1>4, <1>6 DEF jobs

\* A fresh result goes into the place of a job in progress.
LEMMA OneMoreResult ==
  ASSUME NEW S, NEW T, NEW jobs \in [Files -> JobType], Sound(jobs, S),
         NEW f \in S, f \in Pushes, T \subseteq S \ {f},
         NEW i \in Files, jobs[i].status = "in_progress",
         NEW more \in [Files -> JobType], \A k \in Files : k # i => more[k] = jobs[k],
         more[i].status = "success", more[i].result = f
  PROVE  Sound(more, T) /\ ResultsIn(more) = ResultsIn(jobs) \cup {f}
<1>1. f # NoPush
  BY NoPushIsNone
<1>2. jobs[i].result = NoPush
  BY DEF Sound
<1>3. \A k \in Files : jobs[k].result # f
  BY <1>1 DEF Sound, ResultsIn
<1>4. ResultsIn(more) = ResultsIn(jobs) \cup {f}
  <2>1. \A r \in ResultsIn(more) : r \in ResultsIn(jobs) \cup {f}
    BY DEF ResultsIn
  <2>2. \A r \in ResultsIn(jobs) : r \in ResultsIn(more)
    BY <1>2 DEF ResultsIn
  <2>3. f \in ResultsIn(more)
    BY <1>1 DEF ResultsIn
  <2> QED BY <2>1, <2>2, <2>3
<1>5. NoneTwice(more)
  <2> SUFFICES ASSUME NEW k \in Files, NEW l \in Files, k # l
               PROVE  more[k].result # more[l].result \/ more[k].result = NoPush
    BY DEF NoneTwice
  <2>1. CASE k = i
    BY <2>1, <1>3
  <2>2. CASE l = i
    BY <2>2, <1>3
  <2>3. CASE k # i /\ l # i
    BY <2>3 DEF Sound, NoneTwice
  <2> QED BY <2>1, <2>2, <2>3
<1>6. \A k \in Files : more[k].status = "success" <=> more[k].result # NoPush
  <2> SUFFICES ASSUME NEW k \in Files PROVE more[k].status = "success" <=> more[k].result # NoPush
    OBVIOUS
  <2>1. CASE k = i
    BY <2>1, <1>1
  <2>2. CASE k # i
    BY <2>2 DEF Sound
  <2> QED BY <2>1, <2>2
<1>7. ResultsIn(more) \cap T = {}
  BY <1>4 DEF Sound
<1> QED BY <1>4, <1>5, <1>6, <1>7 DEF Sound

\* As many results of different files as there are files are those of all files.
LEMMA AllEnded ==
  ASSUME ConvertTypeOK, NEW jobs \in Lists, Sound(jobs, Fresh), Ended(jobs)
  PROVE  jobs = <<>> \/ AllResults(jobs)
<1> SUFFICES ASSUME jobs \in [Files -> JobType] PROVE AllResults(jobs)
  BY DEF Lists
<1> DEFINE g == [i \in Files |-> jobs[i].result[1]]
           T == {push[1] : push \in ResultsIn(jobs)}
<1>1. \A i \in Files : jobs[i].result \in Pushes /\ jobs[i].result # NoPush
  <2> SUFFICES ASSUME NEW i \in Files PROVE jobs[i].result \in Pushes /\ jobs[i].result # NoPush
    OBVIOUS
  <2>1. jobs[i].status = "success" /\ DOMAIN jobs = Files
    BY DEF Ended
  <2>2. jobs[i].result # NoPush
    BY <2>1 DEF Sound
  <2>3. jobs[i] \in JobType
    OBVIOUS
  <2>4. jobs[i].result \in Pushes \cup {NoPush}
    BY <2>3, JobHasResult
  <2> QED BY <2>2, <2>4
<1>2. ResultsIn(jobs) = {jobs[i].result : i \in Files}
  BY <1>1 DEF ResultsIn
<1>3. ASSUME NEW push \in ResultsIn(jobs)
      PROVE  /\ push \in Pushes /\ push = <<push[1], push[2]>> /\ push[1] \in Files
             /\ push[2] \in 1 .. pushes[push[1]] /\ pushes[push[1]] \in Nat
  <2>1. push \in Pushes /\ push \notin Ahead
    BY <1>1, <1>2 DEF Sound, Fresh
  <2>2. push = <<push[1], push[2]>> /\ push[1] \in Files /\ push[2] \in Nat \ {0}
    BY <2>1 DEF Pushes
  <2>3. pushes[push[1]] \in Nat /\ ~(push[2] > pushes[push[1]])
    BY <2>1, <2>2 DEF ConvertTypeOK, Ahead
  <2> QED BY <2>1, <2>2, <2>3
<1>4. ResultsIn(jobs) \subseteq UNION {Pushed(f) : f \in Files}
  <2> SUFFICES ASSUME NEW push \in ResultsIn(jobs) PROVE push \in Pushed(push[1]) /\ push[1] \in Files
    BY <1>3
  <2> QED BY <1>3 DEF Pushed
<1>5. ASSUME \A f \in Files : pushes[f] <= 1 PROVE T = Files
  <2>1. \A push \in ResultsIn(jobs) : push = <<push[1], 1>> /\ push[1] \in Files
    <3> SUFFICES ASSUME NEW push \in ResultsIn(jobs) PROVE push[2] = 1
      BY <1>3
    <3>1. pushes[push[1]] <= 1
      BY <1>3, <1>5
    <3> QED BY <3>1, <1>3
  <2>2. T = {g[i] : i \in Files} /\ T \subseteq Files
    BY <1>2, <2>1
  <2>3. g \in Injection(Files, T)
    <3>1. g \in [Files -> T]
      BY <2>2
    <3>2. ASSUME NEW i \in Files, NEW k \in Files, g[i] = g[k] PROVE i = k
      <4>1. jobs[i].result = <<g[i], 1>> /\ jobs[k].result = <<g[k], 1>>
        BY <1>2, <2>1
      <4>2. jobs[i].result = jobs[k].result
        BY <4>1, <3>2
      <4> QED BY <4>2, <1>1 DEF Sound, NoneTwice
    <3> HIDE DEF g, T
    <3> QED BY <3>1, <3>2 DEF Injection, IsInjective
  <2>4. g \in Surjection(Files, T)
    BY <2>2 DEF Surjection
  <2> HIDE DEF g, T
  <2>5. Cardinality(T) = Cardinality(Files)
    BY <2>3, <2>4, ConvertAssumption, FS_Surjection
  <2> QED BY <2>2, <2>5, ConvertAssumption, FS_Subset
<1> QED BY <1>4, <1>5 DEF AllResults, Sound

\* A list that holds all results does so after another push, too.
LEMMA StillAll ==
  ASSUME ConvertTypeOK, ConvertTypeOK', NEW jobs, AllResults(jobs),
         \A f \in Files : pushes[f] <= pushes'[f]
  PROVE  AllResults(jobs)'
<1>1. ASSUME NEW f \in Files PROVE pushes[f] \in Nat /\ pushes'[f] \in Nat
  BY DEF ConvertTypeOK
<1>2. ASSUME NEW f \in Files PROVE Pushed(f) \subseteq Pushed(f)'
  BY <1>1 DEF Pushed
<1>3. (\A f \in Files : pushes'[f] <= 1) => \A f \in Files : pushes[f] <= 1
  BY <1>1
<1>4. ResultsIn(jobs) \subseteq UNION {Pushed(f)' : f \in Files}
  BY <1>2 DEF AllResults
<1> QED BY <1>3, <1>4 DEF AllResults

LEMMA PushedLast ==
  ASSUME NEW s \in Seq(Pushes), NEW f \in Pushes, Distinct(s), f \notin {s[i] : i \in DOMAIN s}
  PROVE  /\ Append(s, f) \in Seq(Pushes) /\ Distinct(Append(s, f))
         /\ {Append(s, f)[i] : i \in DOMAIN Append(s, f)} = {s[i] : i \in DOMAIN s} \cup {f}
<1> DEFINE t == Append(s, f)
<1>1. PICK n \in Nat : n = Len(s)
  BY LenProperties
<1>2. t \in Seq(Pushes) /\ Len(t) = n + 1 /\ (\A i \in 1..n : t[i] = s[i]) /\ t[n + 1] = f
  BY <1>1, AppendProperties
<1>3. DOMAIN s = 1..n /\ DOMAIN t = 1..(n + 1)
  BY <1>1, <1>2, LenProperties
<1> HIDE DEF t
<1>4. \A i \in 1..(n + 1) : i \in 1..n \/ i = n + 1
  OBVIOUS
<1>5. \A i \in 1..n : i \in 1..(n + 1) /\ i # n + 1
  OBVIOUS
<1>6. n + 1 \in 1..(n + 1)
  OBVIOUS
<1>7. Distinct(t)
  BY <1>2, <1>3, <1>4, <1>5 DEF Distinct
<1>8. {t[i] : i \in DOMAIN t} = {s[i] : i \in DOMAIN s} \cup {f}
  BY <1>2, <1>3, <1>4, <1>5, <1>6
<1> QED BY <1>2, <1>7, <1>8 DEF t

LEMMA PoppedFirst ==
  ASSUME NEW s \in Seq(Pushes), s # <<>>, Distinct(s)
  PROVE  /\ Head(s) \in Pushes /\ Head(s) \in {s[i] : i \in DOMAIN s}
         /\ Tail(s) \in Seq(Pushes) /\ Distinct(Tail(s))
         /\ {Tail(s)[i] : i \in DOMAIN Tail(s)} = {s[i] : i \in DOMAIN s} \ {Head(s)}
<1> DEFINE t == Tail(s)
<1>1. PICK n \in Nat : n = Len(s)
  BY LenProperties
<1>2. n # 0
  BY <1>1, EmptySeq
<1>3. Head(s) \in Pushes /\ t \in Seq(Pushes) /\ Len(t) = n - 1 /\ \A i \in 1..(n - 1) : t[i] = s[i + 1]
  BY <1>1, HeadTailProperties
<1>4. DOMAIN s = 1..n /\ DOMAIN t = 1..(n - 1)
  BY <1>1, <1>3, LenProperties
<1>5. Head(s) = s[1] /\ 1 \in 1..n
  BY <1>2
<1> HIDE DEF t
<1>6. \A i \in 1..(n - 1) : i + 1 \in 1..n /\ i + 1 # 1
  OBVIOUS
<1>7. \A i \in 1..n : i # 1 => i - 1 \in 1..(n - 1) /\ (i - 1) + 1 = i
  OBVIOUS
<1>8. \A i, k \in 1..(n - 1) : i + 1 = k + 1 => i = k
  OBVIOUS
<1>9. Distinct(t)
  <2> SUFFICES ASSUME NEW i \in 1..(n - 1), NEW k \in 1..(n - 1), t[i] = t[k] PROVE i = k
    BY <1>4 DEF Distinct
  <2>1. s[i + 1] = s[k + 1]
    BY <1>3
  <2>2. i + 1 = k + 1
    BY <2>1, <1>4, <1>6 DEF Distinct
  <2> QED BY <2>2, <1>8
<1>10. \A f \in {t[i] : i \in DOMAIN t} : f \in {s[i] : i \in DOMAIN s} /\ f # s[1]
  <2> SUFFICES ASSUME NEW i \in 1..(n - 1) PROVE t[i] \in {s[k] : k \in DOMAIN s} /\ t[i] # s[1]
    BY <1>4
  <2>1. t[i] = s[i + 1]
    BY <1>3
  <2> QED BY <2>1, <1>4, <1>5, <1>6 DEF Distinct
<1>11. \A f \in {s[i] : i \in DOMAIN s} : f # s[1] => f \in {t[i] : i \in DOMAIN t}
  <2> SUFFICES ASSUME NEW i \in 1..n, s[i] # s[1] PROVE \E k \in DOMAIN t : t[k] = s[i]
    BY <1>4
  <2>1. i - 1 \in 1..(n - 1) /\ (i - 1) + 1 = i
    BY <1>7
  <2>2. t[i - 1] = s[i]
    BY <2>1, <1>3
  <2> QED BY <2>1, <2>2, <1>4
<1>12. {t[i] : i \in DOMAIN t} = {s[i] : i \in DOMAIN s} \ {s[1]}
  BY <1>10, <1>11
<1>13. Head(s) \in {s[i] : i \in DOMAIN s}
  BY <1>4, <1>5
<1> QED BY <1>3, <1>5, <1>9, <1>12, <1>13 DEF t

-----------------------------------------------------------------------------
(* What is fresh, and the invariant of the steps that leave all else alone. *)

LEMMA FreshArePushes == ConvertTypeOK => Fresh \subseteq Pushes
<1> SUFFICES ASSUME ConvertTypeOK PROVE Fresh \subseteq Pushes
  OBVIOUS
<1>1. Queued \subseteq Pushes
  BY ElementOfSeq, LenProperties DEF ConvertTypeOK, Queued
<1> QED BY <1>1 DEF ConvertTypeOK, Fresh, Ahead

LEMMA InitConvert == ConvertInit => ConvertInv
<1> SUFFICES ASSUME ConvertInit PROVE ConvertInv
  OBVIOUS
<1>1. PICK n \in Nat : n # 0 /\ Files = 1..n
  BY SomeFiles
<1>2. results = <<>> /\ submitted = {} /\ converting = "submitting" /\ file = 1 /\ cache = NoCache
      /\ upset = FALSE /\ \A p \in Pollers : poll[p] = Away
  BY DEF ConvertInit
<1>3. ConvertTypeOK
  <2>1. <<>> \in Seq(Pushes) /\ <<>> \in Lists /\ 1 \in Files
    BY <1>1, EmptyList, EmptySeq
  <2> QED BY <2>1 DEF ConvertInit, ConvertTypeOK, NoCache
<1>4. Fresh = Pushes /\ Queued = {} /\ Ahead = Pushes
  <2>1. Queued = {}
    BY <1>2 DEF Queued
  <2>2. \A f \in Files : pushes[f] = 0
    BY DEF ConvertInit
  <2>3. Ahead = Pushes
    BY <2>2 DEF Ahead, Pushes
  <2> QED BY <2>1, <2>3, <1>2 DEF Fresh
<1>5. Separate
  <2>1. Sound(cache.jobs, Fresh)
    BY <1>2, EmptyList DEF NoCache
  <2>2. Distinct(results)
    BY <1>2 DEF Distinct
  <2> QED BY <2>1, <2>2, <1>2, <1>4 DEF Separate, Away
<1>6. RepliesTrue
  BY DEF ConvertInit, NoReply, RepliesTrue
<1>7. Alone /\ Kept
  BY <1>2, <1>4 DEF Alone, Kept, Found
<1> QED BY <1>3, <1>5, <1>6, <1>7 DEF ConvertInv

\* Files that are no longer fresh do not spoil a list.
LEMMA ListsStaySound ==
  ASSUME ConvertInv, Fresh' \subseteq Fresh, cache' = cache, poll' = poll
  PROVE  /\ Sound(cache.jobs, Fresh)'
         /\ \A p \in Pollers : poll'[p].at = "fetching" => Sound(poll'[p].jobs, Fresh')
<1>1. Sound(cache.jobs, Fresh')
  BY SoundOfLess DEF ConvertInv, Separate
<1>2. \A p \in Pollers : poll[p].at = "fetching" => Sound(poll[p].jobs, Fresh')
  BY SoundOfLess DEF ConvertInv, Separate
<1> QED BY <1>1, <1>2

\* A step without a push leaves the answer as true as it was.
LEMMA AllStays == ASSUME NEW jobs, AllResults(jobs), UNCHANGED pushes PROVE AllResults(jobs)'
  BY DEF AllResults, Pushed

LEMMA RepliesStay == ASSUME ConvertInv, UNCHANGED <<reply, pushes>> PROVE RepliesTrue'
<1> SUFFICES ASSUME reply'.status = "completed" PROVE reply'.jobs = <<>> \/ AllResults(reply.jobs)'
  BY DEF RepliesTrue
<1>1. reply.status = "completed" /\ reply'.jobs = reply.jobs
  OBVIOUS
<1>2. reply.jobs = <<>> \/ AllResults(reply.jobs)
  BY <1>1 DEF ConvertInv, RepliesTrue
<1> QED BY <1>1, <1>2, AllStays

\* A job is pushed: this push is under way instead of ahead.
LEMMA PushFileKeeps ==
  ASSUME ConvertInv, PushFile, converting = "submitting",
         file' \in Nat, converting' \in {"submitting", "caching"},
         converting' = "submitting" => file' \in Files,
         UNCHANGED <<bad, broken, results, cache, poll, reply, upset>>
  PROVE  ConvertInv'
<1> DEFINE n == pushes[file] + 1
           push == <<file, n>>
<1>1. ConvertTypeOK /\ file \in Files /\ pushes[file] \in Nat /\ Queued' = Queued
  BY DEF ConvertInv, ConvertTypeOK, Queued
<1>2. n \in Nat \ {0} /\ push \in Pushes
  BY <1>1 DEF Pushes
<1>3. pushes' = [pushes EXCEPT ![file] = n] /\ submitted' = submitted \cup {push}
  BY DEF PushFile
<1>4. /\ pushes' \in [Files -> Nat] /\ pushes'[file] = n
      /\ \A f \in Files : (f # file => pushes'[f] = pushes[f]) /\ pushes[f] <= pushes'[f]
  <2>1. pushes \in [Files -> Nat]
    BY <1>1 DEF ConvertTypeOK
  <2> QED BY <2>1, <1>1, <1>2, <1>3
<1>5. ConvertTypeOK'
  BY <1>1, <1>2, <1>3, <1>4 DEF ConvertTypeOK
<1>6. push \in Ahead /\ push \notin Ahead' /\ Ahead = Ahead' \cup {push}
  <2>1. push \in Ahead
    BY <1>1, <1>2 DEF Ahead
  <2>2. push \notin Ahead'
    BY <1>2, <1>4 DEF Ahead
  <2>3. ASSUME NEW f \in Files, NEW k \in Nat \ {0}
        PROVE  (k > pushes[f]) <=> (k > pushes'[f] \/ (f = file /\ k = n))
    <3>1. CASE f = file
      BY <3>1, <1>1, <1>4
    <3>2. CASE f # file
      BY <3>2, <1>4
    <3> QED BY <3>1, <3>2
  <2>4. \A q \in Pushes : (q[2] > pushes[q[1]]) <=> (q[2] > pushes'[q[1]] \/ q = push)
    BY <2>3 DEF Pushes
  <2> QED BY <2>1, <2>2, <2>4 DEF Ahead
<1> HIDE DEF push, n
<1>7. Fresh' = Fresh
  BY <1>1, <1>3, <1>6 DEF Fresh
<1>8. Separate'
  <2>1. submitted \cap (Ahead \cup Queued) = {} /\ Ahead \cap Queued = {} /\ Distinct(results)
    BY DEF ConvertInv, Separate
  <2>2. (submitted' \cap (Ahead' \cup Queued') = {} /\ Ahead' \cap Queued' = {})
    BY <2>1, <1>1, <1>3, <1>6
  <2> QED BY <2>1, <2>2, <1>7, ListsStaySound DEF Separate
<1>9. RepliesTrue'
  BY <1>1, <1>4, <1>5, StillAll DEF ConvertInv, RepliesTrue
<1>10. Alone' /\ Kept'
  BY <1>7 DEF ConvertInv, Alone, Kept, Found
<1> QED BY <1>5, <1>8, <1>9, <1>10 DEF ConvertInv

LEMMA SubmitFileKeeps == ASSUME ConvertInv, SubmitFile PROVE ConvertInv'
<1>1. converting = "submitting" /\ file \in Files /\ ConvertTypeOK
      /\ UNCHANGED <<bad, broken, results, cache, poll, reply, errors>>
  BY DEF SubmitFile, ConvertInv, ConvertTypeOK
<1>2. CASE file = bad
  <2>1. converting' = "error" /\ upset' = TRUE /\ UNCHANGED <<pushes, submitted, file>>
    BY <1>2 DEF SubmitFile
  <2>2. ConvertTypeOK'
    BY <2>1, <1>1 DEF ConvertTypeOK
  <2>3. Ahead' = Ahead /\ Queued' = Queued /\ Fresh' = Fresh
    BY <2>1, <1>1 DEF Fresh, Ahead, Queued
  <2>4. Separate'
    BY <2>1, <2>3, <1>1, ListsStaySound DEF ConvertInv, Separate
  <2>5. RepliesTrue' /\ Alone' /\ Kept'
    BY <2>1, <1>1, RepliesStay DEF Alone, Kept
  <2> QED BY <2>2, <2>4, <2>5 DEF ConvertInv
<1>3. CASE file # bad
  <2>1. /\ PushFile /\ file' = file + 1 /\ upset' = upset
        /\ converting' = IF file + 1 \in Files THEN "submitting" ELSE "caching"
    BY <1>3 DEF SubmitFile
  <2>2. /\ file' \in Nat /\ converting' \in {"submitting", "caching"}
        /\ converting' = "submitting" => file' \in Files
    BY <2>1, <1>1 DEF ConvertTypeOK
  <2> QED BY <2>1, <2>2, <1>1, PushFileKeeps
<1> QED BY <1>2, <1>3

LEMMA PushAgainKeeps == ASSUME ConvertInv, PushAgain PROVE ConvertInv'
<1>1. /\ converting = "submitting" /\ PushFile
      /\ UNCHANGED <<bad, broken, converting, file, results, cache, poll, reply, upset>>
  BY DEF PushAgain
<1>2. file \in Nat /\ file \in Files
  BY <1>1 DEF ConvertInv, ConvertTypeOK
<1> QED BY <1>1, <1>2, PushFileKeeps

LEMMA CacheJobsKeeps == ASSUME ConvertInv, CacheJobs PROVE ConvertInv'
<1>1. converting = "caching" /\ UNCHANGED <<bad, broken, file, pushes, submitted, results, poll, reply>>
      /\ converting' \in {"done", "error"} /\ ConvertTypeOK
  BY DEF CacheJobs, ConvertInv
<1>2. Ahead' = Ahead /\ Queued' = Queued /\ Fresh' = Fresh
  BY <1>1 DEF Ahead, Queued, Fresh
<1>3. CASE /\ cache' = Cached([i \in Files |-> Processing(i)])
           /\ converting' = "done" /\ UNCHANGED <<errors, upset>>
  <2> DEFINE jobs == [i \in Files |-> Processing(i)]
  <2>1. jobs \in Lists /\ Sound(jobs, Fresh') /\ ResultsIn(jobs) = {}
    BY <1>1, <1>2, FreshArePushes, NewList
  <2>2. cache' = [set |-> TRUE, jobs |-> jobs]
    BY <1>3 DEF Cached
  <2> HIDE DEF jobs
  <2>3. cache'.jobs = jobs /\ cache' \in [set : BOOLEAN, jobs : Lists]
    BY <2>1, <2>2
  <2>4. ConvertTypeOK'
    BY <2>3, <1>1, <1>3 DEF ConvertTypeOK
  <2>5. Separate'
    <3>1. Sound(cache'.jobs, Fresh')
      BY <2>1, <2>3
    <3> QED BY <3>1, <1>1, <1>2 DEF ConvertInv, Separate
  <2>6. RepliesTrue'
    BY <1>1, RepliesStay
  <2>7. ~upset => cache = NoCache /\ \A p \in Pollers : poll[p] = Away
    BY <1>1 DEF ConvertInv, Alone
  <2>8. Alone'
    BY <2>7, <1>1, <1>3 DEF Alone
  <2>9. Kept'
    <3>1. ~upset => \A push \in Pushes : push \in Fresh
      BY <2>7, EmptyList DEF ConvertInv, Kept, Found, NoCache
    <3> QED BY <3>1, <1>2, <1>3 DEF Kept, Found
  <2> QED BY <2>4, <2>5, <2>6, <2>8, <2>9 DEF ConvertInv
<1>4. CASE converting' = "error" /\ upset' = TRUE /\ UNCHANGED cache
  <2>1. ConvertTypeOK'
    BY <1>1, <1>4 DEF ConvertTypeOK
  <2>2. Separate'
    BY <1>1, <1>2, <1>4 DEF ConvertInv, Separate
  <2>3. RepliesTrue' /\ Alone' /\ Kept'
    BY <1>1, <1>4, RepliesStay DEF Alone, Kept
  <2> QED BY <2>1, <2>2, <2>3 DEF ConvertInv
<1> QED BY <1>3, <1>4 DEF CacheJobs

LEMMA EndJobKeeps == ASSUME ConvertInv, EndJob PROVE ConvertInv'
<1>1. PICK f \in submitted : submitted' = submitted \ {f} /\ results' = Append(results, f)
  BY DEF EndJob
<1>2. UNCHANGED <<bad, broken, converting, file, pushes, cache, poll, reply, errors, upset>> /\ Ahead' = Ahead
  BY DEF EndJob, Ahead
<1>3. results \in Seq(Pushes) /\ f \in Pushes /\ Distinct(results) /\ f \notin Queued /\ f \notin Ahead
  BY <1>1 DEF ConvertInv, ConvertTypeOK, Separate
<1>4. results' \in Seq(Pushes) /\ Distinct(results') /\ Queued' = Queued \cup {f}
  BY <1>1, <1>3, PushedLast DEF Queued
<1>5. Fresh' = Fresh
  BY <1>1, <1>2, <1>4 DEF Fresh
<1>6. ConvertTypeOK'
  BY <1>1, <1>2, <1>4 DEF ConvertInv, ConvertTypeOK
<1>7. Separate'
  <2>1. submitted \cap (Ahead \cup Queued) = {} /\ Ahead \cap Queued = {}
    BY DEF ConvertInv, Separate
  <2>2. (submitted' \cap (Ahead' \cup Queued') = {} /\ Ahead' \cap Queued' = {})
    BY <2>1, <1>1, <1>2, <1>3, <1>4
  <2> QED BY <2>2, <1>2, <1>4, <1>5, ListsStaySound DEF Separate
<1>8. RepliesTrue' /\ Alone' /\ Kept'
  BY <1>2, <1>5, RepliesStay DEF ConvertInv, Alone, Kept, Found
<1> QED BY <1>6, <1>7, <1>8 DEF ConvertInv

LEMMA ExpireKeeps == ASSUME ConvertInv, Expire PROVE ConvertInv'
<1>1. cache' = NoCache /\ upset' = TRUE
      /\ UNCHANGED <<bad, broken, converting, file, pushes, submitted, results, poll, reply, errors>>
  BY DEF Expire
<1>2. Queued' = Queued /\ Ahead' = Ahead /\ Fresh' = Fresh
  BY <1>1 DEF Queued, Ahead, Fresh
<1>3. ConvertTypeOK'
  BY <1>1, EmptyList DEF ConvertInv, ConvertTypeOK, NoCache
<1>4. Separate'
  <2>1. Sound(cache'.jobs, Fresh')
    BY <1>1, EmptyList DEF NoCache
  <2> QED BY <2>1, <1>1, <1>2 DEF ConvertInv, Separate
<1>5. RepliesTrue' /\ Alone' /\ Kept'
  BY <1>1, RepliesStay DEF Alone, Kept
<1> QED BY <1>3, <1>4, <1>5 DEF ConvertInv

-----------------------------------------------------------------------------
(* The steps of a status request.                                          *)

Handling == [at : {"fetching"}, jobs : Lists, next : Nat \ {0}]

LEMMA PollerTypes ==
  ASSUME ConvertTypeOK, NEW p \in Pollers
  PROVE  /\ poll[p] = Away <=> poll[p].at # "fetching"
         /\ poll[p] # Away => poll[p] \in Handling
  BY DEF ConvertTypeOK, Away, Handling

\* A step of one poller that gives it a new state.
LEMMA PollerMoves ==
  ASSUME ConvertTypeOK, NEW p \in Pollers, NEW s \in {Away} \cup Handling,
         poll' = [poll EXCEPT ![p] = s]
  PROVE  /\ poll' \in [Pollers -> {Away} \cup Handling]
         /\ poll'[p] = s /\ \A q \in Pollers : q # p => poll'[q] = poll[q]
  BY DEF ConvertTypeOK, Handling

LEMMA PollKeeps == ASSUME ConvertInv, NEW p \in Pollers, Poll(p) PROVE ConvertInv'
<1> DEFINE s == [at |-> "fetching", jobs |-> cache.jobs, next |-> 1]
<1>1. poll[p] = Away /\ upset' = (upset \/ Overlapping) /\ poll' = [poll EXCEPT ![p] = s]
      /\ UNCHANGED <<bad, broken, converting, file, pushes, submitted, results, cache, reply, errors>>
  BY DEF Poll
<1>2. ConvertTypeOK /\ s \in Handling
  BY DEF ConvertInv, ConvertTypeOK, Handling
<1>3. s.at = "fetching" /\ s.jobs = cache.jobs
  OBVIOUS
<1> HIDE DEF s
<1>4. /\ poll' \in [Pollers -> {Away} \cup Handling]
      /\ poll'[p] = s /\ \A q \in Pollers : q # p => poll'[q] = poll[q]
  BY <1>1, <1>2, PollerMoves
<1>5. Fresh' = Fresh /\ Queued' = Queued /\ Ahead' = Ahead
  BY <1>1 DEF Fresh, Queued, Ahead
<1>6. upset' \in BOOLEAN
  BY <1>1 DEF ConvertInv, ConvertTypeOK, Overlapping
<1>7. ConvertTypeOK'
  BY <1>1, <1>2, <1>4, <1>6 DEF ConvertTypeOK, Handling
<1>8. Separate'
  <2>1. Sound(cache.jobs, Fresh)
    BY DEF ConvertInv, Separate
  <2>2. \A q \in Pollers : poll'[q].at = "fetching" => Sound(poll'[q].jobs, Fresh)
    BY <1>3, <1>4, <2>1 DEF ConvertInv, Separate
  <2> QED BY <2>1, <2>2, <1>1, <1>5 DEF ConvertInv, Separate
<1>9. RepliesTrue'
  BY <1>1, RepliesStay
<1>10. Alone'
  <2> SUFFICES ASSUME ~upset'
               PROVE  /\ converting = "done"
                      /\ \A q \in Pollers :
                           poll'[q] # Away => /\ ResultsIn(cache.jobs) \subseteq ResultsIn(poll'[q].jobs)
                                              /\ \A r \in Pollers : r # q => poll'[r] = Away
    BY <1>1 DEF Alone
  <2>1. ~upset /\ converting \notin {"submitting", "caching"} /\ \A q \in Pollers : poll[q] = Away
    BY <1>1 DEF Overlapping
  <2>2. converting = "done"
    BY <2>1, <1>2 DEF ConvertInv, Alone, ConvertTypeOK
  <2> QED BY <2>1, <2>2, <1>3, <1>4
<1>11. Kept'
  <2> SUFFICES ASSUME ~upset', NEW f \in Pushes PROVE Found(f)'
    BY DEF Kept
  <2>1. Found(f) /\ \A q \in Pollers : poll[q] = Away
    BY <1>1 DEF ConvertInv, Kept, Overlapping
  <2> QED BY <2>1, <1>1, <1>5 DEF Found
<1> QED BY <1>7, <1>8, <1>9, <1>10, <1>11 DEF ConvertInv

\* A busy poller is at a job of a full list.
LEMMA BusyAt ==
  ASSUME ConvertInv, NEW p \in Pollers, Busy(p)
  PROVE  /\ poll[p] # Away /\ poll[p] \in Handling
         /\ poll[p].jobs \in [Files -> JobType] /\ poll[p].next \in Files
         /\ Sound(poll[p].jobs, Fresh)
<1>1. poll[p].at = "fetching" /\ poll[p].next <= Len(poll[p].jobs) /\ ConvertTypeOK
  BY DEF Busy, ConvertInv
<1>2. poll[p] # Away /\ poll[p] \in Handling /\ Sound(poll[p].jobs, Fresh)
  BY <1>1, PollerTypes DEF ConvertInv, Separate
<1>3. poll[p].jobs \in Lists /\ poll[p].next \in Nat \ {0}
  BY <1>2 DEF Handling
<1>4. PICK n \in Nat : n # 0 /\ Files = 1..n
  BY SomeFiles
<1>5. poll[p].jobs # <<>>
  <2>1. Len(<<>>) = 0
    BY EmptySeq
  <2>2. ~(poll[p].next <= 0)
    BY <1>3
  <2> QED BY <2>1, <2>2, <1>1
<1>6. poll[p].jobs \in [Files -> JobType] /\ Len(poll[p].jobs) \in Files
  BY <1>3, <1>5, ListsAreSeqs DEF Lists
<1>7. poll[p].next \in Files
  <2>1. PICK l \in 1..n : l = Len(poll[p].jobs)
    BY <1>4, <1>6
  <2>2. PICK k \in Nat : k = poll[p].next
    BY <1>3
  <2>3. k # 0 /\ k <= l
    BY <2>1, <2>2, <1>1, <1>3
  <2>4. k \in 1..n
    BY <2>1, <2>3
  <2> QED BY <2>2, <2>4, <1>4
<1> QED BY <1>2, <1>6, <1>7

\* The first result of the list goes into the job the request is at.
LEMMA FetchResultKeeps == ASSUME ConvertInv, NEW p \in Pollers, FetchResult(p) PROVE ConvertInv'
<1> DEFINE i == poll[p].next
           f == Head(results)
           more == [poll[p].jobs EXCEPT ![i] = Fetched(poll[p].jobs[i], f)]
           s == [at |-> "fetching", jobs |-> more, next |-> i + 1]
<1>1. Busy(p) /\ poll[p].jobs[i].status = "in_progress" /\ results # <<>> /\ results' = Tail(results)
      /\ UNCHANGED <<bad, broken, converting, file, pushes, submitted, cache, reply, errors, upset>>
  BY DEF FetchResult, Current
<1>2. /\ poll[p] # Away /\ poll[p] \in Handling /\ poll[p].jobs \in [Files -> JobType] /\ i \in Files
      /\ Sound(poll[p].jobs, Fresh) /\ ConvertTypeOK
  BY <1>1, BusyAt DEF ConvertInv
<1>3. results \in Seq(Pushes) /\ Distinct(results)
  BY DEF ConvertInv, ConvertTypeOK, Separate
<1>4. f \in Pushes /\ f \in Queued /\ results' \in Seq(Pushes) /\ Distinct(results')
      /\ Queued' = Queued \ {f}
  BY <1>1, <1>3, PoppedFirst DEF Queued
<1>5. Ahead' = Ahead /\ f \notin Ahead /\ f \notin submitted
  BY <1>1, <1>4 DEF Ahead, ConvertInv, Separate
<1>6. f \in Fresh /\ Fresh' = Fresh \ {f}
  BY <1>1, <1>4, <1>5 DEF Fresh
<1>7. poll' = [poll EXCEPT ![p] = s]
  <2>1. poll[p] = [at |-> "fetching", jobs |-> poll[p].jobs, next |-> poll[p].next]
    BY <1>2 DEF Handling
  <2>2. [poll[p] EXCEPT !.jobs[i] = Fetched(poll[p].jobs[i], f), !.next = poll[p].next + 1] = s
    <3> DEFINE r == poll[p]
               jobs == poll[p].jobs
               next == poll[p].next
               entry == Fetched(poll[p].jobs[i], f)
    <3>1. r = [at |-> "fetching", jobs |-> jobs, next |-> next]
      BY <2>1
    <3> HIDE DEF r, jobs, next, entry
    <3>2. [r EXCEPT !.jobs[next] = entry, !.next = next + 1]
            = [at |-> "fetching", jobs |-> [jobs EXCEPT ![next] = entry], next |-> next + 1]
      <4> DEFINE js == [jobs EXCEPT ![next] = entry]
                 q == [at |-> "fetching", jobs |-> js, next |-> next]
      <4>1. [r EXCEPT !.jobs[next] = entry] = [r EXCEPT !.jobs = js]
        BY <3>1
      <4>2. [r EXCEPT !.jobs[next] = entry, !.next = next + 1] = [[r EXCEPT !.jobs[next] = entry] EXCEPT !.next = next + 1]
        OBVIOUS
      <4> HIDE DEF js
      <4>3. [r EXCEPT !.jobs = js] = q
        BY <3>1
      <4>4. [q EXCEPT !.next = next + 1] = [at |-> "fetching", jobs |-> js, next |-> next + 1]
        OBVIOUS
      <4> QED BY <4>1, <4>2, <4>3, <4>4 DEF js
    <3> QED BY <3>2 DEF r, jobs, next, entry
  <2> QED BY <2>2 DEF FetchResult
<1>8. Fetched(poll[p].jobs[i], f) \in JobType /\ Fetched(poll[p].jobs[i], f).status = "success"
      /\ Fetched(poll[p].jobs[i], f).result = f
  <2>1. poll[p].jobs[i] \in JobType
    BY <1>2
  <2> QED BY <2>1, <1>4, JobIsFetched
<1>9. /\ more \in [Files -> JobType] /\ more[i].status = "success" /\ more[i].result = f
      /\ \A k \in Files : k # i => more[k] = poll[p].jobs[k]
  BY <1>2, <1>8
<1>10. i + 1 \in Nat \ {0}
  BY <1>2, SomeFiles
<1> HIDE DEF more, f
<1>11. s \in Handling /\ s.at = "fetching" /\ s.jobs = more
  BY <1>9, <1>10 DEF Handling, Lists
<1>12. Sound(more, Fresh') /\ ResultsIn(more) = ResultsIn(poll[p].jobs) \cup {f}
  <2> DEFINE S == Fresh
             T == Fresh'
             jobs == poll[p].jobs
  <2>1. jobs \in [Files -> JobType] /\ Sound(jobs, S) /\ i \in Files /\ jobs[i].status = "in_progress"
    BY <1>1, <1>2
  <2>2. f \in S /\ f \in Pushes /\ T \subseteq S \ {f}
    BY <1>4, <1>6
  <2>3. \A k \in Files : k # i => more[k] = jobs[k]
    BY <1>9
  <2> HIDE DEF S, T, jobs, i
  <2>4. Sound(more, T) /\ ResultsIn(more) = ResultsIn(jobs) \cup {f}
    BY <2>1, <2>2, <2>3, <1>9, OneMoreResult
  <2> QED BY <2>4 DEF T, jobs
<1> HIDE DEF s
<1>13. /\ poll' \in [Pollers -> {Away} \cup Handling]
       /\ poll'[p] = s /\ \A q \in Pollers : q # p => poll'[q] = poll[q]
  BY <1>2, <1>7, <1>11, PollerMoves
<1>14. ConvertTypeOK'
  BY <1>1, <1>2, <1>4, <1>13 DEF ConvertTypeOK, Handling
<1>15. Separate'
  <2>1. Sound(cache'.jobs, Fresh')
    BY <1>1, <1>6, SoundOfLess DEF ConvertInv, Separate
  <2>2. \A q \in Pollers : poll'[q].at = "fetching" => Sound(poll'[q].jobs, Fresh')
    <3> SUFFICES ASSUME NEW q \in Pollers, poll'[q].at = "fetching" PROVE Sound(poll'[q].jobs, Fresh')
      OBVIOUS
    <3>1. CASE q = p
      BY <3>1, <1>11, <1>12, <1>13
    <3>2. CASE q # p
      <4>1. Sound(poll[q].jobs, Fresh)
        BY <3>2, <1>13 DEF ConvertInv, Separate
      <4> QED BY <4>1, <3>2, <1>6, <1>13, SoundOfLess
    <3> QED BY <3>1, <3>2
  <2>3. submitted \cap (Ahead \cup Queued) = {} /\ Ahead \cap Queued = {}
    BY DEF ConvertInv, Separate
  <2>4. (submitted' \cap (Ahead' \cup Queued') = {} /\ Ahead' \cap Queued' = {})
    BY <2>3, <1>1, <1>4, <1>5
  <2> QED BY <2>1, <2>2, <2>4, <1>4 DEF Separate
<1>16. RepliesTrue'
  BY <1>1, RepliesStay
<1>17. ~upset => /\ converting = "done"
                 /\ ResultsIn(cache.jobs) \subseteq ResultsIn(poll[p].jobs)
                 /\ \A q \in Pollers : q # p => poll[q] = Away
  BY <1>2 DEF ConvertInv, Alone, ConvertTypeOK
<1>18. Alone'
  BY <1>1, <1>11, <1>12, <1>13, <1>17 DEF Alone
<1>19. Kept'
  <2> SUFFICES ASSUME ~upset, NEW g \in Pushes PROVE Found(g)'
    BY <1>1 DEF Kept
  <2>1. poll'[p] # Away /\ poll'[p].jobs = more
    BY <1>11, <1>13 DEF Away
  <2>2. Found(g) /\ \A q \in Pollers : poll[q] # Away => q = p
    BY <1>17 DEF ConvertInv, Kept
  <2> QED BY <2>1, <2>2, <1>1, <1>6, <1>12 DEF Found
<1> QED BY <1>14, <1>15, <1>16, <1>18, <1>19 DEF ConvertInv

LEMMA PassOverKeeps == ASSUME ConvertInv, NEW p \in Pollers, PassOver(p) PROVE ConvertInv'
<1> DEFINE s == [at |-> "fetching", jobs |-> poll[p].jobs, next |-> poll[p].next + 1]
<1>1. Busy(p) /\ poll' = [poll EXCEPT ![p].next = poll[p].next + 1]
      /\ UNCHANGED <<bad, broken, converting, file, pushes, submitted, results, cache, reply, errors, upset>>
  BY DEF PassOver
<1>2. /\ poll[p] # Away /\ poll[p] \in Handling /\ Sound(poll[p].jobs, Fresh) /\ ConvertTypeOK
  BY <1>1, BusyAt DEF ConvertInv
<1>3. poll[p] = [at |-> "fetching", jobs |-> poll[p].jobs, next |-> poll[p].next]
  BY <1>2 DEF Handling
<1>4. poll' = [poll EXCEPT ![p] = s]
  <2>1. [poll[p] EXCEPT !.next = poll[p].next + 1] = s
    BY <1>3
  <2> QED BY <2>1, <1>1
<1>5. s \in Handling /\ s.at = "fetching" /\ s.jobs = poll[p].jobs
  BY <1>2 DEF Handling
<1> HIDE DEF s
<1>6. /\ poll' \in [Pollers -> {Away} \cup Handling]
      /\ poll'[p] = s /\ \A q \in Pollers : q # p => poll'[q] = poll[q]
  BY <1>2, <1>4, <1>5, PollerMoves
<1>7. Fresh' = Fresh /\ Queued' = Queued /\ Ahead' = Ahead
  BY <1>1 DEF Fresh, Queued, Ahead
<1>8. \A q \in Pollers : /\ poll'[q] # Away <=> poll[q] # Away
                         /\ poll[q] # Away => poll'[q].jobs = poll[q].jobs
                         /\ poll'[q].at = "fetching" => poll[q].at = "fetching"
  BY <1>2, <1>3, <1>5, <1>6 DEF Away
<1>9. ConvertTypeOK'
  BY <1>1, <1>2, <1>6 DEF ConvertTypeOK, Handling
<1>10. Separate'
  <2>1. \A q \in Pollers : poll'[q].at = "fetching" => Sound(poll'[q].jobs, Fresh)
    BY <1>2, <1>5, <1>6 DEF ConvertInv, Separate
  <2> QED BY <2>1, <1>1, <1>7 DEF ConvertInv, Separate
<1>11. RepliesTrue'
  BY <1>1, RepliesStay
<1>12. Alone'
  BY <1>1, <1>8 DEF ConvertInv, Alone
<1>13. Kept'
  BY <1>1, <1>7, <1>8 DEF ConvertInv, Kept, Found
<1> QED BY <1>9, <1>10, <1>11, <1>12, <1>13 DEF ConvertInv

LEMMA PollFailsKeeps == ASSUME ConvertInv, NEW p \in Pollers, PollFails(p) PROVE ConvertInv'
<1>1. upset' = TRUE /\ poll' = [poll EXCEPT ![p] = Away] /\ reply' = [status |-> "error", jobs |-> <<>>]
      /\ UNCHANGED <<bad, broken, converting, file, pushes, submitted, cache>>
  BY DEF PollFails
<1>2. /\ poll' \in [Pollers -> {Away} \cup Handling]
      /\ poll'[p] = Away /\ \A q \in Pollers : q # p => poll'[q] = poll[q]
  BY <1>1, PollerMoves DEF ConvertInv
<1>3. results \in Seq(Pushes) /\ Distinct(results)
  BY DEF ConvertInv, ConvertTypeOK, Separate
<1>4. results' \in Seq(Pushes) /\ Distinct(results') /\ Queued' \subseteq Queued
  <2>1. CASE UNCHANGED results
    BY <2>1, <1>3 DEF Queued
  <2>2. CASE results # <<>> /\ results' = Tail(results)
    BY <2>2, <1>3, PoppedFirst DEF Queued
  <2> QED BY <2>1, <2>2 DEF PollFails
<1>5. Ahead' = Ahead /\ Fresh' \subseteq Fresh
  BY <1>1, <1>4 DEF Ahead, Fresh
<1>6. ConvertTypeOK'
  BY <1>1, <1>2, <1>4 DEF ConvertInv, ConvertTypeOK, Handling
<1>7. Separate'
  <2>1. Sound(cache'.jobs, Fresh')
    BY <1>1, <1>5, SoundOfLess DEF ConvertInv, Separate
  <2>2. \A q \in Pollers : poll'[q].at = "fetching" => Sound(poll'[q].jobs, Fresh')
    <3> SUFFICES ASSUME NEW q \in Pollers, poll'[q].at = "fetching" PROVE Sound(poll'[q].jobs, Fresh')
      OBVIOUS
    <3>1. poll'[q] = poll[q]
      BY <1>2 DEF Away
    <3> QED BY <3>1, <1>5, SoundOfLess DEF ConvertInv, Separate
  <2>3. (submitted' \cap (Ahead' \cup Queued') = {} /\ Ahead' \cap Queued' = {})
    BY <1>1, <1>4, <1>5 DEF ConvertInv, Separate
  <2> QED BY <2>1, <2>2, <2>3, <1>4 DEF Separate
<1>8. RepliesTrue' /\ Alone' /\ Kept'
  BY <1>1 DEF RepliesTrue, Alone, Kept
<1> QED BY <1>6, <1>7, <1>8 DEF ConvertInv

LEMMA AnswerKeeps == ASSUME ConvertInv, NEW p \in Pollers, Answer(p) PROVE ConvertInv'
<1>1. poll[p].at = "fetching" /\ cache' = Cached(poll[p].jobs)
      /\ reply' = [status |-> IF Ended(poll[p].jobs) THEN "completed" ELSE "202", jobs |-> poll[p].jobs]
      /\ poll' = [poll EXCEPT ![p] = Away]
      /\ UNCHANGED <<bad, broken, converting, file, pushes, submitted, results, errors, upset>>
  BY DEF Answer
<1>2. /\ poll' \in [Pollers -> {Away} \cup Handling]
      /\ poll'[p] = Away /\ \A q \in Pollers : q # p => poll'[q] = poll[q]
  BY <1>1, PollerMoves DEF ConvertInv
<1>3. poll[p] # Away /\ poll[p] \in Handling /\ Sound(poll[p].jobs, Fresh)
  BY <1>1, PollerTypes DEF ConvertInv, Separate
<1>4. poll[p].jobs \in Lists /\ cache'.jobs = poll[p].jobs /\ cache' \in [set : BOOLEAN, jobs : Lists]
  BY <1>1, <1>3 DEF Handling, Cached
<1>5. Fresh' = Fresh /\ Queued' = Queued /\ Ahead' = Ahead
  BY <1>1 DEF Fresh, Queued, Ahead
<1>6. ConvertTypeOK'
  BY <1>1, <1>2, <1>4 DEF ConvertInv, ConvertTypeOK, Handling
<1>7. Separate'
  <2>1. Sound(cache'.jobs, Fresh)
    BY <1>3, <1>4
  <2>2. \A q \in Pollers : poll'[q].at = "fetching" => Sound(poll'[q].jobs, Fresh)
    BY <1>2 DEF ConvertInv, Separate, Away
  <2> QED BY <2>1, <2>2, <1>1, <1>5 DEF ConvertInv, Separate
<1>8. RepliesTrue'
  <2> SUFFICES ASSUME reply'.status = "completed" PROVE reply'.jobs = <<>> \/ AllResults(reply.jobs)'
    BY DEF RepliesTrue
  <2>1. Ended(poll[p].jobs)
    BY <1>1
  <2>2. poll[p].jobs = <<>> \/ AllResults(poll[p].jobs)
    BY <2>1, <1>3, <1>4, AllEnded DEF ConvertInv
  <2>3. PICK jobs \in Lists : jobs = poll[p].jobs
    BY <1>4
  <2>4. reply'.jobs = jobs /\ UNCHANGED pushes
    BY <2>3, <1>1
  <2>5. jobs = <<>> \/ AllResults(jobs)
    BY <2>2, <2>3
  <2>6. jobs = <<>> \/ AllResults(jobs)'
    BY <2>4, <2>5, AllStays
  <2> QED BY <2>4, <2>6
<1>9. ~upset => /\ converting = "done"
                /\ ResultsIn(cache.jobs) \subseteq ResultsIn(poll[p].jobs)
                /\ \A q \in Pollers : q # p => poll[q] = Away
  BY <1>3 DEF ConvertInv, Alone, ConvertTypeOK
<1>10. Alone'
  BY <1>1, <1>2, <1>9 DEF Alone
<1>11. Kept'
  <2> SUFFICES ASSUME ~upset, NEW g \in Pushes PROVE Found(g)'
    BY <1>1 DEF Kept
  <2>1. Found(g) /\ \A q \in Pollers : poll[q] # Away => q = p
    BY <1>9 DEF ConvertInv, Kept
  <2>2. g \in Fresh \/ g \in ResultsIn(poll[p].jobs)
    BY <2>1, <1>9 DEF Found
  <2> QED BY <2>2, <1>4, <1>5 DEF Found
<1> QED BY <1>6, <1>7, <1>8, <1>10, <1>11 DEF ConvertInv

LEMMA StepConvert == ConvertInv /\ [ConvertNext]_convertVars => ConvertInv'
<1> SUFFICES ASSUME ConvertInv, [ConvertNext]_convertVars PROVE ConvertInv'
  OBVIOUS
<1>1. CASE UNCHANGED convertVars
  <2>1. Fresh' = Fresh /\ Queued' = Queued /\ Ahead' = Ahead
    BY <1>1 DEF Fresh, Queued, Ahead, convertVars
  <2>2. ConvertTypeOK' /\ Separate'
    BY <2>1, <1>1 DEF convertVars, ConvertInv, ConvertTypeOK, Separate
  <2>3. RepliesTrue' /\ Alone' /\ Kept'
    BY <2>1, <1>1, RepliesStay DEF convertVars, ConvertInv, Alone, Kept, Found
  <2> QED BY <2>2, <2>3 DEF ConvertInv
<1>2. ASSUME NEW p \in Pollers, Status(p) PROVE ConvertInv'
  BY <1>2, PollKeeps, FetchResultKeeps, PassOverKeeps, PollFailsKeeps, AnswerKeeps DEF Status
<1> QED BY <1>1, <1>2, SubmitFileKeeps, PushAgainKeeps, CacheJobsKeeps, EndJobKeeps, ExpireKeeps DEF ConvertNext

LEMMA ConvertInvSays == ConvertInv => CompletedIsFullOrEmpty
<1> SUFFICES ASSUME ConvertInv PROVE CompletedIsFullOrEmpty
  OBVIOUS
<1>1. ASSUME ~upset, NEW f \in Files, NEW push \in Pushed(f) PROVE push \in Pushes \ Ahead /\ Found(push)
  <2>1. PICK n \in 1 .. pushes[f] : push = <<f, n>>
    BY DEF Pushed
  <2>2. pushes[f] \in Nat /\ n \in Nat \ {0}
    BY DEF ConvertInv, ConvertTypeOK
  <2> QED BY <1>1, <2>1, <2>2 DEF Pushes, Ahead, ConvertInv, Kept
<1>2. ResultsKept
  BY <1>1 DEF Found, Fresh, Queued, ResultsKept
<1> QED BY <1>2 DEF ConvertInv, RepliesTrue, CompletedIsFullOrEmpty

\* For any number of files, of worker processes that answer status requests and
\* of Redis commands that fail: an answer "completed" of /status gives no result at
\* all, or a result of another push for every job, which are those of all the
\* files unless a push was carried out and repeated; and no result is lost as long
\* as no two handlers overlap, no other command fails and the entry does not expire.
THEOREM CompletedIsTrue == ConvertSpec => []CompletedIsFullOrEmpty
<1>1. ConvertInv => CompletedIsFullOrEmpty
  BY ConvertInvSays
<1> QED BY <1>1, InitConvert, StepConvert, PTL DEF ConvertSpec

-----------------------------------------------------------------------------
(* ResponseChannel: the fragments of a result.                             *)

PayloadType == [fragment : Nat, fragment_count : Nat, status : {"success", "failed", "none"},
                data : Seq(Nat)]
AnswerType == [at : {"answered"}, status : {200, 202, 500}, message : PayloadType]
FetchType == [at : {"fetching"}, collected : Seq(PayloadType), fragment_count : Nat,
          waited : Nat, retries : Nat]
Callers == [at : {"ready", "waiting", "given"}, for : Requests, retries : Nat, message : PayloadType]

ChannelTypeOK ==
  /\ job \in [rows : RowLists, outcome : Outcomes, max_retries : Nat]
  /\ job.outcome = "rows" \/ job.rows = <<>>
  /\ sink \in {"create", "push", "fail", "done", "raised"}
  /\ payloads \in Seq(PayloadType) /\ channel \in Seq(PayloadType)
  /\ fetch \in [Requests -> {Idle} \cup FetchType \cup AnswerType]
  /\ caller \in Callers
  /\ faults \in Nat /\ doubled \in BOOLEAN

\* The fragments of the result, and what else may be on the channel: a message
\* of failure, if there is a reason for it.
Fragments == create_json_payload(job)
Parts == Len(Fragments)
Failure ==
  \/ job.outcome = "failed"
  \/ \E i \in DOMAIN job.rows : Overhead + job.rows[i] > PayloadLimit
  \/ job.max_retries > 0 /\ faults > 0
Genuine == {Fragments[i] : i \in 1..Parts} \cup {m \in {fail_msg} : Failure}
Multiples == {m \in {Fragments[i] : i \in 1..Parts} : m.fragment_count > 1}

\* What the sink has still to push are the last fragments or a message of failure.
Pushing ==
  /\ sink = "create" => channel = <<>> /\ \A r \in Requests : fetch[r].at = "fetching" => fetch[r].collected = <<>>
  /\ sink = "push" => /\ payloads # <<>> /\ Len(payloads) <= Parts
                      /\ \A j \in 1..Len(payloads) : payloads[j] = Fragments[Parts - Len(payloads) + j]
  /\ sink = "fail" => payloads = <<fail_msg>> /\ Failure

\* The fragments from here on have not been pushed.
Bound == IF sink = "push" THEN Parts - Len(payloads) ELSE Parts

\* What is on the channel was pushed by the sink, each fragment once unless one
\* was pushed twice.
AllIn(s, S) == \A i \in 1..Len(s) : s[i] \in S
OnceOn(s, b) ==
  \A i \in 1..Len(s) : s[i].fragment_count > 1 =>
    /\ s[i].fragment < b
    /\ \A k \in 1..Len(s) : s[k].fragment_count > 1 /\ s[k].fragment = s[i].fragment => k = i
OnChannel == AllIn(channel, Genuine) /\ (~doubled => OnceOn(channel, Bound))

\* What a handler holds are fragments that no longer are on the channel.
Once(c, s, b) ==
  \A i \in 1..Len(c) :
    /\ c[i].fragment < b
    /\ \A k \in 1..Len(c) : c[k].fragment = c[i].fragment => k = i
    /\ \A k \in 1..Len(s) : s[k].fragment_count > 1 => s[k].fragment # c[i].fragment
Held ==
  \A r \in Requests : fetch[r].at = "fetching" =>
    /\ AllIn(fetch[r].collected, Multiples)
    /\ ~doubled => Once(fetch[r].collected, channel, Bound)

\* The messages that may be given to the client.
TrueMessages ==
  {m \in PayloadType : \/ m.status = "success" /\ (doubled \/ m.data = AllRows(job.rows))
                       \/ m.status = "failed" /\ Failure}
Given ==
  /\ \A r \in Requests :
       fetch[r].at = "answered" /\ fetch[r].status = 200 => fetch[r].message \in TrueMessages
  /\ caller.at = "given" => caller.message \in TrueMessages

ChannelInv == ChannelTypeOK /\ Pushing /\ OnChannel /\ Held /\ Given

-----------------------------------------------------------------------------
(* The size of a fragment.                                                 *)

\* size, as Size uses it.
Sizing(f, data, sizes) ==
  f = [n \in 0 .. Len(data) |-> IF n = 0 THEN Overhead ELSE f[n - 1] + sizes[data[n]]]
Rows(data, sizes) ==
  data \in Seq(Nat) /\ sizes \in Seq(Nat) /\ \A i \in 1..Len(data) : data[i] \in 1..Len(sizes)

LEMMA SizingExists ==
  ASSUME NEW data, NEW sizes, Rows(data, sizes)
  PROVE  \E f : Sizing(f, data, sizes) /\ \A n \in 0..Len(data) : f[n] \in Nat
<1> DEFINE A == Nat
           base == Overhead
<1>1. PICK n \in Nat : n = Len(data)
  BY LenProperties DEF Rows
<1>2. \A k \in 1..n : sizes[data[k]] \in Nat
  BY <1>1, ElementOfSeq DEF Rows
<1> DEFINE rule == [k \in 1..n |-> [x \in A |-> x + sizes[data[k]]]]
<1>3. Steps(rule, A, n)
  BY <1>2 DEF Steps
<1>4. \A k \in 1..n, x \in A : rule[k][x] = x + sizes[data[k]]
  OBVIOUS
<1>5. base \in A
  BY ResponseAssumption
<1> HIDE DEF rule, A, base
<1>6. PICK f : Solves(f, base, rule, A, n)
  BY <1>3, <1>5, Recursion
<1> DEFINE h == [k \in 0..n |-> IF k = 0 THEN Overhead ELSE f[k - 1] + sizes[data[k]]]
<1>7. ASSUME NEW k \in 0..n PROVE f[k] = h[k]
  <2>1. CASE k = 0
    BY <2>1, <1>6 DEF Solves, base
  <2>2. CASE k # 0
    <3>1. k \in 1..n /\ k - 1 \in 0..n
      BY <2>2
    <3>2. f[k - 1] \in A /\ f[k] = rule[k][f[k - 1]]
      BY <3>1, <1>6 DEF Solves
    <3> QED BY <2>2, <3>1, <3>2, <1>4
  <2> QED BY <2>1, <2>2
<1>8. f = h
  BY <1>6, <1>7 DEF Solves
<1>9. Sizing(f, data, sizes)
  BY <1>1, <1>8 DEF Sizing
<1>10. \A k \in 0..Len(data) : f[k] \in Nat
  BY <1>1, <1>6 DEF Solves, A
<1> QED BY <1>9, <1>10

LEMMA SizingsAgree ==
  ASSUME NEW s, NEW t, NEW f, NEW g, NEW sizes, Sizing(f, s, sizes), Sizing(g, t, sizes),
         Begins(s, t)
  PROVE  f[Len(s)] = g[Len(s)]
<1> USE DEF Begins
<1> DEFINE S == {i \in Nat : i \in 0..Len(s) => f[i] = g[i]}
<1>1. 0 \in S
  <2>1. 0 \in 0..Len(s) /\ 0 \in 0..Len(t)
    OBVIOUS
  <2> QED BY <2>1 DEF Sizing
<1>2. ASSUME NEW i \in Nat, i \in S PROVE i + 1 \in S
  <2> DEFINE k == i + 1
  <2> SUFFICES ASSUME k \in 0..Len(s) PROVE f[k] = g[k]
    OBVIOUS
  <2>1. k \in 1..Len(s) /\ k \in 0..Len(t) /\ k # 0 /\ k - 1 = i /\ i \in 0..Len(s)
    OBVIOUS
  <2>2. f[i] = g[i]
    BY <1>2, <2>1
  <2>3. f[k] = f[i] + sizes[s[k]] /\ g[k] = g[i] + sizes[t[k]]
    <3> HIDE DEF k
    <3> QED BY <2>1 DEF Sizing
  <2> HIDE DEF k
  <2> QED BY <2>1, <2>2, <2>3
<1> HIDE DEF S
<1>3. \A i \in Nat : i \in S
  BY <1>1, <1>2, SetInduction
<1> QED BY <1>3 DEF S

LEMMA SizeIs ==
  ASSUME NEW data, NEW sizes, NEW f, Rows(data, sizes), Sizing(f, data, sizes)
  PROVE  Size(data, sizes) = f[Len(data)]
<1> DEFINE g == CHOOSE g : Sizing(g, data, sizes)
<1>1. Sizing(g, data, sizes)
  OBVIOUS
<1>2. Size(data, sizes) = g[Len(data)]
  BY DEF Size, Sizing
<1> HIDE DEF g
<1>3. Len(data) \in Nat
  BY LenProperties DEF Rows
<1>4. Begins(data, data)
  BY <1>3 DEF Begins
<1> QED BY <1>1, <1>2, <1>4, SizingsAgree

LEMMA SizeFact ==
  ASSUME NEW data, NEW sizes, Rows(data, sizes)
  PROVE  Size(data, sizes) \in Nat
<1>1. PICK f : Sizing(f, data, sizes) /\ \A n \in 0..Len(data) : f[n] \in Nat
  BY SizingExists
<1>2. Len(data) \in 0..Len(data)
  BY LenProperties DEF Rows
<1> QED BY <1>1, <1>2, SizeIs

LEMMA SizeEmpty ==
  ASSUME NEW sizes \in Seq(Nat)
  PROVE  Rows(<<>>, sizes) /\ Size(<<>>, sizes) = Overhead
<1> DEFINE data == <<>>
<1>1. data \in Seq(Nat) /\ Len(data) = 0
  BY EmptySeq
<1>2. Rows(data, sizes)
  BY <1>1 DEF Rows
<1> HIDE DEF data
<1>3. PICK f : Sizing(f, data, sizes)
  BY <1>2, SizingExists
<1>4. f[0] = Overhead
  <2>1. 0 \in 0..Len(data)
    BY <1>1
  <2> QED BY <2>1, <1>3 DEF Sizing
<1>5. Size(data, sizes) = Overhead
  BY <1>1, <1>2, <1>3, <1>4, SizeIs
<1> QED BY <1>2, <1>5 DEF data

LEMMA SizeAppend ==
  ASSUME NEW data, NEW sizes, Rows(data, sizes), NEW i \in 1..Len(sizes)
  PROVE  /\ Rows(Append(data, i), sizes)
         /\ Size(Append(data, i), sizes) = Size(data, sizes) + sizes[i]
<1> DEFINE more == Append(data, i)
<1>1. PICK n \in Nat : n = Len(data)
  BY LenProperties DEF Rows
<1>2. i \in Nat
  BY LenProperties DEF Rows
<1>3. more \in Seq(Nat) /\ Len(more) = n + 1 /\ (\A k \in 1..n : more[k] = data[k]) /\ more[n + 1] = i
  BY <1>1, <1>2, AppendProperties DEF Rows
<1> HIDE DEF more
<1>4. Rows(more, sizes)
  <2>1. \A k \in 1..(n + 1) : k = n + 1 \/ k \in 1..n
    OBVIOUS
  <2>2. \A k \in 1..(n + 1) : more[k] \in 1..Len(sizes)
    BY <1>1, <1>3, <2>1 DEF Rows
  <2> QED BY <1>3, <2>2 DEF Rows
<1>5. PICK f : Sizing(f, data, sizes)
  BY SizingExists
<1>6. PICK g : Sizing(g, more, sizes)
  BY <1>4, SizingExists
<1>7. Begins(data, more)
  BY <1>1, <1>3 DEF Begins
<1>8. f[n] = g[n]
  BY <1>1, <1>5, <1>6, <1>7, SizingsAgree
<1>9. g[n + 1] = g[n] + sizes[i]
  <2>1. n + 1 \in 0..(n + 1) /\ n + 1 # 0 /\ (n + 1) - 1 = n
    OBVIOUS
  <2>2. g = [k \in 0..(n + 1) |-> IF k = 0 THEN Overhead ELSE g[k - 1] + sizes[more[k]]]
    BY <1>3, <1>6 DEF Sizing
  <2> QED BY <2>1, <2>2, <1>3
<1>10. Size(data, sizes) = f[n] /\ Size(more, sizes) = g[n + 1]
  BY <1>1, <1>3, <1>4, <1>5, <1>6, SizeIs
<1>11. Size(more, sizes) = Size(data, sizes) + sizes[i]
  BY <1>8, <1>9, <1>10
<1> QED BY <1>4, <1>11 DEF more

-----------------------------------------------------------------------------
(* The fragments of a result.                                              *)

Pieces(D, O, Z) == [done : D, open : O, size : Z]
AccType == Pieces(Seq(Seq(Nat)), Seq(Nat), Nat)
Updated(r, x, y) == [r EXCEPT !.open = x, !.size = y]
FirstRows(n) == [i \in 1..n |-> i]

\* A fragment that fits, or holds a row alone.
Part(d, sizes) ==
  /\ Rows(d, sizes)
  /\ Size(d, sizes) <= SizeLimit \/ \E k \in 1..Len(sizes) : Size(d, sizes) = Overhead + sizes[k]

\* What split_large_dict has after k rows.
SplitUpTo(acc, k, sizes) ==
  /\ acc \in AccType
  /\ FlattenSeq(acc.done) \in Seq(Nat)
  /\ FlattenSeq(acc.done) \o acc.open = FirstRows(k)
  /\ \A j \in 1..Len(acc.done) : Part(acc.done[j], sizes)
  /\ Part(acc.open, sizes)
  /\ Size(acc.open, sizes) <= acc.size
  /\ k > 0 => acc.open # <<>>

LEMMA FirstRowsFact ==
  ASSUME NEW n \in Nat
  PROVE  /\ FirstRows(n) \in Seq(Nat) /\ Len(FirstRows(n)) = n
         /\ Append(FirstRows(n), n + 1) = FirstRows(n + 1)
         /\ FirstRows(0) = <<>>
<1>1. ASSUME NEW m \in Nat PROVE FirstRows(m) \in Seq(Nat) /\ Len(FirstRows(m)) = m
  <2>1. FirstRows(m) \in Seq(Nat)
    BY IsASeq DEF FirstRows
  <2>2. DOMAIN FirstRows(m) = 1..m
    BY DEF FirstRows
  <2>3. Len(FirstRows(m)) = m
    BY <2>1, <2>2
  <2> QED BY <2>1, <2>3
<1>2. Append(FirstRows(n), n + 1) = FirstRows(n + 1)
  <2> DEFINE s == FirstRows(n)
             t == FirstRows(n + 1)
             a == Append(s, n + 1)
  <2>1. s \in Seq(Nat) /\ Len(s) = n /\ t \in Seq(Nat) /\ Len(t) = n + 1
    <3>1. n + 1 \in Nat
      OBVIOUS
    <3> QED BY <1>1, <3>1
  <2>2. (\A i \in 1..n : s[i] = i) /\ \A i \in 1..(n + 1) : t[i] = i
    BY DEF FirstRows
  <2> HIDE DEF s, t
  <2>3. a \in Seq(Nat) /\ Len(a) = n + 1 /\ (\A i \in 1..n : a[i] = s[i]) /\ a[n + 1] = n + 1
    BY <2>1, AppendProperties
  <2> HIDE DEF a
  <2>4. \A i \in 1..(n + 1) : i = n + 1 \/ i \in 1..n
    OBVIOUS
  <2>5. \A i \in 1..(n + 1) : a[i] = t[i]
    BY <2>2, <2>3, <2>4
  <2>6. a = t
    BY <2>1, <2>3, <2>5, SeqEqual
  <2> QED BY <2>6 DEF a, s, t
<1>3. FirstRows(0) = <<>>
  <2>1. FirstRows(0) \in Seq(Nat) /\ Len(FirstRows(0)) = 0
    BY <1>1
  <2> QED BY <2>1, EmptySeq
<1> QED BY <1>1, <1>2, <1>3

LEMMA UpdatedIs ==
  ASSUME NEW D, NEW O, NEW Z, NEW r \in Pieces(D, O, Z), NEW x \in O, NEW y
  PROVE  Updated(r, x, y) = [done |-> r.done, open |-> x, size |-> y]
<1> DEFINE w == [r EXCEPT !.open = x]
<1>1. w = [done |-> r.done, open |-> x, size |-> r.size] /\ w \in [done : D, open : O, size : Z]
  BY DEF Pieces
<1>2. Updated(r, x, y) = [w EXCEPT !.size = y]
  BY DEF Updated
<1> HIDE DEF w
<1>3. [w EXCEPT !.size = y] = [done |-> w.done, open |-> w.open, size |-> y]
  BY <1>1
<1> QED BY <1>1, <1>2, <1>3

LEMMA AddRowIs ==
  ASSUME NEW acc \in AccType, NEW sizes \in Seq(Nat), NEW i \in 1..Len(sizes)
  PROVE  LET n == AddRow(acc, i, sizes)
             item_size == Overhead + sizes[i]
         IN  /\ acc.size + item_size > SizeLimit =>
                  /\ n = [done |-> n.done, open |-> n.open, size |-> n.size]
                  /\ n.done = Append(acc.done, acc.open) /\ n.open = Append(<<>>, i)
                  /\ n.size = Overhead + item_size
             /\ ~(acc.size + item_size > SizeLimit) =>
                  /\ n = [done |-> n.done, open |-> n.open, size |-> n.size]
                  /\ n.done = acc.done /\ n.open = Append(acc.open, i)
                  /\ n.size = acc.size + item_size
<1> DEFINE item_size == Overhead + sizes[i]
           closed == [done |-> Append(acc.done, acc.open), open |-> <<>>, size |-> Overhead]
           next(base) == [base EXCEPT !.open = Append(@, i), !.size = @ + item_size]
<1>1. AddRow(acc, i, sizes) = next(IF acc.size + item_size > SizeLimit THEN closed ELSE acc)
  BY DEF AddRow
<1>2. closed.done = Append(acc.done, acc.open) /\ closed.open = <<>> /\ closed.size = Overhead
  OBVIOUS
<1>3. closed \in AccType
  <2>1. Append(acc.done, acc.open) \in Seq(Seq(Nat))
    BY AppendProperties DEF AccType, Pieces
  <2>2. <<>> \in Seq(Nat) /\ Overhead \in Nat
    BY ResponseAssumption
  <2> QED BY <2>1, <2>2 DEF AccType, Pieces
<1>5. ASSUME NEW base \in AccType
      PROVE  next(base) = [done |-> base.done, open |-> Append(base.open, i),
                           size |-> base.size + item_size]
  <2> HIDE DEF item_size
  <2>1. base.open \in Seq(Nat) /\ i \in Nat
    BY LenProperties DEF AccType, Pieces
  <2>2. Append(base.open, i) \in Seq(Nat)
    BY <2>1, AppendProperties
  <2> DEFINE x == Append(base.open, i)
             y == base.size + item_size
  <2>3. next(base) = [base EXCEPT !.open = x, !.size = y]
    OBVIOUS
  <2> HIDE DEF x, y, next
  <2>4. x \in Seq(Nat)
    BY <2>2 DEF x
  <2>5. Updated(base, x, y) = [done |-> base.done, open |-> x, size |-> y]
    BY <2>4, UpdatedIs DEF AccType
  <2>6. next(base) = Updated(base, x, y)
    BY <2>3 DEF Updated
  <2> QED BY <2>5, <2>6 DEF x, y
<1> HIDE DEF next, closed
<1>6. CASE acc.size + item_size > SizeLimit
  <2>1. AddRow(acc, i, sizes) = next(closed)
    BY <1>1, <1>6
  <2> QED BY <2>1, <1>2, <1>3, <1>5, <1>6
<1>7. CASE ~(acc.size + item_size > SizeLimit)
  <2>1. AddRow(acc, i, sizes) = next(acc)
    BY <1>1, <1>7
  <2> QED BY <2>1, <1>5, <1>7
<1> QED BY <1>6, <1>7

LEMMA AddRowTyped ==
  ASSUME NEW acc \in AccType, NEW sizes \in Seq(Nat), NEW i \in 1..Len(sizes)
  PROVE  AddRow(acc, i, sizes) \in AccType
<1> DEFINE n == AddRow(acc, i, sizes)
           item_size == Overhead + sizes[i]
<1>1. acc.done \in Seq(Seq(Nat)) /\ acc.open \in Seq(Nat) /\ acc.size \in Nat
  BY DEF AccType, Pieces
<1>2. i \in Nat
  BY LenProperties
<1>3. item_size \in Nat /\ Overhead \in Nat
  BY ElementOfSeq, ResponseAssumption
<1>4. /\ Append(acc.done, acc.open) \in Seq(Seq(Nat))
      /\ Append(<<>>, i) \in Seq(Nat) /\ Append(acc.open, i) \in Seq(Nat)
  <2>1. Append(acc.done, acc.open) \in Seq(Seq(Nat))
    BY <1>1, AppendProperties
  <2>2. Append(acc.open, i) \in Seq(Nat)
    BY <1>1, <1>2, AppendProperties
  <2>3. Append(<<>>, i) \in Seq(Nat)
    BY <1>2
  <2> QED BY <2>1, <2>2, <2>3
<1>5. Overhead + item_size \in Nat /\ acc.size + item_size \in Nat
  <2> HIDE DEF n, item_size
  <2> QED BY <1>1, <1>3
<1>6. /\ n = [done |-> n.done, open |-> n.open, size |-> n.size]
      /\ n.done \in Seq(Seq(Nat)) /\ n.open \in Seq(Nat) /\ n.size \in Nat
  <2>1. CASE acc.size + item_size > SizeLimit
    BY <2>1, <1>4, <1>5, AddRowIs
  <2>2. CASE ~(acc.size + item_size > SizeLimit)
    BY <2>2, <1>1, <1>4, <1>5, AddRowIs
  <2> QED BY <2>1, <2>2
<1> HIDE DEF n
<1>7. n \in AccType
  BY <1>6 DEF AccType, Pieces
<1> QED BY <1>7 DEF n

LEMMA SumIsNotLess ==
  ASSUME NEW a \in Nat, NEW b \in Nat, NEW o \in Nat, NEW x \in Nat, a <= b
  PROVE  a + x <= b + (o + x)
OBVIOUS

\* One row more.
LEMMA SplitStep ==
  ASSUME NEW acc, NEW sizes \in Seq(Nat), NEW k \in Nat, k + 1 \in 1..Len(sizes),
         SplitUpTo(acc, k, sizes)
  PROVE  SplitUpTo(AddRow(acc, k + 1, sizes), k + 1, sizes)
<1> DEFINE i == k + 1
           n == AddRow(acc, i, sizes)
           item_size == Overhead + sizes[i]
           first == Append(<<>>, i)
<1>1. i \in 1..Len(sizes) /\ i \in Nat /\ i > 0
  OBVIOUS
<1>2. /\ acc \in AccType /\ acc.done \in Seq(Seq(Nat)) /\ acc.open \in Seq(Nat) /\ acc.size \in Nat
      /\ FlattenSeq(acc.done) \in Seq(Nat) /\ FlattenSeq(acc.done) \o acc.open = FirstRows(k)
      /\ Part(acc.open, sizes) /\ Size(acc.open, sizes) <= acc.size
      /\ \A j \in 1..Len(acc.done) : Part(acc.done[j], sizes)
  BY DEF SplitUpTo, AccType, Pieces
<1>3. FirstRows(k) \in Seq(Nat) /\ Append(FirstRows(k), i) = FirstRows(i)
  BY FirstRowsFact
<1>4. sizes[i] \in Nat /\ Overhead \in Nat /\ SizeLimit \in Nat
  BY <1>1, ElementOfSeq, ResponseAssumption
<1>5. n \in AccType
  BY <1>1, <1>2, AddRowTyped
<1>6. Size(acc.open, sizes) \in Nat /\ Rows(acc.open, sizes)
  BY <1>2, SizeFact DEF Part
<1>7. CASE acc.size + item_size > SizeLimit
  <2>1. n.done = Append(acc.done, acc.open) /\ n.open = first /\ n.size = Overhead + item_size
    <3> HIDE DEF n
    <3> QED BY <1>1, <1>2, <1>7, AddRowIs DEF n
  <2> HIDE DEF n
  <2>2. FlattenSeq(n.done) = FirstRows(k)
    BY <2>1, <1>2, FlattenAppend
  <2>3. first \in Seq(Nat) /\ first # <<>> /\ FirstRows(k) \o first = Append(FirstRows(k), i)
    <3>1. ASSUME NEW a \in Seq(Nat), NEW x \in Nat PROVE a \o Append(<<>>, x) = Append(a, x)
      OBVIOUS
    <3>2. ASSUME NEW x \in Nat PROVE Append(<<>>, x) \in Seq(Nat) /\ Append(<<>>, x) # <<>>
      OBVIOUS
    <3> HIDE DEF i
    <3> QED BY <3>1, <3>2, <1>1, <1>3
  <2>4. Rows(first, sizes) /\ Size(first, sizes) = Overhead + sizes[i]
    <3>1. Rows(<<>>, sizes) /\ Size(<<>>, sizes) = Overhead
      BY SizeEmpty
    <3> HIDE DEF i
    <3> QED BY <3>1, <1>1, SizeAppend
  <2>5. Part(first, sizes)
    BY <2>4, <1>1 DEF Part
  <2>6. \A j \in 1..Len(n.done) : Part(n.done[j], sizes)
    <3>1. PICK l \in Nat : l = Len(acc.done)
      BY <1>2, LenProperties
    <3>2. Len(n.done) = l + 1 /\ (\A j \in 1..l : n.done[j] = acc.done[j]) /\ n.done[l + 1] = acc.open
      BY <2>1, <3>1, <1>2, AppendProperties
    <3>3. \A j \in 1..(l + 1) : j = l + 1 \/ j \in 1..l
      OBVIOUS
    <3> QED BY <3>1, <3>2, <3>3, <1>2
  <2>7. Size(first, sizes) <= n.size
    BY <2>1, <2>4, <1>4
  <2> HIDE DEF first
  <2> QED BY <2>1, <2>2, <2>3, <2>5, <2>6, <2>7, <1>3, <1>5 DEF SplitUpTo, n
<1>8. CASE ~(acc.size + item_size > SizeLimit)
  <2>1. n.done = acc.done /\ n.open = Append(acc.open, i) /\ n.size = acc.size + item_size
    <3> HIDE DEF n
    <3> QED BY <1>1, <1>2, <1>8, AddRowIs DEF n
  <2> HIDE DEF n
  <2>2. FlattenSeq(acc.done) \o Append(acc.open, i) = Append(FirstRows(k), i)
    <3>1. ASSUME NEW a \in Seq(Nat), NEW b \in Seq(Nat), NEW x \in Nat
          PROVE  a \o Append(b, x) = Append(a \o b, x)
      OBVIOUS
    <3>2. FlattenSeq(acc.done) \o Append(acc.open, i) = Append(FlattenSeq(acc.done) \o acc.open, i)
      <4> HIDE DEF i
      <4> QED BY <3>1, <1>1, <1>2
    <3> QED BY <3>2, <1>2
  <2>3. Rows(n.open, sizes) /\ Size(n.open, sizes) = Size(acc.open, sizes) + sizes[i]
    <3> HIDE DEF i
    <3> QED BY <2>1, <1>1, <1>6, SizeAppend
  <2>4. Size(n.open, sizes) <= n.size
    <3> HIDE DEF n, i
    <3>2. Size(acc.open, sizes) + sizes[i] <= acc.size + (Overhead + sizes[i])
      BY <1>2, <1>4, <1>6, SumIsNotLess
    <3> QED BY <3>2, <2>1, <2>3
  <2>5. Size(n.open, sizes) <= SizeLimit
    BY <2>1, <2>4, <1>2, <1>4, <1>6, <1>8, <2>3
  <2>6. Part(n.open, sizes)
    BY <2>3, <2>5 DEF Part
  <2>7. n.open # <<>>
    <3> HIDE DEF i
    <3>1. Len(n.open) = Len(acc.open) + 1 /\ Len(acc.open) \in Nat
      BY <2>1, <1>1, <1>2, AppendProperties, LenProperties
    <3>2. Len(n.open) # 0
      BY <3>1
    <3> QED BY <3>2, EmptySeq
  <2>8. FlattenSeq(n.done) \in Seq(Nat) /\ FlattenSeq(n.done) \o n.open = FirstRows(i)
    BY <2>1, <2>2, <1>2, <1>3
  <2>9. \A j \in 1..Len(n.done) : Part(n.done[j], sizes)
    BY <2>1, <1>2
  <2> QED BY <2>4, <2>6, <2>7, <2>8, <2>9, <1>5 DEF SplitUpTo, n
<1> QED BY <1>7, <1>8

\* after, as split_large_dict uses it.
Splitting(f, sizes) ==
  f = [n \in 0 .. Len(sizes) |-> IF n = 0 THEN NoRows ELSE AddRow(f[n - 1], n, sizes)]

LEMMA SplittingExists ==
  ASSUME NEW sizes \in Seq(Nat)
  PROVE  \E f : Splitting(f, sizes)
<1> DEFINE A == AccType
           base == NoRows
<1>1. PICK n \in Nat : n = Len(sizes)
  BY LenProperties
<1> DEFINE rule == [k \in 1..n |-> [x \in A |-> AddRow(x, k, sizes)]]
<1>2. Steps(rule, A, n)
  <2>1. \A k \in 1..n, x \in A : AddRow(x, k, sizes) \in A
    BY <1>1, AddRowTyped
  <2> HIDE DEF A
  <2> QED BY <2>1 DEF Steps
<1>3. \A k \in 1..n, x \in A : rule[k][x] = AddRow(x, k, sizes)
  OBVIOUS
<1>4. base \in A
  <2>1. <<>> \in Seq(Nat) /\ <<>> \in Seq(Seq(Nat)) /\ Overhead \in Nat
    BY ResponseAssumption
  <2> QED BY <2>1 DEF AccType, Pieces, NoRows
<1> HIDE DEF rule, A, base
<1>5. PICK f : Solves(f, base, rule, A, n)
  BY <1>2, <1>4, Recursion
<1> DEFINE h == [k \in 0..n |-> IF k = 0 THEN NoRows ELSE AddRow(f[k - 1], k, sizes)]
<1>6. ASSUME NEW k \in 0..n PROVE f[k] = h[k]
  <2>1. CASE k = 0
    BY <2>1, <1>5 DEF Solves, base
  <2>2. CASE k # 0
    <3>1. k \in 1..n /\ k - 1 \in 0..n
      BY <2>2
    <3>2. f[k - 1] \in A /\ f[k] = rule[k][f[k - 1]]
      BY <3>1, <1>5 DEF Solves
    <3> QED BY <2>2, <3>1, <3>2, <1>3
  <2> QED BY <2>1, <2>2
<1>7. f = h
  BY <1>5, <1>6 DEF Solves
<1>8. Splitting(f, sizes)
  BY <1>1, <1>7 DEF Splitting
<1> QED BY <1>8

LEMMA SplitFact ==
  ASSUME NEW sizes \in Seq(Nat), Len(sizes) # 0
  PROVE  LET parts == split_large_dict(sizes)
         IN  /\ parts \in Seq(Seq(Nat)) /\ parts # <<>>
             /\ FlattenSeq(parts) = FirstRows(Len(sizes))
             /\ \A j \in 1..Len(parts) : Part(parts[j], sizes)
<1> DEFINE after == CHOOSE f : Splitting(f, sizes)
           end == after[Len(sizes)]
<1>1. Splitting(after, sizes)
  BY SplittingExists
<1>2. split_large_dict(sizes) = IF end.open = <<>> THEN end.done ELSE Append(end.done, end.open)
  BY DEF split_large_dict, Splitting
<1> HIDE DEF after
<1>3. PICK n \in Nat : n = Len(sizes)
  BY LenProperties
<1> DEFINE S == {k \in Nat : k <= n => SplitUpTo(after[k], k, sizes)}
<1>4. 0 \in S
  <2>1. after[0] = NoRows
    <3>1. 0 \in 0..Len(sizes)
      BY <1>3
    <3> QED BY <3>1, <1>1 DEF Splitting
  <2>2. NoRows.done = <<>> /\ NoRows.open = <<>> /\ NoRows.size = Overhead
    BY DEF NoRows
  <2>3. <<>> \in Seq(Nat) /\ <<>> \in Seq(Seq(Nat)) /\ Overhead \in Nat /\ Overhead <= SizeLimit
    BY ResponseAssumption
  <2>4. NoRows \in AccType
    BY <2>3 DEF AccType, Pieces, NoRows
  <2>5. FlattenSeq(<<>>) = <<>> /\ <<>> \o <<>> = <<>>
    BY FlattenEmpty
  <2>6. FirstRows(0) = <<>>
    BY FirstRowsFact
  <2>7. Rows(<<>>, sizes) /\ Size(<<>>, sizes) = Overhead
    BY SizeEmpty
  <2>8. Part(<<>>, sizes) /\ Size(<<>>, sizes) <= Overhead
    BY <2>3, <2>7 DEF Part
  <2>9. Len(<<>>) = 0
    OBVIOUS
  <2>10. FlattenSeq(NoRows.done) \in Seq(Nat) /\ FlattenSeq(NoRows.done) \o NoRows.open = FirstRows(0)
    BY <2>2, <2>3, <2>5, <2>6
  <2>11. \A j \in 1..Len(NoRows.done) : Part(NoRows.done[j], sizes)
    BY <2>2, <2>9
  <2>12. Part(NoRows.open, sizes) /\ Size(NoRows.open, sizes) <= NoRows.size
    BY <2>2, <2>8
  <2>13. SplitUpTo(NoRows, 0, sizes)
    BY <2>4, <2>10, <2>11, <2>12 DEF SplitUpTo
  <2> QED BY <2>1, <2>13
<1>5. ASSUME NEW k \in Nat, k \in S PROVE k + 1 \in S
  <2> SUFFICES ASSUME k + 1 <= n PROVE SplitUpTo(after[k + 1], k + 1, sizes)
    OBVIOUS
  <2>1. k + 1 \in 0..n /\ k + 1 # 0 /\ k + 1 \in 1..n /\ (k + 1) - 1 = k /\ k <= n
    OBVIOUS
  <2>2. after[k + 1] = AddRow(after[k], k + 1, sizes)
    BY <2>1, <1>1, <1>3 DEF Splitting
  <2>3. SplitUpTo(after[k], k, sizes)
    BY <1>5, <2>1
  <2> QED BY <2>1, <2>2, <2>3, <1>3, SplitStep
<1> HIDE DEF S
<1>6. n \in S
  BY <1>4, <1>5, SetInduction
<1>7. SplitUpTo(end, n, sizes) /\ n > 0
  BY <1>3, <1>6 DEF S
<1> HIDE DEF end
<1>8. /\ end.done \in Seq(Seq(Nat)) /\ end.open \in Seq(Nat) /\ end.open # <<>>
      /\ FlattenSeq(end.done) \in Seq(Nat) /\ FlattenSeq(end.done) \o end.open = FirstRows(n)
      /\ Part(end.open, sizes) /\ \A j \in 1..Len(end.done) : Part(end.done[j], sizes)
  BY <1>7 DEF SplitUpTo, AccType, Pieces
<1> DEFINE parts == Append(end.done, end.open)
<1>9. split_large_dict(sizes) = parts
  BY <1>2, <1>8
<1>10. FlattenSeq(parts) = FirstRows(n)
  BY <1>8, FlattenAppend
<1>11. PICK l \in Nat : l = Len(end.done)
  BY <1>8, LenProperties
<1>12. /\ parts \in Seq(Seq(Nat)) /\ Len(parts) = l + 1
       /\ (\A j \in 1..l : parts[j] = end.done[j]) /\ parts[l + 1] = end.open
  BY <1>8, <1>11, AppendProperties
<1> HIDE DEF parts
<1>13. parts # <<>>
  <2>1. Len(parts) # 0
    BY <1>12
  <2> QED BY <2>1, EmptySeq
<1>14. \A j \in 1..Len(parts) : Part(parts[j], sizes)
  <2>1. \A j \in 1..(l + 1) : j = l + 1 \/ j \in 1..l
    OBVIOUS
  <2> QED BY <2>1, <1>8, <1>11, <1>12
<1> QED BY <1>3, <1>9, <1>10, <1>12, <1>13, <1>14

\* What create_json_payload makes of a job.
Made(made, j) ==
  /\ made \in Seq(PayloadType) /\ made # <<>>
  /\ \A i \in 1..Len(made) :
       /\ made[i].fragment = i - 1 /\ made[i].fragment_count = Len(made)
       /\ made[i].status = IF j.outcome = "failed" THEN "failed" ELSE "success"
       /\ \/ Size(made[i].data, j.rows) <= PayloadLimit
          \/ \E k \in 1..Len(j.rows) : Overhead + j.rows[k] > PayloadLimit
  /\ FlattenSeq([i \in 1..Len(made) |-> made[i].data]) = FirstRows(Len(j.rows))
  /\ Len(made) > 1 => j.outcome = "rows"
Jobs == [rows : RowLists, outcome : Outcomes, max_retries : Nat]

LEMMA FlattenOne ==
  ASSUME NEW d \in Seq(Nat)
  PROVE  FlattenSeq([i \in 1..1 |-> d]) = d
<1> DEFINE seqs == [i \in 1..1 |-> d]
<1>1. seqs \in Seq(Seq(Nat))
  BY IsASeq
<1>2. Len(seqs) = 1 /\ seqs[1] = d
  <2>1. DOMAIN seqs = 1..1
    OBVIOUS
  <2>2. seqs[1] = d
    OBVIOUS
  <2> HIDE DEF seqs
  <2>3. Len(seqs) = 1
    BY <1>1, <2>1
  <2> QED BY <2>2, <2>3
<1> HIDE DEF seqs
<1>3. Len(seqs) # 0
  BY <1>2
<1>4. PICK f : Flattening(f, seqs)
  BY <1>1, <1>3, FlatteningExists
<1>5. f[1] = seqs[1]
  <2>1. 1 \in 1..Len(seqs)
    BY <1>2
  <2> QED BY <2>1, <1>4 DEF Flattening
<1>6. FlattenSeq(seqs) = f[Len(seqs)]
  BY <1>1, <1>3, <1>4, FlattenIs
<1>7. FlattenSeq(seqs) = d
  BY <1>2, <1>5, <1>6
<1> QED BY <1>7 DEF seqs

LEMMA AllRowsIs ==
  ASSUME NEW sizes \in Seq(Nat)
  PROVE  /\ AllRows(sizes) = FirstRows(Len(sizes)) /\ AllRows(sizes) \in Seq(Nat)
         /\ Rows(AllRows(sizes), sizes) /\ Size(AllRows(sizes), sizes) \in Nat
<1>1. Len(sizes) \in Nat /\ DOMAIN sizes = 1..Len(sizes)
  BY LenProperties
<1>2. AllRows(sizes) = FirstRows(Len(sizes))
  BY <1>1 DEF AllRows, FirstRows
<1>3. FirstRows(Len(sizes)) \in Seq(Nat) /\ Len(FirstRows(Len(sizes))) = Len(sizes)
  BY <1>1, FirstRowsFact
<1>4. \A i \in 1..Len(sizes) : FirstRows(Len(sizes))[i] = i
  BY DEF FirstRows
<1>5. Rows(AllRows(sizes), sizes)
  BY <1>2, <1>3, <1>4 DEF Rows
<1> QED BY <1>2, <1>3, <1>5, SizeFact

\* The fragments made of a sequence of parts.
MadeOf(parts, status) == [i \in DOMAIN parts |-> Payload(i - 1, Len(parts), status, parts[i])]

LEMMA MadeOfParts ==
  ASSUME NEW parts \in Seq(Seq(Nat)), parts # <<>>, NEW status \in {"success", "failed"}
  PROVE  LET made == MadeOf(parts, status)
         IN  /\ made \in Seq(PayloadType) /\ made # <<>> /\ Len(made) = Len(parts)
             /\ \A i \in 1..Len(made) :
                  /\ made[i].fragment = i - 1 /\ made[i].fragment_count = Len(parts)
                  /\ made[i].status = status /\ made[i].data = parts[i]
             /\ [i \in 1..Len(made) |-> made[i].data] = parts
<1>1. PICK n \in Nat : n = Len(parts) /\ n # 0
  BY LenProperties, EmptySeq
<1>2. DOMAIN parts = 1..n /\ parts \in [1..n -> Seq(Nat)]
  BY <1>1, LenProperties
<1> DEFINE made == MadeOf(parts, status)
           pay(i) == Payload(i - 1, n, status, parts[i])
<1>3. ASSUME NEW i \in 1..n
      PROVE  /\ pay(i) \in PayloadType /\ pay(i).fragment = i - 1 /\ pay(i).fragment_count = n
             /\ pay(i).status = status /\ pay(i).data = parts[i]
  <2>1. i - 1 \in Nat /\ parts[i] \in Seq(Nat) /\ status \in {"success", "failed", "none"}
    BY <1>2
  <2> DEFINE m == i - 1
             d == parts[i]
  <2>2. m \in Nat /\ d \in Seq(Nat)
    BY <2>1
  <2> HIDE DEF m, d
  <2>3. /\ Payload(m, n, status, d) \in PayloadType
        /\ Payload(m, n, status, d).fragment = m /\ Payload(m, n, status, d).fragment_count = n
        /\ Payload(m, n, status, d).status = status /\ Payload(m, n, status, d).data = d
    BY <2>1, <2>2 DEF Payload, PayloadType
  <2> QED BY <2>3 DEF m, d
<1>4. made = [i \in 1..n |-> pay(i)]
  BY <1>1, <1>2 DEF MadeOf
<1> HIDE DEF pay
<1>5. made \in Seq(PayloadType)
  <2>1. [i \in 1..n |-> pay(i)] \in Seq(PayloadType)
    BY <1>3, IsASeq
  <2> QED BY <2>1, <1>4
<1>6. DOMAIN made = 1..n /\ \A i \in 1..n : made[i] = pay(i)
  BY <1>4
<1> HIDE DEF made
<1>7. Len(made) = n
  BY <1>5, <1>6
<1>8. made # <<>>
  BY <1>1, <1>7
<1>9. \A i \in 1..n : made[i].fragment = i - 1 /\ made[i].fragment_count = n
                      /\ made[i].status = status /\ made[i].data = parts[i]
  BY <1>3, <1>6
<1>10. [i \in 1..n |-> made[i].data] = parts
  <2>1. [i \in 1..n |-> made[i].data] = [i \in 1..n |-> parts[i]]
    BY <1>9
  <2> QED BY <2>1, <1>2
<1> QED BY <1>1, <1>5, <1>7, <1>8, <1>9, <1>10 DEF made

LEMMA ConstantPart ==
  ASSUME NEW d, NEW status
  PROVE  /\ <<d>> = [i \in 1..1 |-> d]
         /\ MadeOf([i \in 1..1 |-> d], status) = <<Payload(0, 1, status, d)>>
<1>1. <<d>> = [i \in 1..1 |-> d]
  OBVIOUS
<1> DEFINE parts == [i \in 1..1 |-> d]
           made == MadeOf(parts, status)
<1>2. DOMAIN parts = 1..1 /\ Len(parts) = 1 /\ parts[1] = d
  BY <1>1
<1> HIDE DEF parts
<1>3. made = [i \in 1..1 |-> Payload(0, 1, status, d)]
  <2>1. \A i \in 1..1 : i = 1 /\ i - 1 = 0
    OBVIOUS
  <2> QED BY <2>1, <1>2 DEF MadeOf
<1>4. [i \in 1..1 |-> Payload(0, 1, status, d)] = <<Payload(0, 1, status, d)>>
  OBVIOUS
<1>5. made = <<Payload(0, 1, status, d)>>
  BY <1>3, <1>4
<1> QED BY <1>1, <1>5 DEF parts

LEMMA MadeFact ==
  ASSUME NEW j \in Jobs, j.outcome = "rows" \/ j.rows = <<>>
  PROVE  Made(create_json_payload(j), j)
<1> DEFINE status == IF j.outcome = "failed" THEN "failed" ELSE "success"
           made(parts) == MadeOf(parts, status)
<1>1. j.rows \in Seq(Nat) /\ status \in {"success", "failed"}
  BY ResponseAssumption DEF Jobs
<1>2. PICK n \in Nat : n = Len(j.rows)
  BY <1>1, LenProperties
<1>3. SizeLimit \in Nat /\ Overhead \in Nat /\ PayloadLimit = 2 * SizeLimit /\ Overhead <= SizeLimit
  BY ResponseAssumption DEF PayloadLimit
<1>4. \A x \in Nat : x <= SizeLimit => x <= PayloadLimit
  BY <1>3
\* It suffices that the fragments are those of suitable parts.
<1>5. ASSUME NEW parts \in Seq(Seq(Nat)), parts # <<>>, create_json_payload(j) = made(parts),
             FlattenSeq(parts) = FirstRows(n), \A i \in 1..Len(parts) : Part(parts[i], j.rows),
             Len(parts) > 1 => j.outcome = "rows"
      PROVE  Made(create_json_payload(j), j)
  <2> DEFINE F == made(parts)
  <2> HIDE DEF status
  <2>1. /\ F \in Seq(PayloadType) /\ F # <<>> /\ Len(F) = Len(parts)
        /\ \A i \in 1..Len(F) :
             /\ F[i].fragment = i - 1 /\ F[i].fragment_count = Len(parts)
             /\ F[i].status = status /\ F[i].data = parts[i]
        /\ [i \in 1..Len(F) |-> F[i].data] = parts
    BY <1>1, <1>5, MadeOfParts
  <2>2. F = create_json_payload(j)
    BY <1>5
  <2> HIDE DEF F
  <2>3. ASSUME NEW i \in 1..Len(F)
        PROVE  \/ Size(F[i].data, j.rows) <= PayloadLimit
               \/ \E k \in 1..Len(j.rows) : Overhead + j.rows[k] > PayloadLimit
    <3>1. Part(parts[i], j.rows) /\ F[i].data = parts[i]
      BY <2>1, <1>5
    <3>2. Size(parts[i], j.rows) \in Nat
      BY <3>1, SizeFact DEF Part
    <3>3. CASE Size(parts[i], j.rows) <= SizeLimit
      BY <3>1, <3>2, <3>3, <1>4
    <3>4. CASE \E k \in 1..Len(j.rows) : Size(parts[i], j.rows) = Overhead + j.rows[k]
      <4>1. PICK k \in 1..Len(j.rows) : Size(parts[i], j.rows) = Overhead + j.rows[k]
        BY <3>4
      <4>2. PayloadLimit \in Nat
        BY <1>3
      <4>3. Size(parts[i], j.rows) <= PayloadLimit \/ Size(parts[i], j.rows) > PayloadLimit
        BY <3>2, <4>2
      <4> QED BY <3>1, <4>1, <4>3
    <3> QED BY <3>1, <3>3, <3>4 DEF Part
  <2>4. FlattenSeq([i \in 1..Len(F) |-> F[i].data]) = FirstRows(Len(j.rows))
    BY <2>1, <1>2, <1>5
  <2>5. Made(F, j)
    BY <2>1, <2>3, <2>4, <1>5 DEF Made, status
  <2> QED BY <2>2, <2>5
<1>6. ASSUME NEW d \in Seq(Nat), d = FirstRows(n), Part(d, j.rows), create_json_payload(j) = made([i \in 1..1 |-> d])
      PROVE  Made(create_json_payload(j), j)
  <2> DEFINE parts == [i \in 1..1 |-> d]
  <2>1. parts \in Seq(Seq(Nat))
    BY IsASeq
  <2>2. DOMAIN parts = 1..1 /\ parts[1] = d
    OBVIOUS
  <2>3. FlattenSeq(parts) = FirstRows(n)
    BY <1>6, FlattenOne
  <2>4. create_json_payload(j) = made(parts)
    BY <1>6
  <2> HIDE DEF parts, made
  <2>5. Len(parts) = 1
    BY <2>1, <2>2
  <2>6. parts # <<>> /\ \A i \in 1..Len(parts) : i = 1
    <3>1. parts # <<>>
      <4>1. Len(<<>>) = 0
        OBVIOUS
      <4>2. Len(parts) # Len(<<>>)
        BY <4>1, <2>5
      <4> QED BY <4>2, Zenon
    <3>2. \A i \in 1..1 : i = 1
      OBVIOUS
    <3> QED BY <3>1, <3>2, <2>5
  <2>7. ~(Len(parts) > 1)
    BY <2>5
  <2>8. \A i \in 1..Len(parts) : Part(parts[i], j.rows)
    BY <2>2, <2>6, <1>6
  <2> QED BY <2>1, <2>3, <2>4, <2>6, <2>7, <2>8, <1>5
<1>7. CASE j.outcome # "rows"
  <2> DEFINE d == <<>>
  <2>1. j.rows = d /\ d \in Seq(Nat) /\ Len(d) = 0
    BY <1>7
  <2>2. d = FirstRows(n)
    BY <2>1, <1>2, FirstRowsFact
  <2>3. Rows(d, j.rows) /\ Size(d, j.rows) = Overhead
    BY <1>1, SizeEmpty
  <2>4. Part(d, j.rows)
    BY <2>3, <1>3 DEF Part
  <2>5. create_json_payload(j) = <<Payload(0, 1, status, d)>>
    BY <1>7 DEF create_json_payload, MadeOf
  <2> HIDE DEF d
  <2>6. made([i \in 1..1 |-> d]) = <<Payload(0, 1, status, d)>>
    BY ConstantPart
  <2> QED BY <2>1, <2>2, <2>4, <2>5, <2>6, <1>6
<1>8. CASE j.outcome = "rows" /\ Size(AllRows(j.rows), j.rows) > SizeLimit
  <2> DEFINE parts == split_large_dict(j.rows)
  <2>1. create_json_payload(j) = made(parts)
    BY <1>8 DEF create_json_payload, MadeOf
  <2>2. n # 0
    <3> SUFFICES ASSUME n = 0 PROVE FALSE
      OBVIOUS
    <3>1. AllRows(j.rows) = <<>>
      BY <1>1, <1>2, AllRowsIs, FirstRowsFact
    <3>2. Size(<<>>, j.rows) = Overhead
      BY <1>1, SizeEmpty
    <3> QED BY <3>1, <3>2, <1>3, <1>8
  <2>3. /\ parts \in Seq(Seq(Nat)) /\ parts # <<>> /\ FlattenSeq(parts) = FirstRows(n)
        /\ \A i \in 1..Len(parts) : Part(parts[i], j.rows)
    BY <2>2, <1>1, <1>2, SplitFact
  <2> HIDE DEF parts, made
  <2> QED BY <2>1, <2>3, <1>5, <1>8
<1>9. CASE j.outcome = "rows" /\ ~(Size(AllRows(j.rows), j.rows) > SizeLimit)
  <2> DEFINE d == AllRows(j.rows)
  <2>1. d \in Seq(Nat) /\ d = FirstRows(n) /\ Rows(d, j.rows) /\ Size(d, j.rows) \in Nat
    BY <1>1, <1>2, AllRowsIs
  <2>2. Part(d, j.rows)
    BY <2>1, <1>3, <1>9 DEF Part
  <2>3. create_json_payload(j) = made(<<d>>)
    BY <1>9 DEF create_json_payload, MadeOf
  <2> HIDE DEF d
  <2>4. <<d>> = [i \in 1..1 |-> d]
    BY ConstantPart
  <2> HIDE DEF made
  <2> QED BY <2>1, <2>2, <2>3, <2>4, <1>6
<1> QED BY <1>7, <1>8, <1>9

-----------------------------------------------------------------------------
(* Fragments sorted and combined.                                          *)

Preceding(list, i) ==
  {k \in DOMAIN list : \/ list[k].fragment < list[i].fragment
                       \/ list[k].fragment = list[i].fragment /\ k < i}

LEMMA SortedIs ==
  ASSUME NEW list
  PROVE  Sorted(list) = [n \in DOMAIN list |->
                           list[CHOOSE i \in DOMAIN list : Cardinality(Preceding(list, i)) = n - 1]]
BY DEF Sorted, Preceding

LEMMA FragmentRank ==
  ASSUME NEW list \in Seq(PayloadType), NEW n \in Nat, n = Len(list)
  PROVE  \A m \in 1..n : \E i \in 1..n : Cardinality(Preceding(list, i)) = m - 1
<1> DEFINE key == [k \in 1..n |-> list[k].fragment]
<1>1. DOMAIN list = 1..n /\ \A i \in 1..n : list[i].fragment \in Nat
  <2>1. DOMAIN list = 1..n
    BY LenProperties
  <2>2. \A i \in 1..n : list[i] \in PayloadType
    BY ElementOfSeq
  <2> QED BY <2>1, <2>2 DEF PayloadType
<1>2. key \in [1..n -> Nat]
  BY <1>1
<1>3. \A i \in 1..n : Preceding(list, i) = Earlier(key, i)
  BY <1>1 DEF Preceding, Earlier
<1> HIDE DEF key
<1>4. \A m \in 1..n : \E i \in 1..n : Cardinality(Earlier(key, i)) = m - 1
  BY <1>2, RankFact
<1> QED BY <1>3, <1>4

LEMMA SortedFact ==
  ASSUME NEW list \in Seq(PayloadType)
  PROVE  /\ Sorted(list) \in Seq(PayloadType) /\ Len(Sorted(list)) = Len(list)
         /\ \A m \in 1..Len(list) : \E i \in 1..Len(list) :
              Sorted(list)[m] = list[i] /\ Cardinality(Preceding(list, i)) = m - 1
<1>1. PICK n \in Nat : n = Len(list)
  BY LenProperties
<1>2. DOMAIN list = 1..n
  BY <1>1, LenProperties
<1> DEFINE at(m) == CHOOSE i \in DOMAIN list : Cardinality(Preceding(list, i)) = m - 1
<1>3. \A m \in 1..n : at(m) \in 1..n /\ Cardinality(Preceding(list, at(m))) = m - 1
  <2>1. \A m \in 1..n : \E i \in DOMAIN list : Cardinality(Preceding(list, i)) = m - 1
    BY <1>1, <1>2, FragmentRank
  <2> QED BY <2>1, <1>2
<1>40. Sorted(list) = [m \in DOMAIN list |-> list[at(m)]]
  BY SortedIs
<1> HIDE DEF at
<1>4. Sorted(list) = [m \in 1..n |-> list[at(m)]]
  BY <1>40, <1>2
<1>5. \A m \in 1..n : list[at(m)] \in PayloadType
  BY <1>1, <1>3, ElementOfSeq
<1>6. Sorted(list) \in Seq(PayloadType)
  <2>1. [m \in 1..n |-> list[at(m)]] \in Seq(PayloadType)
    BY <1>5, IsASeq
  <2> QED BY <2>1, <1>4
<1>7. DOMAIN Sorted(list) = 1..n
  BY <1>4
<1>8. Len(Sorted(list)) = n
  BY <1>6, <1>7
<1> QED BY <1>1, <1>3, <1>4, <1>6, <1>8

\* Of n fragments with the numbers below n each comes to its place.
LEMMA SortedInPlace ==
  ASSUME NEW list \in Seq(PayloadType),
         \A i \in 1..Len(list) : list[i].fragment \in 0..(Len(list) - 1),
         \A i \in 1..Len(list), k \in 1..Len(list) : list[i].fragment = list[k].fragment => i = k
  PROVE  \A m \in 1..Len(list) : Sorted(list)[m].fragment = m - 1
<1>1. PICK n \in Nat : n = Len(list)
  BY LenProperties
<1>2. DOMAIN list = 1..n
  BY <1>1, LenProperties
<1> DEFINE frag == [i \in 1..n |-> list[i].fragment]
<1>3. frag \in [1..n -> 0..(n - 1)] /\ \A i \in 1..n, k \in 1..n : frag[i] = frag[k] => i = k
  BY <1>1
<1>4. \A i \in 1..n : frag[i] = list[i].fragment
  OBVIOUS
<1> HIDE DEF frag
<1>5. \A m \in 0..(n - 1) : \E i \in 1..n : frag[i] = m
  BY <1>3, EveryRankIsTaken
<1>6. ASSUME NEW i \in 1..n PROVE Cardinality(Preceding(list, i)) = frag[i]
  <2>1. PICK a \in Nat : a = frag[i] /\ a <= n - 1
    BY <1>3
  <2> DEFINE S == Preceding(list, i)
             T == 0..(a - 1)
             g == [k \in S |-> frag[k]]
  <2>2. S = {k \in 1..n : frag[k] < a}
    <3>1. \A k \in 1..n : ~(frag[k] = frag[i] /\ k < i)
      <4> SUFFICES ASSUME NEW k \in 1..n, frag[k] = frag[i], k < i PROVE FALSE
        OBVIOUS
      <4>1. k = i
        BY <1>3
      <4> QED BY <4>1
    <3> QED BY <3>1, <2>1, <1>2, <1>4 DEF Preceding
  <2>3. g \in [S -> T]
    <3>1. \A k \in S : frag[k] \in T
      <4> SUFFICES ASSUME NEW k \in 1..n, frag[k] < a PROVE frag[k] \in T
        BY <2>2
      <4>1. PICK b \in Nat : b = frag[k]
        BY <1>3
      <4>2. b < a => b \in 0..(a - 1)
        OBVIOUS
      <4> QED BY <4>1, <4>2
    <3> QED BY <3>1
  <2>4. \A x \in S, y \in S : g[x] = g[y] => x = y
    BY <2>2, <1>3
  <2>5. \A m \in T : \E k \in S : g[k] = m
    <3> SUFFICES ASSUME NEW m \in T PROVE \E k \in S : g[k] = m
      OBVIOUS
    <3>1. m \in 0..(n - 1) /\ m < a
      BY <2>1
    <3>2. PICK k \in 1..n : frag[k] = m
      BY <3>1, <1>5
    <3> QED BY <3>1, <3>2, <2>2
  <2>6. IsFiniteSet(T) /\ Cardinality(T) = a
    <3>1. 0 \in Int /\ a - 1 \in Int
      OBVIOUS
    <3>2. IsFiniteSet(T) /\ Cardinality(T) = IF 0 > a - 1 THEN 0 ELSE (a - 1) - 0 + 1
      BY <3>1, FS_Interval
    <3>3. (IF 0 > a - 1 THEN 0 ELSE (a - 1) - 0 + 1) = a
      OBVIOUS
    <3> QED BY <3>2, <3>3
  <2> HIDE DEF S, T, g
  <2>7. g \in Injection(S, T)
    BY <2>3, <2>4 DEF Injection, IsInjective
  <2>8. g \in Surjection(S, T)
    BY <2>3, <2>5 DEF Surjection
  <2>9. Cardinality(S) = Cardinality(T)
    BY <2>6, <2>7, <2>8, FS_Injection
  <2> QED BY <2>1, <2>6, <2>9 DEF S
<1>7. ASSUME NEW m \in 1..n PROVE Sorted(list)[m].fragment = m - 1
  <2>1. PICK i \in 1..n : Sorted(list)[m] = list[i] /\ Cardinality(Preceding(list, i)) = m - 1
    BY <1>1, SortedFact
  <2> QED BY <2>1, <1>4, <1>6
<1> QED BY <1>1, <1>7

\* What _combine_fragments gives, whatever was collected.
LEMMA CombinedTyped ==
  ASSUME NEW list \in Seq(PayloadType), list # <<>>
  PROVE  /\ Combined(list) \in PayloadType
         /\ \E i \in 1..Len(list) : Combined(list).status = list[i].status
         /\ Combined(list).data = FlattenSeq([i \in 1..Len(list) |-> Sorted(list)[i].data])
<1> DEFINE sorted == Sorted(list)
<1>1. PICK n \in Nat : n = Len(list) /\ n # 0
  BY LenProperties, EmptySeq
<1>2. sorted \in Seq(PayloadType) /\ Len(sorted) = n
  BY <1>1, SortedFact
<1>3. 1 \in 1..n
  BY <1>1
<1>4. PICK i \in 1..n : sorted[1] = list[i]
  BY <1>1, <1>3, SortedFact
<1> DEFINE data == [k \in DOMAIN sorted |-> sorted[k].data]
           status == sorted[1].status
<1>5. Combined(list) = Payload(0, 1, status, FlattenSeq(data))
  BY DEF Combined
<1> HIDE DEF sorted
<1>6. DOMAIN sorted = 1..n
  BY <1>2, LenProperties
<1>7. \A k \in 1..n : sorted[k] \in PayloadType
  BY <1>2, ElementOfSeq
<1>8. data = [k \in 1..n |-> sorted[k].data]
  BY <1>6
<1>9. data \in Seq(Seq(Nat))
  <2>1. \A k \in 1..n : sorted[k].data \in Seq(Nat)
    BY <1>7 DEF PayloadType
  <2>2. [k \in 1..n |-> sorted[k].data] \in Seq(Seq(Nat))
    BY <2>1, IsASeq
  <2> QED BY <2>2, <1>8
<1>10. status \in {"success", "failed", "none"}
  BY <1>3, <1>7 DEF PayloadType
<1> DEFINE rows == FlattenSeq(data)
<1>11. rows \in Seq(Nat)
  BY <1>9, FlattenTyped
<1> HIDE DEF data
<1> HIDE DEF rows, status
<1>12. Combined(list) = Payload(0, 1, status, rows)
  BY <1>5 DEF rows
<1>13. Combined(list) \in PayloadType /\ Combined(list).status = status /\ Combined(list).data = rows
  BY <1>10, <1>11, <1>12 DEF Payload, PayloadType
<1>14. rows = FlattenSeq([k \in 1..n |-> Sorted(list)[k].data])
  BY <1>8 DEF rows, sorted
<1>15. status = list[i].status
  BY <1>4 DEF status
<1> QED BY <1>1, <1>13, <1>14, <1>15

\* Of all the fragments of a result it gives the result.
LEMMA CombinedInOrder ==
  ASSUME NEW j \in Jobs, NEW made, Made(made, j), NEW list \in Seq(PayloadType),
         Len(list) = Len(made),
         \A i \in 1..Len(list) : /\ list[i].fragment \in 0..(Len(list) - 1)
                                 /\ list[i] = made[list[i].fragment + 1],
         \A i \in 1..Len(list), k \in 1..Len(list) : list[i].fragment = list[k].fragment => i = k
  PROVE  Combined(list).data = AllRows(j.rows)
<1>1. made \in Seq(PayloadType) /\ made # <<>>
  BY DEF Made
<1>2. PICK n \in Nat : n = Len(made) /\ n # 0 /\ n = Len(list)
  BY <1>1, LenProperties, EmptySeq
<1>3. list # <<>>
  BY <1>2, EmptySeq
<1>4. Sorted(list) \in Seq(PayloadType) /\ Len(Sorted(list)) = n
  BY <1>2, SortedFact
<1>5. ASSUME NEW m \in 1..n PROVE Sorted(list)[m] = made[m]
  <2>1. PICK i \in 1..n : Sorted(list)[m] = list[i]
    BY <1>2, SortedFact
  <2>2. Sorted(list)[m].fragment = m - 1
    <3>1. \A k \in 1..Len(list) : list[k].fragment \in 0..(Len(list) - 1)
      OBVIOUS
    <3> QED BY <3>1, <1>2, SortedInPlace
  <2>3. list[i] = made[(m - 1) + 1]
    BY <2>1, <2>2, <1>2
  <2>4. (m - 1) + 1 = m
    OBVIOUS
  <2> QED BY <2>1, <2>3, <2>4
<1>6. Sorted(list) = made
  BY <1>1, <1>2, <1>4, <1>5, SeqEqual
<1>7. Combined(list).data = FlattenSeq([i \in 1..Len(made) |-> made[i].data])
  BY <1>2, <1>3, <1>6, CombinedTyped
<1>8. j.rows \in Seq(Nat)
  BY ResponseAssumption DEF Jobs
<1> QED BY <1>7, <1>8, AllRowsIs DEF Made

-----------------------------------------------------------------------------
(* Sequences of fragments that grow and shrink.                            *)

LEMMA LastAdded ==
  ASSUME NEW S, NEW s \in Seq(S), NEW m \in S
  PROVE  /\ Append(s, m) \in Seq(S) /\ Len(s) \in Nat /\ Len(Append(s, m)) = Len(s) + 1
         /\ \A i \in 1..Len(Append(s, m)) : (i \in 1..Len(s) /\ Append(s, m)[i] = s[i])
                                            \/ (i = Len(s) + 1 /\ Append(s, m)[i] = m)
<1>1. PICK n \in Nat : n = Len(s)
  BY LenProperties
<1>2. /\ Append(s, m) \in Seq(S) /\ Len(Append(s, m)) = n + 1
      /\ (\A i \in 1..n : Append(s, m)[i] = s[i]) /\ Append(s, m)[n + 1] = m
  BY <1>1, AppendProperties
<1>3. \A i \in 1..(n + 1) : i = n + 1 \/ i \in 1..n
  OBVIOUS
<1> QED BY <1>1, <1>2, <1>3

LEMMA FirstTaken ==
  ASSUME NEW S, NEW s \in Seq(S), s # <<>>
  PROVE  /\ Head(s) \in S /\ Head(s) = s[1] /\ 1 \in 1..Len(s)
         /\ Tail(s) \in Seq(S) /\ Len(s) \in Nat /\ Len(Tail(s)) = Len(s) - 1
         /\ \A i \in 1..Len(Tail(s)) : i + 1 \in 1..Len(s) /\ i + 1 # 1 /\ Tail(s)[i] = s[i + 1]
<1>1. PICK n \in Nat : n = Len(s) /\ n # 0
  BY LenProperties, EmptySeq
<1>2. /\ Head(s) \in S /\ Tail(s) \in Seq(S) /\ Len(Tail(s)) = n - 1
      /\ \A i \in 1..(n - 1) : Tail(s)[i] = s[i + 1]
  <2>1. /\ Head(s) \in S /\ Tail(s) \in Seq(S) /\ Len(Tail(s)) = Len(s) - 1
        /\ \A i \in 1..Len(Tail(s)) : Tail(s)[i] = s[i + 1]
    BY HeadTailProperties
  <2> QED BY <2>1, <1>1
<1>3. \A i \in 1..(n - 1) : i + 1 \in 1..n /\ i + 1 # 1
  BY <1>1
<1>4. Head(s) = s[1]
  OBVIOUS
<1>5. 1 \in 1..n
  BY <1>1
<1> QED BY <1>1, <1>2, <1>3, <1>4, <1>5

LEMMA AllInAppend ==
  ASSUME NEW s \in Seq(PayloadType), NEW m \in PayloadType, NEW S, AllIn(s, S), m \in S
  PROVE  AllIn(Append(s, m), S)
BY LastAdded DEF AllIn

LEMMA AllInTail ==
  ASSUME NEW s \in Seq(PayloadType), s # <<>>, NEW S, AllIn(s, S)
  PROVE  AllIn(Tail(s), S)
BY FirstTaken DEF AllIn

LEMMA AllInMore ==
  ASSUME NEW s, NEW S, NEW T, S \subseteq T, AllIn(s, S)
  PROVE  AllIn(s, T)
BY DEF AllIn

LEMMA Numbered ==
  ASSUME NEW s \in Seq(PayloadType)
  PROVE  \A i \in 1..Len(s) : s[i] \in PayloadType /\ s[i].fragment \in Nat /\ s[i].fragment_count \in Nat
<1>1. \A i \in 1..Len(s) : s[i] \in PayloadType
  BY ElementOfSeq
<1> QED BY <1>1 DEF PayloadType

\* A fragment is pushed: the next one, or a message that is no fragment.
LEMMA OnceOnAppend ==
  ASSUME NEW s \in Seq(PayloadType), NEW m \in PayloadType, NEW b \in Int, NEW b2 \in Int, b <= b2,
         OnceOn(s, b), m.fragment_count > 1 => m.fragment = b /\ b < b2
  PROVE  OnceOn(Append(s, m), b2)
<1> DEFINE t == Append(s, m)
<1>1. /\ t \in Seq(PayloadType)
      /\ \A i \in 1..Len(t) : (i \in 1..Len(s) /\ t[i] = s[i]) \/ (i = Len(s) + 1 /\ t[i] = m)
  BY LastAdded
<1> HIDE DEF t
<1>2. \A i \in 1..Len(s) : s[i].fragment_count > 1 => s[i].fragment < b /\ s[i].fragment \in Nat
  BY Numbered DEF OnceOn
<1>3. \A i \in 1..Len(s), k \in 1..Len(s) :
        s[i].fragment_count > 1 /\ s[k].fragment_count > 1 /\ s[k].fragment = s[i].fragment => k = i
  BY DEF OnceOn
<1>4. \A x \in Nat : x < b => x < b2 /\ x # b
  OBVIOUS
<1>5. ASSUME NEW i \in 1..Len(t), t[i].fragment_count > 1 PROVE t[i].fragment < b2
  <2>1. CASE i \in 1..Len(s) /\ t[i] = s[i]
    BY <2>1, <1>2, <1>4, <1>5
  <2>2. CASE t[i] = m
    BY <2>2, <1>5
  <2> QED BY <2>1, <2>2, <1>1
<1>6. ASSUME NEW i \in 1..Len(t), t[i].fragment_count > 1,
             NEW k \in 1..Len(t), t[k].fragment_count > 1, t[k].fragment = t[i].fragment
      PROVE  k = i
  <2>1. CASE i \in 1..Len(s) /\ t[i] = s[i] /\ k \in 1..Len(s) /\ t[k] = s[k]
    BY <2>1, <1>3, <1>6
  <2>2. CASE i \in 1..Len(s) /\ t[i] = s[i] /\ t[k] = m
    BY <2>2, <1>2, <1>4, <1>6
  <2>3. CASE t[i] = m /\ k \in 1..Len(s) /\ t[k] = s[k]
    BY <2>3, <1>2, <1>4, <1>6
  <2>4. CASE i = Len(s) + 1 /\ k = Len(s) + 1
    BY <2>4
  <2> QED BY <2>1, <2>2, <2>3, <2>4, <1>1
<1>7. OnceOn(t, b2)
  BY <1>5, <1>6 DEF OnceOn
<1> QED BY <1>7 DEF t

LEMMA OnceOnTail ==
  ASSUME NEW s \in Seq(PayloadType), s # <<>>, NEW b \in Int, OnceOn(s, b)
  PROVE  OnceOn(Tail(s), b)
<1> DEFINE t == Tail(s)
<1>1. \A i \in 1..Len(t) : i + 1 \in 1..Len(s) /\ t[i] = s[i + 1]
  BY FirstTaken
<1>2. Len(t) \in Nat
  BY FirstTaken, LenProperties
<1> HIDE DEF t
<1>3. \A i \in 1..Len(t), k \in 1..Len(t) : i + 1 = k + 1 => i = k
  BY <1>2
<1>4. OnceOn(t, b)
  BY <1>1, <1>3 DEF OnceOn
<1> QED BY <1>4 DEF t

LEMMA OnceAppend ==
  ASSUME NEW c \in Seq(PayloadType), NEW s \in Seq(PayloadType), NEW m \in PayloadType,
         NEW b \in Int, NEW b2 \in Int, b <= b2,
         Once(c, s, b), m.fragment_count > 1 => m.fragment = b
  PROVE  Once(c, Append(s, m), b2)
<1> DEFINE t == Append(s, m)
<1>1. \A i \in 1..Len(t) : (i \in 1..Len(s) /\ t[i] = s[i]) \/ (i = Len(s) + 1 /\ t[i] = m)
  BY LastAdded
<1> HIDE DEF t
<1>2. \A i \in 1..Len(c) : c[i].fragment < b /\ c[i].fragment \in Nat
  BY Numbered DEF Once
<1>3. \A x \in Nat : x < b => x < b2 /\ x # b
  OBVIOUS
<1>4. ASSUME NEW i \in 1..Len(c), NEW k \in 1..Len(t), t[k].fragment_count > 1
      PROVE  t[k].fragment # c[i].fragment
  <2>1. CASE k \in 1..Len(s) /\ t[k] = s[k]
    BY <2>1, <1>4 DEF Once
  <2>2. CASE t[k] = m
    BY <2>2, <1>2, <1>3, <1>4
  <2> QED BY <2>1, <2>2, <1>1
<1>5. \A i \in 1..Len(c), k \in 1..Len(c) : c[k].fragment = c[i].fragment => k = i
  BY DEF Once
<1>6. \A i \in 1..Len(c) : c[i].fragment < b2
  BY <1>2, <1>3
<1>7. Once(c, t, b2)
  BY <1>4, <1>5, <1>6 DEF Once
<1> QED BY <1>7 DEF t

LEMMA OnceTail ==
  ASSUME NEW c, NEW s \in Seq(PayloadType), s # <<>>, NEW b, Once(c, s, b)
  PROVE  Once(c, Tail(s), b)
<1> DEFINE t == Tail(s)
<1>1. \A i \in 1..Len(t) : i + 1 \in 1..Len(s) /\ t[i] = s[i + 1]
  BY FirstTaken
<1> HIDE DEF t
<1>2. Once(c, t, b)
  BY <1>1 DEF Once
<1> QED BY <1>2 DEF t

\* A handler takes the first fragment.
LEMMA OnceTaken ==
  ASSUME NEW c \in Seq(PayloadType), NEW s \in Seq(PayloadType), s # <<>>, NEW b \in Int,
         Once(c, s, b), OnceOn(s, b), Head(s).fragment_count > 1
  PROVE  Once(Append(c, Head(s)), Tail(s), b)
<1> DEFINE m == Head(s)
           t == Tail(s)
           d == Append(c, m)
<1>1. /\ m \in PayloadType /\ m = s[1] /\ 1 \in 1..Len(s)
      /\ \A i \in 1..Len(t) : i + 1 \in 1..Len(s) /\ i + 1 # 1 /\ t[i] = s[i + 1]
  BY FirstTaken
<1> HIDE DEF m, t
<1>2. \A i \in 1..Len(d) : (i \in 1..Len(c) /\ d[i] = c[i]) \/ (i = Len(c) + 1 /\ d[i] = m)
  BY <1>1, LastAdded
<1> HIDE DEF d
<1>3. m.fragment < b /\ \A k \in 1..Len(t) : t[k].fragment_count > 1 => t[k].fragment # m.fragment
  <2>1. s[1].fragment_count > 1
    BY <1>1 DEF m
  <2>2. s[1].fragment < b
    BY <2>1, <1>1 DEF OnceOn
  <2>3. \A k \in 1..Len(s) : s[k].fragment_count > 1 /\ s[k].fragment = s[1].fragment => k = 1
    BY <2>1, <1>1 DEF OnceOn
  <2> QED BY <2>2, <2>3, <1>1
<1>4. \A i \in 1..Len(c) :
        /\ c[i].fragment < b /\ c[i].fragment # m.fragment
        /\ \A k \in 1..Len(c) : c[k].fragment = c[i].fragment => k = i
        /\ \A k \in 1..Len(t) : t[k].fragment_count > 1 => t[k].fragment # c[i].fragment
  <2>1. s[1].fragment_count > 1
    BY <1>1 DEF m
  <2> QED BY <2>1, <1>1 DEF Once
<1>5. \A i \in 1..Len(d) : d[i].fragment < b
  BY <1>2, <1>3, <1>4
<1>6. \A i \in 1..Len(d), k \in 1..Len(t) : t[k].fragment_count > 1 => t[k].fragment # d[i].fragment
  BY <1>2, <1>3, <1>4
<1>7. ASSUME NEW i \in 1..Len(d), NEW k \in 1..Len(d), d[k].fragment = d[i].fragment
      PROVE  k = i
  <2>1. CASE i \in 1..Len(c) /\ d[i] = c[i] /\ k \in 1..Len(c) /\ d[k] = c[k]
    BY <2>1, <1>4, <1>7
  <2>2. CASE i \in 1..Len(c) /\ d[i] = c[i] /\ d[k] = m
    BY <2>2, <1>4, <1>7
  <2>3. CASE d[i] = m /\ k \in 1..Len(c) /\ d[k] = c[k]
    BY <2>3, <1>4, <1>7
  <2>4. CASE i = Len(c) + 1 /\ k = Len(c) + 1
    BY <2>4
  <2> QED BY <2>1, <2>2, <2>3, <2>4, <1>2
<1>8. Once(d, t, b)
  BY <1>5, <1>6, <1>7 DEF Once
<1> QED BY <1>8 DEF d, t, m

-----------------------------------------------------------------------------
(* The fragments of the job, and what a client may be given.               *)

LEMMA StaticFact ==
  ASSUME ChannelTypeOK
  PROVE  /\ job \in Jobs /\ Made(Fragments, job) /\ Parts \in Nat /\ Parts # 0
         /\ Fragments \in Seq(PayloadType) /\ fail_msg \in PayloadType
         /\ Genuine \subseteq PayloadType /\ Bound \in Int /\ Bound <= Parts
<1>1. job \in Jobs /\ Made(Fragments, job)
  BY MadeFact DEF ChannelTypeOK, Jobs, Fragments
<1>2. Fragments \in Seq(PayloadType) /\ Fragments # <<>>
  BY <1>1 DEF Made
<1>3. Parts \in Nat /\ Parts # 0
  BY <1>2, LenProperties, EmptySeq DEF Parts
<1>4. fail_msg \in PayloadType
  <2>1. <<>> \in Seq(Nat)
    OBVIOUS
  <2> QED BY <2>1 DEF fail_msg, Payload, PayloadType
<1>5. Genuine \subseteq PayloadType
  <2>1. \A i \in 1..Parts : Fragments[i] \in PayloadType
    BY <1>2, ElementOfSeq DEF Parts
  <2> QED BY <2>1, <1>4 DEF Genuine
<1>6. Bound \in Int /\ Bound <= Parts
  <2>1. Len(payloads) \in Nat
    BY LenProperties DEF ChannelTypeOK
  <2> QED BY <2>1, <1>3 DEF Bound
<1> QED BY <1>1, <1>2, <1>3, <1>4, <1>5, <1>6

\* A fragment names its place.
LEMMA PlaceFact ==
  ASSUME ChannelTypeOK, NEW i \in 1..Parts
  PROVE  /\ Fragments[i] \in Genuine /\ Fragments[i] \in PayloadType
         /\ Fragments[i].fragment = i - 1 /\ Fragments[i].fragment_count = Parts
         /\ Fragments[i].status = IF job.outcome = "failed" THEN "failed" ELSE "success"
         /\ \/ Size(Fragments[i].data, job.rows) <= PayloadLimit
            \/ \E k \in 1..Len(job.rows) : Overhead + job.rows[k] > PayloadLimit
<1>1. Fragments[i] \in Genuine
  BY DEF Genuine
<1>2. Fragments[i] \in PayloadType
  BY <1>1, StaticFact
<1> QED BY <1>1, <1>2, StaticFact DEF Made, Parts

LEMMA MultipleFact ==
  ASSUME ChannelTypeOK, NEW m \in Multiples
  PROVE  /\ m \in Genuine /\ m \in PayloadType /\ m.fragment \in 0..(Parts - 1)
         /\ m = Fragments[m.fragment + 1] /\ m.fragment_count = Parts /\ Parts > 1
         /\ m.status = "success"
<1>1. PICK i \in 1..Parts : m = Fragments[i] /\ m.fragment_count > 1
  BY DEF Multiples
<1>2. /\ m \in Genuine /\ m \in PayloadType /\ m.fragment = i - 1 /\ m.fragment_count = Parts
      /\ m.status = IF job.outcome = "failed" THEN "failed" ELSE "success"
  BY <1>1, PlaceFact
<1>3. Parts > 1
  BY <1>1, <1>2
<1>4. job.outcome = "rows"
  BY <1>3, StaticFact DEF Made, Parts
<1>5. i - 1 \in 0..(Parts - 1) /\ (i - 1) + 1 = i
  BY StaticFact
<1>6. m = Fragments[m.fragment + 1]
  BY <1>1, <1>2, <1>5
<1>7. m.status = "success"
  BY <1>2, <1>4
<1> QED BY <1>2, <1>3, <1>5, <1>6, <1>7

\* A message alone may be given to the client; the others are fragments.
LEMMA GenuineFact ==
  ASSUME ChannelTypeOK, NEW m \in Genuine
  PROVE  /\ m.fragment_count = 1 => m \in TrueMessages
         /\ m.fragment_count # 1 => m \in Multiples
<1>1. CASE m = fail_msg /\ Failure
  <2>1. fail_msg.fragment_count = 1 /\ fail_msg.status = "failed"
    BY DEF fail_msg, Payload
  <2> QED BY <1>1, <2>1, StaticFact DEF TrueMessages
<1>2. CASE \E i \in 1..Parts : m = Fragments[i]
  <2>1. PICK i \in 1..Parts : m = Fragments[i]
    BY <1>2
  <2>2. /\ m \in PayloadType /\ m.fragment_count = Parts
        /\ m.status = IF job.outcome = "failed" THEN "failed" ELSE "success"
    BY <2>1, PlaceFact
  <2>3. Parts \in Nat /\ Parts # 0
    BY StaticFact
  <2>4. CASE m.fragment_count # 1
    <3>1. m.fragment_count > 1
      BY <2>2, <2>3, <2>4
    <3> QED BY <2>1, <2>4, <3>1 DEF Multiples
  <2>5. CASE m.fragment_count = 1
    <3>1. Parts = 1 /\ i = 1
      BY <2>2, <2>5
    <3>2. m.data \in Seq(Nat)
      BY <2>2 DEF PayloadType
    <3>3. FlattenSeq([k \in 1..1 |-> Fragments[k].data]) = FirstRows(Len(job.rows))
      BY <3>1, StaticFact DEF Made, Parts
    <3>4. [k \in 1..1 |-> Fragments[k].data] = [k \in 1..1 |-> m.data]
      BY <2>1, <3>1
    <3>5. FlattenSeq([k \in 1..1 |-> m.data]) = m.data
      BY <3>2, FlattenOne
    <3>6. job.rows \in Seq(Nat)
      BY StaticFact, ResponseAssumption DEF Jobs
    <3>7. m.data = AllRows(job.rows)
      BY <3>3, <3>4, <3>5, <3>6, AllRowsIs
    <3>8. CASE job.outcome = "failed"
      BY <3>8, <2>2, <2>5 DEF TrueMessages, Failure
    <3>9. CASE job.outcome # "failed"
      BY <3>7, <3>9, <2>2, <2>5 DEF TrueMessages
    <3> QED BY <3>8, <3>9
  <2> QED BY <2>4, <2>5
<1> QED BY <1>1, <1>2 DEF Genuine

\* As many fragments as there are give the whole result, or one was pushed twice.
LEMMA CombinedIsTrue ==
  ASSUME ChannelTypeOK, NEW c \in Seq(PayloadType), AllIn(c, Multiples), Len(c) = Parts,
         NEW s, NEW b, ~doubled => Once(c, s, b)
  PROVE  Combined(c) \in TrueMessages
<1>1. Parts \in Nat /\ Parts # 0
  BY StaticFact
<1>2. c # <<>>
  BY <1>1, EmptySeq
<1>3. Combined(c) \in PayloadType /\ \E i \in 1..Len(c) : Combined(c).status = c[i].status
  BY <1>2, CombinedTyped
<1>4. \A i \in 1..Len(c) : c[i] \in Multiples
  BY DEF AllIn
<1>5. Combined(c).status = "success"
  BY <1>3, <1>4, MultipleFact
<1>6. CASE doubled
  BY <1>3, <1>5, <1>6 DEF TrueMessages
<1>7. CASE ~doubled
  <2>1. \A i \in 1..Len(c) : /\ c[i].fragment \in 0..(Len(c) - 1)
                             /\ c[i] = Fragments[c[i].fragment + 1]
    BY <1>4, MultipleFact
  <2>2. \A i \in 1..Len(c), k \in 1..Len(c) : c[i].fragment = c[k].fragment => i = k
    BY <1>7 DEF Once
  <2>3. job \in Jobs /\ Made(Fragments, job) /\ Len(c) = Len(Fragments)
    BY StaticFact DEF Parts
  <2>4. Combined(c).data = AllRows(job.rows)
    BY <2>1, <2>2, <2>3, CombinedInOrder
  <2> QED BY <2>4, <1>3, <1>5 DEF TrueMessages
<1> QED BY <1>6, <1>7

\* What holds of a message goes on holding.
LEMMA Later ==
  ASSUME ChannelTypeOK, job' = job, faults' \in Nat, faults' >= faults, doubled => doubled'
  PROVE  /\ Fragments' = Fragments /\ Parts' = Parts /\ Multiples' = Multiples
         /\ (Failure => Failure') /\ Genuine \subseteq Genuine' /\ TrueMessages \subseteq TrueMessages'
<1>1. Fragments' = Fragments
  BY DEF Fragments
<1>2. Parts' = Parts
  BY <1>1 DEF Parts
<1>3. Multiples' = Multiples
  BY <1>1, <1>2 DEF Multiples
<1>4. Failure => Failure'
  <2>1. faults > 0 => faults' > 0
    BY DEF ChannelTypeOK
  <2> QED BY <2>1 DEF Failure
<1>5. Genuine \subseteq Genuine'
  BY <1>1, <1>2, <1>4 DEF Genuine
<1>6. TrueMessages \subseteq TrueMessages'
  BY <1>4 DEF TrueMessages
<1> QED BY <1>1, <1>2, <1>3, <1>4, <1>5, <1>6

-----------------------------------------------------------------------------
(* The steps of the sink.                                                  *)

LEMMA CreateStep ==
  ASSUME ChannelInv, Create
  PROVE  ChannelInv'
<1> USE DEF ChannelInv
<1>1. /\ sink = "create" /\ channel = <<>>
      /\ \A r \in Requests : fetch[r].at = "fetching" => fetch[r].collected = <<>>
  BY DEF Create, Pushing
<1>2. /\ UNCHANGED <<job, channel, fetch, caller, faults, doubled>>
      /\ \/ sink' = "push" /\ payloads' = Fragments
         \/ /\ sink' = "fail" /\ payloads' = <<fail_msg>>
            /\ ~(\A i \in DOMAIN Fragments : Size(Fragments[i].data, job.rows) <= PayloadLimit)
  BY DEF Create, Fragments
<1>3. /\ Fragments' = Fragments /\ Parts' = Parts /\ Multiples' = Multiples
      /\ (Failure => Failure') /\ Genuine \subseteq Genuine' /\ TrueMessages \subseteq TrueMessages'
  <2>1. faults' \in Nat /\ faults' >= faults
    BY <1>2 DEF ChannelTypeOK
  <2> QED BY <2>1, <1>2, Later
<1>4. fail_msg \in PayloadType /\ Fragments \in Seq(PayloadType) /\ Parts \in Nat /\ Parts # 0
  BY StaticFact
<1>5. ChannelTypeOK'
  <2>1. payloads' \in Seq(PayloadType) /\ sink' \in {"create", "push", "fail", "done", "raised"}
    <3>1. <<fail_msg>> \in Seq(PayloadType)
      BY <1>4
    <3>2. payloads' \in Seq(PayloadType)
      BY <3>1, <1>2, <1>4
    <3> QED BY <3>2, <1>2
  <2> QED BY <2>1, <1>2 DEF ChannelTypeOK
<1>6. Pushing'
  <2>1. CASE sink' = "push" /\ payloads' = Fragments
    <3>1. payloads' # <<>> /\ Len(payloads') = Parts
      BY <2>1, <1>4, EmptySeq DEF Parts
    <3>2. \A k \in 1..Parts : Parts - Parts + k = k
      BY <1>4
    <3>3. \A k \in 1..Len(payloads') : payloads'[k] = Fragments[Parts - Len(payloads') + k]
      BY <2>1, <3>1, <3>2
    <3>4. Len(payloads') <= Parts
      BY <3>1, <1>4
    <3> QED BY <2>1, <3>1, <3>3, <3>4, <1>3 DEF Pushing
  <2>2. CASE /\ sink' = "fail" /\ payloads' = <<fail_msg>>
             /\ ~(\A i \in DOMAIN Fragments : Size(Fragments[i].data, job.rows) <= PayloadLimit)
    <3>1. DOMAIN Fragments = 1..Parts
      BY <1>4, LenProperties DEF Parts
    <3>2. PICK k \in 1..Len(job.rows) : Overhead + job.rows[k] > PayloadLimit
      BY <2>2, <3>1, PlaceFact
    <3>3. job.rows \in Seq(Nat)
      BY StaticFact, ResponseAssumption DEF Jobs
    <3>4. Failure
      BY <3>2, <3>3, LenProperties DEF Failure
    <3> QED BY <2>2, <3>4, <1>3 DEF Pushing
  <2> QED BY <2>1, <2>2, <1>2
<1>7. Len(<<>>) = 0
  OBVIOUS
<1>8. OnChannel'
  BY <1>1, <1>2, <1>7 DEF OnChannel, AllIn, OnceOn
<1>9. Held'
  BY <1>1, <1>2, <1>7 DEF Held, AllIn, Once
<1>10. Given'
  BY <1>2, <1>3 DEF Given
<1> QED BY <1>5, <1>6, <1>8, <1>9, <1>10

LEMMA PushStep ==
  ASSUME ChannelInv, Push
  PROVE  ChannelInv'
<1> USE DEF ChannelInv
<1> DEFINE m == Head(payloads)
<1>1. /\ sink \in {"push", "fail"} /\ channel' = Append(channel, m) /\ payloads' = Tail(payloads)
      /\ sink' = (IF payloads' = <<>> THEN "done" ELSE sink)
      /\ UNCHANGED <<job, fetch, caller, faults, doubled>>
  BY DEF Push
<1>2. /\ Fragments' = Fragments /\ Parts' = Parts /\ Multiples' = Multiples
      /\ (Failure => Failure') /\ Genuine \subseteq Genuine' /\ TrueMessages \subseteq TrueMessages'
  <2>1. faults' \in Nat /\ faults' >= faults
    BY <1>1 DEF ChannelTypeOK
  <2> QED BY <2>1, <1>1, Later
<1>3. payloads # <<>> /\ payloads \in Seq(PayloadType)
  BY <1>1 DEF Pushing, ChannelTypeOK
<1>4. /\ m \in PayloadType /\ m = payloads[1] /\ 1 \in 1..Len(payloads)
      /\ payloads' \in Seq(PayloadType) /\ Len(payloads) \in Nat /\ Len(payloads') = Len(payloads) - 1
      /\ \A i \in 1..Len(payloads') : i + 1 \in 1..Len(payloads) /\ payloads'[i] = payloads[i + 1]
  BY <1>1, <1>3, FirstTaken
<1>5. channel \in Seq(PayloadType)
  BY DEF ChannelTypeOK
<1>6. Parts \in Nat /\ Bound \in Int /\ Bound <= Parts
  BY StaticFact
\* The first is the next fragment, or a message of failure.
<1>7. m \in Genuine /\ (m.fragment_count > 1 => m.fragment = Bound /\ sink = "push")
  <2>1. CASE sink = "push"
    <3>1. Bound = Parts - Len(payloads) /\ Len(payloads) <= Parts /\ m = Fragments[Bound + 1]
      BY <2>1, <1>4 DEF Pushing, Bound
    <3>2. Bound + 1 \in 1..Parts /\ (Bound + 1) - 1 = Bound
      BY <3>1, <1>4, <1>6
    <3>3. Fragments[Bound + 1] \in Genuine /\ Fragments[Bound + 1].fragment = (Bound + 1) - 1
      BY <3>2, PlaceFact
    <3> QED BY <3>1, <3>2, <3>3, <2>1
  <2>2. CASE sink = "fail"
    <3>1. payloads = <<fail_msg>> /\ Failure
      BY <2>2 DEF Pushing
    <3>2. m = fail_msg
      BY <3>1
    <3>3. fail_msg.fragment_count = 1
      BY DEF fail_msg, Payload
    <3> QED BY <3>1, <3>2, <3>3 DEF Genuine
  <2> QED BY <2>1, <2>2, <1>1
<1> HIDE DEF m
<1>8. /\ Bound' \in Int /\ (sink = "push" => Bound < Bound')
      /\ Bound <= Bound'
  <2>1. CASE sink = "push"
    <3>1. Bound = Parts - Len(payloads) /\ Len(payloads) # 0
      BY <2>1, <1>4 DEF Bound
    <3>2. Bound' = (IF sink' = "push" THEN Parts - Len(payloads') ELSE Parts)
      BY <1>2 DEF Bound
    <3> QED BY <3>1, <3>2, <1>4, <1>6
  <2>2. CASE sink = "fail"
    <3>1. Bound = Parts /\ Bound' = Parts
      BY <2>2, <1>1, <1>2 DEF Bound
    <3> QED BY <3>1, <1>6, <2>2
  <2> QED BY <2>1, <2>2, <1>1
<1>9. ChannelTypeOK'
  <2>1. channel' \in Seq(PayloadType)
    BY <1>1, <1>4, <1>5, LastAdded
  <2>2. sink' \in {"create", "push", "fail", "done", "raised"}
    BY <1>1
  <2> QED BY <2>1, <2>2, <1>1, <1>4 DEF ChannelTypeOK
<1>10. Pushing'
  <2>1. CASE sink = "push" /\ payloads' # <<>>
    <3>1. sink' = "push"
      BY <2>1, <1>1
    <3>2. Len(payloads) <= Parts /\ \A k \in 1..Len(payloads) : payloads[k] = Fragments[Parts - Len(payloads) + k]
      BY <2>1 DEF Pushing
    <3>3. \A k \in 1..Len(payloads') : Parts - Len(payloads) + (k + 1) = Parts - Len(payloads') + k
      BY <1>4, <1>6
    <3>4. \A k \in 1..Len(payloads') : payloads'[k] = Fragments[Parts - Len(payloads') + k]
      BY <3>2, <3>3, <1>4
    <3>5. Len(payloads') <= Parts
      BY <3>2, <1>4, <1>6
    <3> QED BY <2>1, <3>1, <3>4, <3>5, <1>2 DEF Pushing
  <2>2. CASE sink = "fail" \/ payloads' = <<>>
    <3>1. payloads' = <<>>
      <4>1. CASE sink = "fail"
        <5>1. payloads = <<fail_msg>>
          BY <4>1 DEF Pushing
        <5>2. Tail(<<fail_msg>>) = <<>>
          OBVIOUS
        <5> QED BY <5>1, <5>2, <1>1
      <4> QED BY <4>1, <2>2
    <3>2. sink' = "done"
      BY <3>1, <1>1
    <3> QED BY <3>2 DEF Pushing
  <2> QED BY <2>1, <2>2, <1>1
<1>11. OnChannel'
  <2>1. AllIn(channel, Genuine') /\ m \in Genuine'
    BY <1>2, <1>7, AllInMore DEF OnChannel
  <2>2. AllIn(channel', Genuine')
    BY <2>1, <1>1, <1>4, <1>5, AllInAppend
  <2>3. ASSUME ~doubled' PROVE OnceOn(channel', Bound')
    <3>1. OnceOn(channel, Bound)
      BY <2>3, <1>1 DEF OnChannel
    <3>2. m.fragment_count > 1 => m.fragment = Bound /\ Bound < Bound'
      BY <1>7, <1>8
    <3>3. OnceOn(Append(channel, m), Bound')
      BY <3>1, <3>2, <1>4, <1>5, <1>6, <1>8, OnceOnAppend
    <3> QED BY <3>3, <1>1
  <2> QED BY <2>2, <2>3 DEF OnChannel
<1>12. Held'
  <2> SUFFICES ASSUME NEW r \in Requests, fetch[r].at = "fetching"
               PROVE  /\ AllIn(fetch[r].collected, Multiples)
                      /\ ~doubled => Once(fetch[r].collected, channel', Bound')
    BY <1>1, <1>2 DEF Held
  <2> DEFINE c == fetch[r].collected
  <2>1. AllIn(c, Multiples) /\ (~doubled => Once(c, channel, Bound))
    BY DEF Held
  <2>2. c \in Seq(PayloadType)
    BY DEF ChannelTypeOK, Idle, FetchType, AnswerType
  <2> HIDE DEF c
  <2>3. ASSUME ~doubled PROVE Once(c, channel', Bound')
    <3>1. Once(c, channel, Bound)
      BY <2>1, <2>3
    <3>2. m.fragment_count > 1 => m.fragment = Bound
      BY <1>7
    <3>3. Once(c, Append(channel, m), Bound')
      BY <3>1, <3>2, <2>2, <1>4, <1>5, <1>6, <1>8, OnceAppend
    <3> QED BY <3>3, <1>1
  <2> QED BY <2>1, <2>3 DEF c
<1>13. Given'
  BY <1>1, <1>2 DEF Given
<1> QED BY <1>9, <1>10, <1>11, <1>12, <1>13

LEMMA PushFailsStep ==
  ASSUME ChannelInv, PushFails
  PROVE  ChannelInv'
<1> USE DEF ChannelInv
<1> DEFINE m == Head(payloads)
           again == job.max_retries = 0 \/ retries + 1 < job.max_retries
<1>1. /\ sink \in {"push", "fail"} /\ faults' = faults + 1 /\ UNCHANGED <<job, fetch, caller>>
      /\ \/ UNCHANGED <<channel, doubled>>
         \/ channel' = Append(channel, m) /\ doubled' = TRUE
      /\ \/ UNCHANGED <<sink, payloads>>
         \/ ~again /\ sink' = "fail" /\ payloads' = <<fail_msg>>
         \/ sink' = "raised" /\ payloads' = <<>>
  BY DEF PushFails
<1>2. /\ Fragments' = Fragments /\ Parts' = Parts /\ Multiples' = Multiples
      /\ (Failure => Failure') /\ Genuine \subseteq Genuine' /\ TrueMessages \subseteq TrueMessages'
  <2>1. faults' \in Nat /\ faults' >= faults
    BY <1>1 DEF ChannelTypeOK
  <2>2. doubled => doubled'
    BY <1>1 DEF ChannelTypeOK
  <2> QED BY <2>1, <2>2, <1>1, Later
<1>3. payloads # <<>> /\ payloads \in Seq(PayloadType) /\ channel \in Seq(PayloadType)
  <2>1. payloads # <<>>
    <3>1. <<fail_msg>> # <<>>
      OBVIOUS
    <3> QED BY <3>1, <1>1 DEF Pushing
  <2> QED BY <2>1 DEF ChannelTypeOK
<1>4. fail_msg \in PayloadType /\ Parts \in Nat
  BY StaticFact
<1>5. m \in PayloadType /\ m = payloads[1] /\ Len(payloads) \in Nat /\ 1 \in 1..Len(payloads)
  BY <1>3, FirstTaken
<1>6. m \in Genuine
  <2>1. CASE sink = "push"
    <3>1. Len(payloads) <= Parts /\ m = Fragments[Parts - Len(payloads) + 1]
      BY <2>1, <1>5 DEF Pushing
    <3>2. Parts - Len(payloads) + 1 \in 1..Parts
      BY <3>1, <1>4, <1>5
    <3> QED BY <3>1, <3>2, PlaceFact
  <2>2. CASE sink = "fail"
    <3>1. payloads = <<fail_msg>> /\ Failure
      BY <2>2 DEF Pushing
    <3>2. m = fail_msg
      BY <3>1
    <3> QED BY <3>1, <3>2 DEF Genuine
  <2> QED BY <2>1, <2>2, <1>1
<1> HIDE DEF m
<1>7. ChannelTypeOK'
  <2>1. channel' \in Seq(PayloadType) /\ doubled' \in BOOLEAN
    <3>1. Append(channel, m) \in Seq(PayloadType)
      BY <1>3, <1>5, LastAdded
    <3>2. doubled \in BOOLEAN
      BY DEF ChannelTypeOK
    <3> QED BY <3>1, <3>2, <1>1, <1>3
  <2>2. payloads' \in Seq(PayloadType)
    <3>1. <<fail_msg>> \in Seq(PayloadType) /\ <<>> \in Seq(PayloadType)
      BY <1>4
    <3> QED BY <3>1, <1>1, <1>3
  <2>3. sink' \in {"create", "push", "fail", "done", "raised"}
    BY <1>1
  <2>4. faults' \in Nat
    BY <1>1 DEF ChannelTypeOK
  <2> QED BY <2>1, <2>2, <2>3, <2>4, <1>1 DEF ChannelTypeOK
<1>8. Pushing'
  <2>1. CASE UNCHANGED <<sink, payloads>>
    BY <2>1, <1>1, <1>2 DEF Pushing
  <2>2. CASE ~again /\ sink' = "fail" /\ payloads' = <<fail_msg>>
    <3>1. job.max_retries > 0 /\ faults' > 0 /\ job' = job
      <4>1. job.max_retries \in Nat /\ job.max_retries # 0 /\ faults \in Nat
        BY <2>2 DEF ChannelTypeOK
      <4> QED BY <4>1, <1>1
    <3>2. Failure'
      BY <3>1 DEF Failure
    <3> QED BY <3>2, <2>2 DEF Pushing
  <2>3. CASE sink' = "raised"
    BY <2>3 DEF Pushing
  <2> QED BY <2>1, <2>2, <2>3, <1>1
<1> HIDE DEF again
<1>9. Bound' \in Int /\ Bound \in Int /\ (~doubled' => Bound <= Bound') /\ Bound <= Parts
  <2>1. Bound \in Int /\ Bound <= Parts
    BY StaticFact
  <2>2. CASE UNCHANGED <<sink, payloads>>
    BY <2>1, <2>2, <1>2 DEF Bound
  <2>3. CASE sink' # "push"
    BY <2>1, <2>3, <1>2, <1>4 DEF Bound
  <2> QED BY <2>1, <2>2, <2>3, <1>1
<1>10. OnChannel'
  <2>1. AllIn(channel, Genuine') /\ m \in Genuine'
    BY <1>2, <1>6, AllInMore DEF OnChannel
  <2>2. AllIn(channel', Genuine')
    <3>1. AllIn(Append(channel, m), Genuine')
      BY <2>1, <1>3, <1>5, AllInAppend
    <3> QED BY <2>1, <3>1, <1>1
  <2>3. ASSUME ~doubled' PROVE OnceOn(channel', Bound')
    <3>1. channel' = channel /\ ~doubled
      BY <2>3, <1>1
    <3>2. OnceOn(channel, Bound) /\ Bound <= Bound'
      BY <2>3, <3>1, <1>9 DEF OnChannel
    <3>3. \A i \in 1..Len(channel) : channel[i].fragment \in Nat
      BY <1>3, Numbered
    <3>4. \A x \in Nat : x < Bound => x < Bound'
      BY <3>2, <1>9
    <3> QED BY <3>1, <3>2, <3>3, <3>4 DEF OnceOn
  <2> QED BY <2>2, <2>3 DEF OnChannel
<1>11. Held'
  <2> SUFFICES ASSUME NEW r \in Requests, fetch[r].at = "fetching"
               PROVE  /\ AllIn(fetch[r].collected, Multiples)
                      /\ ~doubled' => Once(fetch[r].collected, channel', Bound')
    BY <1>1, <1>2 DEF Held
  <2> DEFINE c == fetch[r].collected
  <2>1. AllIn(c, Multiples) /\ (~doubled => Once(c, channel, Bound))
    BY DEF Held
  <2>2. c \in Seq(PayloadType)
    BY DEF ChannelTypeOK, Idle, FetchType, AnswerType
  <2> HIDE DEF c
  <2>3. ASSUME ~doubled' PROVE Once(c, channel', Bound')
    <3>1. channel' = channel /\ ~doubled
      BY <2>3, <1>1
    <3>2. Once(c, channel, Bound) /\ Bound <= Bound'
      BY <2>1, <2>3, <3>1, <1>9
    <3>3. \A i \in 1..Len(c) : c[i].fragment \in Nat
      BY <2>2, Numbered
    <3>4. \A x \in Nat : x < Bound => x < Bound'
      BY <3>2, <1>9
    <3> QED BY <3>1, <3>2, <3>3, <3>4 DEF Once
  <2> QED BY <2>1, <2>3 DEF c
<1>12. Given'
  BY <1>1, <1>2 DEF Given
<1> QED BY <1>7, <1>8, <1>10, <1>11, <1>12

-----------------------------------------------------------------------------
(* The steps of a request's handler and of the client.                     *)

\* x is what becomes of the handler of r.
LEMMA HandlerStep ==
  ASSUME ChannelInv, NEW r \in Requests, UNCHANGED <<job, sink, payloads, doubled>>,
         faults' \in Nat, faults' >= faults,
         channel' = channel \/ (channel # <<>> /\ channel' = Tail(channel)),
         NEW x \in {Idle} \cup FetchType \cup AnswerType, fetch' = [fetch EXCEPT ![r] = x],
         x.at = "fetching" => /\ AllIn(x.collected, Multiples)
                              /\ ~doubled => Once(x.collected, channel', Bound)
                              /\ sink = "create" => x.collected = <<>>,
         x.at = "answered" /\ x.status = 200 => x.message \in TrueMessages,
         caller' \in Callers, caller'.at = "given" => caller'.message \in TrueMessages
  PROVE  ChannelInv'
<1> USE DEF ChannelInv
<1>1. /\ Fragments' = Fragments /\ Parts' = Parts /\ Multiples' = Multiples
      /\ (Failure => Failure') /\ Genuine \subseteq Genuine' /\ TrueMessages \subseteq TrueMessages'
  BY Later
<1>2. Bound' = Bound /\ Bound \in Int
  BY <1>1, StaticFact DEF Bound
<1>3. fetch \in [Requests -> {Idle} \cup FetchType \cup AnswerType] /\ channel \in Seq(PayloadType)
  BY DEF ChannelTypeOK
<1>4. /\ fetch'[r] = x /\ \A q \in Requests : q # r => fetch'[q] = fetch[q]
      /\ fetch' \in [Requests -> {Idle} \cup FetchType \cup AnswerType]
  BY <1>3
<1>5. ChannelTypeOK'
  <2>1. channel' \in Seq(PayloadType)
    BY <1>3, FirstTaken
  <2> QED BY <2>1, <1>4 DEF ChannelTypeOK
<1>6. Pushing'
  <2>1. sink = "create" => channel' = <<>>
    BY DEF Pushing
  <2>2. sink = "create" => \A q \in Requests : fetch'[q].at = "fetching" => fetch'[q].collected = <<>>
    BY <1>4 DEF Pushing
  <2> QED BY <2>1, <2>2, <1>1 DEF Pushing
<1>7. OnChannel'
  <2>1. AllIn(channel, Genuine') /\ (~doubled => OnceOn(channel, Bound))
    BY <1>1, AllInMore DEF OnChannel
  <2>2. channel # <<>> => AllIn(Tail(channel), Genuine') /\ (~doubled => OnceOn(Tail(channel), Bound))
    BY <2>1, <1>2, <1>3, AllInTail, OnceOnTail
  <2> QED BY <2>1, <2>2, <1>2 DEF OnChannel
<1>8. Held'
  <2> SUFFICES ASSUME NEW q \in Requests, fetch'[q].at = "fetching"
               PROVE  /\ AllIn(fetch'[q].collected, Multiples)
                      /\ ~doubled => Once(fetch'[q].collected, channel', Bound)
    BY <1>1, <1>2 DEF Held
  <2>1. CASE q = r
    BY <2>1, <1>4
  <2>2. CASE q # r
    <3> DEFINE c == fetch[q].collected
    <3>1. fetch'[q] = fetch[q]
      BY <2>2, <1>4
    <3>2. AllIn(c, Multiples) /\ (~doubled => Once(c, channel, Bound))
      BY <3>1 DEF Held
    <3> HIDE DEF c
    <3>3. ~doubled => Once(c, channel', Bound)
      BY <3>2, <1>3, OnceTail
    <3> QED BY <3>1, <3>2, <3>3 DEF c
  <2> QED BY <2>1, <2>2
<1>9. Given'
  BY <1>1, <1>4 DEF Given
<1> QED BY <1>5, <1>6, <1>7, <1>8, <1>9

\* The handler of r has an answer.
LEMMA AnswerStep ==
  ASSUME ChannelInv, NEW r \in Requests, UNCHANGED <<job, sink, payloads, doubled>>,
         faults' \in Nat, faults' >= faults,
         channel' = channel \/ (channel # <<>> /\ channel' = Tail(channel)),
         NEW x \in AnswerType, fetch' = [fetch EXCEPT ![r] = x], x.status = 200 => x.message \in TrueMessages,
         caller' \in Callers, caller'.at = "given" => caller'.message \in TrueMessages
  PROVE  ChannelInv'
<1>1. x.at = "answered"
  BY DEF AnswerType
<1> QED BY <1>1, HandlerStep

LEMMA FetchFact ==
  ASSUME ChannelTypeOK, NEW r \in Requests, fetch[r].at = "fetching"
  PROVE  fetch[r] \in FetchType
BY DEF ChannelTypeOK, Idle, AnswerType

LEMMA AnsweredIs ==
  ASSUME NEW status \in {200, 202, 500}, NEW m \in PayloadType
  PROVE  /\ Answered(status, m) \in AnswerType /\ Answered(status, m).at = "answered"
         /\ Answered(status, m).status = status /\ Answered(status, m).message = m
BY DEF Answered, AnswerType

LEMMA NothingIs == Nothing \in PayloadType
<1>1. <<>> \in Seq(Nat)
  OBVIOUS
<1> QED BY <1>1 DEF Nothing, Payload, PayloadType

LEMMA PopStep ==
  ASSUME ChannelInv, NEW r \in Requests, Pop(r)
  PROVE  ChannelInv'
<1> USE DEF ChannelInv
<1> DEFINE f == fetch[r]
           m == Head(channel)
           all == Append(f.collected, m)
           x == Taken(f, m)
<1>1. /\ f.at = "fetching" /\ channel # <<>> /\ channel' = Tail(channel)
      /\ fetch' = [fetch EXCEPT ![r] = x]
      /\ UNCHANGED <<job, sink, payloads, doubled, caller, faults>>
  BY DEF Pop, channelVars
<1>2. f \in FetchType /\ channel \in Seq(PayloadType) /\ faults \in Nat /\ caller \in Callers
  BY <1>1, FetchFact DEF ChannelTypeOK
<1>3. f.collected \in Seq(PayloadType)
  BY <1>2 DEF FetchType
<1>4. m \in PayloadType /\ m = channel[1] /\ 1 \in 1..Len(channel) /\ Tail(channel) \in Seq(PayloadType)
  BY <1>1, <1>2, FirstTaken
<1>5. m \in Genuine
  BY <1>4 DEF OnChannel, AllIn
<1>6. sink # "create"
  BY <1>1 DEF Pushing
<1>7. caller'.at = "given" => caller'.message \in TrueMessages
  BY <1>1 DEF Given
<1>8. AllIn(f.collected, Multiples) /\ (~doubled => Once(f.collected, channel, Bound))
  BY <1>1 DEF Held
<1>9. faults' \in Nat /\ faults' >= faults /\ caller' \in Callers
  BY <1>1, <1>2
<1> HIDE DEF f, m
<1>10. CASE m.fragment_count = 1
  <2>1. x = Answered(200, m)
    BY <1>10 DEF Taken
  <2>2. x \in AnswerType /\ x.at = "answered" /\ x.message = m
    <3> HIDE DEF x
    <3> QED BY <2>1, <1>4, AnsweredIs
  <2>3. m \in TrueMessages
    BY <1>5, <1>10, GenuineFact
  <2> HIDE DEF x
  <2> QED BY <2>2, <2>3, <1>1, <1>7, <1>9, HandlerStep
<1>11. CASE m.fragment_count # 1
  <2>1. m \in Multiples
    BY <1>5, <1>11, GenuineFact
  <2>2. m.fragment_count > 1 /\ m.fragment_count = Parts
    BY <2>1, MultipleFact
  <2>3. all \in Seq(PayloadType) /\ AllIn(all, Multiples)
    BY <2>1, <1>3, <1>4, <1>8, AllInAppend, LastAdded
  <2>4. ASSUME ~doubled PROVE Once(all, channel', Bound)
    <3>1. Once(f.collected, channel, Bound) /\ OnceOn(channel, Bound) /\ Bound \in Int
      BY <2>4, <1>8, StaticFact DEF OnChannel
    <3>2. Head(channel).fragment_count > 1
      BY <2>2 DEF m
    <3>3. Once(Append(f.collected, Head(channel)), Tail(channel), Bound)
      BY <3>1, <3>2, <1>1, <1>2, <1>3, OnceTaken
    <3> QED BY <3>3, <1>1 DEF m
  <2> HIDE DEF all
  <2>5. CASE Len(all) = m.fragment_count
    <3>1. x = Answered(200, Combined(all))
      BY <2>5, <1>11 DEF Taken, all
    <3>2. Combined(all) \in TrueMessages
      BY <2>2, <2>3, <2>4, <2>5, CombinedIsTrue
    <3>3. Combined(all) \in PayloadType
      BY <3>2 DEF TrueMessages
    <3>4. x \in AnswerType /\ x.at = "answered" /\ x.message = Combined(all)
      <4> HIDE DEF x
      <4> QED BY <3>1, <3>3, AnsweredIs
    <3> HIDE DEF x
    <3>5. x.message \in TrueMessages
      BY <3>2, <3>4
    <3> HIDE DEF ChannelInv
    <3> QED BY <3>4, <3>5, <1>1, <1>7, <1>9, AnswerStep
  <2>6. CASE Len(all) # m.fragment_count
    <3>1. x = [f EXCEPT !.collected = all, !.fragment_count = m.fragment_count]
      BY <2>6, <1>11 DEF Taken, all
    <3>2. m.fragment_count \in Nat
      BY <1>4 DEF PayloadType
    <3>3. x \in FetchType /\ x.at = "fetching" /\ x.collected = all
      <4> DEFINE n == m.fragment_count
                 g == [f EXCEPT !.collected = all]
      <4>1. g \in FetchType /\ g.collected = all
        BY <1>2, <2>3 DEF FetchType
      <4>2. x = [g EXCEPT !.fragment_count = n]
        BY <3>1
      <4>3. n \in Nat
        BY <3>2
      <4> HIDE DEF g, x, n
      <4>4. [g EXCEPT !.fragment_count = n] \in FetchType /\ [g EXCEPT !.fragment_count = n].collected = g.collected
        BY <4>1, <4>3 DEF FetchType
      <4>5. \A y \in FetchType : y.at = "fetching"
        BY DEF FetchType
      <4> QED BY <4>1, <4>2, <4>4, <4>5
    <3> HIDE DEF x
    <3> QED BY <3>3, <2>3, <2>4, <1>1, <1>6, <1>7, <1>9, HandlerStep
  <2> QED BY <2>5, <2>6
<1> QED BY <1>10, <1>11

LEMMA TimedOutStep ==
  ASSUME ChannelInv, NEW r \in Requests, TimedOut(r)
  PROVE  ChannelInv'
<1> USE DEF ChannelInv
<1> DEFINE f == fetch[r]
<1>1. /\ f.at = "fetching" /\ channel' = channel
      /\ UNCHANGED <<job, sink, payloads, doubled, caller, faults>>
      /\ \/ \E status \in {202, 500} : fetch' = [fetch EXCEPT ![r] = Answered(status, Nothing)]
         \/ fetch' = [fetch EXCEPT ![r].waited = @ + 1]
  BY DEF TimedOut, Refuse, channelVars
<1>2. /\ f \in FetchType /\ faults' \in Nat /\ faults' >= faults /\ caller' \in Callers
      /\ (caller'.at = "given" => caller'.message \in TrueMessages)
  BY <1>1, FetchFact DEF ChannelTypeOK, Given
<1>3. CASE \E status \in {202, 500} : fetch' = [fetch EXCEPT ![r] = Answered(status, Nothing)]
  <2>1. PICK status \in {202, 500} : fetch' = [fetch EXCEPT ![r] = Answered(status, Nothing)]
    BY <1>3
  <2> DEFINE x == Answered(status, Nothing)
  <2>2. x \in AnswerType /\ x.at = "answered" /\ x.status # 200
    BY AnsweredIs, NothingIs
  <2>3. fetch' = [fetch EXCEPT ![r] = x]
    BY <2>1
  <2> HIDE DEF x
  <2>4. /\ UNCHANGED <<job, sink, payloads, doubled>>
        /\ channel' = channel \/ (channel # <<>> /\ channel' = Tail(channel))
    BY <1>1
  <2>6. faults' \in Nat /\ faults' >= faults /\ caller' \in Callers
    BY <1>2
  <2>7. caller'.at = "given" => caller'.message \in TrueMessages
    BY <1>2
  <2>8. x \in AnswerType
    BY <2>2
  <2>5. x.status = 200 => x.message \in TrueMessages
    BY <2>2
  <2> HIDE DEF ChannelInv, f
  <2> QED BY <2>3, <2>4, <2>5, <2>6, <2>7, <2>8, AnswerStep
<1>4. CASE fetch' = [fetch EXCEPT ![r].waited = @ + 1]
  <2> DEFINE x == [f EXCEPT !.waited = @ + 1]
  <2>1. x \in FetchType /\ x.at = "fetching" /\ x.collected = f.collected
    BY <1>2 DEF FetchType
  <2>2. fetch' = [fetch EXCEPT ![r] = x]
    BY <1>4
  <2>3. /\ AllIn(f.collected, Multiples) /\ (~doubled => Once(f.collected, channel', Bound))
        /\ (sink = "create" => f.collected = <<>>)
    BY <1>1 DEF Held, Pushing
  <2> HIDE DEF x, f
  <2> QED BY <2>1, <2>2, <2>3, <1>1, <1>2, HandlerStep
<1> QED BY <1>1, <1>3, <1>4

LEMMA PopFailsStep ==
  ASSUME ChannelInv, NEW r \in Requests, PopFails(r)
  PROVE  ChannelInv'
<1> USE DEF ChannelInv
<1> DEFINE f == fetch[r]
<1>1. /\ f.at = "fetching" /\ faults' = faults + 1
      /\ channel' = channel \/ (channel # <<>> /\ channel' = Tail(channel))
      /\ UNCHANGED <<job, sink, payloads, doubled, caller>>
      /\ \/ fetch' = [fetch EXCEPT ![r] = Answered(500, Nothing)]
         \/ fetch' = [fetch EXCEPT ![r].retries = @ + 1]
  BY DEF PopFails, Refuse, channelVars
<1>2. /\ f \in FetchType /\ faults' \in Nat /\ faults' >= faults /\ caller' \in Callers
      /\ (caller'.at = "given" => caller'.message \in TrueMessages)
      /\ channel \in Seq(PayloadType)
  BY <1>1, FetchFact DEF ChannelTypeOK, Given
<1>3. CASE fetch' = [fetch EXCEPT ![r] = Answered(500, Nothing)]
  <2> DEFINE x == Answered(500, Nothing)
  <2>1. x \in AnswerType /\ x.at = "answered" /\ x.status # 200
    BY AnsweredIs, NothingIs
  <2>2. fetch' = [fetch EXCEPT ![r] = x]
    BY <1>3
  <2> HIDE DEF x
  <2> QED BY <2>1, <2>2, <1>1, <1>2, HandlerStep
<1>4. CASE fetch' = [fetch EXCEPT ![r].retries = @ + 1]
  <2> DEFINE x == [f EXCEPT !.retries = @ + 1]
             c == f.collected
  <2>1. x \in FetchType /\ x.at = "fetching" /\ x.collected = c
    BY <1>2 DEF FetchType
  <2>2. fetch' = [fetch EXCEPT ![r] = x]
    BY <1>4
  <2>3. /\ AllIn(c, Multiples) /\ (~doubled => Once(c, channel, Bound))
        /\ (sink = "create" => c = <<>>)
    BY <1>1 DEF Held, Pushing
  <2> HIDE DEF x, c
  <2>4. ASSUME ~doubled PROVE Once(c, channel', Bound)
    <3>1. Once(c, channel, Bound)
      BY <2>3, <2>4
    <3>2. channel # <<>> => Once(c, Tail(channel), Bound)
      BY <3>1, <1>2, OnceTail
    <3> QED BY <3>1, <3>2, <1>1
  <2> QED BY <2>1, <2>2, <2>3, <2>4, <1>1, <1>2, HandlerStep
<1> QED BY <1>1, <1>3, <1>4

LEMMA IdleStep ==
  ASSUME ChannelInv, NEW r \in Requests, fetch[r].at = "answered", fetch' = [fetch EXCEPT ![r] = Idle],
         UNCHANGED <<job, sink, payloads, doubled, channel, faults>>,
         caller' \in Callers, caller'.at = "given" => caller'.message \in TrueMessages
  PROVE  ChannelInv'
<1> DEFINE x == Idle
<1>1. x \in {Idle} /\ x.at = "idle" /\ fetch' = [fetch EXCEPT ![r] = x]
  BY DEF Idle
<1>2. faults' \in Nat /\ faults' >= faults
  BY DEF ChannelInv, ChannelTypeOK
<1> HIDE DEF x
<1> QED BY <1>1, <1>2, HandlerStep

LEMMA DroppedStep ==
  ASSUME ChannelInv, NEW r \in Requests, Dropped(r)
  PROVE  ChannelInv'
<1>1. /\ fetch[r].at = "answered" /\ fetch' = [fetch EXCEPT ![r] = Idle]
      /\ UNCHANGED <<job, sink, payloads, doubled, channel, faults, caller>>
  BY DEF Dropped, channelVars
<1>2. caller' \in Callers /\ (caller'.at = "given" => caller'.message \in TrueMessages)
  BY <1>1 DEF ChannelInv, ChannelTypeOK, Given
<1> QED BY <1>1, <1>2, IdleStep

LEMMA ReceiveStep ==
  ASSUME ChannelInv, NEW r \in Requests, Receive(r)
  PROVE  ChannelInv'
<1> USE DEF ChannelInv
<1>1. /\ fetch[r].at = "answered" /\ fetch' = [fetch EXCEPT ![r] = Idle]
      /\ UNCHANGED <<job, sink, payloads, doubled, channel, faults>>
      /\ caller.at = "waiting"
      /\ caller' = IF fetch[r].status = 200
                   THEN [caller EXCEPT !.at = "given", !.message = fetch[r].message]
                   ELSE [caller EXCEPT !.at = "ready", !.retries = 0]
  BY DEF Receive, channelVars
<1>2. caller \in Callers /\ fetch[r] \in AnswerType
  BY <1>1 DEF ChannelTypeOK, Idle, FetchType
<1>3. fetch[r].message \in PayloadType /\ (fetch[r].status = 200 => fetch[r].message \in TrueMessages)
  BY <1>1, <1>2 DEF AnswerType, Given
<1>4. caller' \in Callers /\ (caller'.at = "given" => caller'.message \in TrueMessages)
  <2>1. CASE fetch[r].status = 200
    <3> DEFINE m == fetch[r].message
               w == [caller EXCEPT !.at = "given"]
    <3>1. w \in Callers
      BY <1>2 DEF Callers
    <3>2. caller' = [w EXCEPT !.message = m] /\ m \in PayloadType /\ m \in TrueMessages
      BY <2>1, <1>1, <1>3
    <3> HIDE DEF m, w
    <3>3. [w EXCEPT !.message = m] \in Callers /\ [w EXCEPT !.message = m].message = m
      BY <3>1, <3>2 DEF Callers
    <3> QED BY <3>2, <3>3
  <2>2. CASE fetch[r].status # 200
    <3> DEFINE w == [caller EXCEPT !.at = "ready"]
    <3>1. w \in Callers /\ w.at = "ready"
      BY <1>2 DEF Callers
    <3>2. caller' = [w EXCEPT !.retries = 0]
      BY <2>2, <1>1
    <3> HIDE DEF w
    <3>3. [w EXCEPT !.retries = 0] \in Callers /\ [w EXCEPT !.retries = 0].at = w.at
      BY <3>1 DEF Callers
    <3> QED BY <3>1, <3>2, <3>3
  <2> QED BY <2>1, <2>2
<1> QED BY <1>1, <1>4, IdleStep

LEMMA AskStep ==
  ASSUME ChannelInv, NEW r \in Requests, Ask(r)
  PROVE  ChannelInv'
<1> USE DEF ChannelInv
<1> DEFINE x == Fetching
<1>1. /\ fetch' = [fetch EXCEPT ![r] = x] /\ caller' = [caller EXCEPT !.at = "waiting", !.for = r]
      /\ UNCHANGED <<job, sink, payloads, doubled, channel, faults>>
  BY DEF Ask, channelVars
<1>2. x \in FetchType /\ x.at = "fetching" /\ x.collected = <<>>
  <2>1. <<>> \in Seq(PayloadType)
    OBVIOUS
  <2> QED BY <2>1 DEF Fetching, FetchType
<1> HIDE DEF x
<1>3. Len(<<>>) = 0
  OBVIOUS
<1>4. AllIn(x.collected, Multiples) /\ Once(x.collected, channel', Bound)
  BY <1>2, <1>3 DEF AllIn, Once
<1>5. caller' \in Callers /\ caller'.at = "waiting"
  <2> DEFINE w == [caller EXCEPT !.at = "waiting"]
  <2>1. w \in Callers /\ w.at = "waiting"
    BY DEF ChannelTypeOK, Callers
  <2>2. caller' = [w EXCEPT !.for = r]
    BY <1>1
  <2> HIDE DEF w
  <2>3. [w EXCEPT !.for = r] \in Callers /\ [w EXCEPT !.for = r].at = w.at
    BY <2>1 DEF Callers
  <2> QED BY <2>1, <2>2, <2>3
<1>6. faults' \in Nat /\ faults' >= faults
  BY <1>1 DEF ChannelTypeOK
<1> QED BY <1>1, <1>2, <1>4, <1>5, <1>6, HandlerStep

LEMMA DisconnectStep ==
  ASSUME ChannelInv, NEW r \in Requests, Disconnect(r)
  PROVE  ChannelInv'
<1> USE DEF ChannelInv
<1> DEFINE x == fetch[r]
           n == IF ClientRetries > 0 /\ caller.retries < ClientRetries THEN caller.retries + 1 ELSE 0
<1>1. /\ caller' = [caller EXCEPT !.at = "ready", !.retries = n]
      /\ faults' = faults + 1
      /\ UNCHANGED <<job, sink, payloads, doubled, channel, fetch>>
  BY DEF Disconnect, channelVars
<1>2. caller \in Callers /\ x \in {Idle} \cup FetchType \cup AnswerType
  BY DEF ChannelTypeOK
<1>3. fetch' = [fetch EXCEPT ![r] = x]
  BY <1>1 DEF ChannelTypeOK
<1>4. n \in Nat
  BY <1>2 DEF Callers
<1>5. caller' \in Callers /\ caller'.at = "ready"
  <2> DEFINE w == [caller EXCEPT !.at = "ready"]
  <2>1. w \in Callers /\ w.at = "ready"
    BY <1>2 DEF Callers
  <2> HIDE DEF n
  <2>2. caller' = [w EXCEPT !.retries = n]
    BY <1>1
  <2> HIDE DEF w
  <2>3. [w EXCEPT !.retries = n] \in Callers /\ [w EXCEPT !.retries = n].at = w.at
    BY <1>4, <2>1 DEF Callers
  <2> QED BY <2>1, <2>2, <2>3
<1>6. /\ (x.at = "fetching" => /\ AllIn(x.collected, Multiples)
                               /\ ~doubled => Once(x.collected, channel', Bound)
                               /\ sink = "create" => x.collected = <<>>)
      /\ (x.at = "answered" /\ x.status = 200 => x.message \in TrueMessages)
  BY <1>1 DEF Held, Pushing, Given
<1>7. faults' \in Nat /\ faults' >= faults
  BY <1>1 DEF ChannelTypeOK
<1> HIDE DEF x
<1> QED BY <1>1, <1>2, <1>3, <1>5, <1>6, <1>7, HandlerStep

-----------------------------------------------------------------------------
LEMMA ChannelInit ==
  ASSUME ResponseInit
  PROVE  ChannelInv
<1> USE DEF ResponseInit
<1>1. ChannelTypeOK
  <2>1. (CHOOSE r \in Requests : TRUE) \in Requests
    BY ResponseAssumption
  <2>2. caller \in Callers
    BY <2>1, NothingIs DEF Callers
  <2>3. fetch \in [Requests -> {Idle} \cup FetchType \cup AnswerType]
    OBVIOUS
  <2>4. job \in [rows : RowLists, outcome : Outcomes, max_retries : Nat]
    BY ResponseAssumption
  <2>5. payloads \in Seq(PayloadType) /\ channel \in Seq(PayloadType)
    OBVIOUS
  <2> QED BY <2>2, <2>3, <2>4, <2>5 DEF ChannelTypeOK
<1>2. \A r \in Requests : fetch[r].at = "idle"
  BY DEF Idle
<1>3. Len(<<>>) = 0
  OBVIOUS
<1>4. Pushing /\ Held /\ Given
  BY <1>2 DEF Pushing, Held, Given
<1>5. OnChannel
  BY <1>3 DEF OnChannel, AllIn, OnceOn
<1> QED BY <1>1, <1>4, <1>5 DEF ChannelInv

LEMMA ChannelStep ==
  ASSUME ChannelInv, [ResponseNext]_responseVars
  PROVE  ChannelInv'
<1>1. CASE UNCHANGED responseVars
  <2> USE DEF ChannelInv
  <2>1. UNCHANGED <<job, sink, payloads, channel, fetch, caller, faults, doubled>>
    BY <1>1 DEF responseVars, channelVars
  <2>2. ChannelTypeOK'
    BY <2>1 DEF ChannelTypeOK
  <2>3. /\ Fragments' = Fragments /\ Parts' = Parts /\ Multiples' = Multiples
        /\ (Failure => Failure') /\ Genuine \subseteq Genuine' /\ TrueMessages \subseteq TrueMessages'
    <3>1. faults' \in Nat /\ faults' >= faults
      BY <2>1 DEF ChannelTypeOK
    <3> QED BY <3>1, <2>1, Later
  <2>4. Bound' = Bound
    BY <2>1, <2>3 DEF Bound
  <2>5. Pushing'
    BY <2>1, <2>3 DEF Pushing
  <2>6. OnChannel'
    BY <2>1, <2>3, <2>4, AllInMore DEF OnChannel
  <2>7. Held' /\ Given'
    BY <2>1, <2>3, <2>4 DEF Held, Given
  <2> QED BY <2>2, <2>5, <2>6, <2>7
<1>2. CASE Sink
  BY <1>2, CreateStep, PushStep, PushFailsStep DEF Sink
<1>3. ASSUME NEW r \in Requests, Handle(r) PROVE ChannelInv'
  BY <1>3, PopStep, TimedOutStep, PopFailsStep, DroppedStep DEF Handle
<1>4. ASSUME NEW r \in Requests, Client(r) PROVE ChannelInv'
  BY <1>4, AskStep, ReceiveStep, DisconnectStep DEF Client
<1> QED BY <1>1, <1>2, <1>3, <1>4 DEF ResponseNext

\* What the client is told is so: a success gives the whole result in order, with
\* its rows once, unless a fragment was pushed twice; a failure has one of the
\* causes GivenIsTrue names (fetch_message and process_and_forward).
THEOREM WhatIsGivenIsTrue == ResponseSpec => []GivenIsTrue
<1>1. ResponseInit => ChannelInv
  BY ChannelInit
<1>2. ChannelInv /\ [ResponseNext]_responseVars => ChannelInv'
  BY ChannelStep
<1>3. ChannelInv => GivenIsTrue
  <2> SUFFICES ASSUME ChannelInv, caller.at = "given" PROVE GivenIsTrue
    BY DEF GivenIsTrue
  <2> DEFINE m == caller.message
  <2>1. \/ m.status = "success" /\ (doubled \/ m.data = AllRows(job.rows))
        \/ m.status = "failed" /\ Failure
    BY DEF ChannelInv, Given, TrueMessages
  <2> QED BY <2>1 DEF GivenIsTrue, Failure
<1> QED BY <1>1, <1>2, <1>3, PTL DEF ResponseSpec

-----------------------------------------------------------------------------
(* NimInference: the requests of one call.                                 *)

(* Slices of the inputs. *)

LEMMA SliceFact ==
  ASSUME NEW i \in Nat \ {0}, NEW l \in Nat
  PROVE  /\ Slice(i, l) \in Seq(Nat) /\ Len(Slice(i, l)) = l
         /\ \A k \in 1..l : Slice(i, l)[k] = i + k - 1
<1>1. \A k \in 1..l : i + k - 1 \in Nat
  OBVIOUS
<1>2. Slice(i, l) \in Seq(Nat)
  BY <1>1, IsASeq DEF Slice
<1>3. DOMAIN Slice(i, l) = 1..l
  BY DEF Slice
<1>4. Len(Slice(i, l)) = l
  BY <1>2, <1>3
<1> QED BY <1>2, <1>4 DEF Slice

LEMMA NoSlice == Slice(1, 0) = <<>>
<1>1. Slice(1, 0) \in Seq(Nat) /\ Len(Slice(1, 0)) = 0
  BY SliceFact
<1> QED BY <1>1, EmptySeq

\* A slice and the one after it are one.
LEMMA SlicesJoin ==
  ASSUME NEW i \in Nat \ {0}, NEW l \in Nat
  PROVE  Slice(1, i - 1) \o Slice(i, l) = Slice(1, i + l - 1)
<1> DEFINE s == Slice(1, i - 1)
           t == Slice(i, l)
           u == Slice(1, i + l - 1)
           v == s \o t
<1>1. i - 1 \in Nat /\ i + l - 1 \in Nat /\ 1 \in Nat \ {0}
  OBVIOUS
<1>2. s \in Seq(Nat) /\ Len(s) = i - 1 /\ \A k \in 1..(i - 1) : s[k] = k
  <2>1. \A k \in 1..(i - 1) : 1 + k - 1 = k
    OBVIOUS
  <2> QED BY <2>1, <1>1, SliceFact
<1>3. t \in Seq(Nat) /\ Len(t) = l /\ \A k \in 1..l : t[k] = i + k - 1
  BY SliceFact
<1>4. u \in Seq(Nat) /\ Len(u) = i + l - 1 /\ \A k \in 1..(i + l - 1) : u[k] = k
  <2>1. \A k \in 1..(i + l - 1) : 1 + k - 1 = k
    OBVIOUS
  <2> QED BY <2>1, <1>1, SliceFact
<1> HIDE DEF s, t, u
<1>5. v \in Seq(Nat) /\ Len(v) = i + l - 1
  <2>1. v \in Seq(Nat) /\ Len(v) = Len(s) + Len(t)
    BY <1>2, <1>3, ConcatProperties
  <2>2. Len(s) + Len(t) = i + l - 1
    BY <1>1, <1>2, <1>3
  <2> QED BY <2>1, <2>2
<1>6. \A k \in 1..(i + l - 1) : v[k] = k
  <2> SUFFICES ASSUME NEW k \in 1..(i + l - 1) PROVE v[k] = k
    OBVIOUS
  <2>1. k \in 1..(Len(s) + Len(t))
    BY <1>1, <1>2, <1>3
  <2>2. v[k] = IF k <= Len(s) THEN s[k] ELSE t[k - Len(s)]
    BY <2>1, <1>2, <1>3, ConcatProperties
  <2>3. CASE k <= i - 1
    <3>1. k \in 1..(i - 1)
      BY <2>3
    <3> QED BY <2>2, <3>1, <2>3, <1>2
  <2>4. CASE ~(k <= i - 1)
    <3>1. k - (i - 1) \in 1..l /\ i + (k - (i - 1)) - 1 = k
      BY <2>4
    <3>2. v[k] = t[k - (i - 1)]
      BY <2>2, <2>4, <1>2
    <3> QED BY <3>1, <3>2, <1>3
  <2> QED BY <2>3, <2>4
<1> HIDE DEF v
<1>7. v = u
  BY <1>4, <1>5, <1>6, SeqEqual
<1> QED BY <1>7 DEF v, s, t, u

-----------------------------------------------------------------------------
(* The chunks.                                                             *)

CutType == [chunks : Seq(Seq(Nat)), i : Nat \ {0}]

\* Each chunk that may be cut is of the inputs there are, and not larger than most.
Sizes(size, n, most) == \A i \in 1..n : size[i] \in 1..most /\ i + size[i] <= n + 1

\* Where the loop is after k rounds: the chunks are of the inputs before the i-th.
Within(chunks, most) == \A b \in 1..Len(chunks) : Len(chunks[b]) <= most
CutUpTo(s, k, n, most) ==
  /\ s \in CutType /\ s.i <= n + 1 /\ (s.i > k \/ s.i = n + 1)
  /\ FlattenSeq(s.chunks) = Slice(1, s.i - 1)
  /\ Within(s.chunks, most)

LEMMA NextChunkTyped ==
  ASSUME NEW n \in Nat, NEW most \in Nat, NEW size, Sizes(size, n, most), NEW s \in CutType
  PROVE  NextChunk(s, n, size) \in CutType
<1>1. s.chunks \in Seq(Seq(Nat)) /\ s.i \in Nat \ {0}
  BY DEF CutType
<1>2. CASE s.i > n
  BY <1>2 DEF NextChunk
<1>3. CASE ~(s.i > n)
  <2>1. s.i \in 1..n
    BY <1>1, <1>3
  <2>2. size[s.i] \in Nat /\ size[s.i] > 0
    BY <2>1 DEF Sizes
  <2>3. Slice(s.i, size[s.i]) \in Seq(Nat)
    BY <1>1, <2>2, SliceFact
  <2>4. Append(s.chunks, Slice(s.i, size[s.i])) \in Seq(Seq(Nat))
    BY <1>1, <2>3, AppendProperties
  <2>5. s.i + size[s.i] \in Nat \ {0}
    BY <1>1, <2>2
  <2> QED BY <2>4, <2>5, <1>3 DEF NextChunk, CutType
<1> QED BY <1>2, <1>3

LEMMA NextChunkStep ==
  ASSUME NEW n \in Nat, NEW most \in Nat, NEW size, Sizes(size, n, most),
         NEW s, NEW k \in Nat, CutUpTo(s, k, n, most)
  PROVE  CutUpTo(NextChunk(s, n, size), k + 1, n, most)
<1>1. /\ s \in CutType /\ s.chunks \in Seq(Seq(Nat)) /\ s.i \in Nat \ {0} /\ s.i <= n + 1
      /\ s.i > k \/ s.i = n + 1
      /\ FlattenSeq(s.chunks) = Slice(1, s.i - 1) /\ Within(s.chunks, most)
  BY DEF CutUpTo, CutType
<1>2. CASE s.i > n
  <2>1. NextChunk(s, n, size) = s /\ s.i = n + 1
    BY <1>1, <1>2 DEF NextChunk
  <2> QED BY <2>1, <1>1 DEF CutUpTo
<1>3. CASE ~(s.i > n)
  <2> DEFINE i == s.i
             l == size[i]
             c == Slice(i, l)
             t == NextChunk(s, n, size)
  <2>1. i \in 1..n
    BY <1>1, <1>3
  <2>2. l \in Nat /\ l > 0 /\ l <= most /\ i + l <= n + 1
    BY <2>1 DEF Sizes
  <2>3. c \in Seq(Nat) /\ Len(c) = l
    BY <1>1, <2>2, SliceFact
  <2>4. t = [chunks |-> Append(s.chunks, c), i |-> i + l]
    BY <1>3 DEF NextChunk
  <2>5. t \in CutType
    BY <1>1, NextChunkTyped
  <2> HIDE DEF c, t, l
  <2>6. t.chunks = Append(s.chunks, c) /\ t.i = i + l
    BY <2>4
  <2>7. t.i <= n + 1 /\ (t.i > k + 1 \/ t.i = n + 1)
    BY <2>2, <2>6, <1>1, <1>3
  <2>8. FlattenSeq(t.chunks) = Slice(1, t.i - 1)
    <3>1. Slice(1, i - 1) \in Seq(Nat)
      <4>1. i - 1 \in Nat /\ 1 \in Nat \ {0}
        BY <2>1
      <4> QED BY <4>1, SliceFact
    <3>2. FlattenSeq(t.chunks) = Slice(1, i - 1) \o c
      BY <3>1, <2>3, <2>6, <1>1, FlattenAppend
    <3>3. Slice(1, i - 1) \o c = Slice(1, i + l - 1)
      BY <1>1, <2>2, SlicesJoin DEF c
    <3>4. t.i - 1 = i + l - 1
      BY <2>2, <2>6, <1>1
    <3> QED BY <3>2, <3>3, <3>4
  <2>9. Within(t.chunks, most)
    <3>1. PICK m \in Nat : m = Len(s.chunks)
      BY <1>1, LenProperties
    <3>2. Len(t.chunks) = m + 1 /\ (\A b \in 1..m : t.chunks[b] = s.chunks[b]) /\ t.chunks[m + 1] = c
      BY <3>1, <1>1, <2>3, <2>6, AppendProperties
    <3>3. \A b \in 1..(m + 1) : b = m + 1 \/ b \in 1..m
      OBVIOUS
    <3> QED BY <3>1, <3>2, <3>3, <2>2, <2>3, <1>1 DEF Within
  <2>10. CutUpTo(t, k + 1, n, most)
    BY <2>5, <2>7, <2>8, <2>9 DEF CutUpTo
  <2> QED BY <2>10 DEF t
<1> QED BY <1>2, <1>3

\* after, as Cut uses it.
Cutting(f, n, size) == f = [k \in 0..n |-> IF k = 0 THEN NoChunks ELSE NextChunk(f[k - 1], n, size)]

LEMMA NoChunksFact ==
  ASSUME NEW n \in Nat, NEW most \in Nat
  PROVE  NoChunks \in CutType /\ CutUpTo(NoChunks, 0, n, most)
<1>1. NoChunks.chunks = <<>> /\ NoChunks.i = 1
  BY DEF NoChunks
<1>2. <<>> \in Seq(Seq(Nat)) /\ Len(<<>>) = 0
  OBVIOUS
<1>3. NoChunks \in CutType
  BY <1>2 DEF NoChunks, CutType
<1>4. FlattenSeq(<<>>) = Slice(1, 1 - 1)
  <2>1. 1 - 1 = 0
    OBVIOUS
  <2> QED BY <2>1, FlattenEmpty, NoSlice
<1> QED BY <1>1, <1>2, <1>3, <1>4 DEF CutUpTo, Within

LEMMA CuttingExists ==
  ASSUME NEW n \in Nat, NEW most \in Nat, NEW size, Sizes(size, n, most)
  PROVE  \E f : Cutting(f, n, size)
<1> DEFINE A == CutType
           base == NoChunks
           rule == [k \in 1..n |-> [x \in A |-> NextChunk(x, n, size)]]
<1>1. Steps(rule, A, n)
  <2>1. \A x \in A : NextChunk(x, n, size) \in A
    BY NextChunkTyped
  <2> HIDE DEF A
  <2> QED BY <2>1 DEF Steps
<1>2. \A k \in 1..n, x \in A : rule[k][x] = NextChunk(x, n, size)
  OBVIOUS
<1>3. base \in A
  BY NoChunksFact
<1> HIDE DEF rule, A, base
<1>4. PICK f : Solves(f, base, rule, A, n)
  BY <1>1, <1>3, Recursion
<1> DEFINE h == [k \in 0..n |-> IF k = 0 THEN NoChunks ELSE NextChunk(f[k - 1], n, size)]
<1>5. ASSUME NEW k \in 0..n PROVE f[k] = h[k]
  <2>1. CASE k = 0
    BY <2>1, <1>4 DEF Solves, base
  <2>2. CASE k # 0
    <3>1. k \in 1..n /\ k - 1 \in 0..n
      BY <2>2
    <3>2. f[k - 1] \in A /\ f[k] = rule[k][f[k - 1]]
      BY <3>1, <1>4 DEF Solves
    <3> QED BY <2>2, <3>1, <3>2, <1>2
  <2> QED BY <2>1, <2>2
<1>6. f = h
  BY <1>4, <1>5 DEF Solves
<1>7. Cutting(f, n, size)
  BY <1>6 DEF Cutting
<1> QED BY <1>7

\* However large the chunks, they are of all inputs in their order.
WellCut(chunks, n, most) ==
  chunks \in Seq(Seq(Nat)) /\ FlattenSeq(chunks) = Slice(1, n) /\ Within(chunks, most)

LEMMA CutFact ==
  ASSUME NEW n \in Nat, NEW most \in Nat, NEW size, Sizes(size, n, most)
  PROVE  WellCut(Cut(n, size), n, most)
<1> DEFINE after == CHOOSE f : Cutting(f, n, size)
<1>1. Cutting(after, n, size)
  BY CuttingExists
<1>2. Cut(n, size) = after[n].chunks
  BY DEF Cut, Cutting
<1> HIDE DEF after
<1> DEFINE S == {k \in Nat : k <= n => CutUpTo(after[k], k, n, most)}
<1>3. 0 \in S
  <2>1. 0 \in 0..n
    OBVIOUS
  <2>2. after[0] = NoChunks
    BY <2>1, <1>1 DEF Cutting
  <2> QED BY <2>2, NoChunksFact
<1>4. ASSUME NEW k \in Nat, k \in S PROVE k + 1 \in S
  <2> SUFFICES ASSUME k + 1 <= n PROVE CutUpTo(after[k + 1], k + 1, n, most)
    OBVIOUS
  <2>1. k + 1 \in 0..n /\ k + 1 # 0 /\ (k + 1) - 1 = k /\ k <= n
    OBVIOUS
  <2>2. after[k + 1] = NextChunk(after[k], n, size)
    BY <2>1, <1>1 DEF Cutting
  <2>3. CutUpTo(after[k], k, n, most)
    BY <1>4, <2>1
  <2> QED BY <2>2, <2>3, NextChunkStep
<1> HIDE DEF S
<1>5. n \in S
  BY <1>3, <1>4, SetInduction
<1>6. CutUpTo(after[n], n, n, most)
  BY <1>5 DEF S
<1> DEFINE s == after[n]
<1> HIDE DEF s
<1>7. CutUpTo(s, n, n, most) /\ Cut(n, size) = s.chunks
  BY <1>2, <1>6 DEF s
<1>8. s.chunks \in Seq(Seq(Nat)) /\ s.i \in Nat /\ s.i = n + 1
  BY <1>7 DEF CutUpTo, CutType
<1>9. s.i - 1 = n
  BY <1>8
<1> QED BY <1>7, <1>8, <1>9 DEF WellCut, CutUpTo

LEMMA LeastFact ==
  ASSUME NEW a \in Nat \ {0}, NEW b \in Nat \ {0}
  PROVE  Least(a, b) \in 1..a /\ Least(a, b) \in 1..b
  BY DEF Least

\* A set of numbers up to n has a largest one.
LEMMA LargestNumber ==
  ASSUME NEW n \in Nat, NEW T, T \subseteq 1..n, T # {}
  PROVE  Max(T) \in T /\ \A x \in T : x <= Max(T)
<1> DEFINE bounds == {m \in Nat : \A x \in T : x <= m}
<1>1. n \in bounds
  OBVIOUS
<1>2. PICK m \in bounds : \A y \in bounds : m <= y
  <2>1. bounds \subseteq Nat /\ bounds # {}
    BY <1>1
  <2> HIDE DEF bounds
  <2> QED BY <2>1, LeastNumber
<1>3. m \in T
  <2> SUFFICES ASSUME m \notin T PROVE FALSE
    OBVIOUS
  <2>1. \A x \in T : x \in Nat /\ x <= m /\ x # m /\ x > 0
    BY <1>2
  <2>2. m \in Nat
    BY <1>2
  <2>3. m > 0
    <3>1. PICK x \in T : TRUE
      OBVIOUS
    <3> QED BY <2>1, <2>2, <3>1
  <2>4. ASSUME NEW x \in T PROVE x <= m - 1
    BY <2>1, <2>2
  <2>5. m - 1 \in Nat /\ ~(m <= m - 1)
    BY <2>2, <2>3
  <2>6. m - 1 \in bounds
    BY <2>4, <2>5
  <2> QED BY <2>5, <2>6, <1>2
<1>4. \A x \in T : m >= x
  BY <1>2, <1>3
<1>5. Max(T) \in T /\ \A x \in T : Max(T) >= x
  BY <1>3, <1>4 DEF Max
<1> QED BY <1>5

LEMMA PowerFact ==
  ASSUME NEW left \in Nat \ {0}
  PROVE  PowerUpTo(left) \in 1..left
<1> DEFINE T == {p \in 1..left : \A d \in 1..p : p % d = 0 => d = 1 \/ d % 2 = 0}
<1>1. 1 \in T
  <2>1. \A d \in 1..1 : d = 1
    OBVIOUS
  <2>2. 1 \in 1..left
    OBVIOUS
  <2> QED BY <2>1, <2>2
<1>2. T \subseteq 1..left
  OBVIOUS
<1>3. PowerUpTo(left) = Max(T)
  BY DEF PowerUpTo
<1> HIDE DEF T
<1>4. Max(T) \in T
  BY <1>1, <1>2, LargestNumber
<1> QED BY <1>2, <1>3, <1>4

\* What is left at the i-th of n inputs.
LEMMA LeftAt == ASSUME NEW n \in Nat, NEW i \in 1..n PROVE n - i + 1 \in Nat \ {0} /\ i + (n - i + 1) = n + 1
OBVIOUS

LEMMA EnoughLeft ==
  ASSUME NEW n \in Nat, NEW i \in 1..n, NEW l \in 1..(n - i + 1)
  PROVE  i + l <= n + 1
OBVIOUS

LEMMA ChunksFact ==
  ASSUME NEW n \in Nat, NEW most \in Nat \ {0}
  PROVE  WellCut(Chunks(n, most), n, most)
<1> DEFINE size == [i \in 1..n |-> Least(most, n - i + 1)]
<1>1. ASSUME NEW i \in 1..n PROVE size[i] \in 1..most /\ i + size[i] <= n + 1
  <2>1. Least(most, n - i + 1) \in 1..most /\ Least(most, n - i + 1) \in 1..(n - i + 1)
    BY LeftAt, LeastFact
  <2>2. i + Least(most, n - i + 1) <= n + 1
    BY <2>1, EnoughLeft
  <2> QED BY <2>1, <2>2
<1>2. Chunks(n, most) = Cut(n, size)
  BY DEF Chunks
<1> HIDE DEF size
<1>3. Sizes(size, n, most)
  BY <1>1 DEF Sizes
<1> QED BY <1>2, <1>3, CutFact

LEMMA GeometricFact ==
  ASSUME NEW n \in Nat, NEW most \in Nat \ {0}
  PROVE  WellCut(ChunksGeometrically(n, most), n, most)
<1> DEFINE size == [i \in 1..n |-> Least(PowerUpTo(n - i + 1), most)]
<1>1. ASSUME NEW i \in 1..n PROVE size[i] \in 1..most /\ i + size[i] <= n + 1
  <2> DEFINE p == PowerUpTo(n - i + 1)
             l == Least(p, most)
  <2>1. p \in 1..(n - i + 1)
    BY LeftAt, PowerFact
  <2> HIDE DEF p
  <2>2. p \in Nat \ {0}
    BY <2>1
  <2>3. l \in 1..p /\ l \in 1..most
    BY <2>2, LeastFact
  <2> HIDE DEF l
  <2>4. l \in 1..(n - i + 1)
    BY <2>1, <2>2, <2>3, LeftAt
  <2>5. i + l <= n + 1
    BY <2>4, EnoughLeft
  <2> QED BY <2>3, <2>5 DEF l, p
<1>2. ChunksGeometrically(n, most) = Cut(n, size)
  BY DEF ChunksGeometrically
<1> HIDE DEF size
<1>3. Sizes(size, n, most)
  BY <1>1 DEF Sizes
<1> QED BY <1>2, <1>3, CutFact

-----------------------------------------------------------------------------
(* The requests of a call.                                                 *)

\* Every input is in one request, in order, with its own shape.
Fitting(bs, n, most) ==
  /\ bs \in Seq([inputs : Seq(Nat), shapes : Seq(Nat)])
  /\ \A b \in 1..Len(bs) : bs[b].shapes = bs[b].inputs /\ Len(bs[b].inputs) <= most
  /\ FlattenSeq([b \in 1..Len(bs) |-> bs[b].inputs]) = Slice(1, n)

LEMMA PairedFact ==
  ASSUME NEW chunks, NEW n, NEW most, WellCut(chunks, n, most)
  PROVE  Fitting(Paired(chunks, chunks), n, most)
<1> DEFINE bs == Paired(chunks, chunks)
<1>1. PICK m \in Nat : m = Len(chunks)
  BY LenProperties DEF WellCut
<1>2. \A b \in 1..m : chunks[b] \in Seq(Nat)
  BY <1>1, ElementOfSeq DEF WellCut
<1>3. bs = [b \in 1..m |-> [inputs |-> chunks[b], shapes |-> chunks[b]]]
  BY <1>1 DEF Paired, Least
<1> HIDE DEF bs
<1>4. bs \in Seq([inputs : Seq(Nat), shapes : Seq(Nat)])
  <2>1. \A b \in 1..m : [inputs |-> chunks[b], shapes |-> chunks[b]] \in [inputs : Seq(Nat), shapes : Seq(Nat)]
    BY <1>2
  <2> QED BY <2>1, <1>3, IsASeq
<1>5. Len(bs) = m
  <2>1. DOMAIN bs = 1..m
    BY <1>3
  <2> QED BY <2>1, <1>4
<1>6. \A b \in 1..m : bs[b].shapes = chunks[b] /\ bs[b].inputs = chunks[b]
  BY <1>3
<1>7. [b \in 1..m |-> bs[b].inputs] = chunks
  <2>1. chunks = [b \in 1..m |-> chunks[b]]
    BY <1>1 DEF WellCut
  <2> QED BY <2>1, <1>6
<1>8. \A b \in 1..m : Len(chunks[b]) <= most
  BY <1>1 DEF WellCut, Within
<1>9. Fitting(bs, n, most)
  BY <1>4, <1>5, <1>6, <1>7, <1>8 DEF Fitting, WellCut
<1> QED BY <1>9 DEF bs

LEMMA CallSizeFact ==
  ASSUME call \in Calls
  PROVE  max_batch_size \in Nat \ {0} /\ call.n \in Nat
<1>1. call.n \in Nat /\ call.limit \in Nat \ {0} /\ call.requested \in Nat
  BY NimAssumption
<1>2. _fetch_max_batch_size \in Nat \ {0}
  BY <1>1 DEF _fetch_max_batch_size
<1>3. CASE call.requested = 0
  BY <1>1, <1>2, <1>3 DEF max_batch_size
<1>4. CASE call.requested # 0
  <2>1. call.requested \in Nat \ {0}
    BY <1>1, <1>4
  <2>2. Least(_fetch_max_batch_size, call.requested) \in Nat \ {0}
    BY <2>1, <1>2 DEF Least
  <2> QED BY <2>1, <2>2, <1>1, <1>4 DEF max_batch_size
<1> QED BY <1>1, <1>3, <1>4

\* The limits that max_batch_size keeps.
LEMMA SizeIsAllowed ==
  ASSUME call \in Calls
  PROVE  /\ call.requested > 0 => max_batch_size <= call.requested
         /\ ~call.force \/ call.requested = 0 => max_batch_size <= call.limit
<1>1. call.limit \in Nat \ {0} /\ call.requested \in Nat
  BY NimAssumption
<1>2. _fetch_max_batch_size \in Nat /\ _fetch_max_batch_size <= call.limit
  BY <1>1 DEF _fetch_max_batch_size
<1> QED BY <1>1, <1>2 DEF max_batch_size, Least

LEMMA FormatFact ==
  ASSUME call \in Calls
  PROVE  \/ Format = Refused
         \/ ~Format.refused /\ Fitting(Format.batches, call.n, max_batch_size)
<1>1. max_batch_size \in Nat \ {0} /\ call.n \in Nat
  BY CallSizeFact
<1>2. WellCut(Chunks(call.n, max_batch_size), call.n, max_batch_size)
  BY <1>1, ChunksFact
<1>3. WellCut(ChunksGeometrically(call.n, max_batch_size), call.n, max_batch_size)
  BY <1>1, GeometricFact
<1>4. ASSUME NEW chunks, WellCut(chunks, call.n, max_batch_size)
      PROVE  /\ ~Formatted(chunks, chunks).refused
             /\ Fitting(Formatted(chunks, chunks).batches, call.n, max_batch_size)
  <2>1. Fitting(Paired(chunks, chunks), call.n, max_batch_size)
    BY <1>4, PairedFact
  <2> QED BY <2>1 DEF Formatted
<1>5. ~Equal.refused /\ Fitting(Equal.batches, call.n, max_batch_size)
  BY <1>2, <1>4 DEF Equal
<1>6. ~page_format.refused /\ Fitting(page_format.batches, call.n, max_batch_size)
  <2>1. CASE Grpc
    BY <2>1, <1>3, <1>4 DEF page_format, Shapes
  <2>2. CASE ~Grpc
    BY <2>2, <1>2, <1>4 DEF page_format, Shapes
  <2> QED BY <2>1, <2>2
<1>7. call.interface \in {"page", "ocr", "cached", "deplot", "caption", "embedding", "parse"}
  BY NimAssumption
<1> HIDE DEF Equal, Refused, page_format
<1>8. Format \in {Refused, Equal, page_format}
  BY <1>7 DEF Format, ocr_format, cached_format, deplot_format, caption_format, embedding_format,
              parse_format
<1> QED BY <1>5, <1>6, <1>8

-----------------------------------------------------------------------------
(* The call.                                                               *)

\* The detections of as many images as there are shapes are all kept.
LEMMA AllShown ==
  ASSUME NEW s \in Seq(Nat)
  PROVE  WithShapes(s, s) = s
<1> DEFINE t == SubSeq(s, 1, Len(s))
<1>1. PICK m \in Nat : m = Len(s)
  BY LenProperties
<1>2. Least(Len(s), Len(s)) = m
  BY <1>1 DEF Least
<1>3. SubSeq(s, 1, m) = s
  <2>1. SubSeq(s, 1, m) \in Seq(Nat) /\ Len(SubSeq(s, 1, m)) = m
    BY <1>1, SubSeqProperties
  <2>2. \A k \in 1..m : SubSeq(s, 1, m)[k] = s[k]
    BY <1>1, SubSeqProperties
  <2> QED BY <2>1, <2>2, <1>1, SeqEqual
<1> QED BY <1>1, <1>2, <1>3 DEF WithShapes

\* What makes AnswersInPlace inductive: from the moment they are sent the requests
\* are of all inputs, each with its shape, and what is returned is what was read
\* of the answers, in the order of the requests.
WhatWasRead(b) == process_inference_results(b, request[b].output)
NimInv ==
  /\ call \in Calls
  /\ pc \in {"asked", "running", "done", "raised"}
  /\ pc \in {"running", "done"} => Fitting(batches, call.n, max_batch_size)
  /\ pc = "done" => all_results = FlattenSeq([b \in DOMAIN batches |-> WhatWasRead(b)])

LEMMA NimInitInv == NimInit => NimInv
BY DEF NimInit, NimInv

\* Only the state of the requests changes while they are under way.
LEMMA UnderWay ==
  ASSUME NimInv, pc = "running", UNCHANGED <<call, pc, batches, all_results>>
  PROVE  NimInv'
<1>1. max_batch_size' = max_batch_size
  BY DEF max_batch_size, _fetch_max_batch_size, Least
<1> QED BY <1>1 DEF NimInv

LEMMA NimStepInv == NimInv /\ [NimNext]_nimVars => NimInv'
<1> SUFFICES ASSUME NimInv, [NimNext]_nimVars PROVE NimInv'
  OBVIOUS
<1>1. CASE Prepare
  <2>1. /\ call' = call /\ call \in Calls /\ pc' = IF Format.refused THEN "raised" ELSE "running"
        /\ batches' = Format.batches
    BY <1>1 DEF Prepare, NimInv
  <2>2. max_batch_size' = max_batch_size
    BY <2>1 DEF max_batch_size, _fetch_max_batch_size, Least
  <2>3. ASSUME ~Format.refused PROVE Fitting(Format.batches, call.n, max_batch_size)
    BY <2>1, <2>3, FormatFact DEF Refused
  <2> HIDE DEF Format
  <2>4. pc' \in {"running", "raised"} /\ (pc' = "running" => ~Format.refused)
    BY <2>1
  <2> QED BY <2>1, <2>2, <2>3, <2>4 DEF NimInv
<1>2. ASSUME NEW b, Take(b) PROVE NimInv'
  BY <1>2, UnderWay DEF Take
<1>3. ASSUME NEW b, GrpcInfer(b) PROVE NimInv'
  BY <1>3, UnderWay DEF GrpcInfer
<1>4. ASSUME NEW b, HttpInfer(b) PROVE NimInv'
  BY <1>4, UnderWay DEF HttpInfer
<1>5. ASSUME NEW b, SendAgain(b) PROVE NimInv'
  BY <1>5, UnderWay DEF SendAgain
<1>6. CASE Collect
  <2>1. /\ call' = call /\ batches' = batches /\ request' = request
        /\ Fitting(batches, call.n, max_batch_size)
    BY <1>6 DEF Collect, NimInv
  <2>2. max_batch_size' = max_batch_size
    BY <2>1 DEF max_batch_size, _fetch_max_batch_size, Least
  <2>3. \/ pc' = "raised"
        \/ /\ pc' = "done"
           /\ all_results' = FlattenSeq([b \in DOMAIN batches |-> WhatWasRead(b)])
    BY <1>6 DEF Collect, WhatWasRead
  <2>4. ASSUME NEW b PROVE WhatWasRead(b)' = WhatWasRead(b)
    BY <2>1 DEF WhatWasRead, process_inference_results, WithShapes
  <2>5. [b \in DOMAIN batches |-> WhatWasRead(b)]' = [b \in DOMAIN batches |-> WhatWasRead(b)]
    BY <2>1, <2>4
  <2> QED BY <2>1, <2>2, <2>3, <2>5 DEF NimInv
<1>7. CASE UNCHANGED nimVars
  <2>1. max_batch_size' = max_batch_size
    BY <1>7 DEF nimVars, max_batch_size, _fetch_max_batch_size, Least
  <2>2. [b \in DOMAIN batches |-> WhatWasRead(b)]' = [b \in DOMAIN batches |-> WhatWasRead(b)]
    BY <1>7 DEF nimVars, WhatWasRead, process_inference_results, WithShapes
  <2> QED BY <2>1, <2>2, <1>7 DEF nimVars, NimInv
<1> QED BY <1>1, <1>2, <1>3, <1>4, <1>5, <1>6, <1>7 DEF NimNext

LEMMA NimInvSafe == NimInv => AnswersInPlace
<1> SUFFICES ASSUME NimInv PROVE AnswersInPlace
  OBVIOUS
<1>1. CASE pc \notin {"running", "done"}
  BY <1>1 DEF AnswersInPlace
<1>2. CASE pc \in {"running", "done"}
  <2>1. Fitting(batches, call.n, max_batch_size)
    BY <1>2 DEF NimInv
  <2>2. batches \in Seq([inputs : Seq(Nat), shapes : Seq(Nat)]) /\ DOMAIN batches = 1..Len(batches)
    BY <2>1 DEF Fitting
  <2>3. FlattenSeq([b \in DOMAIN batches |-> batches[b].inputs]) = Slice(1, call.n)
    BY <2>1, <2>2 DEF Fitting
  <2>4. ASSUME NEW b \in DOMAIN batches
        PROVE  /\ batches[b].shapes = batches[b].inputs
               /\ call.requested > 0 => Len(batches[b].inputs) <= call.requested
               /\ ~call.force \/ call.requested = 0 => Len(batches[b].inputs) <= call.limit
    <3>1. b \in 1..Len(batches)
      BY <2>2
    <3>2. batches[b] \in [inputs : Seq(Nat), shapes : Seq(Nat)]
      BY <3>1, <2>2, ElementOfSeq
    <3>3. PICK l \in Nat : l = Len(batches[b].inputs)
      BY <3>2, LenProperties
    <3>4. batches[b].shapes = batches[b].inputs /\ l <= max_batch_size
      BY <3>1, <3>3, <2>1, <2>2 DEF Fitting
    <3>5. call \in Calls /\ max_batch_size \in Nat /\ call.limit \in Nat /\ call.requested \in Nat
      BY CallSizeFact, NimAssumption DEF NimInv
    <3> HIDE DEF max_batch_size
    <3>6. /\ call.requested > 0 => max_batch_size <= call.requested
          /\ ~call.force \/ call.requested = 0 => max_batch_size <= call.limit
      BY <3>5, SizeIsAllowed
    <3> QED BY <3>3, <3>4, <3>5, <3>6
  <2>5. ASSUME pc = "done", \A b \in DOMAIN batches : request[b].output = batches[b].inputs
        PROVE  all_results = Slice(1, call.n)
    <3>1. ASSUME NEW b \in DOMAIN batches PROVE WhatWasRead(b) = batches[b].inputs
      <4>1. batches[b].inputs \in Seq(Nat) /\ batches[b].shapes = batches[b].inputs
        <5>1. b \in 1..Len(batches)
          BY <2>2
        <5>2. batches[b] \in [inputs : Seq(Nat), shapes : Seq(Nat)]
          BY <5>1, <2>2, ElementOfSeq
        <5> QED BY <5>1, <5>2, <2>1 DEF Fitting
      <4>2. WithShapes(batches[b].inputs, batches[b].shapes) = batches[b].inputs
        BY <4>1, AllShown
      <4> QED BY <4>2, <2>5 DEF WhatWasRead, process_inference_results
    <3>2. [b \in DOMAIN batches |-> WhatWasRead(b)] = [b \in DOMAIN batches |-> batches[b].inputs]
      BY <3>1
    <3>3. all_results = FlattenSeq([b \in DOMAIN batches |-> WhatWasRead(b)])
      BY <2>5 DEF NimInv
    <3> QED BY <3>2, <3>3, <2>3
  <2> QED BY <2>3, <2>4, <2>5 DEF AnswersInPlace
<1> QED BY <1>1, <1>2

\* Whatever the server answers, in whatever order, after however many retries: every
\* input was in exactly one request, with its own shape, none larger than the caller
\* allows nor, unless he forces it, than the server does; and the k-th result of
\* infer is of the k-th input if each answer was read as one entry for each input.
THEOREM ResultsInPlace == NimSpec => []AnswersInPlace
<1>1. NimInit => NimInv
  BY NimInitInv
<1>2. NimInv /\ [NimNext]_nimVars => NimInv'
  BY NimStepInv
<1>3. NimInv => AnswersInPlace
  BY NimInvSafe
<1> QED BY <1>1, <1>2, <1>3, PTL DEF NimSpec

-----------------------------------------------------------------------------
(* BoxFusion: the boxes of a page.                                         *)

\* A cluster has boxes of 1..n.
Clusters(n) == {S \in SUBSET (1..n) : S # {}}

\* Each of these boxes is in one of the clusters.
Covered(clusters, I) == \A i \in I : \E c \in 1..Len(clusters) : i \in clusters[c]
ClustersOf(clusters, n, I) == clusters \in Seq(Clusters(n)) /\ Covered(clusters, I)

\* What makes BoxesAccounted inductive: the clusters are of the boxes of the page.
AllOf(clusters, n) == clusters \in Seq(Clusters(n)) /\ UNION Range(clusters) = 1..n
FusionInv ==
  /\ page \in Pages
  /\ fused # <<>> => AllOf(fused.chart, page.charts) /\ AllOf(fused.title, page.titles)
  /\ \A c, d \in DOMAIN found : c # d => found[c] \cap found[d] = {}

\* What holds at the base and is kept by each step holds at the end.
LEMMA RecursiveInduction ==
  ASSUME NEW n \in Nat, NEW S, 0 \in S, \A k \in 1..n : k - 1 \in S => k \in S
  PROVE  n \in S
<1> DEFINE T == {k \in Nat : k <= n => k \in S}
<1>1. 0 \in T
  OBVIOUS
<1>2. ASSUME NEW k \in Nat, k \in T PROVE k + 1 \in T
  <2> SUFFICES ASSUME k + 1 <= n PROVE k + 1 \in S
    OBVIOUS
  <2>1. k \in S /\ k + 1 \in 1..n /\ (k + 1) - 1 = k
    BY <1>2
  <2> QED BY <2>1
<1> HIDE DEF T
<1>3. n \in T
  BY <1>1, <1>2, SetInduction
<1> QED BY <1>3 DEF T

\* Min is the least of a set of numbers.
LEMMA MinFact ==
  ASSUME NEW T, T \subseteq Nat, T # {}
  PROVE  Min(T) \in T
<1>1. \E x \in T : \A y \in T : x <= y
  BY LeastNumber
<1> QED BY <1>1 DEF Min

-----------------------------------------------------------------------------
(* The clusters.                                                           *)

LEMMA MatchingFact ==
  ASSUME NEW n \in Nat, NEW overlap, NEW j \in 1..n
  PROVE  find_matching_box(n, overlap, j) \in 0..n
<1> DEFINE others == 1..n \ {j}
           best == {i \in others : /\ overlap[{i, j}] > 0
                                   /\ \A k \in others : overlap[{k, j}] <= overlap[{i, j}]}
<1>1. find_matching_box(n, overlap, j) = IF best = {} THEN 0 ELSE Min(best)
  BY DEF find_matching_box
<1>2. best \subseteq 1..n
  OBVIOUS
<1> HIDE DEF best
<1>3. best # {} => Min(best) \in best
  <2>1. best \subseteq Nat
    BY <1>2
  <2> QED BY <2>1, MinFact
<1>4. 0 \in 0..n /\ \A i \in 1..n : i \in 0..n
  OBVIOUS
<1>5. CASE best = {}
  BY <1>1, <1>4, <1>5
<1>6. CASE best # {}
  BY <1>1, <1>2, <1>3, <1>4, <1>6
<1> QED BY <1>5, <1>6

LEMMA JoinedStep ==
  ASSUME NEW n \in Nat, NEW j \in 1..n, NEW index \in 0..n, NEW clusters, NEW I,
         ClustersOf(clusters, n, I)
  PROVE  ClustersOf(Joined(clusters, j, index), n, I \cup {j})
<1> DEFINE with == {c \in DOMAIN clusters : {j, index} \cap clusters[c] # {}}
           new == Joined(clusters, j, index)
<1>1. PICK l \in Nat : l = Len(clusters)
  BY LenProperties DEF ClustersOf
<1>2. clusters \in Seq(Clusters(n)) /\ DOMAIN clusters = 1..l
  BY <1>1, LenProperties DEF ClustersOf
<1>3. \A c \in 1..l : clusters[c] \in Clusters(n)
  BY <1>1, <1>2, ElementOfSeq
<1>4. \A i \in I \cup {j} : i = j \/ i \in I
  OBVIOUS
<1>5. \A i \in I : \E c \in 1..l : i \in clusters[c]
  BY <1>1 DEF ClustersOf, Covered
\* A set is appended that has j.
<1>6. ASSUME NEW S \in Clusters(n), j \in S, new = Append(clusters, S)
      PROVE  ClustersOf(new, n, I \cup {j})
  <2>1. /\ new \in Seq(Clusters(n)) /\ Len(new) = l + 1
        /\ (\A c \in 1..l : new[c] = clusters[c]) /\ new[l + 1] = S
    BY <1>1, <1>2, <1>6, AppendProperties
  <2> HIDE DEF new
  <2>2. \A c \in 1..l : c \in 1..(l + 1)
    OBVIOUS
  <2>3. l + 1 \in 1..(l + 1)
    OBVIOUS
  <2>4. Covered(new, I \cup {j})
    BY <2>1, <2>2, <2>3, <1>4, <1>5, <1>6 DEF Covered
  <2> QED BY <2>1, <2>4 DEF ClustersOf
<1>7. CASE index = 0
  <2>1. {j} \in Clusters(n)
    BY DEF Clusters
  <2> QED BY <2>1, <1>6, <1>7 DEF Joined
<1>8. CASE index # 0 /\ with = {}
  <2>1. {j, index} \in Clusters(n)
    BY <1>8 DEF Clusters
  <2> QED BY <2>1, <1>6, <1>8 DEF Joined
<1>9. CASE index # 0 /\ with # {}
  <2> DEFINE m == Min(with)
  <2>1. m \in 1..l
    <3>1. with \subseteq 1..l
      BY <1>2
    <3> HIDE DEF with
    <3>2. with \subseteq Nat
      BY <3>1
    <3>3. m \in with
      BY <3>2, <1>9, MinFact
    <3> QED BY <3>1, <3>3
  <2>2. new = [clusters EXCEPT ![m] = @ \cup {j, index}]
    BY <1>9 DEF Joined
  <2> HIDE DEF m
  <2>3. /\ DOMAIN new = 1..l /\ new[m] = clusters[m] \cup {j, index}
        /\ \A c \in 1..l : c # m => new[c] = clusters[c]
    BY <2>1, <2>2, <1>2
  <2>4. \A c \in 1..l : new[c] \in Clusters(n)
    <3>1. {j, index} \subseteq 1..n
      BY <1>9
    <3>2. clusters[m] \cup {j, index} \in Clusters(n)
      BY <3>1, <2>1, <1>3 DEF Clusters
    <3> QED BY <3>2, <2>3, <1>3
  <2>5. new \in Seq(Clusters(n)) /\ Len(new) = l
    <3>1. [clusters EXCEPT ![m] = @ \cup {j, index}] \in Seq(Clusters(n))
      <4>1. clusters[m] \cup {j, index} \in Clusters(n)
        BY <2>1, <2>3, <2>4
      <4> QED BY <4>1, <2>1, <1>1, <1>2, ExceptSeq
    <3>2. new \in Seq(Clusters(n))
      BY <3>1, <2>2
    <3> HIDE DEF new
    <3> QED BY <3>2, <2>3, LenProperties
  <2> HIDE DEF new
  <2>6. Covered(new, I \cup {j})
    <3>1. \A c \in 1..l : clusters[c] \subseteq new[c]
      BY <2>1, <2>3
    <3>2. j \in new[m]
      BY <2>3
    <3> QED BY <3>1, <3>2, <2>1, <2>5, <1>4, <1>5 DEF Covered
  <2> QED BY <2>5, <2>6 DEF ClustersOf, new
<1> QED BY <1>7, <1>8, <1>9

\* Sorting the clusters keeps them all.
LEMMA ByScoreFact ==
  ASSUME NEW n \in Nat, NEW clusters \in Seq(Clusters(n))
  PROVE  ByScore(clusters) \in Seq(Clusters(n)) /\ Range(ByScore(clusters)) = Range(clusters)
<1>1. PICK l \in Nat : l = Len(clusters)
  BY LenProperties
<1>2. DOMAIN clusters = 1..l /\ \A c \in 1..l : clusters[c] \in Clusters(n)
  BY <1>1, LenProperties, ElementOfSeq
<1> DEFINE key == [c \in 1..l |-> Min(clusters[c])]
<1>3. key \in [1..l -> Nat]
  <2> SUFFICES ASSUME NEW c \in 1..l PROVE Min(clusters[c]) \in Nat
    OBVIOUS
  <2>1. clusters[c] \subseteq Nat /\ clusters[c] # {}
    BY <1>2 DEF Clusters
  <2> QED BY <2>1, MinFact
<1> DEFINE at(k) == CHOOSE c \in DOMAIN clusters : Cardinality(Earlier(key, c)) = k - 1
<1>4. ByScore(clusters) = [k \in 1..l |-> clusters[at(k)]]
  <2> DEFINE before(c) == {d \in DOMAIN clusters :
                             \/ Min(clusters[d]) < Min(clusters[c])
                             \/ Min(clusters[d]) = Min(clusters[c]) /\ d < c}
  <2>1. \A c \in DOMAIN clusters : before(c) = Earlier(key, c)
    BY <1>2 DEF Earlier
  <2>2. ByScore(clusters) = [k \in DOMAIN clusters |->
                               clusters[CHOOSE c \in DOMAIN clusters : Cardinality(before(c)) = k - 1]]
    BY DEF ByScore
  <2> HIDE DEF before, key
  <2>3. \A k : (CHOOSE c \in DOMAIN clusters : Cardinality(before(c)) = k - 1)
                 = CHOOSE c \in DOMAIN clusters : Cardinality(Earlier(key, c)) = k - 1
    BY <2>1
  <2> QED BY <2>2, <2>3, <1>2
<1>5. \A k \in 1..l : at(k) \in 1..l /\ Cardinality(Earlier(key, at(k))) = k - 1
  <2> HIDE DEF key
  <2>1. \A k \in 1..l : \E c \in 1..l : Cardinality(Earlier(key, c)) = k - 1
    BY <1>3, RankFact
  <2> QED BY <2>1, <1>2
\* Each cluster has a place: its rank.
<1>6. \A c \in 1..l : \E k \in 1..l : at(k) = c
  <2> DEFINE f == [k \in 1..l |-> at(k)]
  <2>1. IsFiniteSet(1..l)
    BY CountToN
  <2>2. f \in Injection(1..l, 1..l)
    <3>1. f \in [1..l -> 1..l]
      <4> HIDE DEF at
      <4> QED BY <1>5
    <3>2. \A i \in 1..l, k \in 1..l : f[i] = f[k] => i = k
      <4> SUFFICES ASSUME NEW i \in 1..l, NEW k \in 1..l, at(i) = at(k) PROVE i = k
        OBVIOUS
      <4> HIDE DEF at
      <4>1. i - 1 = k - 1
        BY <1>5
      <4> QED BY <4>1
    <3> HIDE DEF f
    <3> QED BY <3>1, <3>2 DEF Injection, IsInjective
  <2> HIDE DEF f
  <2>3. f \in Surjection(1..l, 1..l)
    <3> DEFINE S == 1..l
    <3>1. f \in Injection(S, S) /\ IsFiniteSet(S) /\ Cardinality(S) = Cardinality(S)
      BY <2>1, <2>2
    <3> HIDE DEF S
    <3>2. f \in Surjection(S, S)
      BY <3>1, FS_Injection
    <3> QED BY <3>2 DEF S
  <2>4. \A c \in 1..l : \E k \in 1..l : f[k] = c
    BY <2>3 DEF Surjection
  <2> QED BY <2>4 DEF f
<1> HIDE DEF at
<1>7. \A k \in 1..l : clusters[at(k)] \in Clusters(n)
  BY <1>2, <1>5
<1>8. ByScore(clusters) \in Seq(Clusters(n))
  <2>1. [k \in 1..l |-> clusters[at(k)]] \in Seq(Clusters(n))
    BY <1>7, IsASeq
  <2> QED BY <2>1, <1>4
<1>9. Range(ByScore(clusters)) = Range(clusters)
  <2>1. Range(ByScore(clusters)) = {clusters[at(k)] : k \in 1..l}
    BY <1>4 DEF Range
  <2>2. Range(clusters) = {clusters[c] : c \in 1..l}
    BY <1>2 DEF Range
  <2> QED BY <2>1, <2>2, <1>5, <1>6
<1> QED BY <1>8, <1>9

\* Every box of a class, and no other, is in a cluster.
LEMMA FusionFact ==
  ASSUME NEW n \in Nat, NEW overlap
  PROVE  AllOf(weighted_boxes_fusion(n, overlap), n)
<1> DEFINE A == Seq(Clusters(n))
           rule == [j \in 1..n |-> [x \in A |-> Joined(x, j, find_matching_box(n, overlap, j))]]
           Fusing(f) == f = [j \in 0..n |->
                               IF j = 0 THEN <<>>
                               ELSE Joined(f[j - 1], j, find_matching_box(n, overlap, j))]
           upto == CHOOSE f : Fusing(f)
<1>1. weighted_boxes_fusion(n, overlap) = ByScore(upto[n])
  BY DEF weighted_boxes_fusion
<1>2. \A j \in 1..n, x \in A : Joined(x, j, find_matching_box(n, overlap, j)) \in A
  <2> SUFFICES ASSUME NEW j \in 1..n, NEW x \in A PROVE Joined(x, j, find_matching_box(n, overlap, j)) \in A
    OBVIOUS
  <2>1. find_matching_box(n, overlap, j) \in 0..n
    BY MatchingFact
  <2>2. ClustersOf(x, n, {})
    BY DEF ClustersOf, Covered
  <2> QED BY <2>1, <2>2, JoinedStep DEF ClustersOf
<1>3. <<>> \in A
  BY EmptySeq
<1>4. Steps(rule, A, n) /\ \A j \in 1..n, x \in A : rule[j][x] = Joined(x, j, find_matching_box(n, overlap, j))
  <2> HIDE DEF A
  <2> QED BY <1>2 DEF Steps
<1> DEFINE base == <<>>
<1> HIDE DEF rule, A
<1>5. PICK g : Solves(g, base, rule, A, n)
  BY <1>3, <1>4, Recursion
<1>6. Fusing(g)
  <2> DEFINE h == [j \in 0..n |-> IF j = 0 THEN <<>> ELSE Joined(g[j - 1], j, find_matching_box(n, overlap, j))]
  <2>1. ASSUME NEW j \in 0..n PROVE g[j] = h[j]
    <3>1. CASE j = 0
      BY <3>1, <1>5 DEF Solves
    <3>2. CASE j # 0
      <4>1. j \in 1..n /\ j - 1 \in 0..n
        BY <3>2
      <4>2. g[j - 1] \in A /\ g[j] = rule[j][g[j - 1]]
        BY <4>1, <1>5 DEF Solves
      <4> QED BY <3>2, <4>1, <4>2, <1>4
    <3> QED BY <3>1, <3>2
  <2> QED BY <2>1, <1>5 DEF Solves
<1>7. Fusing(upto)
  BY <1>6
<1> HIDE DEF upto
<1> DEFINE S == {j \in 0..n : ClustersOf(upto[j], n, 1..j)}
<1>8. 0 \in S
  <2>1. upto[0] = <<>>
    BY <1>7
  <2>2. ClustersOf(<<>>, n, 1..0)
    BY EmptySeq DEF ClustersOf, Covered
  <2> QED BY <2>1, <2>2
<1>9. ASSUME NEW j \in 1..n, j - 1 \in S PROVE j \in S
  <2>1. j \in 0..n /\ j # 0 /\ (1..(j - 1)) \cup {j} = 1..j
    OBVIOUS
  <2>2. upto[j] = Joined(upto[j - 1], j, find_matching_box(n, overlap, j))
    BY <2>1, <1>7
  <2>3. find_matching_box(n, overlap, j) \in 0..n
    BY MatchingFact
  <2>4. ClustersOf(upto[j - 1], n, 1..(j - 1))
    BY <1>9
  <2>5. ClustersOf(upto[j], n, (1..(j - 1)) \cup {j})
    BY <2>2, <2>3, <2>4, JoinedStep
  <2> QED BY <2>1, <2>5
<1> HIDE DEF S
<1>10. n \in S
  BY <1>8, <1>9, RecursiveInduction
<1> DEFINE end == upto[n]
<1>11. ClustersOf(end, n, 1..n)
  BY <1>10 DEF S
<1> HIDE DEF end
<1>12. UNION Range(end) = 1..n
  <2>1. PICK l \in Nat : l = Len(end)
    BY <1>11, LenProperties DEF ClustersOf
  <2>2. DOMAIN end = 1..l
    BY <1>11, <2>1, LenProperties DEF ClustersOf
  <2>3. \A c \in 1..l : end[c] \subseteq 1..n
    <3>1. \A c \in 1..l : end[c] \in Clusters(n)
      BY <1>11, <2>1, ElementOfSeq DEF ClustersOf
    <3> QED BY <3>1 DEF Clusters
  <2>4. \A i \in 1..n : \E c \in 1..l : i \in end[c]
    BY <1>11, <2>1 DEF ClustersOf, Covered
  <2>5. Range(end) = {end[c] : c \in 1..l}
    BY <2>2 DEF Range
  <2> QED BY <2>3, <2>4, <2>5
<1> QED BY <1>1, <1>11, <1>12, ByScoreFact DEF AllOf, ClustersOf, end

-----------------------------------------------------------------------------
(* Charts and titles.                                                      *)

\* A chart takes titles that are left.
LEMMA MatchFact ==
  ASSUME NEW c, NEW left, left \subseteq Nat
  PROVE  match_with_title(c, left) \subseteq left
<1> DEFINE over == {t \in left : page.distance[c][t] = 0}
           near == {t \in left : /\ page.distance[c][t] < 3
                                 /\ \A u \in left : page.distance[c][t] <= page.distance[c][u]}
<1>1. match_with_title(c, left) = IF over # {} THEN over ELSE IF near = {} THEN {} ELSE {Min(near)}
  BY DEF match_with_title
<1>2. over \subseteq left /\ near \subseteq left
  OBVIOUS
<1> HIDE DEF over, near
<1>3. near # {} => Min(near) \in near
  <2>1. near \subseteq Nat
    BY <1>2
  <2> QED BY <2>1, MinFact
<1>4. CASE over # {}
  BY <1>1, <1>2, <1>4
<1>5. CASE over = {} /\ near = {}
  BY <1>1, <1>5
<1>6. CASE over = {} /\ near # {}
  BY <1>1, <1>2, <1>3, <1>6
<1> QED BY <1>4, <1>5, <1>6

\* The charts up to c have taken their titles; no two of them have the same one,
\* and none has one of those that are left.
Round(x, m) == [taken |-> Append(x.taken, m), left |-> Left(x.left, m)]
Taking == [taken : Seq(SUBSET Nat), left : SUBSET Nat]
Apart(taken) == \A c, d \in 1..Len(taken) : c # d => taken[c] \cap taken[d] = {}
TakenApart(x) ==
  x \in Taking /\ Apart(x.taken) /\ \A c \in 1..Len(x.taken) : x.taken[c] \cap x.left = {}

LEMMA RoundTyped ==
  ASSUME NEW x \in Taking, NEW c
  PROVE  Round(x, match_with_title(c, x.left)) \in Taking
<1>1. x.taken \in Seq(SUBSET Nat) /\ x.left \subseteq Nat
  BY DEF Taking
<1>2. match_with_title(c, x.left) \in SUBSET Nat
  BY <1>1, MatchFact
<1>3. Append(x.taken, match_with_title(c, x.left)) \in Seq(SUBSET Nat)
  BY <1>1, <1>2, AppendProperties
<1> QED BY <1>1, <1>3 DEF Round, Taking, Left

LEMMA RoundStep ==
  ASSUME NEW x, TakenApart(x), NEW c
  PROVE  TakenApart(Round(x, match_with_title(c, x.left)))
<1> DEFINE m == match_with_title(c, x.left)
           y == Round(x, m)
<1>1. x \in Taking /\ x.taken \in Seq(SUBSET Nat) /\ x.left \subseteq Nat
  BY DEF TakenApart, Taking
<1>2. m \subseteq x.left /\ y \in Taking
  BY <1>1, MatchFact, RoundTyped
<1>3. PICK l \in Nat : l = Len(x.taken)
  BY <1>1, LenProperties
<1> HIDE DEF m
<1>4. y.left = x.left \ m /\ y.taken = Append(x.taken, m)
  BY DEF Round, Left
<1>5. Len(y.taken) = l + 1 /\ (\A d \in 1..l : y.taken[d] = x.taken[d]) /\ y.taken[l + 1] = m
  <2>1. m \in SUBSET Nat
    BY <1>1, <1>2
  <2> QED BY <2>1, <1>1, <1>3, <1>4, AppendProperties
<1> HIDE DEF y
<1>6. \A d \in 1..(l + 1) : d = l + 1 \/ d \in 1..l
  OBVIOUS
<1>7. /\ \A d \in 1..l : x.taken[d] \cap x.left = {}
      /\ \A d, e \in 1..l : d # e => x.taken[d] \cap x.taken[e] = {}
  BY <1>3 DEF TakenApart, Apart
<1>8. \A d \in 1..l : y.taken[d] \cap m = {}
  BY <1>2, <1>5, <1>7
<1>9. Apart(y.taken)
  <2> SUFFICES ASSUME NEW d \in 1..(l + 1), NEW e \in 1..(l + 1), d # e
               PROVE  y.taken[d] \cap y.taken[e] = {}
    BY <1>5 DEF Apart
  <2>1. CASE d = l + 1
    <3>1. e \in 1..l
      BY <2>1, <1>6
    <3> QED BY <2>1, <3>1, <1>5, <1>8
  <2>2. CASE e = l + 1
    <3>1. d \in 1..l
      BY <2>2, <1>6
    <3> QED BY <2>2, <3>1, <1>5, <1>8
  <2>3. CASE d \in 1..l /\ e \in 1..l
    BY <2>3, <1>5, <1>7
  <2> QED BY <2>1, <2>2, <2>3, <1>6
<1>10. \A d \in 1..Len(y.taken) : y.taken[d] \cap y.left = {}
  <2> SUFFICES ASSUME NEW d \in 1..(l + 1) PROVE y.taken[d] \cap y.left = {}
    BY <1>5
  <2>1. CASE d = l + 1
    BY <2>1, <1>4, <1>5
  <2>2. CASE d \in 1..l
    BY <2>2, <1>4, <1>5, <1>7
  <2> QED BY <2>1, <2>2, <1>6
<1>11. TakenApart(y)
  BY <1>2, <1>9, <1>10 DEF TakenApart
<1> QED BY <1>11 DEF y, m

\* No two charts take the same title.
LEMMA TitlesFact ==
  ASSUME NEW charts \in Nat, NEW titles \in Nat
  PROVE  \A c, d \in DOMAIN TitlesTaken(charts, titles) :
           c # d => TitlesTaken(charts, titles)[c] \cap TitlesTaken(charts, titles)[d] = {}
<1> DEFINE A == Taking
           base == [taken |-> <<>>, left |-> 1..titles]
           rule == [c \in 1..charts |-> [x \in A |-> Round(x, match_with_title(c, x.left))]]
           Matched(f) == f = [c \in 0..charts |->
                              IF c = 0 THEN [taken |-> <<>>, left |-> 1..titles]
                              ELSE LET m == match_with_title(c, f[c - 1].left)
                                   IN [taken |-> Append(f[c - 1].taken, m), left |-> Left(f[c - 1].left, m)]]
           upto == CHOOSE f : Matched(f)
<1>1. TitlesTaken(charts, titles) = upto[charts].taken
  BY DEF TitlesTaken
<1>2. \A f : Matched(f) <=> f = [c \in 0..charts |->
                                 IF c = 0 THEN base ELSE Round(f[c - 1], match_with_title(c, f[c - 1].left))]
  BY DEF Round
<1>3. \A c \in 1..charts, x \in A : Round(x, match_with_title(c, x.left)) \in A
  BY RoundTyped
<1>4. base \in A
  <2>1. <<>> \in Seq(SUBSET Nat)
    BY EmptySeq
  <2> QED BY <2>1 DEF Taking
<1>5. Steps(rule, A, charts)
      /\ \A c \in 1..charts, x \in A : rule[c][x] = Round(x, match_with_title(c, x.left))
  <2> HIDE DEF A
  <2> QED BY <1>3 DEF Steps
<1>6. base.taken = <<>> /\ base.left \subseteq Nat
  OBVIOUS
<1> HIDE DEF rule, A, Matched, base
<1>7. PICK g : Solves(g, base, rule, A, charts)
  BY <1>4, <1>5, Recursion
<1>8. Matched(g)
  <2> DEFINE h == [c \in 0..charts |->
                     IF c = 0 THEN base ELSE Round(g[c - 1], match_with_title(c, g[c - 1].left))]
  <2>1. ASSUME NEW c \in 0..charts PROVE g[c] = h[c]
    <3>1. CASE c = 0
      BY <3>1, <1>7 DEF Solves
    <3>2. CASE c # 0
      <4>1. c \in 1..charts /\ c - 1 \in 0..charts
        BY <3>2
      <4>2. g[c - 1] \in A /\ g[c] = rule[c][g[c - 1]]
        BY <4>1, <1>7 DEF Solves
      <4> QED BY <3>2, <4>1, <4>2, <1>5
    <3> QED BY <3>1, <3>2
  <2>2. g = h
    BY <2>1, <1>7 DEF Solves
  <2> QED BY <2>2, <1>2
<1>9. Matched(upto)
  BY <1>8
<1> HIDE DEF upto
<1>10. /\ upto[0] = base
       /\ \A c \in 1..charts : upto[c] = Round(upto[c - 1], match_with_title(c, upto[c - 1].left))
  <2>1. upto = [c \in 0..charts |->
                  IF c = 0 THEN base ELSE Round(upto[c - 1], match_with_title(c, upto[c - 1].left))]
    BY <1>2, <1>9
  <2>2. 0 \in 0..charts /\ \A c \in 1..charts : c \in 0..charts /\ c # 0
    OBVIOUS
  <2> QED BY <2>1, <2>2
<1> DEFINE S == {c \in 0..charts : TakenApart(upto[c])}
<1>11. 0 \in S
  <2>1. TakenApart(base)
    <3>1. Len(base.taken) = 0
      BY <1>6, EmptySeq
    <3> QED BY <3>1, <1>4 DEF TakenApart, Apart, A
  <2> QED BY <2>1, <1>10
<1>12. ASSUME NEW c \in 1..charts, c - 1 \in S PROVE c \in S
  <2>1. TakenApart(upto[c - 1]) /\ c \in 0..charts
    BY <1>12
  <2> QED BY <2>1, <1>10, RoundStep
<1> HIDE DEF S
<1>13. charts \in S
  BY <1>11, <1>12, RecursiveInduction
<1> DEFINE taken == upto[charts].taken
<1>14. taken \in Seq(SUBSET Nat) /\ Apart(taken)
  BY <1>13 DEF S, TakenApart, Taking
<1> HIDE DEF taken
<1>15. DOMAIN taken = 1..Len(taken)
  BY <1>14, LenProperties
<1>16. TitlesTaken(charts, titles) = taken
  BY <1>1 DEF taken
<1> QED BY <1>14, <1>15, <1>16 DEF Apart

-----------------------------------------------------------------------------

LEMMA FusionInitially == FusionInit => FusionInv
<1> SUFFICES ASSUME FusionInit PROVE FusionInv
  OBVIOUS
<1>1. DOMAIN found = {}
  BY DEF FusionInit
<1> QED BY <1>1 DEF FusionInit, FusionInv

LEMMA FusionStep == FusionInv /\ [FusionNext]_fusionVars => FusionInv'
<1> SUFFICES ASSUME FusionInv, [FusionNext]_fusionVars PROVE FusionInv'
  OBVIOUS
<1>1. page.charts \in Nat /\ page.titles \in Nat
  BY FusionAssumption DEF FusionInv
<1>2. CASE Fuse
  <2>1. /\ fused'.chart = weighted_boxes_fusion(page.charts, page.overlap)
        /\ fused'.title = weighted_boxes_fusion(page.titles, page.near)
    BY <1>2 DEF Fuse
  <2>2. page' = page /\ found' = found
    BY <1>2 DEF Fuse
  <2>3. AllOf(fused'.chart, page.charts) /\ AllOf(fused'.title, page.titles)
    BY <2>1, <1>1, FusionFact
  <2> QED BY <2>2, <2>3 DEF FusionInv
<1>3. CASE TakeTitles
  <2>1. page' = page /\ fused' = fused /\ found' = TitlesTaken(Len(fused.chart), Len(fused.title))
    BY <1>3 DEF TakeTitles
  <2>2. Len(fused.chart) \in Nat /\ Len(fused.title) \in Nat
    BY <1>3, LenProperties DEF FusionInv, TakeTitles, AllOf
  <2> DEFINE t == TitlesTaken(Len(fused.chart), Len(fused.title))
  <2>3. \A c, d \in DOMAIN t : c # d => t[c] \cap t[d] = {}
    BY <2>2, TitlesFact
  <2> HIDE DEF t
  <2>4. found' = t
    BY <2>1 DEF t
  <2> QED BY <2>1, <2>3, <2>4 DEF FusionInv
<1>4. CASE UNCHANGED fusionVars
  BY <1>4 DEF FusionInv, fusionVars
<1> QED BY <1>2, <1>3, <1>4 DEF FusionNext

\* However the boxes of a page overlap, and whatever their number, each chart and
\* each title is within a fused box, and no title is made part of two charts.
THEOREM BoxesAreKept == FusionSpec => []BoxesAccounted
<1>1. FusionInv => BoxesAccounted
  BY DEF FusionInv, BoxesAccounted, AllOf
<1> QED BY <1>1, FusionInitially, FusionStep, PTL DEF FusionSpec

-----------------------------------------------------------------------------
(* MilvusUpload: the rows of each collection.                              *)

-----------------------------------------------------------------------------
(* The rows of a collection.                                               *)

Chosen(k) == {i \in 1..Len(batch.records) : _pull_text(k, batch.records[i])}

\* w has the chosen positions up to n, each once.
EachOnce(w, S) ==
  /\ w \in Seq(Nat) /\ ToSet(w) = S /\ IsInjective(w)
  /\ IsFiniteSet(S) /\ Len(w) = Cardinality(S)

LEMMA ListsNothing == EachOnce(<<>>, {})
<1>1. <<>> \in Seq(Nat) /\ Len(<<>>) = 0 /\ DOMAIN <<>> = {}
  OBVIOUS
<1> QED BY <1>1, FS_EmptySet DEF EachOnce, ToSet, IsInjective

LEMMA ListsOneMore ==
  ASSUME NEW w, NEW S, EachOnce(w, S), NEW x \in Nat, x \notin S
  PROVE  EachOnce(w \o <<x>>, S \cup {x})
<1> DEFINE v == w \o <<x>>
<1>1. w \in Seq(Nat) /\ ToSet(w) = S /\ IsInjective(w) /\ IsFiniteSet(S) /\ Len(w) = Cardinality(S)
  BY DEF EachOnce
<1>2. PICK n \in Nat : n = Len(w)
  BY <1>1, LenProperties
<1>3. v = Append(w, x)
  BY <1>1
<1>4. v \in Seq(Nat) /\ Len(v) = n + 1 /\ (\A i \in 1..n : v[i] = w[i]) /\ v[n + 1] = x
  BY <1>1, <1>2, <1>3, AppendProperties
<1> HIDE DEF v
<1>5. DOMAIN v = 1..(n + 1) /\ DOMAIN w = 1..n
  BY <1>1, <1>2, <1>4
<1>6. \A i \in 1..(n + 1) : i = n + 1 \/ i \in 1..n
  OBVIOUS
<1>7. \A i \in 1..n : i \in 1..(n + 1) /\ w[i] \in S
  BY <1>1, <1>5 DEF ToSet
<1>8. ToSet(v) = S \cup {x}
  <2>1. \A i \in 1..(n + 1) : v[i] \in S \cup {x}
    BY <1>4, <1>6, <1>7
  <2>2. \A y \in S : \E i \in 1..n : y = w[i]
    BY <1>1, <1>5 DEF ToSet
  <2>3. \A y \in S \cup {x} : \E i \in 1..(n + 1) : y = v[i]
    BY <2>2, <1>4, <1>7
  <2> QED BY <2>1, <2>3, <1>5 DEF ToSet
<1>9. IsInjective(v)
  <2> SUFFICES ASSUME NEW a \in 1..(n + 1), NEW b \in 1..(n + 1), v[a] = v[b] PROVE a = b
    BY <1>5 DEF IsInjective
  <2>1. CASE a \in 1..n /\ b \in 1..n
    BY <2>1, <1>1, <1>4, <1>5 DEF IsInjective
  <2>2. CASE a \in 1..n /\ b = n + 1
    BY <2>2, <1>4, <1>7
  <2>3. CASE a = n + 1 /\ b \in 1..n
    BY <2>3, <1>4, <1>7
  <2> QED BY <2>1, <2>2, <2>3, <1>6
<1>10. IsFiniteSet(S \cup {x}) /\ Cardinality(S \cup {x}) = n + 1
  BY <1>1, <1>2, FS_AddElement
<1>11. EachOnce(v, S \cup {x})
  BY <1>4, <1>8, <1>9, <1>10 DEF EachOnce
<1> QED BY <1>11 DEF v

LEMMA WrittenFact ==
  ASSUME batch \in Batches, NEW k
  PROVE  EachOnce(Written(k), Chosen(k))
<1> DEFINE piece(i) == IF _pull_text(k, batch.records[i]) THEN <<i>> ELSE <<>>
           W(n) == [i \in 1..n |-> piece(i)]
           C(n) == {i \in 1..n : _pull_text(k, batch.records[i])}
           S == {n \in Nat : W(n) \in Seq(Seq(Nat)) /\ EachOnce(FlattenSeq(W(n)), C(n))}
<1>1. PICK last \in Nat : last = Len(batch.records)
  BY UploadAssumption
<1>2. 0 \in S
  <2>1. W(0) = <<>> /\ C(0) = {}
    OBVIOUS
  <2>2. <<>> \in Seq(Seq(Nat))
    OBVIOUS
  <2> HIDE DEF W, C
  <2> QED BY <2>1, <2>2, FlattenEmpty, ListsNothing
<1>3. ASSUME NEW n \in Nat, n \in S PROVE n + 1 \in S
  <2>1. W(n) \in Seq(Seq(Nat)) /\ EachOnce(FlattenSeq(W(n)), C(n))
    BY <1>3
  <2>2. piece(n + 1) \in Seq(Nat)
    OBVIOUS
  <2>3. W(n + 1) = Append(W(n), piece(n + 1))
    <3> HIDE DEF piece
    <3>1. Len(W(n)) = n
      BY <2>1
    <3>2. Append(W(n), piece(n + 1)) = [i \in 1..(n + 1) |-> IF i = n + 1 THEN piece(n + 1) ELSE W(n)[i]]
      BY <3>1
    <3>3. \A i \in 1..(n + 1) : i # n + 1 => i \in 1..n /\ W(n)[i] = piece(i)
      OBVIOUS
    <3> QED BY <3>2, <3>3
  <2>4. \A i \in 1..(n + 1) : i = n + 1 \/ i \in 1..n
    OBVIOUS
  <2>5. C(n + 1) = IF _pull_text(k, batch.records[n + 1]) THEN C(n) \cup {n + 1} ELSE C(n)
    BY <2>4
  <2>6. n + 1 \notin C(n) /\ n + 1 \in Nat
    OBVIOUS
  <2>7. piece(n + 1) = IF _pull_text(k, batch.records[n + 1]) THEN <<n + 1>> ELSE <<>>
    OBVIOUS
  <2> DEFINE w == W(n)
             v == W(n + 1)
             p == piece(n + 1)
             c == C(n)
             d == C(n + 1)
             x == n + 1
             more == _pull_text(k, batch.records[n + 1])
  <2>8. /\ w \in Seq(Seq(Nat)) /\ EachOnce(FlattenSeq(w), c) /\ p \in Seq(Nat) /\ v = Append(w, p)
        /\ d = IF more THEN c \cup {x} ELSE c
        /\ x \notin c /\ x \in Nat
        /\ p = IF more THEN <<x>> ELSE <<>>
    BY <2>1, <2>2, <2>3, <2>5, <2>6, <2>7
  <2> HIDE DEF piece, W, C, w, v, p, c, d, x, more
  <2>9. FlattenSeq(w) \in Seq(Nat)
    BY <2>8 DEF EachOnce
  <2>10. v \in Seq(Seq(Nat)) /\ FlattenSeq(v) = FlattenSeq(w) \o p
    BY <2>8, <2>9, AppendProperties, FlattenAppend
  <2>11. EachOnce(FlattenSeq(v), d)
    <3>1. CASE more
      <4>1. d = c \cup {x} /\ FlattenSeq(v) = FlattenSeq(w) \o <<x>>
        BY <3>1, <2>8, <2>10
      <4>2. EachOnce(FlattenSeq(w) \o <<x>>, c \cup {x})
        BY <2>8, ListsOneMore
      <4> QED BY <4>1, <4>2
    <3>2. CASE ~more
      <4>1. FlattenSeq(w) \o <<>> = FlattenSeq(w)
        BY <2>9
      <4> QED BY <3>2, <4>1, <2>8, <2>10
    <3> QED BY <3>1, <3>2
  <2> USE DEF v, d
  <2> QED BY <2>10, <2>11
<1> HIDE DEF S
<1>4. last \in S
  BY <1>2, <1>3, SetInduction
<1>5. EachOnce(FlattenSeq(W(last)), C(last))
  BY <1>4 DEF S
<1> QED BY <1>1, <1>5 DEF Written, Chosen

\* The records a collection is for are those that are written to it.
LEMMA MeantFact == ASSUME batch \in Batches, NEW k PROVE Meant(k) = Chosen(k)
BY UploadAssumption DEF Meant, Chosen, _pull_text, Enabled, _dict_to_params

-----------------------------------------------------------------------------
(* The upload.                                                             *)

Collections == 1..Len(batch.collections)
Holding == IF batch.held THEN <<0>> ELSE <<>>
Old == IF batch.recreate THEN <<>> ELSE Holding

\* What a collection is given: all its rows, or those of the first file.
Put(k) == IF batch.stream THEN Written(k) ELSE InFiles(Written(k))[1]

\* The collections the loop is done with, and those it has not come to.
Past(k) == k < nth \/ step = "done"
NotYet(k) == k > nth \/ (k = nth /\ step = "create")
Content(k) == IF Past(k) THEN Old \o Put(k) ELSE IF NotYet(k) THEN Holding ELSE Old

UploadInv ==
  /\ batch \in Batches /\ nth \in Collections
  /\ step \in {"create", "write", "import", "done", "raised"}
  /\ contents = [k \in Collections |-> Content(k)]
  /\ \A k \in Collections : Past(k) /\ ~batch.stream => Written(k) # <<>>
  /\ step = "import" =>
       batch_files = InFiles(Written(nth)) /\ Written(nth) # <<>> /\ ~batch.stream

\* What does not change while the batch is the same.
SameBatch == batch' = batch
LEMMA Constants ==
  ASSUME SameBatch
  PROVE  /\ Collections' = Collections /\ Holding' = Holding /\ Old' = Old
         /\ \A k : Written(k)' = Written(k) /\ Put(k)' = Put(k)
<1>1. batch' = batch
  BY DEF SameBatch
<1>2. ASSUME NEW k PROVE Written(k)' = Written(k)
  BY <1>1 DEF Written, _pull_text, Enabled, _dict_to_params
<1>3. ASSUME NEW k PROVE InFiles(Written(k))' = InFiles(Written(k))
  BY <1>1, <1>2 DEF InFiles
<1>4. ASSUME NEW k PROVE Put(k)' = Put(k)
  BY <1>1, <1>2, <1>3 DEF Put
<1> QED BY <1>1, <1>2, <1>4 DEF Collections, Holding, Old

LEMMA UploadInitInv == UploadInit => UploadInv
<1> SUFFICES ASSUME UploadInit PROVE UploadInv
  OBVIOUS
<1>1. batch \in Batches /\ nth = 1 /\ step = "create"
  BY DEF UploadInit
<1>2. Len(batch.collections) \in Nat \ {0}
  BY <1>1, UploadAssumption
<1>3. nth \in Collections
  BY <1>1, <1>2 DEF Collections
<1>4. \A k \in Collections : ~Past(k) /\ NotYet(k)
  BY <1>1, <1>2 DEF Collections, Past, NotYet
<1>5. contents = [k \in Collections |-> Content(k)]
  BY <1>4 DEF UploadInit, Content, Collections, Holding
<1> QED BY <1>1, <1>3, <1>4, <1>5 DEF UploadInv

\* The loop is done with a collection.
LEMMA Moves ==
  ASSUME UploadInv, step \in {"write", "import"}, NextCollection, SameBatch,
         ~batch.stream => Written(nth) # <<>>,
         contents' = [contents EXCEPT ![nth] = @ \o Put(nth)]
  PROVE  UploadInv'
<1> DEFINE m == Len(batch.collections)
<1>1. /\ batch \in Batches /\ nth \in Collections
      /\ contents = [k \in Collections |-> Content(k)]
      /\ \A k \in Collections : Past(k) /\ ~batch.stream => Written(k) # <<>>
  BY DEF UploadInv
<1>2. m \in Nat /\ Collections = 1..m
  BY <1>1, UploadAssumption DEF Collections
<1>3. \/ nth < m /\ nth' = nth + 1 /\ step' = "create"
      \/ ~(nth < m) /\ nth' = nth /\ step' = "done"
  BY DEF NextCollection
<1> HIDE DEF m
<1>4. nth \in 1..m /\ nth' \in 1..m
  BY <1>1, <1>2, <1>3
<1>5. ASSUME NEW k \in 1..m
      PROVE  /\ Past(k)' <=> (Past(k) \/ k = nth)
             /\ NotYet(k)' <=> (NotYet(k) /\ k # nth)
             /\ ~(k = nth /\ (Past(k) \/ NotYet(k)))
  <2>1. Past(k) <=> k < nth
    BY DEF Past
  <2>2. NotYet(k) <=> k > nth
    BY DEF NotYet
  <2>3. Past(k)' <=> (k < nth' \/ step' = "done")
    BY DEF Past
  <2>4. NotYet(k)' <=> (k > nth' \/ (k = nth' /\ step' = "create"))
    BY DEF NotYet
  <2>5. CASE nth < m /\ nth' = nth + 1 /\ step' = "create"
    BY <2>1, <2>2, <2>3, <2>4, <2>5, <1>4
  <2>6. CASE ~(nth < m) /\ nth' = nth /\ step' = "done"
    BY <2>1, <2>2, <2>3, <2>4, <2>6, <1>2, <1>4
  <2> QED BY <2>5, <2>6, <1>3
<1>6. /\ Collections' = Collections /\ Holding' = Holding /\ Old' = Old
      /\ \A k : Written(k)' = Written(k) /\ Put(k)' = Put(k)
  BY Constants
<1>7. ASSUME NEW k \in 1..m
      PROVE  Content(k)' = IF k = nth THEN Old \o Put(k) ELSE Content(k)
  <2>1. Content(k)' = IF Past(k)' THEN Old \o Put(k) ELSE IF NotYet(k)' THEN Holding ELSE Old
    BY <1>6 DEF Content
  <2> QED BY <2>1, <1>5 DEF Content
<1>8. contents[nth] = Old
  BY <1>1, <1>2, <1>4, <1>5 DEF Content
<1>9. contents' = [k \in Collections |-> IF k = nth THEN Old \o Put(k) ELSE Content(k)]
  BY <1>1, <1>8
<1>10. contents' = [k \in Collections' |-> Content(k)']
  BY <1>2, <1>6, <1>7, <1>9
<1>11. ASSUME NEW k \in Collections', Past(k)', ~batch'.stream PROVE Written(k)' # <<>>
  <2>1. k \in 1..m /\ ~batch.stream /\ Written(k)' = Written(k)
    BY <1>2, <1>6, <1>11 DEF SameBatch
  <2>2. Past(k) \/ k = nth
    BY <2>1, <1>5, <1>11
  <2> QED BY <2>1, <2>2, <1>1, <1>2
<1>12. batch' = batch /\ nth' \in Collections' /\ step' \in {"create", "done"}
  BY <1>2, <1>3, <1>4, <1>6 DEF SameBatch
<1> QED BY <1>1, <1>10, <1>11, <1>12 DEF UploadInv

\* Any other step leaves the loop where it is.
LEMMA Stays ==
  ASSUME UploadInv, SameBatch, UNCHANGED <<nth, contents>>,
         step \in {"write", "import", "raised"}, step' \in {"write", "import", "raised"},
         step' = "import" => batch_files' = InFiles(Written(nth)) /\ Written(nth) # <<>> /\ ~batch.stream
  PROVE  UploadInv'
<1>1. /\ Collections' = Collections /\ Holding' = Holding /\ Old' = Old
      /\ \A k : Written(k)' = Written(k) /\ Put(k)' = Put(k)
  BY Constants
<1>2. \A k : (Past(k)' <=> Past(k)) /\ (NotYet(k)' <=> NotYet(k))
  BY DEF Past, NotYet
<1>3. \A k : Content(k)' = Content(k)
  BY <1>1, <1>2 DEF Content
<1>4. contents' = [k \in Collections' |-> Content(k)']
  BY <1>1, <1>3 DEF UploadInv
<1>5. step' = "import" => batch_files' = InFiles(Written(nth))' /\ Written(nth)' # <<>> /\ ~batch'.stream
  <2>1. Written(nth)' = Written(nth) /\ batch' = batch
    BY <1>1 DEF SameBatch, Written, _pull_text, Enabled, _dict_to_params
  <2>2. InFiles(Written(nth))' = InFiles(Written(nth))
    BY <2>1 DEF InFiles
  <2> QED BY <2>1, <2>2
<1> QED BY <1>1, <1>2, <1>4, <1>5 DEF UploadInv, SameBatch

LEMMA UploadStepInv == UploadInv /\ [UploadNext]_uploadVars => UploadInv'
<1> SUFFICES ASSUME UploadInv, [UploadNext]_uploadVars PROVE UploadInv'
  OBVIOUS
<1>1. CASE CreateCollection
  <2>1. /\ step = "create" /\ step' = "write" /\ batch' = batch /\ nth' = nth
        /\ contents' = [contents EXCEPT ![nth] = IF batch.recreate THEN <<>> ELSE @]
    BY <1>1 DEF CreateCollection
  <2>2. /\ Collections' = Collections /\ Holding' = Holding /\ Old' = Old
        /\ \A k : Written(k)' = Written(k) /\ Put(k)' = Put(k)
    BY <2>1, Constants DEF SameBatch
  <2>3. /\ batch \in Batches /\ nth \in Collections
        /\ contents = [k \in Collections |-> Content(k)]
        /\ \A k \in Collections : Past(k) /\ ~batch.stream => Written(k) # <<>>
    BY DEF UploadInv
  <2>4. Len(batch.collections) \in Nat
    BY <2>3, UploadAssumption
  <2>5. ASSUME NEW k \in Collections
        PROVE  (Past(k)' <=> Past(k)) /\ (NotYet(k)' <=> NotYet(k) /\ k # nth) /\ ~(k = nth /\ Past(k))
    BY <2>1, <2>3, <2>4 DEF Past, NotYet, Collections
  <2>6. ASSUME NEW k \in Collections PROVE Content(k)' = IF k = nth THEN Old ELSE Content(k)
    <3>1. Content(k)' = IF Past(k)' THEN Old \o Put(k) ELSE IF NotYet(k)' THEN Holding ELSE Old
      BY <2>2 DEF Content
    <3> QED BY <3>1, <2>5 DEF Content
  <2>7. contents[nth] = Holding
    <3>1. NotYet(nth) /\ ~Past(nth)
      BY <2>1, <2>3, <2>5 DEF NotYet
    <3> QED BY <3>1, <2>3 DEF Content
  <2>8. contents' = [k \in Collections |-> IF k = nth THEN Old ELSE Content(k)]
    BY <2>1, <2>3, <2>7 DEF Old
  <2>9. contents' = [k \in Collections' |-> Content(k)']
    BY <2>2, <2>6, <2>8
  <2>10. ASSUME NEW k \in Collections', Past(k)', ~batch'.stream PROVE Written(k)' # <<>>
    <3>1. k \in Collections /\ ~batch.stream /\ Written(k)' = Written(k) /\ Past(k)
      BY <2>1, <2>2, <2>5, <2>10
    <3> QED BY <3>1, <2>3
  <2> QED BY <2>1, <2>2, <2>3, <2>9, <2>10 DEF UploadInv
<1>2. CASE StreamInsert
  BY <1>2, Moves DEF StreamInsert, Put, SameBatch
<1>3. CASE WriteRecords
  BY <1>3, Stays DEF WriteRecords, SameBatch
<1>4. CASE BulkInsert
  BY <1>4, Moves DEF BulkInsert, Put, SameBatch, UploadInv
<1>5. CASE UnknownParameter
  BY <1>5, Stays DEF UnknownParameter, SameBatch
<1>6. CASE UNCHANGED uploadVars
  <2>1. /\ Collections' = Collections /\ Holding' = Holding /\ Old' = Old
        /\ \A k : Written(k)' = Written(k) /\ Put(k)' = Put(k)
    BY <1>6, Constants DEF SameBatch, uploadVars
  <2>2. \A k : (Past(k)' <=> Past(k)) /\ (NotYet(k)' <=> NotYet(k))
    BY <1>6 DEF Past, NotYet, uploadVars
  <2>3. \A k : Content(k)' = Content(k)
    BY <2>1, <2>2 DEF Content
  <2>4. contents' = [k \in Collections' |-> Content(k)']
    BY <2>1, <2>3, <1>6 DEF UploadInv, uploadVars
  <2>5. Written(nth)' = Written(nth) /\ InFiles(Written(nth))' = InFiles(Written(nth))
    BY <1>6 DEF uploadVars, Written, _pull_text, Enabled, _dict_to_params, InFiles
  <2> QED BY <2>1, <2>2, <2>4, <2>5, <1>6 DEF UploadInv, uploadVars
<1> QED BY <1>1, <1>2, <1>3, <1>4, <1>5, <1>6 DEF UploadNext

\* The first file has rows, and all of them if they fit one file.
LEMMA FirstFile ==
  ASSUME NEW rows \in Seq(Nat), rows # <<>>, batch \in Batches
  PROVE  /\ InFiles(rows)[1] \in Seq(Nat)
         /\ Len(rows) <= batch.per_file => InFiles(rows)[1] = rows
<1> DEFINE p == batch.per_file
           l == Len(rows)
           number == (l + p - 1) \div p
           last == IF p < l THEN p ELSE l
<1>1. p \in Nat \ {0}
  BY UploadAssumption
<1>2. l \in Nat /\ l # 0
  BY EmptySeq
<1>3. InFiles(rows) = [f \in 1..number |-> SubSeq(rows, (f - 1) * p + 1, IF f * p < l THEN f * p ELSE l)]
  BY DEF InFiles
<1>4. 1 \in 1..number
  <2> HIDE DEF l, p
  <2>1. l + p - 1 \in Nat /\ l + p - 1 >= p
    BY <1>1, <1>2
  <2>2. (l + p - 1) \div p \in Nat
    BY <2>1, <1>1
  <2>3. (l + p - 1) \div p >= 1
    BY <2>1, <1>1
  <2> QED BY <2>2, <2>3
<1>5. (1 - 1) * p + 1 = 1 /\ (IF 1 * p < l THEN 1 * p ELSE l) = last
  BY <1>1, <1>2
<1>6. last \in 1..l /\ (l <= p => last = l)
  BY <1>1, <1>2
<1>7. SubSeq(rows, 1, last) \in Seq(Nat)
  <2>1. \A k \in 1..last : rows[k] \in Nat
    BY <1>6, <1>2, ElementOfSeq
  <2> QED BY <2>1, <1>6, SubSeqProperties
<1>8. SubSeq(rows, 1, l) = rows
  <2>1. SubSeq(rows, 1, l) \in Seq(Nat) /\ Len(SubSeq(rows, 1, l)) = l
    BY <1>2, SubSeqProperties
  <2>2. \A k \in 1..l : SubSeq(rows, 1, l)[k] = rows[k]
    BY <1>2, SubSeqProperties
  <2> QED BY <2>1, <2>2, SeqEqual
<1>9. InFiles(rows)[1] = SubSeq(rows, 1, last)
  <2> HIDE DEF number, l, p, last
  <2> QED BY <1>3, <1>4, <1>5
<1> QED BY <1>6, <1>7, <1>8, <1>9

\* A collection that had room for its rows in a file has them all.
LEMMA AllPut ==
  ASSUME UploadInv, step = "done", NEW k \in Collections,
         batch.stream \/ Cardinality(Meant(k)) <= batch.per_file
  PROVE  Put(k) = Written(k)
<1>1. batch \in Batches /\ Past(k)
  BY DEF UploadInv, Past
<1>2. EachOnce(Written(k), Meant(k))
  BY <1>1, WrittenFact, MeantFact
<1>3. Written(k) \in Seq(Nat) /\ Len(Written(k)) = Cardinality(Meant(k))
  BY <1>2 DEF EachOnce
<1>4. CASE batch.stream
  BY <1>4 DEF Put
<1>5. CASE ~batch.stream
  <2>1. Written(k) # <<>>
    BY <1>1, <1>5 DEF UploadInv
  <2>2. Len(Written(k)) <= batch.per_file
    BY <1>3, <1>5
  <2>3. InFiles(Written(k))[1] = Written(k)
    BY <2>1, <2>2, <1>1, <1>3, FirstFile
  <2> QED BY <2>3, <1>5 DEF Put
<1> QED BY <1>4, <1>5

\* What it held comes before, and is none of the rows.
\* What a collection may have held before: nothing, or the row 0.
HeldBefore == {<<>>, <<0>>}

LEMMA OldAndNew ==
  ASSUME NEW w, NEW S, EachOnce(w, S), 0 \notin S, NEW old \in HeldBefore
  PROVE  /\ ToSet(old \o w) = S \cup ToSet(old)
         /\ IsInjective(old \o w)
<1>1. w \in Seq(Nat) /\ ToSet(w) = S /\ IsInjective(w)
  BY DEF EachOnce
<1>2. CASE old = <<>>
  <2>1. old \o w = w
    BY <1>1, <1>2
  <2>2. ToSet(old) = {}
    BY <1>2 DEF ToSet
  <2> QED BY <2>1, <2>2, <1>1
<1>3. CASE old = <<0>>
  <2> DEFINE v == <<0>> \o w
  <2>1. PICK n \in Nat : n = Len(w)
    BY <1>1, LenProperties
  <2>2. <<0>> \in Seq(Nat) /\ Len(<<0>>) = 1 /\ <<0>>[1] = 0 /\ DOMAIN <<0>> = 1..1
    OBVIOUS
  <2>3. v \in Seq(Nat) /\ Len(v) = n + 1
    <3>1. v \in Seq(Nat) /\ Len(v) = 1 + Len(w)
      BY <1>1, <2>2, ConcatProperties
    <3> QED BY <3>1, <2>1
  <2>4. v[1] = 0 /\ \A i \in 1..n : v[i + 1] = w[i]
    <3>1. \A i \in 1..(n + 1) : v[i] = IF i <= 1 THEN <<0>>[i] ELSE w[i - 1]
      BY <1>1, <2>1, <2>2, ConcatProperties
    <3>2. 1 \in 1..(n + 1) /\ \A i \in 1..n : i + 1 \in 1..(n + 1) /\ ~(i + 1 <= 1) /\ (i + 1) - 1 = i
      BY <2>1
    <3> HIDE DEF v
    <3>3. v[1] = <<0>>[1]
      BY <3>1, <3>2
    <3>4. ASSUME NEW i \in 1..n PROVE v[i + 1] = w[i]
      <4>1. v[i + 1] = w[(i + 1) - 1]
        BY <3>1, <3>2
      <4> QED BY <4>1, <3>2
    <3> QED BY <3>3, <3>4, <2>2
  <2> HIDE DEF v
  <2>5. DOMAIN v = 1..(n + 1) /\ DOMAIN w = 1..n
    BY <1>1, <2>1, <2>3
  <2>6. \A i \in 1..(n + 1) : i = 1 \/ \E k \in 1..n : i = k + 1
    <3> SUFFICES ASSUME NEW i \in 1..(n + 1), i # 1 PROVE \E k \in 1..n : i = k + 1
      OBVIOUS
    <3>1. i - 1 \in 1..n /\ i = (i - 1) + 1
      OBVIOUS
    <3> QED BY <3>1
  <2>7. \A k \in 1..n : w[k] \in S /\ w[k] # 0
    BY <1>1, <2>5 DEF ToSet
  <2>8. ToSet(v) = S \cup {0}
    <3>1. \A i \in 1..(n + 1) : v[i] \in S \cup {0}
      BY <2>4, <2>6, <2>7
    <3>2. ASSUME NEW y \in S PROVE \E i \in 1..(n + 1) : y = v[i]
      <4>1. PICK k \in 1..n : y = w[k]
        BY <1>1, <2>5 DEF ToSet
      <4>2. k + 1 \in 1..(n + 1) /\ v[k + 1] = y
        BY <4>1, <2>4
      <4> QED BY <4>2
    <3>3. 1 \in 1..(n + 1) /\ v[1] = 0
      BY <2>1, <2>4
    <3> QED BY <3>1, <3>2, <3>3, <2>5 DEF ToSet
  <2>9. IsInjective(v)
    <3> SUFFICES ASSUME NEW a \in 1..(n + 1), NEW b \in 1..(n + 1), v[a] = v[b] PROVE a = b
      BY <2>5 DEF IsInjective
    <3>1. CASE a = 1
      BY <3>1, <2>4, <2>6, <2>7
    <3>2. CASE b = 1
      BY <3>2, <2>4, <2>6, <2>7
    <3>3. CASE a # 1 /\ b # 1
      <4>1. PICK k \in 1..n, l \in 1..n : a = k + 1 /\ b = l + 1
        BY <3>3, <2>6
      <4>2. w[k] = w[l]
        BY <4>1, <2>4
      <4>3. k = l
        BY <4>2, <1>1, <2>5 DEF IsInjective
      <4> QED BY <4>1, <4>3
    <3> QED BY <3>1, <3>2, <3>3
  <2>10. ToSet(<<0>>) = {0}
    BY <2>2 DEF ToSet
  <2> QED BY <2>8, <2>9, <2>10, <1>3 DEF v
<1> QED BY <1>2, <1>3 DEF HeldBefore

LEMMA UploadInvSafe == UploadInv => CollectionsHoldTheirKinds
<1> SUFFICES ASSUME UploadInv PROVE CollectionsHoldTheirKinds
  OBVIOUS
<1>1. batch \in Batches /\ contents = [k \in Collections |-> Content(k)]
  BY DEF UploadInv
<1>2. DOMAIN contents = Collections
  BY <1>1
<1>3. ASSUME NEW k \in Collections, Past(k) PROVE Put(k) \in Seq(Nat)
  <2>1. Written(k) \in Seq(Nat)
    BY <1>1, WrittenFact DEF EachOnce
  <2>2. CASE batch.stream
    BY <2>1, <2>2 DEF Put
  <2>3. CASE ~batch.stream
    <3>1. Written(k) # <<>>
      BY <1>3, <2>3 DEF UploadInv
    <3> QED BY <3>1, <2>1, <2>3, <1>1, FirstFile DEF Put
  <2> QED BY <2>2, <2>3
<1>4. Old \in {<<>>, <<0>>} /\ ToSet(Old) = Before
  <2>1. ToSet(<<0>>) = {0} /\ ToSet(<<>>) = {}
    BY DEF ToSet
  <2> QED BY <2>1 DEF Old, Holding, Before
<1>5. ASSUME NEW k \in Collections, batch.held, ~batch.recreate PROVE Head(contents[k]) = 0
  <2>1. Holding = <<0>> /\ Old = <<0>>
    BY <1>5 DEF Old, Holding
  <2>2. Head(<<0>>) = 0
    OBVIOUS
  <2>3. CASE Past(k)
    <3>1. contents[k] = <<0>> \o Put(k)
      BY <1>1, <2>1, <2>3 DEF Content
    <3>2. Put(k) \in Seq(Nat)
      BY <1>3, <2>3
    <3>3. <<0>> \in Seq(Nat) /\ Len(<<0>>) = 1 /\ <<0>>[1] = 0
      OBVIOUS
    <3>4. PICK n \in Nat : n = Len(Put(k))
      BY <3>2, LenProperties
    <3>5. contents[k] \in Seq(Nat) /\ Len(contents[k]) = 1 + n
      BY <3>1, <3>2, <3>3, <3>4, ConcatProperties
    <3>6. contents[k][1] = 0
      <4>1. 1 \in 1..(1 + n)
        BY <3>4
      <4> QED BY <4>1, <3>1, <3>2, <3>3, <3>4, ConcatProperties
    <3>7. contents[k] # <<>>
      BY <3>4, <3>5, EmptySeq
    <3> QED BY <3>5, <3>6, <3>7, HeadTailProperties
  <2>4. CASE ~Past(k)
    BY <1>1, <2>1, <2>2, <2>4 DEF Content
  <2> QED BY <2>3, <2>4
<1>6. ASSUME step = "done", batch.stream \/ \A k \in Collections : Cardinality(Meant(k)) <= batch.per_file,
             NEW k \in Collections
      PROVE  ToSet(contents[k]) = Meant(k) \cup Before /\ IsInjective(contents[k])
  <2>1. contents[k] = Old \o Written(k)
    <3>1. Put(k) = Written(k)
      BY <1>6, AllPut
    <3>2. contents[k] = Content(k) /\ Past(k)
      BY <1>1, <1>6 DEF Past
    <3> QED BY <3>1, <3>2 DEF Content
  <2>2. EachOnce(Written(k), Meant(k)) /\ 0 \notin Meant(k)
    BY <1>1, WrittenFact, MeantFact DEF Chosen
  <2>3. /\ ToSet(Old \o Written(k)) = Meant(k) \cup ToSet(Old)
        /\ IsInjective(Old \o Written(k))
    BY <2>2, <1>4, OldAndNew DEF HeldBefore
  <2> QED BY <2>1, <2>3, <1>4
<1> QED BY <1>2, <1>5, <1>6 DEF CollectionsHoldTheirKinds

\* However many collections are written with the parameters of one call, and
\* whatever records there are: every collection ends with exactly the records of
\* its own kinds, each once, after what it held before and was to keep.
THEOREM EachKindInItsCollection == UploadSpec => []CollectionsHoldTheirKinds
<1>1. UploadInit => UploadInv
  BY UploadInitInv
<1>2. UploadInv /\ [UploadNext]_uploadVars => UploadInv'
  BY UploadStepInv
<1>3. UploadInv => CollectionsHoldTheirKinds
  BY UploadInvSafe
<1> QED BY <1>1, <1>2, <1>3, PTL DEF UploadSpec

-----------------------------------------------------------------------------
(* IngestorCalls: the jobs of an ingest.                                   *)

\* The constants bring these types.
AllTypes == DocumentTypes \cup {d.document_type : d \in CallersDocuments} \cup {"any"}
TaskNames == {"extract", "table_data_extract", "chart_data_extract", "embed", "dedup", "filter", "split",
              "store_embedding"}
TaskType == [type : TaskNames] \cup [type : {"extract"}, document_type : AllTypes]
PathType == [of : CallersDocuments, local : BOOLEAN]
SpecType == [of : CallersDocuments, tasks : Seq(TaskType), payload : BOOLEAN]
BatchType == [made : BOOLEAN, file_types : Seq(AllTypes), specs : Seq(SpecType)]

\* Common, of the tasks alone.
Plain(task) ==
  IF task.type \in {"extract", "table_data_extract", "chart_data_extract"} THEN <<>> ELSE <<task.type>>
CommonOf(tasks) == FlattenSeq([i \in 1..Len(tasks) |-> Plain(tasks[i])])

\* All specs have these tasks in common, and specs of one type all their tasks.
Uniform(specs, a) ==
  /\ \A k \in DOMAIN specs : CommonOf(specs[k].tasks) = a
  /\ \A k, l \in DOMAIN specs :
       specs[k].of.document_type = specs[l].of.document_type => specs[k].tasks = specs[l].tasks

UniformOn(b, a, jobs) == b \in BatchType /\ Uniform(b.specs, a) /\ DOMAIN b.specs = jobs
UniformBatch(b, a) == UniformOn(b, a, DOMAIN b.specs)

\* What makes EveryJobAnswered inductive: the batch is uniform from call to call,
\* and a job that is collected had its end and keeps it.
SuccessWasSent ==
  \A k \in BatchJobs : fetched[k] = "success" => submission[k] = "sent"
Collected ==
  /\ result \subseteq BatchJobs /\ failure \subseteq BatchJobs /\ result \cap failure = {}
  /\ \A k \in result : fetched[k] = "success"
  /\ \A k \in failure : fetched[k] \notin {"asking", "success"}
InRun ==
  /\ DOMAIN submission = BatchJobs /\ DOMAIN fetched = BatchJobs /\ SuccessWasSent /\ Collected
  /\ phase = "submit" => result = {} /\ failure = {} /\ \A k \in BatchJobs : fetched[k] = "asking"
  /\ phase = "returned" => result \cup failure = BatchJobs /\ uploaded \in {{}, result}
IngestorInv ==
  /\ _documents \in Seq(PathType) /\ asked \in Seq(TaskNames) /\ UniformBatch(_job_specs, asked)
  /\ phase \in {"build", "submit", "fetch", "returned", "raised"}
  /\ phase \in {"submit", "fetch", "returned"} => InRun

-----------------------------------------------------------------------------
(* The tasks of a spec.                                                    *)

LEMMA TaskFact ==
  /\ \A t \in TaskType : t.type \in TaskNames /\ Plain(t) \in Seq(TaskNames)
  /\ \A t \in AllTypes : [type |-> "extract", document_type |-> t] \in TaskType
  /\ \A s \in TaskNames : [type |-> s] \in TaskType
<1>1. ASSUME NEW t \in TaskType PROVE t.type \in TaskNames /\ Plain(t) \in Seq(TaskNames)
  <2>1. t.type \in TaskNames
    <3>1. CASE t \in [type : TaskNames]
      BY <3>1
    <3>2. CASE t \in [type : {"extract"}, document_type : AllTypes]
      <4>1. t.type = "extract"
        BY <3>2
      <4> QED BY <4>1 DEF TaskNames
    <3> QED BY <3>1, <3>2 DEF TaskType
  <2>2. <<>> \in Seq(TaskNames) /\ <<t.type>> \in Seq(TaskNames)
    BY <2>1
  <2> QED BY <2>1, <2>2 DEF Plain
<1>2. \A t \in AllTypes : [type |-> "extract", document_type |-> t] \in TaskType
  BY DEF TaskType
<1>3. \A s \in TaskNames : [type |-> s] \in TaskType
  BY DEF TaskType
<1> QED BY <1>1, <1>2, <1>3

LEMMA CommonAppend ==
  ASSUME NEW tasks \in Seq(TaskType), NEW t \in TaskType
  PROVE  CommonOf(tasks) \in Seq(TaskNames) /\ CommonOf(Append(tasks, t)) = CommonOf(tasks) \o Plain(t)
<1> DEFINE more == Append(tasks, t)
           plain == [i \in 1..Len(tasks) |-> Plain(tasks[i])]
<1>1. PICK n \in Nat : n = Len(tasks)
  BY LenProperties
<1>2. more \in Seq(TaskType) /\ Len(more) = n + 1 /\ more[n + 1] = t /\ \A i \in 1..n : more[i] = tasks[i]
  BY <1>1, AppendProperties
<1>3. \A i \in 1..n : Plain(tasks[i]) \in Seq(TaskNames)
  BY <1>1, ElementOfSeq, TaskFact
<1>4. plain \in Seq(Seq(TaskNames)) /\ Len(plain) = n /\ \A i \in 1..n : plain[i] = Plain(tasks[i])
  BY <1>1, <1>3
<1>5. Plain(t) \in Seq(TaskNames)
  BY TaskFact
<1> HIDE DEF more, plain
<1>6. FlattenSeq(plain) \in Seq(TaskNames)
  BY <1>4, FlattenTyped
<1>7. FlattenSeq(Append(plain, Plain(t))) = FlattenSeq(plain) \o Plain(t)
  BY <1>4, <1>5, <1>6, FlattenAppend
<1>8. CommonOf(tasks) = FlattenSeq(plain)
  BY DEF CommonOf, plain
<1> DEFINE p == Append(plain, Plain(t))
           q == [i \in 1..(n + 1) |-> Plain(more[i])]
<1>9. p = q
  <2>1. p \in Seq(Seq(TaskNames)) /\ Len(p) = n + 1 /\ p[n + 1] = Plain(t) /\ \A i \in 1..n : p[i] = plain[i]
    <3> DEFINE e == Plain(t)
    <3>1. e \in Seq(TaskNames)
      BY <1>5
    <3> HIDE DEF e
    <3>2. /\ Append(plain, e) \in Seq(Seq(TaskNames)) /\ Len(Append(plain, e)) = Len(plain) + 1
          /\ Append(plain, e)[Len(plain) + 1] = e
          /\ \A i \in 1..Len(plain) : Append(plain, e)[i] = plain[i]
      BY <1>4, <3>1, AppendProperties
    <3> QED BY <3>2, <1>4 DEF e
  <2>2. p = [i \in 1..(n + 1) |-> p[i]]
    BY <2>1, LenProperties
  <2> HIDE DEF p
  <2>3. ASSUME NEW i \in 1..(n + 1) PROVE p[i] = Plain(more[i])
    <3>1. i = n + 1 \/ i \in 1..n
      OBVIOUS
    <3> QED BY <3>1, <2>1, <1>2, <1>4
  <2> QED BY <2>2, <2>3
<1>10. CommonOf(more) = FlattenSeq(q)
  BY <1>2 DEF CommonOf
<1> QED BY <1>6, <1>7, <1>8, <1>9, <1>10 DEF more

LEMMA CommonEmpty == CommonOf(<<>>) = <<>>
<1>1. [i \in 1..Len(<<>>) |-> Plain(<<>>[i])] = <<>>
  OBVIOUS
<1> QED BY <1>1, FlattenEmpty DEF CommonOf

\* The tasks that an extraction brings are not common.
LEMMA CommonWith ==
  ASSUME NEW tasks \in Seq(TaskType), NEW t \in TaskType
  PROVE  tasks \o With(t) \in Seq(TaskType) /\ CommonOf(tasks \o With(t)) = CommonOf(tasks) \o Plain(t)
<1>1. CASE t.type # "extract"
  <2>1. With(t) = <<t>>
    BY <1>1 DEF With
  <2>2. tasks \o <<t>> = Append(tasks, t) /\ Append(tasks, t) \in Seq(TaskType)
    OBVIOUS
  <2> QED BY <2>1, <2>2, CommonAppend
<1>2. CASE t.type = "extract"
  <2> DEFINE table == [type |-> "table_data_extract"]
             chart == [type |-> "chart_data_extract"]
             two == Append(tasks, t)
             three == Append(two, table)
  <2>1. table \in TaskType /\ chart \in TaskType /\ Plain(table) = <<>> /\ Plain(chart) = <<>>
    <3>1. table.type = "table_data_extract" /\ chart.type = "chart_data_extract"
      OBVIOUS
    <3>2. table \in TaskType /\ chart \in TaskType
      <4>1. "table_data_extract" \in TaskNames /\ "chart_data_extract" \in TaskNames
        BY DEF TaskNames
      <4> QED BY <4>1, TaskFact
    <3> HIDE DEF table, chart
    <3> QED BY <3>1, <3>2 DEF Plain
  <2>2. With(t) = <<t, table, chart>>
    BY <1>2 DEF With
  <2> HIDE DEF table, chart
  <2>3. two \in Seq(TaskType) /\ three \in Seq(TaskType) /\ Append(three, chart) \in Seq(TaskType)
    BY <2>1
  <2>4. tasks \o <<t, table, chart>> = Append(three, chart)
    BY <2>1
  <2> HIDE DEF two, three
  <2>5. /\ CommonOf(two) = CommonOf(tasks) \o Plain(t)
        /\ CommonOf(two) \in Seq(TaskNames) /\ CommonOf(three) \in Seq(TaskNames)
        /\ CommonOf(three) = CommonOf(two) \o <<>>
        /\ CommonOf(Append(three, chart)) = CommonOf(three) \o <<>>
    BY <2>1, <2>3, CommonAppend DEF two, three
  <2>6. CommonOf(Append(three, chart)) = CommonOf(two)
    BY <2>5, ConcatEmptySeq
  <2> QED BY <2>2, <2>3, <2>4, <2>5, <2>6
<1> QED BY <1>1, <1>2

-----------------------------------------------------------------------------
(* Tasks for a batch.                                                      *)

LEMMA SpecsFact ==
  ASSUME NEW b \in BatchType
  PROVE  /\ b.file_types \in Seq(AllTypes) /\ b.specs \in Seq(SpecType) /\ Len(b.specs) \in Nat
         /\ DOMAIN b.specs = 1..Len(b.specs) /\ \A k \in DOMAIN b.specs : b.specs[k] \in SpecType
<1>1. b.file_types \in Seq(AllTypes) /\ b.specs \in Seq(SpecType)
  BY DEF BatchType
<1> DEFINE s == b.specs
<1> HIDE DEF s
<1>2. s \in Seq(SpecType)
  BY <1>1 DEF s
<1>3. Len(s) \in Nat /\ DOMAIN s = 1..Len(s) /\ \A k \in DOMAIN s : s[k] \in SpecType
  BY <1>2, LenProperties, ElementOfSeq
<1> QED BY <1>1, <1>3 DEF s

\* What add_task makes of one spec.
AddTo(s, task, document_type) ==
  IF document_type \in {"any", s.of.document_type} THEN [s EXCEPT !.tasks = @ \o With(task)] ELSE s

LEMMA AddToFact ==
  ASSUME NEW s \in SpecType, NEW task \in TaskType, NEW t
  PROVE  /\ AddTo(s, task, t) \in SpecType /\ AddTo(s, task, t).of = s.of
         /\ AddTo(s, task, t).tasks = IF t \in {"any", s.of.document_type} THEN s.tasks \o With(task) ELSE s.tasks
<1>1. s.tasks \in Seq(TaskType)
  BY DEF SpecType
<1> DEFINE more == s.tasks \o With(task)
<1>2. more \in Seq(TaskType)
  BY <1>1, CommonWith
<1> HIDE DEF more
<1>3. AddTo(s, task, t) = IF t \in {"any", s.of.document_type} THEN [s EXCEPT !.tasks = more] ELSE s
  BY DEF AddTo, more
<1>4. [s EXCEPT !.tasks = more] \in SpecType /\ [s EXCEPT !.tasks = more].of = s.of /\ [s EXCEPT !.tasks = more].tasks = more
  BY <1>2 DEF SpecType
<1> QED BY <1>3, <1>4 DEF more

LEMMA AddTyped ==
  ASSUME NEW b \in BatchType, NEW task \in TaskType, NEW t \in AllTypes
  PROVE  /\ add_task(b, task, t) \in BatchType
         /\ DOMAIN add_task(b, task, t).specs = DOMAIN b.specs
         /\ \A k \in DOMAIN b.specs : add_task(b, task, t).specs[k] = AddTo(b.specs[k], task, t)
<1> DEFINE types == IF t = "any" \/ Contains(b.file_types, t) THEN b.file_types ELSE Append(b.file_types, t)
           specs == [k \in DOMAIN b.specs |-> AddTo(b.specs[k], task, t)]
<1>1. types \in Seq(AllTypes)
  BY SpecsFact
<1>2. specs \in Seq(SpecType)
  <2>1. \A k \in 1..Len(b.specs) : AddTo(b.specs[k], task, t) \in SpecType
    BY SpecsFact, AddToFact
  <2> QED BY <2>1, SpecsFact
<1>3. add_task(b, task, t) = [made |-> TRUE, file_types |-> types, specs |-> specs]
  BY DEF add_task, AddTo
<1> HIDE DEF types
<1>4. DOMAIN specs = DOMAIN b.specs /\ \A k \in DOMAIN b.specs : specs[k] = AddTo(b.specs[k], task, t)
  OBVIOUS
<1> HIDE DEF specs
<1>5. [made |-> TRUE, file_types |-> types, specs |-> specs] \in BatchType
  BY <1>1, <1>2 DEF BatchType
<1> QED BY <1>3, <1>4, <1>5

\* A task for all documents is one more in common; an extraction of one type is
\* nothing in common, and all documents of the type get it.
LEMMA AddKeeps ==
  ASSUME NEW b, NEW jobs, NEW a \in Seq(TaskNames), UniformOn(b, a, jobs), NEW task \in TaskType, NEW t \in AllTypes,
         t = "any" \/ Plain(task) = <<>>
  PROVE  UniformOn(add_task(b, task, t), a \o Plain(task), jobs)
<1> DEFINE c == add_task(b, task, t)
<1>1. b \in BatchType /\ Uniform(b.specs, a) /\ DOMAIN b.specs = jobs
  BY DEF UniformOn
<1>2. /\ c \in BatchType /\ DOMAIN c.specs = DOMAIN b.specs
      /\ \A k \in DOMAIN b.specs : c.specs[k] = AddTo(b.specs[k], task, t)
  BY <1>1, AddTyped
<1> HIDE DEF c
<1>3. ASSUME NEW k \in DOMAIN b.specs
      PROVE  /\ b.specs[k] \in SpecType /\ c.specs[k].of = b.specs[k].of
             /\ c.specs[k].tasks = IF t \in {"any", b.specs[k].of.document_type}
                                   THEN b.specs[k].tasks \o With(task) ELSE b.specs[k].tasks
  BY <1>1, <1>2, SpecsFact, AddToFact
<1>4. ASSUME NEW k \in DOMAIN c.specs PROVE CommonOf(c.specs[k].tasks) = a \o Plain(task)
  <2> DEFINE tasks == b.specs[k].tasks
  <2>1. tasks \in Seq(TaskType) /\ CommonOf(tasks) = a
    BY <1>1, <1>2, <1>3 DEF SpecType, Uniform
  <2>2. c.specs[k].tasks = tasks \o With(task) \/ (t # "any" /\ c.specs[k].tasks = tasks)
    BY <1>2, <1>3
  <2> HIDE DEF tasks
  <2>3. CASE c.specs[k].tasks = tasks \o With(task)
    BY <2>1, <2>3, CommonWith
  <2>4. CASE t # "any" /\ c.specs[k].tasks = tasks
    <3>1. a \o <<>> = a
      BY ConcatEmptySeq
    <3> QED BY <3>1, <2>1, <2>4
  <2> QED BY <2>2, <2>3, <2>4
<1>5. ASSUME NEW k \in DOMAIN c.specs, NEW l \in DOMAIN c.specs,
             c.specs[k].of.document_type = c.specs[l].of.document_type
      PROVE  c.specs[k].tasks = c.specs[l].tasks
  BY <1>1, <1>2, <1>3, <1>5 DEF Uniform
<1> QED BY <1>1, <1>2, <1>4, <1>5 DEF c, Uniform, UniformOn

\* Several tasks in turn.
Additions(list, n) ==
  list \in Seq([task : TaskType, document_type : AllTypes]) /\ Len(list) = n
Adding(f, b, list) ==
  f = [n \in 0..Len(list) |-> IF n = 0 THEN b ELSE add_task(f[n - 1], list[n].task, list[n].document_type)]

LEMMA AddingExists ==
  ASSUME NEW b \in BatchType, NEW n \in Nat, NEW list, Additions(list, n)
  PROVE  \E f : Adding(f, b, list)
<1> DEFINE A == BatchType
           rule == [k \in 1..n |-> [x \in A |-> add_task(x, list[k].task, list[k].document_type)]]
<1>1. \A k \in 1..n : list[k].task \in TaskType /\ list[k].document_type \in AllTypes
  <2>1. \A k \in 1..n : list[k] \in [task : TaskType, document_type : AllTypes]
    BY ElementOfSeq DEF Additions
  <2> QED BY <2>1
<1>2. Steps(rule, A, n)
  <2>1. \A k \in 1..n, x \in A : add_task(x, list[k].task, list[k].document_type) \in A
    BY <1>1, AddTyped
  <2> HIDE DEF A
  <2> QED BY <2>1 DEF Steps
<1>3. \A k \in 1..n, x \in A : rule[k][x] = add_task(x, list[k].task, list[k].document_type)
  OBVIOUS
<1>4. b \in A
  OBVIOUS
<1> HIDE DEF rule, A
<1>5. PICK f : Solves(f, b, rule, A, n)
  BY <1>2, <1>4, Recursion
<1> DEFINE h == [k \in 0..n |-> IF k = 0 THEN b ELSE add_task(f[k - 1], list[k].task, list[k].document_type)]
<1>6. ASSUME NEW k \in 0..n PROVE f[k] = h[k]
  <2>1. CASE k = 0
    BY <2>1, <1>5 DEF Solves
  <2>2. CASE k # 0
    <3>1. k \in 1..n /\ k - 1 \in 0..n
      BY <2>2
    <3>2. f[k - 1] \in A /\ f[k] = rule[k][f[k - 1]]
      BY <3>1, <1>5 DEF Solves
    <3> QED BY <2>2, <3>1, <3>2, <1>3
  <2> QED BY <2>1, <2>2
<1>7. f = h
  BY <1>5, <1>6 DEF Solves
<1>8. Adding(f, b, list)
  BY <1>7 DEF Adding, Additions
<1> QED BY <1>8

Added(f, b, n, list) ==
  /\ f[0] = b /\ f[n] = AddTasks(b, list)
  /\ \A k \in 1..n : f[k] = add_task(f[k - 1], list[k].task, list[k].document_type)

LEMMA AddTasksIs ==
  ASSUME NEW b \in BatchType, NEW n \in Nat, NEW list, Additions(list, n)
  PROVE  \E f : Added(f, b, n, list)
<1> DEFINE f == CHOOSE g : Adding(g, b, list)
<1>1. Adding(f, b, list)
  BY AddingExists
<1>2. AddTasks(b, list) = f[n]
  BY DEF AddTasks, Adding, Additions
<1> HIDE DEF f
<1>3. f[0] = b
  <2>1. 0 \in 0..n
    OBVIOUS
  <2> QED BY <2>1, <1>1 DEF Adding, Additions
<1>4. ASSUME NEW k \in 1..n PROVE f[k] = add_task(f[k - 1], list[k].task, list[k].document_type)
  <2>1. k \in 0..n /\ k # 0
    OBVIOUS
  <2> QED BY <2>1, <1>1 DEF Adding, Additions
<1> QED BY <1>2, <1>3, <1>4 DEF Added

\* Extractions, of whatever types.
LEMMA ExtractKeeps ==
  ASSUME NEW b, NEW jobs, NEW a \in Seq(TaskNames), UniformOn(b, a, jobs), NEW t \in AllTypes
  PROVE  UniformOn(extract(b, t), a, jobs)
<1> DEFINE types == IF t = "any" \/ b.file_types = <<>> THEN b.file_types ELSE <<t>> \o Tail(b.file_types)
           extraction(u) == [task |-> [type |-> "extract", document_type |-> u], document_type |-> u]
           list == [i \in 1..Len(types) |-> extraction(types[i])]
<1>1. b \in BatchType /\ b.file_types \in Seq(AllTypes)
  BY SpecsFact DEF UniformOn
<1>2. types \in Seq(AllTypes)
  <2> DEFINE s == b.file_types
  <2> HIDE DEF s
  <2>1. s \in Seq(AllTypes)
    BY <1>1 DEF s
  <2>2. s # <<>> => Tail(s) \in Seq(AllTypes)
    BY <2>1, EmptySeq
  <2>3. <<t>> \in Seq(AllTypes)
    OBVIOUS
  <2>4. s # <<>> => <<t>> \o Tail(s) \in Seq(AllTypes)
    BY <2>2, <2>3, ConcatProperties
  <2> QED BY <2>1, <2>4 DEF s
<1>3. extract(b, t) = AddTasks(b, list)
  BY DEF extract
<1> HIDE DEF types
<1>4. PICK n \in Nat : n = Len(types)
  BY <1>2, LenProperties
<1>5. \A i \in 1..n : types[i] \in AllTypes
  BY <1>2, <1>4, ElementOfSeq
<1>6. \A u \in AllTypes : extraction(u) \in [task : TaskType, document_type : AllTypes]
  BY TaskFact
<1>7. list \in Seq([task : TaskType, document_type : AllTypes]) /\ Len(list) = n
  BY <1>4, <1>5, <1>6
<1>8. ASSUME NEW k \in 1..n
      PROVE  list[k].task \in TaskType /\ list[k].document_type \in AllTypes /\ Plain(list[k].task) = <<>>
  <2>1. list[k] = extraction(types[k]) /\ types[k] \in AllTypes
    BY <1>4, <1>5
  <2>2. list[k].task.type = "extract" /\ list[k].document_type = types[k]
    BY <2>1
  <2>3. list[k].task \in TaskType
    BY <2>1, TaskFact
  <2> QED BY <2>1, <2>2, <2>3 DEF Plain
<1> HIDE DEF list, extraction
<1>9. PICK f : Added(f, b, n, list)
  <2>1. Additions(list, n)
    BY <1>7 DEF Additions
  <2> QED BY <2>1, <1>1, AddTasksIs
<1> DEFINE S == {k \in Nat : k <= n => UniformOn(f[k], a, jobs)}
<1>10. 0 \in S
  BY <1>9 DEF Added
<1>11. ASSUME NEW k \in Nat, k \in S PROVE k + 1 \in S
  <2> SUFFICES ASSUME k + 1 <= n PROVE UniformOn(f[k + 1], a, jobs)
    OBVIOUS
  <2>1. k + 1 \in 1..n /\ (k + 1) - 1 = k /\ k <= n
    OBVIOUS
  <2>2. UniformOn(f[k], a, jobs)
    BY <2>1, <1>11
  <2> DEFINE j == list[k + 1]
  <2>3. f[k + 1] = add_task(f[k], j.task, j.document_type)
    BY <2>1, <1>9 DEF Added
  <2>4. j.task \in TaskType /\ j.document_type \in AllTypes /\ Plain(j.task) = <<>>
    BY <2>1, <1>8
  <2> HIDE DEF j
  <2>5. UniformOn(add_task(f[k], j.task, j.document_type), a \o Plain(j.task), jobs)
    BY <2>2, <2>4, AddKeeps
  <2>6. a \o <<>> = a
    BY ConcatEmptySeq
  <2> QED BY <2>3, <2>4, <2>5, <2>6
<1> HIDE DEF S
<1>12. n \in S
  BY <1>10, <1>11, SetInduction
<1>13. UniformOn(f[n], a, jobs)
  BY <1>12 DEF S
<1> QED BY <1>3, <1>9, <1>13 DEF Added

\* The default tasks, after the extractions.
LEMMA DefaultsFact ==
  ASSUME NEW b, NEW jobs, UniformOn(b, <<>>, jobs)
  PROVE  UniformOn(all_tasks(b), DefaultTasks, jobs)
<1> DEFINE c == extract(b, "any")
           list == [i \in 1..5 |-> [task |-> [type |-> DefaultTasks[i]], document_type |-> "any"]]
<1>1. <<>> \in Seq(TaskNames) /\ "any" \in AllTypes
  BY DEF AllTypes
<1>2. UniformOn(c, <<>>, jobs)
  BY <1>1, ExtractKeeps
<1>3. all_tasks(b) = AddTasks(c, list)
  BY DEF all_tasks
<1> HIDE DEF c
<1>4. ASSUME NEW k \in 1..5
      PROVE  /\ DefaultTasks[k] \in TaskNames /\ [type |-> DefaultTasks[k]] \in TaskType
             /\ Plain([type |-> DefaultTasks[k]]) = <<DefaultTasks[k]>>
  <2>1. k = 1 \/ k = 2 \/ k = 3 \/ k = 4 \/ k = 5
    OBVIOUS
  <2> DEFINE t == DefaultTasks[k]
  <2>2. t \in {"dedup", "filter", "split", "embed", "store_embedding"}
    BY <2>1 DEF DefaultTasks
  <2> HIDE DEF t
  <2>3. t \in TaskNames /\ t \notin {"extract", "table_data_extract", "chart_data_extract"}
    BY <2>2 DEF TaskNames
  <2>4. [type |-> t] \in TaskType /\ Plain([type |-> t]) = <<t>>
    BY <2>3, TaskFact DEF Plain
  <2> QED BY <2>3, <2>4 DEF t
<1>5. list \in Seq([task : TaskType, document_type : AllTypes]) /\ Len(list) = 5
  <2>1. \A k \in 1..5 : list[k] \in [task : TaskType, document_type : AllTypes]
    BY <1>1, <1>4
  <2> QED BY <2>1
<1>6. \A k \in 1..5 : list[k].task = [type |-> DefaultTasks[k]] /\ list[k].document_type = "any"
  OBVIOUS
<1> HIDE DEF list
<1>7. c \in BatchType
  BY <1>2 DEF UniformOn
<1>8. PICK f : Added(f, c, 5, list)
  <2>1. Additions(list, 5) /\ 5 \in Nat
    BY <1>5 DEF Additions
  <2> QED BY <2>1, <1>7, AddTasksIs
<1>9. ASSUME NEW k \in 1..5, NEW a \in Seq(TaskNames), UniformOn(f[k - 1], a, jobs)
      PROVE  UniformOn(f[k], Append(a, DefaultTasks[k]), jobs) /\ Append(a, DefaultTasks[k]) \in Seq(TaskNames)
  <2> DEFINE t == DefaultTasks[k]
  <2>1. t \in TaskNames /\ [type |-> t] \in TaskType /\ Plain([type |-> t]) = <<t>>
    BY <1>4
  <2>2. f[k] = add_task(f[k - 1], [type |-> t], "any")
    BY <1>6, <1>8 DEF Added
  <2> HIDE DEF t
  <2>3. UniformOn(add_task(f[k - 1], [type |-> t], "any"), a \o Plain([type |-> t]), jobs)
    BY <1>1, <1>9, <2>1, AddKeeps
  <2>4. a \o <<t>> = Append(a, t) /\ Append(a, t) \in Seq(TaskNames)
    BY <2>1
  <2> QED BY <2>1, <2>2, <2>3, <2>4 DEF t
<1> DEFINE d(k) == DefaultTasks[k]
           a1 == Append(<<>>, d(1))
           a2 == Append(a1, d(2))
           a3 == Append(a2, d(3))
           a4 == Append(a3, d(4))
           a5 == Append(a4, d(5))
<1>10. /\ 1 \in 1..5 /\ 2 \in 1..5 /\ 3 \in 1..5 /\ 4 \in 1..5 /\ 5 \in 1..5
       /\ 1 - 1 = 0 /\ 2 - 1 = 1 /\ 3 - 1 = 2 /\ 4 - 1 = 3 /\ 5 - 1 = 4
  OBVIOUS
<1>11. a5 = DefaultTasks
  <2>1. d(1) = "dedup" /\ d(2) = "filter" /\ d(3) = "split" /\ d(4) = "embed" /\ d(5) = "store_embedding"
    BY DEF DefaultTasks
  <2> HIDE DEF d
  <2>2. <<d(1), d(2), d(3), d(4), d(5)>> = a5
    OBVIOUS
  <2> QED BY <2>1, <2>2 DEF DefaultTasks
<1> HIDE DEF a1, a2, a3, a4, a5
<1>12. UniformOn(f[1], a1, jobs) /\ a1 \in Seq(TaskNames)
  BY <1>1, <1>2, <1>8, <1>9, <1>10 DEF a1, Added
<1>13. UniformOn(f[2], a2, jobs) /\ a2 \in Seq(TaskNames)
  BY <1>12, <1>9, <1>10 DEF a2
<1>14. UniformOn(f[3], a3, jobs) /\ a3 \in Seq(TaskNames)
  BY <1>13, <1>9, <1>10 DEF a3
<1>15. UniformOn(f[4], a4, jobs) /\ a4 \in Seq(TaskNames)
  BY <1>14, <1>9, <1>10 DEF a4
<1>16. UniformOn(f[5], a5, jobs) /\ a5 \in Seq(TaskNames)
  BY <1>15, <1>9, <1>10 DEF a5
<1> QED BY <1>3, <1>8, <1>11, <1>16 DEF Added

\* The specs of a batch that is made anew.
LEMMA BatchFact ==
  ASSUME NEW documents \in Seq(PathType)
  PROVE  UniformBatch(BatchJobSpec(documents), <<>>)
<1>1. PICK n \in Nat : n = Len(documents)
  BY LenProperties
<1>2. \A i \in 1..n : documents[i] \in PathType
  BY <1>1, ElementOfSeq
<1>3. \A i \in 1..n : documents[i].of \in CallersDocuments
  BY <1>2 DEF PathType
<1>4. \A i \in 1..n : documents[i].of.document_type \in AllTypes
  BY <1>3 DEF AllTypes
<1> DEFINE type(i) == documents[i].of.document_type
           seen(i) == \E k \in 1..(i - 1) : documents[k].of.known /\ type(k) = type(i)
           first == [i \in 1..n |-> IF documents[i].of.known /\ ~seen(i) THEN <<type(i)>> ELSE <<>>]
<1>5. Types(documents) \in Seq(AllTypes)
  <2>1. Types(documents) = FlattenSeq(first)
    BY <1>1 DEF Types
  <2>2. \A i \in 1..n : (IF documents[i].of.known /\ ~seen(i) THEN <<type(i)>> ELSE <<>>) \in Seq(AllTypes)
    <3> SUFFICES ASSUME NEW i \in 1..n
                 PROVE  (IF documents[i].of.known /\ ~seen(i) THEN <<type(i)>> ELSE <<>>) \in Seq(AllTypes)
      OBVIOUS
    <3>1. <<type(i)>> \in Seq(AllTypes) /\ <<>> \in Seq(AllTypes)
      BY <1>4
    <3> HIDE DEF type, seen
    <3> QED BY <3>1
  <2>3. first \in Seq(Seq(AllTypes))
    <3> HIDE DEF type, seen
    <3> QED BY <2>2
  <2> HIDE DEF first
  <2> QED BY <2>1, <2>3, FlattenTyped
<1>6. ASSUME NEW t PROVE OfType(documents, t) \in Seq(CallersDocuments)
  <2> DEFINE mine == [i \in 1..n |-> IF documents[i].of.known /\ documents[i].of.document_type = t
                                     THEN <<documents[i].of>> ELSE <<>>]
  <2>1. OfType(documents, t) = FlattenSeq(mine)
    BY <1>1 DEF OfType
  <2>2. \A i \in 1..n : <<documents[i].of>> \in Seq(CallersDocuments) /\ <<>> \in Seq(CallersDocuments)
    BY <1>3
  <2>3. mine \in Seq(Seq(CallersDocuments))
    BY <2>2
  <2> HIDE DEF mine
  <2> QED BY <2>1, <2>3, FlattenTyped
<1> DEFINE types == Types(documents)
           groups == [i \in 1..Len(types) |-> OfType(documents, types[i])]
           all == ByType(documents)
<1>7. all \in Seq(CallersDocuments)
  <2>1. all = FlattenSeq(groups)
    BY DEF ByType
  <2> HIDE DEF types, all
  <2>2. Len(types) \in Nat
    BY <1>5, LenProperties DEF types
  <2>3. groups \in Seq(Seq(CallersDocuments))
    BY <1>6, <2>2
  <2> HIDE DEF groups
  <2> QED BY <2>1, <2>3, FlattenTyped
<1> DEFINE specs == [k \in DOMAIN all |-> [of |-> all[k], tasks |-> <<>>, payload |-> TRUE]]
<1>8. BatchJobSpec(documents) = [made |-> TRUE, file_types |-> types, specs |-> specs]
  BY DEF BatchJobSpec
<1> HIDE DEF all, types
<1>9. specs \in Seq(SpecType)
  <2>1. PICK m \in Nat : DOMAIN all = 1..m /\ \A k \in 1..m : all[k] \in CallersDocuments
    BY <1>7, LenProperties, ElementOfSeq
  <2>2. <<>> \in Seq(TaskType)
    OBVIOUS
  <2>3. \A k \in 1..m : [of |-> all[k], tasks |-> <<>>, payload |-> TRUE] \in SpecType
    BY <2>1, <2>2 DEF SpecType
  <2>4. specs = [k \in 1..m |-> [of |-> all[k], tasks |-> <<>>, payload |-> TRUE]]
    BY <2>1
  <2> QED BY <2>3, <2>4
<1>10. \A k \in DOMAIN specs : specs[k].tasks = <<>>
  OBVIOUS
<1> HIDE DEF specs
<1>11. Uniform(specs, <<>>)
  BY <1>10, CommonEmpty DEF Uniform
<1>12. [made |-> TRUE, file_types |-> types, specs |-> specs] \in BatchType
  BY <1>5, <1>9 DEF BatchType, types
<1> QED BY <1>8, <1>11, <1>12 DEF UniformBatch, UniformOn

-----------------------------------------------------------------------------
(* The calls of the chain.                                                 *)

LEMMA Between ==
  ASSUME phase' \in {"build", "raised"}, _documents' \in Seq(PathType), asked' \in Seq(TaskNames),
         UniformBatch(_job_specs', asked')
  PROVE  IngestorInv'
<1>1. UniformBatch(_job_specs, asked)'
  BY DEF UniformBatch, UniformOn, Uniform, CommonOf, Plain
<1> QED BY <1>1 DEF IngestorInv

LEMMA IngestorInitInv == IngestorInit => IngestorInv
<1> SUFFICES ASSUME IngestorInit PROVE IngestorInv
  OBVIOUS
<1> DEFINE b == [made |-> FALSE, file_types |-> <<>>, specs |-> <<>>]
<1>1. b \in BatchType
  <2>1. <<>> \in Seq(AllTypes) /\ <<>> \in Seq(SpecType)
    OBVIOUS
  <2> QED BY <2>1 DEF BatchType
<1>2. DOMAIN b.specs = {}
  OBVIOUS
<1>3. _job_specs = b
  BY DEF IngestorInit
<1> HIDE DEF b
<1>4. UniformBatch(b, asked)
  BY <1>1, <1>2 DEF UniformBatch, UniformOn, Uniform
<1>5. _documents = <<>> /\ asked = <<>> /\ phase = "build"
  BY DEF IngestorInit
<1>6. <<>> \in Seq(PathType) /\ <<>> \in Seq(TaskNames)
  OBVIOUS
<1> QED BY <1>3, <1>4, <1>5, <1>6 DEF IngestorInv

LEMMA FilesKeeps == ASSUME IngestorInv, NEW d \in CallersDocuments, files(d) PROVE IngestorInv'
<1> DEFINE documents == Append(_documents, [of |-> d, local |-> ~d.remote])
<1>1. documents \in Seq(PathType)
  <2>1. [of |-> d, local |-> ~d.remote] \in PathType
    BY DEF PathType
  <2>2. _documents \in Seq(PathType)
    BY DEF IngestorInv
  <2> QED BY <2>1, <2>2, AppendProperties
<1>2. /\ _documents' = documents /\ phase' = "build"
      /\ (_job_specs' = BatchJobSpec(documents) /\ asked' = <<>>) \/ UNCHANGED <<_job_specs, asked>>
  BY DEF files, Called
<1> HIDE DEF documents
<1>3. UniformBatch(BatchJobSpec(documents), <<>>) /\ <<>> \in Seq(TaskNames)
  BY <1>1, BatchFact
<1>4. asked' \in Seq(TaskNames) /\ UniformBatch(_job_specs', asked')
  BY <1>2, <1>3 DEF IngestorInv
<1> QED BY <1>1, <1>2, <1>4, Between

LEMMA LoadedFact == ASSUME IngestorInv, NEW i \in DOMAIN _documents PROVE Loaded(i) \in PathType
<1> DEFINE same == {k \in DOMAIN _documents : ~_documents[k].local /\ _documents[k].of.name = _documents[i].of.name}
           last == CHOOSE k \in same : \A l \in same : l <= k
<1>1. PICK n \in Nat : DOMAIN _documents = 1..n
  BY LenProperties DEF IngestorInv
<1>2. \A k \in 1..n : _documents[k] \in PathType /\ _documents[k].of \in CallersDocuments
  <2>1. \A k \in 1..n : _documents[k] \in PathType
    BY <1>1, ElementOfSeq, LenProperties DEF IngestorInv
  <2> QED BY <2>1 DEF PathType
<1>3. CASE _documents[i].local
  BY <1>1, <1>2, <1>3 DEF Loaded
<1>4. CASE ~_documents[i].local
  <2>1. same \subseteq 1..n /\ i \in same
    BY <1>1, <1>4
  <2>2. Loaded(i) = [of |-> _documents[last].of, local |-> TRUE]
    BY <1>4 DEF Loaded
  <2> HIDE DEF same
  <2>3. Max(same) \in same /\ \A l \in same : l <= Max(same)
    BY <2>1, LargestNumber
  <2>4. last \in same
    BY <2>3
  <2> HIDE DEF last
  <2>5. _documents[last].of \in CallersDocuments
    BY <1>2, <2>1, <2>4
  <2> QED BY <2>2, <2>5 DEF PathType
<1> QED BY <1>3, <1>4

LEMMA LoadKeeps == ASSUME IngestorInv, load PROVE IngestorInv'
<1> DEFINE documents == [i \in DOMAIN _documents |-> Loaded(i)]
<1>1. documents \in Seq(PathType)
  <2>1. PICK n \in Nat : DOMAIN _documents = 1..n
    BY LenProperties DEF IngestorInv
  <2>2. \A i \in 1..n : Loaded(i) \in PathType
    BY <2>1, LoadedFact
  <2>3. documents = [i \in 1..n |-> Loaded(i)]
    BY <2>1
  <2> QED BY <2>2, <2>3
<1>2. _documents' = documents /\ phase' = "build" /\ _job_specs' = BatchJobSpec(documents) /\ asked' = <<>>
  BY DEF load, Called
<1> HIDE DEF documents
<1>3. UniformBatch(BatchJobSpec(documents), <<>>) /\ <<>> \in Seq(TaskNames)
  BY <1>1, BatchFact
<1> QED BY <1>1, <1>2, <1>3, Between

LEMMA AskKeeps ==
  ASSUME IngestorInv, NEW t \in DocumentTypes \cup {"any"}, AskExtract(t) \/ embed \/ vdb_upload
  PROVE  IngestorInv'
<1>1. _documents \in Seq(PathType) /\ asked \in Seq(TaskNames) /\ UniformBatch(_job_specs, asked)
  BY DEF IngestorInv
<1>2. _documents' = _documents /\ phase' = "build"
  BY DEF AskExtract, embed, vdb_upload, Called
<1>3. CASE AskExtract(t)
  <2>1. _job_specs' = extract(_job_specs, t) /\ asked' = asked
    BY <1>3 DEF AskExtract
  <2>2. t \in AllTypes
    BY DEF AllTypes
  <2>3. UniformBatch(extract(_job_specs, t), asked)
    BY <1>1, <2>2, ExtractKeeps DEF UniformBatch, UniformOn
  <2> QED BY <1>1, <1>2, <2>1, <2>3, Between
<1>4. CASE embed
  <2> DEFINE task == [type |-> "embed"]
  <2>1. task \in TaskType /\ Plain(task) = <<"embed">> /\ "embed" \in TaskNames
    <3>1. "embed" \in TaskNames /\ task.type = "embed"
      BY DEF TaskNames
    <3>2. task \in TaskType
      BY <3>1, TaskFact
    <3> HIDE DEF task
    <3> QED BY <3>1, <3>2 DEF Plain
  <2>2. _job_specs' = add_task(_job_specs, task, "any") /\ asked' = Append(asked, "embed")
    BY <1>4 DEF embed
  <2> HIDE DEF task
  <2>3. UniformBatch(add_task(_job_specs, task, "any"), asked \o Plain(task))
    <3>1. "any" \in AllTypes
      BY DEF AllTypes
    <3> QED BY <3>1, <1>1, <2>1, AddKeeps DEF UniformBatch, UniformOn
  <2>4. asked \o <<"embed">> = Append(asked, "embed") /\ Append(asked, "embed") \in Seq(TaskNames)
    BY <1>1, <2>1
  <2> QED BY <1>1, <1>2, <2>1, <2>2, <2>3, <2>4, Between
<1>5. CASE vdb_upload
  <2>1. _job_specs' = _job_specs /\ asked' = asked
    BY <1>5 DEF vdb_upload
  <2> QED BY <1>1, <1>2, <2>1, Between
<1> QED BY <1>3, <1>4, <1>5

-----------------------------------------------------------------------------
(* ingest.                                                                 *)

\* The batch that is sent: with the tasks that it had, or with the default ones.
LEMMA PreparedFact ==
  ASSUME IngestorInv
  PROVE  UniformOn(Prepared, IF Prepared = _job_specs THEN asked ELSE DefaultTasks, BatchJobs)
<1>1. UniformOn(_job_specs, asked, BatchJobs)
  BY DEF IngestorInv, UniformBatch, BatchJobs, BatchSpecs
<1>2. CASE Prepared = _job_specs
  BY <1>1, <1>2
<1>3. CASE Prepared # _job_specs
  <2>1. Prepared = all_tasks(_job_specs) /\ \A k \in BatchJobs : BatchSpecs[k].tasks = <<>>
    BY <1>3 DEF Prepared
  <2>2. UniformOn(_job_specs, <<>>, BatchJobs)
    BY <1>1, <2>1, CommonEmpty DEF UniformOn, Uniform, BatchJobs, BatchSpecs
  <2>3. UniformOn(all_tasks(_job_specs), DefaultTasks, BatchJobs)
    BY <2>2, DefaultsFact
  <2> QED BY <1>3, <2>1, <2>3
<1> QED BY <1>2, <1>3

\* A step of ingest, which leaves the tasks of the batch as they are.
LEMMA Going ==
  ASSUME IngestorInv, _documents' = _documents, asked' \in Seq(TaskNames), NEW jobs,
         UniformOn(_job_specs', asked', jobs), phase' \in {"submit", "fetch", "returned", "raised"},
         phase' # "raised" => InRun'
  PROVE  IngestorInv'
<1>1. UniformBatch(_job_specs', asked')
  BY DEF UniformBatch, UniformOn
<1>2. UniformBatch(_job_specs, asked)'
  BY <1>1 DEF UniformBatch, UniformOn, Uniform, CommonOf, Plain
<1> QED BY <1>2 DEF IngestorInv

LEMMA IngestKeeps == ASSUME IngestorInv, ingest PROVE IngestorInv'
<1> DEFINE jobs == BatchJobs
           now == IF Prepared = _job_specs THEN asked ELSE DefaultTasks
<1>1. UniformOn(Prepared, now, jobs)
  BY PreparedFact
<1>2. /\ _job_specs' = Prepared /\ asked' = now /\ phase' = "submit" /\ _documents' = _documents
      /\ submission' = [k \in jobs |-> "no"] /\ fetched' = [k \in jobs |-> "asking"]
      /\ result' = {} /\ failure' = {}
  BY DEF ingest
<1>3. now \in Seq(TaskNames)
  <2>1. DefaultTasks \in Seq(TaskNames)
    BY DEF DefaultTasks, TaskNames
  <2> QED BY <2>1 DEF IngestorInv
<1> HIDE DEF now, jobs
<1>4. BatchJobs' = jobs
  BY <1>1, <1>2 DEF BatchJobs, BatchSpecs, UniformOn
<1>5. InRun'
  BY <1>2, <1>4 DEF InRun, SuccessWasSent, Collected
<1> QED BY <1>1, <1>2, <1>3, <1>5, Going

LEMMA RunFact ==
  ASSUME IngestorInv, phase \in {"submit", "fetch"}
  PROVE  UniformOn(_job_specs, asked, BatchJobs) /\ asked \in Seq(TaskNames) /\ InRun
BY DEF IngestorInv, UniformBatch, BatchJobs, BatchSpecs

LEMMA SubmitKeeps == ASSUME IngestorInv, NEW k \in BatchJobs, Submit(k) PROVE IngestorInv'
<1>1. phase = "submit" /\ phase' = "submit" /\ UNCHANGED <<_documents, asked, fetched, result, failure>>
  BY DEF Submit
<1>2. UniformOn(_job_specs, asked, BatchJobs) /\ asked \in Seq(TaskNames) /\ InRun
  BY <1>1, RunFact
<1> DEFINE b == _job_specs
           sent == [b EXCEPT !.specs[k].payload = FALSE]
<1>3. _job_specs' = sent \/ _job_specs' = b
  BY DEF Submit
<1>4. UniformOn(sent, asked, BatchJobs)
  <2> DEFINE s == b.specs
             t == [s EXCEPT ![k].payload = FALSE]
  <2>1. b \in BatchType /\ Uniform(s, asked) /\ DOMAIN s = BatchJobs
    BY <1>2 DEF UniformOn
  <2>2. s \in Seq(SpecType) /\ s[k] \in SpecType /\ k \in DOMAIN s
    BY <2>1, SpecsFact
  <2>3. sent = [b EXCEPT !.specs = t]
    BY <2>1 DEF BatchType
  <2> HIDE DEF b, s, sent
  <2> DEFINE e == [s[k] EXCEPT !.payload = FALSE]
  <2>4. e \in SpecType /\ e.of = s[k].of /\ e.tasks = s[k].tasks
    BY <2>2 DEF SpecType
  <2>5. t = [s EXCEPT ![k] = e]
    OBVIOUS
  <2> HIDE DEF e, t
  <2>6. t \in Seq(SpecType) /\ DOMAIN t = DOMAIN s
    BY <2>2, <2>4, <2>5, ExceptSeq, LenProperties
  <2>7. ASSUME NEW l \in DOMAIN s PROVE t[l].of = s[l].of /\ t[l].tasks = s[l].tasks
    BY <2>2, <2>4, <2>5
  <2>8. Uniform(t, asked)
    BY <2>1, <2>6, <2>7 DEF Uniform
  <2>9. sent \in BatchType /\ sent.specs = t
    BY <2>1, <2>3, <2>6 DEF BatchType
  <2> QED BY <2>1, <2>6, <2>8, <2>9 DEF UniformOn
<1> HIDE DEF sent, b
<1>5. UniformOn(_job_specs', asked', BatchJobs) /\ asked' \in Seq(TaskNames)
  BY <1>1, <1>2, <1>3, <1>4 DEF b
<1>6. BatchJobs' = BatchJobs
  BY <1>5 DEF UniformOn, BatchJobs, BatchSpecs
<1>7. DOMAIN submission' = DOMAIN submission
  BY DEF Submit
<1>8. InRun'
  BY <1>1, <1>2, <1>6, <1>7 DEF InRun, SuccessWasSent, Collected
<1> QED BY <1>1, <1>5, <1>8, Going

\* The other steps leave the batch alone.
LEMMA RunKeeps ==
  ASSUME IngestorInv, phase \in {"submit", "fetch"}, UNCHANGED <<_documents, _job_specs, asked>>,
         phase' \in {"submit", "fetch", "returned", "raised"},
         InRun /\ BatchJobs' = BatchJobs => phase' = "raised" \/ InRun'
  PROVE  IngestorInv'
<1>1. UniformOn(_job_specs, asked, BatchJobs) /\ asked \in Seq(TaskNames) /\ InRun
  BY RunFact
<1>2. BatchJobs' = BatchJobs
  BY DEF BatchJobs, BatchSpecs
<1> QED BY <1>1, <1>2, Going

LEMMA EndSubmissionKeeps == ASSUME IngestorInv, EndSubmission PROVE IngestorInv'
<1>1. /\ phase = "submit" /\ phase' \in {"fetch", "raised"}
      /\ UNCHANGED <<_documents, _job_specs, asked, submission, fetched, result, failure>>
  BY DEF EndSubmission, runVars
<1>2. InRun /\ BatchJobs' = BatchJobs => InRun'
  BY <1>1 DEF InRun, SuccessWasSent, Collected
<1> QED BY <1>1, <1>2, RunKeeps

LEMMA FetchKeeps == ASSUME IngestorInv, NEW k \in BatchJobs, Fetch(k) PROVE IngestorInv'
<1>1. /\ phase = "fetch" /\ phase' = "fetch" /\ fetched[k] = "asking"
      /\ UNCHANGED <<_documents, _job_specs, asked, submission, result, failure>>
  BY DEF Fetch
<1>2. PICK o \in {"asking", "success", "failed", "none"} :
        fetched' = [fetched EXCEPT ![k] = o] /\ (o = "success" => submission[k] = "sent")
  BY DEF Fetch, FetchAgain, FetchEnds
<1>3. InRun /\ BatchJobs' = BatchJobs => InRun'
  <2> SUFFICES ASSUME InRun, BatchJobs' = BatchJobs PROVE InRun'
    OBVIOUS
  <2>1. DOMAIN fetched' = BatchJobs /\ \A l \in BatchJobs : fetched'[l] = IF l = k THEN o ELSE fetched[l]
    BY <1>2 DEF InRun
  <2>2. SuccessWasSent'
    BY <2>1, <1>1, <1>2 DEF InRun, SuccessWasSent
  <2>3. k \notin result /\ k \notin failure
    BY <1>1 DEF InRun, Collected
  <2>4. Collected'
    BY <2>1, <2>3, <1>1 DEF InRun, Collected
  <2> QED BY <2>1, <2>2, <2>4, <1>1 DEF InRun
<1> QED BY <1>1, <1>3, RunKeeps

LEMMA CollectKeeps == ASSUME IngestorInv, NEW k \in BatchJobs, CollectJob(k) PROVE IngestorInv'
<1>1. /\ phase = "fetch" /\ phase' = "fetch" /\ fetched[k] # "asking" /\ k \notin result \cup failure
      /\ UNCHANGED <<_documents, _job_specs, asked, submission, fetched>>
      /\ \/ fetched[k] = "success" /\ result' = result \cup {k} /\ failure' = failure
         \/ fetched[k] # "success" /\ failure' = failure \cup {k} /\ result' = result
  BY DEF CollectJob
<1>2. InRun /\ BatchJobs' = BatchJobs => InRun'
  BY <1>1 DEF InRun, SuccessWasSent, Collected
<1> QED BY <1>1, <1>2, RunKeeps

LEMMA ReturnKeeps == ASSUME IngestorInv, ReturnResults PROVE IngestorInv'
<1>1. /\ phase = "fetch" /\ phase' \in {"returned", "raised"} /\ result \cup failure = BatchJobs
      /\ UNCHANGED <<_documents, _job_specs, asked, submission, fetched, result, failure>>
      /\ uploaded' \in {{}, result}
  BY DEF ReturnResults
<1>2. InRun /\ BatchJobs' = BatchJobs => InRun'
  BY <1>1 DEF InRun, SuccessWasSent, Collected
<1> QED BY <1>1, <1>2, RunKeeps

LEMMA IngestorStepInv == IngestorInv /\ [IngestorNext]_ingestorVars => IngestorInv'
<1> SUFFICES ASSUME IngestorInv, [IngestorNext]_ingestorVars PROVE IngestorInv'
  OBVIOUS
<1>1. CASE \E d \in CallersDocuments : files(d)
  BY <1>1, FilesKeeps
<1>2. CASE load
  BY <1>2, LoadKeeps
<1>3. CASE embed \/ vdb_upload
  BY <1>3, AskKeeps
<1>4. CASE \E t \in DocumentTypes \cup {"any"} : AskExtract(t)
  BY <1>4, AskKeeps
<1>5. CASE ingest
  BY <1>5, IngestKeeps
<1>6. CASE EndSubmission
  BY <1>6, EndSubmissionKeeps
<1>7. CASE ReturnResults
  BY <1>7, ReturnKeeps
<1>8. CASE \E k \in BatchJobs : Submit(k) \/ Fetch(k) \/ CollectJob(k)
  BY <1>8, SubmitKeeps, FetchKeeps, CollectKeeps
<1>9. CASE UNCHANGED ingestorVars
  <2>1. UNCHANGED <<_documents, _job_specs, asked, phase, submission, fetched, result, failure, uploaded>>
    BY <1>9 DEF ingestorVars
  <2>2. UniformBatch(_job_specs, asked)'
    BY <2>1 DEF IngestorInv, UniformBatch, UniformOn, Uniform, CommonOf, Plain
  <2>3. InRun => InRun'
    BY <2>1 DEF InRun, SuccessWasSent, Collected, BatchJobs, BatchSpecs
  <2> QED BY <2>1, <2>2, <2>3 DEF IngestorInv
<1> QED BY <1>1, <1>2, <1>3, <1>4, <1>5, <1>6, <1>7, <1>8, <1>9 DEF IngestorNext

LEMMA IngestorInvSafe == IngestorInv => EveryJobAnswered
<1> SUFFICES ASSUME IngestorInv, phase \in {"submit", "fetch", "returned"} PROVE EveryJobAnswered
  BY DEF EveryJobAnswered
<1>1. InRun /\ Uniform(BatchSpecs, asked)
  BY DEF IngestorInv, UniformBatch, UniformOn, BatchSpecs
<1>2. ASSUME NEW s PROVE Common(s) = CommonOf(s.tasks)
  BY DEF Common, CommonOf, Plain
<1>3. \A k \in BatchJobs : Common(BatchSpecs[k]) = asked
  BY <1>1, <1>2 DEF Uniform, BatchJobs
<1>4. \A k, l \in BatchJobs : BatchSpecs[k].of.document_type = BatchSpecs[l].of.document_type
                              => BatchSpecs[k].tasks = BatchSpecs[l].tasks
  BY <1>1 DEF Uniform, BatchJobs
<1>5. /\ result \cap failure = {} /\ \A k \in result : submission[k] = "sent" /\ fetched[k] = "success"
      /\ \A k \in failure : fetched[k] # "success"
  BY <1>1 DEF InRun, SuccessWasSent, Collected
<1>6. phase = "returned" => result \cup failure = BatchJobs /\ (uploaded # {} => uploaded = result)
  BY <1>1 DEF InRun
<1> QED BY <1>3, <1>4, <1>5, <1>6 DEF EveryJobAnswered

\* Every job that ingest sends carries the tasks that were asked for since the
\* specs were built, in their order, jobs of one type have the same tasks, and
\* each job is answered once, as a result exactly if it was sent by this very call
\* and a success was fetched (interface.py, Ingestor.ingest), whatever the
\* documents, the order of the calls and the errors of earlier ones.
THEOREM JobsAreAnswered == IngestorSpec => []EveryJobAnswered
<1>1. IngestorSpec => []IngestorInv
  BY IngestorInitInv, IngestorStepInv, PTL DEF IngestorSpec
<1> QED BY <1>1, IngestorInvSafe, PTL

=============================================================================
