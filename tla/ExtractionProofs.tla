--------------------------- MODULE ExtractionProofs ---------------------------
(***************************************************************************)
(* What is proved of the extraction of documents.  The lemmas at the start *)
(* are about sequences: what is in a flattened, filtered or sorted one,    *)
(* and when one lists the members of a set, each once.                     *)
(***************************************************************************)
EXTENDS PdfExtraction, TableLayout, OfficeExtraction, FiniteSetsExt, SequenceTheorems, FiniteSetTheorems, WellFoundedInduction, TLAPS

-----------------------------------------------------------------------------
(* Numbers and recursive functions of numbers.                             *)

LEMMA LeastNumber ==
  ASSUME NEW T, T \subseteq Nat, T # {}
  PROVE  \E x \in T : \A y \in T : x <= y
<1> DEFINE R == OpToRel(<, Nat)
<1>1. IsWellFoundedOn(R, Nat)
  BY NatLessThanWellFounded
<1> HIDE DEF R
<1>2. PICK x \in T : \A y \in T : ~ (<<y, x>> \in R)
  BY <1>1, WFMin
<1>3. \A y \in T : ~ (y < x)
  BY <1>2 DEF R, OpToRel
<1> QED
  BY <1>2, <1>3

LEMMA SetInduction ==
  ASSUME NEW S, 0 \in S, \A n \in Nat : n \in S => n + 1 \in S
  PROVE  \A n \in Nat : n \in S
<1> SUFFICES ASSUME Nat \ S # {} PROVE FALSE
  OBVIOUS
<1>1. PICK x \in Nat \ S : \A y \in Nat \ S : x <= y
  BY LeastNumber
<1>2. x # 0 /\ x - 1 \in Nat
  BY <1>1
<1>3. x - 1 \in S
  BY <1>1, <1>2
<1>4. x - 1 + 1 = x
  BY <1>1
<1> QED
  BY <1>1, <1>2, <1>3, <1>4

\* f is what a recursion over 0..n has for values.
Solves(f, base, rule, A, n) ==
  f \in [0..n -> A] /\ f[0] = base /\ \A k \in 1..n : f[k] = rule[k][f[k - 1]]
Steps(rule, A, n) == rule \in [1..n -> [A -> A]]

\* What a recursion over 0..n is given in steps, some function is.
LEMMA Recursion ==
  ASSUME NEW A, NEW base \in A, NEW n \in Nat, NEW rule, Steps(rule, A, n)
  PROVE  \E f : Solves(f, base, rule, A, n)
<1> USE DEF Steps
<1> DEFINE Solved(m) == \E f \in [0..m -> A] : f[0] = base /\ \A k \in 1..m : f[k] = rule[k][f[k - 1]]
           S == {m \in Nat : m <= n => Solved(m)}
<1>1. 0 \in S
  <2> DEFINE f == [k \in 0..0 |-> base]
  <2>1. f \in [0..0 -> A] /\ f[0] = base /\ \A k \in 1..0 : f[k] = rule[k][f[k - 1]]
    OBVIOUS
  <2> QED BY <2>1
<1>2. ASSUME NEW m \in Nat, m \in S PROVE m + 1 \in S
  <2> SUFFICES ASSUME m + 1 <= n PROVE Solved(m + 1)
    OBVIOUS
  <2>1. PICK f \in [0..m -> A] : f[0] = base /\ \A k \in 1..m : f[k] = rule[k][f[k - 1]]
    BY <1>2
  <2> DEFINE g == [k \in 0..(m + 1) |-> IF k = m + 1 THEN rule[m + 1][f[m]] ELSE f[k]]
  <2>2. m \in 0..m /\ m + 1 \in 1..n /\ 0 \in 0..m
    OBVIOUS
  <2>3. rule[m + 1][f[m]] \in A
    BY <2>1, <2>2
  <2>4. \A k \in 0..(m + 1) : k = m + 1 \/ k \in 0..m
    OBVIOUS
  <2>5. g \in [0..(m + 1) -> A]
    BY <2>1, <2>3, <2>4
  <2>6. \A k \in 0..m : k # m + 1 /\ k \in 0..(m + 1)
    OBVIOUS
  <2>7. g[m + 1] = rule[m + 1][f[m]] /\ \A k \in 0..m : g[k] = f[k]
    BY <2>6
  <2>8. \A k \in 1..(m + 1) : g[k] = rule[k][g[k - 1]]
    <3> SUFFICES ASSUME NEW k \in 1..(m + 1) PROVE g[k] = rule[k][g[k - 1]]
      OBVIOUS
    <3> HIDE DEF g
    <3>1. CASE k = m + 1
      <4>1. k - 1 = m
        BY <3>1
      <4> QED BY <3>1, <4>1, <2>2, <2>7
    <3>2. CASE k # m + 1
      <4>1. k \in 1..m /\ k - 1 \in 0..m /\ k \in 0..m
        BY <3>2
      <4> QED BY <4>1, <2>1, <2>7
    <3> QED BY <3>1, <3>2
  <2>9. g[0] = base
    BY <2>1, <2>2, <2>7
  <2> QED BY <2>5, <2>8, <2>9
<1> HIDE DEF S
<1>3. n \in S
  BY <1>1, <1>2, SetInduction
<1> QED BY <1>3 DEF S, Solves

-----------------------------------------------------------------------------
(* Flattened sequences.                                                    *)

\* flatten, as FlattenSeq uses it.
Flattening(f, seqs) ==
  f = [i \in 1..Len(seqs) |-> IF i = 1 THEN seqs[i] ELSE f[i - 1] \o seqs[i]]

LEMMA FlatteningExists ==
  ASSUME NEW T, NEW seqs \in Seq(Seq(T)), Len(seqs) # 0
  PROVE  \E f : Flattening(f, seqs) /\ \A i \in 1..Len(seqs) : f[i] \in Seq(T)
<1> DEFINE A == Seq(T)
<1>1. PICK n \in Nat : n = Len(seqs)
  BY LenProperties
<1>2. \A k \in 1..n : seqs[k] \in A
  BY <1>1, ElementOfSeq
<1> DEFINE rule == [k \in 1..n |-> [x \in A |-> IF k = 1 THEN seqs[k] ELSE x \o seqs[k]]]
<1>3. Steps(rule, A, n)
  <2> USE DEF Steps
  <2> SUFFICES ASSUME NEW k \in 1..n, NEW x \in A PROVE (IF k = 1 THEN seqs[k] ELSE x \o seqs[k]) \in A
    OBVIOUS
  <2> QED BY <1>2, ConcatProperties
<1>4. \A k \in 1..n, x \in A : rule[k][x] = IF k = 1 THEN seqs[k] ELSE x \o seqs[k]
  OBVIOUS
<1> DEFINE base == <<>>
<1>5. base \in A
  BY EmptySeq
<1> HIDE DEF rule, A, base
<1>6. PICK g : Solves(g, base, rule, A, n)
  BY <1>3, <1>5, Recursion
<1> DEFINE f == [i \in 1..n |-> g[i]]
           h == [i \in 1..n |-> IF i = 1 THEN seqs[i] ELSE f[i - 1] \o seqs[i]]
<1>7. ASSUME NEW k \in 1..n PROVE f[k] = h[k]
  <2>1. k - 1 \in 0..n /\ (k # 1 => k - 1 \in 1..n)
    OBVIOUS
  <2>2. g[k] = IF k = 1 THEN seqs[k] ELSE g[k - 1] \o seqs[k]
    <3>1. g[k - 1] \in A /\ g[k] = rule[k][g[k - 1]]
      BY <2>1, <1>6 DEF Solves
    <3> QED BY <3>1, <1>4
  <2> QED BY <2>1, <2>2
<1>8. f = h
  BY <1>7
<1>9. Flattening(f, seqs)
  BY <1>1, <1>8 DEF Flattening
<1>10. \A k \in 1..n : k \in 0..n
  OBVIOUS
<1>11. \A k \in 1..n : f[k] \in Seq(T)
  BY <1>6, <1>10 DEF Solves, A
<1> QED BY <1>1, <1>9, <1>11

\* Two flattenings agree on what their sequences have in common.
Begins(s, t) ==
  Len(s) \in Nat /\ Len(t) \in Nat /\ Len(s) <= Len(t) /\ \A i \in 1..Len(s) : s[i] = t[i]
Agree(f, g, s) == \A i \in 1..Len(s) : f[i] = g[i]

LEMMA FlatteningsAgree ==
  ASSUME NEW s, NEW t, NEW f, NEW g, Flattening(f, s), Flattening(g, t), Begins(s, t)
  PROVE  Agree(f, g, s)
<1> USE DEF Begins
<1> DEFINE S == {i \in Nat : i + 1 \in 1..Len(s) => f[i + 1] = g[i + 1]}
<1>1. 0 \in S
  <2> SUFFICES ASSUME 1 \in 1..Len(s) PROVE f[1] = g[1]
    OBVIOUS
  <2>1. 1 \in 1..Len(t)
    OBVIOUS
  <2> QED BY <2>1 DEF Flattening
<1>2. ASSUME NEW i \in Nat, i \in S PROVE i + 1 \in S
  <2> DEFINE k == i + 2
  <2> SUFFICES ASSUME k \in 1..Len(s) PROVE f[k] = g[k]
    OBVIOUS
  <2>1. k \in 1..Len(t) /\ k # 1 /\ k - 1 = i + 1 /\ i + 1 \in 1..Len(s)
    OBVIOUS
  <2>2. f[i + 1] = g[i + 1]
    BY <1>2, <2>1
  <2>3. f[k] = f[i + 1] \o s[k] /\ g[k] = g[i + 1] \o t[k]
    <3> HIDE DEF k
    <3> QED BY <2>1 DEF Flattening
  <2> QED BY <2>2, <2>3
<1> HIDE DEF S
<1>3. \A i \in Nat : i \in S
  BY <1>1, <1>2, SetInduction
<1>4. ASSUME NEW i \in 1..Len(s) PROVE f[i] = g[i]
  <2>1. i - 1 \in Nat /\ (i - 1) + 1 = i
    OBVIOUS
  <2>2. i - 1 \in S
    BY <1>3, <2>1
  <2> QED BY <2>1, <2>2 DEF S
<1> QED BY <1>4 DEF Agree

LEMMA FlattenIs ==
  ASSUME NEW T, NEW seqs \in Seq(Seq(T)), NEW f, Flattening(f, seqs), Len(seqs) # 0
  PROVE  FlattenSeq(seqs) = f[Len(seqs)]
<1> DEFINE g == CHOOSE g : Flattening(g, seqs)
<1>1. Flattening(g, seqs)
  OBVIOUS
<1>2. FlattenSeq(seqs) = g[Len(seqs)]
  BY DEF FlattenSeq, Flattening
<1> HIDE DEF g
<1>3. Len(seqs) \in Nat /\ Len(seqs) \in 1..Len(seqs)
  BY LenProperties
<1>4. Begins(seqs, seqs)
  BY <1>3 DEF Begins
<1>5. Agree(g, f, seqs)
  BY <1>1, <1>4, FlatteningsAgree
<1> QED BY <1>2, <1>3, <1>5 DEF Agree

LEMMA FlattenEmpty == FlattenSeq(<<>>) = <<>>
<1>1. Len(<<>>) = 0
  BY EmptySeq
<1> QED BY <1>1 DEF FlattenSeq

LEMMA FlattenAppend ==
  ASSUME NEW T, NEW seqs \in Seq(Seq(T)), NEW s \in Seq(T), FlattenSeq(seqs) \in Seq(T)
  PROVE  FlattenSeq(Append(seqs, s)) = FlattenSeq(seqs) \o s
<1> DEFINE more == Append(seqs, s)
<1>1. PICK n \in Nat : n = Len(seqs)
  BY LenProperties
<1>2. more \in Seq(Seq(T)) /\ Len(more) = n + 1 /\ (\A i \in 1..n : more[i] = seqs[i]) /\ more[n + 1] = s
  BY <1>1, AppendProperties
<1> HIDE DEF more
<1>3. PICK g : Flattening(g, more)
  BY <1>2, FlatteningExists
<1>4. FlattenSeq(more) = g[n + 1]
  BY <1>2, <1>3, FlattenIs
<1>5. CASE n = 0
  <2>1. seqs = <<>>
    BY <1>1, <1>5, EmptySeq
  <2>2. FlattenSeq(seqs) = <<>>
    BY <2>1, FlattenEmpty
  <2>3. g[1] = s
    BY <1>2, <1>3, <1>5 DEF Flattening
  <2>4. <<>> \o s = s
    OBVIOUS
  <2> QED BY <2>2, <2>3, <2>4, <1>4, <1>5 DEF more
<1>6. CASE n # 0
  <2>1. PICK f : Flattening(f, seqs)
    BY <1>1, <1>6, FlatteningExists
  <2>2. FlattenSeq(seqs) = f[n]
    BY <2>1, <1>1, <1>6, FlattenIs
  <2>3. n \in 1..n /\ n + 1 \in 1..(n + 1) /\ n + 1 # 1 /\ (n + 1) - 1 = n
    BY <1>6
  <2>4. f[n] = g[n]
    <3>1. Begins(seqs, more)
      BY <1>1, <1>2 DEF Begins
    <3>2. Agree(f, g, seqs)
      BY <3>1, <2>1, <1>3, FlatteningsAgree
    <3> QED BY <3>2, <2>3, <1>1 DEF Agree
  <2>5. g[n + 1] = g[n] \o s
    BY <2>3, <1>2, <1>3 DEF Flattening
  <2> QED BY <2>2, <2>4, <2>5, <1>4 DEF more
<1> QED BY <1>5, <1>6

LEMMA FlattenTyped ==
  ASSUME NEW T, NEW seqs \in Seq(Seq(T))
  PROVE  FlattenSeq(seqs) \in Seq(T)
<1>1. PICK n \in Nat : n = Len(seqs)
  BY LenProperties
<1>2. CASE n = 0
  <2>1. seqs = <<>>
    BY <1>1, <1>2, EmptySeq
  <2>2. <<>> \in Seq(T)
    OBVIOUS
  <2> QED BY <2>1, <2>2, FlattenEmpty
<1>3. CASE n # 0
  <2>1. Len(seqs) # 0
    BY <1>1, <1>3
  <2>2. PICK f : Flattening(f, seqs) /\ \A i \in 1..Len(seqs) : f[i] \in Seq(T)
    BY <2>1, FlatteningExists
  <2>3. FlattenSeq(seqs) = f[Len(seqs)]
    BY <2>1, <2>2, FlattenIs
  <2>4. Len(seqs) \in 1..Len(seqs)
    BY <1>1, <1>3
  <2> QED BY <2>2, <2>3, <2>4
<1> QED BY <1>2, <1>3

-----------------------------------------------------------------------------
(* Places counted and sorted.                                              *)

LEMMA CountToN ==
  ASSUME NEW n \in Nat
  PROVE  IsFiniteSet(1..n) /\ Cardinality(1..n) = n
<1>1. 1 \in Int /\ n \in Int
  OBVIOUS
<1> QED BY <1>1, FS_Interval

\* As many numbers below n have a place as there are places for them.
LEMMA EveryRankIsTaken ==
  ASSUME NEW n \in Nat, NEW f \in [1..n -> 0..(n - 1)],
         \A i \in 1..n, k \in 1..n : f[i] = f[k] => i = k
  PROVE  \A m \in 0..(n - 1) : \E i \in 1..n : f[i] = m
<1>1. IsFiniteSet(1..n) /\ Cardinality(1..n) = n
  BY CountToN
<1>2. IsFiniteSet(0..(n - 1)) /\ Cardinality(0..(n - 1)) = n
  <2>1. 0 \in Int /\ n - 1 \in Int
    OBVIOUS
  <2>2. IsFiniteSet(0..(n - 1)) /\ Cardinality(0..(n - 1)) = IF 0 > n - 1 THEN 0 ELSE (n - 1) - 0 + 1
    BY <2>1, FS_Interval
  <2>3. (IF 0 > n - 1 THEN 0 ELSE (n - 1) - 0 + 1) = n
    OBVIOUS
  <2> QED BY <2>2, <2>3
<1> DEFINE S == 1..n
           T == 0..(n - 1)
<1>3. f \in Injection(S, T)
  BY DEF Injection, IsInjective
<1>4. IsFiniteSet(T) /\ Cardinality(S) = Cardinality(T)
  BY <1>1, <1>2
<1> HIDE DEF S, T
<1>5. f \in Surjection(S, T)
  BY <1>3, <1>4, FS_Injection
<1> QED BY <1>5 DEF Surjection, S, T

\* The places that come before i when places are sorted by their keys, those of
\* equal keys as they stand.
Earlier(key, i) == {k \in DOMAIN key : key[k] < key[i] \/ (key[k] = key[i] /\ k < i)}

LEMMA RankFact ==
  ASSUME NEW n \in Nat, NEW key \in [1..n -> Int]
  PROVE  \A m \in 1..n : \E i \in 1..n : Cardinality(Earlier(key, i)) = m - 1
<1> DEFINE rank == [i \in 1..n |-> Cardinality(Earlier(key, i))]
<1>1. IsFiniteSet(1..n) /\ Cardinality(1..n) = n
  BY CountToN
<1>2. ASSUME NEW i \in 1..n
      PROVE  IsFiniteSet(Earlier(key, i)) /\ Cardinality(Earlier(key, i)) \in 0..(n - 1)
  <2>1. Earlier(key, i) \subseteq 1..n /\ i \notin Earlier(key, i)
    BY DEF Earlier
  <2>2. IsFiniteSet(Earlier(key, i)) /\ Cardinality(Earlier(key, i)) <= n
    BY <2>1, <1>1, FS_Subset
  <2>3. Cardinality(Earlier(key, i)) # n
    BY <2>1, <1>1, FS_Subset
  <2>4. Cardinality(Earlier(key, i)) \in Nat
    BY <2>2, FS_CardinalityType
  <2> QED BY <2>2, <2>3, <2>4
<1>3. ASSUME NEW i \in 1..n, NEW k \in 1..n, i \in Earlier(key, k)
      PROVE  Cardinality(Earlier(key, i)) # Cardinality(Earlier(key, k))
  <2>1. Earlier(key, i) \subseteq Earlier(key, k)
    BY <1>3 DEF Earlier
  <2>2. i \notin Earlier(key, i)
    BY DEF Earlier
  <2> QED BY <2>1, <2>2, <1>2, <1>3, FS_Subset
<1>4. \A i \in 1..n, k \in 1..n : rank[i] = rank[k] => i = k
  <2> SUFFICES ASSUME NEW i \in 1..n, NEW k \in 1..n, i # k PROVE rank[i] # rank[k]
    OBVIOUS
  <2>1. i \in Earlier(key, k) \/ k \in Earlier(key, i)
    BY DEF Earlier
  <2> QED BY <2>1, <1>3
<1>5. rank \in [1..n -> 0..(n - 1)]
  BY <1>2
<1>6. \A i \in 1..n : rank[i] = Cardinality(Earlier(key, i))
  OBVIOUS
<1> HIDE DEF rank
<1>7. \A m \in 0..(n - 1) : \E i \in 1..n : rank[i] = m
  BY <1>4, <1>5, EveryRankIsTaken
<1>8. \A m \in 1..n : m - 1 \in 0..(n - 1)
  OBVIOUS
<1> QED BY <1>6, <1>7, <1>8

-----------------------------------------------------------------------------
(* Sequences: parts and joins.                                             *)

\* A function on the first numbers is a sequence.
LEMMA FunctionIsSeq ==
  ASSUME NEW U, NEW n \in Nat, NEW f, f = [i \in 1 .. n |-> f[i]], \A i \in 1 .. n : f[i] \in U
  PROVE  f \in Seq(U) /\ Len(f) = n /\ DOMAIN f = 1 .. n
<1>1. f \in [1 .. n -> U]
  OBVIOUS
<1>2. f \in Seq(U)
  BY <1>1, SeqDef
<1> QED BY <1>1, <1>2, LenProperties

\* The elements of two sequences put together.
LEMMA JoinFact ==
  ASSUME NEW T, NEW a \in Seq(T), NEW b \in Seq(T)
  PROVE  /\ a \o b \in Seq(T) /\ Len(a \o b) = Len(a) + Len(b)
         /\ DOMAIN (a \o b) = 1 .. (Len(a) + Len(b))
         /\ \A k \in DOMAIN a : k \in DOMAIN (a \o b) /\ (a \o b)[k] = a[k]
         /\ \A k \in DOMAIN b : Len(a) + k \in DOMAIN (a \o b) /\ (a \o b)[Len(a) + k] = b[k]
         /\ \A k \in DOMAIN (a \o b) : k \in DOMAIN a \/ (k - Len(a) \in DOMAIN b /\ (a \o b)[k] = b[k - Len(a)])
<1>1. a \o b \in Seq(T) /\ Len(a \o b) = Len(a) + Len(b)
  BY ConcatProperties
<1>2. \A i \in 1 .. (Len(a) + Len(b)) : (a \o b)[i] = IF i <= Len(a) THEN a[i] ELSE b[i - Len(a)]
  BY ConcatProperties
<1>3. Len(a) \in Nat /\ Len(b) \in Nat /\ DOMAIN a = 1 .. Len(a) /\ DOMAIN b = 1 .. Len(b)
  BY LenProperties
<1>4. DOMAIN (a \o b) = 1 .. (Len(a) + Len(b))
  BY <1>1, LenProperties
<1> DEFINE c == a \o b
<1> HIDE DEF c
<1>5. \A k \in DOMAIN a : k \in DOMAIN c /\ c[k] = a[k]
  BY <1>2, <1>3, <1>4 DEF c
<1>6. \A k \in DOMAIN b : Len(a) + k \in DOMAIN c /\ c[Len(a) + k] = b[k]
  BY <1>2, <1>3, <1>4 DEF c
<1>7. \A k \in DOMAIN c : k \in DOMAIN a \/ (k - Len(a) \in DOMAIN b /\ c[k] = b[k - Len(a)])
  BY <1>2, <1>3, <1>4 DEF c
<1> QED BY <1>1, <1>4, <1>5, <1>6, <1>7 DEF c

\* Min is the least of a set of numbers.
LEMMA MinFact ==
  ASSUME NEW T, T \subseteq Nat, T # {}
  PROVE  Min(T) \in T /\ \A y \in T : Min(T) <= y
<1>1. \E x \in T : \A y \in T : x <= y
  BY LeastNumber
<1> QED BY <1>1 DEF Min

\* The first m elements of a sequence.
Prefix(s, m) == [i \in 1..m |-> s[i]]

LEMMA PrefixFact ==
  ASSUME NEW T, NEW s \in Seq(T), NEW m \in Nat, m <= Len(s)
  PROVE  /\ Prefix(s, m) \in Seq(T) /\ Len(Prefix(s, m)) = m
         /\ \A i \in 1..m : Prefix(s, m)[i] = s[i]
         /\ m = Len(s) => Prefix(s, m) = s
         /\ m < Len(s) => Prefix(s, m + 1) = Append(Prefix(s, m), s[m + 1])
<1> DEFINE p == Prefix(s, m)
<1>1. Len(s) \in Nat /\ DOMAIN s = 1..Len(s) /\ \A i \in 1..Len(s) : s[i] \in T
  BY LenProperties, ElementOfSeq
<1>2. p = [i \in 1..m |-> s[i]] /\ \A i \in 1..m : i \in 1..Len(s)
  BY <1>1 DEF Prefix
<1>3. p = [i \in 1..m |-> p[i]] /\ \A i \in 1..m : p[i] = s[i] /\ p[i] \in T
  BY <1>1, <1>2
<1> HIDE DEF p
<1>4. p \in Seq(T) /\ Len(p) = m /\ DOMAIN p = 1..m
  BY <1>3, FunctionIsSeq
<1>5. ASSUME m = Len(s) PROVE p = s
  BY <1>1, <1>3, <1>4, <1>5, SeqEqual
<1>6. ASSUME m < Len(s) PROVE Prefix(s, m + 1) = Append(p, s[m + 1])
  <2> DEFINE a == Append(p, s[m + 1])
             b == Prefix(s, m + 1)
  <2>1. s[m + 1] \in T /\ m + 1 \in Nat
    BY <1>1, <1>6
  <2>2. a \in Seq(T) /\ Len(a) = m + 1 /\ (\A i \in 1..m : a[i] = p[i]) /\ a[m + 1] = s[m + 1]
    BY <2>1, <1>4, AppendProperties
  <2>3. b = [i \in 1..(m + 1) |-> s[i]] /\ \A i \in 1..(m + 1) : i \in 1..Len(s) /\ s[i] \in T
    BY <1>1, <1>6 DEF Prefix
  <2>4. b = [i \in 1..(m + 1) |-> b[i]] /\ \A i \in 1..(m + 1) : b[i] = s[i] /\ b[i] \in T
    BY <2>3
  <2> HIDE DEF a, b
  <2>5. b \in Seq(T) /\ Len(b) = m + 1
    BY <2>1, <2>4, FunctionIsSeq
  <2>6. \A i \in 1..(m + 1) : i \in 1..m \/ i = m + 1
    OBVIOUS
  <2>7. \A i \in 1..(m + 1) : b[i] = a[i]
    BY <2>2, <2>4, <2>6, <1>3
  <2>8. a = b
    BY <2>2, <2>5, <2>7, SeqEqual
  <2> QED BY <2>8 DEF a, b
<1> QED BY <1>3, <1>4, <1>5, <1>6 DEF p

\* What holds of nothing, and goes on holding as the sequences are put together
\* one by one, holds of the flattened sequence.
LEMMA FlattenInduction ==
  ASSUME NEW T, NEW seqs \in Seq(Seq(T)), NEW G, <<>> \in G[0],
         \A m \in 0..(Len(seqs) - 1) : \A x \in Seq(T) : x \in G[m] => x \o seqs[m + 1] \in G[m + 1]
  PROVE  FlattenSeq(seqs) \in G[Len(seqs)]
<1> DEFINE n == Len(seqs)
           P(m) == FlattenSeq(Prefix(seqs, m)) \in G[m]
           S == {m \in Nat : m <= n => P(m)}
<1>1. n \in Nat
  BY LenProperties
<1>2. 0 \in S
  <2>1. Prefix(seqs, 0) = <<>>
    BY PrefixFact, EmptySeq, <1>1
  <2> QED BY <2>1, FlattenEmpty
<1>3. ASSUME NEW m \in Nat, m \in S PROVE m + 1 \in S
  <2> SUFFICES ASSUME m + 1 <= n PROVE P(m + 1)
    OBVIOUS
  <2>1. m <= n /\ m < n /\ m \in 0..(n - 1) /\ m + 1 \in 1..n
    BY <1>1
  <2>2. P(m)
    BY <1>3, <2>1
  <2> DEFINE p == Prefix(seqs, m)
  <2>3. p \in Seq(Seq(T)) /\ Prefix(seqs, m + 1) = Append(p, seqs[m + 1])
    BY <2>1, PrefixFact
  <2>4. seqs[m + 1] \in Seq(T)
    BY <2>1, ElementOfSeq
  <2> HIDE DEF p
  <2>5. FlattenSeq(p) \in Seq(T)
    BY <2>3, FlattenTyped
  <2>6. FlattenSeq(Append(p, seqs[m + 1])) = FlattenSeq(p) \o seqs[m + 1]
    BY <2>3, <2>4, <2>5, FlattenAppend
  <2>7. FlattenSeq(p) \o seqs[m + 1] \in G[m + 1]
    BY <2>1, <2>2, <2>5 DEF p
  <2> QED BY <2>3, <2>6, <2>7
<1> HIDE DEF S
<1>4. n \in S
  BY <1>1, <1>2, <1>3, SetInduction
<1>5. Prefix(seqs, n) = seqs
  BY <1>1, PrefixFact
<1> QED BY <1>1, <1>4, <1>5 DEF S

LEMMA FlattenJoin ==
  ASSUME NEW T, NEW a \in Seq(Seq(T)), NEW b \in Seq(Seq(T))
  PROVE  FlattenSeq(a \o b) = FlattenSeq(a) \o FlattenSeq(b)
<1> DEFINE n == Len(b)
           P(m) == FlattenSeq(a \o Prefix(b, m)) = FlattenSeq(a) \o FlattenSeq(Prefix(b, m))
           S == {m \in Nat : m <= n => P(m)}
<1>1. n \in Nat
  BY LenProperties
<1>a. FlattenSeq(a) \in Seq(T)
  BY FlattenTyped
<1>2. 0 \in S
  <2>1. Prefix(b, 0) = <<>>
    BY PrefixFact, EmptySeq, <1>1
  <2>2. a \o <<>> = a /\ FlattenSeq(a) \o <<>> = FlattenSeq(a)
    BY <1>a, ConcatEmptySeq
  <2> QED BY <2>1, <2>2, FlattenEmpty
<1>3. ASSUME NEW m \in Nat, m \in S PROVE m + 1 \in S
  <2> SUFFICES ASSUME m + 1 <= n PROVE P(m + 1)
    OBVIOUS
  <2>1. m <= n /\ m < n /\ m + 1 \in 1..n
    BY <1>1
  <2>2. P(m)
    BY <1>3, <2>1
  <2> DEFINE p == Prefix(b, m)
             x == b[m + 1]
  <2>3. p \in Seq(Seq(T)) /\ Prefix(b, m + 1) = Append(p, x)
    BY <2>1, PrefixFact
  <2>4. x \in Seq(T)
    BY <2>1, ElementOfSeq
  <2> HIDE DEF p, x
  <2>5. FlattenSeq(p) \in Seq(T) /\ FlattenSeq(Append(p, x)) = FlattenSeq(p) \o x
    BY <2>3, <2>4, FlattenTyped, FlattenAppend
  <2>6. a \o Append(p, x) = Append(a \o p, x) /\ a \o p \in Seq(Seq(T))
    <3>1. Append(p, x) = p \o <<x>> /\ <<x>> \in Seq(Seq(T))
      BY <2>3, <2>4, AppendIsConcat
    <3>2. a \o p \in Seq(Seq(T))
      BY <2>3, ConcatProperties
    <3>3. Append(a \o p, x) = (a \o p) \o <<x>>
      BY <3>2, <2>4, AppendIsConcat
    <3>4. (a \o p) \o <<x>> = a \o (p \o <<x>>)
      <4> DEFINE y == <<x>>
                 U == Seq(T)
      <4> HIDE DEF y, U
      <4>1. a \in Seq(U) /\ p \in Seq(U) /\ y \in Seq(U)
        BY <3>1, <2>3 DEF y, U
      <4>2. (a \o p) \o y = a \o (p \o y)
        BY <4>1, ConcatAssociative, SMTT(30)
      <4> QED BY <4>2 DEF y
    <3> QED BY <3>1, <3>2, <3>3, <3>4
  <2>7. FlattenSeq(a \o p) \in Seq(T)
    BY <2>6, FlattenTyped
  <2>8. FlattenSeq(Append(a \o p, x)) = FlattenSeq(a \o p) \o x
    BY <2>6, <2>7, <2>4, FlattenAppend
  <2>9. (FlattenSeq(a) \o FlattenSeq(p)) \o x = FlattenSeq(a) \o (FlattenSeq(p) \o x)
    <3> DEFINE fa == FlattenSeq(a)
               fp == FlattenSeq(p)
    <3>1. fa \in Seq(T) /\ fp \in Seq(T) /\ x \in Seq(T)
      BY <1>a, <2>5, <2>4
    <3> HIDE DEF fa, fp
    <3>2. (fa \o fp) \o x = fa \o (fp \o x)
      BY <3>1, ConcatAssociative, SMTT(30)
    <3> QED BY <3>2 DEF fa, fp
  <2>10. FlattenSeq(a \o p) = FlattenSeq(a) \o FlattenSeq(p)
    BY <2>2 DEF p
  <2> QED BY <2>3, <2>5, <2>6, <2>8, <2>9, <2>10
<1> HIDE DEF S
<1>4. n \in S
  BY <1>1, <1>2, <1>3, SetInduction
<1>5. Prefix(b, n) = b
  BY <1>1, PrefixFact
<1> QED BY <1>1, <1>4, <1>5 DEF S

LEMMA FlattenOne ==
  ASSUME NEW T, NEW s \in Seq(T)
  PROVE  FlattenSeq(<<s>>) = s
<1>1. <<>> \in Seq(Seq(T)) /\ <<>> \in Seq(T)
  BY EmptySeq
<1>2. FlattenSeq(<<>>) \in Seq(T)
  BY <1>1, FlattenEmpty
<1>3. FlattenSeq(Append(<<>>, s)) = FlattenSeq(<<>>) \o s
  BY <1>1, <1>2, FlattenAppend
<1>4. Append(<<>>, s) = <<s>>
  OBVIOUS
<1>5. <<>> \o s = s
  BY ConcatEmptySeq
<1> QED BY <1>3, <1>4, <1>5, FlattenEmpty

-----------------------------------------------------------------------------
(* Sequences that list a set: each of its members once.                    *)

Lists(s, S) ==
  /\ s \in Seq(S)
  /\ \A x \in S : \E k \in 1..Len(s) : s[k] = x
  /\ \A j, k \in 1..Len(s) : s[j] = s[k] => j = k

LEMMA ListsNothing == Lists(<<>>, {})
<1>1. <<>> \in Seq({}) /\ Len(<<>>) = 0
  BY EmptySeq
<1> QED BY <1>1 DEF Lists

LEMMA ListsOne ==
  ASSUME NEW x
  PROVE  Lists(<<x>>, {x})
<1>1. <<x>> \in Seq({x}) /\ Len(<<x>>) = 1 /\ <<x>>[1] = x
  OBVIOUS
<1> QED BY <1>1 DEF Lists

LEMMA ListsJoin ==
  ASSUME NEW a, NEW b, NEW A, NEW B, Lists(a, A), Lists(b, B), A \cap B = {}
  PROVE  Lists(a \o b, A \cup B)
<1> DEFINE T == A \cup B
           c == a \o b
<1>1. a \in Seq(A) /\ b \in Seq(B)
  BY DEF Lists
<1>2. a \in Seq(T) /\ b \in Seq(T)
  <2>1. A \subseteq T /\ B \subseteq T
    OBVIOUS
  <2> HIDE DEF T
  <2> QED BY <1>1, <2>1, SeqMonotonic
<1> HIDE DEF T
<1>3. /\ c \in Seq(T) /\ Len(c) = Len(a) + Len(b)
      /\ \A i \in 1..(Len(a) + Len(b)) : c[i] = IF i <= Len(a) THEN a[i] ELSE b[i - Len(a)]
      /\ Len(a) \in Nat /\ Len(b) \in Nat
  BY <1>2, ConcatProperties, LenProperties
<1> HIDE DEF c
<1>4. \A k \in 1..Len(a) : k \in 1..Len(c) /\ c[k] = a[k] /\ a[k] \in A
  BY <1>1, <1>3, ElementOfSeq
<1>5. \A k \in 1..Len(b) : Len(a) + k \in 1..Len(c) /\ c[Len(a) + k] = b[k] /\ b[k] \in B
  <2> SUFFICES ASSUME NEW k \in 1..Len(b)
               PROVE  Len(a) + k \in 1..Len(c) /\ c[Len(a) + k] = b[k] /\ b[k] \in B
    OBVIOUS
  <2>1. b[k] \in B
    BY <1>1, ElementOfSeq
  <2>2. Len(a) + k \in 1..Len(c) /\ Len(a) + k - Len(a) = k /\ ~(Len(a) + k <= Len(a))
    BY <1>3
  <2>3. c[Len(a) + k] = b[k]
    BY <1>3, <2>2
  <2> QED BY <2>1, <2>2, <2>3
<1>6. \A x \in T : \E k \in 1..Len(c) : c[k] = x
  <2> SUFFICES ASSUME NEW x \in T PROVE \E k \in 1..Len(c) : c[k] = x
    OBVIOUS
  <2>1. CASE x \in A
    BY <2>1, <1>4 DEF Lists
  <2>2. CASE x \in B
    BY <2>2, <1>5 DEF Lists
  <2> QED BY <2>1, <2>2 DEF T
<1>7. \A k \in 1..Len(c) : k \in 1..Len(a) \/ (k - Len(a) \in 1..Len(b) /\ k = Len(a) + (k - Len(a)))
  BY <1>3
<1>8. ASSUME NEW j \in 1..Len(c), NEW k \in 1..Len(c), c[j] = c[k] PROVE j = k
  <2>1. CASE j \in 1..Len(a) /\ k \in 1..Len(a)
    BY <2>1, <1>4, <1>8 DEF Lists
  <2>2. CASE j \in 1..Len(a) /\ k \notin 1..Len(a)
    <3>1. c[j] \in A /\ c[k] \in B
      BY <2>2, <1>4, <1>5, <1>7
    <3> QED BY <3>1, <1>8
  <2>3. CASE j \notin 1..Len(a) /\ k \in 1..Len(a)
    <3>1. c[k] \in A /\ c[j] \in B
      BY <2>3, <1>4, <1>5, <1>7
    <3> QED BY <3>1, <1>8
  <2>4. CASE j \notin 1..Len(a) /\ k \notin 1..Len(a)
    <3> DEFINE jj == j - Len(a)
               kk == k - Len(a)
    <3>1. jj \in 1..Len(b) /\ kk \in 1..Len(b) /\ j = Len(a) + jj /\ k = Len(a) + kk
      BY <2>4, <1>7
    <3> HIDE DEF jj, kk
    <3>2. c[j] = b[jj] /\ c[k] = b[kk]
      BY <3>1, <1>5
    <3>3. jj = kk
      <4>1. \A x, y \in 1..Len(b) : b[x] = b[y] => x = y
        BY DEF Lists
      <4>2. b[jj] = b[kk]
        BY <3>2, <1>8
      <4> QED BY <3>1, <4>1, <4>2
    <3> QED BY <3>1, <3>3
  <2> QED BY <2>1, <2>2, <2>3, <2>4
<1> QED BY <1>3, <1>6, <1>8 DEF Lists, T, c

LEMMA ListsFlatten ==
  ASSUME NEW seqs, NEW S, NEW n \in Nat, seqs = [i \in 1..n |-> seqs[i]],
         \A i \in 1..n : Lists(seqs[i], S[i]),
         \A i, j \in 1..n : i # j => S[i] \cap S[j] = {},
         NEW V, \A x : x \in V <=> \E i \in 1..n : x \in S[i]
  PROVE  Lists(FlattenSeq(seqs), V)
<1> DEFINE T == UNION {S[i] : i \in 1..n}
           U(m) == UNION {S[i] : i \in 1..m}
           G == [m \in 0..n |-> {x \in Seq(T) : Lists(x, U(m))}]
<1>1. \A i \in 1..n : seqs[i] \in Seq(T)
  <2> SUFFICES ASSUME NEW i \in 1..n PROVE seqs[i] \in Seq(T)
    OBVIOUS
  <2>1. seqs[i] \in Seq(S[i]) /\ S[i] \subseteq T
    BY DEF Lists
  <2> HIDE DEF T
  <2> QED BY <2>1, SeqMonotonic
<1> HIDE DEF T
<1>2. seqs \in Seq(Seq(T)) /\ Len(seqs) = n
  BY <1>1, FunctionIsSeq
<1>3. <<>> \in G[0]
  <2>1. U(0) = {} /\ 0 \in 0..n
    OBVIOUS
  <2>2. <<>> \in Seq(T)
    BY EmptySeq
  <2> QED BY <2>1, <2>2, ListsNothing
<1>4. ASSUME NEW m \in 0..(n - 1), NEW x \in Seq(T), x \in G[m] PROVE x \o seqs[m + 1] \in G[m + 1]
  <2>1. m \in 0..n /\ m + 1 \in 0..n /\ m + 1 \in 1..n
    OBVIOUS
  <2>2. Lists(x, U(m)) /\ Lists(seqs[m + 1], S[m + 1])
    BY <2>1, <1>4
  <2>3. U(m) \cap S[m + 1] = {}
    <3>1. \A i \in 1..m : i \in 1..n /\ i # m + 1
      OBVIOUS
    <3> QED BY <3>1, <2>1
  <2>4. U(m + 1) = U(m) \cup S[m + 1]
    <3>1. \A i : i \in 1..(m + 1) <=> i \in 1..m \/ i = m + 1
      OBVIOUS
    <3> QED BY <3>1
  <2> HIDE DEF U
  <2>5. Lists(x \o seqs[m + 1], U(m + 1))
    BY <2>2, <2>3, <2>4, ListsJoin
  <2>6. x \o seqs[m + 1] \in Seq(T)
    BY <2>1, <1>1, ConcatProperties
  <2> QED BY <2>1, <2>5, <2>6
<1> HIDE DEF G
<1>5. FlattenSeq(seqs) \in G[n]
  BY <1>2, <1>3, <1>4, FlattenInduction
<1>6. n \in 0..n /\ U(n) = T
  BY DEF T
<1>7. V = T
  BY DEF T
<1> HIDE DEF U
<1> QED BY <1>5, <1>6, <1>7 DEF G

LEMMA ListsCount ==
  ASSUME NEW s, NEW S, Lists(s, S)
  PROVE  IsFiniteSet(S) /\ Len(s) = Cardinality(S) /\ Len(s) \in Nat
<1>1. s \in Seq(S) /\ Len(s) \in Nat /\ DOMAIN s = 1..Len(s) /\ s \in [1..Len(s) -> S]
  BY LenProperties DEF Lists
<1> DEFINE n == Len(s)
<1>2. s \in Injection(1..n, S)
  BY <1>1 DEF Lists, Injection, IsInjective
<1>3. s \in Surjection(1..n, S)
  BY <1>1 DEF Lists, Surjection
<1>4. s \in Bijection(1..n, S)
  BY <1>2, <1>3 DEF Bijection
<1>5. IsFiniteSet(1..n) /\ Cardinality(1..n) = n
  BY <1>1, CountToN
<1>6. IsFiniteSet(S) /\ Cardinality(1..n) = Cardinality(S)
  <2> DEFINE N == 1..n
  <2>1. s \in Bijection(N, S) /\ IsFiniteSet(N)
    BY <1>4, <1>5
  <2> HIDE DEF N
  <2>2. IsFiniteSet(S) /\ Cardinality(N) = Cardinality(S)
    BY <2>1, FS_Bijection DEF ExistsBijection
  <2> QED BY <2>2 DEF N
<1> QED BY <1>1, <1>5, <1>6

\* A list of a set, each element made into something of its own.
LEMMA ListsMapped ==
  ASSUME NEW s, NEW S, NEW r, NEW f, Lists(s, S), r = [k \in 1..Len(s) |-> f[s[k]]],
         \A x, y \in S : f[x] = f[y] => x = y, NEW R, \A y : y \in R <=> \E x \in S : y = f[x]
  PROVE  Lists(r, R)
<1> DEFINE n == Len(s)
<1>1. s \in Seq(S) /\ n \in Nat /\ \A k \in 1..n : s[k] \in S
  BY LenProperties, ElementOfSeq DEF Lists
<1>2. r = [k \in 1..n |-> r[k]] /\ \A k \in 1..n : r[k] = f[s[k]] /\ r[k] \in R
  BY <1>1
<1>3. r \in Seq(R) /\ Len(r) = n
  BY <1>1, <1>2, FunctionIsSeq
<1>a. (\A x \in S : \E k \in 1..n : s[k] = x) /\ \A j, k \in 1..n : s[j] = s[k] => j = k
  BY DEF Lists
<1>b. \A k \in 1..n : r[k] = f[s[k]]
  BY <1>2
<1>4. \A x \in R : \E k \in 1..n : r[k] = x
  BY <1>a, <1>b
<1>5. \A j, k \in 1..n : r[j] = r[k] => j = k
  BY <1>a, <1>b, <1>1
<1> QED BY <1>3, <1>4, <1>5 DEF Lists

\* A list of a set without the members that are not in K.
LEMMA ListsSelect ==
  ASSUME NEW s, NEW S, Lists(s, S), NEW K, NEW seqs,
         seqs = [i \in 1..Len(s) |-> IF s[i] \in K THEN <<s[i]>> ELSE <<>>]
  PROVE  Lists(FlattenSeq(seqs), S \cap K)
<1> DEFINE n == Len(s)
           P == [i \in 1..n |-> IF s[i] \in K THEN {s[i]} ELSE {}]
<1>1. s \in Seq(S) /\ n \in Nat /\ \A i \in 1..n : s[i] \in S
  BY LenProperties, ElementOfSeq DEF Lists
<1>a. (\A x \in S : \E k \in 1..n : s[k] = x) /\ \A j, k \in 1..n : s[j] = s[k] => j = k
  BY DEF Lists
<1>2. \A i \in 1..n : seqs[i] = IF s[i] \in K THEN <<s[i]>> ELSE <<>>
  OBVIOUS
<1>3. \A i \in 1..n : P[i] = IF s[i] \in K THEN {s[i]} ELSE {}
  OBVIOUS
<1>4. seqs = [i \in 1..n |-> seqs[i]]
  OBVIOUS
<1> HIDE DEF P
<1>5. ASSUME NEW i \in 1..n PROVE Lists(seqs[i], P[i])
  <2>1. CASE s[i] \in K
    BY <2>1, <1>2, <1>3, ListsOne
  <2>2. CASE s[i] \notin K
    BY <2>2, <1>2, <1>3, ListsNothing
  <2> QED BY <2>1, <2>2
<1>6. \A i, j \in 1..n : i # j => P[i] \cap P[j] = {}
  <2> SUFFICES ASSUME NEW i \in 1..n, NEW j \in 1..n, NEW x, x \in P[i], x \in P[j] PROVE i = j
    OBVIOUS
  <2>1. s[i] = x /\ s[j] = x
    BY <1>3
  <2> QED BY <2>1, <1>a
<1> DEFINE V == S \cap K
<1>7. \A x : x \in V <=> \E i \in 1..n : x \in P[i]
  <2>1. ASSUME NEW x \in S \cap K PROVE \E i \in 1..n : x \in P[i]
    <3>1. PICK i \in 1..n : s[i] = x
      BY <1>a
    <3> QED BY <3>1, <1>3
  <2>2. \A i \in 1..n : P[i] \subseteq S \cap K
    BY <1>1, <1>3
  <2> QED BY <2>1, <2>2
<1>8. Lists(FlattenSeq(seqs), V)
  <2> HIDE DEF n, V
  <2>1. n \in Nat
    BY <1>1
  <2> QED BY ONLY <2>1, <1>4, <1>5, <1>6, <1>7, ListsFlatten
<1> QED BY <1>8 DEF V

\* A function that takes each value once lists its values.
LEMMA ListsFunction ==
  ASSUME NEW n \in Nat, NEW s, s = [i \in 1..n |-> s[i]], \A i, j \in 1..n : s[i] = s[j] => i = j
  PROVE  Lists(s, {s[i] : i \in 1..n}) /\ Len(s) = n
<1> DEFINE S == {s[i] : i \in 1..n}
<1>1. \A i \in 1..n : s[i] \in S
  OBVIOUS
<1>2. \A x \in S : \E i \in 1..n : s[i] = x
  OBVIOUS
<1> HIDE DEF S
<1>3. s \in Seq(S) /\ Len(s) = n
  BY <1>1, FunctionIsSeq
<1> QED BY <1>2, <1>3 DEF Lists, S

LEMMA ListsSet ==
  ASSUME NEW s, NEW S, Lists(s, S)
  PROVE  ToSet(s) = S /\ Len(s) \in Nat /\ DOMAIN s = 1..Len(s) /\ \A k \in 1..Len(s) : s[k] \in S
<1>1. s \in Seq(S) /\ Len(s) \in Nat /\ DOMAIN s = 1..Len(s) /\ \A k \in 1..Len(s) : s[k] \in S
  BY LenProperties, ElementOfSeq DEF Lists
<1>2. \A x \in S : \E k \in 1..Len(s) : s[k] = x
  BY DEF Lists
<1> QED BY <1>1, <1>2 DEF ToSet

LEMMA ListsTail ==
  ASSUME NEW s, NEW S, Lists(s, S), s # <<>>
  PROVE  /\ Head(s) \in S /\ Head(s) = s[1] /\ Lists(Tail(s), S \ {Head(s)}) /\ Len(Tail(s)) = Len(s) - 1 /\ Len(s) > 0
         /\ \A k \in 1..Len(Tail(s)) : Tail(s)[k] = s[k + 1]
<1> DEFINE t == Tail(s)
           x == Head(s)
<1>1. s \in Seq(S) /\ Len(s) \in Nat /\ (\A y \in S : \E k \in 1..Len(s) : s[k] = y)
      /\ \A j, k \in 1..Len(s) : s[j] = s[k] => j = k
  BY LenProperties DEF Lists
<1>2. /\ x \in S /\ x = s[1] /\ t \in Seq(S) /\ Len(t) = Len(s) - 1 /\ Len(s) > 0
      /\ \A k \in 1..Len(t) : t[k] = s[k + 1]
  <2>1. Len(s) # 0
    BY <1>1, EmptySeq
  <2> QED BY <1>1, <2>1, HeadTailProperties, ElementOfSeq
<1> HIDE DEF t, x
<1>3. \A k \in 1..Len(t) : k + 1 \in 1..Len(s) /\ k + 1 # 1
  BY <1>1, <1>2
<1>a. 1 \in 1..Len(s)
  BY <1>1, <1>2
<1>4. \A k \in 1..Len(t) : t[k] \in S \ {x}
  <2> SUFFICES ASSUME NEW k \in 1..Len(t) PROVE t[k] \in S /\ t[k] # x
    OBVIOUS
  <2>1. t[k] = s[k + 1] /\ s[k + 1] # s[1]
    BY <1>1, <1>2, <1>3, <1>a
  <2>2. t[k] \in S
    BY <1>2, ElementOfSeq
  <2> QED BY <2>1, <2>2, <1>2
<1>5. t \in Seq(S \ {x})
  <2>1. t = [k \in 1..Len(t) |-> t[k]] /\ Len(t) \in Nat
    BY <1>2, LenProperties
  <2> QED BY <1>4, <2>1, FunctionIsSeq
<1>6. \A y \in S \ {x} : \E k \in 1..Len(t) : t[k] = y
  <2> SUFFICES ASSUME NEW y \in S \ {x} PROVE \E k \in 1..Len(t) : t[k] = y
    OBVIOUS
  <2>1. PICK k \in 1..Len(s) : s[k] = y
    BY <1>1
  <2>2. k # 1
    BY <2>1, <1>2
  <2>3. k - 1 \in 1..Len(t) /\ (k - 1) + 1 = k
    BY <2>2, <1>1, <1>2
  <2> QED BY <2>1, <2>3, <1>2
<1>7. \A j, k \in 1..Len(t) : t[j] = t[k] => j = k
  <2> SUFFICES ASSUME NEW j \in 1..Len(t), NEW k \in 1..Len(t), t[j] = t[k] PROVE j = k
    OBVIOUS
  <2>1. s[j + 1] = s[k + 1] /\ j + 1 \in 1..Len(s) /\ k + 1 \in 1..Len(s)
    BY <1>2, <1>3
  <2>2. j + 1 = k + 1
    BY <1>1, <2>1
  <2>3. j \in Int /\ k \in Int
    OBVIOUS
  <2> QED BY <2>2, <2>3
<1>8. Lists(t, S \ {x})
  BY <1>5, <1>6, <1>7 DEF Lists
<1> QED BY <1>2, <1>8 DEF t, x

-----------------------------------------------------------------------------
(* PDF documents: what holds in every state of an extraction.              *)

\* What the calls given to the pool hold.  LooksForElements and the text of
\* nemoretriever-parse say which of the two models is asked at all.
On(model) == IF model = "yolox" THEN LooksForElements ELSE pdf.method # "pdfium" /\ pdf.text
Answer(p) == [page |-> p, blocks |-> pdf.pages[p].blocks]
Items(model, pages) ==
  IF model = "yolox" THEN _extract_page_elements(pages) ELSE _extract_text_and_bounding_boxes(pages)

Models == {"yolox", "parser"}
Waits(model) == IF model = "yolox" THEN pages_for_tables ELSE pages_for_ocr
Given(fs, model) == UNION {ToSet(fs[i].pages) : i \in {i \in 1..Len(fs) : fs[i].model = model}}
Gathered(fs, model) ==
  UNION {ToSet(fs[i].pages) : i \in {i \in 1..Len(fs) : fs[i].model = model /\ fs[i].at = "gathered"}}

\* A call is one of its model, with pages of the document, each once.
IsCall(f) ==
  /\ f = [model |-> f.model, pages |-> f.pages, at |-> f.at, items |-> f.items]
  /\ f.model \in Models /\ On(f.model)
  /\ Lists(f.pages, ToSet(f.pages)) /\ ToSet(f.pages) \subseteq 1..PageCount
  /\ f.at \in {"submitted", "running", "ended", "raised", "gathered"}
  /\ f.at = "ended" => f.items = Items(f.model, f.pages)
CallsInv(fs) ==
  /\ Len(fs) \in Nat /\ fs = [i \in 1..Len(fs) |-> fs[i]] /\ \A i \in 1..Len(fs) : IsCall(fs[i])
  /\ \A i, j \in 1..Len(fs) : i # j /\ fs[i].model = fs[j].model => ToSet(fs[i].pages) \cap ToSet(fs[j].pages) = {}

\* Of the pages up to n each is in one of the model's calls or in its list.
Shared(fs, model, list, n) ==
  /\ Lists(list, ToSet(list)) /\ ToSet(list) \cap Given(fs, model) = {}
  /\ ToSet(list) \cup Given(fs, model) = 1..n

OneBatch == pdf.method = "pdfium" \/ PageCount <= NEMORETRIEVER_PARSE_MAX_BATCH_SIZE
AllPages == [k \in 1..PageCount |-> k]

\* A document of one batch is given to nemoretriever-parse as a whole.
InOneCall(fs, list, n) ==
  PageCount <= NEMORETRIEVER_PARSE_MAX_BATCH_SIZE =>
    /\ \A i \in 1..Len(fs) : fs[i].model = "parser" => fs[i].pages = AllPages
    /\ \A k \in 1..Len(list) : list[k] = k
    /\ n < PageCount \/ list # <<>> => Len(list) = n

ListsInv ==
  /\ \A m \in Models : IF On(m) THEN Shared(futures, m, Waits(m), page_idx - 1) ELSE Waits(m) \in Seq(Nat) /\ Len(Waits(m)) < page_idx
  /\ On("parser") => InOneCall(futures, pages_for_ocr, page_idx - 1)
  /\ pdf.method = "pdfium" => pages_for_ocr = <<>>
  /\ stage # "pages" => page_idx = PageCount + 1 /\ \A m \in Models : On(m) => Waits(m) = <<>>

\* What nemoretriever-parse has answered and is not yet assembled.
Waiting == {parser_results[k].page : k \in 1..Len(parser_results)}
ResultsInv ==
  /\ Lists(parser_results, {Answer(p) : p \in Waiting})
  /\ Waiting \subseteq Gathered(futures, "parser")
  /\ stage \in {"pages", "gather"} => Waiting = Gathered(futures, "parser")
  /\ stage = "pages" => \A m \in Models : Gathered(futures, m) = {}
  /\ stage \in {"assemble", "done"} => \A i \in 1..Len(futures) : futures[i].at = "gathered"
  /\ stage = "done" => parser_results = <<>>
  /\ PageCount <= NEMORETRIEVER_PARSE_MAX_BATCH_SIZE =>
       \A k \in 1..Len(parser_results) : parser_results[k].page = PageCount - Len(parser_results) + k

\* The rows and the text of the pages in T.
ElementRowsOn(T) == {ElementRow(e) : e \in OnPages(T, ElementsOn)}
ImageRowsOn(T) == {ImageRow(e) : e \in OnPages(T, ImagesOn)}
TextRowsOn(T) == {TextRow(p, TextOf(p)) : p \in T}
TextOn(T) == UNION {ToSet(TextOf(p)) : p \in T}

\* The pages of which the rows are made, but for those a NIM finds elements on.
Assembled ==
  IF pdf.method = "pdfium" THEN 1..(page_idx - 1) ELSE Gathered(futures, "parser") \ Waiting
ElementPages == IF pdf.method = "parse" THEN Assembled ELSE Gathered(futures, "yolox")
TextPages == IF pdf.method = "pdfium" /\ ~pdf.text THEN {} ELSE Assembled

Unbroken(s, t) == Len(t) <= Len(s) /\ \E i \in 0..(Len(s) - Len(t)) : \A k \in 1..Len(t) : s[i + k] = t[k]

\* The text of the pages in T, in one row each or in one accumulated text.
TextRowsInv(texts, T) ==
  /\ Lists(texts, TextRowsOn(T))
  /\ OneBatch => \A k \in 1..Len(texts) : texts[k].page = k
TextAccumulated(acc, T) ==
  /\ Lists(acc, TextOn(T)) /\ \A p \in T : Unbroken(acc, TextOf(p))
  /\ OneBatch => \A n \in Nat : T = 1..n => acc = FlattenSeq([p \in 1..n |-> TextOf(p)])
TextInv ==
  /\ OneBatch => \E n \in Nat : TextPages = 1..n
  /\ IF pdf.depth = "page" THEN accumulated_pages = <<>> /\ TextRowsInv(OfKind("text"), TextPages)
     ELSE /\ TextAccumulated(accumulated_pages, TextPages)
          /\ OfKind("text") =
               IF stage = "done" /\ pdf.text
                  /\ IF pdf.method = "pdfium" THEN accumulated_pages # <<>> ELSE pdf.depth = "document"
               THEN <<TextRow(-1, accumulated_pages)>> ELSE <<>>

PieceSet == Nat \X Nat
RowSet == [kind : {"structured", "image"}, page : Nat, of : PieceSet]
            \cup [kind : {"text"}, page : Int, of : Seq(PieceSet)]
RowsInv ==
  /\ extracted_pages \in Seq(RowSet)
  /\ Lists(OfKind("structured"), ElementRowsOn(ElementPages))
  /\ Lists(OfKind("image"), ImageRowsOn(Assembled))

PdfTypeOK ==
  /\ IsRequest(pdf) /\ page_idx \in 1..(PageCount + 1)
  /\ stage \in {"pages", "gather", "assemble", "done", "failed"}

PdfInv == PdfTypeOK /\ (stage # "failed" => CallsInv(futures) /\ ListsInv /\ ResultsInv /\ RowsInv /\ TextInv)

-----------------------------------------------------------------------------
(* What is read of one page.                                               *)

LEMMA PageFact ==
  ASSUME IsRequest(pdf)
  PROVE  /\ PageCount \in Nat
         /\ \A p \in 1..PageCount :
              /\ pdf.pages[p].elements \in Seq([label : STRING, crops : BOOLEAN])
              /\ pdf.pages[p].pictures \in Seq(BOOLEAN)
              /\ pdf.pages[p].blocks \in Seq([class : STRING, blank : BOOLEAN, crops : BOOLEAN])
<1>1. pdf.pages \in Seq(PageSet)
  BY DEF IsRequest
<1>2. PageCount \in Nat /\ \A p \in 1..PageCount : pdf.pages[p] \in PageSet
  BY <1>1, LenProperties, ElementOfSeq DEF PageCount
<1> QED BY <1>2 DEF PageSet

\* Elements(p) has each element of a page that is asked for once.
LEMMA ElementsListed ==
  ASSUME IsRequest(pdf), LooksForElements, NEW p \in 1..PageCount
  PROVE  Lists(Elements(p), {<<p, i>> : i \in ElementsOn(p)})
<1> DEFINE E == pdf.pages[p].elements
           n == Len(E)
           s == [i \in 1..n |-> <<p, i>>]
           W == <<"table", "chart", "infographic">>
           K(l) == {e \in {<<p, i>> : i \in 1..n} : E[e[2]].label = W[l] /\ E[e[2]].crops /\ E[e[2]].label \in pdf.wanted}
           seqs == [l \in 1..3 |-> FlattenSeq([i \in 1..Len(s) |-> IF s[i] \in K(l) THEN <<s[i]>> ELSE <<>>])]
           P == [l \in 1..3 |-> K(l)]
<1>1. E \in Seq([label : STRING, crops : BOOLEAN]) /\ n \in Nat /\ DOMAIN E = 1..n
  BY PageFact, LenProperties
<1>2. Lists(s, {s[i] : i \in 1..n}) /\ Len(s) = n
  <2>1. s = [i \in 1..n |-> s[i]] /\ \A i, j \in 1..n : s[i] = s[j] => i = j
    OBVIOUS
  <2> HIDE DEF s, n
  <2> QED BY <2>1, <1>1, ListsFunction
<1>3. {s[i] : i \in 1..n} = {<<p, i>> : i \in 1..n} /\ \A i \in 1..n : s[i] = <<p, i>>
  OBVIOUS
<1>4. Elements(p) = FlattenSeq(seqs)
  <2>1. \A l \in 1..3, i \in 1..n :
          s[i] \in K(l) <=> E[s[i][2]].label = W[l] /\ E[s[i][2]].crops /\ E[s[i][2]].label \in pdf.wanted
    BY <1>3
  <2> QED BY <2>1, <1>2 DEF Elements, Select
<1>5. \A l \in 1..3 : Lists(seqs[l], P[l])
  <2> SUFFICES ASSUME NEW l \in 1..3 PROVE Lists(seqs[l], P[l])
    OBVIOUS
  <2> DEFINE k == K(l)
             t == [i \in 1..Len(s) |-> IF s[i] \in k THEN <<s[i]>> ELSE <<>>]
             S == {s[i] : i \in 1..n}
  <2>1. k \subseteq S
    BY <1>3
  <2>2. seqs[l] = FlattenSeq(t) /\ P[l] = k
    OBVIOUS
  <2> HIDE DEF s, k, S
  <2>3. Lists(FlattenSeq(t), S \cap k)
    BY <1>2, ListsSelect DEF S
  <2>4. S \cap k = k
    BY <2>1
  <2> HIDE DEF t, seqs, P
  <2> QED BY <2>2, <2>3, <2>4
<1>6. \A l, m \in 1..3 : l # m => P[l] \cap P[m] = {}
  <2> SUFFICES ASSUME NEW l \in 1..3, NEW m \in 1..3, NEW x, x \in P[l], x \in P[m] PROVE l = m
    OBVIOUS
  <2>1. W[l] = W[m]
    OBVIOUS
  <2>2. W = <<"table", "chart", "infographic">>
    OBVIOUS
  <2> HIDE DEF W, P
  <2>3. \A a, b \in 1..3 : W[a] = W[b] => a = b
    <3>1. W[1] = "table" /\ W[2] = "chart" /\ W[3] = "infographic"
      BY <2>2
    <3>2. \A a \in 1..3 : a = 1 \/ a = 2 \/ a = 3
      OBVIOUS
    <3> QED BY <3>1, <3>2
  <2> QED BY <2>1, <2>3
<1>7. seqs = [l \in 1..3 |-> seqs[l]] /\ 3 \in Nat
  OBVIOUS
<1> DEFINE V == {<<p, i>> : i \in ElementsOn(p)}
<1>8. \A x : x \in V <=> \E l \in 1..3 : x \in P[l]
  <2>1. ElementsOn(p) = {i \in 1..n : E[i].crops /\ E[i].label \in pdf.wanted}
    BY <1>1 DEF ElementsOn, LooksForElements
  <2>2. ASSUME NEW i \in ElementsOn(p) PROVE \E l \in 1..3 : <<p, i>> \in P[l]
    <3>1. i \in 1..n /\ E[i].crops /\ E[i].label \in pdf.wanted /\ E[i].label \in {"table", "chart", "infographic"}
      BY <2>1 DEF IsRequest
    <3>2. PICK l \in 1..3 : E[i].label = W[l]
      <4>1. 1 \in 1..3 /\ 2 \in 1..3 /\ 3 \in 1..3
        OBVIOUS
      <4>2. W[1] = "table" /\ W[2] = "chart" /\ W[3] = "infographic"
        OBVIOUS
      <4> QED BY <3>1, <4>1, <4>2
    <3> QED BY <3>1, <3>2
  <2>3. ASSUME NEW l \in 1..3, NEW x \in P[l] PROVE \E i \in ElementsOn(p) : x = <<p, i>>
    <3>1. PICK i \in 1..n : x = <<p, i>> /\ x \in K(l)
      OBVIOUS
    <3>2. E[i].label = W[l] /\ E[i].crops /\ E[i].label \in pdf.wanted
      BY <3>1
    <3>3. i \in ElementsOn(p)
      BY <2>1, <3>1, <3>2
    <3> QED BY <3>1, <3>3
  <2>4. \A x : x \in V <=> \E i \in ElementsOn(p) : x = <<p, i>>
    OBVIOUS
  <2> HIDE DEF V, P
  <2> QED BY <2>2, <2>3, <2>4
<1> HIDE DEF seqs, P, V
<1>9. Lists(FlattenSeq(seqs), V)
  BY <1>5, <1>6, <1>7, <1>8, ListsFlatten
<1> QED BY <1>4, <1>9 DEF V

LEMMA ElementRowsListed ==
  ASSUME NEW s, NEW S, Lists(s, S)
  PROVE  Lists(Rows(s, ElementRow), {ElementRow(e) : e \in S})
<1> DEFINE f == [x \in S |-> ElementRow(x)]
           r == Rows(s, ElementRow)
           R == {ElementRow(e) : e \in S}
<1>1. \A k \in 1..Len(s) : s[k] \in S
  BY ListsSet
<1>2. r = [k \in 1..Len(s) |-> f[s[k]]]
  BY <1>1 DEF Rows
<1>3. \A x, y \in S : f[x] = f[y] => x = y
  BY DEF ElementRow
<1>4. \A y : y \in R <=> \E x \in S : y = f[x]
  OBVIOUS
<1> HIDE DEF f, r, R
<1>5. Lists(r, R)
  BY <1>2, <1>3, <1>4, ListsMapped
<1> QED BY <1>5 DEF r, R

LEMMA ImageRowsListed ==
  ASSUME NEW s, NEW S, Lists(s, S)
  PROVE  Lists(Rows(s, ImageRow), {ImageRow(e) : e \in S})
<1> DEFINE f == [x \in S |-> ImageRow(x)]
           r == Rows(s, ImageRow)
           R == {ImageRow(e) : e \in S}
<1>1. \A k \in 1..Len(s) : s[k] \in S
  BY ListsSet
<1>2. r = [k \in 1..Len(s) |-> f[s[k]]]
  BY <1>1 DEF Rows
<1>3. \A x, y \in S : f[x] = f[y] => x = y
  BY DEF ImageRow
<1>4. \A y : y \in R <=> \E x \in S : y = f[x]
  OBVIOUS
<1> HIDE DEF f, r, R
<1>5. Lists(r, R)
  BY <1>2, <1>3, <1>4, ListsMapped
<1> QED BY <1>5 DEF r, R

\* What the call for some pages returns: their elements in rows, their answers.
LEMMA ItemsListed ==
  ASSUME IsRequest(pdf), NEW pages, Lists(pages, ToSet(pages)), ToSet(pages) \subseteq 1..PageCount
  PROVE  /\ LooksForElements => Lists(Items("yolox", pages), {ElementRow(e) : e \in OnPages(ToSet(pages), ElementsOn)})
         /\ Lists(Items("parser", pages), {Answer(p) : p \in ToSet(pages)})
<1> DEFINE n == Len(pages)
           T == ToSet(pages)
<1>1. n \in Nat /\ DOMAIN pages = 1..n /\ \A k \in 1..n : pages[k] \in T /\ pages[k] \in 1..PageCount
  BY ListsSet
<1>a. (\A x \in T : \E k \in 1..n : pages[k] = x) /\ \A j, k \in 1..n : pages[j] = pages[k] => j = k
  BY DEF Lists
<1>2. ASSUME LooksForElements
      PROVE  Lists(Items("yolox", pages), {ElementRow(e) : e \in OnPages(T, ElementsOn)})
  <2> DEFINE seqs == [i \in 1..n |-> Elements(pages[i])]
             P == [i \in 1..n |-> {<<pages[i], j>> : j \in ElementsOn(pages[i])}]
             V == OnPages(T, ElementsOn)
  <2>1. \A i \in 1..n : Lists(seqs[i], P[i])
    BY <1>1, <1>2, ElementsListed
  <2>2. \A i, j \in 1..n : i # j => P[i] \cap P[j] = {}
    <3> SUFFICES ASSUME NEW i \in 1..n, NEW j \in 1..n, NEW x, x \in P[i], x \in P[j] PROVE i = j
      OBVIOUS
    <3>1. x[1] = pages[i] /\ x[1] = pages[j]
      OBVIOUS
    <3> QED BY <3>1, <1>a
  <2>3. \A x : x \in V <=> \E i \in 1..n : x \in P[i]
    <3>1. \A x : x \in V <=> \E p \in T : x \in {<<p, j>> : j \in ElementsOn(p)}
      BY DEF OnPages
    <3>2. \A i \in 1..n : P[i] = {<<pages[i], j>> : j \in ElementsOn(pages[i])}
      OBVIOUS
    <3> HIDE DEF V, P, T
    <3>3. ASSUME NEW x, NEW p \in T, x \in {<<p, j>> : j \in ElementsOn(p)} PROVE \E i \in 1..n : x \in P[i]
      <4>1. PICK i \in 1..n : pages[i] = p
        BY <1>a
      <4> QED BY <4>1, <3>2, <3>3
    <3>4. ASSUME NEW x, NEW i \in 1..n, x \in P[i] PROVE \E p \in T : x \in {<<p, j>> : j \in ElementsOn(p)}
      BY <3>2, <3>4, <1>1
    <3> QED BY <3>1, <3>3, <3>4
  <2>4. seqs = [i \in 1..n |-> seqs[i]]
    OBVIOUS
  <2>5. Items("yolox", pages) = Rows(FlattenSeq(seqs), ElementRow)
    BY DEF Items, _extract_page_elements, Rows
  <2> HIDE DEF seqs, P, V, n
  <2>6. Lists(FlattenSeq(seqs), V)
    BY <1>1, <2>1, <2>2, <2>3, <2>4, ListsFlatten
  <2> QED BY <2>5, <2>6, ElementRowsListed DEF V
<1>3. Lists(Items("parser", pages), {Answer(p) : p \in T})
  <2> DEFINE f == [p \in T |-> Answer(p)]
             r == Items("parser", pages)
             R == {Answer(p) : p \in T}
  <2>1. r = [k \in 1..n |-> f[pages[k]]]
    BY <1>1 DEF Items, _extract_text_and_bounding_boxes, Rows, Answer
  <2>2. \A x, y \in T : f[x] = f[y] => x = y
    BY DEF Answer
  <2>3. \A y : y \in R <=> \E x \in T : y = f[x]
    OBVIOUS
  <2>4. Lists(pages, T)
    OBVIOUS
  <2> HIDE DEF f, r, R, T
  <2>5. Lists(r, R)
    BY <2>1, <2>2, <2>3, <2>4, ListsMapped
  <2> QED BY <2>5 DEF r, R
<1> QED BY <1>2, <1>3

\* The pictures pdfium crops of a page.
LEMMA PicturesListed ==
  ASSUME IsRequest(pdf), NEW p \in 1..PageCount, pdf.method = "pdfium", pdf.images
  PROVE  Lists(_extract_page_images(p), {ImageRow(e) : e \in {<<p, i>> : i \in ImagesOn(p)}})
<1> DEFINE E == pdf.pages[p].pictures
           n == Len(E)
           s == [i \in 1..n |-> <<p, i>>]
           S == {s[i] : i \in 1..n}
           K == {e \in S : E[e[2]]}
           seqs == [i \in 1..Len(s) |-> IF s[i] \in K THEN <<s[i]>> ELSE <<>>]
<1>1. E \in Seq(BOOLEAN) /\ n \in Nat /\ DOMAIN E = 1..n
  BY PageFact, LenProperties
<1>2. Lists(s, S) /\ Len(s) = n
  <2>1. s = [i \in 1..n |-> s[i]] /\ \A i, j \in 1..n : s[i] = s[j] => i = j
    OBVIOUS
  <2> HIDE DEF s, n
  <2> QED BY <2>1, <1>1, ListsFunction
<1>3. \A i \in 1..n : s[i] = <<p, i>> /\ s[i] \in S /\ (s[i] \in K <=> E[i])
  OBVIOUS
<1>4. _extract_page_images(p) = Rows(FlattenSeq(seqs), ImageRow)
  BY <1>2, <1>3 DEF _extract_page_images, Select
<1>5. S \cap K = {<<p, i>> : i \in ImagesOn(p)}
  <2>1. ImagesOn(p) = {i \in 1..n : E[i]}
    BY <1>1 DEF ImagesOn
  <2>2. \A x \in S \cap K : \E i \in {i \in 1..n : E[i]} : x = <<p, i>>
    <3>1. \A x \in S : \E i \in 1..n : x = s[i]
      OBVIOUS
    <3> HIDE DEF s, S, K
    <3> QED BY <1>3, <3>1, ZenonT(60)
  <2>3. \A i \in {i \in 1..n : E[i]} : <<p, i>> \in S \cap K
    <3> HIDE DEF s, S, K
    <3> QED BY <1>3
  <2> HIDE DEF s, S, K
  <2> QED BY <2>1, <2>2, <2>3
<1>6. Lists(FlattenSeq(seqs), S \cap K)
  <2> HIDE DEF s, S, K
  <2> QED BY <1>2, ListsSelect
<1> HIDE DEF seqs, S, K
<1> QED BY <1>4, <1>5, <1>6, ImageRowsListed

\* The blocks of a page that are accepted.
LEMMA AcceptedListed ==
  ASSUME IsRequest(pdf), NEW p \in 1..PageCount
  PROVE  /\ Lists(Accepted(pdf.pages[p].blocks), {b \in DOMAIN pdf.pages[p].blocks : pdf.pages[p].blocks[b].class # "other"})
         /\ DOMAIN pdf.pages[p].blocks = 1..Len(pdf.pages[p].blocks) /\ Len(pdf.pages[p].blocks) \in Nat
<1> DEFINE B == pdf.pages[p].blocks
           n == Len(B)
           s == [b \in 1..n |-> b]
           S == {s[i] : i \in 1..n}
           K == {b \in S : B[b].class # "other"}
           seqs == [i \in 1..Len(s) |-> IF s[i] \in K THEN <<s[i]>> ELSE <<>>]
<1>1. n \in Nat /\ DOMAIN B = 1..n
  BY PageFact, LenProperties
<1>2. Lists(s, S) /\ Len(s) = n
  <2>1. s = [i \in 1..n |-> s[i]] /\ \A i, j \in 1..n : s[i] = s[j] => i = j
    OBVIOUS
  <2> HIDE DEF s, n
  <2> QED BY <2>1, <1>1, ListsFunction
<1>3. \A i \in 1..n : s[i] = i /\ s[i] \in S /\ (s[i] \in K <=> B[i].class # "other")
  OBVIOUS
<1>4. Accepted(B) = FlattenSeq(seqs)
  BY <1>2, <1>3 DEF Accepted, Select
<1>5. S \cap K = {b \in DOMAIN B : B[b].class # "other"}
  BY <1>1
<1>6. Lists(FlattenSeq(seqs), S \cap K)
  <2> HIDE DEF s, S, K
  <2> QED BY <1>2, ListsSelect
<1> HIDE DEF seqs, S, K
<1> QED BY <1>1, <1>4, <1>5, <1>6

\* Numbers of blocks, each with its page.
Numbered(p, s) == [k \in 1..Len(s) |-> <<p, s[k]>>]
Pieces(p, S) == {<<p, b>> : b \in S}

LEMMA PiecesListed ==
  ASSUME NEW s, NEW S, Lists(s, S), NEW p
  PROVE  Lists(Numbered(p, s), Pieces(p, S))
<1> DEFINE f == [b \in S |-> <<p, b>>]
           r == Numbered(p, s)
           R == Pieces(p, S)
<1>1. \A k \in 1..Len(s) : s[k] \in S
  BY ListsSet
<1>2. r = [k \in 1..Len(s) |-> f[s[k]]]
  BY <1>1 DEF Numbered
<1>3. \A x, y \in S : f[x] = f[y] => x = y
  OBVIOUS
<1>4. \A y : y \in R <=> \E x \in S : y = f[x]
  BY DEF Pieces
<1> HIDE DEF f, r, R
<1>5. Lists(r, R)
  BY <1>2, <1>3, <1>4, ListsMapped
<1> QED BY <1>5 DEF r, R

\* The blocks of a class of a page.
BlocksOf(p, class) ==
  {b \in DOMAIN pdf.pages[p].blocks :
     pdf.pages[p].blocks[b].class = class /\ (class = "Picture" => pdf.pages[p].blocks[b].crops)}

LEMMA OfListed ==
  ASSUME IsRequest(pdf), NEW p \in 1..PageCount, NEW class \in {"Table", "Picture"}
  PROVE  Lists(Of(p, pdf.pages[p].blocks, class), {<<p, b>> : b \in BlocksOf(p, class)})
<1> DEFINE B == pdf.pages[p].blocks
           s == Accepted(B)
           S == {b \in DOMAIN B : B[b].class # "other"}
           K == {b \in S : B[b].class = class /\ (class = "Picture" => B[b].crops)}
           seqs == [i \in 1..Len(s) |-> IF s[i] \in K THEN <<s[i]>> ELSE <<>>]
           t == FlattenSeq(seqs)
<1>1. Lists(s, S)
  BY AcceptedListed
<1>2. \A i \in 1..Len(s) : s[i] \in S
  BY <1>1, ListsSet
<1>3. \A i \in 1..Len(s) : s[i] \in K <=> B[s[i]].class = class /\ (class = "Picture" => B[s[i]].crops)
  BY <1>2
<1>4. Of(p, B, class) = [k \in 1..Len(t) |-> <<p, t[k]>>]
  BY <1>3 DEF Of, Rows, Select
<1>5. Lists(t, S \cap K)
  <2> HIDE DEF s, S, K
  <2> QED BY <1>1, ListsSelect
<1>6. S \cap K = BlocksOf(p, class)
  BY DEF BlocksOf
<1>7. Lists(t, BlocksOf(p, class))
  BY <1>5, <1>6
<1> HIDE DEF t
<1>8. Of(p, B, class) = Numbered(p, t)
  BY <1>4 DEF Numbered
<1>9. Lists(Numbered(p, t), Pieces(p, BlocksOf(p, class)))
  BY <1>7, PiecesListed
<1> QED BY <1>8, <1>9 DEF Pieces

\* The text of a page: pieces of this page, none of them twice.
LEMMA TextListed ==
  ASSUME IsRequest(pdf), NEW p \in 1..PageCount
  PROVE  Lists(TextOf(p), ToSet(TextOf(p))) /\ \A x \in ToSet(TextOf(p)) : x \in PieceSet /\ x[1] = p
<1> DEFINE B == pdf.pages[p].blocks
           A == Accepted(B)
           S == {b \in DOMAIN B : B[b].class # "other"}
<1>1. Lists(A, S) /\ S \subseteq Nat
  <2>1. Lists(A, S)
    BY AcceptedListed
  <2>2. DOMAIN B = 1..Len(B) /\ Len(B) \in Nat
    BY AcceptedListed
  <2> QED BY <2>1, <2>2
<1>2. TextOf(p) = <<<<p, 0>>>> \/ TextOf(p) = [k \in 1..Len(A) |-> <<p, A[k]>>]
  BY DEF TextOf, PageText, Rows
<1>3. CASE TextOf(p) = <<<<p, 0>>>>
  <2>1. Lists(TextOf(p), {<<p, 0>>})
    BY <1>3, ListsOne
  <2> QED BY <2>1, ListsSet DEF PieceSet
<1>4. CASE TextOf(p) = [k \in 1..Len(A) |-> <<p, A[k]>>]
  <2>1. Lists(TextOf(p), {<<p, b>> : b \in S})
    <3>1. TextOf(p) = Numbered(p, A)
      BY <1>4 DEF Numbered
    <3> HIDE DEF A, S
    <3>2. Lists(Numbered(p, A), Pieces(p, S))
      BY <1>1, PiecesListed
    <3> QED BY <3>1, <3>2 DEF Pieces
  <2>2. ToSet(TextOf(p)) = {<<p, b>> : b \in S}
    BY <2>1, ListsSet
  <2> HIDE DEF S
  <2> QED BY <2>1, <2>2, <1>1 DEF PieceSet
<1> QED BY <1>2, <1>3, <1>4

-----------------------------------------------------------------------------
(* The calls given to the pool.                                            *)

LEMMA GivenFact ==
  ASSUME NEW fs, NEW m
  PROVE  /\ \A x : x \in Given(fs, m) <=> \E i \in 1..Len(fs) : fs[i].model = m /\ x \in ToSet(fs[i].pages)
         /\ \A x : x \in Gathered(fs, m) <=>
              \E i \in 1..Len(fs) : fs[i].model = m /\ fs[i].at = "gathered" /\ x \in ToSet(fs[i].pages)
         /\ Gathered(fs, m) \subseteq Given(fs, m)
BY DEF Given, Gathered

\* One more element at the end of a sequence of any kind.
LEMMA OneMore ==
  ASSUME NEW s, Len(s) \in Nat, s = [i \in 1..Len(s) |-> s[i]], NEW x
  PROVE  /\ Len(s \o <<x>>) = Len(s) + 1
         /\ s \o <<x>> = [i \in 1..(Len(s) + 1) |-> (s \o <<x>>)[i]]
         /\ \A i \in 1..Len(s) : (s \o <<x>>)[i] = s[i]
         /\ (s \o <<x>>)[Len(s) + 1] = x
<1> DEFINE n == Len(s)
           T == {s[i] : i \in 1..n} \cup {x}
           t == <<x>>
           c == s \o t
<1>1. \A i \in 1..n : s[i] \in T
  OBVIOUS
<1>2. x \in T
  OBVIOUS
<1> HIDE DEF T
<1>3. s \in Seq(T)
  BY <1>1, FunctionIsSeq
<1>4. t \in Seq(T) /\ Len(t) = 1 /\ t[1] = x
  BY <1>2
<1> HIDE DEF t
<1>5. c \in Seq(T) /\ Len(c) = n + 1 /\ \A i \in 1..(n + 1) : c[i] = IF i <= n THEN s[i] ELSE t[i - n]
  <2>1. /\ c \in Seq(T) /\ Len(c) = Len(s) + Len(t)
        /\ \A i \in 1..(Len(s) + Len(t)) : c[i] = IF i <= Len(s) THEN s[i] ELSE t[i - Len(s)]
    <3> HIDE DEF n
    <3> QED BY <1>3, <1>4, ConcatProperties
  <2>2. Len(s) + Len(t) = n + 1
    BY <1>4
  <2> HIDE DEF c
  <2> QED BY <2>1, <2>2
<1> HIDE DEF c
<1>6. c = [i \in 1..(n + 1) |-> c[i]]
  BY <1>5, LenProperties
<1>7. \A i \in 1..n : c[i] = s[i]
  BY <1>5
<1>8. c[n + 1] = x
  <2>1. n + 1 \in 1..(n + 1) /\ ~ (n + 1 <= n) /\ (n + 1) - n = 1
    OBVIOUS
  <2> QED BY <2>1, <1>4, <1>5
<1> QED BY <1>5, <1>6, <1>7, <1>8 DEF c, t

\* A call more, for pages no call of its model has.
Adds(fs, m, pages) ==
  LET new == fs \o <<Future(m, pages)>>
  IN /\ CallsInv(new) /\ Len(new) = Len(fs) + 1
     /\ \A i \in 1..Len(fs) : new[i] = fs[i]
     /\ new[Len(fs) + 1] = Future(m, pages)
     /\ Given(new, m) = Given(fs, m) \cup ToSet(pages)
     /\ \A k \in Models : k # m => Given(new, k) = Given(fs, k)
     /\ \A k \in Models : Gathered(new, k) = Gathered(fs, k)

LEMMA CallAdded ==
  ASSUME NEW fs, CallsInv(fs), NEW m \in Models, On(m), NEW pages, Lists(pages, ToSet(pages)),
         ToSet(pages) \subseteq 1..PageCount, ToSet(pages) \cap Given(fs, m) = {}
  PROVE  Adds(fs, m, pages)
<1> DEFINE f == Future(m, pages)
           new == fs \o <<f>>
           n == Len(fs)
<1>1. /\ n \in Nat /\ Len(new) = n + 1 /\ new = [i \in 1..(n + 1) |-> new[i]]
      /\ (\A i \in 1..n : new[i] = fs[i]) /\ new[n + 1] = f
  BY OneMore DEF CallsInv
<1>2. /\ f.model = m /\ f.pages = pages /\ f.at = "submitted"
      /\ f = [model |-> f.model, pages |-> f.pages, at |-> f.at, items |-> f.items]
  BY DEF Future
<1> HIDE DEF new, f
<1>3. \A i \in 1..(n + 1) : i \in 1..n \/ i = n + 1
  BY <1>1
<1>4. \A i \in 1..n : i \in 1..(n + 1)
  BY <1>1
<1>5. n + 1 \in 1..(n + 1) /\ n + 1 \notin 1..n
  BY <1>1
<1>6. IsCall(f)
  BY <1>2 DEF IsCall
<1>7. \A i \in 1..(n + 1) : IsCall(new[i])
  BY <1>1, <1>3, <1>6 DEF CallsInv
<1>8. ASSUME NEW i \in 1..(n + 1), NEW j \in 1..(n + 1), i # j, new[i].model = new[j].model
      PROVE  ToSet(new[i].pages) \cap ToSet(new[j].pages) = {}
  <2>1. CASE i \in 1..n /\ j \in 1..n
    BY <2>1, <1>1, <1>8 DEF CallsInv
  <2>2. CASE i \in 1..n /\ j = n + 1
    <3>1. ToSet(fs[i].pages) \subseteq Given(fs, m)
      BY <2>2, <1>1, <1>2, <1>8, GivenFact
    <3> QED BY <3>1, <2>2, <1>1, <1>2
  <2>3. CASE i = n + 1 /\ j \in 1..n
    <3>1. new[j] = fs[j] /\ new[i] = f
      BY <2>3, <1>1
    <3>2. fs[j].model = m
      BY <3>1, <1>2, <1>8
    <3>3. ToSet(fs[j].pages) \subseteq Given(fs, m)
      BY <3>2, <2>3, GivenFact
    <3> QED BY <3>1, <3>3, <1>2
  <2> QED BY <2>1, <2>2, <2>3, <1>3, <1>8
<1>9. CallsInv(new)
  BY <1>1, <1>7, <1>8 DEF CallsInv
<1>10. Given(new, m) = Given(fs, m) \cup ToSet(pages)
  <2>1. ASSUME NEW x \in Given(new, m) PROVE x \in Given(fs, m) \cup ToSet(pages)
    <3>1. PICK i \in 1..(n + 1) : new[i].model = m /\ x \in ToSet(new[i].pages)
      BY <2>1, <1>1, GivenFact
    <3> QED BY <3>1, <1>1, <1>2, <1>3, GivenFact, SMTT(30)
  <2>2. ASSUME NEW x \in Given(fs, m) PROVE x \in Given(new, m)
    <3>1. PICK i \in 1..n : fs[i].model = m /\ x \in ToSet(fs[i].pages)
      BY <2>2, GivenFact
    <3>2. i \in 1..Len(new) /\ new[i] = fs[i]
      BY <3>1, <1>1, <1>4
    <3>3. new[i].model = m /\ x \in ToSet(new[i].pages)
      BY <3>1, <3>2
    <3> QED BY <3>2, <3>3, GivenFact
  <2>3. ToSet(pages) \subseteq Given(new, m)
    BY <1>1, <1>2, <1>5, GivenFact
  <2> QED BY <2>1, <2>2, <2>3
<1>12. ASSUME NEW k \in Models, k # m PROVE Given(new, k) = Given(fs, k)
  <2>1. ASSUME NEW x \in Given(new, k) PROVE x \in Given(fs, k)
    <3>1. PICK i \in 1..(n + 1) : new[i].model = k /\ x \in ToSet(new[i].pages)
      BY <2>1, <1>1, GivenFact
    <3>2. i \in 1..n
      BY <3>1, <1>1, <1>2, <1>3, <1>12
    <3>3. new[i] = fs[i]
      BY <3>2, <1>1
    <3>4. fs[i].model = k /\ fs[i].at = new[i].at /\ x \in ToSet(fs[i].pages)
      BY <3>1, <3>3
    <3> QED BY <3>1, <3>2, <3>4, GivenFact
  <2>2. ASSUME NEW x \in Given(fs, k) PROVE x \in Given(new, k)
    <3>1. PICK i \in 1..n : fs[i].model = k /\ x \in ToSet(fs[i].pages)
      BY <2>2, GivenFact
    <3>2. i \in 1..Len(new) /\ new[i] = fs[i]
      BY <3>1, <1>1, <1>4
    <3>3. new[i].model = k /\ x \in ToSet(new[i].pages)
      BY <3>1, <3>2
    <3> QED BY <3>2, <3>3, GivenFact
  <2> QED BY <2>1, <2>2
<1>13. ASSUME NEW k \in Models PROVE Gathered(new, k) = Gathered(fs, k)
  <2>1. ASSUME NEW x \in Gathered(new, k) PROVE x \in Gathered(fs, k)
    <3>1. PICK i \in 1..(n + 1) : new[i].model = k /\ new[i].at = "gathered" /\ x \in ToSet(new[i].pages)
      BY <2>1, <1>1, GivenFact
    <3>2. i \in 1..n
      BY <3>1, <1>1, <1>2, <1>3
    <3>3. new[i] = fs[i]
      BY <3>2, <1>1
    <3>4. fs[i].model = k /\ fs[i].at = new[i].at /\ x \in ToSet(fs[i].pages)
      BY <3>1, <3>3
    <3> QED BY <3>1, <3>2, <3>4, GivenFact
  <2>2. ASSUME NEW x \in Gathered(fs, k) PROVE x \in Gathered(new, k)
    <3>1. PICK i \in 1..n : fs[i].model = k /\ fs[i].at = "gathered" /\ x \in ToSet(fs[i].pages)
      BY <2>2, GivenFact
    <3>2. i \in 1..Len(new) /\ new[i] = fs[i]
      BY <3>1, <1>1, <1>4
    <3>3. new[i].model = k /\ new[i].at = "gathered" /\ x \in ToSet(new[i].pages)
      BY <3>1, <3>2
    <3> QED BY <3>2, <3>3, GivenFact
  <2> QED BY <2>1, <2>2
<1> QED BY <1>1, <1>9, <1>10, <1>12, <1>13 DEF Adds, new, f

-----------------------------------------------------------------------------
(* The document does not change while it is read, and neither does what is   *)
(* defined by it alone.                                                    *)

LEMMA SamePdf ==
  ASSUME pdf' = pdf
  PROVE  /\ PageCount' = PageCount /\ (LooksForElements' <=> LooksForElements) /\ OneBatch' = OneBatch
         /\ \A m : On(m)' = On(m)
         /\ \A p : Elements(p)' = Elements(p)
         /\ \A m, s : Items(m, s)' = Items(m, s)
         /\ \A p : Answer(p)' = Answer(p)
         /\ \A p : TextOf(p)' = TextOf(p)
         /\ \A T : ElementRowsOn(T)' = ElementRowsOn(T) /\ ImageRowsOn(T)' = ImageRowsOn(T)
         /\ \A T : TextRowsOn(T)' = TextRowsOn(T) /\ TextOn(T)' = TextOn(T)
<1>1. PageCount' = PageCount /\ (LooksForElements' <=> LooksForElements) /\ OneBatch' = OneBatch
  BY DEF PageCount, LooksForElements, OneBatch
<1>2. \A m : On(m)' = On(m)
  BY <1>1 DEF On
<1>3. \A p : Elements(p)' = Elements(p)
  BY DEF Elements, Select
<1>4. \A s : _extract_page_elements(s)' = _extract_page_elements(s)
  BY <1>3 DEF _extract_page_elements, Rows
<1>5. \A s : _extract_text_and_bounding_boxes(s)' = _extract_text_and_bounding_boxes(s)
  BY DEF _extract_text_and_bounding_boxes, Rows
<1>6. \A m, s : Items(m, s)' = Items(m, s)
  BY <1>4, <1>5 DEF Items
<1>7. \A p : Answer(p)' = Answer(p)
  BY DEF Answer
<1>8. \A p : TextOf(p)' = TextOf(p)
  BY DEF TextOf
<1>9. \A p : ElementsOn(p)' = ElementsOn(p) /\ ImagesOn(p)' = ImagesOn(p)
  BY DEF ElementsOn, ImagesOn
<1>10. \A T : OnPages(T, ElementsOn)' = OnPages(T, ElementsOn)
  BY <1>9 DEF OnPages
<1>11. \A T : OnPages(T, ImagesOn)' = OnPages(T, ImagesOn)
  BY <1>9 DEF OnPages
<1>12. \A T : ElementRowsOn(T)' = ElementRowsOn(T) /\ ImageRowsOn(T)' = ImageRowsOn(T)
  BY <1>10, <1>11 DEF ElementRowsOn, ImageRowsOn
<1>13. \A T : TextRowsOn(T)' = TextRowsOn(T) /\ TextOn(T)' = TextOn(T)
  BY <1>8 DEF TextRowsOn, TextOn
<1> QED BY <1>1, <1>2, <1>3, <1>6, <1>7, <1>8, <1>12, <1>13

LEMMA FunctionJoinEmpty ==
  ASSUME NEW s, Len(s) \in Nat, s = [i \in 1..Len(s) |-> s[i]]
  PROVE  s \o <<>> = s
<1> DEFINE T == {s[i] : i \in 1..Len(s)}
<1>1. \A i \in 1..Len(s) : s[i] \in T
  OBVIOUS
<1> HIDE DEF T
<1>2. s \in Seq(T)
  BY <1>1, FunctionIsSeq
<1> QED BY <1>2, ConcatEmptySeq

-----------------------------------------------------------------------------
(* The lists of pages and the calls made of them.                          *)

\* A list is given to the pool whole, or it is kept.
Submits(fs, new, m, list, kept, most) ==
  \/ new = fs /\ kept = list /\ Len(list) < most
  \/ new = fs \o <<Future(m, list)>> /\ kept = <<>> /\ Len(list) >= most /\ list # <<>> /\ Adds(fs, m, list)

LEMMA SubmitFact ==
  ASSUME IsRequest(pdf), NEW fs, CallsInv(fs), NEW m \in Models, On(m), NEW list, NEW n \in 0..PageCount,
         Shared(fs, m, list, n), NEW most \in Nat \ {0}
  PROVE  /\ Submits(fs, fs \o Submitted(m, list, most), m, list, Kept(list, most), most)
         /\ CallsInv(fs \o Submitted(m, list, most))
         /\ Shared(fs \o Submitted(m, list, most), m, Kept(list, most), n)
         /\ \A k \in Models : k # m => Given(fs \o Submitted(m, list, most), k) = Given(fs, k)
         /\ \A k \in Models : Gathered(fs \o Submitted(m, list, most), k) = Gathered(fs, k)
<1> DEFINE new == fs \o Submitted(m, list, most)
           kept == Kept(list, most)
<1>1. Lists(list, ToSet(list)) /\ ToSet(list) \subseteq 1..n /\ Len(list) \in Nat
  BY ListsSet DEF Shared
<1>2. CASE Len(list) < most
  <2>1. Submitted(m, list, most) = <<>> /\ kept = list
    BY <1>1, <1>2 DEF Submitted, Kept
  <2>2. fs \o <<>> = fs
    BY FunctionJoinEmpty DEF CallsInv
  <2> QED BY <2>1, <2>2, <1>2 DEF Submits
<1>3. CASE Len(list) >= most
  <2>1. list # <<>>
    BY <1>1, <1>3
  <2>2. new = fs \o <<Future(m, list)>> /\ kept = <<>>
    BY <1>3, <2>1 DEF Submitted, Kept
  <2>3. Adds(fs, m, list)
    <3>1. ToSet(list) \subseteq 1..PageCount
      BY <1>1, PageFact
    <3> QED BY <3>1, <1>1, CallAdded DEF Shared
  <2>4. /\ CallsInv(new) /\ Given(new, m) = Given(fs, m) \cup ToSet(list)
        /\ \A k \in Models : k # m => Given(new, k) = Given(fs, k)
        /\ \A k \in Models : Gathered(new, k) = Gathered(fs, k)
    BY <2>2, <2>3 DEF Adds
  <2>5. Lists(<<>>, ToSet(<<>>)) /\ ToSet(<<>>) = {}
    BY ListsNothing, ListsSet
  <2>6. Shared(new, m, kept, n)
    BY <2>2, <2>4, <2>5 DEF Shared
  <2> QED BY <2>1, <2>2, <2>3, <2>4, <2>6, <1>3 DEF Submits
<1> QED BY <1>1, <1>2, <1>3

\* The list with the next page.
LEMMA PageListed ==
  ASSUME NEW fs, NEW m \in Models, NEW list, NEW n \in Nat, Shared(fs, m, list, n)
  PROVE  Shared(fs, m, Append(list, n + 1), n + 1) /\ Len(Append(list, n + 1)) = Len(list) + 1
<1> DEFINE p == n + 1
<1>1. Lists(list, ToSet(list)) /\ ToSet(list) \subseteq 1..n /\ Given(fs, m) \subseteq 1..n
  BY DEF Shared
<1>2. Append(list, p) = list \o <<p>> /\ Len(list \o <<p>>) = Len(list) + 1
  <2>1. list \in Seq(Nat) /\ p \in Nat /\ <<p>> \in Seq(Nat) /\ Len(<<p>>) = 1
    <3>1. list \in Seq(ToSet(list)) /\ ToSet(list) \subseteq Nat
      BY <1>1 DEF Lists
    <3>2. list \in Seq(Nat)
      BY <3>1, SeqMonotonic
    <3> QED BY <3>2
  <2> HIDE DEF p
  <2> QED BY <2>1, AppendIsConcat, ConcatProperties
<1>3. p \notin 1..n /\ 1..p = 1..n \cup {p}
  OBVIOUS
<1>4. Lists(<<p>>, {p})
  BY ListsOne
<1> HIDE DEF p
<1>5. Lists(list \o <<p>>, ToSet(list) \cup {p})
  BY <1>1, <1>3, <1>4, ListsJoin
<1>6. ToSet(list \o <<p>>) = ToSet(list) \cup {p}
  BY <1>5, ListsSet
<1>7. Shared(fs, m, list \o <<p>>, p)
  BY <1>1, <1>3, <1>5, <1>6 DEF Shared
<1> QED BY <1>2, <1>7 DEF p

\* A document of one batch is in one call.
LEMMA OneCall ==
  ASSUME IsRequest(pdf), NEW fs, CallsInv(fs), NEW list, NEW n \in 0..PageCount, InOneCall(fs, list, n),
         Lists(list, ToSet(list)), NEW new, NEW kept, NEW most \in Nat \ {0}, Submits(fs, new, "parser", list, kept, most),
         PageCount <= NEMORETRIEVER_PARSE_MAX_BATCH_SIZE /\ Len(list) >= most => n = PageCount
  PROVE  InOneCall(new, kept, n)
<1> SUFFICES ASSUME PageCount <= NEMORETRIEVER_PARSE_MAX_BATCH_SIZE, new # fs PROVE InOneCall(new, kept, n)
  BY DEF Submits, InOneCall
<1>1. new = fs \o <<Future("parser", list)>> /\ kept = <<>> /\ list # <<>> /\ n = PageCount /\ Adds(fs, "parser", list)
  BY DEF Submits
<1>2. list = AllPages
  <2>1. Len(list) = PageCount /\ \A k \in 1..Len(list) : list[k] = k
    BY <1>1 DEF InOneCall
  <2>2. DOMAIN list = 1..Len(list) /\ list = [k \in DOMAIN list |-> list[k]]
    <3>1. list \in Seq(ToSet(list))
      BY DEF Lists
    <3> QED BY <3>1, LenProperties
  <2> QED BY <2>1, <2>2 DEF AllPages
<1>3. /\ Len(new) = Len(fs) + 1 /\ Len(fs) \in Nat /\ (\A i \in 1..Len(fs) : new[i] = fs[i])
      /\ new[Len(fs) + 1] = Future("parser", list)
  BY <1>1 DEF Adds, CallsInv
<1>4. \A i \in 1..Len(new) : i \in 1..Len(fs) \/ i = Len(fs) + 1
  BY <1>3
<1>5. \A i \in 1..Len(new) : new[i].model = "parser" => new[i].pages = AllPages
  BY <1>2, <1>3, <1>4 DEF InOneCall, Future
<1>6. Len(kept) = 0 /\ ~ (n < PageCount)
  <2>1. PageCount \in Nat
    BY PageFact
  <2> QED BY <1>1, <2>1
<1> QED BY <1>1, <1>5, <1>6 DEF InOneCall

LEMMA OneCallKept ==
  ASSUME NEW fs, CallsInv(fs), NEW list, NEW n, InOneCall(fs, list, n), NEW new, NEW tables, NEW kept, NEW most,
         Submits(fs, new, "yolox", tables, kept, most)
  PROVE  InOneCall(new, list, n)
<1> SUFFICES ASSUME new # fs PROVE InOneCall(new, list, n)
  OBVIOUS
<1>1. new = fs \o <<Future("yolox", tables)>> /\ Adds(fs, "yolox", tables)
  BY DEF Submits
<1>2. /\ Len(new) = Len(fs) + 1 /\ Len(fs) \in Nat /\ (\A i \in 1..Len(fs) : new[i] = fs[i])
      /\ new[Len(fs) + 1] = Future("yolox", tables)
  BY <1>1 DEF Adds, CallsInv
<1>3. \A i \in 1..Len(new) : i \in 1..Len(fs) \/ i = Len(fs) + 1
  BY <1>2
<1>4. \A i \in 1..Len(new) : new[i].model = "parser" => i \in 1..Len(fs) /\ new[i] = fs[i]
  BY <1>2, <1>3 DEF Future
<1> QED BY <1>4 DEF InOneCall

-----------------------------------------------------------------------------
(* The rows of a kind.                                                     *)

KindOf(rows, kind) == FlattenSeq([i \in 1..Len(rows) |-> IF rows[i].kind = kind THEN <<rows[i]>> ELSE <<>>])
OfOneKind(rows, kind) == rows \in Seq(RowSet) /\ \A i \in 1..Len(rows) : rows[i].kind = kind

LEMMA KindFact ==
  /\ \A kind : OfKind(kind) = KindOf(extracted_pages, kind)
  /\ \A kind : OfKind(kind)' = KindOf(extracted_pages', kind)
BY DEF OfKind, KindOf, Select

LEMMA KindJoin ==
  ASSUME NEW a \in Seq(RowSet), NEW b \in Seq(RowSet), NEW kind
  PROVE  KindOf(a \o b, kind) = KindOf(a, kind) \o KindOf(b, kind)
<1> DEFINE Q(s) == [i \in 1..Len(s) |-> IF s[i].kind = kind THEN <<s[i]>> ELSE <<>>]
<1>1. \A s \in Seq(RowSet) : Q(s) \in Seq(Seq(RowSet)) /\ Len(Q(s)) = Len(s)
  <2> SUFFICES ASSUME NEW s \in Seq(RowSet) PROVE Q(s) \in Seq(Seq(RowSet)) /\ Len(Q(s)) = Len(s)
    OBVIOUS
  <2>1. Len(s) \in Nat /\ \A i \in 1..Len(s) : s[i] \in RowSet
    BY LenProperties, ElementOfSeq
  <2> DEFINE q == Q(s)
             U == Seq(RowSet)
  <2>2. q = [i \in 1..Len(s) |-> q[i]] /\ \A i \in 1..Len(s) : q[i] \in U
    BY <2>1
  <2> HIDE DEF q, U
  <2>3. q \in Seq(U) /\ Len(q) = Len(s)
    BY <2>1, <2>2, FunctionIsSeq
  <2> QED BY <2>3 DEF q, U
<1>2. Q(a \o b) = Q(a) \o Q(b)
  <2> DEFINE c == a \o b
             l == Q(c)
             r == Q(a) \o Q(b)
  <2>1. /\ c \in Seq(RowSet) /\ Len(c) = Len(a) + Len(b)
        /\ \A i \in 1..(Len(a) + Len(b)) : c[i] = IF i <= Len(a) THEN a[i] ELSE b[i - Len(a)]
    BY ConcatProperties
  <2>2. Len(a) \in Nat /\ Len(b) \in Nat
    BY LenProperties
  <2>3. Q(a) \in Seq(Seq(RowSet)) /\ Q(b) \in Seq(Seq(RowSet)) /\ Len(Q(a)) = Len(a) /\ Len(Q(b)) = Len(b)
    BY <1>1
  <2>4. /\ r \in Seq(Seq(RowSet)) /\ Len(r) = Len(a) + Len(b)
        /\ \A i \in 1..(Len(a) + Len(b)) : r[i] = IF i <= Len(a) THEN Q(a)[i] ELSE Q(b)[i - Len(a)]
    <3> DEFINE qa == Q(a)
               qb == Q(b)
               U == Seq(RowSet)
    <3>1. qa \in Seq(U) /\ qb \in Seq(U) /\ Len(qa) = Len(a) /\ Len(qb) = Len(b)
      BY <2>3
    <3> HIDE DEF qa, qb, U
    <3>2. /\ qa \o qb \in Seq(U) /\ Len(qa \o qb) = Len(a) + Len(b)
          /\ \A i \in 1..(Len(a) + Len(b)) : (qa \o qb)[i] = IF i <= Len(a) THEN qa[i] ELSE qb[i - Len(a)]
      <4>1. /\ qa \o qb \in Seq(U) /\ Len(qa \o qb) = Len(qa) + Len(qb)
            /\ \A i \in 1..(Len(qa) + Len(qb)) : (qa \o qb)[i] = IF i <= Len(qa) THEN qa[i] ELSE qb[i - Len(qa)]
        BY <3>1, ConcatProperties
      <4> QED BY <4>1, <3>1
    <3> QED BY <3>2 DEF qa, qb, U
  <2>5. l \in Seq(Seq(RowSet)) /\ Len(l) = Len(a) + Len(b)
    <3> HIDE DEF Q
    <3> QED BY <1>1, <2>1
  <2>6. \A i \in 1..(Len(a) + Len(b)) : l[i] = r[i]
    <3> SUFFICES ASSUME NEW i \in 1..(Len(a) + Len(b)) PROVE l[i] = r[i]
      OBVIOUS
    <3>1. l[i] = IF c[i].kind = kind THEN <<c[i]>> ELSE <<>>
      <4> HIDE DEF c
      <4> QED BY <2>1
    <3>2. CASE i <= Len(a)
      <4>1. i \in 1..Len(a)
        BY <2>2, <3>2
      <4>2. Q(a)[i] = IF a[i].kind = kind THEN <<a[i]>> ELSE <<>>
        BY <4>1
      <4> HIDE DEF r, c, l, Q
      <4> QED BY <4>1, <4>2, <3>1, <3>2, <2>1, <2>4
    <3>3. CASE ~ (i <= Len(a))
      <4>1. i - Len(a) \in 1..Len(b)
        BY <2>2, <3>3
      <4>2. Q(b)[i - Len(a)] = IF b[i - Len(a)].kind = kind THEN <<b[i - Len(a)]>> ELSE <<>>
        BY <4>1
      <4> HIDE DEF r, c, l, Q
      <4> QED BY <4>1, <4>2, <3>1, <3>3, <2>1, <2>4
    <3> QED BY <3>2, <3>3
  <2>7. l = r
    <3> DEFINE U == Seq(RowSet)
    <3>1. l \in Seq(U) /\ r \in Seq(U) /\ Len(l) = Len(r) /\ \A i \in 1..Len(l) : l[i] = r[i]
      <4> HIDE DEF l, r
      <4> QED BY <2>4, <2>5, <2>6
    <3> HIDE DEF l, r, U
    <3> QED BY <3>1, SeqEqual
  <2> QED BY <2>7 DEF l, r, c
<1>3. KindOf(a, kind) = FlattenSeq(Q(a)) /\ KindOf(b, kind) = FlattenSeq(Q(b)) /\ KindOf(a \o b, kind) = FlattenSeq(Q(a \o b))
  BY DEF KindOf
<1> HIDE DEF Q
<1>4. Q(a) \in Seq(Seq(RowSet)) /\ Q(b) \in Seq(Seq(RowSet))
  BY <1>1
<1> DEFINE qa == Q(a)
           qb == Q(b)
<1>5. FlattenSeq(qa \o qb) = FlattenSeq(qa) \o FlattenSeq(qb)
  <2> HIDE DEF qa, qb
  <2>1. qa \in Seq(Seq(RowSet)) /\ qb \in Seq(Seq(RowSet))
    BY <1>4 DEF qa, qb
  <2> QED BY <2>1, FlattenJoin
<1> QED BY <1>2, <1>3, <1>5

LEMMA KindOnly ==
  ASSUME NEW a, NEW kind, OfOneKind(a, kind), NEW other
  PROVE  KindOf(a, other) = IF other = kind THEN a ELSE <<>>
<1> DEFINE n == Len(a)
           seqs == [i \in 1..n |-> IF a[i].kind = other THEN <<a[i]>> ELSE <<>>]
           G == [m \in 0..n |-> {IF other = kind THEN Prefix(a, m) ELSE <<>>}]
<1>1. a \in Seq(RowSet) /\ n \in Nat /\ \A i \in 1..n : a[i] \in RowSet /\ a[i].kind = kind
  BY LenProperties, ElementOfSeq DEF OfOneKind
<1>2. seqs \in Seq(Seq(RowSet)) /\ Len(seqs) = n
  <2> DEFINE U == Seq(RowSet)
  <2>1. \A i \in 1..n : seqs[i] \in U
    BY <1>1
  <2>2. seqs = [i \in 1..n |-> seqs[i]]
    OBVIOUS
  <2> HIDE DEF seqs, U
  <2>3. seqs \in Seq(U) /\ Len(seqs) = n
    BY <2>1, <2>2, <1>1, FunctionIsSeq
  <2> QED BY <2>3 DEF U
<1>3. \A m \in 0..n : G[m] = {IF other = kind THEN Prefix(a, m) ELSE <<>>}
  OBVIOUS
<1>4. \A i \in 1..n : seqs[i] = IF other = kind THEN <<a[i]>> ELSE <<>>
  BY <1>1
<1> HIDE DEF G, seqs
<1>5. <<>> \in G[0]
  <2>1. Prefix(a, 0) = <<>> /\ 0 \in 0..n
    BY <1>1, PrefixFact, EmptySeq
  <2> QED BY <2>1, <1>3
<1>6. ASSUME NEW m \in 0..(n - 1), NEW x \in Seq(RowSet), x \in G[m] PROVE x \o seqs[m + 1] \in G[m + 1]
  <2>1. m \in 0..n /\ m + 1 \in 0..n /\ m + 1 \in 1..n /\ m \in Nat /\ m < n /\ m <= n
    BY <1>1
  <2>2. x = IF other = kind THEN Prefix(a, m) ELSE <<>>
    BY <2>1, <1>3, <1>6
  <2>3. Prefix(a, m + 1) = Append(Prefix(a, m), a[m + 1]) /\ Prefix(a, m) \in Seq(RowSet)
    BY <2>1, <1>1, PrefixFact
  <2>4. CASE other = kind
    <3>1. x \o <<a[m + 1]>> = Append(x, a[m + 1])
      BY <2>1, <1>1, AppendIsConcat
    <3> QED BY <3>1, <2>1, <2>2, <2>3, <2>4, <1>3, <1>4
  <2>5. CASE other # kind
    <3>1. <<>> \o <<>> = <<>>
      BY ConcatEmptySeq
    <3> QED BY <3>1, <2>1, <2>2, <2>5, <1>3, <1>4
  <2> QED BY <2>4, <2>5
<1>7. FlattenSeq(seqs) \in G[n]
  BY <1>2, <1>5, <1>6, FlattenInduction
<1>8. Prefix(a, n) = a /\ n \in 0..n
  BY <1>1, PrefixFact
<1> QED BY <1>3, <1>7, <1>8 DEF KindOf, seqs

-----------------------------------------------------------------------------
(* Rows and text put together page by page.                                *)

LEMMA AddRows ==
  ASSUME NEW rows \in Seq(RowSet), NEW a, NEW kind, OfOneKind(a, kind)
  PROVE  /\ rows \o a \in Seq(RowSet)
         /\ \A k : KindOf(rows \o a, k) = IF k = kind THEN KindOf(rows, k) \o a ELSE KindOf(rows, k)
<1>1. a \in Seq(RowSet)
  BY DEF OfOneKind
<1>2. rows \o a \in Seq(RowSet)
  BY <1>1, ConcatProperties
<1>3. ASSUME NEW k PROVE KindOf(rows \o a, k) = IF k = kind THEN KindOf(rows, k) \o a ELSE KindOf(rows, k)
  <2>1. KindOf(rows \o a, k) = KindOf(rows, k) \o KindOf(a, k)
    BY <1>1, KindJoin
  <2>2. KindOf(a, k) = IF k = kind THEN a ELSE <<>>
    BY KindOnly
  <2>3. KindOf(rows, k) \in Seq(RowSet)
    <3> DEFINE U == Seq(RowSet)
               q == [i \in 1..Len(rows) |-> IF rows[i].kind = k THEN <<rows[i]>> ELSE <<>>]
    <3>1. Len(rows) \in Nat /\ \A i \in 1..Len(rows) : rows[i] \in RowSet
      BY LenProperties, ElementOfSeq
    <3>2. q = [i \in 1..Len(rows) |-> q[i]] /\ \A i \in 1..Len(rows) : q[i] \in U
      BY <3>1
    <3> HIDE DEF q, U
    <3>3. q \in Seq(U)
      BY <3>1, <3>2, FunctionIsSeq
    <3>4. FlattenSeq(q) \in Seq(RowSet)
      BY <3>3, FlattenTyped DEF U
    <3> QED BY <3>4 DEF KindOf, q
  <2>4. KindOf(rows, k) \o <<>> = KindOf(rows, k)
    BY <2>3, ConcatEmptySeq
  <2> QED BY <2>1, <2>2, <2>4
<1> QED BY <1>2, <1>3

LEMMA RowTypes ==
  ASSUME IsRequest(pdf), NEW T, T \subseteq 1..PageCount, NEW a
  PROVE  /\ Lists(a, ElementRowsOn(T)) => OfOneKind(a, "structured")
         /\ Lists(a, ImageRowsOn(T)) => OfOneKind(a, "image")
         /\ Lists(a, TextRowsOn(T)) => OfOneKind(a, "text")
         /\ TextOn(T) \subseteq PieceSet
<1>1. \A p \in T : p \in Nat /\ p \in 1..PageCount
  BY PageFact
<1>2. \A p \in T : ElementsOn(p) \subseteq Nat /\ ImagesOn(p) \subseteq Nat
  <2> SUFFICES ASSUME NEW p \in T PROVE ElementsOn(p) \subseteq Nat /\ ImagesOn(p) \subseteq Nat
    OBVIOUS
  <2>1. DOMAIN pdf.pages[p].elements \subseteq Nat /\ DOMAIN pdf.pages[p].pictures \subseteq Nat
        /\ DOMAIN pdf.pages[p].blocks \subseteq Nat
    <3>1. \A U, s : s \in Seq(U) => DOMAIN s \subseteq Nat
      BY LenProperties
    <3> QED BY <3>1, <1>1, PageFact
  <2> QED BY <2>1 DEF ElementsOn, ImagesOn
<1>3. \A r \in ElementRowsOn(T) : r \in RowSet /\ r.kind = "structured"
  BY <1>1, <1>2 DEF ElementRowsOn, OnPages, ElementRow, RowSet, PieceSet
<1>4. \A r \in ImageRowsOn(T) : r \in RowSet /\ r.kind = "image"
  BY <1>1, <1>2 DEF ImageRowsOn, OnPages, ImageRow, RowSet, PieceSet
<1>5. \A p \in T : TextOf(p) \in Seq(PieceSet) /\ ToSet(TextOf(p)) \subseteq PieceSet
  <2> SUFFICES ASSUME NEW p \in T PROVE TextOf(p) \in Seq(PieceSet) /\ ToSet(TextOf(p)) \subseteq PieceSet
    OBVIOUS
  <2>1. TextOf(p) \in Seq(ToSet(TextOf(p))) /\ ToSet(TextOf(p)) \subseteq PieceSet
    BY <1>1, TextListed DEF Lists
  <2> QED BY <2>1, SeqMonotonic
<1>6. \A r \in TextRowsOn(T) : r \in RowSet /\ r.kind = "text"
  <2> SUFFICES ASSUME NEW p \in T PROVE TextRow(p, TextOf(p)) \in RowSet /\ TextRow(p, TextOf(p)).kind = "text"
    BY DEF TextRowsOn
  <2>1. p \in Int /\ TextOf(p) \in Seq(PieceSet)
    BY <1>1, <1>5
  <2> DEFINE t == TextOf(p)
             TextRowSet == [kind : {"text"}, page : Int, of : Seq(PieceSet)]
  <2> HIDE DEF t
  <2>2. TextRow(p, t) \in TextRowSet /\ TextRow(p, t).kind = "text"
    BY <2>1 DEF TextRow, t
  <2> QED BY <2>2 DEF RowSet, t
<1>7. TextOn(T) \subseteq PieceSet
  BY <1>5 DEF TextOn
<1>8. ASSUME NEW R, NEW kind, \A r \in R : r \in RowSet /\ r.kind = kind, Lists(a, R) PROVE OfOneKind(a, kind)
  <2>1. a \in Seq(R) /\ R \subseteq RowSet
    BY <1>8 DEF Lists
  <2>2. a \in Seq(RowSet)
    BY <2>1, SeqMonotonic
  <2>3. \A i \in 1..Len(a) : a[i] \in R
    BY <2>1, ElementOfSeq
  <2> QED BY <2>2, <2>3, <1>8 DEF OfOneKind
<1> QED BY <1>3, <1>4, <1>6, <1>7, <1>8

LEMMA OnJoin ==
  ASSUME IsRequest(pdf), NEW A, NEW B, A \subseteq 1..PageCount, B \subseteq 1..PageCount, A \cap B = {}
  PROVE  /\ ElementRowsOn(A \cup B) = ElementRowsOn(A) \cup ElementRowsOn(B)
         /\ ElementRowsOn(A) \cap ElementRowsOn(B) = {}
         /\ ImageRowsOn(A \cup B) = ImageRowsOn(A) \cup ImageRowsOn(B)
         /\ ImageRowsOn(A) \cap ImageRowsOn(B) = {}
         /\ TextRowsOn(A \cup B) = TextRowsOn(A) \cup TextRowsOn(B)
         /\ TextRowsOn(A) \cap TextRowsOn(B) = {}
         /\ TextOn(A \cup B) = TextOn(A) \cup TextOn(B)
         /\ TextOn(A) \cap TextOn(B) = {}
<1>1. \A T : \A e \in OnPages(T, ElementsOn) : e[1] \in T
  BY DEF OnPages
<1>2. \A T : \A e \in OnPages(T, ImagesOn) : e[1] \in T
  BY DEF OnPages
<1>3. OnPages(A \cup B, ElementsOn) = OnPages(A, ElementsOn) \cup OnPages(B, ElementsOn)
  BY DEF OnPages
<1>4. OnPages(A \cup B, ImagesOn) = OnPages(A, ImagesOn) \cup OnPages(B, ImagesOn)
  BY DEF OnPages
<1>5. ElementRowsOn(A \cup B) = ElementRowsOn(A) \cup ElementRowsOn(B)
  BY <1>3 DEF ElementRowsOn
<1>6. ElementRowsOn(A) \cap ElementRowsOn(B) = {}
  <2> SUFFICES ASSUME NEW e \in OnPages(A, ElementsOn), NEW f \in OnPages(B, ElementsOn), ElementRow(e) = ElementRow(f) PROVE FALSE
    BY DEF ElementRowsOn
  <2>1. e = f
    BY DEF ElementRow
  <2> QED BY <2>1, <1>1
<1>7. ImageRowsOn(A \cup B) = ImageRowsOn(A) \cup ImageRowsOn(B)
  BY <1>4 DEF ImageRowsOn
<1>8. ImageRowsOn(A) \cap ImageRowsOn(B) = {}
  <2> SUFFICES ASSUME NEW e \in OnPages(A, ImagesOn), NEW f \in OnPages(B, ImagesOn), ImageRow(e) = ImageRow(f) PROVE FALSE
    BY DEF ImageRowsOn
  <2>1. e = f
    BY DEF ImageRow
  <2> QED BY <2>1, <1>2
<1>9. TextRowsOn(A \cup B) = TextRowsOn(A) \cup TextRowsOn(B) /\ TextOn(A \cup B) = TextOn(A) \cup TextOn(B)
  BY DEF TextRowsOn, TextOn
<1>10. TextRowsOn(A) \cap TextRowsOn(B) = {}
  BY DEF TextRowsOn, TextRow
<1>11. TextOn(A) \cap TextOn(B) = {}
  <2> SUFFICES ASSUME NEW p \in A, NEW q \in B, NEW x, x \in ToSet(TextOf(p)), x \in ToSet(TextOf(q)) PROVE FALSE
    BY DEF TextOn
  <2>1. x[1] = p /\ x[1] = q
    BY TextListed
  <2> QED BY <2>1
<1> QED BY <1>5, <1>6, <1>7, <1>8, <1>9, <1>10, <1>11

LEMMA IntervalsEqual ==
  ASSUME NEW a \in Nat, NEW b \in Nat, 1..a = 1..b
  PROVE  a = b
<1>1. IsFiniteSet(1..a) /\ Cardinality(1..a) = a /\ Cardinality(1..b) = b
  BY CountToN
<1> QED BY <1>1

LEMMA UnbrokenJoin ==
  ASSUME NEW U, NEW s \in Seq(U), NEW t \in Seq(U)
  PROVE  Unbroken(s \o t, t) /\ \A u : Len(u) \in Nat /\ Unbroken(s, u) => Unbroken(s \o t, u)
<1> DEFINE c == s \o t
<1>1. /\ Len(c) = Len(s) + Len(t) /\ Len(s) \in Nat /\ Len(t) \in Nat
      /\ \A i \in 1..(Len(s) + Len(t)) : c[i] = IF i <= Len(s) THEN s[i] ELSE t[i - Len(s)]
  BY ConcatProperties, LenProperties
<1> HIDE DEF c
<1>2. Unbroken(c, t)
  <2>1. Len(s) \in 0..(Len(c) - Len(t)) /\ Len(t) <= Len(c)
    BY <1>1
  <2>2. \A k \in 1..Len(t) : c[Len(s) + k] = t[k]
    <3> SUFFICES ASSUME NEW k \in 1..Len(t) PROVE c[Len(s) + k] = t[k]
      OBVIOUS
    <3>1. Len(s) + k \in 1..(Len(s) + Len(t)) /\ ~ (Len(s) + k <= Len(s)) /\ (Len(s) + k) - Len(s) = k
      BY <1>1
    <3> QED BY <3>1, <1>1
  <2> QED BY <2>1, <2>2 DEF Unbroken
<1>3. ASSUME NEW u, Len(u) \in Nat, Unbroken(s, u) PROVE Unbroken(c, u)
  <2>1. PICK i \in 0..(Len(s) - Len(u)) : \A k \in 1..Len(u) : s[i + k] = u[k]
    BY <1>3 DEF Unbroken
  <2>2. i \in 0..(Len(c) - Len(u)) /\ Len(u) <= Len(c)
    BY <1>1, <1>3 DEF Unbroken
  <2>3. \A k \in 1..Len(u) : i + k \in 1..(Len(s) + Len(t)) /\ i + k <= Len(s)
    BY <1>1, <1>3
  <2>4. \A k \in 1..Len(u) : c[i + k] = u[k]
    BY <2>1, <2>3, <1>1
  <2> QED BY <2>2, <2>4 DEF Unbroken
<1> QED BY <1>2, <1>3 DEF c

\* The page that comes next, where pages are in order.
ComesNext(T, p) == OneBatch => \E n \in Nat : T = 1..n /\ p = n + 1

LEMMA TextRowAdded ==
  ASSUME IsRequest(pdf), NEW T, T \subseteq 1..PageCount, NEW p \in 1..PageCount, p \notin T, ComesNext(T, p),
         NEW texts, TextRowsInv(texts, T)
  PROVE  /\ TextRowsInv(texts \o <<TextRow(p, TextOf(p))>>, T \cup {p})
         /\ OfOneKind(<<TextRow(p, TextOf(p))>>, "text")
<1> DEFINE r == TextRow(p, TextOf(p))
           new == texts \o <<r>>
<1>1. TextRowsOn({p}) = {r}
  BY DEF TextRowsOn
<1>2. Lists(<<r>>, TextRowsOn({p}))
  <2> HIDE DEF r
  <2> QED BY <1>1, ListsOne
<1>3. Lists(texts, TextRowsOn(T)) /\ {p} \subseteq 1..PageCount /\ T \cap {p} = {}
  BY DEF TextRowsInv
<1>4. TextRowsOn(T \cup {p}) = TextRowsOn(T) \cup TextRowsOn({p}) /\ TextRowsOn(T) \cap TextRowsOn({p}) = {}
  <2> DEFINE B == {p}
  <2> HIDE DEF B, r
  <2>1. B \subseteq 1..PageCount /\ T \cap B = {}
    BY <1>3 DEF B
  <2>2. TextRowsOn(T \cup B) = TextRowsOn(T) \cup TextRowsOn(B) /\ TextRowsOn(T) \cap TextRowsOn(B) = {}
    BY <2>1, OnJoin, ZenonT(60)
  <2> QED BY <2>2 DEF B
<1> HIDE DEF r
<1>5. Lists(new, TextRowsOn(T \cup {p}))
  BY <1>2, <1>3, <1>4, ListsJoin
<1>6. OfOneKind(<<r>>, "text")
  BY <1>2, <1>3, RowTypes
<1>7. ASSUME OneBatch PROVE \A k \in 1..Len(new) : new[k].page = k
  <2>1. PICK n \in Nat : T = 1..n /\ p = n + 1
    BY <1>7 DEF ComesNext
  <2>2. Len(texts) = n
    <3> DEFINE s == [k \in 1..n |-> TextRow(k, TextOf(k))]
    <3>1. s = [k \in 1..n |-> s[k]] /\ \A i, j \in 1..n : s[i] = s[j] => i = j
      BY DEF TextRow
    <3>2. {s[k] : k \in 1..n} = TextRowsOn(T)
      BY <2>1 DEF TextRowsOn
    <3> HIDE DEF s
    <3>3. Lists(s, {s[k] : k \in 1..n}) /\ Len(s) = n
      BY <3>1, ListsFunction
    <3>4. Len(s) = Cardinality(TextRowsOn(T)) /\ Len(texts) = Cardinality(TextRowsOn(T))
      BY <3>2, <3>3, <1>3, ListsCount
    <3> QED BY <3>3, <3>4
  <2>3. Len(texts) \in Nat /\ texts = [k \in 1..Len(texts) |-> texts[k]]
    <3>1. texts \in Seq(TextRowsOn(T))
      BY <1>3 DEF Lists
    <3> QED BY <3>1, LenProperties
  <2>4. Len(new) = n + 1 /\ (\A k \in 1..n : new[k] = texts[k]) /\ new[n + 1] = r
    BY <2>2, <2>3, OneMore
  <2>5. \A k \in 1..n : texts[k].page = k
    BY <1>7, <2>2 DEF TextRowsInv
  <2>6. r.page = n + 1
    BY <2>1 DEF r, TextRow
  <2>7. \A k \in 1..(n + 1) : k \in 1..n \/ k = n + 1
    OBVIOUS
  <2> QED BY <2>4, <2>5, <2>6, <2>7
<1> QED BY <1>5, <1>6, <1>7 DEF TextRowsInv, r

LEMMA TextAdded ==
  ASSUME IsRequest(pdf), NEW T, T \subseteq 1..PageCount, NEW p \in 1..PageCount, p \notin T, ComesNext(T, p),
         NEW acc, TextAccumulated(acc, T)
  PROVE  TextAccumulated(acc \o TextOf(p), T \cup {p})
<1> DEFINE t == TextOf(p)
           new == acc \o t
<1>1. Lists(acc, TextOn(T)) /\ {p} \subseteq 1..PageCount /\ T \cap {p} = {}
  BY DEF TextAccumulated
<1>2. TextOn({p}) = ToSet(t) /\ Lists(t, TextOn({p}))
  BY TextListed DEF TextOn
<1>3. TextOn(T \cup {p}) = TextOn(T) \cup TextOn({p}) /\ TextOn(T) \cap TextOn({p}) = {}
  BY <1>1, OnJoin
<1> HIDE DEF t
<1>4. Lists(new, TextOn(T \cup {p}))
  BY <1>1, <1>2, <1>3, ListsJoin
<1>5. acc \in Seq(PieceSet) /\ t \in Seq(PieceSet)
  <2>1. TextOn(T) \subseteq PieceSet /\ TextOn({p}) \subseteq PieceSet
    BY <1>1, RowTypes
  <2>2. acc \in Seq(TextOn(T)) /\ t \in Seq(TextOn({p}))
    BY <1>1, <1>2 DEF Lists
  <2> QED BY <2>1, <2>2, SeqMonotonic
<1>6. \A q \in T \cup {p} : Unbroken(new, TextOf(q))
  <2> SUFFICES ASSUME NEW q \in T \cup {p} PROVE Unbroken(new, TextOf(q))
    OBVIOUS
  <2>1. CASE q = p
    BY <2>1, <1>5, UnbrokenJoin DEF t
  <2>2. CASE q \in T
    <3>1. Unbroken(acc, TextOf(q))
      BY <2>2 DEF TextAccumulated
    <3>2. Len(TextOf(q)) \in Nat
      BY <2>2, TextListed, ListsSet
    <3> QED BY <3>1, <3>2, <1>5, UnbrokenJoin
  <2> QED BY <2>1, <2>2
<1>7. ASSUME OneBatch, NEW m \in Nat, T \cup {p} = 1..m
      PROVE  new = FlattenSeq([q \in 1..m |-> TextOf(q)])
  <2>1. PICK n \in Nat : T = 1..n /\ p = n + 1
    BY <1>7 DEF ComesNext
  <2>2. m = n + 1
    <3>1. 1..m = 1..(n + 1)
      <4>1. 1..(n + 1) = 1..n \cup {n + 1}
        OBVIOUS
      <4> QED BY <4>1, <1>7, <2>1
    <3> QED BY <3>1, IntervalsEqual
  <2> DEFINE s == [q \in 1..n |-> TextOf(q)]
             u == [q \in 1..m |-> TextOf(q)]
             U == Seq(PieceSet)
  <2>3. \A q \in 1..m : TextOf(q) \in U
    <3> SUFFICES ASSUME NEW q \in 1..m PROVE TextOf(q) \in U
      OBVIOUS
    <3>1. q \in 1..PageCount
      BY <1>7
    <3>2. TextOf(q) \in Seq(ToSet(TextOf(q))) /\ ToSet(TextOf(q)) \subseteq PieceSet
      BY <3>1, TextListed DEF Lists
    <3> QED BY <3>2, SeqMonotonic
  <2>4. s = [q \in 1..n |-> s[q]] /\ u = [q \in 1..m |-> u[q]] /\ (\A q \in 1..n : s[q] \in U) /\ \A q \in 1..m : u[q] \in U
    BY <2>2, <2>3
  <2>5. u[n + 1] = t /\ \A q \in 1..n : u[q] = s[q]
    BY <2>1, <2>2 DEF t
  <2>6. acc = FlattenSeq(s)
    BY <1>7, <2>1 DEF TextAccumulated
  <2> HIDE DEF s, u, U
  <2>7. s \in Seq(U) /\ Len(s) = n /\ u \in Seq(U) /\ Len(u) = m
    BY <2>4, FunctionIsSeq
  <2>8. u = Append(s, t)
    <3> DEFINE v == Append(s, t)
    <3>1. t \in U
      BY <1>5 DEF U
    <3>2. v \in Seq(U) /\ Len(v) = n + 1 /\ (\A q \in 1..n : v[q] = s[q]) /\ v[n + 1] = t
      BY <3>1, <2>7, AppendProperties
    <3> HIDE DEF v
    <3>3. \A q \in 1..(n + 1) : q \in 1..n \/ q = n + 1
      OBVIOUS
    <3>4. \A q \in 1..(n + 1) : u[q] = v[q]
      BY <3>2, <3>3, <2>5
    <3>5. u = v
      BY <3>2, <3>4, <2>2, <2>7, SeqEqual
    <3> QED BY <3>5 DEF v
  <2>9. FlattenSeq(Append(s, t)) = FlattenSeq(s) \o t
    <3>1. s \in Seq(Seq(PieceSet)) /\ t \in Seq(PieceSet) /\ FlattenSeq(s) \in Seq(PieceSet)
      BY <2>6, <2>7, <1>5 DEF U
    <3> QED BY <3>1, FlattenAppend
  <2> QED BY <2>6, <2>8, <2>9 DEF u
<1> QED BY <1>4, <1>6, <1>7 DEF TextAccumulated, t

-----------------------------------------------------------------------------
(* PdfInv holds at first, and every step keeps it.                         *)

ListInv(fs, m, list, n) == IF On(m) THEN Shared(fs, m, list, n) ELSE list \in Seq(Nat) /\ Len(list) <= n

LEMMA ListsParts ==
  ASSUME page_idx \in Nat
  PROVE  ListsInv <=> /\ ListInv(futures, "yolox", pages_for_tables, page_idx - 1)
                      /\ ListInv(futures, "parser", pages_for_ocr, page_idx - 1)
                      /\ On("parser") => InOneCall(futures, pages_for_ocr, page_idx - 1)
                      /\ pdf.method = "pdfium" => pages_for_ocr = <<>>
                      /\ stage # "pages" =>
                           /\ page_idx = PageCount + 1
                           /\ On("yolox") => pages_for_tables = <<>>
                           /\ On("parser") => pages_for_ocr = <<>>
<1>1. "yolox" \in Models /\ "parser" \in Models /\ \A m \in Models : m = "yolox" \/ m = "parser"
  BY DEF Models
<1>2. Waits("yolox") = pages_for_tables /\ Waits("parser") = pages_for_ocr
  BY DEF Waits
<1>3. \A s \in Seq(Nat) : Len(s) < page_idx <=> Len(s) <= page_idx - 1
  BY LenProperties
<1> QED BY <1>1, <1>2, <1>3 DEF ListsInv, ListInv

LEMMA ListsNext ==
  ASSUME pdf' = pdf, page_idx' \in Nat,
         ListInv(futures', "yolox", pages_for_tables', page_idx' - 1),
         ListInv(futures', "parser", pages_for_ocr', page_idx' - 1),
         On("parser") => InOneCall(futures', pages_for_ocr', page_idx' - 1),
         pdf.method = "pdfium" => pages_for_ocr' = <<>>,
         stage' # "pages" => /\ page_idx' = PageCount + 1
                             /\ On("yolox") => pages_for_tables' = <<>>
                             /\ On("parser") => pages_for_ocr' = <<>>
  PROVE  ListsInv'
<1>1. "yolox" \in Models /\ "parser" \in Models /\ \A m \in Models : m = "yolox" \/ m = "parser"
  BY DEF Models
<1>2. Waits("yolox")' = pages_for_tables' /\ Waits("parser")' = pages_for_ocr'
  BY DEF Waits
<1>3. \A s \in Seq(Nat) : Len(s) < page_idx' <=> Len(s) <= page_idx' - 1
  BY LenProperties
<1>4. PageCount' = PageCount /\ \A m : On(m)' = On(m)
  BY SamePdf
<1>5. InOneCall(futures, pages_for_ocr, page_idx - 1)' <=> InOneCall(futures', pages_for_ocr', page_idx' - 1)
  BY <1>4 DEF InOneCall, AllPages
<1>6. On("parser")' => InOneCall(futures, pages_for_ocr, page_idx - 1)'
  BY <1>4, <1>5
<1>7. stage' # "pages" => page_idx' = PageCount' + 1 /\ \A m \in Models : On(m)' => Waits(m)' = <<>>
  BY <1>1, <1>2, <1>4
<1>8. \A m \in Models : IF On(m)' THEN Shared(futures', m, Waits(m)', page_idx' - 1)
                        ELSE Waits(m)' \in Seq(Nat) /\ Len(Waits(m)') < page_idx'
  BY <1>1, <1>2, <1>3, <1>4 DEF ListInv
<1> QED BY <1>6, <1>7, <1>8 DEF ListsInv, Shared, Given

LEMMA CallsNext ==
  ASSUME pdf' = pdf, CallsInv(futures')
  PROVE  CallsInv(futures)'
BY SamePdf DEF CallsInv, IsCall

\* The results stay as they are while nothing is gathered or assembled.
LEMMA ResultsNext ==
  ASSUME pdf' = pdf, parser_results' = parser_results, ResultsInv,
         Gathered(futures', "parser") = Gathered(futures, "parser"),
         stage' = "pages" => \A m \in Models : Gathered(futures', m) = {},
         stage' \in {"pages", "gather"} => stage \in {"pages", "gather"},
         stage' = "pages" => stage = "pages",
         stage' \in {"assemble", "done"} => \A i \in 1..Len(futures') : futures'[i].at = "gathered",
         stage' = "done" => parser_results = <<>>
  PROVE  ResultsInv' /\ Waiting' = Waiting
<1>1. Waiting' = Waiting
  BY DEF Waiting
<1>2. "parser" \in Models
  BY DEF Models
<1>3. {Answer(p)' : p \in Waiting} = {Answer(p) : p \in Waiting}
  BY SamePdf
<1>4. PageCount' = PageCount
  BY SamePdf
<1>5. Lists(parser_results', {Answer(p)' : p \in Waiting'})
  BY <1>1, <1>3 DEF ResultsInv
<1> QED BY <1>1, <1>2, <1>4, <1>5 DEF ResultsInv

\* The rows and the text stay as they are with the pages they are made of.
LEMMA TextKept ==
  ASSUME pdf' = pdf, OfKind("text")' = OfKind("text"), accumulated_pages' = accumulated_pages,
         TextPages' = TextPages, stage # "done", stage' # "done", TextInv
  PROVE  TextInv'
<1>1. TextRowsInv(OfKind("text"), TextPages)' = TextRowsInv(OfKind("text"), TextPages)
  BY SamePdf DEF TextRowsInv
<1>2. TextAccumulated(accumulated_pages, TextPages)' = TextAccumulated(accumulated_pages, TextPages)
  BY SamePdf DEF TextAccumulated
<1> QED BY <1>1, <1>2, SamePdf DEF TextInv

LEMMA RowsNext ==
  ASSUME pdf' = pdf, extracted_pages' = extracted_pages, accumulated_pages' = accumulated_pages,
         Assembled' = Assembled, ElementPages' = ElementPages, stage # "done", stage' # "done", RowsInv, TextInv
  PROVE  RowsInv' /\ TextInv'
<1>1. OfKind("structured")' = OfKind("structured") /\ OfKind("image")' = OfKind("image") /\ OfKind("text")' = OfKind("text")
  BY KindFact
<1>2. RowsInv'
  BY <1>1, SamePdf DEF RowsInv
<1>3. TextPages' = TextPages
  BY DEF TextPages
<1> QED BY <1>1, <1>2, <1>3, TextKept

\* A call goes on: it stays a call for its pages.
Changes(fs, new, i, f) ==
  /\ CallsInv(new) /\ Len(new) = Len(fs) /\ new[i] = f /\ \A j \in 1..Len(fs) : j # i => new[j] = fs[j]
  /\ \A m : Given(new, m) = Given(fs, m)
  /\ (f.at = "gathered" <=> fs[i].at = "gathered") => \A m : Gathered(new, m) = Gathered(fs, m)
  /\ f.at = "gathered" =>
       \A m : Gathered(new, m) = Gathered(fs, m) \cup (IF m = f.model THEN ToSet(f.pages) ELSE {})

LEMMA CallChanged ==
  ASSUME NEW fs, CallsInv(fs), NEW i \in 1..Len(fs), NEW f, IsCall(f), f.model = fs[i].model, f.pages = fs[i].pages,
         NEW new, new = [fs EXCEPT ![i] = f]
  PROVE  Changes(fs, new, i, f)
<1> DEFINE n == Len(fs)
<1>1. n \in Nat /\ DOMAIN fs = 1..n /\ fs = [j \in 1..n |-> fs[j]]
  BY DEF CallsInv
<1>2. new[i] = f /\ (\A j \in 1..n : j # i => new[j] = fs[j]) /\ new = [j \in 1..n |-> new[j]]
  BY <1>1
<1>3. Len(new) = n
  <2> DEFINE T == {new[j] : j \in 1..n}
  <2>1. \A j \in 1..n : new[j] \in T
    OBVIOUS
  <2> HIDE DEF T
  <2> QED BY <2>1, <1>1, <1>2, FunctionIsSeq
<1>4. \A j \in 1..n : IsCall(new[j]) /\ new[j].model = fs[j].model /\ new[j].pages = fs[j].pages
  BY <1>2 DEF CallsInv
<1>5. \A j, k \in 1..n : j # k /\ new[j].model = new[k].model => ToSet(new[j].pages) \cap ToSet(new[k].pages) = {}
  <2> SUFFICES ASSUME NEW j \in 1..n, NEW k \in 1..n, j # k, new[j].model = new[k].model
               PROVE  ToSet(new[j].pages) \cap ToSet(new[k].pages) = {}
    OBVIOUS
  <2>1. fs[j].model = fs[k].model
    BY <1>4
  <2>2. ToSet(fs[j].pages) \cap ToSet(fs[k].pages) = {}
    BY <2>1 DEF CallsInv
  <2> QED BY <2>2, <1>4
<1>6. CallsInv(new)
  BY <1>1, <1>2, <1>3, <1>4, <1>5 DEF CallsInv
<1> HIDE DEF n
<1>a. n = Len(fs) /\ n = Len(new)
  BY <1>3 DEF n
<1>7. ASSUME NEW m PROVE Given(new, m) = Given(fs, m)
  <2>1. ASSUME NEW x \in Given(new, m) PROVE x \in Given(fs, m)
    <3>1. PICK j \in 1..Len(new) : new[j].model = m /\ x \in ToSet(new[j].pages)
      BY ONLY <2>1, GivenFact
    <3>2. j \in 1..Len(fs) /\ fs[j].model = m /\ x \in ToSet(fs[j].pages)
      BY <3>1, <1>a, <1>4
    <3> QED BY ONLY <3>2, GivenFact
  <2>2. ASSUME NEW x \in Given(fs, m) PROVE x \in Given(new, m)
    <3>1. PICK j \in 1..Len(fs) : fs[j].model = m /\ x \in ToSet(fs[j].pages)
      BY ONLY <2>2, GivenFact
    <3>2. j \in 1..Len(new) /\ new[j].model = m /\ x \in ToSet(new[j].pages)
      BY <3>1, <1>a, <1>4
    <3> QED BY ONLY <3>2, GivenFact
  <2> QED BY <2>1, <2>2
<1>8. ASSUME NEW m PROVE
        /\ \A x : x \in Gathered(new, m) <=>
             \E j \in 1..n : fs[j].model = m /\ new[j].at = "gathered" /\ x \in ToSet(fs[j].pages)
        /\ \A x : x \in Gathered(fs, m) <=>
             \E j \in 1..n : fs[j].model = m /\ fs[j].at = "gathered" /\ x \in ToSet(fs[j].pages)
  <2>1. ASSUME NEW x \in Gathered(new, m)
        PROVE  \E j \in 1..n : fs[j].model = m /\ new[j].at = "gathered" /\ x \in ToSet(fs[j].pages)
    <3>1. PICK j \in 1..Len(new) : new[j].model = m /\ new[j].at = "gathered" /\ x \in ToSet(new[j].pages)
      BY ONLY <2>1, GivenFact
    <3> QED BY <3>1, <1>a, <1>4
  <2>2. ASSUME NEW x, NEW j \in 1..n, fs[j].model = m /\ new[j].at = "gathered" /\ x \in ToSet(fs[j].pages)
        PROVE  x \in Gathered(new, m)
    <3>1. j \in 1..Len(new) /\ new[j].model = m /\ new[j].at = "gathered" /\ x \in ToSet(new[j].pages)
      BY <2>2, <1>a, <1>4
    <3> QED BY ONLY <3>1, GivenFact
  <2>3. \A x : x \in Gathered(fs, m) <=> \E j \in 1..n : fs[j].model = m /\ fs[j].at = "gathered" /\ x \in ToSet(fs[j].pages)
    <3>1. \A x : x \in Gathered(fs, m) <=>
             \E j \in 1..Len(fs) : fs[j].model = m /\ fs[j].at = "gathered" /\ x \in ToSet(fs[j].pages)
      BY ONLY GivenFact
    <3> QED BY ONLY <3>1, <1>a
  <2> QED BY <2>1, <2>2, <2>3
<1>9. ASSUME f.at = "gathered" <=> fs[i].at = "gathered", NEW m PROVE Gathered(new, m) = Gathered(fs, m)
  <2>1. \A j \in 1..n : new[j].at = "gathered" <=> fs[j].at = "gathered"
    BY <1>2, <1>9
  <2>2. ASSUME NEW x PROVE x \in Gathered(new, m) <=> x \in Gathered(fs, m)
    BY ONLY <2>1, <1>8
  <2> QED BY <2>2
<1>10. ASSUME f.at = "gathered", NEW m
       PROVE  Gathered(new, m) = Gathered(fs, m) \cup (IF m = f.model THEN ToSet(f.pages) ELSE {})
  <2>1. \A j \in 1..n : new[j].at = "gathered" <=> fs[j].at = "gathered" \/ j = i
    BY <1>2, <1>10
  <2>2. \A x : x \in Gathered(new, m) <=> x \in Gathered(fs, m) \/ (m = f.model /\ x \in ToSet(f.pages))
    <3> SUFFICES ASSUME NEW x PROVE x \in Gathered(new, m) <=> x \in Gathered(fs, m) \/ (m = f.model /\ x \in ToSet(f.pages))
      OBVIOUS
    <3>1. ASSUME x \in Gathered(new, m) PROVE x \in Gathered(fs, m) \/ (m = f.model /\ x \in ToSet(f.pages))
      <4>1. \E j \in 1..n : fs[j].model = m /\ new[j].at = "gathered" /\ x \in ToSet(fs[j].pages)
        BY ONLY <3>1, <1>8
      <4>2. PICK j \in 1..n : fs[j].model = m /\ new[j].at = "gathered" /\ x \in ToSet(fs[j].pages)
        BY <4>1
      <4> QED BY ONLY <4>2, <2>1, <1>8, f.model = fs[i].model, f.pages = fs[i].pages
    <3>2. ASSUME x \in Gathered(fs, m) PROVE x \in Gathered(new, m)
      <4>1. PICK j \in 1..n : fs[j].model = m /\ fs[j].at = "gathered" /\ x \in ToSet(fs[j].pages)
        BY ONLY <3>2, <1>8
      <4> QED BY ONLY <4>1, <2>1, <1>8
    <3>3. ASSUME m = f.model, x \in ToSet(f.pages) PROVE x \in Gathered(new, m)
      BY ONLY <3>3, <2>1, <1>8, i \in 1..Len(fs), <1>a, f.model = fs[i].model, f.pages = fs[i].pages
    <3> QED BY <3>1, <3>2, <3>3
  <2> QED BY <2>2
<1> QED BY ONLY <1>a, <1>2, <1>3, <1>6, <1>7, <1>9, <1>10 DEF Changes

\* What a change of the calls that gathers nothing keeps.
LEMMA ListsOfCalls ==
  ASSUME NEW fs, NEW new, Len(new) = Len(fs), \A m : Given(new, m) = Given(fs, m),
         \A i \in 1..Len(fs) : new[i].model = fs[i].model /\ new[i].pages = fs[i].pages
  PROVE  /\ \A m, list, n : ListInv(fs, m, list, n) => ListInv(new, m, list, n)
         /\ \A list, n : InOneCall(fs, list, n) => InOneCall(new, list, n)
BY DEF ListInv, Shared, InOneCall

\* The sets of pages the rows are made of, of the calls.
LEMMA PagesSame ==
  ASSUME pdf' = pdf, pdf.method = "pdfium" => page_idx' = page_idx, Waiting' = Waiting,
         \A m \in Models : Gathered(futures', m) = Gathered(futures, m)
  PROVE  Assembled' = Assembled /\ ElementPages' = ElementPages
<1>1. "yolox" \in Models /\ "parser" \in Models
  BY DEF Models
<1>2. Assembled' = Assembled
  BY <1>1 DEF Assembled
<1> QED BY <1>1, <1>2 DEF ElementPages

PdfRunning == PdfInv /\ stage # "failed"

LEMMA RunningFact ==
  ASSUME PdfRunning
  PROVE  /\ PageCount \in Nat /\ page_idx \in Nat /\ page_idx \in 1..(PageCount + 1) /\ IsRequest(pdf)
         /\ PdfTypeOK /\ CallsInv(futures) /\ ListsInv /\ ResultsInv /\ RowsInv /\ TextInv
BY PageFact DEF PdfRunning, PdfInv, PdfTypeOK

LEMMA CallGoesOn ==
  ASSUME PdfRunning, stage # "done", NEW i \in 1..Len(futures), NEW f, IsCall(f), futures' = [futures EXCEPT ![i] = f],
         f.model = futures[i].model, f.pages = futures[i].pages, f.at # "gathered", futures[i].at # "gathered",
         UNCHANGED <<pdf, page_idx, pages_for_tables, pages_for_ocr, parser_results,
                     accumulated_pages, extracted_pages, stage>>
  PROVE  PdfInv'
<1>1. CallsInv(futures) /\ ListsInv /\ ResultsInv /\ RowsInv /\ TextInv /\ page_idx \in Nat
  BY RunningFact
<1>2. /\ CallsInv(futures') /\ Len(futures') = Len(futures) /\ futures'[i] = f
      /\ \A j \in 1..Len(futures) : j # i => futures'[j] = futures[j]
      /\ \A m : Given(futures', m) = Given(futures, m)
      /\ \A m : Gathered(futures', m) = Gathered(futures, m)
  <2>1. CallsInv(futures)
    BY <1>1
  <2>2. f.at = "gathered" <=> futures[i].at = "gathered"
    OBVIOUS
  <2>3. /\ CallsInv(futures') /\ Len(futures') = Len(futures) /\ futures'[i] = f
        /\ \A j \in 1..Len(futures) : j # i => futures'[j] = futures[j]
        /\ \A m : Given(futures', m) = Given(futures, m)
        /\ (f.at = "gathered" <=> futures[i].at = "gathered") => \A m : Gathered(futures', m) = Gathered(futures, m)
    <3> PICK fs : fs = futures
      OBVIOUS
    <3> PICK new : new = futures'
      OBVIOUS
    <3>1. CallsInv(fs) /\ i \in 1..Len(fs) /\ f.model = fs[i].model /\ f.pages = fs[i].pages /\ new = [fs EXCEPT ![i] = f]
      BY <2>1
    <3>2. Changes(fs, new, i, f)
      BY ONLY <3>1, IsCall(f), CallChanged
    <3> QED BY <3>2 DEF Changes
  <2> QED BY <2>2, <2>3
<1>3. \A j \in 1..Len(futures) : futures'[j].model = futures[j].model /\ futures'[j].pages = futures[j].pages
  BY <1>2
<1>4. /\ \A m, list, n : ListInv(futures, m, list, n) => ListInv(futures', m, list, n)
      /\ \A list, n : InOneCall(futures, list, n) => InOneCall(futures', list, n)
  BY <1>2, <1>3, ListsOfCalls
<1>5. ListsInv'
  BY <1>1, <1>4, ListsParts, ListsNext
<1>6. ~ stage \in {"assemble", "done"}
  BY <1>1 DEF ResultsInv
<1>7. ResultsInv' /\ Waiting' = Waiting
  <2>1. stage' = "pages" => \A m \in Models : Gathered(futures', m) = {}
    BY <1>1, <1>2 DEF ResultsInv
  <2> QED BY <2>1, <1>1, <1>2, <1>6, ResultsNext
<1>8. Assembled' = Assembled /\ ElementPages' = ElementPages
  BY <1>2, <1>7, PagesSame
<1>9. RowsInv' /\ TextInv'
  BY <1>1, <1>8, RowsNext
<1>10. PdfTypeOK'
  BY RunningFact, SamePdf DEF PdfTypeOK
<1>11. CallsInv(futures)'
  BY <1>2, CallsNext
<1> QED BY <1>5, <1>7, <1>9, <1>10, <1>11 DEF PdfInv

LEMMA StartCallFact ==
  ASSUME PdfRunning, NEW i \in 1..Len(futures), StartCall(i)
  PROVE  PdfInv'
<1> DEFINE f == [futures[i] EXCEPT !.at = "running"]
<1>1. IsCall(futures[i]) /\ futures[i].at = "submitted" /\ stage # "done"
  BY RunningFact DEF StartCall, CallsInv, ResultsInv
<1>2. IsCall(f) /\ f.model = futures[i].model /\ f.pages = futures[i].pages /\ f.at = "running"
  BY <1>1 DEF IsCall
<1>3. futures' = [futures EXCEPT ![i] = f]
  BY DEF StartCall
<1> HIDE DEF f
<1> QED BY <1>1, <1>2, <1>3, CallGoesOn DEF StartCall

LEMMA EndCallFact ==
  ASSUME PdfRunning, NEW i \in 1..Len(futures), EndCall(i)
  PROVE  PdfInv'
<1> DEFINE f == [futures[i] EXCEPT !.at = "ended", !.items = Items(futures[i].model, futures[i].pages)]
           g == [futures[i] EXCEPT !.at = "raised"]
<1>1. IsCall(futures[i]) /\ futures[i].at = "running" /\ stage # "done"
  BY RunningFact DEF EndCall, CallsInv, ResultsInv
<1>2. IsCall(f) /\ f.model = futures[i].model /\ f.pages = futures[i].pages /\ f.at = "ended"
  <2> DEFINE m == futures[i].model
             s == futures[i].pages
             r == Items(m, s)
  <2>1. f = [model |-> m, pages |-> s, at |-> "ended", items |-> r]
    <3> HIDE DEF r
    <3>1. f = [futures[i] EXCEPT !.at = "ended", !.items = r]
      BY DEF r
    <3> HIDE DEF f
    <3> QED BY <3>1, <1>1 DEF IsCall
  <2>2. m \in Models /\ On(m) /\ Lists(s, ToSet(s)) /\ ToSet(s) \subseteq 1..PageCount
    BY <1>1 DEF IsCall
  <2> HIDE DEF f, m, s
  <2>3. f.model = m /\ f.pages = s /\ f.at = "ended" /\ f.items = Items(m, s)
    BY <2>1
  <2> HIDE DEF r
  <2>4. f = [model |-> f.model, pages |-> f.pages, at |-> f.at, items |-> f.items]
    BY <2>1
  <2> QED BY <2>2, <2>3, <2>4 DEF IsCall, m, s
<1>3. IsCall(g) /\ g.model = futures[i].model /\ g.pages = futures[i].pages /\ g.at = "raised"
  BY <1>1 DEF IsCall
<1>4. futures' = [futures EXCEPT ![i] = f] \/ futures' = [futures EXCEPT ![i] = g]
  BY DEF EndCall, Items
<1> HIDE DEF f, g
<1> QED BY <1>1, <1>2, <1>3, <1>4, CallGoesOn DEF EndCall

-----------------------------------------------------------------------------
(* The first state.                                                        *)

LEMMA PdfFirst ==
  ASSUME PdfInit
  PROVE  PdfInv
<1>1. IsRequest(pdf) /\ PageCount \in Nat /\ page_idx = 1 /\ stage = "pages"
  BY PdfAssumption, PageFact DEF PdfInit
<1>2. PdfTypeOK
  BY <1>1 DEF PdfTypeOK
<1>3. futures = <<>> /\ Len(futures) = 0 /\ 1..0 = {}
  BY DEF PdfInit
<1>4. CallsInv(futures)
  BY <1>3 DEF CallsInv
<1>5. (\A m : Given(futures, m) = {} /\ Gathered(futures, m) = {}) /\ \A m : Waits(m) = <<>>
  BY <1>3 DEF Given, Gathered, Waits, PdfInit
<1>6. Lists(<<>>, {}) /\ Lists(<<>>, ToSet(<<>>)) /\ ToSet(<<>>) = {} /\ Len(<<>>) = 0 /\ <<>> \in Seq(Nat)
  BY ListsNothing, ListsSet
<1>7. ListsInv
  <2>1. \A m : Shared(futures, m, <<>>, page_idx - 1)
    <3>1. page_idx - 1 = 0
      BY <1>1
    <3> QED BY <3>1, <1>3, <1>5, <1>6 DEF Shared
  <2>2. InOneCall(futures, <<>>, page_idx - 1)
    BY <1>1, <1>3, <1>6 DEF InOneCall
  <2>3. pages_for_ocr = <<>>
    BY DEF PdfInit
  <2>4. \A m \in Models : IF On(m) THEN Shared(futures, m, Waits(m), page_idx - 1)
                          ELSE Waits(m) \in Seq(Nat) /\ Len(Waits(m)) < page_idx
    <3> SUFFICES ASSUME NEW m \in Models
                 PROVE  IF On(m) THEN Shared(futures, m, Waits(m), page_idx - 1)
                        ELSE Waits(m) \in Seq(Nat) /\ Len(Waits(m)) < page_idx
      OBVIOUS
    <3>1. Waits(m) = <<>> /\ Len(<<>>) < page_idx
      BY <1>1, <1>5, <1>6
    <3> QED BY <3>1, <1>6, <2>1
  <2> QED BY <1>1, <2>2, <2>3, <2>4 DEF ListsInv
<1>8. Waiting = {} /\ ResultsInv
  <2>1. parser_results = <<>> /\ Waiting = {}
    BY <1>3 DEF PdfInit, Waiting
  <2>2. {Answer(p) : p \in Waiting} = {}
    BY <2>1
  <2> QED BY <2>1, <2>2, <1>1, <1>3, <1>5, <1>6 DEF ResultsInv
<1>9. Assembled = {} /\ ElementPages = {} /\ TextPages = {}
  BY <1>1, <1>3, <1>5 DEF Assembled, ElementPages, TextPages
<1>10. extracted_pages = <<>> /\ \A kind : OfKind(kind) = <<>>
  <2>1. extracted_pages = <<>> /\ extracted_pages \in Seq(RowSet) /\ Len(extracted_pages) = 0
    BY DEF PdfInit
  <2>2. \A kind : KindOf(extracted_pages, kind) = FlattenSeq(<<>>)
    BY <2>1 DEF KindOf
  <2> QED BY <2>1, <2>2, KindFact, FlattenEmpty
<1>11. ElementRowsOn({}) = {} /\ ImageRowsOn({}) = {} /\ TextRowsOn({}) = {} /\ TextOn({}) = {}
  BY DEF ElementRowsOn, ImageRowsOn, TextRowsOn, TextOn, OnPages
<1>12. RowsInv
  <2>1. <<>> \in Seq(RowSet)
    OBVIOUS
  <2> QED BY <2>1, <1>6, <1>9, <1>10, <1>11 DEF RowsInv
<1>13. TextRowsInv(<<>>, {})
  <2>1. \A k : k \notin 1..Len(<<>>)
    BY <1>6
  <2> QED BY <2>1, <1>6, <1>11 DEF TextRowsInv
<1>14. TextAccumulated(<<>>, {})
  <2>1. ASSUME NEW n \in Nat, {} = 1..n PROVE <<>> = FlattenSeq([p \in 1..n |-> TextOf(p)])
    <3>1. n = 0
      BY <2>1, <1>3, IntervalsEqual
    <3>2. [p \in 1..n |-> TextOf(p)] = <<>>
      BY <3>1
    <3> QED BY <3>2, FlattenEmpty
  <2> QED BY <2>1, <1>6, <1>11 DEF TextAccumulated
<1>15. TextInv
  <2>1. {} = 1..0 /\ 0 \in Nat
    OBVIOUS
  <2>2. accumulated_pages = <<>>
    BY DEF PdfInit
  <2> QED BY <2>1, <2>2, <1>1, <1>9, <1>10, <1>13, <1>14 DEF TextInv
<1> QED BY <1>1, <1>2, <1>4, <1>7, <1>8, <1>12, <1>15 DEF PdfInv

-----------------------------------------------------------------------------
(* A call is gathered.                                                     *)

\* A document that fails keeps nothing but its type.
LEMMA PdfFails ==
  ASSUME PdfRunning, UNCHANGED <<pdf, page_idx>>, stage' = "failed"
  PROVE  PdfInv'
BY RunningFact, SamePdf DEF PdfInv, PdfTypeOK

LEMMA NotGathered ==
  ASSUME CallsInv(futures), NEW i \in 1..Len(futures), futures[i].at # "gathered"
  PROVE  ToSet(futures[i].pages) \cap Gathered(futures, futures[i].model) = {}
<1> SUFFICES ASSUME NEW x, x \in ToSet(futures[i].pages), x \in Gathered(futures, futures[i].model) PROVE FALSE
  OBVIOUS
<1>1. PICK j \in 1..Len(futures) :
        futures[j].model = futures[i].model /\ futures[j].at = "gathered" /\ x \in ToSet(futures[j].pages)
  BY GivenFact
<1> QED BY <1>1 DEF CallsInv

LEMMA GatheredPages ==
  ASSUME CallsInv(futures), NEW m
  PROVE  Gathered(futures, m) \subseteq 1..PageCount
<1> SUFFICES ASSUME NEW x \in Gathered(futures, m) PROVE x \in 1..PageCount
  OBVIOUS
<1>1. PICK j \in 1..Len(futures) : x \in ToSet(futures[j].pages)
  BY GivenFact
<1> QED BY <1>1 DEF CallsInv, IsCall

\* What every call that is gathered changes.
LEMMA GatherCall ==
  ASSUME PdfRunning, NEW i \in 1..Len(futures), Gather(i)
  PROVE  /\ CallsInv(futures') /\ ListsInv' /\ PdfTypeOK' /\ Len(futures') = Len(futures)
         /\ futures[i].model \in Models
         /\ Gathered(futures', futures[i].model) = Gathered(futures, futures[i].model) \cup ToSet(futures[i].pages)
         /\ \A m : m # futures[i].model => Gathered(futures', m) = Gathered(futures, m)
<1> DEFINE f == [futures[i] EXCEPT !.at = "gathered"]
<1>1. IsCall(futures[i]) /\ CallsInv(futures) /\ ListsInv /\ page_idx \in Nat
  BY RunningFact DEF CallsInv
<1>2. IsCall(f) /\ f.model = futures[i].model /\ f.pages = futures[i].pages /\ f.at = "gathered" /\ f.model \in Models
  BY <1>1 DEF IsCall
<1>3. futures' = [futures EXCEPT ![i] = f]
  BY DEF Gather
<1> HIDE DEF f
<1>4. Changes(futures, futures', i, f)
  <2> PICK fs : fs = futures
    OBVIOUS
  <2> PICK new : new = futures'
    OBVIOUS
  <2>1. CallsInv(fs) /\ i \in 1..Len(fs) /\ f.model = fs[i].model /\ f.pages = fs[i].pages /\ new = [fs EXCEPT ![i] = f]
    BY <1>1, <1>2, <1>3
  <2>2. Changes(fs, new, i, f)
    BY ONLY <2>1, <1>2, CallChanged
  <2> QED BY <2>2
<1>5. \A j \in 1..Len(futures) : futures'[j].model = futures[j].model /\ futures'[j].pages = futures[j].pages
  BY <1>2, <1>4 DEF Changes
<1>6. /\ \A m, list, n : ListInv(futures, m, list, n) => ListInv(futures', m, list, n)
      /\ \A list, n : InOneCall(futures, list, n) => InOneCall(futures', list, n)
  <2>1. Len(futures') = Len(futures) /\ \A m : Given(futures', m) = Given(futures, m)
    BY <1>4 DEF Changes
  <2> QED BY <2>1, <1>5, ListsOfCalls
<1>7. ListsInv'
  <2>1. UNCHANGED <<pdf, page_idx, pages_for_tables, pages_for_ocr>> /\ (stage' # "pages" /\ stage # "pages")
    BY DEF Gather
  <2> QED BY <2>1, <1>1, <1>6, ListsParts, ListsNext
<1>8. PdfTypeOK'
  BY RunningFact, SamePdf DEF PdfTypeOK, Gather
<1> QED BY <1>2, <1>4, <1>7, <1>8 DEF Changes

LEMMA GatherYolox ==
  ASSUME PdfRunning, NEW i \in 1..Len(futures), Gather(i), futures[i].at = "ended", futures[i].model = "yolox"
  PROVE  PdfInv'
<1> DEFINE pages == futures[i].pages
           items == futures[i].items
           T == Gathered(futures, "yolox")
<1>1. /\ IsRequest(pdf) /\ CallsInv(futures) /\ ListsInv /\ ResultsInv /\ RowsInv /\ TextInv
      /\ IsCall(futures[i]) /\ stage = "gather" /\ stage' = "gather"
  BY RunningFact DEF CallsInv, Gather
<1>2. /\ CallsInv(futures') /\ ListsInv' /\ PdfTypeOK'
      /\ Gathered(futures', "yolox") = T \cup ToSet(pages) /\ Gathered(futures', "parser") = Gathered(futures, "parser")
  BY <1>1, GatherCall
<1>3. /\ pdf' = pdf /\ page_idx' = page_idx /\ parser_results' = parser_results
      /\ accumulated_pages' = accumulated_pages /\ extracted_pages' = extracted_pages \o items
  BY DEF Gather
<1>4. ResultsInv' /\ Waiting' = Waiting
  BY <1>1, <1>2, <1>3, ResultsNext
<1>5. LooksForElements /\ Lists(pages, ToSet(pages)) /\ ToSet(pages) \subseteq 1..PageCount /\ items = Items("yolox", pages)
  BY <1>1 DEF IsCall, On
<1>6. Lists(items, ElementRowsOn(ToSet(pages)))
  BY <1>1, <1>5, ItemsListed DEF ElementRowsOn
<1>7. ToSet(pages) \cap T = {} /\ T \subseteq 1..PageCount
  BY <1>1, NotGathered, GatheredPages
<1> HIDE DEF pages, items
<1>8. /\ ElementRowsOn(T \cup ToSet(pages)) = ElementRowsOn(T) \cup ElementRowsOn(ToSet(pages))
      /\ ElementRowsOn(T) \cap ElementRowsOn(ToSet(pages)) = {}
  <2> DEFINE P == ToSet(pages)
  <2> HIDE DEF T, P
  <2>1. P \subseteq 1..PageCount /\ T \subseteq 1..PageCount /\ T \cap P = {} /\ IsRequest(pdf)
    BY <1>1, <1>5, <1>7 DEF P
  <2>2. /\ ElementRowsOn(T \cup P) = ElementRowsOn(T) \cup ElementRowsOn(P)
        /\ ElementRowsOn(T) \cap ElementRowsOn(P) = {}
    BY ONLY <2>1, OnJoin, ZenonT(60)
  <2> QED BY <2>2 DEF P
<1>9. OfOneKind(items, "structured")
  BY <1>1, <1>5, <1>6, RowTypes
<1>10. /\ extracted_pages' \in Seq(RowSet) /\ OfKind("structured")' = OfKind("structured") \o items
       /\ OfKind("image")' = OfKind("image") /\ OfKind("text")' = OfKind("text")
  <2>1. extracted_pages \in Seq(RowSet)
    BY <1>1 DEF RowsInv
  <2>2. /\ extracted_pages \o items \in Seq(RowSet)
        /\ \A k : KindOf(extracted_pages \o items, k) =
                 IF k = "structured" THEN KindOf(extracted_pages, k) \o items ELSE KindOf(extracted_pages, k)
    BY ONLY <2>1, <1>9, AddRows
  <2>3. /\ KindOf(extracted_pages', "structured") = KindOf(extracted_pages, "structured") \o items
        /\ KindOf(extracted_pages', "image") = KindOf(extracted_pages, "image")
        /\ KindOf(extracted_pages', "text") = KindOf(extracted_pages, "text")
    BY <1>3, <2>2
  <2> QED BY <1>3, <2>2, <2>3, KindFact
<1>11. Assembled' = Assembled
  BY <1>2, <1>3, <1>4 DEF Assembled
<1>12. ElementPages = T /\ ElementPages' = T \cup ToSet(pages)
  BY <1>2, <1>3, <1>5 DEF ElementPages, LooksForElements
<1>13. RowsInv'
  <2>1. Lists(OfKind("structured") \o items, ElementRowsOn(T \cup ToSet(pages)))
    <3> DEFINE old == OfKind("structured")
               E == ElementRowsOn(T)
               F == ElementRowsOn(ToSet(pages))
               EF == ElementRowsOn(T \cup ToSet(pages))
    <3>1. Lists(old, E) /\ Lists(items, F) /\ EF = E \cup F /\ E \cap F = {}
      BY <1>1, <1>6, <1>8, <1>12 DEF RowsInv
    <3> HIDE DEF old, E, F, EF
    <3>2. Lists(old \o items, EF)
      BY ONLY <3>1, ListsJoin
    <3> QED BY <3>2 DEF old, EF
  <2>2. ElementRowsOn(ElementPages)' = ElementRowsOn(T \cup ToSet(pages)) /\ ImageRowsOn(Assembled)' = ImageRowsOn(Assembled)
    <3>1. \A U : ElementRowsOn(U)' = ElementRowsOn(U) /\ ImageRowsOn(U)' = ImageRowsOn(U)
      BY <1>3, SamePdf
    <3>2. ElementRowsOn(ElementPages)' = ElementRowsOn(T \cup ToSet(pages))
      <4> HIDE DEF T
      <4> QED BY <1>3, <1>12, SamePdf
    <3> QED BY <3>2, <1>3, <1>11, SamePdf
  <2>3. Lists(OfKind("image"), ImageRowsOn(Assembled))
    BY <1>1 DEF RowsInv
  <2> HIDE DEF T
  <2> QED BY <1>10, <2>1, <2>2, <2>3 DEF RowsInv
<1>14. TextInv'
  <2>1. TextPages' = TextPages
    BY <1>3, <1>11 DEF TextPages
  <2> QED BY <2>1, <1>1, <1>3, <1>10, TextKept
<1>15. CallsInv(futures)'
  BY <1>2, <1>3, CallsNext
<1> QED BY <1>2, <1>4, <1>13, <1>14, <1>15 DEF PdfInv

LEMMA GatherParser ==
  ASSUME PdfRunning, NEW i \in 1..Len(futures), Gather(i), futures[i].at = "ended", futures[i].model = "parser"
  PROVE  PdfInv'
<1> DEFINE pages == futures[i].pages
           items == futures[i].items
           T == Gathered(futures, "parser")
<1>1. /\ IsRequest(pdf) /\ CallsInv(futures) /\ ListsInv /\ ResultsInv /\ RowsInv /\ TextInv /\ page_idx \in Nat
      /\ IsCall(futures[i]) /\ stage = "gather" /\ stage' = "gather"
  BY RunningFact DEF CallsInv, Gather
<1>2. /\ CallsInv(futures') /\ ListsInv' /\ PdfTypeOK'
      /\ Gathered(futures', "parser") = T \cup ToSet(pages) /\ Gathered(futures', "yolox") = Gathered(futures, "yolox")
  BY <1>1, GatherCall
<1>3. /\ pdf' = pdf /\ page_idx' = page_idx /\ parser_results' = parser_results \o items
      /\ accumulated_pages' = accumulated_pages /\ extracted_pages' = extracted_pages
  BY <1>1 DEF Gather
<1>5. /\ On("parser") /\ pdf.method # "pdfium" /\ items = Items("parser", pages)
      /\ Lists(pages, ToSet(pages)) /\ ToSet(pages) \subseteq 1..PageCount
  BY <1>1 DEF IsCall, On
<1>6. Lists(items, {Answer(p) : p \in ToSet(pages)})
  BY <1>1, <1>5, ItemsListed
<1>7. ToSet(pages) \cap T = {} /\ T \subseteq 1..PageCount /\ Waiting = T
  BY <1>1, NotGathered, GatheredPages DEF ResultsInv
<1>8. items = [k \in 1..Len(pages) |-> Answer(pages[k])] /\ Len(pages) \in Nat
  BY <1>5, ListsSet DEF Items, _extract_text_and_bounding_boxes, Rows, Answer
<1>9. PageCount <= NEMORETRIEVER_PARSE_MAX_BATCH_SIZE => pages = AllPages
  BY <1>1, <1>5, ListsParts DEF InOneCall
<1> DEFINE new == parser_results \o items
           A == {Answer(p) : p \in T}
           B == {Answer(p) : p \in ToSet(pages)}
           AB == {Answer(p) : p \in T \cup ToSet(pages)}
<1>10. Lists(parser_results, A)
  BY <1>1, <1>7 DEF ResultsInv
<1>11. AB = A \cup B /\ A \cap B = {}
  BY <1>7 DEF Answer
<1> HIDE DEF pages, items
<1>12. Lists(new, AB)
  <2> HIDE DEF A, B, AB
  <2> QED BY <1>6, <1>10, <1>11, ListsJoin DEF B
<1>13. Waiting' = T \cup ToSet(pages)
  <2>1. ToSet(new) = AB /\ ToSet(new) = {new[k] : k \in 1..Len(new)}
    <3>1. ToSet(new) = AB /\ DOMAIN new = 1..Len(new)
      <4> HIDE DEF AB, new
      <4> QED BY <1>12, ListsSet
    <3> HIDE DEF new, AB
    <3> QED BY <3>1 DEF ToSet
  <2>2. Waiting' = {new[k].page : k \in 1..Len(new)}
    BY <1>3 DEF Waiting
  <2> HIDE DEF new, T
  <2>3. \A x : x \in {new[k].page : k \in 1..Len(new)} <=> \E y \in AB : x = y.page
    <3> HIDE DEF AB
    <3>1. \A y : y \in AB <=> \E k \in 1..Len(new) : y = new[k]
      BY <2>1
    <3> QED BY <3>1
  <2>4. \A x : (\E y \in AB : x = y.page) <=> x \in T \cup ToSet(pages)
    <3>1. \A q : Answer(q).page = q
      BY DEF Answer
    <3>2. \A q \in T \cup ToSet(pages) : Answer(q) \in AB
      OBVIOUS
    <3>3. \A y \in AB : \E q \in T \cup ToSet(pages) : y = Answer(q)
      OBVIOUS
    <3> HIDE DEF AB
    <3> QED BY <3>1, <3>2, <3>3
  <2> QED BY <2>2, <2>3, <2>4
<1>14. PageCount <= NEMORETRIEVER_PARSE_MAX_BATCH_SIZE =>
         \A k \in 1..Len(new) : new[k].page = PageCount - Len(new) + k
  <2> SUFFICES ASSUME PageCount <= NEMORETRIEVER_PARSE_MAX_BATCH_SIZE
               PROVE  \A k \in 1..Len(new) : new[k].page = PageCount - Len(new) + k
    OBVIOUS
  <2>1. pages = AllPages /\ PageCount \in Nat
    BY <1>1, <1>9, PageFact
  <2>2. Len(pages) = PageCount /\ \A k \in 1..PageCount : pages[k] = k
    <3>1. AllPages \in Seq(Nat) /\ Len(AllPages) = PageCount
      BY <2>1 DEF AllPages
    <3> QED BY <2>1, <3>1 DEF AllPages
  <2>3. ToSet(pages) = 1..PageCount
    <3>1. \A k \in 1..PageCount : k \in ToSet(pages)
      BY <1>5, <2>2, ListsSet DEF pages
    <3> QED BY <3>1, <1>5 DEF pages
  <2>4. T = {}
    BY <1>7, <2>3
  <2>5. parser_results = <<>>
    <3>1. Lists(parser_results, {})
      BY <1>10, <2>4
    <3>2. Len(parser_results) = 0 /\ parser_results \in Seq({})
      BY <3>1, ListsCount, FS_EmptySet DEF Lists
    <3> QED BY <3>2, EmptySeq
  <2>6. items \in Seq(B) /\ Len(items) = PageCount
    <3>1. items \in Seq(B)
      BY <1>6 DEF Lists
    <3>2. DOMAIN items = 1..PageCount /\ DOMAIN items = 1..Len(items) /\ Len(items) \in Nat
      BY <1>8, <2>2, <3>1, LenProperties
    <3> QED BY <3>1, <3>2, <2>1, IntervalsEqual
  <2>7. new = items
    <3>1. <<>> \o items = items
      <4> HIDE DEF B
      <4> QED BY <2>6, ConcatEmptySeq
    <3> QED BY <2>5, <3>1
  <2>8. \A k \in 1..PageCount : new[k].page = k
    <3> HIDE DEF new
    <3> QED BY <1>8, <2>2, <2>7 DEF Answer
  <2> HIDE DEF new
  <2> QED BY <2>1, <2>6, <2>7, <2>8
<1> HIDE DEF new, A, B
<1>15. ResultsInv'
  <2>1. {Answer(p)' : p \in Waiting'} = AB
    BY <1>3, <1>13, SamePdf
  <2>2. PageCount' = PageCount /\ parser_results' = new
    BY <1>3, SamePdf DEF new
  <2>3. Lists(parser_results', {Answer(p)' : p \in Waiting'})
    BY <1>12, <2>1, <2>2
  <2>4. Waiting' = Gathered(futures', "parser")
    BY <1>2, <1>13
  <2>5. PageCount' <= NEMORETRIEVER_PARSE_MAX_BATCH_SIZE =>
          \A k \in 1..Len(parser_results') : parser_results'[k].page = PageCount' - Len(parser_results') + k
    BY <1>14, <2>2
  <2> HIDE DEF AB
  <2> QED BY <1>1, <2>3, <2>4, <2>5 DEF ResultsInv
<1>16. Assembled' = Assembled /\ ElementPages' = ElementPages
  <2>1. Assembled = {} /\ Assembled' = {}
    BY <1>2, <1>3, <1>5, <1>7, <1>13 DEF Assembled
  <2> QED BY <2>1, <1>2, <1>3 DEF ElementPages
<1>17. RowsInv' /\ TextInv'
  BY <1>1, <1>3, <1>16, RowsNext
<1>18. CallsInv(futures)'
  BY <1>2, <1>3, CallsNext
<1> QED BY <1>2, <1>15, <1>17, <1>18 DEF PdfInv

LEMMA GatherFact ==
  ASSUME PdfRunning, NEW i \in 1..Len(futures), Gather(i)
  PROVE  PdfInv'
<1>1. futures[i].at \in {"ended", "raised"} /\ futures[i].model \in Models
  BY RunningFact DEF Gather, CallsInv, IsCall
<1>2. CASE futures[i].at = "raised"
  <2>1. stage' = "failed" /\ UNCHANGED <<pdf, page_idx>>
    BY <1>2 DEF Gather
  <2> QED BY <2>1, PdfFails
<1> QED BY <1>1, <1>2, GatherYolox, GatherParser DEF Models

-----------------------------------------------------------------------------
(* The lists grow and are given to the pool.                               *)

PagesInv(fs, tables, ocr, n) ==
  /\ CallsInv(fs) /\ ListInv(fs, "yolox", tables, n) /\ ListInv(fs, "parser", ocr, n)
  /\ On("parser") => InOneCall(fs, ocr, n)
  /\ pdf.method = "pdfium" => ocr = <<>>
SameGathered(fs, new) == \A m \in Models : Gathered(new, m) = Gathered(fs, m)

LEMMA NothingSubmitted ==
  ASSUME NEW fs, CallsInv(fs), NEW m, NEW list, NEW most \in Nat \ {0},
         Len(list) \in Nat, Len(list) < most \/ list = <<>>
  PROVE  /\ fs \o Submitted(m, list, most) = fs /\ Kept(list, most) = list /\ fs \o <<>> = fs
<1>1. Submitted(m, list, most) = <<>>
  BY DEF Submitted
<1>2. Kept(list, most) = list
  BY DEF Kept
<1>3. fs \o <<>> = fs
  BY FunctionJoinEmpty DEF CallsInv
<1> QED BY <1>1, <1>2, <1>3

LEMMA GiveParser ==
  ASSUME IsRequest(pdf), NEW fs, NEW tables, NEW ocr, NEW n \in 0..PageCount, PagesInv(fs, tables, ocr, n),
         NEW most \in Nat \ {0},
         IF On("parser") THEN PageCount <= NEMORETRIEVER_PARSE_MAX_BATCH_SIZE /\ Len(ocr) >= most => n = PageCount
         ELSE Len(ocr) < most \/ ocr = <<>>
  PROVE  /\ PagesInv(fs \o Submitted("parser", ocr, most), tables, Kept(ocr, most), n)
         /\ SameGathered(fs, fs \o Submitted("parser", ocr, most))
<1> DEFINE new == fs \o Submitted("parser", ocr, most)
           kept == Kept(ocr, most)
<1>1. CallsInv(fs) /\ "parser" \in Models /\ "yolox" \in Models
  BY DEF PagesInv, Models
<1>2. CASE ~ On("parser")
  <2>1. Len(ocr) \in Nat
    BY <1>2, LenProperties DEF PagesInv, ListInv
  <2>2. new = fs /\ kept = ocr
    BY <1>1, <1>2, <2>1, NothingSubmitted, SMTT(30)
  <2> HIDE DEF new, kept
  <2>3. PagesInv(new, tables, kept, n) /\ SameGathered(fs, new)
    BY <2>2 DEF SameGathered
  <2> QED BY <2>3 DEF new, kept
<1>3. CASE On("parser")
  <2>1. Shared(fs, "parser", ocr, n) /\ InOneCall(fs, ocr, n)
    BY <1>3 DEF PagesInv, ListInv
  <2>2. /\ Submits(fs, new, "parser", ocr, kept, most) /\ CallsInv(new) /\ Shared(new, "parser", kept, n)
        /\ \A k \in Models : k # "parser" => Given(new, k) = Given(fs, k)
        /\ \A k \in Models : Gathered(new, k) = Gathered(fs, k)
    BY <1>1, <1>3, <2>1, SubmitFact
  <2> HIDE DEF new, kept
  <2>3. Lists(ocr, ToSet(ocr))
    BY <2>1 DEF Shared
  <2>4. InOneCall(new, kept, n)
    BY <1>1, <1>3, <2>1, <2>2, <2>3, OneCall
  <2>5. ListInv(new, "yolox", tables, n)
    BY <1>1, <2>2 DEF PagesInv, ListInv, Shared
  <2>6. pdf.method # "pdfium"
    BY <1>3 DEF On
  <2>7. PagesInv(new, tables, kept, n) /\ SameGathered(fs, new)
    BY <1>3, <2>2, <2>4, <2>5, <2>6 DEF PagesInv, ListInv, SameGathered
  <2> QED BY <2>7 DEF new, kept
<1> QED BY <1>2, <1>3

LEMMA GiveYolox ==
  ASSUME IsRequest(pdf), NEW fs, NEW tables, NEW ocr, NEW n \in 0..PageCount, PagesInv(fs, tables, ocr, n),
         NEW most \in Nat \ {0}, ~ On("yolox") => Len(tables) < most \/ tables = <<>>
  PROVE  /\ PagesInv(fs \o Submitted("yolox", tables, most), Kept(tables, most), ocr, n)
         /\ SameGathered(fs, fs \o Submitted("yolox", tables, most))
<1> DEFINE new == fs \o Submitted("yolox", tables, most)
           kept == Kept(tables, most)
<1>1. CallsInv(fs) /\ "parser" \in Models /\ "yolox" \in Models
  BY DEF PagesInv, Models
<1>2. CASE ~ On("yolox")
  <2>1. Len(tables) \in Nat
    BY <1>2, LenProperties DEF PagesInv, ListInv
  <2>2. new = fs /\ kept = tables
    BY <1>1, <1>2, <2>1, NothingSubmitted, SMTT(30)
  <2> HIDE DEF new, kept
  <2>3. PagesInv(new, kept, ocr, n) /\ SameGathered(fs, new)
    BY <2>2 DEF SameGathered
  <2> QED BY <2>3 DEF new, kept
<1>3. CASE On("yolox")
  <2>1. Shared(fs, "yolox", tables, n)
    BY <1>3 DEF PagesInv, ListInv
  <2>2. /\ Submits(fs, new, "yolox", tables, kept, most) /\ CallsInv(new) /\ Shared(new, "yolox", kept, n)
        /\ \A k \in Models : k # "yolox" => Given(new, k) = Given(fs, k)
        /\ \A k \in Models : Gathered(new, k) = Gathered(fs, k)
    BY <1>1, <1>3, <2>1, SubmitFact
  <2> HIDE DEF new, kept
  <2>3. On("parser") => InOneCall(new, ocr, n)
    BY <1>1, <2>2, OneCallKept DEF PagesInv
  <2>4. ListInv(new, "parser", ocr, n)
    BY <1>1, <2>2 DEF PagesInv, ListInv, Shared
  <2>5. PagesInv(new, kept, ocr, n) /\ SameGathered(fs, new)
    BY <1>3, <2>2, <2>3, <2>4 DEF PagesInv, ListInv, SameGathered
  <2> QED BY <2>5 DEF new, kept
<1> QED BY <1>2, <1>3

\* A list with the next page; a list of pages that are not asked for may grow too.
LEMMA ListGrows ==
  ASSUME NEW fs, NEW m \in Models, NEW list, NEW n \in Nat, ListInv(fs, m, list, n)
  PROVE  /\ ListInv(fs, m, Append(list, n + 1), n + 1) /\ Len(Append(list, n + 1)) = Len(list) + 1 /\ Len(list) \in Nat
         /\ ~ On(m) => ListInv(fs, m, list, n + 1)
<1>1. CASE On(m)
  <2>1. Shared(fs, m, list, n)
    BY <1>1 DEF ListInv
  <2>2. Shared(fs, m, Append(list, n + 1), n + 1) /\ Len(Append(list, n + 1)) = Len(list) + 1
    BY <2>1, PageListed
  <2>3. Len(list) \in Nat
    BY <2>1, ListsSet DEF Shared
  <2> QED BY <1>1, <2>2, <2>3 DEF ListInv
<1>2. CASE ~ On(m)
  <2>1. list \in Seq(Nat) /\ Len(list) <= n /\ Len(list) \in Nat /\ n + 1 \in Nat
    BY <1>2, LenProperties DEF ListInv
  <2>2. Append(list, n + 1) \in Seq(Nat) /\ Len(Append(list, n + 1)) = Len(list) + 1
    BY <2>1, AppendProperties
  <2> QED BY <1>2, <2>1, <2>2 DEF ListInv
<1> QED BY <1>1, <1>2

LEMMA OneCallGrows ==
  ASSUME IsRequest(pdf), NEW fs, NEW list, NEW n \in Nat, n < PageCount, Lists(list, ToSet(list)), ToSet(list) \subseteq Nat,
         InOneCall(fs, list, n)
  PROVE  InOneCall(fs, Append(list, n + 1), n + 1)
<1> SUFFICES ASSUME PageCount <= NEMORETRIEVER_PARSE_MAX_BATCH_SIZE PROVE InOneCall(fs, Append(list, n + 1), n + 1)
  BY DEF InOneCall
<1> DEFINE new == Append(list, n + 1)
<1>1. list \in Seq(Nat) /\ n + 1 \in Nat /\ PageCount \in Nat
  <2>1. list \in Seq(ToSet(list)) 
    BY DEF Lists
  <2> QED BY <2>1, SeqMonotonic, PageFact
<1>2. Len(list) = n /\ \A k \in 1..n : list[k] = k
  BY DEF InOneCall
<1>3. Len(new) = n + 1 /\ (\A k \in 1..n : new[k] = list[k]) /\ new[n + 1] = n + 1
  BY <1>1, <1>2, AppendProperties
<1>4. \A k \in 1..(n + 1) : k \in 1..n \/ k = n + 1
  BY <1>1
<1> HIDE DEF new
<1>5. Len(new) = n + 1 /\ \A k \in 1..Len(new) : new[k] = k
  BY <1>2, <1>3, <1>4
<1> QED BY <1>5 DEF InOneCall, new

\* The lists of a state, and of the next.
LEMMA PagesNow ==
  ASSUME PdfRunning
  PROVE  PagesInv(futures, pages_for_tables, pages_for_ocr, page_idx - 1) /\ page_idx - 1 \in 0..PageCount
<1>1. CallsInv(futures) /\ ListsInv /\ page_idx \in 1..(PageCount + 1) /\ PageCount \in Nat
  BY RunningFact
<1> QED BY <1>1, ListsParts DEF PagesInv

LEMMA PagesNext ==
  ASSUME pdf' = pdf, page_idx' \in Nat, PagesInv(futures', pages_for_tables', pages_for_ocr', page_idx' - 1),
         stage' # "pages" => /\ page_idx' = PageCount + 1
                             /\ On("yolox") => pages_for_tables' = <<>>
                             /\ On("parser") => pages_for_ocr' = <<>>
  PROVE  CallsInv(futures)' /\ ListsInv'
BY CallsNext, ListsNext DEF PagesInv

LEMMA GatheredAllFact ==
  ASSUME PdfRunning, GatheredAll
  PROVE  PdfInv'
<1>1. /\ IsRequest(pdf) /\ CallsInv(futures) /\ ListsInv /\ ResultsInv /\ RowsInv /\ TextInv /\ page_idx \in Nat
      /\ stage = "gather" /\ stage' = "assemble"
  BY RunningFact DEF GatheredAll
<1>2. /\ UNCHANGED <<pdf, page_idx, pages_for_tables, pages_for_ocr, futures, parser_results,
                     accumulated_pages, extracted_pages>>
      /\ \A i \in 1..Len(futures) : futures[i].at = "gathered"
  BY DEF GatheredAll
<1>3. PagesInv(futures', pages_for_tables', pages_for_ocr', page_idx' - 1)
  BY <1>2, PagesNow
<1>4. CallsInv(futures)' /\ ListsInv'
  BY <1>1, <1>2, <1>3, ListsParts, PagesNext
<1>5. ResultsInv' /\ Waiting' = Waiting
  BY <1>1, <1>2, ResultsNext
<1>6. Assembled' = Assembled /\ ElementPages' = ElementPages
  BY <1>2, <1>5, PagesSame
<1>7. RowsInv' /\ TextInv'
  BY <1>1, <1>2, <1>6, RowsNext
<1>8. PdfTypeOK'
  BY <1>1, <1>2, RunningFact, SamePdf DEF PdfTypeOK
<1> QED BY <1>4, <1>5, <1>7, <1>8 DEF PdfInv

\* What a step of the loop keeps that makes no rows.
LEMMA LoopStep ==
  ASSUME PdfRunning, stage = "pages", pdf' = pdf, page_idx' \in 1..(PageCount + 1),
         PagesInv(futures', pages_for_tables', pages_for_ocr', page_idx' - 1), SameGathered(futures, futures'),
         parser_results' = parser_results, stage' \in {"pages", "gather"},
         stage' # "pages" => /\ page_idx' = PageCount + 1
                             /\ On("yolox") => pages_for_tables' = <<>>
                             /\ On("parser") => pages_for_ocr' = <<>>
  PROVE  /\ CallsInv(futures)' /\ ListsInv' /\ ResultsInv' /\ PdfTypeOK' /\ Waiting' = Waiting
         /\ Gathered(futures', "yolox") = {} /\ Gathered(futures, "yolox") = {}
         /\ Gathered(futures', "parser") = {} /\ Gathered(futures, "parser") = {}
<1>1. IsRequest(pdf) /\ ResultsInv /\ PageCount \in Nat
  BY RunningFact
<1>2. page_idx' \in Nat
  BY <1>1
<1>3. CallsInv(futures)' /\ ListsInv'
  BY <1>2, PagesNext
<1>4. \A m \in Models : Gathered(futures', m) = {} /\ Gathered(futures, m) = {}
  BY <1>1 DEF ResultsInv, SameGathered
<1>5. "parser" \in Models /\ "yolox" \in Models
  BY DEF Models
<1>6. ResultsInv' /\ Waiting' = Waiting
  BY <1>1, <1>4, <1>5, ResultsNext
<1>7. PdfTypeOK'
  BY <1>1, RunningFact, SamePdf DEF PdfTypeOK
<1> QED BY <1>3, <1>4, <1>5, <1>6, <1>7

LEMMA SubmitRestFact ==
  ASSUME PdfRunning, SubmitRest
  PROVE  PdfInv'
<1> DEFINE fs == futures
           mid == fs \o (IF pdf.text THEN Submitted("parser", pages_for_ocr, 1) ELSE <<>>)
           new == mid \o (IF LooksForElements THEN Submitted("yolox", pages_for_tables, 1) ELSE <<>>)
           ocr == IF pdf.text THEN <<>> ELSE pages_for_ocr
           tables == IF LooksForElements THEN <<>> ELSE pages_for_tables
           n == page_idx - 1
<1>1. /\ IsRequest(pdf) /\ page_idx \in Nat /\ RowsInv /\ TextInv /\ stage = "pages" /\ PageCount \in Nat
      /\ PagesInv(fs, pages_for_tables, pages_for_ocr, n) /\ n \in 0..PageCount /\ CallsInv(fs)
  BY RunningFact, PagesNow DEF SubmitRest
<1>2. /\ futures' = new /\ pages_for_ocr' = ocr /\ pages_for_tables' = tables /\ stage' = "gather"
      /\ UNCHANGED <<pdf, page_idx, parser_results, accumulated_pages, extracted_pages>>
  BY DEF SubmitRest
<1>3. page_idx = PageCount + 1 /\ n = PageCount
  BY <1>1, RunningFact DEF SubmitRest
<1>4. Kept(pages_for_ocr, 1) = <<>> /\ Kept(pages_for_tables, 1) = <<>>
  <2>1. \A m, list : m \in Models /\ ListInv(fs, m, list, n) => \E T : list \in Seq(T)
    BY DEF ListInv, Shared, Lists
  <2>2. \A T, list : list \in Seq(T) /\ ~ (Len(list) >= 1) => list = <<>>
    BY LenProperties, EmptySeq
  <2>3. (\E T : pages_for_ocr \in Seq(T)) /\ \E T : pages_for_tables \in Seq(T)
    BY <1>1, <2>1 DEF PagesInv, Models
  <2> QED BY <2>2, <2>3 DEF Kept
<1> HIDE DEF n
<1>5. PagesInv(mid, pages_for_tables, ocr, n) /\ SameGathered(fs, mid)
  <2>1. CASE pdf.text
    <3>1. mid = fs \o Submitted("parser", pages_for_ocr, 1) /\ ocr = Kept(pages_for_ocr, 1) /\ 1 \in Nat \ {0}
      BY <1>4, <2>1
    <3>2. ~ On("parser") => pages_for_ocr = <<>>
      BY <1>1, <2>1 DEF On, PagesInv
    <3>3. IF On("parser") THEN PageCount <= NEMORETRIEVER_PARSE_MAX_BATCH_SIZE /\ Len(pages_for_ocr) >= 1 => n = PageCount
          ELSE Len(pages_for_ocr) < 1 \/ pages_for_ocr = <<>>
      BY <1>3, <3>2
    <3> HIDE DEF mid, ocr
    <3> QED BY <1>1, <3>1, <3>3, GiveParser
  <2>2. CASE ~ pdf.text
    <3>1. mid = fs /\ ocr = pages_for_ocr
      BY <1>1, <2>2, FunctionJoinEmpty DEF CallsInv
    <3> HIDE DEF mid, ocr
    <3> QED BY <3>1, <1>1 DEF SameGathered
  <2> QED BY <2>1, <2>2
<1> HIDE DEF mid, ocr
<1>6. PagesInv(new, tables, ocr, n) /\ SameGathered(mid, new)
  <2>1. CASE LooksForElements
    <3>1. new = mid \o Submitted("yolox", pages_for_tables, 1) /\ tables = Kept(pages_for_tables, 1) /\ 1 \in Nat \ {0}
      BY <1>4, <2>1
    <3>2. On("yolox")
      BY <2>1 DEF On
    <3> HIDE DEF new, tables
    <3> QED BY <1>1, <1>5, <3>1, <3>2, GiveYolox
  <2>2. CASE ~ LooksForElements
    <3>1. new = mid /\ tables = pages_for_tables
      BY <1>5, <2>2, FunctionJoinEmpty DEF CallsInv, PagesInv
    <3> HIDE DEF new, tables
    <3> QED BY <3>1, <1>5 DEF SameGathered
  <2> QED BY <2>1, <2>2
<1>7. (On("yolox") => tables = <<>>) /\ (On("parser") => ocr = <<>>)
  BY DEF On, ocr
<1> HIDE DEF new, tables
<1>8. SameGathered(fs, new)
  BY <1>5, <1>6 DEF SameGathered
<1>9. /\ PagesInv(futures', pages_for_tables', pages_for_ocr', page_idx' - 1) /\ SameGathered(futures, futures')
      /\ page_idx' \in 1..(PageCount + 1)
  BY <1>1, <1>2, <1>3, <1>6, <1>8 DEF n
<1>10. /\ CallsInv(futures)' /\ ListsInv' /\ ResultsInv' /\ PdfTypeOK' /\ Waiting' = Waiting
       /\ Gathered(futures', "yolox") = {} /\ Gathered(futures, "yolox") = {}
       /\ Gathered(futures', "parser") = {} /\ Gathered(futures, "parser") = {}
  BY <1>1, <1>2, <1>3, <1>7, <1>9, LoopStep
<1>11. Assembled' = Assembled /\ ElementPages' = ElementPages
  BY <1>2, <1>10 DEF Assembled, ElementPages
<1>12. RowsInv' /\ TextInv'
  BY <1>1, <1>2, <1>11, RowsNext
<1> QED BY <1>10, <1>12 DEF PdfInv

LEMMA RenderPageFact ==
  ASSUME PdfRunning, RenderPage
  PROVE  PdfInv'
<1> DEFINE fs == futures
           ocr == Append(pages_for_ocr, page_idx)
           tables == Append(pages_for_tables, page_idx)
           ocr_most == IF pdf.text THEN NEMORETRIEVER_PARSE_MAX_BATCH_SIZE ELSE PageCount + 1
           tables_most == IF LooksForElements THEN YOLOX_MAX_BATCH_SIZE ELSE PageCount + 1
           mid == fs \o Submitted("parser", ocr, ocr_most)
           new == mid \o Submitted("yolox", tables, tables_most)
           n == page_idx - 1
<1>1. /\ IsRequest(pdf) /\ page_idx \in Nat /\ RowsInv /\ TextInv /\ stage = "pages" /\ PageCount \in Nat
      /\ PagesInv(fs, pages_for_tables, pages_for_ocr, n) /\ n \in 0..PageCount /\ CallsInv(fs)
      /\ page_idx <= PageCount /\ pdf.method # "pdfium"
  BY RunningFact, PagesNow DEF RenderPage
<1>2. /\ futures' = new /\ pages_for_ocr' = Kept(ocr, ocr_most) /\ pages_for_tables' = Kept(tables, tables_most)
      /\ page_idx' = page_idx + 1 /\ stage' = stage
      /\ UNCHANGED <<pdf, parser_results, accumulated_pages, extracted_pages>>
  BY DEF RenderPage
<1>3. n + 1 = page_idx /\ n \in Nat /\ n < PageCount /\ page_idx \in 0..PageCount
  BY <1>1
<1>4. ocr_most \in Nat \ {0} /\ tables_most \in Nat \ {0}
  BY <1>1, PdfAssumption
<1> HIDE DEF n
<1>5. /\ ListInv(fs, "yolox", tables, page_idx) /\ ListInv(fs, "parser", ocr, page_idx)
      /\ Len(ocr) = Len(pages_for_ocr) + 1 /\ Len(tables) = Len(pages_for_tables) + 1
      /\ Len(pages_for_ocr) \in Nat /\ Len(pages_for_tables) \in Nat
  BY <1>1, <1>3, ListGrows DEF PagesInv, Models
<1>6. On("parser") => InOneCall(fs, ocr, page_idx)
  <2> SUFFICES ASSUME On("parser") PROVE InOneCall(fs, ocr, page_idx)
    OBVIOUS
  <2>1. InOneCall(fs, pages_for_ocr, n) /\ Shared(fs, "parser", pages_for_ocr, n)
    BY <1>1 DEF PagesInv, ListInv
  <2>2. Lists(pages_for_ocr, ToSet(pages_for_ocr)) /\ ToSet(pages_for_ocr) \subseteq Nat
    BY <1>3, <2>1 DEF Shared
  <2>3. InOneCall(fs, Append(pages_for_ocr, n + 1), n + 1)
    BY <1>1, <1>3, <2>1, <2>2, OneCallGrows
  <2> QED BY <2>3, <1>3
<1>7. PagesInv(fs, tables, ocr, page_idx)
  BY <1>1, <1>5, <1>6 DEF PagesInv
<1>8. \A m, list : m \in Models /\ ~ On(m) /\ ListInv(fs, m, list, page_idx) => Len(list) <= PageCount
  <2>1. \A list \in Seq(Nat) : Len(list) <= page_idx => Len(list) <= PageCount
    BY <1>1, LenProperties
  <2> QED BY <2>1 DEF ListInv
<1>9. IF On("parser") THEN PageCount <= NEMORETRIEVER_PARSE_MAX_BATCH_SIZE /\ Len(ocr) >= ocr_most => page_idx = PageCount
      ELSE Len(ocr) < ocr_most \/ ocr = <<>>
  <2>1. CASE On("parser")
    <3>1. ocr_most = NEMORETRIEVER_PARSE_MAX_BATCH_SIZE /\ NEMORETRIEVER_PARSE_MAX_BATCH_SIZE \in Nat
      BY <2>1, PdfAssumption DEF On
    <3>2. ASSUME PageCount <= NEMORETRIEVER_PARSE_MAX_BATCH_SIZE, Len(ocr) >= ocr_most PROVE page_idx = PageCount
      <4>1. Len(ocr) <= page_idx
        <5>1. InOneCall(fs, ocr, page_idx)
          BY <1>6, <2>1
        <5>2. ocr # <<>>
          BY <1>5
        <5>3. Len(ocr) = page_idx
          BY <5>1, <5>2, <3>2 DEF InOneCall
        <5> QED BY <5>3, <1>1
      <4> HIDE DEF ocr, ocr_most
      <4> QED BY <4>1, <3>1, <3>2, <1>1, <1>5
    <3> QED BY <2>1, <3>2
  <2>2. CASE ~ On("parser")
    <3>1. ocr_most = PageCount + 1
      BY <1>1, <2>2 DEF On
    <3>2. Len(ocr) <= PageCount
      BY <1>5, <1>8, <2>2 DEF Models
    <3> HIDE DEF ocr, ocr_most
    <3> QED BY <3>1, <3>2, <2>2, <1>1, <1>5
  <2> QED BY <2>1, <2>2
<1>10. ~ On("yolox") => Len(tables) < tables_most \/ tables = <<>>
  <2> SUFFICES ASSUME ~ On("yolox") PROVE Len(tables) < tables_most
    OBVIOUS
  <2>1. tables_most = PageCount + 1
    BY DEF On
  <2>2. Len(tables) <= PageCount
    BY <1>5, <1>8 DEF Models
  <2> HIDE DEF tables, tables_most
  <2> QED BY <2>1, <2>2, <1>1, <1>5
<1> HIDE DEF ocr, tables, ocr_most, tables_most
<1>11. PagesInv(mid, tables, Kept(ocr, ocr_most), page_idx) /\ SameGathered(fs, mid)
  BY <1>1, <1>3, <1>4, <1>7, <1>9, GiveParser
<1> HIDE DEF mid
<1>12. PagesInv(new, Kept(tables, tables_most), Kept(ocr, ocr_most), page_idx) /\ SameGathered(mid, new)
  BY <1>1, <1>3, <1>4, <1>10, <1>11, GiveYolox
<1> HIDE DEF new
<1>13. SameGathered(fs, new)
  BY <1>11, <1>12 DEF SameGathered
<1>14. /\ PagesInv(futures', pages_for_tables', pages_for_ocr', page_idx' - 1) /\ SameGathered(futures, futures')
       /\ page_idx' \in 1..(PageCount + 1)
  <2>1. page_idx' - 1 = page_idx /\ page_idx' \in 1..(PageCount + 1)
    BY <1>1, <1>2
  <2> QED BY <2>1, <1>2, <1>12, <1>13
<1>15. /\ CallsInv(futures)' /\ ListsInv' /\ ResultsInv' /\ PdfTypeOK' /\ Waiting' = Waiting
       /\ Gathered(futures', "yolox") = {} /\ Gathered(futures, "yolox") = {}
       /\ Gathered(futures', "parser") = {} /\ Gathered(futures, "parser") = {}
  BY <1>1, <1>2, <1>14, LoopStep
<1>16. Assembled' = Assembled /\ ElementPages' = ElementPages
  BY <1>1, <1>2, <1>15 DEF Assembled, ElementPages
<1>17. RowsInv' /\ TextInv'
  BY <1>1, <1>2, <1>16, RowsNext
<1> QED BY <1>15, <1>17 DEF PdfInv

-----------------------------------------------------------------------------
(* The rows of one more page.                                              *)

LEMMA TextStep ==
  ASSUME pdf' = pdf, IsRequest(pdf), TextInv, NEW p \in 1..PageCount, p \notin TextPages,
         TextPages \subseteq 1..PageCount, ComesNext(TextPages, p), TextPages' = TextPages \cup {p},
         stage # "done", stage' # "done",
         IF pdf.depth = "page"
         THEN OfKind("text")' = OfKind("text") \o <<TextRow(p, TextOf(p))>> /\ accumulated_pages' = <<>>
         ELSE OfKind("text")' = OfKind("text") /\ accumulated_pages' = accumulated_pages \o TextOf(p)
  PROVE  TextInv'
<1>1. OneBatch' => \E n \in Nat : TextPages' = 1..n
  <2> SUFFICES ASSUME OneBatch PROVE \E n \in Nat : TextPages' = 1..n
    BY SamePdf
  <2>1. PICK n \in Nat : TextPages = 1..n /\ p = n + 1
    BY DEF ComesNext
  <2>2. 1..n \cup {n + 1} = 1..(n + 1) /\ n + 1 \in Nat
    OBVIOUS
  <2> QED BY <2>1, <2>2
<1>2. CASE pdf.depth = "page"
  <2>1. TextRowsInv(OfKind("text"), TextPages)
    BY <1>2 DEF TextInv
  <2>2. TextRowsInv(OfKind("text") \o <<TextRow(p, TextOf(p))>>, TextPages \cup {p})
    <3> DEFINE T == TextPages
               old == OfKind("text")
    <3>1. TextRowsInv(old, T) /\ T \subseteq 1..PageCount /\ p \notin T /\ ComesNext(T, p) /\ p \in 1..PageCount /\ IsRequest(pdf)
      BY <2>1
    <3> HIDE DEF T, old
    <3>2. TextRowsInv(old \o <<TextRow(p, TextOf(p))>>, T \cup {p})
      BY ONLY <3>1, TextRowAdded
    <3> QED BY <3>2 DEF T, old
  <2>3. TextRowsInv(OfKind("text"), TextPages)'
    <3>1. OfKind("text")' = OfKind("text") \o <<TextRow(p, TextOf(p))>> /\ TextPages' = TextPages \cup {p}
      BY <1>2
    <3>2. TextRowsOn(TextPages)' = TextRowsOn(TextPages \cup {p}) /\ OneBatch' = OneBatch
      BY SamePdf
    <3> QED BY <3>1, <3>2, <2>2 DEF TextRowsInv
  <2> QED BY <1>1, <1>2, <2>3 DEF TextInv
<1>3. CASE pdf.depth # "page"
  <2>1. TextAccumulated(accumulated_pages, TextPages) /\ OfKind("text") = <<>>
    BY <1>3 DEF TextInv
  <2>2. TextAccumulated(accumulated_pages \o TextOf(p), TextPages \cup {p})
    <3> DEFINE T == TextPages
               old == accumulated_pages
    <3>1. TextAccumulated(old, T) /\ T \subseteq 1..PageCount /\ p \notin T /\ ComesNext(T, p) /\ p \in 1..PageCount /\ IsRequest(pdf)
      BY <2>1
    <3> HIDE DEF T, old
    <3>2. TextAccumulated(old \o TextOf(p), T \cup {p})
      BY ONLY <3>1, TextAdded
    <3> QED BY <3>2 DEF T, old
  <2>3. TextAccumulated(accumulated_pages, TextPages)'
    <3>1. accumulated_pages' = accumulated_pages \o TextOf(p) /\ TextPages' = TextPages \cup {p}
      BY <1>3
    <3>2. TextOn(TextPages)' = TextOn(TextPages \cup {p}) /\ OneBatch' = OneBatch /\ \A q : TextOf(q)' = TextOf(q)
      BY SamePdf
    <3> QED BY <3>1, <3>2, <2>2 DEF TextAccumulated
  <2>4. OfKind("text")' = <<>>
    BY <1>3, <2>1
  <2> QED BY <1>1, <1>3, <2>3, <2>4 DEF TextInv
<1> QED BY <1>2, <1>3

\* The rows of the kinds the lists hold, with those of a page more.
LEMMA RowsOfAPage ==
  ASSUME IsRequest(pdf), NEW T, T \subseteq 1..PageCount, NEW p \in 1..PageCount, p \notin T, NEW s, NEW t
  PROVE  /\ Lists(s, ElementRowsOn(T)) /\ Lists(t, ElementRowsOn({p})) => Lists(s \o t, ElementRowsOn(T \cup {p}))
         /\ Lists(s, ImageRowsOn(T)) /\ Lists(t, ImageRowsOn({p})) => Lists(s \o t, ImageRowsOn(T \cup {p}))
<1> DEFINE B == {p}
           E == ElementRowsOn(T)
           F == ElementRowsOn(B)
           EF == ElementRowsOn(T \cup B)
           I == ImageRowsOn(T)
           J == ImageRowsOn(B)
           IJ == ImageRowsOn(T \cup B)
<1>1. B \subseteq 1..PageCount /\ T \cap B = {}
  OBVIOUS
<1> HIDE DEF B
<1>2. EF = E \cup F /\ E \cap F = {} /\ IJ = I \cup J /\ I \cap J = {}
  BY <1>1, OnJoin, ZenonT(60)
<1> HIDE DEF E, F, EF, I, J, IJ
<1>3. (Lists(s, E) /\ Lists(t, F) => Lists(s \o t, EF)) /\ (Lists(s, I) /\ Lists(t, J) => Lists(s \o t, IJ))
  BY <1>2, ListsJoin
<1> QED BY <1>3 DEF E, F, EF, I, J, IJ, B

LEMMA RowsOfOnePage ==
  ASSUME NEW p
  PROVE  /\ ElementRowsOn({p}) = {ElementRow(e) : e \in {<<p, i>> : i \in ElementsOn(p)}}
         /\ ImageRowsOn({p}) = {ImageRow(e) : e \in {<<p, i>> : i \in ImagesOn(p)}}
         /\ ElementsOn(p) = {} => ElementRowsOn({p}) = {}
         /\ ImagesOn(p) = {} => ImageRowsOn({p}) = {}
BY DEF ElementRowsOn, ImageRowsOn, OnPages

LEMMA NoRows == \A kind : OfOneKind(<<>>, kind)
BY DEF OfOneKind

LEMMA ReadPageFact ==
  ASSUME PdfRunning, ReadPage
  PROVE  PdfInv'
<1> DEFINE fs == futures
           p == page_idx
           row == TextRow(p, <<<<p, 0>>>>)
           text == IF pdf.text /\ pdf.depth = "page" THEN <<row>> ELSE <<>>
           images == IF pdf.images THEN _extract_page_images(p) ELSE <<>>
           pages == IF LooksForElements THEN Append(pages_for_tables, p) ELSE <<>>
           most == YOLOX_MAX_BATCH_SIZE
           new == fs \o Submitted("yolox", pages, most)
           n == p - 1
           T == 1..n
<1>1. /\ IsRequest(pdf) /\ p \in Nat /\ RowsInv /\ TextInv /\ stage = "pages" /\ PageCount \in Nat
      /\ PagesInv(fs, pages_for_tables, pages_for_ocr, n) /\ n \in 0..PageCount /\ CallsInv(fs)
      /\ p <= PageCount /\ pdf.method = "pdfium"
  BY RunningFact, PagesNow DEF ReadPage
<1>2. /\ futures' = new /\ pages_for_ocr' = pages_for_ocr /\ pages_for_tables' = Kept(pages, most)
      /\ page_idx' = p + 1 /\ stage' = stage /\ pdf' = pdf /\ parser_results' = parser_results
      /\ extracted_pages' = extracted_pages \o text \o images
      /\ accumulated_pages' = IF pdf.text /\ pdf.depth # "page" THEN Append(accumulated_pages, <<p, 0>>) ELSE accumulated_pages
  BY DEF ReadPage
<1>3. n + 1 = p /\ n \in Nat /\ n < PageCount /\ p \in 0..PageCount /\ p \in 1..PageCount /\ p \notin T /\ 1..p = T \cup {p}
      /\ T \subseteq 1..PageCount
  BY <1>1
<1>4. most \in Nat \ {0} /\ "yolox" \in Models /\ "parser" \in Models /\ ~ On("parser") /\ (On("yolox") <=> LooksForElements)
  BY <1>1, PdfAssumption DEF Models, On
<1>5. PagesInv(fs, pages, pages_for_ocr, p) /\ (~ On("yolox") => pages = <<>>)
  <2> HIDE DEF n, T
  <2>1. ListInv(fs, "parser", pages_for_ocr, p)
    BY <1>1, <1>3, <1>4, ListGrows DEF PagesInv
  <2>2. ListInv(fs, "yolox", Append(pages_for_tables, p), p)
    BY <1>1, <1>3, <1>4, ListGrows DEF PagesInv
  <2>3. ~ On("yolox") => ListInv(fs, "yolox", <<>>, p)
    <3>1. <<>> \in Seq(Nat) /\ Len(<<>>) = 0
      OBVIOUS
    <3> QED BY <3>1, <1>1 DEF ListInv
  <2>4. ListInv(fs, "yolox", pages, p)
    BY <1>4, <2>2, <2>3
  <2> HIDE DEF pages
  <2>5. ~ On("yolox") => pages = <<>>
    BY <1>4 DEF pages
  <2> QED BY <1>1, <1>4, <2>1, <2>4, <2>5 DEF PagesInv
<1> HIDE DEF pages
<1>6. PagesInv(new, Kept(pages, most), pages_for_ocr, p) /\ SameGathered(fs, new)
  BY <1>1, <1>3, <1>4, <1>5, GiveYolox
<1> HIDE DEF new
<1>7. /\ PagesInv(futures', pages_for_tables', pages_for_ocr', page_idx' - 1) /\ SameGathered(futures, futures')
      /\ page_idx' \in 1..(PageCount + 1)
  <2>1. page_idx' - 1 = p /\ page_idx' \in 1..(PageCount + 1)
    BY <1>1, <1>2
  <2> QED BY <2>1, <1>2, <1>6
<1>8. /\ CallsInv(futures)' /\ ListsInv' /\ ResultsInv' /\ PdfTypeOK' /\ Waiting' = Waiting
      /\ Gathered(futures', "yolox") = {} /\ Gathered(futures, "yolox") = {}
  BY <1>1, <1>2, <1>7, LoopStep
<1>9. /\ Assembled = T /\ Assembled' = T \cup {p} /\ ElementPages = {} /\ ElementPages' = {}
  <2>1. page_idx' - 1 = p
    BY <1>1, <1>2
  <2> QED BY <2>1, <1>1, <1>2, <1>3, <1>8 DEF Assembled, ElementPages
<1>10. Lists(images, ImageRowsOn({p}))
  <2>1. CASE pdf.images
    <3>1. images = _extract_page_images(p) /\ p \in 1..PageCount
      BY <2>1, <1>3
    <3> QED BY <3>1, <2>1, <1>1, PicturesListed, RowsOfOnePage
  <2>2. CASE ~ pdf.images
    <3>1. images = <<>> /\ ImagesOn(p) = {}
      BY <2>2, <1>1 DEF ImagesOn
    <3>2. ImageRowsOn({p}) = {}
      BY <3>1, RowsOfOnePage
    <3> QED BY <3>1, <3>2, ListsNothing
  <2> QED BY <2>1, <2>2
<1>11. TextOf(p) = <<<<p, 0>>>> /\ row = TextRow(p, TextOf(p))
  BY <1>1 DEF TextOf
<1>12. OfOneKind(text, "text") /\ OfOneKind(images, "image")
  <2>1. {p} \subseteq 1..PageCount
    BY <1>3
  <2>2. OfOneKind(images, "image")
    <3> DEFINE B == {p}
               im == images
    <3>1. B \subseteq 1..PageCount /\ Lists(im, ImageRowsOn(B)) /\ IsRequest(pdf)
      BY <1>1, <1>10, <2>1
    <3> HIDE DEF B, im
    <3>2. OfOneKind(im, "image")
      BY ONLY <3>1, RowTypes
    <3> QED BY <3>2 DEF im
  <2>3. OfOneKind(<<row>>, "text")
    <3> DEFINE B == {p}
               one == <<row>>
    <3>1. TextRowsOn(B) = {row}
      BY <1>11 DEF TextRowsOn
    <3>2. Lists(one, TextRowsOn(B))
      <4> HIDE DEF row
      <4> QED BY <3>1, ListsOne
    <3>3. B \subseteq 1..PageCount /\ IsRequest(pdf)
      BY <1>1, <2>1
    <3> HIDE DEF B, one
    <3>4. OfOneKind(one, "text")
      BY ONLY <3>2, <3>3, RowTypes
    <3> QED BY <3>4 DEF one
  <2> QED BY <2>2, <2>3, NoRows
<1>13. /\ extracted_pages' \in Seq(RowSet) /\ OfKind("structured")' = OfKind("structured")
       /\ OfKind("image")' = OfKind("image") \o images /\ OfKind("text")' = OfKind("text") \o text
  <2> DEFINE a == text
             b == images
             e == extracted_pages
  <2>1. e \in Seq(RowSet) /\ OfOneKind(a, "text") /\ OfOneKind(b, "image")
    BY <1>1, <1>12 DEF RowsInv
  <2> HIDE DEF a, b, e
  <2>2. /\ e \o a \in Seq(RowSet)
        /\ \A k : KindOf(e \o a, k) = IF k = "text" THEN KindOf(e, k) \o a ELSE KindOf(e, k)
    BY ONLY <2>1, AddRows
  <2>3. /\ (e \o a) \o b \in Seq(RowSet)
        /\ \A k : KindOf((e \o a) \o b, k) = IF k = "image" THEN KindOf(e \o a, k) \o b ELSE KindOf(e \o a, k)
    <3> DEFINE ea == e \o a
    <3>1. ea \in Seq(RowSet)
      BY <2>2
    <3> HIDE DEF ea
    <3>2. /\ ea \o b \in Seq(RowSet)
          /\ \A k : KindOf(ea \o b, k) = IF k = "image" THEN KindOf(ea, k) \o b ELSE KindOf(ea, k)
      BY ONLY <3>1, <2>1, AddRows
    <3> QED BY <3>2 DEF ea
  <2>4. /\ KindOf((e \o a) \o b, "structured") = KindOf(e, "structured")
        /\ KindOf((e \o a) \o b, "image") = KindOf(e, "image") \o b
        /\ KindOf((e \o a) \o b, "text") = KindOf(e, "text") \o a
    BY <2>2, <2>3
  <2>5. extracted_pages' = (e \o a) \o b
    BY <1>2 DEF a, b, e
  <2>6. /\ KindOf(extracted_pages', "structured") = KindOf(extracted_pages, "structured")
        /\ KindOf(extracted_pages', "image") = KindOf(extracted_pages, "image") \o b
        /\ KindOf(extracted_pages', "text") = KindOf(extracted_pages, "text") \o a
    BY <2>4, <2>5 DEF e
  <2> QED BY <2>3, <2>5, <2>6, KindFact DEF a, b
<1>14. RowsInv'
  <2>1. Lists(OfKind("image") \o images, ImageRowsOn(T \cup {p}))
    <3> DEFINE s == OfKind("image")
               t == images
               q == p
    <3>1. Lists(s, ImageRowsOn(T)) /\ Lists(t, ImageRowsOn({q})) /\ q \in 1..PageCount /\ q \notin T /\ T \subseteq 1..PageCount /\ IsRequest(pdf)
      BY <1>1, <1>3, <1>9, <1>10 DEF RowsInv
    <3> HIDE DEF s, t, T, q
    <3>2. Lists(s \o t, ImageRowsOn(T \cup {q}))
      BY ONLY <3>1, RowsOfAPage
    <3> QED BY <3>2 DEF s, t, q
  <2>2. ElementRowsOn(ElementPages)' = ElementRowsOn(ElementPages) /\ ImageRowsOn(Assembled)' = ImageRowsOn(T \cup {p})
    BY <1>2, <1>9, SamePdf
  <2>3. Lists(OfKind("structured"), ElementRowsOn(ElementPages))
    BY <1>1 DEF RowsInv
  <2> QED BY <2>1, <2>2, <2>3, <1>13 DEF RowsInv
<1>15. TextInv'
  <2>1. OfKind("text") \o <<>> = OfKind("text")
    <3>1. \E U : OfKind("text") \in Seq(U)
      <4>1. pdf.depth = "page" => OfKind("text") \in Seq(TextRowsOn(TextPages))
        BY <1>1 DEF TextInv, TextRowsInv, Lists
      <4>2. pdf.depth # "page" => OfKind("text") = <<>>
        BY <1>1 DEF TextInv
      <4>3. <<>> \in Seq({})
        OBVIOUS
      <4> QED BY <4>1, <4>2, <4>3
    <3> QED BY <3>1, ConcatEmptySeq
  <2>2. CASE pdf.text
    <3>1. TextPages = T /\ TextPages' = T \cup {p}
      BY <1>1, <1>2, <1>9, <2>2 DEF TextPages
    <3>2. ComesNext(T, p)
      BY <1>3 DEF ComesNext
    <3>3. IF pdf.depth = "page"
          THEN OfKind("text")' = OfKind("text") \o <<TextRow(p, TextOf(p))>> /\ accumulated_pages' = <<>>
          ELSE OfKind("text")' = OfKind("text") /\ accumulated_pages' = accumulated_pages \o TextOf(p)
      <4>1. pdf.depth = "page" => accumulated_pages = <<>>
        BY <1>1 DEF TextInv
      <4>2. pdf.depth # "page" => accumulated_pages \in Seq(TextOn(TextPages))
        BY <1>1 DEF TextInv, TextAccumulated, Lists
      <4>3. pdf.depth # "page" => Append(accumulated_pages, <<p, 0>>) = accumulated_pages \o <<<<p, 0>>>>
        <5> DEFINE U == TextOn(TextPages) \cup {<<p, 0>>}
                   x == <<p, 0>>
        <5>1. x \in U /\ TextOn(TextPages) \subseteq U
          OBVIOUS
        <5> HIDE DEF U, x
        <5>2. pdf.depth # "page" => accumulated_pages \in Seq(U)
          BY <4>2, <5>1, SeqMonotonic
        <5>3. pdf.depth # "page" => Append(accumulated_pages, x) = accumulated_pages \o <<x>>
          BY <5>1, <5>2, AppendIsConcat
        <5> QED BY <5>3 DEF x
      <4> QED BY <4>1, <4>3, <2>1, <2>2, <1>2, <1>11, <1>13
    <3> DEFINE q == p
    <3>4. /\ q \in 1..PageCount /\ q \notin TextPages /\ TextPages \subseteq 1..PageCount /\ ComesNext(TextPages, q)
          /\ TextPages' = TextPages \cup {q} /\ pdf' = pdf /\ IsRequest(pdf) /\ TextInv /\ stage # "done" /\ stage' # "done"
          /\ IF pdf.depth = "page"
             THEN OfKind("text")' = OfKind("text") \o <<TextRow(q, TextOf(q))>> /\ accumulated_pages' = <<>>
             ELSE OfKind("text")' = OfKind("text") /\ accumulated_pages' = accumulated_pages \o TextOf(q)
      BY <1>1, <1>2, <1>3, <3>1, <3>2, <3>3
    <3> PICK pg : pg = page_idx
      OBVIOUS
    <3>5. pg = q
      OBVIOUS
    <3> HIDE DEF q
    <3> QED BY ONLY <3>4, <3>5, TextStep
  <2>3. CASE ~ pdf.text
    <3>1. TextPages' = TextPages
      BY <1>1, <1>2, <2>3 DEF TextPages
    <3>2. OfKind("text")' = OfKind("text") /\ accumulated_pages' = accumulated_pages
      BY <1>2, <1>13, <2>1, <2>3
    <3> QED BY <3>1, <3>2, <1>1, <1>2, TextKept
  <2> QED BY <2>2, <2>3
<1> QED BY <1>8, <1>14, <1>15 DEF PdfInv

-----------------------------------------------------------------------------
(* A page is assembled.                                                    *)

\* When all is gathered every page has been given to nemoretriever-parse.
LEMMA AllGathered ==
  ASSUME PdfRunning, stage \in {"assemble", "done"}, NEW m \in Models, On(m)
  PROVE  Gathered(futures, m) = 1..PageCount
<1>1. /\ ListsInv /\ ResultsInv /\ page_idx = PageCount + 1 /\ PageCount \in Nat /\ page_idx - 1 = PageCount
      /\ Waits(m) = <<>>
  BY RunningFact DEF ListsInv
<1>2. Shared(futures, m, <<>>, PageCount)
  BY <1>1 DEF ListsInv
<1>3. ToSet(<<>>) = {}
  BY ListsNothing, ListsSet
<1>4. Given(futures, m) = 1..PageCount
  BY <1>2, <1>3 DEF Shared
<1>5. \A i \in 1..Len(futures) : futures[i].at = "gathered"
  BY <1>1 DEF ResultsInv
<1>6. ASSUME NEW x \in Given(futures, m) PROVE x \in Gathered(futures, m)
  <2>1. PICK i \in 1..Len(futures) : futures[i].model = m /\ x \in ToSet(futures[i].pages)
    BY <1>6, GivenFact
  <2> QED BY <2>1, <1>5, GivenFact
<1>7. Gathered(futures, m) \subseteq Given(futures, m)
  BY GivenFact
<1> QED BY <1>4, <1>6, <1>7

\* The first of the answers is that of the next page.
LEMMA AnswerHead ==
  ASSUME PdfRunning, stage = "assemble", parser_results # <<>>
  PROVE  \E p \in 1..PageCount :
           /\ Head(parser_results) = Answer(p) /\ p \in Waiting /\ p \notin Assembled /\ Assembled \subseteq 1..PageCount
           /\ On("parser") /\ pdf.method # "pdfium" /\ pdf.text /\ ComesNext(Assembled, p)
           /\ Lists(Tail(parser_results), {Answer(q) : q \in Waiting \ {p}})
           /\ \A k \in 1..Len(Tail(parser_results)) : Tail(parser_results)[k] = parser_results[k + 1]
           /\ Len(Tail(parser_results)) = Len(parser_results) - 1 /\ Len(parser_results) \in Nat
<1> DEFINE pr == parser_results
           A == {Answer(q) : q \in Waiting}
           t == Tail(pr)
           h == Head(pr)
           L == Len(pr)
<1>1. /\ IsRequest(pdf) /\ CallsInv(futures) /\ ResultsInv /\ Lists(pr, A) /\ Waiting \subseteq Gathered(futures, "parser")
      /\ PageCount \in Nat /\ "parser" \in Models
  BY RunningFact DEF ResultsInv, Models
<1>2. L \in Nat /\ \A k \in 1..L : pr[k] \in A
  BY <1>1, ListsSet
<1>3. /\ h \in A /\ h = pr[1] /\ Lists(t, A \ {h}) /\ Len(t) = L - 1 /\ L > 0 /\ \A k \in 1..Len(t) : t[k] = pr[k + 1]
  <2> HIDE DEF A
  <2> QED BY <1>1, ListsTail
<1>4. PICK p \in Waiting : h = Answer(p)
  BY <1>3
<1>5. p \in Gathered(futures, "parser") /\ p \in 1..PageCount
  BY <1>1, GatheredPages
<1>6. On("parser")
  <2>1. PICK i \in 1..Len(futures) : futures[i].model = "parser"
    BY <1>5, GivenFact
  <2> QED BY <1>1, <2>1 DEF CallsInv, IsCall
<1>7. pdf.method # "pdfium" /\ pdf.text /\ Assembled = Gathered(futures, "parser") \ Waiting
  BY <1>6 DEF On, Assembled
<1>8. Gathered(futures, "parser") = 1..PageCount
  BY <1>1, <1>6, AllGathered
<1>9. A \ {h} = {Answer(q) : q \in Waiting \ {p}}
  BY <1>4 DEF Answer
<1>10. ASSUME OneBatch PROVE \E n \in Nat : Assembled = 1..n /\ p = n + 1
  <2>1. \A k \in 1..L : pr[k].page = PageCount - L + k
    BY <1>1, <1>7, <1>10 DEF ResultsInv, OneBatch
  <2>2. p = PageCount - L + 1
    <3>1. h.page = p /\ 1 \in 1..L
      BY <1>2, <1>3, <1>4 DEF Answer
    <3> QED BY <2>1, <3>1, <1>3
  <2> DEFINE n == PageCount - L
  <2>3. n \in Nat /\ p = n + 1
    BY <2>2, <1>1, <1>2, <1>5
  <2>4. \A x : x \in Waiting <=> \E k \in 1..L : x = PageCount - L + k
    BY <2>1 DEF Waiting
  <2>5. \A x \in 1..PageCount : x \in Waiting <=> x > n
    <3> SUFFICES ASSUME NEW x \in 1..PageCount PROVE x \in Waiting <=> x > n
      OBVIOUS
    <3>1. ASSUME x > n PROVE x \in Waiting
      <4>1. x - n \in 1..L /\ x = PageCount - L + (x - n)
        BY <3>1, <1>1, <1>2
      <4> QED BY <4>1, <2>4
    <3>2. ASSUME x \in Waiting PROVE x > n
      <4>1. PICK k \in 1..L : x = PageCount - L + k
        BY <3>2, <2>4
      <4> QED BY <4>1, <1>1, <1>2
    <3> QED BY <3>1, <3>2
  <2>6. Assembled = 1..n
    <3>1. \A x : x \in 1..n <=> x \in 1..PageCount /\ ~ (x > n)
      BY <1>1, <1>2, <2>3
    <3> QED BY <3>1, <1>7, <1>8, <2>5
  <2> QED BY <2>3, <2>6
<1>11. ComesNext(Assembled, p)
  BY <1>10 DEF ComesNext
<1> HIDE DEF A, t, h
<1>12. Lists(t, {Answer(q) : q \in Waiting \ {p}})
  BY <1>3, <1>9
<1>13. p \notin Assembled /\ Assembled \subseteq 1..PageCount
  BY <1>7, <1>8
<1> QED BY <1>2, <1>3, <1>4, <1>5, <1>6, <1>7, <1>11, <1>12, <1>13 DEF t, h

LEMMA AssembleResults ==
  ASSUME PdfRunning, stage = "assemble", stage' = stage, NEW p \in Waiting, UNCHANGED <<pdf, futures>>,
         parser_results # <<>>, parser_results' = Tail(parser_results),
         Lists(Tail(parser_results), {Answer(q) : q \in Waiting \ {p}}),
         \A k \in 1..Len(Tail(parser_results)) : Tail(parser_results)[k] = parser_results[k + 1],
         Len(Tail(parser_results)) = Len(parser_results) - 1, Len(parser_results) \in Nat
  PROVE  ResultsInv' /\ Waiting' = Waiting \ {p}
<1> DEFINE t == Tail(parser_results)
           A == {Answer(q) : q \in Waiting \ {p}}
<1>1. ResultsInv
  BY RunningFact
<1>2. Waiting' = Waiting \ {p}
  <2>1. \A x : x \in Waiting' <=> \E k \in 1..Len(t) : x = t[k].page
    BY DEF Waiting
  <2> HIDE DEF t
  <2>2. \A y : y \in A <=> \E k \in 1..Len(t) : y = t[k]
    <3> HIDE DEF A
    <3>1. ToSet(t) = A /\ DOMAIN t = 1..Len(t) /\ \A k \in 1..Len(t) : t[k] \in A
      BY ListsSet DEF t, A
    <3>2. \A y \in A : \E k \in 1..Len(t) : y = t[k]
      BY DEF Lists, t, A
    <3> QED BY <3>1, <3>2
  <2>3. \A x : x \in Waiting' <=> \E y \in A : x = y.page
    <3> HIDE DEF A
    <3> QED BY <2>1, <2>2
  <2>4. \A q : Answer(q).page = q
    BY DEF Answer
  <2>5. (\A q \in Waiting \ {p} : Answer(q) \in A) /\ \A y \in A : \E q \in Waiting \ {p} : y = Answer(q)
    OBVIOUS
  <2> HIDE DEF A
  <2>6. \A x : x \in Waiting' <=> x \in Waiting \ {p}
    BY <2>3, <2>4, <2>5
  <2> QED BY <2>6
<1>3. {Answer(q)' : q \in Waiting'} = A
  BY <1>2, SamePdf
<1>4. Lists(parser_results', {Answer(q)' : q \in Waiting'})
  <2> HIDE DEF t, A
  <2> QED BY <1>3 DEF t, A
<1>5. Gathered(futures', "parser") = Gathered(futures, "parser") /\ PageCount' = PageCount
  BY SamePdf
<1>6. Waiting' \subseteq Gathered(futures', "parser")
  BY <1>1, <1>2, <1>5 DEF ResultsInv
<1>7. PageCount <= NEMORETRIEVER_PARSE_MAX_BATCH_SIZE => \A k \in 1..Len(t) : t[k].page = PageCount - Len(t) + k
  <2> SUFFICES ASSUME PageCount <= NEMORETRIEVER_PARSE_MAX_BATCH_SIZE, NEW k \in 1..Len(t)
               PROVE  t[k].page = PageCount - Len(t) + k
    OBVIOUS
  <2>1. \A j \in 1..Len(parser_results) : parser_results[j].page = PageCount - Len(parser_results) + j
    BY <1>1 DEF ResultsInv
  <2>2. Len(t) = Len(parser_results) - 1 /\ t[k] = parser_results[k + 1] /\ PageCount \in Nat
    BY RunningFact
  <2> HIDE DEF t
  <2>3. k + 1 \in 1..Len(parser_results)
    BY <2>2
  <2>4. t[k].page = PageCount - Len(parser_results) + (k + 1)
    BY <2>1, <2>2, <2>3
  <2> QED BY <2>2, <2>4
<1>8. \A i \in 1..Len(futures') : futures'[i].at = "gathered"
  BY <1>1 DEF ResultsInv
<1> QED BY <1>2, <1>4, <1>5, <1>6, <1>7, <1>8 DEF ResultsInv

\* The rows that are made of a page nemoretriever-parse has answered for.
LEMMA AssembledRows ==
  ASSUME IsRequest(pdf), NEW p \in 1..PageCount, pdf.method # "pdfium", pdf.text, NEW blocks, blocks = pdf.pages[p].blocks,
         NEW tables, tables = IF pdf.method = "parse" /\ "table" \in pdf.wanted
                              THEN Rows(Of(p, blocks, "Table"), ElementRow) ELSE <<>>,
         NEW images, images = IF pdf.images THEN Rows(Of(p, blocks, "Picture"), ImageRow) ELSE <<>>
  PROVE  /\ pdf.method = "parse" => Lists(tables, ElementRowsOn({p}))
         /\ pdf.method # "parse" => tables = <<>>
         /\ Lists(images, ImageRowsOn({p}))
         /\ OfOneKind(tables, "structured") /\ OfOneKind(images, "image")
<1> DEFINE B == {p}
<1>1. B \subseteq 1..PageCount
  OBVIOUS
<1>2. ASSUME pdf.method = "parse" PROVE Lists(tables, ElementRowsOn(B))
  <2>1. CASE "table" \in pdf.wanted
    <3> DEFINE s == Of(p, blocks, "Table")
               S == {<<p, b>> : b \in BlocksOf(p, "Table")}
    <3>1. Lists(s, S)
      BY OfListed
    <3>2. ElementsOn(p) = BlocksOf(p, "Table")
      BY <1>2, <2>1 DEF ElementsOn, BlocksOf
    <3>3. ElementRowsOn(B) = {ElementRow(e) : e \in S}
      BY <3>2, RowsOfOnePage
    <3>4. tables = Rows(s, ElementRow)
      BY <1>2, <2>1
    <3> HIDE DEF s, S
    <3> QED BY <3>1, <3>3, <3>4, ElementRowsListed
  <2>2. CASE ~ "table" \in pdf.wanted
    <3>1. ElementsOn(p) = {} /\ tables = <<>>
      BY <1>2, <2>2 DEF ElementsOn
    <3> QED BY <3>1, RowsOfOnePage, ListsNothing
  <2> QED BY <2>1, <2>2
<1>3. Lists(images, ImageRowsOn(B))
  <2>1. CASE pdf.images
    <3> DEFINE s == Of(p, blocks, "Picture")
               S == {<<p, b>> : b \in BlocksOf(p, "Picture")}
    <3>1. Lists(s, S)
      BY OfListed
    <3>2. ImagesOn(p) = BlocksOf(p, "Picture")
      BY <2>1 DEF ImagesOn, BlocksOf
    <3>3. ImageRowsOn(B) = {ImageRow(e) : e \in S}
      BY <3>2, RowsOfOnePage
    <3>4. images = Rows(s, ImageRow)
      BY <2>1
    <3> HIDE DEF s, S
    <3> QED BY <3>1, <3>3, <3>4, ImageRowsListed
  <2>2. CASE ~ pdf.images
    <3>1. ImagesOn(p) = {} /\ images = <<>>
      BY <2>2 DEF ImagesOn
    <3> QED BY <3>1, RowsOfOnePage, ListsNothing
  <2> QED BY <2>1, <2>2
<1>4. pdf.method # "parse" => tables = <<>>
  OBVIOUS
<1>5. OfOneKind(tables, "structured") /\ OfOneKind(images, "image")
  <2> HIDE DEF B
  <2>1. pdf.method = "parse" => OfOneKind(tables, "structured")
    BY <1>1, <1>2, RowTypes
  <2>2. OfOneKind(images, "image")
    BY <1>1, <1>3, RowTypes
  <2> QED BY <1>4, <2>1, <2>2, NoRows
<1> QED BY <1>2, <1>3, <1>4, <1>5

\* New rows of the three kinds, each behind those of its kind.
RowsBehind(e, a, b, c) ==
  LET new == ((e \o a) \o b) \o c
  IN /\ new \in Seq(RowSet)
     /\ KindOf(new, "structured") = KindOf(e, "structured") \o a
     /\ KindOf(new, "image") = KindOf(e, "image") \o b
     /\ KindOf(new, "text") = KindOf(e, "text") \o c

LEMMA RowsGiven ==
  ASSUME NEW e \in Seq(RowSet), NEW a, NEW b, NEW c, OfOneKind(a, "structured"), OfOneKind(b, "image"), OfOneKind(c, "text")
  PROVE  RowsBehind(e, a, b, c)
<1> DEFINE ea == e \o a
           eb == ea \o b
           ec == eb \o c
<1>1. /\ ea \in Seq(RowSet)
      /\ \A k : KindOf(ea, k) = IF k = "structured" THEN KindOf(e, k) \o a ELSE KindOf(e, k)
  BY AddRows
<1> HIDE DEF ea
<1>2. /\ eb \in Seq(RowSet)
      /\ \A k : KindOf(eb, k) = IF k = "image" THEN KindOf(ea, k) \o b ELSE KindOf(ea, k)
  BY <1>1, AddRows
<1> HIDE DEF eb
<1>3. /\ ec \in Seq(RowSet)
      /\ \A k : KindOf(ec, k) = IF k = "text" THEN KindOf(eb, k) \o c ELSE KindOf(eb, k)
  BY <1>2, AddRows
<1> HIDE DEF ec
<1>4. /\ KindOf(ec, "structured") = KindOf(e, "structured") \o a
      /\ KindOf(ec, "image") = KindOf(e, "image") \o b
      /\ KindOf(ec, "text") = KindOf(e, "text") \o c
  BY <1>1, <1>2, <1>3
<1> QED BY <1>3, <1>4 DEF ea, eb, ec, RowsBehind

\* The rows of a kind are typed as rows are, and the text of the pages too.
LEMMA TypedRows ==
  ASSUME PdfRunning, Assembled \subseteq 1..PageCount
  PROVE  /\ \A kind : KindOf(extracted_pages, kind) \o <<>> = KindOf(extracted_pages, kind)
         /\ pdf.depth # "page" => accumulated_pages \in Seq(PieceSet)
         /\ pdf.depth = "page" => accumulated_pages = <<>>
<1>1. extracted_pages \in Seq(RowSet) /\ IsRequest(pdf) /\ TextInv
  BY RunningFact DEF RowsInv
<1>2. ASSUME NEW kind PROVE KindOf(extracted_pages, kind) \o <<>> = KindOf(extracted_pages, kind)
  <2> DEFINE U == Seq(RowSet)
             rows == extracted_pages
             q == [i \in 1..Len(rows) |-> IF rows[i].kind = kind THEN <<rows[i]>> ELSE <<>>]
  <2>1. Len(rows) \in Nat /\ \A i \in 1..Len(rows) : rows[i] \in RowSet
    BY <1>1, LenProperties, ElementOfSeq
  <2>2. q = [i \in 1..Len(rows) |-> q[i]] /\ \A i \in 1..Len(rows) : q[i] \in U
    BY <2>1
  <2> HIDE DEF q, U
  <2>3. q \in Seq(U)
    BY <2>1, <2>2, FunctionIsSeq
  <2>4. FlattenSeq(q) \in Seq(RowSet)
    BY <2>3, FlattenTyped DEF U
  <2>5. FlattenSeq(q) \o <<>> = FlattenSeq(q)
    BY <2>4, ConcatEmptySeq
  <2> QED BY <2>5 DEF KindOf, q
<1>3. TextOn(TextPages) \subseteq PieceSet
  <2> DEFINE T == TextPages
  <2>1. T \subseteq 1..PageCount
    BY DEF TextPages
  <2> HIDE DEF T
  <2>2. TextOn(T) \subseteq PieceSet
    BY <1>1, <2>1, RowTypes
  <2> QED BY <2>2 DEF T
<1>4. pdf.depth # "page" => accumulated_pages \in Seq(TextOn(TextPages))
  BY <1>1 DEF TextInv, TextAccumulated, Lists
<1>5. pdf.depth # "page" => accumulated_pages \in Seq(PieceSet)
  BY <1>3, <1>4, SeqMonotonic
<1>6. pdf.depth = "page" => accumulated_pages = <<>>
  BY <1>1 DEF TextInv
<1> QED BY <1>2, <1>5, <1>6

LEMMA AssemblePageFact ==
  ASSUME PdfRunning, AssemblePage
  PROVE  PdfInv'
<1> DEFINE blocks == Head(parser_results).blocks
           hp == Head(parser_results).page
           text == accumulated_pages \o PageText(hp, blocks)
           tables == IF pdf.method = "parse" /\ "table" \in pdf.wanted
                     THEN Rows(Of(hp, blocks, "Table"), ElementRow) ELSE <<>>
           images == IF pdf.images THEN Rows(Of(hp, blocks, "Picture"), ImageRow) ELSE <<>>
           row == IF pdf.depth = "page" THEN <<TextRow(hp, text)>> ELSE <<>>
           e == extracted_pages
           T == Assembled
<1>1. /\ IsRequest(pdf) /\ CallsInv(futures) /\ ListsInv /\ ResultsInv /\ RowsInv /\ TextInv /\ page_idx \in Nat
      /\ stage = "assemble" /\ parser_results # <<>> /\ e \in Seq(RowSet) /\ PageCount \in Nat
  BY RunningFact DEF AssemblePage, RowsInv
<1>2. /\ UNCHANGED <<pdf, page_idx, pages_for_tables, pages_for_ocr, futures, stage>>
      /\ parser_results' = Tail(parser_results)
      /\ extracted_pages' = ((e \o tables) \o images) \o row
      /\ accumulated_pages' = IF pdf.depth = "page" THEN <<>> ELSE text
  BY DEF AssemblePage
<1>3. PICK p \in 1..PageCount :
        /\ Head(parser_results) = Answer(p) /\ p \in Waiting /\ p \notin T /\ T \subseteq 1..PageCount
        /\ On("parser") /\ pdf.method # "pdfium" /\ pdf.text /\ ComesNext(T, p)
        /\ Lists(Tail(parser_results), {Answer(q) : q \in Waiting \ {p}})
        /\ \A k \in 1..Len(Tail(parser_results)) : Tail(parser_results)[k] = parser_results[k + 1]
        /\ Len(Tail(parser_results)) = Len(parser_results) - 1 /\ Len(parser_results) \in Nat
  BY <1>1, AnswerHead
<1>4. hp = p /\ blocks = pdf.pages[p].blocks /\ PageText(hp, blocks) = TextOf(p)
  BY <1>3 DEF Answer, TextOf
<1>5. ResultsInv' /\ Waiting' = Waiting \ {p}
  BY <1>1, <1>2, <1>3, AssembleResults
<1>6. T' = T \cup {p}
  <2>1. p \in Gathered(futures, "parser") /\ Gathered(futures', "parser") = Gathered(futures, "parser")
    BY <1>1, <1>2, <1>3 DEF ResultsInv
  <2> QED BY <2>1, <1>2, <1>3, <1>5 DEF Assembled
<1>7. /\ pdf.method = "parse" => Lists(tables, ElementRowsOn({p}))
      /\ pdf.method # "parse" => tables = <<>>
      /\ Lists(images, ImageRowsOn({p}))
      /\ OfOneKind(tables, "structured") /\ OfOneKind(images, "image")
  <2>1. /\ tables = IF pdf.method = "parse" /\ "table" \in pdf.wanted THEN Rows(Of(p, blocks, "Table"), ElementRow) ELSE <<>>
        /\ images = IF pdf.images THEN Rows(Of(p, blocks, "Picture"), ImageRow) ELSE <<>>
    BY <1>4
  <2> HIDE DEF tables, images, blocks
  <2> QED BY <1>1, <1>3, <1>4, <2>1, AssembledRows
<1>8. IF pdf.depth = "page" THEN row = <<TextRow(p, TextOf(p))>> /\ accumulated_pages' = <<>> /\ text = TextOf(p)
      ELSE row = <<>> /\ accumulated_pages' = accumulated_pages \o TextOf(p)
  <2>1. CASE pdf.depth = "page"
    <3>1. accumulated_pages = <<>>
      BY <2>1, <1>3, TypedRows
    <3>2. TextOf(p) \in Seq(ToSet(TextOf(p)))
      BY <1>1, <1>3, TextListed DEF Lists
    <3>3. text = TextOf(p)
      BY <3>1, <3>2, <1>4, ConcatEmptySeq
    <3> QED BY <2>1, <3>3, <1>2, <1>4
  <2>2. CASE pdf.depth # "page"
    BY <2>2, <1>2, <1>4
  <2> QED BY <2>1, <2>2
<1>9. OfOneKind(row, "text")
  <2>1. TextOf(p) \in Seq(PieceSet) /\ p \in Int
    <3>1. TextOf(p) \in Seq(ToSet(TextOf(p))) /\ ToSet(TextOf(p)) \subseteq PieceSet
      BY <1>1, <1>3, TextListed DEF Lists
    <3> QED BY <3>1, <1>1, SeqMonotonic
  <2> DEFINE t == TextOf(p)
  <2> HIDE DEF t
  <2>2. TextRow(p, t) \in RowSet /\ TextRow(p, t).kind = "text"
    BY <2>1 DEF TextRow, RowSet, t
  <2> DEFINE one == TextRow(p, t)
  <2> HIDE DEF one
  <2>3. one \in RowSet /\ one.kind = "text"
    BY <2>2 DEF one
  <2>4. OfOneKind(<<one>>, "text")
    BY <2>3 DEF OfOneKind
  <2> QED BY <2>4, <1>8, NoRows DEF one, t
<1> HIDE DEF text, tables, images, row, blocks, hp
<1>10. /\ extracted_pages' \in Seq(RowSet)
       /\ KindOf(extracted_pages', "structured") = KindOf(e, "structured") \o tables
       /\ KindOf(extracted_pages', "image") = KindOf(e, "image") \o images
       /\ KindOf(extracted_pages', "text") = KindOf(e, "text") \o row
  <2> HIDE DEF e
  <2>1. RowsBehind(e, tables, images, row)
    <3>1. e \in Seq(RowSet) /\ OfOneKind(tables, "structured") /\ OfOneKind(images, "image") /\ OfOneKind(row, "text")
      BY <1>1, <1>7, <1>9
    <3> QED BY ONLY <3>1, RowsGiven
  <2> QED BY <2>1, <1>2 DEF RowsBehind
<1>11. RowsInv'
  <2> DEFINE st == OfKind("structured")
             im == OfKind("image")
  <2>1. Lists(im, ImageRowsOn(T)) /\ Lists(st, ElementRowsOn(ElementPages))
    BY <1>1 DEF RowsInv
  <2>2. OfKind("structured")' = st \o tables /\ OfKind("image")' = im \o images
    BY <1>10, KindFact
  <2>3. Lists(im \o images, ImageRowsOn(T \cup {p}))
    <3> HIDE DEF im, T
    <3> QED BY <1>1, <1>3, <1>7, <2>1, RowsOfAPage
  <2>4. Lists(st \o tables, ElementRowsOn(ElementPages'))
    <3>1. CASE pdf.method = "parse"
      <4>1. ElementPages = T /\ ElementPages' = T \cup {p}
        BY <3>1, <1>2, <1>6 DEF ElementPages
      <4>2. Lists(st, ElementRowsOn(T)) /\ Lists(tables, ElementRowsOn({p}))
        BY <2>1, <4>1, <3>1, <1>7
      <4> HIDE DEF st, T
      <4>3. Lists(st \o tables, ElementRowsOn(T \cup {p}))
        BY <1>1, <1>3, <4>2, RowsOfAPage
      <4> QED BY <4>1, <4>3
    <3>2. CASE pdf.method # "parse"
      <4>1. ElementPages' = ElementPages
        BY <3>2, <1>2 DEF ElementPages
      <4>2. st \o tables = st
        BY <3>2, <1>3, <1>7, TypedRows, KindFact
      <4> QED BY <4>1, <4>2, <2>1
    <3> QED BY <3>1, <3>2
  <2>5. ElementRowsOn(ElementPages)' = ElementRowsOn(ElementPages') /\ ImageRowsOn(Assembled)' = ImageRowsOn(T \cup {p})
    BY <1>2, <1>6, SamePdf
  <2> QED BY <1>10, <2>2, <2>3, <2>4, <2>5 DEF RowsInv
<1>12. TextInv'
  <2>1. TextPages = T /\ TextPages' = T \cup {p}
    BY <1>2, <1>3, <1>6 DEF TextPages
  <2>2. IF pdf.depth = "page"
        THEN OfKind("text")' = OfKind("text") \o <<TextRow(p, TextOf(p))>> /\ accumulated_pages' = <<>>
        ELSE OfKind("text")' = OfKind("text") /\ accumulated_pages' = accumulated_pages \o TextOf(p)
    <3>1. OfKind("text")' = OfKind("text") \o row /\ OfKind("text") \o <<>> = OfKind("text")
      BY <1>3, <1>10, KindFact, TypedRows
    <3> QED BY <3>1, <1>8
  <2>3. /\ p \in 1..PageCount /\ p \notin TextPages /\ TextPages \subseteq 1..PageCount /\ ComesNext(TextPages, p)
        /\ TextPages' = TextPages \cup {p} /\ pdf' = pdf /\ IsRequest(pdf) /\ TextInv /\ stage # "done" /\ stage' # "done"
    BY <1>1, <1>2, <1>3, <2>1
  <2> QED BY ONLY <2>2, <2>3, TextStep
<1>13. PagesInv(futures', pages_for_tables', pages_for_ocr', page_idx' - 1)
  BY <1>2, PagesNow
<1>14. CallsInv(futures)' /\ ListsInv'
  BY <1>1, <1>2, <1>13, ListsParts, PagesNext
<1>15. PdfTypeOK'
  BY <1>1, <1>2, RunningFact, SamePdf DEF PdfTypeOK
<1> QED BY <1>5, <1>11, <1>12, <1>14, <1>15 DEF PdfInv

LEMMA FinishTextFact ==
  ASSUME PdfRunning, FinishText
  PROVE  PdfInv'
<1> DEFINE has == pdf.text /\ IF pdf.method = "pdfium" THEN pdf.depth # "page" /\ accumulated_pages # <<>>
                              ELSE pdf.depth = "document"
           row == TextRow(-1, accumulated_pages)
           e == extracted_pages
<1>1. /\ IsRequest(pdf) /\ CallsInv(futures) /\ ListsInv /\ ResultsInv /\ RowsInv /\ TextInv /\ page_idx \in Nat
      /\ stage = "assemble" /\ stage' = "done" /\ parser_results = <<>> /\ e \in Seq(RowSet) /\ PageCount \in Nat
  BY RunningFact DEF FinishText, RowsInv
<1>2. /\ UNCHANGED <<pdf, page_idx, pages_for_tables, pages_for_ocr, futures, parser_results, accumulated_pages>>
      /\ extracted_pages' = IF has THEN Append(e, row) ELSE e
  BY DEF FinishText
<1>3. has => pdf.depth # "page"
  OBVIOUS
<1>4. Assembled \subseteq 1..PageCount
  <2>1. Gathered(futures, "parser") \subseteq 1..PageCount
    BY <1>1, GatheredPages
  <2>2. page_idx = PageCount + 1
    BY <1>1 DEF ListsInv
  <2>3. page_idx - 1 = PageCount
    BY <1>1, <2>2
  <2> QED BY <2>1, <2>3 DEF Assembled
<1>5. /\ extracted_pages' \in Seq(RowSet)
      /\ KindOf(extracted_pages', "structured") = KindOf(e, "structured")
      /\ KindOf(extracted_pages', "image") = KindOf(e, "image")
      /\ KindOf(extracted_pages', "text") = IF has THEN KindOf(e, "text") \o <<row>> ELSE KindOf(e, "text")
  <2>1. CASE ~ has
    BY <1>1, <1>2, <2>1
  <2>2. CASE has
    <3>1. accumulated_pages \in Seq(PieceSet)
      BY <1>3, <1>4, <2>2, TypedRows
    <3>2. row \in RowSet /\ row.kind = "text"
      BY <3>1 DEF TextRow, RowSet
    <3> HIDE DEF row, has, e
    <3>3. OfOneKind(<<row>>, "text")
      BY <3>2 DEF OfOneKind
    <3>4. Append(e, row) = e \o <<row>>
      BY <1>1, <3>2, AppendIsConcat
    <3> DEFINE one == <<row>>
    <3> HIDE DEF one
    <3>5. /\ e \o one \in Seq(RowSet)
          /\ \A k : KindOf(e \o one, k) = IF k = "text" THEN KindOf(e, k) \o one ELSE KindOf(e, k)
      <4>1. OfOneKind(one, "text") /\ e \in Seq(RowSet)
        BY <1>1, <3>3 DEF one
      <4> QED BY ONLY <4>1, AddRows
    <3>6. /\ e \o one \in Seq(RowSet) /\ KindOf(e \o one, "structured") = KindOf(e, "structured")
          /\ KindOf(e \o one, "image") = KindOf(e, "image") /\ KindOf(e \o one, "text") = KindOf(e, "text") \o one
      BY <3>5
    <3>7. extracted_pages' = e \o one
      BY <1>2, <2>2, <3>4 DEF one
    <3> QED BY <2>2, <3>6, <3>7 DEF one
  <2> QED BY <2>1, <2>2
<1>6. ResultsInv' /\ Waiting' = Waiting
  <2>1. \A i \in 1..Len(futures') : futures'[i].at = "gathered"
    BY <1>1, <1>2 DEF ResultsInv
  <2>2. stage' # "pages" /\ stage' \notin {"pages", "gather"}
    BY <1>1
  <2> QED BY <1>1, <1>2, <2>1, <2>2, ResultsNext
<1>7. Assembled' = Assembled /\ ElementPages' = ElementPages /\ TextPages' = TextPages
  BY <1>2, <1>6 DEF Assembled, ElementPages, TextPages
<1>8. RowsInv'
  <2>1. OfKind("structured")' = OfKind("structured") /\ OfKind("image")' = OfKind("image")
    BY <1>5, KindFact
  <2>2. ElementRowsOn(ElementPages)' = ElementRowsOn(ElementPages) /\ ImageRowsOn(Assembled)' = ImageRowsOn(Assembled)
    BY <1>2, <1>7, SamePdf
  <2> QED BY <1>1, <1>5, <2>1, <2>2 DEF RowsInv
<1>9. TextInv'
  <2>1. OfKind("text")' = IF has THEN OfKind("text") \o <<row>> ELSE OfKind("text")
    BY <1>5, KindFact
  <2>2. OneBatch' => \E n \in Nat : TextPages' = 1..n
    BY <1>1, <1>2, <1>7, SamePdf DEF TextInv
  <2>3. CASE pdf.depth = "page"
    <3>1. TextRowsInv(OfKind("text"), TextPages) /\ accumulated_pages = <<>>
      BY <2>3, <1>1 DEF TextInv
    <3>2. OfKind("text")' = OfKind("text")
      BY <1>3, <2>1, <2>3
    <3>3. TextRowsInv(OfKind("text"), TextPages)'
      <4>1. TextRowsOn(TextPages)' = TextRowsOn(TextPages) /\ OneBatch' = OneBatch
        BY <1>2, <1>7, SamePdf
      <4> QED BY <3>1, <3>2, <4>1 DEF TextRowsInv
    <3> QED BY <1>2, <2>2, <2>3, <3>1, <3>3 DEF TextInv
  <2>4. CASE pdf.depth # "page"
    <3>1. TextAccumulated(accumulated_pages, TextPages) /\ OfKind("text") = <<>>
      BY <2>4, <1>1 DEF TextInv
    <3>2. <<>> \o <<row>> = <<row>>
      <4> HIDE DEF row
      <4> QED OBVIOUS
    <3>3. OfKind("text")' = IF has THEN <<row>> ELSE <<>>
      BY <2>1, <3>1, <3>2
    <3>4. TextAccumulated(accumulated_pages, TextPages)'
      <4>1. TextOn(TextPages)' = TextOn(TextPages) /\ OneBatch' = OneBatch /\ \A q : TextOf(q)' = TextOf(q)
        BY <1>2, <1>7, SamePdf
      <4> QED BY <1>2, <1>7, <3>1, <4>1 DEF TextAccumulated
    <3>5. OfKind("text")' =
            IF stage' = "done" /\ pdf'.text
               /\ IF pdf'.method = "pdfium" THEN accumulated_pages' # <<>> ELSE pdf'.depth = "document"
            THEN <<TextRow(-1, accumulated_pages')>> ELSE <<>>
      BY <1>1, <1>2, <2>4, <3>3
    <3> QED BY <1>2, <2>2, <2>4, <3>4, <3>5 DEF TextInv
  <2> QED BY <2>3, <2>4
<1>10. PagesInv(futures', pages_for_tables', pages_for_ocr', page_idx' - 1)
  BY <1>2, PagesNow
<1>11. CallsInv(futures)' /\ ListsInv'
  BY <1>1, <1>2, <1>10, ListsParts, PagesNext
<1>12. PdfTypeOK'
  BY <1>1, <1>2, RunningFact, SamePdf DEF PdfTypeOK
<1> QED BY <1>6, <1>8, <1>9, <1>11, <1>12 DEF PdfInv

LEMMA PdfSame ==
  ASSUME PdfInv, UNCHANGED pdfVars
  PROVE  PdfInv'
<1>1. UNCHANGED <<pdf, page_idx, pages_for_tables, pages_for_ocr, futures, parser_results,
                  accumulated_pages, extracted_pages, stage>>
  BY DEF pdfVars
<1>2. CASE stage = "failed"
  BY <1>1, <1>2, SamePdf DEF PdfInv, PdfTypeOK
<1>3. CASE stage # "failed"
  <2>1. PdfRunning
    BY <1>3 DEF PdfRunning
  <2>2. /\ page_idx \in Nat /\ CallsInv(futures) /\ ListsInv /\ ResultsInv /\ RowsInv /\ TextInv
    BY <2>1, RunningFact
  <2>3. PagesInv(futures', pages_for_tables', pages_for_ocr', page_idx' - 1)
    BY <1>1, <2>1, PagesNow
  <2>4. CallsInv(futures)' /\ ListsInv'
    BY <1>1, <2>2, <2>3, ListsParts, PagesNext
  <2>5. ResultsInv' /\ Waiting' = Waiting
    <3>1. /\ stage' = "pages" => \A m \in Models : Gathered(futures', m) = {}
          /\ stage' \in {"assemble", "done"} => \A i \in 1..Len(futures') : futures'[i].at = "gathered"
          /\ stage' = "done" => parser_results = <<>>
      BY <1>1, <2>2 DEF ResultsInv
    <3> QED BY <1>1, <2>2, <3>1, ResultsNext
  <2>6. Assembled' = Assembled /\ ElementPages' = ElementPages /\ TextPages' = TextPages
    BY <1>1, <2>5 DEF Assembled, ElementPages, TextPages
  <2>7. \A kind : OfKind(kind)' = OfKind(kind)
    BY <1>1, KindFact
  <2>8. RowsInv'
    <3>1. ElementRowsOn(ElementPages)' = ElementRowsOn(ElementPages) /\ ImageRowsOn(Assembled)' = ImageRowsOn(Assembled)
      BY <1>1, <2>6, SamePdf
    <3> QED BY <1>1, <2>2, <2>7, <3>1 DEF RowsInv
  <2>9. TextInv'
    <3>1. TextRowsInv(OfKind("text"), TextPages)' = TextRowsInv(OfKind("text"), TextPages)
      BY <1>1, <2>6, <2>7, SamePdf DEF TextRowsInv
    <3>2. TextAccumulated(accumulated_pages, TextPages)' = TextAccumulated(accumulated_pages, TextPages)
      BY <1>1, <2>6, SamePdf DEF TextAccumulated
    <3> QED BY <1>1, <2>2, <2>6, <2>7, <3>1, <3>2, SamePdf DEF TextInv
  <2>10. PdfTypeOK'
    BY <1>1, <2>1, RunningFact, SamePdf DEF PdfTypeOK
  <2> QED BY <2>4, <2>5, <2>8, <2>9, <2>10 DEF PdfInv
<1> QED BY <1>2, <1>3

\* A document that has failed: the calls that run still end.
LEMMA PdfFailed ==
  ASSUME PdfInv, stage = "failed", PdfNext
  PROVE  PdfInv'
<1>1. stage' = "failed" /\ pdf' = pdf /\ page_idx' = page_idx
  BY DEF PdfNext, ReadPage, RenderPage, SubmitRest, GatheredAll, AssemblePage, FinishText, StartCall, EndCall, Gather
<1> QED BY <1>1, SamePdf DEF PdfInv, PdfTypeOK

\* What holds in every state of an extraction: who has which page, and which
\* rows and which text there are of it by then.
THEOREM PdfInvariant == PdfSpec => []PdfInv
<1>1. PdfInit => PdfInv
  BY PdfFirst
<1>2. PdfInv /\ [PdfNext]_pdfVars => PdfInv'
  <2> SUFFICES ASSUME PdfInv, [PdfNext]_pdfVars PROVE PdfInv'
    OBVIOUS
  <2>1. CASE UNCHANGED pdfVars
    BY <2>1, PdfSame
  <2>2. CASE PdfNext /\ stage = "failed"
    BY <2>2, PdfFailed
  <2>3. CASE PdfNext /\ stage # "failed"
    <3>1. PdfRunning
      BY <2>3 DEF PdfRunning
    <3>2. CASE ReadPage
      BY <3>1, <3>2, ReadPageFact
    <3>3. CASE RenderPage
      BY <3>1, <3>3, RenderPageFact
    <3>4. CASE SubmitRest
      BY <3>1, <3>4, SubmitRestFact
    <3>5. CASE GatheredAll
      BY <3>1, <3>5, GatheredAllFact
    <3>6. CASE AssemblePage
      BY <3>1, <3>6, AssemblePageFact
    <3>7. CASE FinishText
      BY <3>1, <3>7, FinishTextFact
    <3>8. ASSUME NEW i \in 1..Len(futures), StartCall(i) PROVE PdfInv'
      BY <3>1, <3>8, StartCallFact
    <3>9. ASSUME NEW i \in 1..Len(futures), EndCall(i) PROVE PdfInv'
      BY <3>1, <3>9, EndCallFact
    <3>10. ASSUME NEW i \in 1..Len(futures), Gather(i) PROVE PdfInv'
      BY <3>1, <3>10, GatherFact
    <3> QED BY <2>3, <3>2, <3>3, <3>4, <3>5, <3>6, <3>7, <3>8, <3>9, <3>10 DEF PdfNext
  <2> QED BY <2>1, <2>2, <2>3
<1> QED BY <1>1, <1>2, PTL DEF PdfSpec

-----------------------------------------------------------------------------
(* What the invariant says of a document that is done.                     *)

LEMMA NothingListed ==
  ASSUME NEW s, Lists(s, {})
  PROVE  s = <<>>
<1>1. Len(s) = 0 /\ s \in Seq({})
  BY ListsCount, FS_EmptySet DEF Lists
<1> QED BY <1>1, EmptySeq

\* The pages the rows are made of, at the end.
LEMMA PagesDone ==
  ASSUME PdfInv, stage = "done"
  PROVE  /\ Assembled = IF pdf.method = "pdfium" \/ pdf.text THEN 1..PageCount ELSE {}
         /\ ElementRowsOn(ElementPages) = ElementRowsOn(1..PageCount)
         /\ ImageRowsOn(Assembled) = ImageRowsOn(1..PageCount)
         /\ TextPages = IF pdf.text THEN 1..PageCount ELSE {}
<1>1. /\ PdfRunning /\ IsRequest(pdf) /\ CallsInv(futures) /\ ListsInv /\ ResultsInv /\ page_idx = PageCount + 1
      /\ PageCount \in Nat /\ "yolox" \in Models /\ "parser" \in Models /\ parser_results = <<>>
  <2>1. PdfRunning
    BY DEF PdfRunning
  <2> QED BY <2>1, RunningFact DEF ListsInv, ResultsInv, Models
<1>2. Waiting = {} /\ page_idx - 1 = PageCount
  <2>1. Len(parser_results) = 0
    BY <1>1
  <2> QED BY <1>1, <2>1 DEF Waiting
<1>3. \A m \in Models : Gathered(futures, m) = IF On(m) THEN 1..PageCount ELSE {}
  <2> SUFFICES ASSUME NEW m \in Models, ~ On(m) PROVE Gathered(futures, m) = {}
    BY <1>1, AllGathered
  <2>1. ASSUME NEW x \in Gathered(futures, m) PROVE FALSE
    <3>1. PICK i \in 1..Len(futures) : futures[i].model = m
      BY <2>1, GivenFact
    <3> QED BY <3>1, <1>1 DEF CallsInv, IsCall
  <2> QED BY <2>1
<1>4. Assembled = IF pdf.method = "pdfium" \/ pdf.text THEN 1..PageCount ELSE {}
  BY <1>1, <1>2, <1>3 DEF Assembled, On
<1>5. (\A p : ElementsOn(p) = {}) => \A T : ElementRowsOn(T) = {}
  BY DEF ElementRowsOn, OnPages
<1>6. (\A p : ImagesOn(p) = {}) => \A T : ImageRowsOn(T) = {}
  BY DEF ImageRowsOn, OnPages
<1>7. ElementRowsOn(ElementPages) = ElementRowsOn(1..PageCount)
  <2>1. ElementPages = 1..PageCount \/ \A p : ElementsOn(p) = {}
    <3>1. CASE pdf.method = "parse"
      <4>1. pdf.text => ElementPages = 1..PageCount
        BY <3>1, <1>4 DEF ElementPages
      <4>2. ~ pdf.text => \A p : ElementsOn(p) = {}
        BY <3>1 DEF ElementsOn
      <4> QED BY <4>1, <4>2
    <3>2. CASE pdf.method # "parse"
      <4>1. LooksForElements => ElementPages = 1..PageCount
        BY <3>2, <1>1, <1>3 DEF ElementPages, On
      <4>2. ~ LooksForElements => pdf.wanted = {}
        BY <3>2, <1>1 DEF LooksForElements, IsRequest
      <4>3. pdf.wanted = {} => \A p : ElementsOn(p) = {}
        BY <3>2 DEF ElementsOn
      <4> QED BY <4>1, <4>2, <4>3
    <3> QED BY <3>1, <3>2
  <2> QED BY <2>1, <1>5
<1>8. ImageRowsOn(Assembled) = ImageRowsOn(1..PageCount)
  <2>1. Assembled = 1..PageCount \/ \A p : ImagesOn(p) = {}
    BY <1>4 DEF ImagesOn
  <2> QED BY <2>1, <1>6
<1>9. TextPages = IF pdf.text THEN 1..PageCount ELSE {}
  BY <1>4 DEF TextPages
<1> QED BY <1>4, <1>7, <1>8, <1>9

LEMMA RowsAreThose ==
  ASSUME NEW kind, NEW X, NEW R, Lists(OfKind(kind), R),
         \A y : y \in R <=> \E e \in X : y = [kind |-> kind, page |-> e[1], of |-> e]
  PROVE  ExactlyTheRows(kind, X)
<1> DEFINE s == OfKind(kind)
           f == [r \in R |-> r.of]
           t == [k \in 1..Len(s) |-> f[s[k]]]
<1>1. \A r \in R : r.of \in X /\ r.page = r.of[1] /\ r = [kind |-> kind, page |-> r.of[1], of |-> r.of]
  <2> SUFFICES ASSUME NEW r \in R PROVE r.of \in X /\ r.page = r.of[1] /\ r = [kind |-> kind, page |-> r.of[1], of |-> r.of]
    OBVIOUS
  <2>1. PICK e \in X : r = [kind |-> kind, page |-> e[1], of |-> e]
    OBVIOUS
  <2> QED BY <2>1
<1>2. \A e \in X : \E r \in R : r.of = e
  <2> SUFFICES ASSUME NEW e \in X PROVE \E r \in R : r.of = e
    OBVIOUS
  <2> DEFINE r == [kind |-> kind, page |-> e[1], of |-> e]
  <2>1. r \in R /\ r.of = e
    OBVIOUS
  <2> QED BY <2>1
<1>3. ToSet(s) = R /\ Len(s) \in Nat
  <2> HIDE DEF s
  <2> QED BY ListsSet DEF s
<1>4. Len(s) = Cardinality(X)
  <2>1. \A x, y \in R : f[x] = f[y] => x = y
    BY <1>1
  <2>2. \A y : y \in X <=> \E x \in R : y = f[x]
    BY <1>1, <1>2
  <2>3. Lists(s, R) /\ t = [k \in 1..Len(s) |-> f[s[k]]]
    OBVIOUS
  <2> HIDE DEF s, f, t
  <2>4. Lists(t, X)
    BY ONLY <2>1, <2>2, <2>3, ListsMapped
  <2>5. Len(t) = Cardinality(X) /\ Len(t) \in Nat
    BY <2>4, ListsCount
  <2>6. DOMAIN t = 1..Len(t)
    BY <2>4, ListsSet
  <2>7. Len(t) = Len(s)
    BY <1>3, <2>3, <2>5, <2>6, IntervalsEqual
  <2> QED BY <2>5, <2>7
<1>5. {r.of : r \in ToSet(s)} = X
  <2> HIDE DEF s
  <2> QED BY <1>1, <1>2, <1>3
<1>6. \A r \in ToSet(s) : r.page = r.of[1]
  <2> HIDE DEF s
  <2> QED BY <1>1, <1>3
<1> QED BY <1>4, <1>5, <1>6 DEF ExactlyTheRows

LEMMA RowsDone ==
  ASSUME PdfInv, stage = "done"
  PROVE  /\ ExactlyTheRows("structured", OnPages(1..PageCount, ElementsOn))
         /\ ExactlyTheRows("image", OnPages(1..PageCount, ImagesOn))
<1>1. RowsInv
  BY DEF PdfInv
<1>2. ExactlyTheRows("structured", OnPages(1..PageCount, ElementsOn))
  <2> DEFINE X == OnPages(1..PageCount, ElementsOn)
             R == ElementRowsOn(1..PageCount)
  <2>1. Lists(OfKind("structured"), R)
    BY <1>1, PagesDone DEF RowsInv
  <2>2. \A y : y \in R <=> \E e \in X : y = [kind |-> "structured", page |-> e[1], of |-> e]
    <3> HIDE DEF X
    <3> QED BY DEF ElementRowsOn, ElementRow, X
  <2> HIDE DEF X, R
  <2> QED BY <2>1, <2>2, RowsAreThose DEF X
<1>3. ExactlyTheRows("image", OnPages(1..PageCount, ImagesOn))
  <2> DEFINE X == OnPages(1..PageCount, ImagesOn)
             R == ImageRowsOn(1..PageCount)
  <2>1. Lists(OfKind("image"), R)
    BY <1>1, PagesDone DEF RowsInv
  <2>2. \A y : y \in R <=> \E e \in X : y = [kind |-> "image", page |-> e[1], of |-> e]
    <3> HIDE DEF X
    <3> QED BY DEF ImageRowsOn, ImageRow, X
  <2> HIDE DEF X, R
  <2> QED BY <2>1, <2>2, RowsAreThose DEF X
<1> QED BY <1>2, <1>3

\* One row of text for each page.
LEMMA TextOfPages ==
  ASSUME IsRequest(pdf), NEW texts, TextRowsInv(texts, 1..PageCount)
  PROVE  /\ Len(texts) = PageCount /\ {r.page : r \in ToSet(texts)} = 1..PageCount
         /\ \A r \in ToSet(texts) : r.of = TextOf(r.page)
         /\ OneBatch => \A p \in 1..PageCount : texts[p].page = p
<1> DEFINE R == TextRowsOn(1..PageCount)
           f == [r \in R |-> r.page]
           t == [k \in 1..Len(texts) |-> f[texts[k]]]
           X == 1..PageCount
<1>1. Lists(texts, R) /\ PageCount \in Nat
  BY PageFact DEF TextRowsInv
<1>2. \A y : y \in R <=> \E p \in X : y = TextRow(p, TextOf(p))
  BY DEF TextRowsOn
<1>3. \A r \in R : r.page \in X /\ r.of = TextOf(r.page) /\ r = TextRow(r.page, TextOf(r.page))
  <2> SUFFICES ASSUME NEW r \in R PROVE r.page \in X /\ r.of = TextOf(r.page) /\ r = TextRow(r.page, TextOf(r.page))
    OBVIOUS
  <2>1. PICK p \in X : r = TextRow(p, TextOf(p))
    BY <1>2
  <2>2. r.page = p /\ r.of = TextOf(p)
    BY <2>1 DEF TextRow
  <2> HIDE DEF R, X
  <2> QED BY <2>1, <2>2
<1>4. \A p \in X : \E r \in R : r.page = p
  <2> SUFFICES ASSUME NEW p \in X PROVE \E r \in R : r.page = p
    OBVIOUS
  <2>1. TextRow(p, TextOf(p)) \in R /\ TextRow(p, TextOf(p)).page = p
    BY <1>2 DEF TextRow
  <2> QED BY <2>1
<1> HIDE DEF R
<1>5. ToSet(texts) = R /\ Len(texts) \in Nat
  BY <1>1, ListsSet
<1>6. Len(texts) = PageCount
  <2>1. \A x, y \in R : f[x] = f[y] => x = y
    <3> SUFFICES ASSUME NEW x \in R, NEW y \in R, f[x] = f[y] PROVE x = y
      OBVIOUS
    <3>1. x.page = y.page
      OBVIOUS
    <3> QED BY <3>1, <1>3
  <2>2. \A y : y \in X <=> \E x \in R : y = f[x]
    <3> HIDE DEF X
    <3> QED BY <1>3, <1>4
  <2>3. t = [k \in 1..Len(texts) |-> f[texts[k]]]
    OBVIOUS
  <2>4. Cardinality(X) = PageCount
    BY <1>1, CountToN
  <2> HIDE DEF f, t, X
  <2>5. Lists(t, X)
    BY <1>1, <2>1, <2>2, <2>3, ListsMapped
  <2>6. Len(t) = Cardinality(X) /\ Len(t) \in Nat /\ DOMAIN t = 1..Len(t)
    BY <2>5, ListsCount, ListsSet
  <2>7. Len(t) = Len(texts)
    BY <1>5, <2>3, <2>6, IntervalsEqual
  <2> QED BY <2>4, <2>6, <2>7
<1>7. {r.page : r \in R} = X
  <2> HIDE DEF X
  <2> QED BY <1>3, <1>4
<1>8. OneBatch => \A p \in 1..PageCount : texts[p].page = p
  BY <1>6 DEF TextRowsInv
<1> QED BY <1>3, <1>5, <1>6, <1>7, <1>8

\* All text together: that of each page is in it unbroken.
LEMMA AllTextFact ==
  ASSUME IsRequest(pdf), NEW acc, TextAccumulated(acc, 1..PageCount)
  PROVE  /\ Len(acc) = Len(FlattenSeq([p \in 1..PageCount |-> TextOf(p)])) /\ acc \in Seq(PieceSet)
         /\ OneBatch => acc = FlattenSeq([p \in 1..PageCount |-> TextOf(p)])
         /\ \A p \in 1..PageCount : \E i \in 0..Len(acc) : SubSeq(acc, i + 1, i + Len(TextOf(p))) = TextOf(p)
<1> DEFINE n == PageCount
           seqs == [p \in 1..n |-> TextOf(p)]
           S == [p \in 1..n |-> ToSet(TextOf(p))]
           V == TextOn(1..n)
<1>1. n \in Nat /\ Lists(acc, V)
  BY PageFact DEF TextAccumulated
<1>2. /\ seqs = [p \in 1..n |-> seqs[p]] /\ (\A p \in 1..n : Lists(seqs[p], S[p]))
      /\ \A p, q \in 1..n : p # q => S[p] \cap S[q] = {}
  <2>1. \A p \in 1..n : Lists(seqs[p], S[p])
    BY TextListed
  <2>2. \A p, q \in 1..n : p # q => S[p] \cap S[q] = {}
    <3> SUFFICES ASSUME NEW p \in 1..n, NEW q \in 1..n, NEW x, x \in S[p], x \in S[q] PROVE p = q
      OBVIOUS
    <3>1. x[1] = p /\ x[1] = q
      BY TextListed
    <3> QED BY <3>1
  <2> QED BY <2>1, <2>2
<1>3. \A x : x \in V <=> \E p \in 1..n : x \in S[p]
  BY DEF TextOn
<1>4. acc \in Seq(PieceSet)
  <2>1. 1..n \subseteq 1..PageCount
    OBVIOUS
  <2>2. V \subseteq PieceSet
    <3> DEFINE T == 1..n
    <3>1. T \subseteq 1..PageCount
      OBVIOUS
    <3> HIDE DEF T
    <3>2. TextOn(T) \subseteq PieceSet
      BY <3>1, RowTypes
    <3> QED BY <3>2 DEF T
  <2> HIDE DEF V
  <2> QED BY <1>1, <2>2, SeqMonotonic DEF Lists
<1>5. Len(acc) = Len(FlattenSeq(seqs))
  <2> HIDE DEF n, seqs, S, V
  <2>1. Lists(FlattenSeq(seqs), V)
    BY <1>1, <1>2, <1>3, ListsFlatten
  <2> QED BY <1>1, <2>1, ListsCount
<1>6. OneBatch => acc = FlattenSeq(seqs)
  BY <1>1 DEF TextAccumulated
<1>7. \A p \in 1..n : \E i \in 0..Len(acc) : SubSeq(acc, i + 1, i + Len(TextOf(p))) = TextOf(p)
  <2> SUFFICES ASSUME NEW p \in 1..n PROVE \E i \in 0..Len(acc) : SubSeq(acc, i + 1, i + Len(TextOf(p))) = TextOf(p)
    OBVIOUS
  <2> DEFINE t == TextOf(p)
             L == Len(t)
  <2>1. t \in Seq(PieceSet) /\ L \in Nat /\ Len(acc) \in Nat
    <3>1. t \in Seq(ToSet(t)) /\ ToSet(t) \subseteq PieceSet
      BY TextListed DEF Lists
    <3>2. t \in Seq(PieceSet)
      <4> HIDE DEF t
      <4> QED BY <3>1, SeqMonotonic
    <3> QED BY <3>2, <1>4, LenProperties
  <2>2. Unbroken(acc, t)
    BY DEF TextAccumulated
  <2> HIDE DEF t
  <2>3. PICK i \in 0..(Len(acc) - L) : \A k \in 1..L : acc[i + k] = t[k]
    BY <2>2 DEF Unbroken
  <2>4. L <= Len(acc) /\ i \in 0..Len(acc) /\ i + 1 \in Int /\ i + L \in Int /\ i \in Nat /\ (i + L) - (i + 1) + 1 = L
    BY <2>1, <2>2, <2>3 DEF Unbroken
  <2> DEFINE u == SubSeq(acc, i + 1, i + L)
  <2>5. \A k \in (i + 1)..(i + L) : acc[k] \in PieceSet
    <3>1. \A k \in (i + 1)..(i + L) : k \in 1..Len(acc)
      BY <2>1, <2>3, <2>4
    <3> QED BY <3>1, <1>4, ElementOfSeq
  <2>6. u \in Seq(PieceSet) /\ Len(u) = L /\ \A k \in 1..L : u[k] = t[k]
    <3>1. /\ u \in Seq(PieceSet) /\ Len(u) = (IF i + 1 <= i + L THEN (i + L) - (i + 1) + 1 ELSE 0)
          /\ \A k \in 1..((i + L) - (i + 1) + 1) : u[k] = acc[(i + 1) + k - 1]
      <4> HIDE DEF L
      <4> QED BY <2>4, <2>5, SubSeqProperties, SMTT(30)
    <3>2. Len(u) = L
      <4> HIDE DEF u, L
      <4> QED BY <2>1, <2>4, <3>1 DEF L
    <3>3. \A k \in 1..L : (i + 1) + k - 1 = i + k
      BY <2>1, <2>4
    <3>4. \A k \in 1..L : u[k] = t[k]
      <4> HIDE DEF u, L
      <4> QED BY <2>3, <2>4, <3>1, <3>3
    <3> QED BY <3>1, <3>2, <3>4
  <2> HIDE DEF u
  <2>7. u = t
    BY <2>1, <2>6, SeqEqual
  <2> QED BY <2>4, <2>7 DEF u, t
<1> QED BY <1>4, <1>5, <1>6, <1>7

LEMMA PagesAreReadFact ==
  ASSUME PdfInv
  PROVE  PagesAreRead
<1> SUFFICES ASSUME stage = "done" PROVE PagesAreRead
  BY DEF PagesAreRead
<1> DEFINE texts == OfKind("text")
           AllText == [p \in 1..PageCount |-> TextOf(p)]
           Goal ==
             IF ~pdf.text \/ (pdf.method # "pdfium" /\ pdf.depth \notin {"page", "document"}) THEN texts = <<>>
             ELSE IF pdf.depth = "page"
             THEN /\ Len(texts) = PageCount
                  /\ {r.page : r \in ToSet(texts)} = 1..PageCount
                  /\ \A r \in ToSet(texts) : r.of = TextOf(r.page)
                  /\ OneBatch => \A p \in 1..PageCount : texts[p].page = p
             ELSE IF PageCount = 0 THEN FlattenSeq(Rows(texts, LAMBDA r : r.of)) = <<>>
             ELSE /\ Len(texts) = 1
                  /\ OneBatch => texts[1].of = FlattenSeq(AllText)
                  /\ Len(texts[1].of) = Len(FlattenSeq(AllText))
                  /\ \A p \in 1..PageCount : \E i \in 0..Len(texts[1].of) :
                       SubSeq(texts[1].of, i + 1, i + Len(TextOf(p))) = TextOf(p)
<1>1. IsRequest(pdf) /\ TextInv /\ PageCount \in Nat /\ TextPages = IF pdf.text THEN 1..PageCount ELSE {}
  BY PagesDone, PageFact DEF PdfInv, PdfTypeOK
<1>2. ASSUME pdf.depth = "page" PROVE TextRowsInv(texts, TextPages)
  BY <1>1, <1>2 DEF TextInv
<1> DEFINE has == pdf.text /\ IF pdf.method = "pdfium" THEN accumulated_pages # <<>> ELSE pdf.depth = "document"
<1>3. ASSUME pdf.depth # "page"
      PROVE  TextAccumulated(accumulated_pages, TextPages) /\ texts = IF has THEN <<TextRow(-1, accumulated_pages)>> ELSE <<>>
  BY <1>1, <1>3 DEF TextInv
<1>4. ASSUME ~pdf.text \/ (pdf.method # "pdfium" /\ pdf.depth \notin {"page", "document"}) PROVE texts = <<>>
  <2>1. CASE pdf.depth = "page"
    <3>1. TextPages = {}
      BY <1>1, <1>4, <2>1
    <3>2. TextRowsOn(TextPages) = {}
      BY <3>1 DEF TextRowsOn
    <3>3. Lists(texts, {})
      BY <1>2, <2>1, <3>2 DEF TextRowsInv
    <3> HIDE DEF texts
    <3> QED BY <3>3, NothingListed
  <2>2. CASE pdf.depth # "page"
    BY <1>3, <1>4, <2>2
  <2> QED BY <2>1, <2>2
<1>5. ASSUME pdf.text, pdf.depth = "page"
      PROVE  /\ Len(texts) = PageCount /\ {r.page : r \in ToSet(texts)} = 1..PageCount
             /\ \A r \in ToSet(texts) : r.of = TextOf(r.page)
             /\ OneBatch => \A p \in 1..PageCount : texts[p].page = p
  <2>1. TextRowsInv(texts, 1..PageCount)
    BY <1>1, <1>2, <1>5
  <2> HIDE DEF texts
  <2> QED BY <1>1, <2>1, TextOfPages
<1>6. ASSUME pdf.text, pdf.depth # "page"
      PROVE  /\ TextAccumulated(accumulated_pages, 1..PageCount) /\ accumulated_pages \in Seq(PieceSet)
             /\ Len(accumulated_pages) = Len(FlattenSeq(AllText))
             /\ OneBatch => accumulated_pages = FlattenSeq(AllText)
             /\ \A p \in 1..PageCount : \E i \in 0..Len(accumulated_pages) :
                  SubSeq(accumulated_pages, i + 1, i + Len(TextOf(p))) = TextOf(p)
  <2>1. TextAccumulated(accumulated_pages, 1..PageCount)
    BY <1>1, <1>3, <1>6
  <2> QED BY <1>1, <2>1, AllTextFact
<1>7. ASSUME pdf.text, pdf.depth # "page", PageCount = 0 PROVE FlattenSeq(Rows(texts, LAMBDA r : r.of)) = <<>>
  <2>1. accumulated_pages = <<>>
    <3>1. 1..PageCount = {}
      BY <1>7
    <3>2. TextOn(1..PageCount) = {}
      BY <3>1 DEF TextOn
    <3>3. Lists(accumulated_pages, {})
      BY <1>6, <1>7, <3>2 DEF TextAccumulated
    <3> QED BY <3>3, NothingListed
  <2> DEFINE row == TextRow(-1, accumulated_pages)
  <2>2. row.of = <<>>
    BY <2>1 DEF TextRow
  <2>3. CASE texts = <<>>
    <3>1. Rows(texts, LAMBDA r : r.of) = <<>>
      BY <2>3 DEF Rows
    <3> QED BY <3>1, FlattenEmpty
  <2>4. CASE texts = <<row>>
    <3> HIDE DEF row, texts
    <3>1. Rows(texts, LAMBDA r : r.of) = <<<<>>>>
      <4>1. Len(texts) = 1 /\ texts[1] = row
        BY <2>4
      <4>2. Rows(texts, LAMBDA r : r.of) = [i \in 1..1 |-> texts[i].of]
        BY <4>1 DEF Rows
      <4>3. \A i \in 1..1 : texts[i].of = <<>>
        BY <4>1, <2>2
      <4>4. [i \in 1..1 |-> texts[i].of] = [i \in 1..1 |-> <<>>]
        BY <4>3
      <4> QED BY <4>2, <4>4
    <3>2. <<>> \in Seq({})
      OBVIOUS
    <3> QED BY <3>1, <3>2, FlattenOne
  <2> QED BY <1>3, <1>7, <2>3, <2>4
<1>8. ASSUME pdf.text, pdf.depth # "page", PageCount # 0, pdf.method = "pdfium" \/ pdf.depth = "document"
      PROVE  Len(texts) = 1 /\ texts[1].of = accumulated_pages
  <2>1. has
    <3>1. CASE pdf.method # "pdfium"
      BY <1>8, <3>1
    <3>2. CASE pdf.method = "pdfium"
      <4>1. 1 \in 1..PageCount
        BY <1>1, <1>8
      <4>2. TextOf(1) = <<<<1, 0>>>>
        BY <3>2 DEF TextOf
      <4>3. <<1, 0>> \in ToSet(TextOf(1))
        <5> DEFINE x == <<1, 0>>
        <5> HIDE DEF x
        <5>1. Lists(<<x>>, {x})
          BY ListsOne
        <5>2. ToSet(<<x>>) = {x}
          BY <5>1, ListsSet
        <5> QED BY <4>2, <5>2 DEF x
      <4>4. <<1, 0>> \in TextOn(1..PageCount)
        BY <4>1, <4>3 DEF TextOn
      <4>5. accumulated_pages # <<>>
        <5>1. \E k \in 1..Len(accumulated_pages) : accumulated_pages[k] = <<1, 0>>
          BY <1>6, <1>8, <4>4 DEF TextAccumulated, Lists
        <5> QED BY <5>1
      <4> QED BY <1>8, <3>2, <4>5
    <3> QED BY <3>1, <3>2
  <2> DEFINE row == TextRow(-1, accumulated_pages)
  <2>2. texts = <<row>> /\ row.of = accumulated_pages
    BY <1>3, <1>8, <2>1 DEF TextRow
  <2> HIDE DEF row, texts
  <2> QED BY <2>2
<1>9. Goal
  <2>1. CASE ~pdf.text \/ (pdf.method # "pdfium" /\ pdf.depth \notin {"page", "document"})
    BY <1>4, <2>1
  <2>2. CASE ~(~pdf.text \/ (pdf.method # "pdfium" /\ pdf.depth \notin {"page", "document"})) /\ pdf.depth = "page"
    <3> HIDE DEF texts
    <3> QED BY <1>1, <1>5, <2>2 DEF IsRequest
  <2>3. CASE ~(~pdf.text \/ (pdf.method # "pdfium" /\ pdf.depth \notin {"page", "document"})) /\ pdf.depth # "page"
    <3>1. pdf.text /\ (pdf.method = "pdfium" \/ pdf.depth = "document")
      BY <1>1, <2>3 DEF IsRequest
    <3>2. CASE PageCount = 0
      BY <1>7, <2>3, <3>1, <3>2
    <3>3. CASE PageCount # 0
      <4>1. Len(texts) = 1 /\ texts[1].of = accumulated_pages
        BY <1>8, <2>3, <3>1, <3>3
      <4> HIDE DEF texts, AllText
      <4> QED BY <1>6, <2>3, <3>1, <3>3, <4>1
    <3> QED BY <3>2, <3>3
  <2> QED BY <2>1, <2>2, <2>3
<1> QED BY <1>9, RowsDone DEF PagesAreRead, OneBatch

\* Whatever the document, the options, the sizes of the batches and the number
\* of threads: a document pdfium_extractor or nemoretriever_parse returns has
\* the rows the task asks for, each once, and the text of each page unbroken.
THEOREM PdfPagesAreRead == PdfSpec => []PagesAreRead
<1>1. PdfInv => PagesAreRead
  BY PagesAreReadFact
<1> QED BY <1>1, PdfInvariant, PTL

-----------------------------------------------------------------------------
(* What a sequence has, and has once.                                      *)

Has(s, x) == \E k \in 1..Len(s) : s[k] = x
Once(s, x) == \E k \in 1..Len(s) : s[k] = x /\ \A j \in 1..Len(s) : s[j] = x => j = k

LEMMA JoinHas ==
  ASSUME NEW T, NEW a \in Seq(T), NEW b \in Seq(T), NEW x
  PROVE  /\ Has(a \o b, x) <=> Has(a, x) \/ Has(b, x)
         /\ Once(a, x) /\ ~Has(b, x) => Once(a \o b, x)
         /\ ~Has(a, x) /\ Once(b, x) => Once(a \o b, x)
<1> DEFINE c == a \o b
           m == Len(a)
           n == Len(b)
<1>1. /\ m \in Nat /\ n \in Nat /\ Len(c) = m + n
      /\ \A k \in 1..m : k \in 1..(m + n) /\ c[k] = a[k]
      /\ \A k \in 1..n : m + k \in 1..(m + n) /\ c[m + k] = b[k]
      /\ \A k \in 1..(m + n) : k \in 1..m \/ (k - m \in 1..n /\ c[k] = b[k - m] /\ m + (k - m) = k)
  <2>1. /\ Len(c) = m + n /\ m \in Nat /\ n \in Nat
        /\ DOMAIN a = 1..m /\ DOMAIN b = 1..n /\ DOMAIN c = 1..(m + n)
        /\ \A k \in DOMAIN a : k \in DOMAIN c /\ c[k] = a[k]
        /\ \A k \in DOMAIN b : m + k \in DOMAIN c /\ c[m + k] = b[k]
        /\ \A k \in DOMAIN c : k \in DOMAIN a \/ (k - m \in DOMAIN b /\ c[k] = b[k - m])
    BY JoinFact, LenProperties
  <2> HIDE DEF m, n, c
  <2>2. \A k \in 1..(m + n) : m + (k - m) = k
    BY <2>1
  <2>3. /\ \A k \in 1..m : k \in 1..(m + n) /\ c[k] = a[k]
        /\ \A k \in 1..n : m + k \in 1..(m + n) /\ c[m + k] = b[k]
    BY ONLY <2>1
  <2>4. \A k \in 1..(m + n) : k \in 1..m \/ (k - m \in 1..n /\ c[k] = b[k - m])
    BY ONLY <2>1
  <2> QED BY <2>1, <2>2, <2>3, <2>4
<1> HIDE DEF c, m, n
<1>2. Has(c, x) <=> Has(a, x) \/ Has(b, x)
  <2>1. ASSUME Has(c, x) PROVE Has(a, x) \/ Has(b, x)
    <3>1. PICK k \in 1..(m + n) : c[k] = x
      BY <2>1, <1>1 DEF Has
    <3>2. CASE k \in 1..m
      BY <3>1, <3>2, <1>1 DEF Has, m
    <3>3. CASE k \notin 1..m
      BY <3>1, <3>3, <1>1 DEF Has, n
    <3> QED BY <3>2, <3>3
  <2>2. ASSUME Has(a, x) PROVE Has(c, x)
    <3>1. PICK k \in 1..m : a[k] = x
      BY <2>2 DEF Has, m
    <3>2. k \in 1..Len(c) /\ c[k] = x
      BY <3>1, <1>1
    <3> QED BY <3>2 DEF Has
  <2>3. ASSUME Has(b, x) PROVE Has(c, x)
    <3>1. PICK k \in 1..n : b[k] = x
      BY <2>3 DEF Has, n
    <3>2. m + k \in 1..Len(c) /\ c[m + k] = x
      BY <3>1, <1>1
    <3> QED BY <3>2 DEF Has
  <2> QED BY <2>1, <2>2, <2>3
<1>3. ASSUME Once(a, x), ~Has(b, x) PROVE Once(c, x)
  <2>1. PICK k \in 1..m : a[k] = x /\ \A j \in 1..m : a[j] = x => j = k
    BY <1>3 DEF Once, m
  <2>2. \A j \in 1..n : b[j] # x
    BY <1>3 DEF Has, n
  <2>3. k \in 1..Len(c) /\ c[k] = x
    BY <2>1, <1>1
  <2>4. ASSUME NEW j \in 1..Len(c), c[j] = x PROVE j = k
    <3>1. CASE j \in 1..m
      <4>1. a[j] = x
        BY <2>4, <3>1, <1>1
      <4> QED BY <2>1, <3>1, <4>1
    <3>2. CASE j \notin 1..m
      <4>1. j - m \in 1..n /\ b[j - m] = x
        BY <2>4, <3>2, <1>1
      <4> QED BY <2>2, <4>1
    <3> QED BY <3>1, <3>2
  <2> QED BY <2>3, <2>4 DEF Once
<1>4. ASSUME ~Has(a, x), Once(b, x) PROVE Once(c, x)
  <2>1. PICK k \in 1..n : b[k] = x /\ \A j \in 1..n : b[j] = x => j = k
    BY <1>4 DEF Once, n
  <2>2. \A j \in 1..m : a[j] # x
    BY <1>4 DEF Has, m
  <2>3. m + k \in 1..Len(c) /\ c[m + k] = x
    BY <2>1, <1>1
  <2>4. ASSUME NEW j \in 1..Len(c), c[j] = x PROVE j = m + k
    <3>1. j \notin 1..m
      BY <2>2, <2>4, <1>1
    <3>2. j - m \in 1..n /\ b[j - m] = x /\ m + (j - m) = j
      BY <3>1, <2>4, <1>1
    <3> QED BY <3>2, <2>1
  <2> QED BY <2>3, <2>4 DEF Once
<1> QED BY <1>2, <1>3, <1>4 DEF c

LEMMA FlattenHas ==
  ASSUME NEW T, NEW seqs \in Seq(Seq(T)), NEW x
  PROVE  Has(FlattenSeq(seqs), x) <=> \E k \in 1..Len(seqs) : Has(seqs[k], x)
<1> DEFINE n == Len(seqs)
           G == [m \in Nat |-> {y \in Seq(T) : Has(y, x) <=> \E k \in 1..m : Has(seqs[k], x)}]
<1>1. n \in Nat
  BY LenProperties
<1>2. <<>> \in G[0]
  <2>1. <<>> \in Seq(T) /\ ~Has(<<>>, x)
    BY DEF Has
  <2> QED BY <2>1
<1>3. ASSUME NEW m \in 0..(n - 1), NEW y \in Seq(T), y \in G[m] PROVE y \o seqs[m + 1] \in G[m + 1]
  <2>1. m \in Nat /\ m + 1 \in Nat /\ m + 1 \in 1..n
    BY <1>1
  <2>2. seqs[m + 1] \in Seq(T)
    BY <2>1, ElementOfSeq
  <2>3. y \o seqs[m + 1] \in Seq(T)
    BY <2>2, ConcatProperties
  <2>4. Has(y, x) <=> \E k \in 1..m : Has(seqs[k], x)
    BY <1>3, <2>1
  <2>5. Has(y \o seqs[m + 1], x) <=> Has(y, x) \/ Has(seqs[m + 1], x)
    BY <2>2, JoinHas
  <2>6. \A k : k \in 1..(m + 1) <=> k \in 1..m \/ k = m + 1
    BY <2>1
  <2> DEFINE z == y \o seqs[m + 1]
  <2> HIDE DEF z
  <2>7. Has(z, x) <=> \E k \in 1..(m + 1) : Has(seqs[k], x)
    BY <2>4, <2>5, <2>6 DEF z
  <2> QED BY <2>1, <2>3, <2>7 DEF z
<1> HIDE DEF G
<1>4. FlattenSeq(seqs) \in G[n]
  BY <1>2, <1>3, FlattenInduction
<1> QED BY <1>1, <1>4 DEF G

LEMMA FlattenOnce ==
  ASSUME NEW T, NEW seqs \in Seq(Seq(T)), NEW x, NEW i \in 1..Len(seqs), Once(seqs[i], x),
         \A k \in 1..Len(seqs) : k # i => ~Has(seqs[k], x)
  PROVE  Once(FlattenSeq(seqs), x)
<1> DEFINE n == Len(seqs)
           G == [m \in Nat |-> {y \in Seq(T) : IF i <= m THEN Once(y, x) ELSE ~Has(y, x)}]
<1>1. n \in Nat /\ i \in Nat /\ i <= n /\ i >= 1
  BY LenProperties
<1>2. <<>> \in G[0]
  <2>1. <<>> \in Seq(T) /\ ~Has(<<>>, x)
    BY DEF Has
  <2> QED BY <2>1, <1>1
<1>3. ASSUME NEW m \in 0..(n - 1), NEW y \in Seq(T), y \in G[m] PROVE y \o seqs[m + 1] \in G[m + 1]
  <2>1. m \in Nat /\ m + 1 \in Nat /\ m + 1 \in 1..n
    BY <1>1
  <2>2. seqs[m + 1] \in Seq(T)
    BY <2>1, ElementOfSeq
  <2>3. y \o seqs[m + 1] \in Seq(T)
    BY <2>2, ConcatProperties
  <2>4. IF i <= m THEN Once(y, x) ELSE ~Has(y, x)
    BY <1>3, <2>1
  <2> DEFINE s == seqs[m + 1]
             z == y \o s
  <2>5. /\ Has(z, x) <=> Has(y, x) \/ Has(s, x)
        /\ Once(y, x) /\ ~Has(s, x) => Once(z, x)
        /\ ~Has(y, x) /\ Once(s, x) => Once(z, x)
    BY <2>2, JoinHas
  <2>6. i # m + 1 => ~Has(s, x)
    BY <2>1
  <2>7. i = m + 1 => Once(s, x)
    OBVIOUS
  <2> HIDE DEF z, s
  <2>8. IF i <= m + 1 THEN Once(z, x) ELSE ~Has(z, x)
    <3>1. CASE i <= m
      BY <3>1, <2>1, <1>1, <2>4, <2>5, <2>6
    <3>2. CASE i = m + 1
      BY <3>2, <2>1, <1>1, <2>4, <2>5, <2>7
    <3>3. CASE i > m + 1
      BY <3>3, <2>1, <1>1, <2>4, <2>5, <2>6
    <3> QED BY <3>1, <3>2, <3>3, <2>1, <1>1
  <2> QED BY <2>1, <2>3, <2>8 DEF z, s
<1> HIDE DEF G
<1>4. FlattenSeq(seqs) \in G[n]
  BY <1>2, <1>3, FlattenInduction
<1> QED BY <1>1, <1>4 DEF G

LEMMA FlattenTwice ==
  ASSUME NEW T, NEW X \in Seq(Seq(Seq(T))), NEW W \in Seq(Seq(T)), Len(W) = Len(X),
         \A k \in 1..Len(X) : W[k] = FlattenSeq(X[k])
  PROVE  FlattenSeq(FlattenSeq(X)) = FlattenSeq(W)
<1> DEFINE n == Len(X)
           U == Seq(T)
           G == [m \in Nat |-> {y \in Seq(U) : FlattenSeq(y) = FlattenSeq(Prefix(W, m))}]
<1>1. n \in Nat
  BY LenProperties
<1>2. \A k \in 1..n : X[k] \in Seq(U) /\ FlattenSeq(X[k]) \in U
  BY ElementOfSeq, FlattenTyped
<1>3. W \in Seq(U) /\ Len(W) = n /\ \A k \in 1..n : W[k] = FlattenSeq(X[k])
  OBVIOUS
<1>4. <<>> \in G[0]
  <2>1. <<>> \in Seq(U)
    OBVIOUS
  <2>2. Prefix(W, 0) = <<>>
    <3> HIDE DEF U
    <3>1. 0 \in Nat /\ 0 <= Len(W)
      BY <1>1, <1>3
    <3>2. Prefix(W, 0) \in Seq(U) /\ Len(Prefix(W, 0)) = 0
      BY ONLY <3>1, <1>3, PrefixFact
    <3> QED BY <3>2, EmptySeq
  <2> QED BY <2>1, <2>2
<1>5. ASSUME NEW m \in 0..(n - 1), NEW y \in Seq(U), y \in G[m] PROVE y \o X[m + 1] \in G[m + 1]
  <2>1. m \in Nat /\ m + 1 \in Nat /\ m + 1 \in 1..n /\ m <= n /\ m < n
    BY <1>1
  <2> DEFINE s == X[m + 1]
             p == Prefix(W, m)
             z == y \o s
  <2>2. s \in Seq(U) /\ z \in Seq(U)
    BY <2>1, <1>2, ConcatProperties
  <2>3. FlattenSeq(y) = FlattenSeq(p)
    BY <1>5, <2>1
  <2>4. FlattenSeq(z) = FlattenSeq(y) \o FlattenSeq(s)
    BY <2>2, FlattenJoin
  <2>5. p \in Seq(U) /\ Prefix(W, m + 1) = Append(p, W[m + 1]) /\ W[m + 1] = FlattenSeq(s) /\ W[m + 1] \in U
    <3> HIDE DEF U
    <3>1. p \in Seq(U)
      BY <1>3, <2>1, PrefixFact
    <3>2. Prefix(W, m + 1) = Append(p, W[m + 1])
      BY <1>3, <2>1, PrefixFact
    <3>3. W[m + 1] = FlattenSeq(s) /\ W[m + 1] \in U
      BY <1>2, <1>3, <2>1
    <3> QED BY <3>1, <3>2, <3>3
  <2> HIDE DEF p, s, z
  <2>6. FlattenSeq(Append(p, W[m + 1])) = FlattenSeq(p) \o W[m + 1]
    <3>1. FlattenSeq(p) \in Seq(T)
      BY <2>5, FlattenTyped
    <3> QED BY <3>1, <2>5, FlattenAppend
  <2>7. FlattenSeq(z) = FlattenSeq(Prefix(W, m + 1))
    BY <2>3, <2>4, <2>5, <2>6
  <2> QED BY <2>1, <2>2, <2>7 DEF z, s
<1> HIDE DEF G
<1>6. FlattenSeq(X) \in G[n]
  <2> HIDE DEF U
  <2>1. X \in Seq(Seq(U))
    BY DEF U
  <2> QED BY <1>4, <1>5, <2>1, FlattenInduction
<1>7. FlattenSeq(FlattenSeq(X)) = FlattenSeq(Prefix(W, n))
  BY <1>1, <1>6 DEF G
<1>8. Prefix(W, n) = W
  <2> HIDE DEF U
  <2>1. n \in Nat /\ n <= Len(W) /\ n = Len(W)
    BY <1>1, <1>3
  <2> HIDE DEF n
  <2> QED BY ONLY <2>1, <1>3, PrefixFact
<1> QED BY <1>3, <1>7, <1>8

\* A finite set of numbers in their order.
LEMMA InOrderFact ==
  ASSUME NEW S, S \subseteq Nat, IsFiniteSet(S)
  PROVE  /\ Lists(InOrder(S), S) /\ InOrder(S) = [k \in 1..Cardinality(S) |-> InOrder(S)[k]]
         /\ Len(InOrder(S)) = Cardinality(S) /\ Cardinality(S) \in Nat
<1> DEFINE Below(i) == {j \in S : j < i}
           n == Cardinality(S)
           rank == [i \in S |-> Cardinality(Below(i))]
           T == 0..(n - 1)
           s == InOrder(S)
<1>1. n \in Nat
  BY FS_CardinalityType
<1>2. ASSUME NEW i \in S
      PROVE  IsFiniteSet(Below(i)) /\ Cardinality(Below(i)) \in T
  <2>1. Below(i) \subseteq S /\ i \notin Below(i)
    OBVIOUS
  <2> HIDE DEF Below
  <2>2. IsFiniteSet(Below(i)) /\ Cardinality(Below(i)) <= Cardinality(S)
        /\ (Cardinality(Below(i)) = Cardinality(S) => Below(i) = S)
    BY <2>1, FS_Subset
  <2>3. Cardinality(Below(i)) \in Nat
    BY <2>2, FS_CardinalityType
  <2> QED BY <2>1, <2>2, <2>3, <1>1
<1>3. ASSUME NEW i \in S, NEW k \in S, i < k
      PROVE  Cardinality(Below(i)) # Cardinality(Below(k))
  <2>1. i \in Nat /\ k \in Nat /\ \A j \in S : j \in Nat
    OBVIOUS
  <2>2. \A j \in S : j < i => j < k
    BY <2>1, <1>3
  <2>3. ~ (i < i)
    BY <2>1
  <2>4. Below(i) \subseteq Below(k) /\ i \in Below(k) /\ i \notin Below(i)
    BY <1>3, <2>2, <2>3
  <2> HIDE DEF Below
  <2> QED BY <2>4, <1>2, FS_Subset
<1>4. \A i, k \in S : Cardinality(Below(i)) = Cardinality(Below(k)) => i = k
  <2> SUFFICES ASSUME NEW i \in S, NEW k \in S, i # k PROVE Cardinality(Below(i)) # Cardinality(Below(k))
    OBVIOUS
  <2>1. i < k \/ k < i
    OBVIOUS
  <2> HIDE DEF Below
  <2> QED BY <2>1, <1>3
<1>5. rank \in Surjection(S, T)
  <2>1. rank \in Injection(S, T)
    <3> HIDE DEF Below
    <3> QED BY <1>2, <1>4 DEF Injection, IsInjective
  <2>2. IsFiniteSet(T) /\ Cardinality(T) = Cardinality(S)
    <3>1. 0 \in Int /\ n - 1 \in Int
      BY <1>1
    <3>2. IsFiniteSet(T) /\ Cardinality(T) = IF 0 > n - 1 THEN 0 ELSE (n - 1) - 0 + 1
      BY <3>1, FS_Interval
    <3> QED BY <3>2, <1>1
  <2> HIDE DEF rank, T
  <2> QED BY <2>1, <2>2, FS_Injection
<1>6. \A m \in T : \E i \in S : Cardinality(Below(i)) = m
  <2>1. \A i \in S : rank[i] = Cardinality(Below(i))
    OBVIOUS
  <2> HIDE DEF rank, Below
  <2> QED BY <2>1, <1>5 DEF Surjection
<1>7. s = [k \in 1..n |-> CHOOSE i \in S : Cardinality(Below(i)) = k - 1]
  BY DEF InOrder
<1>8. \A k \in 1..n : s[k] \in S /\ Cardinality(Below(s[k])) = k - 1
  <2> SUFFICES ASSUME NEW k \in 1..n
               PROVE  s[k] \in S /\ Cardinality(Below(s[k])) = k - 1
    OBVIOUS
  <2>1. k - 1 \in T
    BY <1>1
  <2>2. s[k] = CHOOSE i \in S : Cardinality(Below(i)) = k - 1
    BY <1>7
  <2> HIDE DEF Below, T, s
  <2> QED BY <2>1, <2>2, <1>6
<1>9. s = [k \in 1..n |-> s[k]]
  BY <1>7
<1> HIDE DEF s
<1>10. s \in Seq(S) /\ Len(s) = n /\ DOMAIN s = 1..n
  <2> HIDE DEF n
  <2> QED BY ONLY <1>1, <1>8, <1>9, FunctionIsSeq
<1>11. \A i \in S : \E k \in 1..n : s[k] = i
  <2> SUFFICES ASSUME NEW i \in S PROVE \E k \in 1..n : s[k] = i
    OBVIOUS
  <2> DEFINE k == Cardinality(Below(i)) + 1
  <2>1. k \in 1..n /\ k - 1 = Cardinality(Below(i))
    <3> HIDE DEF Below
    <3> QED BY <1>1, <1>2
  <2> HIDE DEF k, Below
  <2> QED BY <2>1, <1>4, <1>8
<1>12. \A k, m \in 1..n : s[k] = s[m] => k = m
  <2> SUFFICES ASSUME NEW k \in 1..n, NEW m \in 1..n, s[k] = s[m]
               PROVE  k = m
    OBVIOUS
  <2>1. k - 1 = m - 1
    <3> HIDE DEF Below
    <3> QED BY <1>8
  <2> QED BY <2>1, <1>1
<1>13. Lists(s, S) /\ s = [k \in 1..n |-> s[k]] /\ Len(s) = n
  BY <1>9, <1>10, <1>11, <1>12 DEF Lists
<1> QED BY <1>1, <1>13 DEF s

-----------------------------------------------------------------------------
(* The content of tables.                                                  *)

NumberSets == {S \in SUBSET Nat : IsFiniteSet(S)}
EntryType == [texts : Seq(Nat), rows : NumberSets, columns : NumberSets, line : Nat]

\* What becomes of one entry's texts is the same for each of them; an entry has
\* a text, and none twice.
EntryOK(e) ==
  /\ e \in EntryType /\ e.line \in Ys
  /\ \A t : Has(e.texts, t) => t \in Texts /\ Once(e.texts, t)
  /\ \E t : Has(e.texts, t)

\* The entries share no text, and each text is in one.
Apart(E) == \A e, f \in E : \A t : Has(e.texts, t) /\ Has(f.texts, t) => e = f
EntriesInv(as) ==
  \E E : /\ Lists(as, E) /\ Apart(E) /\ \A e \in E : EntryOK(e)
         /\ \A t \in Texts : \E e \in E : Has(e.texts, t)

LEMMA HasListed ==
  ASSUME NEW s, NEW S, Lists(s, S), NEW x
  PROVE  /\ Has(s, x) <=> x \in S
         /\ Has(s, x) <=> Once(s, x)
<1>1. s \in Seq(S) /\ \A k \in 1..Len(s) : s[k] \in S
  BY ElementOfSeq DEF Lists
<1>2. /\ \A y \in S : \E k \in 1..Len(s) : s[k] = y
      /\ \A j, k \in 1..Len(s) : s[j] = s[k] => j = k
  BY DEF Lists
<1>3. Has(s, x) <=> x \in S
  BY <1>1, <1>2 DEF Has
<1>4. Once(s, x) => Has(s, x)
  BY DEF Has, Once
<1>5. ASSUME Has(s, x) PROVE Once(s, x)
  <2>1. PICK k \in 1..Len(s) : s[k] = x
    BY <1>5 DEF Has
  <2>2. \A j \in 1..Len(s) : s[j] = x => j = k
    BY <1>2, <2>1
  <2> QED BY <2>1, <2>2 DEF Once
<1> QED BY <1>3, <1>4, <1>5

LEMMA FiniteImage ==
  ASSUME NEW S, IsFiniteSet(S), NEW f, NEW T, \A y : y \in T <=> \E x \in S : y = f[x]
  PROVE  IsFiniteSet(T)
<1> DEFINE g == [x \in S |-> f[x]]
<1>1. g \in [S -> T] /\ \A x \in S : g[x] = f[x]
  OBVIOUS
<1> HIDE DEF g
<1>2. \A y \in T : \E x \in S : g[x] = y
  BY <1>1
<1>3. g \in Surjection(S, T)
  BY <1>1, <1>2 DEF Surjection
<1> QED BY <1>3, FS_Surjection

LEMMA ImageFact ==
  ASSUME IsImage(image)
  PROVE  /\ image.texts \in Nat /\ IsFiniteSet(Texts) /\ Texts \subseteq Nat /\ Ys \subseteq Nat /\ IsFiniteSet(Ys)
         /\ \A t \in Texts : image.cell[t] \in Nat /\ image.line[t] \in Ys /\ image.line[t] \in Nat
         /\ \A y \in Ys : \E t \in Texts : image.line[t] = y
<1>1. image.texts \in Nat /\ Texts = 1..image.texts /\ Texts \subseteq Nat
  BY DEF IsImage, Texts
<1>2. IsFiniteSet(Texts)
  BY <1>1, CountToN
<1>3. \A t \in Texts : image.cell[t] \in Nat /\ image.line[t] \in Nat
  BY <1>1 DEF IsImage
<1>4. Ys = {image.line[t] : t \in Texts}
  BY DEF Ys
<1>5. IsFiniteSet(Ys)
  <2>1. \A y : y \in Ys <=> \E t \in Texts : y = image.line[t]
    BY <1>4
  <2> QED BY ONLY <1>2, <2>1, FiniteImage
<1> QED BY <1>1, <1>2, <1>3, <1>4, <1>5

\* The entry of a text in no cell, and of the texts in a cell.
TextEntry(t) == Entry(<<t>>, <<"text", t>>)
In(c) == {t \in Texts : image.cell[t] = c}
CellEntry(c) == Entry(InOrder(In(c)), <<"cell", c>>)
Cells == {image.cell[t] : t \in Texts} \ {0}

LEMMA EntryFact ==
  ASSUME IsImage(image), NEW texts, NEW S, Lists(texts, S), S \subseteq Texts, S # {}, NEW spot,
         image.rows[spot] \in NumberSets, image.columns[spot] \in NumberSets
  PROVE  /\ EntryOK(Entry(texts, spot)) /\ \A t : Has(Entry(texts, spot).texts, t) <=> t \in S
         /\ is_table(Entry(texts, spot)) <=> image.rows[spot] # {} /\ image.columns[spot] # {}
<1> DEFINE e == Entry(texts, spot)
<1>1. /\ e = [texts |-> texts, rows |-> image.rows[spot], columns |-> image.columns[spot], line |-> image.line[Head(texts)]]
      /\ e.texts = texts
  BY DEF Entry
<1>2. texts \in Seq(S) /\ texts # <<>>
  BY DEF Lists
<1>3. texts \in Seq(Nat)
  <2>1. S \subseteq Nat
    BY ImageFact
  <2> QED BY <1>2, <2>1, SeqMonotonic
<1>4. Head(texts) \in S
  BY <1>2, HeadTailProperties
<1>5. image.line[Head(texts)] \in Ys /\ image.line[Head(texts)] \in Nat
  BY <1>4, ImageFact
<1>6. \A t : (Has(texts, t) <=> t \in S) /\ (Has(texts, t) <=> Once(texts, t))
  BY HasListed
<1>7. is_table(e) <=> image.rows[spot] # {} /\ image.columns[spot] # {}
  BY <1>1 DEF is_table
<1>8. e \in EntryType /\ e.line \in Ys
  BY <1>1, <1>3, <1>5 DEF EntryType
<1> HIDE DEF e
<1> QED BY <1>1, <1>6, <1>7, <1>8 DEF EntryOK, e

LEMMA TextEntryFact ==
  ASSUME IsImage(image), NEW t \in In(0)
  PROVE  EntryOK(TextEntry(t)) /\ \A x : Has(TextEntry(t).texts, x) <=> x = t
<1>1. Lists(<<t>>, {t})
  BY ListsOne
<1>2. t \in Texts /\ image.cell[t] = 0
  BY DEF In
<1>3. image.rows[<<"text", t>>] \in NumberSets /\ image.columns[<<"text", t>>] \in NumberSets
  BY <1>2 DEF IsImage, NumberSets, Texts
<1> DEFINE s == <<t>>
           S == {t}
<1>4. S \subseteq Texts /\ S # {}
  BY <1>2
<1> HIDE DEF s, S
<1>5. EntryOK(Entry(s, <<"text", t>>)) /\ \A x : Has(Entry(s, <<"text", t>>).texts, x) <=> x \in S
  BY <1>1, <1>3, <1>4, EntryFact DEF s, S
<1> QED BY <1>5 DEF TextEntry, s, S

LEMMA CellEntryFact ==
  ASSUME IsImage(image), NEW c \in Cells
  PROVE  EntryOK(CellEntry(c)) /\ \A x : Has(CellEntry(c).texts, x) <=> x \in In(c)
<1>1. PICK t \in Texts : image.cell[t] = c /\ c # 0
  BY DEF Cells
<1>2. image.rows[<<"cell", c>>] \in NumberSets /\ image.columns[<<"cell", c>>] \in NumberSets
  BY <1>1 DEF IsImage, NumberSets, Texts
<1>3. In(c) \subseteq Texts /\ In(c) # {}
  BY <1>1 DEF In
<1>4. In(c) \subseteq Nat /\ IsFiniteSet(In(c))
  BY <1>3, ImageFact, FS_Subset
<1>5. Lists(InOrder(In(c)), In(c))
  BY <1>4, InOrderFact
<1> QED BY <1>2, <1>3, <1>5, EntryFact DEF CellEntry

\* Assign makes an entry of each text, alone or with the others of its cell.
LEMMA AssignedFact ==
  ASSUME IsImage(image)
  PROVE  EntriesInv(Alone \o InCells)
<1> DEFINE A == {TextEntry(t) : t \in In(0)}
           C == {CellEntry(c) : c \in Cells}
<1>1. In(0) \subseteq Nat /\ IsFiniteSet(In(0)) /\ In(0) \subseteq Texts
  BY ImageFact, FS_Subset DEF In
<1>2. Lists(InOrder(In(0)), In(0))
  BY <1>1, InOrderFact
<1>3. Lists(Alone, A)
  <2> DEFINE s == InOrder(In(0))
             f == [t \in In(0) |-> TextEntry(t)]
             r == [k \in 1..Len(s) |-> f[s[k]]]
  <2>1. \A t \in In(0) : f[t] = TextEntry(t)
    OBVIOUS
  <2>2. \A x, y \in In(0) : f[x] = f[y] => x = y
    BY <2>1, TextEntryFact
  <2>3. \A y : y \in A <=> \E t \in In(0) : y = f[t]
    BY <2>1
  <2>4. \A k \in 1..Len(s) : s[k] \in In(0)
    BY <1>2, ElementOfSeq DEF Lists
  <2>5. r = [k \in 1..Len(s) |-> TextEntry(s[k])]
    <3> HIDE DEF s, f
    <3> QED BY <2>1, <2>4
  <2>6. Alone = r
    BY <2>5 DEF Alone, TextEntry, In
  <2>7. r = [k \in 1..Len(s) |-> f[s[k]]]
    OBVIOUS
  <2> HIDE DEF s, f, r, A
  <2>8. Lists(r, A)
    BY ONLY <1>2, <2>2, <2>3, <2>7, ListsMapped DEF s
  <2> QED BY <2>6, <2>8
<1>4. Cells \subseteq Nat /\ IsFiniteSet(Cells)
  <2> DEFINE D == {image.cell[t] : t \in Texts}
  <2>1. D \subseteq Nat /\ IsFiniteSet(Texts)
    BY ImageFact
  <2>2. IsFiniteSet(D)
    <3>1. \A y : y \in D <=> \E t \in Texts : y = image.cell[t]
      OBVIOUS
    <3> HIDE DEF D
    <3> QED BY ONLY <2>1, <3>1, FiniteImage
  <2>3. Cells \subseteq D
    BY DEF Cells
  <2> HIDE DEF D
  <2> QED BY <2>1, <2>2, <2>3, FS_Subset
<1>5. Lists(InOrder(Cells), Cells)
  BY <1>4, InOrderFact
<1>6. \A c, d \in Cells : \A x : Has(CellEntry(c).texts, x) /\ Has(CellEntry(d).texts, x) => c = d
  BY CellEntryFact DEF In
<1>7. Lists(InCells, C)
  <2> DEFINE s == InOrder(Cells)
             f == [c \in Cells |-> CellEntry(c)]
             r == [k \in 1..Len(s) |-> f[s[k]]]
  <2>1. \A c \in Cells : f[c] = CellEntry(c)
    OBVIOUS
  <2>2. \A x, y \in Cells : f[x] = f[y] => x = y
    <3> SUFFICES ASSUME NEW x \in Cells, NEW y \in Cells, f[x] = f[y] PROVE x = y
      OBVIOUS
    <3>1. CellEntry(x) = CellEntry(y)
      BY <2>1
    <3>2. PICK t : Has(CellEntry(x).texts, t)
      BY CellEntryFact DEF EntryOK
    <3> QED BY <3>1, <3>2, <1>6
  <2>3. \A y : y \in C <=> \E c \in Cells : y = f[c]
    BY <2>1
  <2>4. \A k \in 1..Len(s) : s[k] \in Cells
    BY <1>5, ElementOfSeq DEF Lists
  <2>5. r = [k \in 1..Len(s) |-> CellEntry(s[k])]
    <3> HIDE DEF s, f
    <3> QED BY <2>1, <2>4
  <2>6. InCells = [k \in 1..Len(s) |-> CellEntry(s[k])]
    <3> DEFINE InCell(c) == InOrder({t \in Texts : image.cell[t] = c})
    <3>1. \A c : (IF Len(InCell(c)) > 1 THEN merge_text_in_cell(InCell(c)) ELSE InCell(c)) = InCell(c) /\ InCell(c) = InOrder(In(c))
      BY DEF merge_text_in_cell, In
    <3>2. InCells = [k \in 1..Len(s) |->
                      Entry(IF Len(InCell(s[k])) > 1 THEN merge_text_in_cell(InCell(s[k])) ELSE InCell(s[k]), <<"cell", s[k]>>)]
      BY DEF InCells, Cells
    <3> HIDE DEF s, InCell
    <3>3. InCells = [k \in 1..Len(s) |-> Entry(InCell(s[k]), <<"cell", s[k]>>)]
      BY <3>1, <3>2
    <3>4. \A c : Entry(InCell(c), <<"cell", c>>) = CellEntry(c)
      BY <3>1 DEF CellEntry
    <3> QED BY <3>3, <3>4
  <2>7. r = [k \in 1..Len(s) |-> f[s[k]]]
    OBVIOUS
  <2> HIDE DEF s, f, r, C
  <2>8. Lists(r, C)
    BY ONLY <1>5, <2>2, <2>3, <2>7, ListsMapped DEF s
  <2> QED BY <2>5, <2>6, <2>8
<1>8. \A e \in A : EntryOK(e) /\ \E t \in In(0) : \A x : Has(e.texts, x) <=> x = t
  BY TextEntryFact
<1>9. \A e \in C : EntryOK(e) /\ \E c \in Cells : \A x : Has(e.texts, x) <=> x \in In(c)
  BY CellEntryFact
<1>10. \A e \in A, f \in C : \A x : ~(Has(e.texts, x) /\ Has(f.texts, x))
  BY <1>8, <1>9 DEF In, Cells
<1>11. A \cap C = {}
  <2> HIDE DEF A, C
  <2> QED BY <1>8, <1>10 DEF EntryOK
<1>12. Apart(A \cup C)
  <2>1. \A e, f \in A : \A t : Has(e.texts, t) /\ Has(f.texts, t) => e = f
    BY TextEntryFact
  <2>2. \A e, f \in C : \A t : Has(e.texts, t) /\ Has(f.texts, t) => e = f
    BY <1>6
  <2> HIDE DEF A, C
  <2> QED BY <1>10, <2>1, <2>2 DEF Apart
<1>13. ASSUME NEW t \in Texts PROVE \E e \in A \cup C : Has(e.texts, t)
  <2>1. CASE image.cell[t] = 0
    <3>1. t \in In(0)
      BY <2>1 DEF In
    <3>2. Has(TextEntry(t).texts, t)
      BY <3>1, TextEntryFact
    <3> QED BY <3>1, <3>2
  <2>2. CASE image.cell[t] # 0
    <3> DEFINE c == image.cell[t]
    <3>1. c \in Cells /\ t \in In(c)
      BY <2>2 DEF In, Cells
    <3>2. Has(CellEntry(c).texts, t)
      BY <3>1, CellEntryFact
    <3> QED BY <3>1, <3>2
  <2> QED BY <2>1, <2>2
<1> HIDE DEF A, C
<1>14. Lists(Alone \o InCells, A \cup C)
  BY <1>3, <1>7, <1>11, ListsJoin
<1> QED BY <1>8, <1>9, <1>12, <1>13, <1>14 DEF EntriesInv

\* What a comprehension takes of a sequence that lists a set.
LEMMA TypedFunction ==
  ASSUME NEW T, NEW n \in Nat, NEW s, s = [i \in 1..n |-> s[i]], \A i \in 1..n : s[i] \in T
  PROVE  s \in Seq(T) /\ Len(s) = n
  BY FunctionIsSeq

LEMMA OnLineFact ==
  ASSUME NEW others, NEW O, Lists(others, O), O \subseteq EntryType, Apart(O), NEW y,
         \A e \in O : \A t : Has(e.texts, t) => Once(e.texts, t)
  PROVE  /\ OnLine(others, y) \in Seq(Nat)
         /\ \A t : Has(OnLine(others, y), t) => \E e \in O : e.line = y /\ Has(e.texts, t)
         /\ \A e \in O : \A t : e.line = y /\ Has(e.texts, t) => Once(OnLine(others, y), t)
<1> DEFINE n == Len(others)
           seqs == [i \in 1..n |-> IF others[i].line = y THEN others[i].texts ELSE <<>>]
<1>1. /\ n \in Nat /\ \A i \in 1..n : others[i] \in O
      /\ \A e \in O : \E i \in 1..n : others[i] = e
      /\ \A i, j \in 1..n : others[i] = others[j] => i = j
  BY LenProperties, ElementOfSeq DEF Lists
<1>2. \A i \in 1..n : others[i].texts \in Seq(Nat)
  BY <1>1 DEF EntryType
<1>3. \A i \in 1..n : seqs[i] = IF others[i].line = y THEN others[i].texts ELSE <<>>
  OBVIOUS
<1>4. seqs \in Seq(Seq(Nat)) /\ Len(seqs) = n
  <2>1. seqs = [i \in 1..n |-> seqs[i]]
    OBVIOUS
  <2>2. \A i \in 1..n : seqs[i] \in Seq(Nat)
    <3>1. <<>> \in Seq(Nat)
      OBVIOUS
    <3> HIDE DEF seqs, n
    <3> QED BY <1>2, <1>3, <3>1
  <2> HIDE DEF seqs, n
  <2> QED BY <1>1, <2>1, <2>2, FunctionIsSeq
<1>5. OnLine(others, y) = FlattenSeq(seqs)
  BY DEF OnLine
<1>6. \A t : ~Has(<<>>, t)
  BY DEF Has
<1> HIDE DEF seqs
<1>7. \A i \in 1..n : \A t : Has(seqs[i], t) <=> others[i].line = y /\ Has(others[i].texts, t)
  BY <1>3, <1>6
<1>8. FlattenSeq(seqs) \in Seq(Nat)
  BY <1>4, FlattenTyped
<1>9. ASSUME NEW t, Has(FlattenSeq(seqs), t) PROVE \E e \in O : e.line = y /\ Has(e.texts, t)
  <2>1. PICK i \in 1..n : Has(seqs[i], t)
    BY <1>4, <1>9, FlattenHas
  <2> QED BY <2>1, <1>1, <1>7
<1>10. ASSUME NEW e \in O, NEW t, e.line = y, Has(e.texts, t) PROVE Once(FlattenSeq(seqs), t)
  <2>1. PICK i \in 1..n : others[i] = e
    BY <1>1
  <2>2. seqs[i] = e.texts /\ Once(seqs[i], t)
    BY <1>3, <1>10, <2>1
  <2>3. ASSUME NEW k \in 1..n, k # i PROVE ~Has(seqs[k], t)
    <3>1. others[k] # e /\ others[k] \in O
      BY <1>1, <2>1, <2>3
    <3>2. ~Has(others[k].texts, t)
      BY <1>10, <3>1 DEF Apart
    <3> QED BY <1>7, <3>2
  <2> HIDE DEF n
  <2> QED BY <1>4, <2>2, <2>3, FlattenOnce
<1> QED BY <1>5, <1>8, <1>9, <1>10

\* A text of an entry is in each row and column of the entry, and in the table
\* is nothing else.
LEMMA MarkdownFact ==
  ASSUME NEW table \in Seq(EntryType)
  PROVE  /\ build_markdown(table) \in Seq(Seq(Nat))
         /\ \A t : Has(FlattenSeq(build_markdown(table)), t) => \E i \in 1..Len(table) : Has(table[i].texts, t)
         /\ \A i \in 1..Len(table) : \A t :
              is_table(table[i]) /\ Has(table[i].texts, t) => Has(FlattenSeq(build_markdown(table)), t)
<1> DEFINE n == Len(table)
           R == UNION {table[i].rows : i \in 1..n}
           C == UNION {table[i].columns : i \in 1..n}
           rows == InOrder(R)
           columns == InOrder(C)
           Part(r, c) == [i \in 1..n |-> IF r \in table[i].rows /\ c \in table[i].columns THEN table[i].texts ELSE <<>>]
           Across(r) == [c \in 1..Len(columns) |-> FlattenSeq(Part(r, columns[c]))]
           M == [r \in 1..Len(rows) |-> FlattenSeq(Across(rows[r]))]
<1>1. n \in Nat /\ \A i \in 1..n : table[i] \in EntryType
  BY LenProperties, ElementOfSeq
<1>2. \A i \in 1..n : /\ table[i].texts \in Seq(Nat) /\ table[i].rows \subseteq Nat /\ IsFiniteSet(table[i].rows)
                      /\ table[i].columns \subseteq Nat /\ IsFiniteSet(table[i].columns)
  BY <1>1 DEF EntryType, NumberSets
<1>3. R \subseteq Nat /\ IsFiniteSet(R) /\ C \subseteq Nat /\ IsFiniteSet(C)
  <2>1. IsFiniteSet(1..n)
    BY <1>1, CountToN
  <2> DEFINE f == [i \in 1..n |-> table[i].rows]
             g == [i \in 1..n |-> table[i].columns]
             F == {table[i].rows : i \in 1..n}
             G == {table[i].columns : i \in 1..n}
  <2>2. (\A y : y \in F <=> \E i \in 1..n : y = f[i]) /\ (\A y : y \in G <=> \E i \in 1..n : y = g[i])
    OBVIOUS
  <2>3. \A S \in F : S \subseteq Nat /\ IsFiniteSet(S)
    BY <1>2
  <2>4. \A S \in G : S \subseteq Nat /\ IsFiniteSet(S)
    BY <1>2
  <2> HIDE DEF f, g, F, G, n
  <2>5. IsFiniteSet(F) /\ IsFiniteSet(G)
    <3>1. \A y : y \in F <=> \E i \in 1..n : y = f[i]
      BY <2>2
    <3>2. \A y : y \in G <=> \E i \in 1..n : y = g[i]
      BY <2>2
    <3>3. IsFiniteSet(F)
      BY ONLY <2>1, <3>1, FiniteImage
    <3>4. IsFiniteSet(G)
      BY ONLY <2>1, <3>2, FiniteImage
    <3> QED BY <3>3, <3>4
  <2>6. IsFiniteSet(UNION F) /\ IsFiniteSet(UNION G)
    BY <2>3, <2>4, <2>5, FS_UNION
  <2>7. UNION F \subseteq Nat /\ UNION G \subseteq Nat
    BY <2>3, <2>4
  <2> QED BY <2>6, <2>7 DEF F, G
<1>4. Lists(rows, R) /\ Lists(columns, C)
  <2> HIDE DEF R, C
  <2> QED BY <1>3, InOrderFact
<1>5. /\ Len(rows) \in Nat /\ Len(columns) \in Nat
      /\ \A r \in R : \E k \in 1..Len(rows) : rows[k] = r
      /\ \A c \in C : \E k \in 1..Len(columns) : columns[k] = c
  <2> HIDE DEF rows, columns, R, C
  <2> QED BY <1>4, LenProperties DEF Lists
<1>6. build_markdown(table) = M
  BY DEF build_markdown
<1> HIDE DEF rows, columns, R, C
<1>7. \A r, c : /\ Part(r, c) = [i \in 1..n |-> Part(r, c)[i]]
                /\ \A i \in 1..n : Part(r, c)[i] = IF r \in table[i].rows /\ c \in table[i].columns
                                                   THEN table[i].texts ELSE <<>>
  OBVIOUS
<1>8. \A r : /\ Across(r) = [c \in 1..Len(columns) |-> Across(r)[c]]
             /\ \A c \in 1..Len(columns) : Across(r)[c] = FlattenSeq(Part(r, columns[c]))
  OBVIOUS
<1>9. /\ M = [r \in 1..Len(rows) |-> M[r]]
      /\ \A r \in 1..Len(rows) : M[r] = FlattenSeq(Across(rows[r]))
  OBVIOUS
<1> HIDE DEF Part, Across, M
<1>10. \A t : ~Has(<<>>, t)
  BY DEF Has
<1>11. ASSUME NEW r, NEW c PROVE Part(r, c) \in Seq(Seq(Nat)) /\ Len(Part(r, c)) = n
  <2>1. <<>> \in Seq(Nat)
    OBVIOUS
  <2>2. \A i \in 1..n : Part(r, c)[i] \in Seq(Nat)
    BY <1>2, <1>7, <2>1
  <2> DEFINE p == Part(r, c)
  <2>3. p = [i \in 1..n |-> p[i]]
    BY <1>7
  <2> HIDE DEF p, n
  <2> QED BY <1>1, <2>2, <2>3, TypedFunction DEF p
<1>12. ASSUME NEW r PROVE Across(r) \in Seq(Seq(Nat)) /\ Len(Across(r)) = Len(columns)
  <2>1. \A c \in 1..Len(columns) : Across(r)[c] \in Seq(Nat)
    BY <1>8, <1>11, FlattenTyped
  <2> DEFINE p == Across(r)
             m == Len(columns)
  <2>2. p = [i \in 1..m |-> p[i]] /\ m \in Nat
    BY <1>5, <1>8
  <2> HIDE DEF p, m
  <2>3. \A c \in 1..m : p[c] \in Seq(Nat)
    BY <2>1 DEF p, m
  <2> QED BY <2>2, <2>3, TypedFunction DEF p, m
<1>13. M \in Seq(Seq(Nat)) /\ Len(M) = Len(rows)
  <2>1. \A r \in 1..Len(rows) : M[r] \in Seq(Nat)
    BY <1>9, <1>12, FlattenTyped
  <2> DEFINE m == Len(rows)
  <2>2. M = [i \in 1..m |-> M[i]] /\ m \in Nat /\ \A r \in 1..m : M[r] \in Seq(Nat)
    BY <1>5, <1>9, <2>1
  <2> HIDE DEF m
  <2> QED BY <2>2, TypedFunction DEF m
<1>14. \A t : Has(FlattenSeq(M), t) <=> \E r \in 1..Len(rows) : Has(FlattenSeq(Across(rows[r])), t)
  <2>1. \A t : Has(FlattenSeq(M), t) <=> \E r \in 1..Len(M) : Has(M[r], t)
    BY <1>13, FlattenHas
  <2> QED BY <2>1, <1>9, <1>13
<1>15. \A r, t : Has(FlattenSeq(Across(r)), t) <=> \E c \in 1..Len(columns) : Has(FlattenSeq(Part(r, columns[c])), t)
  <2>1. \A r, t : Has(FlattenSeq(Across(r)), t) <=> \E c \in 1..Len(Across(r)) : Has(Across(r)[c], t)
    BY <1>12, FlattenHas
  <2> QED BY <2>1, <1>8, <1>12
<1>16. \A r, c, t : Has(FlattenSeq(Part(r, c)), t) <=> \E i \in 1..n : Has(Part(r, c)[i], t)
  BY <1>11, FlattenHas
<1>17. ASSUME NEW t, Has(FlattenSeq(M), t) PROVE \E i \in 1..n : Has(table[i].texts, t)
  <2>1. PICK r \in 1..Len(rows) : Has(FlattenSeq(Across(rows[r])), t)
    BY <1>14, <1>17
  <2>2. PICK c \in 1..Len(columns) : Has(FlattenSeq(Part(rows[r], columns[c])), t)
    BY <1>15, <2>1
  <2>3. PICK i \in 1..n : Has(Part(rows[r], columns[c])[i], t)
    BY <1>16, <2>2
  <2> QED BY <2>3, <1>7, <1>10
<1>18. ASSUME NEW i \in 1..n, NEW t, is_table(table[i]), Has(table[i].texts, t) PROVE Has(FlattenSeq(M), t)
  <2>1. PICK r, c : r \in table[i].rows /\ c \in table[i].columns
    BY <1>18 DEF is_table
  <2>2. r \in R /\ c \in C
    BY <2>1 DEF R, C
  <2>3. PICK j \in 1..Len(rows) : rows[j] = r
    BY <1>5, <2>2
  <2>4. PICK k \in 1..Len(columns) : columns[k] = c
    BY <1>5, <2>2
  <2>5. Has(Part(r, c)[i], t)
    BY <1>7, <1>18, <2>1
  <2>6. Has(FlattenSeq(Part(r, columns[k])), t)
    BY <1>16, <2>4, <2>5
  <2>7. Has(FlattenSeq(Across(rows[j])), t)
    BY <1>15, <2>3, <2>6
  <2> QED BY <1>14, <2>7
<1> QED BY <1>6, <1>13, <1>17, <1>18

\* The largest of finitely many numbers.
LEMMA MaxFact ==
  ASSUME NEW n \in Nat, n >= 1, NEW f, \A i \in 1..n : f[i] \in Nat,
         NEW T, \A y : y \in T <=> \E i \in 1..n : y = f[i]
  PROVE  Max(T) \in T
<1> DEFINE S == {m \in Nat : m \in 1..n => \E j \in 1..m : \A i \in 1..m : f[i] <= f[j]}
<1>1. 0 \in S
  OBVIOUS
<1>2. ASSUME NEW m \in Nat, m \in S PROVE m + 1 \in S
  <2> SUFFICES ASSUME m + 1 \in 1..n PROVE \E j \in 1..(m + 1) : \A i \in 1..(m + 1) : f[i] <= f[j]
    OBVIOUS
  <2>1. \A i : i \in 1..(m + 1) <=> i \in 1..m \/ i = m + 1
    OBVIOUS
  <2>2. \A i \in 1..(m + 1) : f[i] \in Nat
    OBVIOUS
  <2>3. CASE m = 0
    <3>1. \A i \in 1..(m + 1) : i = m + 1
      BY <2>3
    <3>2. m + 1 \in 1..(m + 1) /\ f[m + 1] <= f[m + 1]
      BY <2>2
    <3> QED BY <3>1, <3>2
  <2>4. CASE m # 0
    <3>1. PICK j \in 1..m : \A i \in 1..m : f[i] <= f[j]
      BY <1>2, <2>4
    <3>2. CASE f[j] <= f[m + 1]
      <4>1. \A i \in 1..(m + 1) : f[i] <= f[m + 1]
        BY <2>1, <2>2, <3>1, <3>2
      <4> QED BY <4>1
    <3>3. CASE ~(f[j] <= f[m + 1])
      <4>1. \A i \in 1..(m + 1) : f[i] <= f[j]
        BY <2>1, <2>2, <3>1, <3>3
      <4> QED BY <4>1
    <3> QED BY <3>2, <3>3
  <2> QED BY <2>3, <2>4
<1> HIDE DEF S
<1>3. n \in S
  BY <1>1, <1>2, SetInduction
<1>4. PICK j \in 1..n : \A i \in 1..n : f[i] <= f[j]
  BY <1>3 DEF S
<1>5. f[j] \in T /\ \A y \in T : f[j] >= y
  BY <1>4
<1> QED BY <1>5 DEF Max

\* A text of an entry of the table is in the content, and a text outside the table
\* is in it, and if the table has it not, once.
LEMMA ShownFact ==
  ASSUME NEW table \in Seq(EntryType), \A i \in 1..Len(table) : is_table(table[i]),
         NEW others, NEW O, Lists(others, O), O \subseteq EntryType, Apart(O),
         \A e \in O : \A t : Has(e.texts, t) => Once(e.texts, t),
         NEW shown, shown = FlattenSeq(ByLine(table, others))
  PROVE  /\ shown \in Seq(Nat)
         /\ \A i \in 1..Len(table) : \A t : Has(table[i].texts, t) => Has(shown, t)
         /\ \A e \in O : \A t : Has(e.texts, t) => Has(shown, t)
         /\ \A e \in O : \A t : Has(e.texts, t) /\ (\A i \in 1..Len(table) : ~Has(table[i].texts, t)) => Once(shown, t)
<1> DEFINE ys == {table[i].line : i \in 1..Len(table)}
           middle == (Min(ys) + Max(ys)) \div 2
           Y == {others[i].line : i \in 1..Len(others)} \cup (IF table = <<>> THEN {} ELSE {middle})
           lines == InOrder(Y)
           n == Len(lines)
           m == build_markdown(table)
           Left(y) == IF OnLine(others, y) = <<>> THEN <<>> ELSE <<OnLine(others, y)>>
           Right(y) == IF table # <<>> /\ y = middle THEN m ELSE <<>>
           X == [k \in 1..n |-> Left(lines[k]) \o Right(lines[k])]
           W == [k \in 1..n |-> FlattenSeq(X[k])]
<1>1. ByLine(table, others) = FlattenSeq(X)
  BY DEF ByLine
<1>2. /\ Len(others) \in Nat /\ \A i \in 1..Len(others) : others[i] \in O /\ others[i].line \in Nat
      /\ \A e \in O : \E i \in 1..Len(others) : others[i] = e
  <2>1. \A e \in O : e.line \in Nat
    BY DEF EntryType
  <2> QED BY <2>1, LenProperties, ElementOfSeq DEF Lists
<1>3. /\ Len(table) \in Nat /\ (table # <<>> => Len(table) >= 1)
      /\ \A i \in 1..Len(table) : table[i].line \in Nat
  <2>1. Len(table) \in Nat /\ (Len(table) = 0 => table = <<>>) /\ \A i \in 1..Len(table) : table[i] \in EntryType
    BY LenProperties, EmptySeq, ElementOfSeq
  <2> QED BY <2>1 DEF EntryType
<1>4. table # <<>> => middle \in Nat
  <2> SUFFICES ASSUME table # <<>> PROVE middle \in Nat
    OBVIOUS
  <2> DEFINE f == [i \in 1..Len(table) |-> table[i].line]
             k == Len(table)
  <2>1. (\A i \in 1..k : f[i] \in Nat) /\ (\A y : y \in ys <=> \E i \in 1..k : y = f[i]) /\ k \in Nat /\ k >= 1
    BY <1>3
  <2>2. ys \subseteq Nat /\ ys # {}
    BY <1>3
  <2> HIDE DEF f, ys, k
  <2>3. Max(ys) \in ys
    BY ONLY <2>1, MaxFact
  <2>4. Min(ys) \in ys
    BY ONLY <2>2, MinFact
  <2>5. Max(ys) \in Nat /\ Min(ys) \in Nat
    BY <2>2, <2>3, <2>4
  <2> QED BY <2>5
<1>5. Y \subseteq Nat /\ IsFiniteSet(Y) /\ (table # <<>> => middle \in Y) /\ \A e \in O : e.line \in Y
  <2> DEFINE A == {others[i].line : i \in 1..Len(others)}
             B == IF table = <<>> THEN {} ELSE {middle}
             f == [i \in 1..Len(others) |-> others[i].line]
             k == Len(others)
  <2>1. \A y : y \in A <=> \E i \in 1..k : y = f[i]
    OBVIOUS
  <2>2. IsFiniteSet(A)
    <3>1. IsFiniteSet(1..k)
      BY <1>2, CountToN
    <3> HIDE DEF A, f, k
    <3> QED BY ONLY <2>1, <3>1, FiniteImage
  <2>3. IsFiniteSet(B)
    BY FS_EmptySet, FS_Singleton
  <2>4. A \subseteq Nat /\ \A e \in O : e.line \in A
    <3>1. A \subseteq Nat
      BY <1>2
    <3>2. ASSUME NEW e \in O PROVE e.line \in A
      <4>1. PICK i \in 1..Len(others) : others[i] = e
        BY <1>2
      <4> QED BY <4>1
    <3> QED BY <3>1, <3>2
  <2>5. B \subseteq Nat /\ (table # <<>> => middle \in B)
    <3> HIDE DEF middle
    <3> QED BY <1>4
  <2>6. Y = A \cup B
    OBVIOUS
  <2> HIDE DEF A, B, Y
  <2> QED BY <2>2, <2>3, <2>4, <2>5, <2>6, FS_Union
<1>6. Lists(lines, Y)
  <2> HIDE DEF Y
  <2> QED BY <1>5, InOrderFact
<1> HIDE DEF middle, Y, lines
<1>7. /\ n \in Nat /\ \A k \in 1..n : lines[k] \in Y
      /\ \A y \in Y : \E k \in 1..n : lines[k] = y
      /\ \A i, j \in 1..n : lines[i] = lines[j] => i = j
  BY <1>6, LenProperties, ElementOfSeq DEF Lists
<1>8. \A y : /\ OnLine(others, y) \in Seq(Nat)
             /\ \A t : Has(OnLine(others, y), t) => \E e \in O : e.line = y /\ Has(e.texts, t)
             /\ \A e \in O : \A t : e.line = y /\ Has(e.texts, t) => Once(OnLine(others, y), t)
  BY OnLineFact
<1>9. /\ m \in Seq(Seq(Nat))
      /\ \A t : Has(FlattenSeq(m), t) => \E i \in 1..Len(table) : Has(table[i].texts, t)
      /\ \A i \in 1..Len(table) : \A t : is_table(table[i]) /\ Has(table[i].texts, t) => Has(FlattenSeq(m), t)
  BY MarkdownFact
<1>10. \A y : Left(y) \in Seq(Seq(Nat)) /\ FlattenSeq(Left(y)) = OnLine(others, y)
  <2> SUFFICES ASSUME NEW y PROVE Left(y) \in Seq(Seq(Nat)) /\ FlattenSeq(Left(y)) = OnLine(others, y)
    OBVIOUS
  <2> DEFINE s == OnLine(others, y)
  <2>1. s \in Seq(Nat) /\ <<s>> \in Seq(Seq(Nat)) /\ <<>> \in Seq(Seq(Nat))
    BY <1>8
  <2>2. FlattenSeq(<<s>>) = s
    BY <2>1, FlattenOne
  <2>3. Left(y) = IF s = <<>> THEN <<>> ELSE <<s>>
    OBVIOUS
  <2> HIDE DEF s, Left
  <2> QED BY <2>1, <2>2, <2>3, FlattenEmpty DEF s
<1>11. /\ \A y : Right(y) \in Seq(Seq(Nat))
       /\ \A y, t : Has(FlattenSeq(Right(y)), t) => Has(FlattenSeq(m), t)
       /\ table # <<>> => Right(middle) = m
  <2>1. <<>> \in Seq(Seq(Nat)) /\ \A t : ~Has(<<>>, t)
    BY DEF Has
  <2>2. \A y : Right(y) = m \/ Right(y) = <<>>
    OBVIOUS
  <2>3. table # <<>> => Right(middle) = m
    OBVIOUS
  <2> HIDE DEF Right, m
  <2> QED BY <2>1, <2>2, <2>3, <1>9, FlattenEmpty
<1>12. \A k \in 1..n : X[k] = Left(lines[k]) \o Right(lines[k])
  OBVIOUS
<1>13. X = [k \in 1..n |-> X[k]] /\ W = [k \in 1..n |-> W[k]] /\ \A k \in 1..n : W[k] = FlattenSeq(X[k])
  OBVIOUS
<1> HIDE DEF Left, Right, X, m
<1>14. \A k \in 1..n : X[k] \in Seq(Seq(Nat))
  <2> SUFFICES ASSUME NEW k \in 1..n PROVE X[k] \in Seq(Seq(Nat))
    OBVIOUS
  <2> DEFINE T == Seq(Nat)
             a == Left(lines[k])
             b == Right(lines[k])
  <2>1. a \in Seq(T) /\ b \in Seq(T)
    BY <1>10, <1>11
  <2> HIDE DEF T, a, b
  <2>2. a \o b \in Seq(T)
    BY <2>1, ConcatProperties
  <2> QED BY <2>2, <1>12 DEF T, a, b
<1>15. X \in Seq(Seq(Seq(Nat))) /\ Len(X) = n
  <2> DEFINE T == Seq(Seq(Nat))
  <2>1. \A k \in 1..n : X[k] \in T
    BY <1>14
  <2>2. X = [k \in 1..n |-> X[k]]
    BY <1>13
  <2> HIDE DEF n, T
  <2>3. X \in Seq(T) /\ Len(X) = n
    BY ONLY <1>7, <2>1, <2>2, TypedFunction
  <2> QED BY <2>3 DEF T
<1>16. W \in Seq(Seq(Nat)) /\ Len(W) = n /\ FlattenSeq(FlattenSeq(X)) = FlattenSeq(W)
  <2> HIDE DEF W
  <2> DEFINE T == Seq(Nat)
  <2>1. \A k \in 1..n : W[k] = FlattenSeq(X[k])
    BY <1>13
  <2>2. \A k \in 1..n : W[k] \in T
    BY <1>14, <2>1, FlattenTyped
  <2>3. W = [k \in 1..n |-> W[k]]
    BY <1>13
  <2> HIDE DEF n
  <2>4. W \in Seq(T) /\ Len(W) = n
    <3> HIDE DEF T
    <3> QED BY ONLY <1>7, <2>2, <2>3, TypedFunction
  <2>5. FlattenSeq(FlattenSeq(X)) = FlattenSeq(W)
    <3>1. W \in Seq(Seq(Nat)) /\ Len(W) = Len(X) /\ \A k \in 1..Len(X) : W[k] = FlattenSeq(X[k])
      BY <1>15, <2>1, <2>4 DEF T
    <3> QED BY ONLY <1>15, <3>1, FlattenTwice
  <2> QED BY <2>4, <2>5 DEF T
<1> HIDE DEF W
<1>17. shown = FlattenSeq(W) /\ shown \in Seq(Nat)
  BY <1>1, <1>16, FlattenTyped
<1>18. ASSUME NEW k \in 1..n, NEW t
       PROVE  /\ Has(W[k], t) <=> Has(OnLine(others, lines[k]), t) \/ Has(FlattenSeq(Right(lines[k])), t)
              /\ Once(OnLine(others, lines[k]), t) /\ ~Has(FlattenSeq(Right(lines[k])), t) => Once(W[k], t)
  <2> DEFINE a == Left(lines[k])
             b == Right(lines[k])
  <2>1. a \in Seq(Seq(Nat)) /\ b \in Seq(Seq(Nat)) /\ FlattenSeq(a) = OnLine(others, lines[k])
    BY <1>10, <1>11
  <2>2. W[k] = FlattenSeq(a \o b)
    BY <1>12, <1>13
  <2> HIDE DEF a, b
  <2>3. W[k] = FlattenSeq(a) \o FlattenSeq(b)
    BY <2>1, <2>2, FlattenJoin
  <2>4. FlattenSeq(a) \in Seq(Nat) /\ FlattenSeq(b) \in Seq(Nat)
    BY <2>1, FlattenTyped
  <2> DEFINE p == FlattenSeq(a)
             q == FlattenSeq(b)
  <2>5. p \in Seq(Nat) /\ q \in Seq(Nat) /\ W[k] = p \o q
    BY <2>3, <2>4
  <2> HIDE DEF p, q
  <2>6. (Has(W[k], t) <=> Has(p, t) \/ Has(q, t)) /\ (Once(p, t) /\ ~Has(q, t) => Once(W[k], t))
    BY <2>5, JoinHas
  <2> QED BY <2>1, <2>6 DEF p, q, b
<1>19. \A t : Has(shown, t) <=> \E k \in 1..n : Has(W[k], t)
  BY <1>16, <1>17, FlattenHas
<1>20. ASSUME NEW i \in 1..Len(table), NEW t, Has(table[i].texts, t) PROVE Has(shown, t)
  <2>1. table # <<>>
    <3>1. Len(<<>>) = 0
      OBVIOUS
    <3> QED BY <1>3, <3>1
  <2>2. PICK k \in 1..n : lines[k] = middle
    BY <1>7, <1>5, <2>1
  <2>3. Has(FlattenSeq(m), t)
    BY <1>9, <1>20
  <2>4. Right(lines[k]) = m
    BY <1>11, <2>1, <2>2
  <2> QED BY <1>18, <1>19, <2>3, <2>4
<1>21. ASSUME NEW e \in O, NEW t, Has(e.texts, t) PROVE \E k \in 1..n : lines[k] = e.line /\ Once(OnLine(others, lines[k]), t)
  <2>1. PICK k \in 1..n : lines[k] = e.line
    BY <1>7, <1>5
  <2> QED BY <1>8, <1>21, <2>1
<1>22. ASSUME NEW e \in O, NEW t, Has(e.texts, t) PROVE Has(shown, t)
  <2>1. PICK k \in 1..n : Once(OnLine(others, lines[k]), t)
    BY <1>21, <1>22
  <2>2. Has(OnLine(others, lines[k]), t)
    BY <2>1 DEF Has, Once
  <2> QED BY <1>18, <1>19, <2>2
<1>23. ASSUME NEW e \in O, NEW t, Has(e.texts, t), \A i \in 1..Len(table) : ~Has(table[i].texts, t)
       PROVE  Once(shown, t)
  <2>1. PICK k \in 1..n : lines[k] = e.line /\ Once(OnLine(others, lines[k]), t)
    BY <1>21, <1>23
  <2>2. \A y : ~Has(FlattenSeq(Right(y)), t)
    <3>1. ~Has(FlattenSeq(m), t)
      BY <1>9, <1>23
    <3> QED BY <1>11, <3>1
  <2>3. Once(W[k], t)
    BY <1>18, <2>1, <2>2
  <2>4. ASSUME NEW j \in 1..n, j # k PROVE ~Has(W[j], t)
    <3>1. lines[j] # e.line
      BY <1>7, <2>1, <2>4
    <3>2. ~Has(OnLine(others, lines[j]), t)
      BY <1>8, <1>23, <3>1 DEF Apart
    <3> QED BY <1>18, <2>2, <3>2
  <2> HIDE DEF n
  <2> QED BY <1>16, <1>17, <2>3, <2>4, FlattenOnce
<1> QED BY <1>17, <1>20, <1>22, <1>23

\* The simple form lists each text once: the line it is on begins at the one line
\* below which no other line is as near as to be the same.
Starts == {y \in Ys : \A z \in Ys : z + 1 # y}
Run(y) == {t \in Texts : image.line[t] >= y /\ SameLine(y, image.line[t])}

LEMMA RunsFact ==
  ASSUME IsImage(image)
  PROVE  /\ \A t \in Texts : \E y \in Starts : t \in Run(y)
         /\ \A y, z \in Starts : \A t : t \in Run(y) /\ t \in Run(z) => y = z
<1>1. Ys \subseteq Nat /\ \A t \in Texts : image.line[t] \in Ys /\ image.line[t] \in Nat
  BY ImageFact
<1>2. ASSUME NEW t \in Texts PROVE \E y \in Starts : t \in Run(y)
  <2> DEFINE l == image.line[t]
             T == {m \in Nat : m <= l /\ SameLine(m, l)}
  <2>1. l \in Ys /\ l \in Nat
    BY <1>1
  <2>2. SameLine(l, l)
    BY <2>1 DEF SameLine
  <2>3. T \subseteq Nat /\ l \in T
    BY <2>1, <2>2
  <2>4. \A m : m \in T <=> m \in Nat /\ m <= l /\ SameLine(m, l)
    OBVIOUS
  <2> HIDE DEF l, T
  <2>5. PICK y \in T : \A m \in T : y <= m
    BY <2>3, LeastNumber
  <2>6. y \in Nat /\ y <= l /\ SameLine(y, l) /\ y \in Ys
    <3>1. y \in Nat /\ y <= l /\ SameLine(y, l)
      BY <2>4, <2>5
    <3>2. y \in y..l
      BY <3>1, <2>1
    <3> QED BY <3>1, <3>2 DEF SameLine
  <2>7. ASSUME NEW z \in Ys, z + 1 = y PROVE FALSE
    <3>1. z \in Nat /\ z <= l /\ ~(y <= z)
      BY <1>1, <2>1, <2>6, <2>7
    <3>2. \A m \in z..l : m = z \/ m \in y..l
      BY <2>1, <2>6, <2>7, <3>1
    <3>3. SameLine(z, l)
      BY <2>6, <3>2 DEF SameLine
    <3> QED BY <2>4, <2>5, <3>1, <3>3
  <2>8. y \in Starts
    BY <2>6, <2>7 DEF Starts
  <2>9. l >= y
    BY <2>1, <2>6
  <2> QED BY <2>6, <2>8, <2>9 DEF Run, l
<1>3. ASSUME NEW y \in Starts, NEW z \in Starts, NEW t, t \in Run(y), t \in Run(z) PROVE ~(y < z)
  <2> SUFFICES ASSUME y < z PROVE FALSE
    OBVIOUS
  <2>1. y \in Nat /\ z \in Nat /\ image.line[t] \in Nat /\ image.line[t] >= z /\ SameLine(y, image.line[t])
    BY <1>1, <1>3 DEF Starts, Run
  <2>2. z - 1 \in y..image.line[t] /\ (z - 1) + 1 = z
    BY <2>1
  <2>3. z - 1 \in Ys
    BY <2>1, <2>2 DEF SameLine
  <2> QED BY <2>2, <2>3 DEF Starts
<1>4. Starts \subseteq Nat
  BY <1>1 DEF Starts
<1>5. ASSUME NEW y \in Starts, NEW z \in Starts, NEW t, t \in Run(y), t \in Run(z) PROVE y = z
  <2>1. ~(y < z) /\ ~(z < y)
    BY <1>3, <1>5
  <2>2. y \in Nat /\ z \in Nat
    BY <1>4
  <2> QED BY <2>1, <2>2
<1> QED BY <1>2, <1>5

LEMMA LinesFact ==
  ASSUME IsImage(image)
  PROVE  Lists(FlattenSeq(Lines), Texts)
<1> DEFINE starts == InOrder(Starts)
           n == Len(starts)
           L == [k \in 1..n |-> InOrder(Run(starts[k]))]
           S == [k \in 1..n |-> Run(starts[k])]
<1>1. Starts \subseteq Nat /\ IsFiniteSet(Starts)
  BY ImageFact, FS_Subset DEF Starts
<1>2. Lists(starts, Starts)
  BY <1>1, InOrderFact
<1>3. Lines = L
  BY DEF Lines, Starts, Run
<1>4. L = [k \in 1..n |-> L[k]] /\ \A k \in 1..n : L[k] = InOrder(Run(starts[k])) /\ S[k] = Run(starts[k])
  OBVIOUS
<1> HIDE DEF starts, L, S
<1>5. /\ n \in Nat /\ \A k \in 1..n : starts[k] \in Starts
      /\ \A y \in Starts : \E k \in 1..n : starts[k] = y
      /\ \A j, k \in 1..n : starts[j] = starts[k] => j = k
  BY <1>2, LenProperties, ElementOfSeq DEF Lists
<1>6. \A y : Lists(InOrder(Run(y)), Run(y))
  <2> SUFFICES ASSUME NEW y PROVE Lists(InOrder(Run(y)), Run(y))
    OBVIOUS
  <2>1. Run(y) \subseteq Texts
    BY DEF Run
  <2>2. Run(y) \subseteq Nat /\ IsFiniteSet(Run(y))
    BY <2>1, ImageFact, FS_Subset
  <2> QED BY <2>2, InOrderFact
<1> HIDE DEF n
<1>7. \A k \in 1..n : Lists(L[k], S[k])
  BY <1>4, <1>6
<1>8. \A j, k \in 1..n : j # k => S[j] \cap S[k] = {}
  <2> SUFFICES ASSUME NEW j \in 1..n, NEW k \in 1..n, j # k, NEW t \in S[j] \cap S[k] PROVE FALSE
    OBVIOUS
  <2>1. starts[j] # starts[k] /\ t \in Run(starts[j]) /\ t \in Run(starts[k])
    BY <1>4, <1>5
  <2> QED BY <2>1, <1>5, RunsFact
<1>9. \A t : t \in Texts <=> \E k \in 1..n : t \in S[k]
  <2>1. ASSUME NEW t \in Texts PROVE \E k \in 1..n : t \in S[k]
    BY <1>4, <1>5, RunsFact
  <2>2. \A y : Run(y) \subseteq Texts
    BY DEF Run
  <2> QED BY <2>1, <2>2, <1>4
<1>10. L = [k \in 1..n |-> L[k]]
  BY <1>4
<1>11. n \in Nat
  BY <1>5
<1>12. Lists(FlattenSeq(L), Texts)
  BY ONLY <1>7, <1>8, <1>9, <1>10, <1>11, ListsFlatten
<1> QED BY <1>3, <1>12

LEMMA SelectedFact ==
  ASSUME NEW s, NEW S, Lists(s, S), NEW K, NEW r,
         r = FlattenSeq([i \in 1..Len(s) |-> IF s[i] \in K THEN <<s[i]>> ELSE <<>>])
  PROVE  Lists(r, S \cap K)
<1> DEFINE seqs == [i \in 1..Len(s) |-> IF s[i] \in K THEN <<s[i]>> ELSE <<>>]
<1>1. seqs = [i \in 1..Len(s) |-> IF s[i] \in K THEN <<s[i]>> ELSE <<>>]
  OBVIOUS
<1>2. r = FlattenSeq(seqs)
  OBVIOUS
<1>3. Lists(s, S)
  OBVIOUS
<1> HIDE DEF seqs
<1>4. Lists(FlattenSeq(seqs), S \cap K)
  BY ONLY <1>1, <1>3, ListsSelect
<1> QED BY <1>2, <1>4

\* What Display makes of the entries.
Displayed(as) ==
  FlattenSeq(ByLine(Select(as, is_table), Select(as, LAMBDA e : ~is_table(e))))
InTable(as, t) == \E i \in 1..Len(as) : Has(as[i].texts, t) /\ is_table(as[i])
Shown(shown, as) ==
  /\ shown \in Seq(Nat)
  /\ \A t \in Texts : Has(shown, t) /\ (InTable(as, t) \/ Once(shown, t))

LEMMA DisplayFact ==
  ASSUME IsImage(image), NEW as, EntriesInv(as)
  PROVE  Shown(Displayed(as), as)
<1>1. PICK E : /\ Lists(as, E) /\ Apart(E) /\ \A e \in E : EntryOK(e)
               /\ \A t \in Texts : \E e \in E : Has(e.texts, t)
  BY DEF EntriesInv
<1> DEFINE K == {e \in E : is_table(e)}
           J == {e \in E : ~is_table(e)}
           table == Select(as, is_table)
           others == Select(as, LAMBDA e : ~is_table(e))
           shown == Displayed(as)
<1>2. /\ \A i \in 1..Len(as) : as[i] \in E
      /\ \A e \in E : \E i \in 1..Len(as) : as[i] = e
  BY <1>1, ElementOfSeq DEF Lists
<1>3. Lists(table, E \cap K)
  <2>1. table = FlattenSeq([i \in 1..Len(as) |-> IF as[i] \in K THEN <<as[i]>> ELSE <<>>])
    BY <1>2 DEF Select
  <2> HIDE DEF table, K
  <2> QED BY ONLY <1>1, <2>1, SelectedFact
<1>4. Lists(others, E \cap J)
  <2>1. others = FlattenSeq([i \in 1..Len(as) |-> IF as[i] \in J THEN <<as[i]>> ELSE <<>>])
    BY <1>2 DEF Select
  <2> HIDE DEF others, J
  <2> QED BY ONLY <1>1, <2>1, SelectedFact
<1>5. E \cap K = K /\ E \cap J = J
  OBVIOUS
<1>6. /\ \A e \in E : e \in EntryType /\ e.line \in Ys /\ \A t : Has(e.texts, t) => t \in Texts /\ Once(e.texts, t)
      /\ \A e : e \in K <=> e \in E /\ is_table(e)
      /\ \A e : e \in J <=> e \in E /\ ~is_table(e)
  BY <1>1 DEF EntryOK
<1>7. shown = FlattenSeq(ByLine(table, others))
  BY DEF Displayed
<1> HIDE DEF K, J, table, others, shown
<1>8. /\ \A i \in 1..Len(table) : table[i] \in K
      /\ \A e \in K : \E i \in 1..Len(table) : table[i] = e
      /\ table \in Seq(K)
  BY <1>3, <1>5, ElementOfSeq DEF Lists
<1>9. table \in Seq(EntryType)
  <2>1. K \subseteq EntryType
    BY <1>6
  <2> QED BY <1>8, <2>1, SeqMonotonic
<1>10. Lists(others, J) /\ J \subseteq EntryType /\ Apart(J)
  <2>1. Apart(J)
    BY <1>1, <1>6 DEF Apart
  <2> QED BY <1>4, <1>5, <1>6, <2>1
<1>11. /\ \A i \in 1..Len(table) : is_table(table[i])
       /\ \A e \in J : \A t : Has(e.texts, t) => Once(e.texts, t)
  BY <1>6, <1>8
<1>12. /\ shown \in Seq(Nat)
       /\ \A i \in 1..Len(table) : \A t : Has(table[i].texts, t) => Has(shown, t)
       /\ \A e \in J : \A t : Has(e.texts, t) => Has(shown, t)
       /\ \A e \in J : \A t : Has(e.texts, t) /\ (\A i \in 1..Len(table) : ~Has(table[i].texts, t)) => Once(shown, t)
  BY ONLY <1>7, <1>9, <1>10, <1>11, ShownFact
<1>13. ASSUME NEW t \in Texts PROVE Has(shown, t) /\ (InTable(as, t) \/ Once(shown, t))
  <2>1. PICK e \in E : Has(e.texts, t)
    BY <1>1
  <2>2. CASE is_table(e)
    <3>1. PICK i \in 1..Len(table) : table[i] = e
      BY <1>6, <1>8, <2>2
    <3>2. InTable(as, t)
      BY <1>2, <2>1, <2>2 DEF InTable
    <3> QED BY <1>12, <2>1, <3>1, <3>2
  <2>3. CASE ~is_table(e)
    <3>1. e \in J
      BY <1>6, <2>3
    <3>2. \A i \in 1..Len(table) : ~Has(table[i].texts, t)
      <4> SUFFICES ASSUME NEW i \in 1..Len(table), Has(table[i].texts, t) PROVE FALSE
        OBVIOUS
      <4>1. table[i] \in E /\ is_table(table[i])
        BY <1>6, <1>8
      <4>2. table[i] = e
        BY <1>1, <2>1, <4>1 DEF Apart
      <4> QED BY <2>3, <4>1, <4>2
    <3> QED BY <1>12, <2>1, <3>1, <3>2
  <2> QED BY <2>2, <2>3
<1> QED BY <1>12, <1>13 DEF Shown, shown

-----------------------------------------------------------------------------
(* The content of every image.                                             *)

\* What holds in every state: assignments are the entries of the image's texts,
\* and the content shows them. Content of the simple form comes without entries.
LayoutInv ==
  /\ IsImage(image)
  /\ assignments # <<>> => image.format = "structure" /\ EntriesInv(assignments)
  /\ content # <<>> => Shown(FlattenSeq(content), assignments)
  /\ content # <<>> /\ image.format = "structure" => assignments # <<>>

LEMMA LayoutStep ==
  ASSUME LayoutInv, LayoutNext
  PROVE  LayoutInv'
<1> USE DEF LayoutInv
<1>1. CASE Assign
  <2>1. image' = image /\ content' = content /\ assignments' = Alone \o InCells
        /\ image.format = "structure" /\ assignments = <<>>
    BY <1>1 DEF Assign
  <2>2. content = <<>>
    BY <2>1
  <2>3. EntriesInv(Alone \o InCells)
    BY AssignedFact
  <2>4. EntriesInv(assignments)'
    <3> DEFINE as == Alone \o InCells
    <3>1. assignments' = as /\ EntriesInv(as)
      BY <2>1, <2>3
    <3> HIDE DEF as
    <3> QED BY <2>1, <3>1 DEF EntriesInv, EntryOK, Texts, Ys
  <2> QED BY <2>1, <2>2, <2>4
<1>2. CASE Display
  <2>1. /\ image' = image /\ assignments' = assignments /\ assignments # <<>> /\ content = <<>>
        /\ FlattenSeq(content)' = Displayed(assignments)
    BY <1>2 DEF Display, Displayed
  <2>2. Shown(Displayed(assignments), assignments)
    BY <2>1, DisplayFact
  <2>3. Shown(FlattenSeq(content), assignments)'
    BY <2>1, <2>2 DEF Shown, InTable, Texts
  <2>4. EntriesInv(assignments)'
    BY <2>1 DEF EntriesInv, EntryOK, Texts, Ys
  <2> QED BY <2>1, <2>3, <2>4
<1>3. CASE PseudoMarkdown
  <2>1. image' = image /\ assignments' = assignments /\ image.format = "lines" /\ content' = Lines
    BY <1>3 DEF PseudoMarkdown
  <2>2. assignments = <<>>
    BY <2>1
  <2>3. Lists(FlattenSeq(Lines), Texts)
    BY LinesFact
  <2>4. Shown(FlattenSeq(Lines), assignments)
    <3>1. FlattenSeq(Lines) \in Seq(Nat)
      <4>1. Texts \subseteq Nat
        BY ImageFact
      <4> QED BY <2>3, <4>1, SeqMonotonic DEF Lists
    <3>2. \A t \in Texts : Has(FlattenSeq(Lines), t) /\ Once(FlattenSeq(Lines), t)
      BY <2>3, HasListed
    <3> QED BY <3>1, <3>2 DEF Shown
  <2>5. Shown(FlattenSeq(content), assignments)'
    BY <2>1, <2>4 DEF Shown, InTable, Texts
  <2> QED BY <2>1, <2>2, <2>5
<1> QED BY <1>1, <1>2, <1>3 DEF LayoutNext

\* The invariant of an image's layout is true in every state.
THEOREM LayoutInvariant == LayoutSpec => []LayoutInv
<1>1. LayoutInit => LayoutInv
  <2> SUFFICES ASSUME LayoutInit PROVE LayoutInv
    OBVIOUS
  <2>1. IsImage(image)
    BY LayoutAssumption DEF LayoutInit
  <2> QED BY <2>1 DEF LayoutInit, LayoutInv
<1>2. LayoutInv /\ [LayoutNext]_layoutVars => LayoutInv'
  <2> SUFFICES ASSUME LayoutInv, [LayoutNext]_layoutVars PROVE LayoutInv'
    OBVIOUS
  <2>1. CASE LayoutNext
    BY <2>1, LayoutStep
  <2>2. CASE UNCHANGED layoutVars
    BY <2>2 DEF layoutVars, LayoutInv, EntriesInv, EntryOK, Shown, InTable, Texts, Ys
  <2> QED BY <2>1, <2>2
<1> QED BY <1>1, <1>2, PTL DEF LayoutSpec

\* A text is in the content as often as there are places of it.
LEMMA OnceCounted ==
  ASSUME NEW s \in Seq(Nat), NEW x, Once(s, x)
  PROVE  Cardinality({i \in DOMAIN s : s[i] = x}) = 1
<1>1. DOMAIN s = 1..Len(s)
  BY LenProperties
<1>2. PICK k \in 1..Len(s) : s[k] = x /\ \A j \in 1..Len(s) : s[j] = x => j = k
  BY DEF Once
<1>3. {i \in DOMAIN s : s[i] = x} = {k}
  BY <1>1, <1>2
<1> QED BY <1>3, FS_Singleton

LEMMA ShownMeans ==
  ASSUME LayoutInv
  PROVE  TextsShown
<1> SUFFICES ASSUME content # <<>> PROVE TextsShown
  BY DEF TextsShown
<1> DEFINE shown == FlattenSeq(content)
<1>1. Shown(shown, assignments)
  BY DEF LayoutInv
<1>2. shown \in Seq(Nat) /\ DOMAIN shown = 1..Len(shown)
  BY <1>1, LenProperties DEF Shown
<1>3. DOMAIN assignments = 1..Len(assignments)
  <2>1. CASE assignments = <<>>
    BY <2>1
  <2>2. CASE assignments # <<>>
    <3>1. PICK E : Lists(assignments, E)
      BY <2>2 DEF LayoutInv, EntriesInv
    <3> QED BY <3>1, LenProperties DEF Lists
  <2> QED BY <2>1, <2>2
<1>4. \A i \in 1..Len(assignments) : \A t : Has(assignments[i].texts, t) => t \in Range(assignments[i].texts)
  <2> SUFFICES ASSUME NEW i \in 1..Len(assignments), NEW t, Has(assignments[i].texts, t)
               PROVE  t \in Range(assignments[i].texts)
    OBVIOUS
  <2>1. assignments # <<>>
    <3>1. Len(<<>>) = 0
      OBVIOUS
    <3> QED BY <3>1
  <2>2. PICK E : Lists(assignments, E) /\ \A e \in E : EntryOK(e)
    BY <2>1 DEF LayoutInv, EntriesInv
  <2>3. assignments[i] \in E
    BY <2>2, ElementOfSeq DEF Lists
  <2>4. assignments[i].texts \in Seq(Nat)
    BY <2>2, <2>3 DEF EntryOK, EntryType
  <2> DEFINE s == assignments[i].texts
  <2>5. s \in Seq(Nat) /\ DOMAIN s = 1..Len(s) /\ Has(s, t)
    BY <2>4, LenProperties
  <2> HIDE DEF s
  <2>6. t \in Range(s)
    BY <2>5 DEF Has, Range
  <2> QED BY <2>6 DEF s
<1> HIDE DEF shown
<1>5. ASSUME NEW t \in Texts PROVE \E i \in DOMAIN shown : shown[i] = t
  BY <1>1, <1>2, <1>5 DEF Shown, Has
<1>6. ASSUME NEW t \in Texts,
             \A i \in DOMAIN assignments : t \in Range(assignments[i].texts) => ~is_table(assignments[i])
      PROVE  Cardinality({i \in DOMAIN shown : shown[i] = t}) = 1
  <2>1. ~InTable(assignments, t)
    BY <1>3, <1>4, <1>6 DEF InTable
  <2>2. Once(shown, t)
    BY <1>1, <2>1 DEF Shown
  <2> QED BY <1>2, <2>2, OnceCounted
<1> QED BY <1>5, <1>6 DEF TextsShown, shown

\* join_yolox_table_structure_and_paddle_output and the simple form: for every
\* image, whatever its cells, rows, columns and lines, each text is in the content,
\* and a text outside the table once.
THEOREM LayoutTextsShown == LayoutSpec => []TextsShown
<1>1. LayoutInv => TextsShown
  BY ShownMeans
<1> QED BY <1>1, LayoutInvariant, PTL

-----------------------------------------------------------------------------
(* Parts of a list, each read in its own way.                              *)

\* What f makes of the members of a list, one after the other.
Each(f, s) == FlattenSeq([i \in 1..Len(s) |-> f[s[i]]])

\* f reads members of T as lists of U; g, as one U each; h reads as g what f read.
Reads(f, T, U) == \A x \in T : f[x] \in Seq(U)
Names(f, g, T, U) == \A x \in T : f[x] = <<g[x]>> /\ g[x] \in U
Composes(h, g, f, T) == \A x \in T : h[x] = Each(g, f[x])
Parts(W, f, V) == Len(W) = Len(V) /\ \A i \in 1..Len(V) : W[i] = Each(f, V[i])

\* What holds of each pair of parts, and of joined pairs, holds of the whole.
LEMMA FlattenRelated ==
  ASSUME NEW T, NEW U, NEW X \in Seq(Seq(T)), NEW Y \in Seq(Seq(U)), Len(X) = Len(Y), NEW R,
         <<<<>>, <<>>>> \in R,
         \A a, c \in Seq(T), b, d \in Seq(U) : <<a, b>> \in R /\ <<c, d>> \in R => <<a \o c, b \o d>> \in R,
         \A i \in 1..Len(X) : <<X[i], Y[i]>> \in R
  PROVE  <<FlattenSeq(X), FlattenSeq(Y)>> \in R
<1> DEFINE n == Len(X)
           P(m) == FlattenSeq(Prefix(Y, m))
           G == [m \in Nat |-> {x \in Seq(T) : <<x, P(m)>> \in R}]
<1>1. n \in Nat /\ Len(Y) = n
  BY LenProperties
<1>2. \A m \in 0..n : P(m) \in Seq(U)
  <2> SUFFICES ASSUME NEW m \in 0..n PROVE P(m) \in Seq(U)
    OBVIOUS
  <2>1. m \in Nat /\ m <= Len(Y)
    BY <1>1
  <2> DEFINE V == Seq(U)
  <2>2. Prefix(Y, m) \in Seq(V)
    <3> HIDE DEF V
    <3>1. Y \in Seq(V)
      BY DEF V
    <3> QED BY <2>1, <3>1, PrefixFact
  <2> QED BY <2>2, FlattenTyped
<1>3. P(0) = <<>>
  <2>1. 0 \in Nat /\ 0 <= Len(Y)
    BY <1>1
  <2> DEFINE V == Seq(U)
             p == Prefix(Y, 0)
  <2>2. Y \in Seq(V)
    OBVIOUS
  <2> HIDE DEF V
  <2>3. p \in Seq(V) /\ Len(p) = 0
    BY <2>1, <2>2, PrefixFact
  <2>4. p = <<>>
    <3> HIDE DEF p
    <3> QED BY <2>3, EmptySeq
  <2> QED BY <2>4, FlattenEmpty
<1>4. ASSUME NEW m \in 0..(n - 1) PROVE P(m + 1) = P(m) \o Y[m + 1]
  <2>1. m \in Nat /\ m < Len(Y) /\ m <= Len(Y) /\ m + 1 \in 1..Len(Y) /\ m \in 0..n
    BY <1>1
  <2> DEFINE V == Seq(U)
             p == Prefix(Y, m)
             y == Y[m + 1]
  <2>2. Y \in Seq(V)
    OBVIOUS
  <2>3. P(m) \in Seq(U)
    BY <1>2, <2>1
  <2>4. p \in Seq(V) /\ Prefix(Y, m + 1) = Append(p, y) /\ y \in V
    <3> HIDE DEF V
    <3> QED BY <2>1, <2>2, PrefixFact, ElementOfSeq
  <2>5. FlattenSeq(p) \in Seq(U)
    BY <2>3
  <2> HIDE DEF p, y
  <2>6. FlattenSeq(Append(p, y)) = FlattenSeq(p) \o y
    BY <2>4, <2>5, FlattenAppend DEF V
  <2> QED BY <2>4, <2>6 DEF p, y
<1> HIDE DEF P
<1>5. <<>> \in G[0]
  BY <1>3
<1>6. ASSUME NEW m \in 0..(n - 1), NEW x \in Seq(T), x \in G[m] PROVE x \o X[m + 1] \in G[m + 1]
  <2>1. m \in Nat /\ m + 1 \in Nat /\ m + 1 \in 1..n /\ m \in 0..n
    BY <1>1
  <2>2. X[m + 1] \in Seq(T) /\ Y[m + 1] \in Seq(U)
    BY <1>1, <2>1, ElementOfSeq
  <2>3. <<x, P(m)>> \in R
    BY <1>6, <2>1
  <2>4. <<X[m + 1], Y[m + 1]>> \in R
    BY <2>1
  <2>5. <<x \o X[m + 1], P(m) \o Y[m + 1]>> \in R
    BY <1>2, <2>1, <2>2, <2>3, <2>4
  <2>6. <<x \o X[m + 1], P(m + 1)>> \in R
    BY <1>4, <2>5
  <2>7. x \o X[m + 1] \in Seq(T)
    BY <2>2, ConcatProperties
  <2> QED BY <2>1, <2>6, <2>7
<1> HIDE DEF G
<1>7. FlattenSeq(X) \in G[n]
  BY <1>5, <1>6, FlattenInduction
<1>8. <<FlattenSeq(X), P(n)>> \in R
  BY <1>1, <1>7 DEF G
<1>9. P(n) = FlattenSeq(Y)
  <2> DEFINE V == Seq(U)
  <2>1. Y \in Seq(V)
    OBVIOUS
  <2> HIDE DEF V
  <2>2. n \in Nat /\ n <= Len(Y) /\ n = Len(Y)
    BY <1>1
  <2> HIDE DEF n
  <2> QED BY <2>1, <2>2, PrefixFact DEF P
<1> QED BY <1>8, <1>9

\* Reading a list that is joined from two reads one and then the other.
LEMMA EachJoin ==
  ASSUME NEW T, NEW U, NEW f, Reads(f, T, U), NEW a \in Seq(T), NEW b \in Seq(T)
  PROVE  Each(f, a \o b) = Each(f, a) \o Each(f, b) /\ Each(f, a) \in Seq(U)
<1> USE DEF Reads
<1> DEFINE V == Seq(U)
           A == [i \in 1..Len(a) |-> f[a[i]]]
           B == [i \in 1..Len(b) |-> f[b[i]]]
           C == [i \in 1..Len(a \o b) |-> f[(a \o b)[i]]]
<1>1. /\ Len(a) \in Nat /\ Len(b) \in Nat /\ Len(a \o b) = Len(a) + Len(b)
      /\ \A i \in 1..Len(a) : a[i] \in T /\ (a \o b)[i] = a[i]
      /\ \A i \in 1..Len(b) : b[i] \in T
      /\ \A i \in 1..(Len(a) + Len(b)) : (a \o b)[i] = IF i <= Len(a) THEN a[i] ELSE b[i - Len(a)]
  BY ConcatProperties, LenProperties, ElementOfSeq
<1>2. A \in Seq(V) /\ Len(A) = Len(a)
  <2> HIDE DEF V
  <2>1. \A i \in 1..Len(a) : A[i] \in V
    BY <1>1 DEF V
  <2> QED BY <1>1, <2>1, TypedFunction
<1>3. B \in Seq(V) /\ Len(B) = Len(b)
  <2> HIDE DEF V
  <2>1. \A i \in 1..Len(b) : B[i] \in V
    BY <1>1 DEF V
  <2> QED BY <1>1, <2>1, TypedFunction
<1>4. C = A \o B
  <2> DEFINE n == Len(a) + Len(b)
             D == A \o B
  <2> HIDE DEF V
  <2>1. /\ D \in Seq(V) /\ Len(D) = n
        /\ \A i \in 1..n : D[i] = IF i <= Len(a) THEN A[i] ELSE B[i - Len(a)]
    <3> HIDE DEF A, B
    <3>1. A \o B \in Seq(V) /\ Len(A \o B) = Len(A) + Len(B)
      BY ONLY <1>2, <1>3, ConcatProperties
    <3>2. \A i \in 1..(Len(A) + Len(B)) : (A \o B)[i] = IF i <= Len(A) THEN A[i] ELSE B[i - Len(A)]
      BY ONLY <1>2, <1>3, ConcatProperties
    <3> QED BY <1>2, <1>3, <3>1, <3>2
  <2>2. D = [i \in 1..n |-> D[i]]
    <3> HIDE DEF D
    <3> QED BY <2>1, LenProperties
  <2>3. n \in Nat /\ C = [i \in 1..n |-> C[i]]
    BY <1>1
  <2>4. ASSUME NEW i \in 1..n PROVE C[i] = D[i]
    <3>1. CASE i <= Len(a)
      <4>1. i \in 1..Len(a) /\ D[i] = A[i] /\ (a \o b)[i] = a[i]
        BY <1>1, <2>1, <3>1
      <4> QED BY <1>1, <4>1
    <3>2. CASE ~(i <= Len(a))
      <4>1. i - Len(a) \in 1..Len(b) /\ D[i] = B[i - Len(a)] /\ (a \o b)[i] = b[i - Len(a)]
        BY <1>1, <2>1, <3>2
      <4> QED BY <1>1, <4>1
    <3> QED BY <3>1, <3>2
  <2> HIDE DEF C, D, n
  <2> QED BY <2>2, <2>3, <2>4 DEF D
<1> HIDE DEF A, B, C
<1>5. FlattenSeq(C) = FlattenSeq(A) \o FlattenSeq(B)
  BY <1>2, <1>3, <1>4, FlattenJoin
<1>6. FlattenSeq(A) \in Seq(U)
  BY <1>2, FlattenTyped
<1> QED BY <1>5, <1>6 DEF Each, A, B, C

\* Reading nothing and reading one thing.
LEMMA EachFew ==
  ASSUME NEW T, NEW U, NEW f, Reads(f, T, U), NEW x \in T
  PROVE  Each(f, <<>>) = <<>> /\ Each(f, <<x>>) = f[x]
<1> USE DEF Reads
<1>1. [i \in 1..Len(<<>>) |-> f[<<>>[i]]] = <<>>
  BY EmptySeq
<1>2. [i \in 1..Len(<<x>>) |-> f[<<x>>[i]]] = <<f[x]>>
  OBVIOUS
<1>3. FlattenSeq(<<f[x]>>) = f[x]
  BY FlattenOne
<1> QED BY <1>1, <1>2, <1>3, FlattenEmpty DEF Each

\* Reading what is joined from many parts.
LEMMA EachFlatten ==
  ASSUME NEW T, NEW U, NEW f, Reads(f, T, U), NEW V \in Seq(Seq(T)),
         NEW W \in Seq(Seq(U)), Parts(W, f, V)
  PROVE  Each(f, FlattenSeq(V)) = FlattenSeq(W)
<1> USE DEF Reads, Parts
<1> DEFINE R == {p \in Seq(T) \X Seq(U) : Each(f, p[1]) = p[2]}
           ST == Seq(T)
           SU == Seq(U)
<1>1. Len(V) \in Nat /\ \A i \in 1..Len(V) : V[i] \in Seq(T)
  <2> HIDE DEF ST
  <2>1. V \in Seq(ST)
    BY DEF ST
  <2> QED BY <2>1, LenProperties, ElementOfSeq DEF ST
<1>2. \A a, c \in Seq(T) : Each(f, a) \in Seq(U) /\ Each(f, a \o c) = Each(f, a) \o Each(f, c)
  <2> SUFFICES ASSUME NEW a \in Seq(T), NEW c \in Seq(T)
               PROVE  Each(f, a \o c) = Each(f, a) \o Each(f, c) /\ Each(f, a) \in Seq(U)
    OBVIOUS
  <2> QED BY EachJoin
<1>4. <<<<>>, <<>>>> \in R
  <2>1. <<>> \in Seq(T) /\ <<>> \in Seq(U)
    BY EmptySeq
  <2>2. Each(f, <<>>) = <<>>
    <3>1. [i \in 1..Len(<<>>) |-> f[<<>>[i]]] = <<>>
      BY EmptySeq
    <3> QED BY <3>1, FlattenEmpty DEF Each
  <2> QED BY <2>1, <2>2
<1>5. \A a, c \in Seq(T), b, d \in Seq(U) : <<a, b>> \in R /\ <<c, d>> \in R => <<a \o c, b \o d>> \in R
  <2> SUFFICES ASSUME NEW a \in Seq(T), NEW c \in Seq(T), NEW b \in Seq(U), NEW d \in Seq(U),
                      <<a, b>> \in R, <<c, d>> \in R
               PROVE  <<a \o c, b \o d>> \in R
    OBVIOUS
  <2>1. Each(f, a \o c) = Each(f, a) \o Each(f, c)
    BY <1>2
  <2>2. a \o c \in Seq(T) /\ b \o d \in Seq(U)
    BY ConcatProperties
  <2> QED BY <2>1, <2>2
<1>6. \A i \in 1..Len(V) : <<V[i], W[i]>> \in R
  BY <1>1, <1>2
<1> HIDE DEF R
<1>7. <<FlattenSeq(V), FlattenSeq(W)>> \in R
  BY <1>4, <1>5, <1>6, FlattenRelated
<1> QED BY <1>7 DEF R

\* A list cut into its members is the list.
LEMMA FlattenSingles ==
  ASSUME NEW T, NEW s \in Seq(T), NEW seqs, seqs = [i \in 1..Len(s) |-> <<s[i]>>]
  PROVE  FlattenSeq(seqs) = s /\ seqs \in Seq(Seq(T)) /\ Len(seqs) = Len(s)
<1> DEFINE V == Seq(T)
           n == Len(s)
           G == [m \in Nat |-> {Prefix(s, m)}]
<1>1. n \in Nat /\ \A i \in 1..n : s[i] \in T
  BY LenProperties, ElementOfSeq
<1>2. seqs \in Seq(V) /\ Len(seqs) = n
  <2>1. \A i \in 1..n : seqs[i] \in V
    BY <1>1
  <2> HIDE DEF V
  <2> QED BY <1>1, <2>1, TypedFunction
<1>3. <<>> \in G[0]
  <2> DEFINE p == Prefix(s, 0)
  <2>1. 0 <= Len(s)
    BY <1>1
  <2>2. p \in Seq(T) /\ Len(p) = 0
    BY <2>1, PrefixFact
  <2> HIDE DEF p
  <2>3. p = <<>>
    BY <2>2, EmptySeq
  <2> QED BY <2>3 DEF p
<1>4. ASSUME NEW m \in 0..(n - 1), NEW x \in Seq(T), x \in G[m] PROVE x \o seqs[m + 1] \in G[m + 1]
  <2>1. m \in Nat /\ m <= Len(s) /\ m < Len(s) /\ m + 1 \in 1..n /\ m + 1 \in Nat
    BY <1>1
  <2>2. x = Prefix(s, m) /\ Prefix(s, m + 1) = Append(Prefix(s, m), s[m + 1])
    BY <1>4, <2>1, PrefixFact
  <2>3. x \o <<s[m + 1]>> = Append(x, s[m + 1])
    BY <1>1, <2>1, AppendIsConcat
  <2> QED BY <2>1, <2>2, <2>3
<1>5. FlattenSeq(seqs) \in G[n]
  <2> HIDE DEF G, n, V
  <2>1. seqs \in Seq(Seq(T))
    BY <1>2 DEF V
  <2> QED BY <1>2, <1>3, <1>4, <2>1, FlattenInduction
<1>6. Prefix(s, n) = s
  BY <1>1, PrefixFact
<1> QED BY <1>1, <1>2, <1>5, <1>6

\* Parts that are all empty but perhaps one make that one.
LEMMA FlattenLone ==
  ASSUME NEW T, NEW seqs \in Seq(Seq(T)), NEW k \in 1..Len(seqs),
         \A i \in 1..Len(seqs) : i # k => seqs[i] = <<>>
  PROVE  FlattenSeq(seqs) = seqs[k]
<1> DEFINE V == Seq(T)
           n == Len(seqs)
           G == [m \in Nat |-> {IF k <= m THEN seqs[k] ELSE <<>>}]
<1>1. n \in Nat /\ \A i \in 1..n : seqs[i] \in Seq(T)
  <2> HIDE DEF V
  <2>1. seqs \in Seq(V)
    BY DEF V
  <2> QED BY <2>1, LenProperties, ElementOfSeq DEF V
<1>2. <<>> \in G[0]
  BY <1>1
<1>3. ASSUME NEW m \in 0..(n - 1), NEW x \in Seq(T), x \in G[m] PROVE x \o seqs[m + 1] \in G[m + 1]
  <2>1. m \in Nat /\ m + 1 \in 1..n /\ m + 1 \in Nat /\ k \in Nat
    BY <1>1
  <2>2. x = IF k <= m THEN seqs[k] ELSE <<>>
    BY <1>3, <2>1
  <2> DEFINE z == x \o seqs[m + 1]
  <2>7. z = (IF k <= m + 1 THEN seqs[k] ELSE <<>>) => z \in G[m + 1]
    <3> HIDE DEF z
    <3> QED BY <2>1
  <2>3. \A y \in Seq(T) : y \o <<>> = y /\ <<>> \o y = y
    BY ConcatEmptySeq
  <2>4. CASE k <= m
    <3>1. seqs[m + 1] = <<>> /\ k <= m + 1
      BY <2>1, <2>4
    <3>2. x \o seqs[m + 1] = seqs[k]
      BY <1>1, <2>2, <2>3, <2>4, <3>1
    <3>3. z = seqs[k]
      BY <3>2
    <3> HIDE DEF z, G
    <3>4. z \in G[m + 1]
      BY ONLY <2>7, <3>1, <3>3
    <3> QED BY <3>4 DEF z
  <2>5. CASE k = m + 1
    <3>1. x = <<>>
      BY <2>1, <2>2, <2>5
    <3>2. x \o seqs[m + 1] = seqs[k]
      BY <1>1, <2>3, <2>5, <3>1
    <3>3. k <= m + 1
      BY <2>1, <2>5
    <3>4. z = seqs[k]
      BY <3>2
    <3> HIDE DEF z, G
    <3>5. z \in G[m + 1]
      BY ONLY <2>7, <3>3, <3>4
    <3> QED BY <3>5 DEF z
  <2>6. CASE k > m + 1
    <3>1. x = <<>> /\ seqs[m + 1] = <<>> /\ ~(k <= m + 1)
      BY <2>1, <2>2, <2>6
    <3>2. x \o seqs[m + 1] = <<>>
      BY <1>1, <2>1, <2>3, <3>1
    <3>3. z = <<>>
      BY <3>2
    <3> HIDE DEF z, G
    <3>4. z \in G[m + 1]
      BY ONLY <2>7, <3>1, <3>3
    <3> QED BY <3>4 DEF z
  <2>8. k <= m \/ k = m + 1 \/ k > m + 1
    BY ONLY <2>1
  <2> QED BY ONLY <2>4, <2>5, <2>6, <2>8
<1>4. FlattenSeq(seqs) \in G[n]
  <2> HIDE DEF G
  <2> QED BY <1>2, <1>3, FlattenInduction
<1> QED BY <1>1, <1>4

\* Parts that are all empty make nothing.
LEMMA FlattenNothing ==
  ASSUME NEW T, NEW seqs \in Seq(Seq(T)), \A i \in 1..Len(seqs) : seqs[i] = <<>>
  PROVE  FlattenSeq(seqs) = <<>>
<1> DEFINE V == Seq(T)
<1>1. CASE Len(seqs) = 0
  <2> HIDE DEF V
  <2>1. seqs \in Seq(V)
    BY DEF V
  <2>2. seqs = <<>>
    BY <1>1, <2>1, EmptySeq
  <2> QED BY <2>2, FlattenEmpty
<1>2. CASE Len(seqs) # 0
  <2>1. Len(seqs) \in Nat
    <3> HIDE DEF V
    <3>1. seqs \in Seq(V)
      BY DEF V
    <3> QED BY <3>1, LenProperties
  <2>2. 1 \in 1..Len(seqs)
    BY <1>2, <2>1
  <2> QED BY <2>2, FlattenLone
<1> QED BY <1>1, <1>2

\* The first m parts of a list, put together.
UpTo(f, m) == FlattenSeq(Prefix(f, m))
Grows(T, f, n) ==
  /\ UpTo(f, 0) = <<>> /\ UpTo(f, n) = FlattenSeq(f) /\ f \in Seq(Seq(T)) /\ Len(f) = n
  /\ \A m \in 0..n : UpTo(f, m) \in Seq(T)
  /\ \A m \in 0..n : m < n => UpTo(f, m + 1) = UpTo(f, m) \o f[m + 1]

LEMMA UpToFact ==
  ASSUME NEW T, NEW n \in Nat, NEW f, f = [i \in 1..n |-> f[i]], \A i \in 1..n : f[i] \in Seq(T)
  PROVE  Grows(T, f, n)
<1> DEFINE V == Seq(T)
<1>1. f \in Seq(V) /\ Len(f) = n
  <2> HIDE DEF V
  <2>1. \A i \in 1..n : f[i] \in V
    BY DEF V
  <2> QED BY <2>1, TypedFunction
<1>2. ASSUME NEW m \in 0..n
      PROVE  /\ Prefix(f, m) \in Seq(V) /\ Len(Prefix(f, m)) = m
             /\ m = n => Prefix(f, m) = f
             /\ m < n => Prefix(f, m + 1) = Append(Prefix(f, m), f[m + 1])
  <2> HIDE DEF V
  <2>1. m \in Nat /\ m <= Len(f) /\ (m = n <=> m = Len(f)) /\ (m < n <=> m < Len(f))
    BY <1>1
  <2>2. /\ Prefix(f, m) \in Seq(V) /\ Len(Prefix(f, m)) = m
        /\ m = Len(f) => Prefix(f, m) = f
        /\ m < Len(f) => Prefix(f, m + 1) = Append(Prefix(f, m), f[m + 1])
    BY ONLY <1>1, <2>1, PrefixFact
  <2> QED BY <2>1, <2>2
<1>3. UpTo(f, 0) = <<>>
  <2> DEFINE p == Prefix(f, 0)
  <2> HIDE DEF V
  <2>1. 0 \in 0..n
    OBVIOUS
  <2>2. p \in Seq(V) /\ Len(p) = 0
    BY <1>2, <2>1
  <2> HIDE DEF p
  <2>3. p = <<>>
    BY <2>2, EmptySeq
  <2> QED BY <2>3, FlattenEmpty DEF UpTo, p
<1>4. UpTo(f, n) = FlattenSeq(f)
  <2>1. n \in 0..n
    OBVIOUS
  <2> QED BY <1>2, <2>1 DEF UpTo
<1>5. ASSUME NEW m \in 0..n PROVE UpTo(f, m) \in Seq(T)
  <2>1. Prefix(f, m) \in Seq(V)
    BY <1>2
  <2> QED BY <2>1, FlattenTyped DEF UpTo
<1>6. ASSUME NEW m \in 0..n, m < n PROVE UpTo(f, m + 1) = UpTo(f, m) \o f[m + 1]
  <2> DEFINE p == Prefix(f, m)
             y == f[m + 1]
  <2>1. p \in Seq(V) /\ Prefix(f, m + 1) = Append(p, y)
    BY <1>2, <1>6
  <2>2. m + 1 \in 1..n
    BY <1>6
  <2>3. y \in Seq(T)
    BY <2>2
  <2>4. FlattenSeq(p) \in Seq(T)
    BY <2>1, FlattenTyped
  <2> HIDE DEF p, y
  <2>5. FlattenSeq(Append(p, y)) = FlattenSeq(p) \o y
    BY <2>1, <2>3, <2>4, FlattenAppend
  <2> QED BY <2>1, <2>5 DEF UpTo, p, y
<1> QED BY <1>1, <1>3, <1>4, <1>5, <1>6 DEF Grows

-----------------------------------------------------------------------------
(* Rows of presentations and documents, and the texts in them.             *)

SlideText == Nat \X Nat \X Nat \X Nat
ItemText == Nat \X Nat \X (STRING \cup {"none"})
AnyText == SlideText \cup ItemText
Place == Int \X Int \X Int \X Int
OtherRow == [kind : {"image", "structured"}, at : Place, of : Seq(Int)]
RowOfTexts == [kind : {"text"}, at : Place, of : Seq(AnyText)]
AnyRow == OtherRow \cup RowOfTexts

\* The depth is below that of the i-th number of a place.
Deep(i) == \E d \in (i + 1)..5 : Depths[d] = file.depth
Marked(r) == file.type = "pptx" => \A i \in 1..4 : r.at[i] # -1 <=> Deep(i)
Located(r) == (\A t \in ToSet(r.of) : Within(t, r.at)) /\ Marked(r)
GoodRow == OtherRow \cup {r \in RowOfTexts : Located(r)}

\* The texts of a row, and of rows.
Reading == [r \in AnyRow |-> IF r.kind = "text" THEN r.of ELSE <<>>]
Read(rows) == Each(Reading, rows)

LEMMA RowKinds == GoodRow \subseteq AnyRow /\ \A r \in AnyRow : Reading[r] \in Seq(AnyText)
<1>1. <<>> \in Seq(AnyText)
  BY EmptySeq
<1>2. \A r \in AnyRow : r.kind = "text" => r.of \in Seq(AnyText)
  BY DEF AnyRow, OtherRow, RowOfTexts
<1> QED BY <1>1, <1>2 DEF GoodRow, AnyRow, Reading

LEMMA GoodAny == \A a \in Seq(GoodRow) : a \in Seq(AnyRow)
<1> SUFFICES ASSUME NEW a \in Seq(GoodRow) PROVE a \in Seq(AnyRow)
  OBVIOUS
<1>1. /\ Len(a) \in Nat /\ a = [i \in 1..Len(a) |-> a[i]] /\ \A i \in 1..Len(a) : a[i] \in GoodRow
  BY LenProperties, ElementOfSeq
<1>2. \A i \in 1..Len(a) : a[i] \in AnyRow
  BY <1>1, RowKinds
<1> QED BY <1>1, <1>2, TypedFunction

LEMMA ReadJoin ==
  ASSUME NEW a \in Seq(GoodRow), NEW b \in Seq(GoodRow)
  PROVE  /\ Read(a \o b) = Read(a) \o Read(b) /\ Read(a) \in Seq(AnyText)
         /\ a \o b \in Seq(GoodRow)
<1>1. a \in Seq(AnyRow) /\ b \in Seq(AnyRow)
  BY GoodAny
<1>2. Reads(Reading, AnyRow, AnyText)
  BY RowKinds DEF Reads
<1>3. Each(Reading, a \o b) = Each(Reading, a) \o Each(Reading, b) /\ Each(Reading, a) \in Seq(AnyText)
  BY <1>1, <1>2, EachJoin
<1>4. a \o b \in Seq(GoodRow)
  BY ConcatProperties
<1> QED BY <1>3, <1>4 DEF Read

LEMMA ReadNothing == Read(<<>>) = <<>>
<1>1. [i \in 1..Len(<<>>) |-> Reading[<<>>[i]]] = <<>>
  BY EmptySeq
<1> QED BY <1>1, FlattenEmpty DEF Read, Each

\* Rows that are not text have no texts.
LEMMA ReadOthers ==
  ASSUME NEW a \in Seq(OtherRow)
  PROVE  a \in Seq(GoodRow) /\ Read(a) = <<>>
<1> DEFINE r == [i \in 1..Len(a) |-> Reading[a[i]]]
<1>1. /\ Len(a) \in Nat /\ a = [i \in 1..Len(a) |-> a[i]] /\ \A i \in 1..Len(a) : a[i] \in OtherRow
  BY LenProperties, ElementOfSeq
<1>2. \A i \in 1..Len(a) : a[i] \in GoodRow
  BY <1>1 DEF GoodRow
<1>3. a \in Seq(GoodRow)
  BY <1>1, <1>2, TypedFunction
<1>4. \A i \in 1..Len(a) : Reading[a[i]] = <<>>
  BY <1>1 DEF Reading, AnyRow, OtherRow
<1>5. <<>> \in Seq(AnyText)
  BY EmptySeq
<1>6. r \in Seq(Seq(AnyText)) /\ Len(r) = Len(a)
  <2> DEFINE V == Seq(AnyText)
  <2>1. \A i \in 1..Len(a) : r[i] \in V
    BY <1>4, <1>5
  <2> HIDE DEF V
  <2>2. r \in Seq(V) /\ Len(r) = Len(a)
    BY <1>1, <2>1, TypedFunction
  <2> QED BY <2>2 DEF V
<1>7. \A i \in 1..Len(r) : r[i] = <<>>
  BY <1>4, <1>6
<1> HIDE DEF r
<1>8. FlattenSeq(r) = <<>>
  BY <1>6, <1>7, FlattenNothing
<1> QED BY <1>3, <1>8 DEF Read, Each, r

\* A row of texts at a place.
LEMMA TextRowFact ==
  ASSUME NEW at \in Place, NEW texts \in Seq(AnyText), NEW row, row = [kind |-> "text", at |-> at, of |-> texts],
         \A i \in 1..Len(texts) : Within(texts[i], at), Marked(row)
  PROVE  /\ <<row>> \in Seq(GoodRow) /\ Read(<<row>>) = texts
<1>1. row \in RowOfTexts
  BY DEF RowOfTexts
<1>2. ToSet(texts) = {texts[i] : i \in 1..Len(texts)}
  BY LenProperties DEF ToSet
<1>3. \A t \in ToSet(row.of) : Within(t, row.at)
  BY <1>2
<1>4. row \in GoodRow
  BY <1>1, <1>3 DEF GoodRow, Located
<1>5. row \in AnyRow /\ Reading[row] = texts
  BY <1>1 DEF AnyRow, Reading
<1>6. <<row>> \in Seq(GoodRow)
  BY <1>4
<1>7. Reads(Reading, AnyRow, AnyText)
  BY RowKinds DEF Reads
<1>8. Each(Reading, <<row>>) = Reading[row]
  BY <1>5, <1>7, EachFew
<1> QED BY <1>5, <1>6, <1>8 DEF Read

LEMMA ReadIs ==
  ASSUME NEW rows \in Seq(GoodRow)
  PROVE  FlattenSeq([i \in 1..Len(rows) |-> IF rows[i].kind = "text" THEN rows[i].of ELSE <<>>]) = Read(rows)
<1>1. \A i \in 1..Len(rows) : rows[i] \in AnyRow
  <2>1. \A i \in 1..Len(rows) : rows[i] \in GoodRow
    BY ElementOfSeq
  <2> QED BY <2>1, RowKinds
<1>2. [i \in 1..Len(rows) |-> IF rows[i].kind = "text" THEN rows[i].of ELSE <<>>] = [i \in 1..Len(rows) |-> Reading[rows[i]]]
  BY <1>1 DEF Reading
<1> QED BY <1>2 DEF Read, Each

\* Rows put together from parts have the texts of the parts.
LEMMA ReadFlatten ==
  ASSUME NEW X \in Seq(Seq(GoodRow)), NEW Y \in Seq(Seq(AnyText)), Len(X) = Len(Y),
         \A i \in 1..Len(X) : Read(X[i]) = Y[i]
  PROVE  FlattenSeq(X) \in Seq(GoodRow) /\ Read(FlattenSeq(X)) = FlattenSeq(Y)
<1> DEFINE R == {p \in Seq(GoodRow) \X Seq(AnyText) : Read(p[1]) = p[2]}
           SG == Seq(GoodRow)
           SA == Seq(AnyText)
<1>1. \A i \in 1..Len(X) : X[i] \in Seq(GoodRow) /\ Y[i] \in Seq(AnyText)
  <2> HIDE DEF SG, SA
  <2>1. X \in Seq(SG) /\ Y \in Seq(SA)
    BY DEF SG, SA
  <2>2. \A i \in 1..Len(X) : X[i] \in SG /\ Y[i] \in SA
    BY <2>1, ElementOfSeq
  <2> QED BY <2>2 DEF SG, SA
<1>2. <<<<>>, <<>>>> \in R
  <2>1. <<>> \in Seq(GoodRow) /\ <<>> \in Seq(AnyText)
    BY EmptySeq
  <2> QED BY <2>1, ReadNothing
<1>3. \A a, c \in Seq(GoodRow), b, d \in Seq(AnyText) : <<a, b>> \in R /\ <<c, d>> \in R => <<a \o c, b \o d>> \in R
  <2> SUFFICES ASSUME NEW a \in Seq(GoodRow), NEW c \in Seq(GoodRow), NEW b \in Seq(AnyText), NEW d \in Seq(AnyText),
                      <<a, b>> \in R, <<c, d>> \in R
               PROVE  <<a \o c, b \o d>> \in R
    OBVIOUS
  <2>1. Read(a \o c) = Read(a) \o Read(c) /\ a \o c \in Seq(GoodRow)
    BY ReadJoin
  <2>2. b \o d \in Seq(AnyText)
    BY ConcatProperties
  <2> QED BY <2>1, <2>2
<1>4. \A i \in 1..Len(X) : <<X[i], Y[i]>> \in R
  BY <1>1
<1> HIDE DEF R
<1>5. <<FlattenSeq(X), FlattenSeq(Y)>> \in R
  BY <1>2, <1>3, <1>4, FlattenRelated
<1> QED BY <1>5 DEF R

LEMMA DeepFact ==
  /\ file.depth = "span" => Deep(1) /\ Deep(2) /\ Deep(3) /\ Deep(4)
  /\ file.depth = "line" => Deep(1) /\ Deep(2) /\ Deep(3) /\ ~Deep(4)
  /\ file.depth = "block" => Deep(1) /\ Deep(2) /\ ~Deep(3) /\ ~Deep(4)
  /\ file.depth = "page" => Deep(1) /\ ~Deep(2) /\ ~Deep(3) /\ ~Deep(4)
  /\ file.depth = "document" => ~Deep(1) /\ ~Deep(2) /\ ~Deep(3) /\ ~Deep(4)
<1>1. Depths[1] = "document" /\ Depths[2] = "page" /\ Depths[3] = "block" /\ Depths[4] = "line" /\ Depths[5] = "span"
  BY DEF Depths
<1>2. /\ Deep(4) <=> Depths[5] = file.depth
      /\ Deep(3) <=> Deep(4) \/ Depths[4] = file.depth
      /\ Deep(2) <=> Deep(3) \/ Depths[3] = file.depth
      /\ Deep(1) <=> Deep(2) \/ Depths[2] = file.depth
  <2>1. 4 + 1 .. 5 = {5} /\ 3 + 1 .. 5 = {4, 5} /\ 2 + 1 .. 5 = {3, 4, 5} /\ 1 + 1 .. 5 = {2, 3, 4, 5}
    OBVIOUS
  <2> HIDE DEF Depths
  <2> QED BY ONLY <2>1 DEF Deep
<1> QED BY <1>1, <1>2

-----------------------------------------------------------------------------
(* Presentations: shapes and their texts.                                  *)

LEMMA SlideShapesFact ==
  ASSUME IsFile(file), file.type = "pptx", NEW s \in 1..Len(file.body)
  PROVE  SlideShapes(s) \in Seq(ShapeType) /\ Len(file.body) \in Nat /\ Len(SlideShapes(s)) \in Nat
<1> DEFINE G == Seq(ShapeType)
           SG == Seq(G)
           shapes == ungroup_shapes(file.body[s])
           n == Len(shapes)
           key == [i \in 1..n |-> shapes[i].top]
<1>1. file.body \in Seq(SG)
  BY DEF IsFile
<1>2. file.body[s] \in Seq(G) /\ Len(file.body) \in Nat
  <2> HIDE DEF G
  <2>1. file.body[s] \in SG /\ Len(file.body) \in Nat
    <3> HIDE DEF SG
    <3> QED BY <1>1, ElementOfSeq, LenProperties
  <2> QED BY <2>1
<1>3. shapes \in Seq(ShapeType)
  BY <1>2, FlattenTyped DEF ungroup_shapes
<1> DEFINE Above(i) == {j \in 1..n : \/ shapes[j].top < shapes[i].top
                                     \/ shapes[j].top = shapes[i].top /\ j < i}
           At(k) == CHOOSE i \in 1..n : Cardinality(Above(i)) = k - 1
           r == [k \in 1..n |-> shapes[At(k)]]
<1>4. SlideShapes(s) = r
  BY DEF SlideShapes
<1> HIDE DEF shapes
<1>5. n \in Nat /\ \A i \in 1..n : shapes[i] \in ShapeType
  BY <1>3, LenProperties, ElementOfSeq
<1>6. key \in [1..n -> Int]
  BY <1>5 DEF ShapeType
<1>7. \A i \in 1..n : Above(i) = Earlier(key, i)
  BY <1>5, <1>6 DEF Earlier
<1> HIDE DEF key, n
<1>8. \A m \in 1..n : \E i \in 1..n : Cardinality(Earlier(key, i)) = m - 1
  BY <1>5, <1>6, RankFact
<1> HIDE DEF Above
<1>9. \A k \in 1..n : At(k) \in 1..n
  BY <1>7, <1>8
<1> HIDE DEF At
<1>10. \A k \in 1..n : r[k] \in ShapeType
  BY <1>5, <1>9
<1>11. r \in Seq(ShapeType)
  BY <1>5, <1>10, TypedFunction
<1> QED BY <1>2, <1>4, <1>11, LenProperties

\* The texts of a shape.
TextsIn(s, h) == {s} \X {h} \X Nat \X Nat

LEMMA RunTextsFact ==
  ASSUME NEW s \in Nat, NEW h \in Nat, NEW shape, shape = SlideShapes(s)[h], shape \in ShapeType,
         NEW k \in 1..Len(shape.paragraphs)
  PROVE  /\ RunTexts(s, h, k) \in Seq(TextsIn(s, h)) /\ Len(RunTexts(s, h, k)) \in Nat
         /\ \A r \in 1..Len(RunTexts(s, h, k)) :
              RunTexts(s, h, k)[r] = <<s, h, k, r>> \/ RunTexts(s, h, k)[r] = <<s, h, 0, 0>>
         /\ k \notin NotBlank(shape) => RunTexts(s, h, k) = <<>>
<1> DEFINE b == [r \in 1..shape.paragraphs[k] |-> <<s, h, k, r>>]
           t == <<<<s, h, 0, 0>>>>
           x == RunTexts(s, h, k)
<1>1. shape.paragraphs \in Seq(Nat)
  BY DEF ShapeType
<1>2. k \in Nat /\ k \in DOMAIN shape.paragraphs /\ shape.paragraphs[k] \in Nat
  BY <1>1, LenProperties, ElementOfSeq
<1>3. b \in Seq(TextsIn(s, h)) /\ Len(b) = shape.paragraphs[k] /\ \A r \in 1..Len(b) : b[r] = <<s, h, k, r>>
  <2> DEFINE m == shape.paragraphs[k]
  <2>1. \A r \in 1..m : b[r] \in TextsIn(s, h)
    BY <1>2 DEF TextsIn
  <2>2. m \in Nat /\ b = [r \in 1..m |-> b[r]] /\ \A r \in 1..m : b[r] = <<s, h, k, r>>
    BY <1>2
  <2> HIDE DEF b, m
  <2>3. b \in Seq(TextsIn(s, h)) /\ Len(b) = m
    BY ONLY <2>1, <2>2, TypedFunction
  <2> QED BY <2>2, <2>3 DEF m
<1>4. t \in Seq(TextsIn(s, h)) /\ Len(t) = 1 /\ t[1] = <<s, h, 0, 0>>
  <2>1. <<s, h, 0, 0>> \in TextsIn(s, h)
    BY DEF TextsIn
  <2> QED BY <2>1
<1>5. <<>> \in Seq(TextsIn(s, h)) /\ Len(<<>>) = 0
  BY EmptySeq
<1>6. k \notin NotBlank(shape) => shape.paragraphs[k] = 0
  BY <1>2 DEF NotBlank
<1>7. \/ x = t /\ k \in NotBlank(shape)
      \/ x = <<>>
      \/ x = b
  BY DEF RunTexts
<1> HIDE DEF b, t, x
<1>8. Len(b) = 0 => b = <<>>
  BY <1>3, EmptySeq
<1>9. CASE x = t /\ k \in NotBlank(shape)
  <2>1. x \in Seq(TextsIn(s, h)) /\ Len(x) = 1 /\ x[1] = <<s, h, 0, 0>>
    BY <1>4, <1>9
  <2> DEFINE y == <<s, h, 0, 0>>
  <2> HIDE DEF y
  <2>2. Len(x) \in Nat /\ x[1] = y
    BY <2>1 DEF y
  <2>3. \A r \in 1..Len(x) : r = 1
    BY <2>1
  <2>4. \A r \in 1..Len(x) : x[r] = y
    BY <2>2, <2>3
  <2> QED BY <1>9, <2>1, <2>2, <2>4 DEF x, y
<1>10. CASE x = <<>>
  BY <1>5, <1>10 DEF x
<1>11. CASE x = b
  BY <1>2, <1>3, <1>6, <1>8, <1>11 DEF x
<1> QED BY <1>7, <1>9, <1>10, <1>11

\* What is read of a shape is its texts.
LEMMA TextsOfFact ==
  ASSUME NEW s \in Nat, NEW h \in Nat, SlideShapes(s)[h] \in ShapeType
  PROVE  ShapeTexts(s, h) = TextsOf(s, h) /\ TextsOf(s, h) \in Seq(TextsIn(s, h))
<1> DEFINE shape == SlideShapes(s)[h]
           n == Len(shape.paragraphs)
           f == [k \in 1..n |-> RunTexts(s, h, k)]
           V == Seq(TextsIn(s, h))
<1>1. shape.paragraphs \in Seq(Nat) /\ n \in Nat /\ DOMAIN shape.paragraphs = 1..n
  <2>1. shape.paragraphs \in Seq(Nat)
    BY DEF ShapeType
  <2> QED BY <2>1, LenProperties
<1>2. \A k \in 1..n : RunTexts(s, h, k) \in V /\ (k \notin NotBlank(shape) => RunTexts(s, h, k) = <<>>)
  BY RunTextsFact
<1>3. f \in Seq(Seq(TextsIn(s, h))) /\ Len(f) = n
  <2>1. \A k \in 1..n : f[k] \in V
    BY <1>2
  <2>2. n \in Nat /\ f = [k \in 1..n |-> f[k]]
    BY <1>1
  <2> HIDE DEF f, V, n
  <2>3. f \in Seq(V) /\ Len(f) = n
    BY ONLY <2>1, <2>2, TypedFunction
  <2> QED BY <2>3 DEF V
<1>4. ShapeTexts(s, h) = FlattenSeq(f)
  BY DEF ShapeTexts
<1>5. FlattenSeq(f) \in Seq(TextsIn(s, h))
  <2> HIDE DEF f
  <2> QED BY <1>3, FlattenTyped
<1>6. CASE NotBlank(shape) = {}
  <2>1. \A k \in 1..Len(f) : f[k] = <<>>
    BY <1>2, <1>3, <1>6
  <2> HIDE DEF f
  <2>2. FlattenSeq(f) = <<>>
    BY <1>3, <2>1, FlattenNothing
  <2> QED BY <1>4, <1>5, <1>6, <2>2 DEF TextsOf
<1>7. CASE NotBlank(shape) # {} /\ file.markdown /\ shape.role # "body"
  <2>1. NotBlank(shape) \subseteq 1..n
    BY <1>1 DEF NotBlank
  <2>2. PICK k \in NotBlank(shape) : \A j \in NotBlank(shape) : k <= j
    <3>1. NotBlank(shape) \subseteq Nat
      BY <1>1, <2>1
    <3> QED BY <1>7, <3>1, LeastNumber
  <2>3. k \in 1..n /\ f[k] = <<<<s, h, 0, 0>>>>
    BY <1>7, <2>1, <2>2 DEF RunTexts
  <2>4. ASSUME NEW i \in 1..n, i # k PROVE f[i] = <<>>
    <3>1. i \in NotBlank(shape) => ~ (\A j \in NotBlank(shape) : i <= j)
      BY <1>1, <2>2, <2>3, <2>4
    <3> QED BY <1>7, <3>1 DEF RunTexts
  <2> HIDE DEF f
  <2>5. FlattenSeq(f) = f[k]
    BY <1>3, <2>3, <2>4, FlattenLone
  <2>6. TextsOf(s, h) = <<<<s, h, 0, 0>>>>
    BY <1>7 DEF TextsOf
  <2> QED BY <1>4, <1>5, <2>3, <2>5, <2>6
<1>8. CASE NotBlank(shape) # {} /\ ~(file.markdown /\ shape.role # "body")
  <2>1. f = [k \in 1..n |-> [r \in 1..shape.paragraphs[k] |-> <<s, h, k, r>>]]
    BY <1>8 DEF RunTexts
  <2>2. TextsOf(s, h) = FlattenSeq([k \in 1..n |-> [r \in 1..shape.paragraphs[k] |-> <<s, h, k, r>>]])
    BY <1>8 DEF TextsOf
  <2> HIDE DEF f
  <2> QED BY <1>4, <1>5, <2>1, <2>2
<1> QED BY <1>6, <1>7, <1>8

LEMMA SeqMono ==
  ASSUME NEW A, NEW B, A \subseteq B, NEW s \in Seq(A)
  PROVE  s \in Seq(B)
<1>1. /\ Len(s) \in Nat /\ s = [i \in 1..Len(s) |-> s[i]] /\ \A i \in 1..Len(s) : s[i] \in A
  BY LenProperties, ElementOfSeq
<1>2. \A i \in 1..Len(s) : s[i] \in B
  BY <1>1
<1> QED BY <1>1, <1>2, TypedFunction

LEMMA TextsInTyped ==
  ASSUME NEW s \in Nat, NEW h \in Nat, NEW x \in Seq(TextsIn(s, h))
  PROVE  /\ x \in Seq(AnyText) /\ x \in Seq(SlideText) /\ Len(x) \in Nat
         /\ \A i \in 1..Len(x) : x[i] \in TextsIn(s, h) /\ x[i][1] = s /\ x[i][2] = h
<1>1. TextsIn(s, h) \subseteq SlideText /\ SlideText \subseteq AnyText
  BY DEF TextsIn, SlideText, AnyText
<1>2. x \in Seq(SlideText) /\ x \in Seq(AnyText)
  BY <1>1, SeqMono
<1>3. \A i \in 1..Len(x) : x[i] \in TextsIn(s, h)
  BY ElementOfSeq
<1>4. \A t \in TextsIn(s, h) : t[1] = s /\ t[2] = h
  BY DEF TextsIn
<1>5. Len(x) \in Nat
  BY LenProperties
<1> QED BY <1>2, <1>3, <1>4, <1>5

\* A place that is as deep as the task says, and texts that are there.
AsDeep(a, b, c, d) == (a # -1 <=> Deep(1)) /\ (b # -1 <=> Deep(2)) /\ (c # -1 <=> Deep(3)) /\ (d # -1 <=> Deep(4))
AllAt(texts, a, b, c, d) ==
  \A i \in 1..Len(texts) : /\ a = -1 \/ texts[i][1] \in {a, 0}
                           /\ b = -1 \/ texts[i][2] \in {b, 0}
                           /\ c = -1 \/ texts[i][3] \in {c, 0}
                           /\ d = -1 \/ texts[i][4] \in {d, 0}

\* A row of such texts.
LEMMA SlideRowFact ==
  ASSUME file.type = "pptx", NEW a \in Int, NEW b \in Int, NEW c \in Int, NEW d \in Int,
         NEW texts \in Seq(AnyText),
         AsDeep(a, b, c, d), AllAt(texts, a, b, c, d)
  PROVE  SlideTextRow(<<a, b, c, d>>, texts) \in Seq(GoodRow) /\ Read(SlideTextRow(<<a, b, c, d>>, texts)) = texts
<1> DEFINE at == <<a, b, c, d>>
           row == [kind |-> "text", at |-> at, of |-> texts]
<1>1. at \in Place /\ at[1] = a /\ at[2] = b /\ at[3] = c /\ at[4] = d
  BY DEF Place
<1> HIDE DEF at
<1>2. \A i \in 1..4 : i = 1 \/ i = 2 \/ i = 3 \/ i = 4
  OBVIOUS
<1>3. \A i \in 1..Len(texts) : Within(texts[i], at)
  BY <1>1, <1>2 DEF Within, AllAt
<1>4. \A i \in 1..4 : at[i] # -1 <=> Deep(i)
  BY <1>1, <1>2 DEF AsDeep
<1>5. row.at = at
  OBVIOUS
<1>6. Marked(row)
  <2> HIDE DEF row
  <2> QED BY <1>4, <1>5 DEF Marked
<1>7. <<row>> \in Seq(GoodRow) /\ Read(<<row>>) = texts
  BY <1>1, <1>3, <1>6, TextRowFact
<1>8. SlideTextRow(at, texts) = <<row>>
  BY DEF SlideTextRow, Row
<1> QED BY <1>7, <1>8 DEF at

LEMMA ParagraphRowsFact ==
  ASSUME file.type = "pptx", file.depth \in {"span", "line"}, NEW s \in Nat, NEW h \in Nat,
         NEW shape, shape = SlideShapes(s)[h], shape \in ShapeType, NEW k \in 1..Len(shape.paragraphs)
  PROVE  ParagraphRows(s, h, k) \in Seq(GoodRow) /\ Read(ParagraphRows(s, h, k)) = RunTexts(s, h, k)
<1> DEFINE x == RunTexts(s, h, k)
<1>1. /\ x \in Seq(TextsIn(s, h)) /\ Len(x) \in Nat
      /\ \A r \in 1..Len(x) : x[r] = <<s, h, k, r>> \/ x[r] = <<s, h, 0, 0>>
  BY RunTextsFact
<1>2. k \in Nat /\ k \in Int /\ s \in Int /\ h \in Int
  OBVIOUS
<1>3. /\ x \in Seq(AnyText) /\ \A r \in 1..Len(x) : x[r] \in AnyText
  <2>1. x \in Seq(AnyText)
    BY <1>1, TextsInTyped
  <2> HIDE DEF x
  <2> QED BY <2>1, ElementOfSeq
<1>4. \A r \in 1..Len(x) : x[r][1] = s /\ x[r][2] = h /\ x[r][3] \in {k, 0} /\ x[r][4] \in {r, 0}
  <2> HIDE DEF x
  <2> QED BY <1>1
<1> HIDE DEF x
<1>5. CASE file.depth = "line"
  <2>1. Deep(1) /\ Deep(2) /\ Deep(3) /\ ~Deep(4)
    BY <1>5, DeepFact
  <2>2. SlideTextRow(<<s, h, k, -1>>, x) \in Seq(GoodRow) /\ Read(SlideTextRow(<<s, h, k, -1>>, x)) = x
    <3> DEFINE e == -1
    <3>1. e \in Int /\ AsDeep(s, h, k, e)
      BY <1>2, <2>1 DEF AsDeep
    <3>2. AllAt(x, s, h, k, e)
      BY <1>4 DEF AllAt
    <3>3. file.type = "pptx"
      OBVIOUS
    <3> HIDE DEF e
    <3>4. SlideTextRow(<<s, h, k, e>>, x) \in Seq(GoodRow) /\ Read(SlideTextRow(<<s, h, k, e>>, x)) = x
      BY ONLY <1>2, <1>3, <3>1, <3>2, <3>3, SlideRowFact
    <3> QED BY <3>4 DEF e
  <2> QED BY <1>5, <2>2 DEF ParagraphRows, x
<1>6. CASE file.depth = "span"
  <2> DEFINE n == Len(x)
             X == [r \in 1..n |-> SlideTextRow(<<s, h, k, r>>, <<x[r]>>)]
             Y == [r \in 1..n |-> <<x[r]>>]
             V == Seq(GoodRow)
  <2>1. Deep(1) /\ Deep(2) /\ Deep(3) /\ Deep(4)
    BY <1>6, DeepFact
  <2>2. ASSUME NEW r \in 1..n
        PROVE  SlideTextRow(<<s, h, k, r>>, <<x[r]>>) \in Seq(GoodRow) /\ Read(SlideTextRow(<<s, h, k, r>>, <<x[r]>>)) = <<x[r]>>
    <3> DEFINE y == <<x[r]>>
    <3>1. y \in Seq(AnyText) /\ Len(y) = 1 /\ y[1] = x[r]
      BY <1>3
    <3>2. r \in Int /\ s # -1 /\ h # -1 /\ k # -1 /\ r # -1
      BY <1>2
    <3>3. x[r][1] = s /\ x[r][2] = h /\ x[r][3] \in {k, 0} /\ x[r][4] \in {r, 0}
      BY <1>4
    <3> HIDE DEF y
    <3>4. \A i \in 1..Len(y) : i = 1
      BY <3>1
    <3>5. \A i \in 1..Len(y) : y[i][1] \in {s, 0} /\ y[i][2] \in {h, 0} /\ y[i][3] \in {k, 0} /\ y[i][4] \in {r, 0}
      BY <3>1, <3>3, <3>4
    <3>6. SlideTextRow(<<s, h, k, r>>, y) \in Seq(GoodRow) /\ Read(SlideTextRow(<<s, h, k, r>>, y)) = y
      <4>1. AsDeep(s, h, k, r)
        BY <2>1, <3>2 DEF AsDeep
      <4>2. AllAt(y, s, h, k, r)
        BY <3>5 DEF AllAt
      <4>3. file.type = "pptx"
        OBVIOUS
      <4> QED BY ONLY <1>2, <3>1, <3>2, <4>1, <4>2, <4>3, SlideRowFact
    <3> QED BY <3>6 DEF y
  <2>3. X \in Seq(Seq(GoodRow)) /\ Len(X) = n
    <3>1. \A r \in 1..n : X[r] \in V
      BY <2>2
    <3>2. n \in Nat /\ X = [r \in 1..n |-> X[r]]
      BY <1>1
    <3> HIDE DEF X, V, n
    <3>3. X \in Seq(V) /\ Len(X) = n
      BY ONLY <3>1, <3>2, TypedFunction
    <3> QED BY <3>3 DEF V
  <2>4. FlattenSeq(Y) = x /\ Y \in Seq(Seq(AnyText)) /\ Len(Y) = n
    BY <1>3, FlattenSingles
  <2>5. \A r \in 1..Len(X) : Read(X[r]) = Y[r]
    BY <2>2, <2>3
  <2> HIDE DEF X, Y, V
  <2>6. FlattenSeq(X) \in Seq(GoodRow) /\ Read(FlattenSeq(X)) = FlattenSeq(Y)
    BY <2>3, <2>4, <2>5, ReadFlatten
  <2>7. ParagraphRows(s, h, k) = FlattenSeq(X)
    BY <1>6 DEF ParagraphRows, X, x
  <2> QED BY <2>4, <2>6, <2>7 DEF x
<1> QED BY <1>5, <1>6

\* Below the slide, the rows of a shape have its texts.
LEMMA ShapeRowsFact ==
  ASSUME file.type = "pptx", NEW s \in Nat, NEW h \in Nat, SlideShapes(s)[h] \in ShapeType
  PROVE  /\ ShapeRows(s, h) \in Seq(GoodRow)
         /\ "text" \in file.asks /\ file.depth \in {"span", "line", "block"} => Read(ShapeRows(s, h)) = ShapeTexts(s, h)
         /\ ~("text" \in file.asks /\ file.depth \in {"span", "line", "block"}) => ShapeRows(s, h) = <<>>
<1> DEFINE shape == SlideShapes(s)[h]
           n == Len(shape.paragraphs)
           Y == [k \in 1..n |-> RunTexts(s, h, k)]
           V == Seq(AnyText)
           G == Seq(GoodRow)
<1>1. shape.paragraphs \in Seq(Nat) /\ n \in Nat
  <2>1. shape.paragraphs \in Seq(Nat)
    BY DEF ShapeType
  <2> QED BY <2>1, LenProperties
<1>2. ASSUME NEW k \in 1..n
      PROVE  RunTexts(s, h, k) \in V /\ (k \notin NotBlank(shape) => RunTexts(s, h, k) = <<>>)
  <2> DEFINE x == RunTexts(s, h, k)
  <2>1. x \in Seq(TextsIn(s, h)) /\ (k \notin NotBlank(shape) => x = <<>>)
    BY RunTextsFact
  <2> HIDE DEF x
  <2>2. x \in Seq(AnyText)
    BY <2>1, TextsInTyped
  <2> QED BY <2>1, <2>2 DEF x
<1>3. Y \in Seq(Seq(AnyText)) /\ Len(Y) = n
  <2>1. \A k \in 1..n : Y[k] \in V
    BY <1>2
  <2>2. n \in Nat /\ Y = [k \in 1..n |-> Y[k]]
    BY <1>1
  <2> HIDE DEF Y, V, n
  <2>3. Y \in Seq(V) /\ Len(Y) = n
    BY ONLY <2>1, <2>2, TypedFunction
  <2> QED BY <2>3 DEF V
<1>4. ShapeTexts(s, h) = FlattenSeq(Y)
  BY DEF ShapeTexts
<1>5. <<>> \in Seq(GoodRow) /\ Read(<<>>) = <<>>
  BY EmptySeq, ReadNothing
<1>6. CASE "text" \notin file.asks
  <2>1. ShapeRows(s, h) = <<>>
    BY <1>6 DEF ShapeRows
  <2> QED BY <1>5, <1>6, <2>1
<1>7. CASE "text" \in file.asks /\ shape.paragraphs = <<>>
  <2>1. ShapeRows(s, h) = <<>>
    BY <1>7 DEF ShapeRows
  <2>2. n = 0
    BY <1>7, EmptySeq
  <2>3. \A k \in 1..Len(Y) : Y[k] = <<>>
    BY <1>3, <2>2
  <2> HIDE DEF Y
  <2>4. FlattenSeq(Y) = <<>>
    BY <1>3, <2>3, FlattenNothing
  <2> QED BY <1>4, <1>5, <2>1, <2>4
<1>8. CASE "text" \in file.asks /\ shape.paragraphs # <<>> /\ file.depth \in {"span", "line"}
  <2> DEFINE X == [k \in 1..n |-> IF k \in NotBlank(shape) THEN ParagraphRows(s, h, k) ELSE <<>>]
  <2>1. ASSUME NEW k \in 1..n PROVE X[k] \in G /\ Read(X[k]) = Y[k]
    <3>1. CASE k \in NotBlank(shape)
      <4>1. ParagraphRows(s, h, k) \in Seq(GoodRow) /\ Read(ParagraphRows(s, h, k)) = RunTexts(s, h, k)
        BY <1>8, ParagraphRowsFact
      <4> QED BY <3>1, <4>1
    <3>2. CASE k \notin NotBlank(shape)
      BY <1>2, <1>5, <3>2
    <3> QED BY <3>1, <3>2
  <2>2. X \in Seq(Seq(GoodRow)) /\ Len(X) = n
    <3>1. \A k \in 1..n : X[k] \in G
      BY <2>1
    <3>2. n \in Nat /\ X = [k \in 1..n |-> X[k]]
      BY <1>1
    <3> HIDE DEF X, G, n
    <3>3. X \in Seq(G) /\ Len(X) = n
      BY ONLY <3>1, <3>2, TypedFunction
    <3> QED BY <3>3 DEF G
  <2>3. \A k \in 1..Len(X) : Read(X[k]) = Y[k]
    BY <2>1, <2>2
  <2>4. ShapeRows(s, h) = FlattenSeq(X)
    BY <1>8 DEF ShapeRows
  <2> HIDE DEF X, Y
  <2>5. FlattenSeq(X) \in Seq(GoodRow) /\ Read(FlattenSeq(X)) = FlattenSeq(Y)
    BY <1>3, <2>2, <2>3, ReadFlatten
  <2> QED BY <1>4, <1>8, <2>4, <2>5
<1>9. CASE "text" \in file.asks /\ shape.paragraphs # <<>> /\ file.depth = "block"
  <2> DEFINE x == ShapeTexts(s, h)
             e == -1
  <2>1. x \in Seq(TextsIn(s, h))
    BY TextsOfFact
  <2> HIDE DEF x
  <2>2. x \in Seq(AnyText) /\ \A i \in 1..Len(x) : x[i][1] = s /\ x[i][2] = h
    BY <2>1, TextsInTyped
  <2>3. Deep(1) /\ Deep(2) /\ ~Deep(3) /\ ~Deep(4)
    BY <1>9, DeepFact
  <2>4. s \in Int /\ h \in Int /\ e \in Int /\ AsDeep(s, h, e, e)
    BY <2>3 DEF AsDeep
  <2>5. AllAt(x, s, h, e, e)
    BY <2>2 DEF AllAt
  <2>6. file.type = "pptx"
    OBVIOUS
  <2> HIDE DEF e
  <2>7. SlideTextRow(<<s, h, e, e>>, x) \in Seq(GoodRow) /\ Read(SlideTextRow(<<s, h, e, e>>, x)) = x
    BY ONLY <2>2, <2>4, <2>5, <2>6, SlideRowFact
  <2>8. ShapeRows(s, h) = SlideTextRow(<<s, h, e, e>>, x)
    BY <1>9 DEF ShapeRows, x, e
  <2> QED BY <1>9, <2>7, <2>8 DEF x
<1>10. CASE file.depth \notin {"span", "line", "block"}
  <2>1. ShapeRows(s, h) = <<>>
    BY <1>10 DEF ShapeRows
  <2> QED BY <1>5, <1>10, <2>1
<1> QED BY <1>6, <1>7, <1>8, <1>9, <1>10

-----------------------------------------------------------------------------
(* Paragraphs of documents.                                                *)

\* Reading one thing for each member is to map the list.
LEMMA EachMapped ==
  ASSUME NEW T, NEW U, NEW s \in Seq(T), NEW f, NEW g, Names(f, g, T, U)
  PROVE  Each(f, s) = [i \in 1..Len(s) |-> g[s[i]]] /\ Each(f, s) \in Seq(U) /\ Len(Each(f, s)) = Len(s)
<1> USE DEF Names
<1> DEFINE m == [i \in 1..Len(s) |-> g[s[i]]]
           n == Len(s)
<1>1. n \in Nat /\ \A i \in 1..n : s[i] \in T
  BY LenProperties, ElementOfSeq
<1>2. m \in Seq(U) /\ Len(m) = n
  <2>1. \A i \in 1..n : m[i] \in U
    BY <1>1
  <2>2. m = [i \in 1..n |-> m[i]]
    OBVIOUS
  <2> HIDE DEF m, n
  <2> QED BY ONLY <1>1, <2>1, <2>2, TypedFunction
<1>3. [i \in 1..Len(s) |-> f[s[i]]] = [i \in 1..Len(m) |-> <<m[i]>>]
  <2>1. \A i \in 1..n : f[s[i]] = <<m[i]>>
    BY <1>1
  <2> HIDE DEF m
  <2> QED BY <1>2, <2>1
<1>4. FlattenSeq([i \in 1..Len(m) |-> <<m[i]>>]) = m
  <2> HIDE DEF m
  <2> QED BY <1>2, FlattenSingles
<1>5. Each(f, s) = m
  BY <1>3, <1>4 DEF Each
<1> QED BY <1>2, <1>5

\* Reading what was read.
LEMMA EachCompose ==
  ASSUME NEW T, NEW U, NEW W, NEW f, NEW g, Reads(f, T, U), Reads(g, U, W),
         NEW s \in Seq(T), NEW h, Composes(h, g, f, T)
  PROVE  Each(g, Each(f, s)) = Each(h, s)
<1> USE DEF Reads, Composes
<1> DEFINE n == Len(s)
           V == [i \in 1..n |-> f[s[i]]]
           SU == Seq(U)
<1>1. n \in Nat /\ \A i \in 1..n : s[i] \in T
  BY LenProperties, ElementOfSeq
<1>2. V \in Seq(Seq(U)) /\ Len(V) = n
  <2>1. \A i \in 1..n : V[i] \in SU
    BY <1>1
  <2>2. V = [i \in 1..n |-> V[i]]
    OBVIOUS
  <2> HIDE DEF V, n, SU
  <2>3. V \in Seq(SU) /\ Len(V) = n
    BY ONLY <1>1, <2>1, <2>2, TypedFunction
  <2> QED BY <2>3 DEF SU
<1>3. [i \in 1..Len(V) |-> Each(g, V[i])] = [i \in 1..n |-> h[s[i]]]
  <2>1. \A i \in 1..n : Each(g, V[i]) = h[s[i]]
    BY <1>1
  <2> HIDE DEF V
  <2> QED BY <1>2, <2>1
<1> HIDE DEF V
<1>4. Each(g, FlattenSeq(V)) = FlattenSeq([i \in 1..Len(V) |-> Each(g, V[i])])
  <2> DEFINE X == [i \in 1..Len(V) |-> Each(g, V[i])]
             SW == Seq(W)
  <2>1. Reads(g, U, W)
    OBVIOUS
  <2>2. \A x \in Seq(U) : Each(g, x) \in Seq(W)
    <3> HIDE DEF Reads
    <3> QED BY <2>1, EachJoin
  <2>3. ASSUME NEW i \in 1..n PROVE X[i] = Each(g, V[i]) /\ X[i] \in SW
    <3>1. V[i] \in Seq(U)
      BY <1>1 DEF V
    <3>2. X[i] = Each(g, V[i])
      BY <1>2
    <3> QED BY <2>2, <3>1, <3>2
  <2>4. n \in Nat /\ X = [i \in 1..n |-> X[i]]
    BY <1>1, <1>2
  <2> HIDE DEF X, SW, n
  <2>5. X \in Seq(SW) /\ Len(X) = n
    BY ONLY <2>3, <2>4, TypedFunction
  <2>6. X \in Seq(Seq(W)) /\ Parts(X, g, V)
    BY <1>2, <2>3, <2>5 DEF SW, Parts
  <2>7. Each(g, FlattenSeq(V)) = FlattenSeq(X)
    <3> HIDE DEF Reads
    <3> QED BY ONLY <1>2, <2>1, <2>6, EachFlatten
  <2> QED BY <2>7 DEF X
<1> QED BY <1>3, <1>4 DEF Each, V

\* The items of a paragraph that are read, and the texts they are.
ItemsRead(items) == [i \in 1..Len(items) |-> IF items[i].kind = "other" THEN <<>> ELSE <<i>>]
Readable(c, items) ==
  [i \in 1..Len(items) |-> IF items[i].kind # "other" /\ HasText(items[i]) THEN <<<<c, i>>>> ELSE <<>>]
Numbers(items) == 1..Len(items)
Styles == STRING \cup {"none"}
Styled(items) == Numbers(items) \X Styles
Accumulated(items) == [texts : Seq(Styled(items)), group : Seq(Numbers(items)), previous : Styles, style : Styles]
First(items) == [t \in Styled(items) |-> <<t[1]>>]
Added(items, acc) == Each(First(items), acc.texts) \o acc.group
Group(g, style) == Mapped(g, LAMBDA j : <<j, style>>)

LEMMA FirstTyped ==
  ASSUME NEW items
  PROVE  \A t \in Styled(items) : First(items)[t] = <<t[1]>> /\ t[1] \in Numbers(items) /\ First(items)[t] \in Seq(Numbers(items))
BY DEF First, Styled

\* A group gets its style, and is the same items.
LEMMA GroupFact ==
  ASSUME NEW items, NEW g \in Seq(Numbers(items)), NEW style \in Styles
  PROVE  Group(g, style) \in Seq(Styled(items)) /\ Each(First(items), Group(g, style)) = g
<1> DEFINE n == Len(g)
           x == [i \in 1..n |-> <<g[i], style>>]
           F == First(items)
<1>1. n \in Nat /\ \A i \in 1..n : g[i] \in Numbers(items)
  BY LenProperties, ElementOfSeq
<1>2. Group(g, style) = x
  BY DEF Group, Mapped
<1>3. x \in Seq(Styled(items)) /\ Len(x) = n
  <2>1. \A i \in 1..n : x[i] \in Styled(items)
    BY <1>1 DEF Styled
  <2>2. x = [i \in 1..n |-> x[i]]
    OBVIOUS
  <2> HIDE DEF x, n
  <2> QED BY ONLY <1>1, <2>1, <2>2, TypedFunction
<1>4. \A i \in 1..n : F[x[i]] = <<g[i]>>
  <2> SUFFICES ASSUME NEW i \in 1..n PROVE F[x[i]] = <<g[i]>>
    OBVIOUS
  <2>1. x[i] \in Styled(items) /\ x[i][1] = g[i]
    BY <1>1 DEF Styled
  <2> HIDE DEF x
  <2> QED BY <2>1, FirstTyped
<1>5. [i \in 1..Len(x) |-> F[x[i]]] = [i \in 1..Len(g) |-> <<g[i]>>]
  <2> HIDE DEF x, F
  <2> QED BY <1>3, <1>4
<1>6. FlattenSeq([i \in 1..Len(g) |-> <<g[i]>>]) = g
  BY FlattenSingles
<1> QED BY <1>2, <1>3, <1>5, <1>6 DEF Each

LEMMA JoinThree ==
  ASSUME NEW T, NEW a \in Seq(T), NEW b \in Seq(T), NEW c \in Seq(T)
  PROVE  (a \o b) \o c = a \o (b \o c) /\ a \o b \in Seq(T)
<1>1. (a \o b) \o c = a \o (b \o c)
  BY ConcatAssociative, SMT
<1>2. a \o b \in Seq(T)
  BY ConcatProperties
<1> QED BY <1>1, <1>2

LEMMA AddItemFact ==
  ASSUME NEW items \in Seq(ItemType), NEW i \in 1..Len(items), NEW acc \in Accumulated(items)
  PROVE  /\ AddItem(acc, i, items[i]) \in Accumulated(items)
         /\ Added(items, AddItem(acc, i, items[i])) = Added(items, acc) \o <<i>>
         /\ Added(items, acc) \in Seq(Numbers(items))
<1> DEFINE item == items[i]
           new == AddItem(acc, i, item)
           changes == HasText(item) /\ acc.previous \notin {"none", item.style}
           I == Numbers(items)
           S == Styled(items)
           F == First(items)
           g == Group(acc.group, acc.previous)
<1>1. item \in ItemType /\ item.style \in Styles
  <2>1. item \in ItemType
    BY ElementOfSeq
  <2> QED BY <2>1 DEF ItemType, Styles
<1>2. acc.texts \in Seq(S) /\ acc.group \in Seq(I) /\ acc.previous \in Styles /\ i \in I
  BY DEF Accumulated, Numbers
<1>3. Reads(F, S, I)
  BY FirstTyped DEF Reads
<1>4. Each(F, acc.texts) \in Seq(I)
  <2> HIDE DEF F, S, I
  <2> QED BY <1>2, <1>3, EachJoin
<1>5. Added(items, acc) \in Seq(I)
  BY <1>2, <1>4, ConcatProperties DEF Added
<1>6. g \in Seq(S) /\ Each(F, g) = acc.group
  BY <1>2, GroupFact
<1>7. Each(F, acc.texts \o g) = Each(F, acc.texts) \o Each(F, g) /\ Each(F, acc.texts) \in Seq(I)
  <2> HIDE DEF F, S, I, g
  <2> QED BY <1>2, <1>3, <1>6, EachJoin
<1>8. CASE changes
  <2>1. new.texts = acc.texts \o g /\ new.group = Append(<<>>, i)
    BY <1>8 DEF AddItem, Group
  <2>2. new = [texts |-> acc.texts \o g, group |-> <<i>>, previous |-> item.style, style |-> item.style]
    <3>1. new = [texts |-> acc.texts \o g, group |-> Append(<<>>, i), previous |-> item.style, style |-> item.style]
      BY <1>8 DEF AddItem, Group
    <3>2. Append(<<>>, i) = <<i>>
      OBVIOUS
    <3> QED BY <3>1, <3>2
  <2>3. acc.texts \o g \in Seq(S) /\ <<i>> \in Seq(I)
    <3> HIDE DEF g, S, I
    <3> QED BY <1>2, <1>6, ConcatProperties
  <2>4. new \in Accumulated(items)
    BY <1>1, <2>2, <2>3 DEF Accumulated
  <2>5. Added(items, new) = Each(F, acc.texts \o g) \o <<i>>
    BY <2>2 DEF Added
  <2>6. Added(items, new) = Added(items, acc) \o <<i>>
    BY <1>6, <1>7, <2>5 DEF Added
  <2> QED BY <1>5, <2>4, <2>6
<1>9. CASE ~changes
  <2> DEFINE p == IF HasText(item) THEN item.style ELSE acc.previous
             a == Each(F, acc.texts)
  <2>1. new = [texts |-> acc.texts, group |-> Append(acc.group, i), previous |-> p, style |-> item.style]
    BY <1>9 DEF AddItem
  <2>2. Append(acc.group, i) \in Seq(I) /\ Append(acc.group, i) = acc.group \o <<i>> /\ <<i>> \in Seq(I)
    BY <1>2, AppendIsConcat, AppendProperties
  <2>3. p \in Styles
    BY <1>1, <1>2
  <2> HIDE DEF p
  <2>4. new \in Accumulated(items)
    BY <1>1, <1>2, <2>1, <2>2, <2>3 DEF Accumulated
  <2> HIDE DEF new
  <2>5. Added(items, new) = a \o (acc.group \o <<i>>)
    BY <2>1, <2>2 DEF Added
  <2>6. a \o (acc.group \o <<i>>) = (a \o acc.group) \o <<i>>
    <3>1. a \in Seq(I)
      BY <1>4
    <3> DEFINE b == acc.group
               c == <<i>>
    <3>2. b \in Seq(I) /\ c \in Seq(I)
      BY <1>2, <2>2
    <3> HIDE DEF a, b, c, I
    <3>3. (a \o b) \o c = a \o (b \o c) /\ a \o b \in Seq(I)
      BY ONLY <3>1, <3>2, JoinThree
    <3> QED BY <3>3 DEF b, c
  <2>7. Added(items, new) = Added(items, acc) \o <<i>>
    BY <2>5, <2>6 DEF Added
  <2> QED BY <1>5, <2>4, <2>7 DEF new
<1> QED BY <1>8, <1>9

NoItems == [texts |-> <<>>, group |-> <<>>, previous |-> "none", style |-> "none"]
ReadOn(items, read, i) ==
  IF i = 0 THEN NoItems
  ELSE IF items[i].kind = "other" THEN read[i - 1] ELSE AddItem(read[i - 1], i, items[i])

LEMMA NoItemsTyped == ASSUME NEW items PROVE NoItems \in Accumulated(items)
<1> DEFINE x == <<>>
<1>1. x \in Seq(Styled(items)) /\ x \in Seq(Numbers(items))
  BY EmptySeq
<1>0. "none" \in Styles
  BY DEF Styles
<1>2. NoItems = [texts |-> x, group |-> x, previous |-> "none", style |-> "none"]
  BY DEF NoItems
<1> HIDE DEF x
<1> QED BY <1>0, <1>1, <1>2 DEF Accumulated

LEMMA KeptTyped ==
  ASSUME NEW items \in Seq(ItemType)
  PROVE  /\ Len(items) \in Nat /\ \A i \in 1..Len(items) : ItemsRead(items)[i] \in Seq(Numbers(items))
         /\ ItemsRead(items) = [i \in 1..Len(items) |-> ItemsRead(items)[i]]
<1>1. <<>> \in Seq(Numbers(items))
  BY EmptySeq
<1>2. \A i \in 1..Len(items) : <<i>> \in Seq(Numbers(items))
  BY DEF Numbers
<1> QED BY <1>1, <1>2, LenProperties DEF ItemsRead

LEMMA ReadOnFact ==
  ASSUME NEW items \in Seq(ItemType), NEW read, read = [i \in 0..Len(items) |-> ReadOn(items, read, i)]
  PROVE  \A m \in 0..Len(items) : read[m] \in Accumulated(items) /\ Added(items, read[m]) = UpTo(ItemsRead(items), m)
<1> DEFINE n == Len(items)
           K == ItemsRead(items)
           I == Numbers(items)
           Fine(m) == read[m] \in Accumulated(items) /\ Added(items, read[m]) = UpTo(K, m)
           S == {m \in Nat : m <= n => Fine(m)}
<1>1. n \in Nat
  BY LenProperties
<1>2. /\ UpTo(K, 0) = <<>> /\ K \in Seq(Seq(I))
      /\ \A m \in 0..n : UpTo(K, m) \in Seq(I)
      /\ \A m \in 0..n : m < n => UpTo(K, m + 1) = UpTo(K, m) \o K[m + 1]
  <2> HIDE DEF K, I
  <2>1. K = [i \in 1..n |-> K[i]] /\ \A i \in 1..n : K[i] \in Seq(I)
    BY KeptTyped DEF K, I
  <2> HIDE DEF n
  <2>2. Grows(I, K, n)
    BY ONLY <1>1, <2>1, UpToFact
  <2> QED BY <2>2 DEF Grows
<1>3. Fine(0)
  <2>1. read[0] = NoItems
    BY <1>1 DEF ReadOn
  <2>2. NoItems \in Accumulated(items)
    BY NoItemsTyped
  <2>3. Each(First(items), <<>>) = <<>>
    <3>1. [i \in 1..Len(<<>>) |-> First(items)[<<>>[i]]] = <<>>
      BY EmptySeq
    <3> QED BY <3>1, FlattenEmpty DEF Each
  <2>4. Added(items, NoItems) = <<>> \o <<>>
    BY <2>3 DEF Added, NoItems
  <2>5. <<>> \o <<>> = <<>>
    OBVIOUS
  <2> QED BY <1>2, <2>1, <2>2, <2>4, <2>5
<1>4. ASSUME NEW m \in Nat, m \in S PROVE m + 1 \in S
  <2> SUFFICES ASSUME m + 1 <= n PROVE Fine(m + 1)
    OBVIOUS
  <2>1. m \in 0..n /\ m < n /\ m <= n /\ m + 1 \in 1..n /\ m + 1 \in 0..n /\ m + 1 # 0 /\ (m + 1) - 1 = m
    BY <1>1
  <2>2. Fine(m)
    BY <1>4, <2>1
  <2>3. UpTo(K, m + 1) = UpTo(K, m) \o K[m + 1]
    BY <1>2, <2>1
  <2>4. read[m + 1] = IF items[m + 1].kind = "other" THEN read[m] ELSE AddItem(read[m], m + 1, items[m + 1])
    BY <2>1 DEF ReadOn
  <2>5. CASE items[m + 1].kind = "other"
    <3>1. read[m + 1] = read[m] /\ K[m + 1] = <<>>
      BY <2>1, <2>4, <2>5 DEF ItemsRead
    <3>2. UpTo(K, m) \in Seq(I)
      BY <1>2, <2>1
    <3>3. UpTo(K, m) \o <<>> = UpTo(K, m)
      <4> HIDE DEF K, I
      <4> QED BY <3>2, ConcatEmptySeq
    <3> QED BY <2>2, <2>3, <3>1, <3>3
  <2>6. CASE items[m + 1].kind # "other"
    <3>1. K[m + 1] = <<m + 1>>
      BY <2>1, <2>6 DEF ItemsRead
    <3>2. read[m + 1] = AddItem(read[m], m + 1, items[m + 1])
      BY <2>4, <2>6
    <3> HIDE DEF K
    <3>3. read[m] \in Accumulated(items) /\ Added(items, read[m]) = UpTo(K, m)
      BY <2>2
    <3> DEFINE a == read[m]
               i == m + 1
    <3>4. a \in Accumulated(items) /\ i \in 1..Len(items)
      BY <2>1, <3>3
    <3> HIDE DEF a, i
    <3>5. /\ AddItem(a, i, items[i]) \in Accumulated(items)
          /\ Added(items, AddItem(a, i, items[i])) = Added(items, a) \o <<i>>
      BY <3>4, AddItemFact
    <3> QED BY <2>3, <3>1, <3>2, <3>3, <3>5 DEF a, i
  <2> QED BY <2>5, <2>6
<1>5. 0 \in S
  BY <1>3
<1> HIDE DEF S, Fine
<1>6. \A m \in Nat : m \in S
  BY <1>4, <1>5, SetInduction
<1>7. ASSUME NEW m \in 0..Len(items) PROVE Fine(m)
  <2>1. m \in Nat /\ m <= n
    BY <1>1
  <2> QED BY <1>6, <2>1 DEF S
<1> QED BY <1>7 DEF Fine

LEMMA ReadOnExists ==
  ASSUME NEW items \in Seq(ItemType)
  PROVE  \E read : read = [i \in 0..Len(items) |-> ReadOn(items, read, i)]
<1> DEFINE n == Len(items)
           A == Accumulated(items)
           rule == [i \in 1..n |-> [acc \in A |-> IF items[i].kind = "other" THEN acc ELSE AddItem(acc, i, items[i])]]
<1>1. n \in Nat
  BY LenProperties
<1>2. NoItems \in A
  BY NoItemsTyped
<1>3. \A i \in 1..n, acc \in A : AddItem(acc, i, items[i]) \in A
  BY AddItemFact
<1>4. Steps(rule, A, n)
  <2> HIDE DEF A
  <2> QED BY <1>3 DEF Steps
<1>5. \A i \in 1..n, acc \in A : rule[i][acc] = IF items[i].kind = "other" THEN acc ELSE AddItem(acc, i, items[i])
  OBVIOUS
<1> HIDE DEF A, rule
<1>6. PICK f : Solves(f, NoItems, rule, A, n)
  BY <1>1, <1>2, <1>4, Recursion
<1>7. f \in [0..n -> A] /\ f[0] = NoItems /\ \A k \in 1..n : f[k] = rule[k][f[k - 1]]
  BY <1>6 DEF Solves
<1>8. \A i \in 0..n : f[i] = ReadOn(items, f, i)
  <2> SUFFICES ASSUME NEW i \in 0..n PROVE f[i] = ReadOn(items, f, i)
    OBVIOUS
  <2>1. CASE i = 0
    BY <1>7, <2>1 DEF ReadOn
  <2>2. CASE i # 0
    <3>1. i \in 1..n /\ i - 1 \in 0..n
      BY <1>1, <2>2
    <3>2. f[i - 1] \in A /\ f[i] = rule[i][f[i - 1]]
      BY <1>7, <3>1
    <3> QED BY <1>5, <2>2, <3>1, <3>2 DEF ReadOn
  <2> QED BY <2>1, <2>2
<1>9. f = [i \in 0..n |-> f[i]]
  BY <1>7
<1>10. f = [i \in 0..n |-> ReadOn(items, f, i)]
  BY <1>8, <1>9
<1> QED BY <1>10

\* The numbers of a text's child and item.
PairOf == [t \in AnyText |-> <<<<t[1], t[2]>>>>]
Pair == Nat \X Nat
Keep(items) == [t \in Styled(items) |-> IF HasText(items[t[1]]) THEN <<t>> ELSE <<>>]

LEMMA FormatIs ==
  ASSUME NEW items \in Seq(ItemType)
  PROVE  \E u \in Seq(Styled(items)) :
           /\ format_paragraph(items) = Each(Keep(items), u)
           /\ Each(First(items), u) = FlattenSeq(ItemsRead(items))
<1> DEFINE n == Len(items)
           I == Numbers(items)
           S == Styled(items)
           F == First(items)
           read == CHOOSE r : r = [i \in 0..n |-> ReadOn(items, r, i)]
           all == read[n]
           g == Group(all.group, all.style)
           u == all.texts \o g
<1>1. n \in Nat /\ n \in 0..n
  BY LenProperties
<1>2. read = [i \in 0..n |-> ReadOn(items, read, i)]
  BY ReadOnExists
<1>3. format_paragraph(items) = Select(u, LAMBDA t : HasText(items[t[1]]))
  BY DEF format_paragraph, ReadOn, NoItems, Group
<1> HIDE DEF read
<1>4. all \in Accumulated(items) /\ Added(items, all) = UpTo(ItemsRead(items), n)
  BY <1>1, <1>2, ReadOnFact
<1>5. UpTo(ItemsRead(items), n) = FlattenSeq(ItemsRead(items))
  <2> DEFINE K == ItemsRead(items)
  <2>1. K = [i \in 1..n |-> K[i]] /\ \A i \in 1..n : K[i] \in Seq(I)
    BY KeptTyped
  <2> HIDE DEF K, n, I
  <2>2. Grows(I, K, n)
    BY ONLY <1>1, <2>1, UpToFact
  <2> QED BY <2>2 DEF Grows, K
<1> HIDE DEF all
<1>6. all.texts \in Seq(S) /\ all.group \in Seq(I) /\ all.style \in Styles
  BY <1>4 DEF Accumulated
<1>7. g \in Seq(S) /\ Each(F, g) = all.group
  BY <1>6, GroupFact
<1>8. u \in Seq(S)
  <2> HIDE DEF g, S
  <2> QED BY <1>6, <1>7, ConcatProperties
<1>9. Reads(F, S, I)
  BY FirstTyped DEF Reads
<1>10. Each(F, u) = Each(F, all.texts) \o Each(F, g) /\ Each(F, all.texts) \in Seq(I)
  <2> HIDE DEF F, S, I, g
  <2> QED BY <1>6, <1>7, <1>9, EachJoin
<1>11. Each(F, u) = FlattenSeq(ItemsRead(items))
  BY <1>4, <1>5, <1>7, <1>10 DEF Added
<1> HIDE DEF u
<1>12. \A i \in 1..Len(u) : u[i] \in S
  <2> HIDE DEF S
  <2> QED BY <1>8, ElementOfSeq
<1>13. [i \in 1..Len(u) |-> IF HasText(items[u[i][1]]) THEN <<u[i]>> ELSE <<>>] = [i \in 1..Len(u) |-> Keep(items)[u[i]]]
  BY <1>12 DEF Keep
<1>14. Select(u, LAMBDA t : HasText(items[t[1]])) = Each(Keep(items), u)
  BY <1>13 DEF Select, Each
<1> QED BY <1>3, <1>8, <1>11, <1>14

\* The texts of a paragraph are its items that are read and have text, in order.
LEMMA ParagraphTextsFact ==
  ASSUME NEW items \in Seq(ItemType), NEW c \in Nat
  PROVE  /\ ParagraphTexts(c, items) \in Seq({c} \X Nat \X Styles)
         /\ Each(PairOf, ParagraphTexts(c, items)) = FlattenSeq(Readable(c, items))
         /\ Readable(c, items) \in Seq(Seq(Pair)) /\ Len(Readable(c, items)) = Len(items) /\ Len(items) \in Nat
<1> DEFINE n == Len(items)
           I == Numbers(items)
           S == Styled(items)
           F == First(items)
           Q == {c} \X Nat \X Styles
           place == [t \in S |-> <<c, t[1], t[2]>>]
           L == [t \in S |-> <<place[t]>>]
           P == [t \in Q |-> <<<<t[1], t[2]>>>>]
           K == [i \in I |-> IF HasText(items[i]) THEN <<<<c, i>>>> ELSE <<>>]
           H == [t \in S |-> IF HasText(items[t[1]]) THEN <<<<c, t[1]>>>> ELSE <<>>]
           M == [t \in S |-> IF HasText(items[t[1]]) THEN <<place[t]>> ELSE <<>>]
           sel == format_paragraph(items)
           x == ParagraphTexts(c, items)
<1>1. n \in Nat /\ I \subseteq Nat /\ I = 1..n
  BY LenProperties DEF Numbers
<1>2. PICK u \in Seq(S) : sel = Each(Keep(items), u) /\ Each(F, u) = FlattenSeq(ItemsRead(items))
  BY FormatIs
<1>3. \A t \in S : /\ t[1] \in I /\ t[2] \in Styles /\ place[t] = <<c, t[1], t[2]>> /\ place[t] \in Q /\ L[t] = <<place[t]>>
                   /\ P[place[t]] = <<<<c, t[1]>>>> /\ place[t][1] = c /\ place[t][2] = t[1]
  BY <1>1 DEF Styled
<1>4. <<>> \in Seq(S) /\ <<>> \in Seq(Pair) /\ <<>> \in Seq(Q)
  BY EmptySeq
<1>5. \A t \in S : Keep(items)[t] \in Seq(S) /\ Keep(items)[t] = IF HasText(items[t[1]]) THEN <<t>> ELSE <<>>
  <2> SUFFICES ASSUME NEW t \in S
               PROVE  Keep(items)[t] \in Seq(S) /\ Keep(items)[t] = IF HasText(items[t[1]]) THEN <<t>> ELSE <<>>
    OBVIOUS
  <2>1. Keep(items)[t] = IF HasText(items[t[1]]) THEN <<t>> ELSE <<>>
    BY DEF Keep
  <2>2. <<t>> \in Seq(S)
    OBVIOUS
  <2> QED BY <1>4, <2>1, <2>2
<1>6. \A i \in I : c \in Nat /\ <<c, i>> \in Pair /\ <<<<c, i>>>> \in Seq(Pair)
  <2> SUFFICES ASSUME NEW i \in I PROVE <<c, i>> \in Pair
    OBVIOUS
  <2> QED BY <1>1 DEF Pair
<1>7. \A t \in Q : t[1] = c /\ t[2] \in Nat /\ P[t] = <<<<c, t[2]>>>> /\ P[t] \in Seq(Pair)
  <2> SUFFICES ASSUME NEW t \in Q PROVE t[1] = c /\ t[2] \in Nat /\ <<c, t[2]>> \in Pair
    OBVIOUS
  <2> QED BY DEF Pair
<1>8. sel \in Seq(S)
  <2>1. Reads(Keep(items), S, S)
    BY <1>5 DEF Reads
  <2> HIDE DEF S, sel
  <2> QED BY <1>2, <2>1, EachJoin
<1>9. x = [i \in 1..Len(sel) |-> <<c, sel[i][1], sel[i][2]>>]
  BY DEF ParagraphTexts, Mapped
<1> HIDE DEF sel, x
<1>10. x = Each(L, sel) /\ x \in Seq(Q)
  <2>1. \A i \in 1..Len(sel) : sel[i] \in S
    <3> HIDE DEF S
    <3> QED BY <1>8, ElementOfSeq
  <2>2. x = [i \in 1..Len(sel) |-> place[sel[i]]]
    BY <1>3, <1>9, <2>1
  <2>3. Names(L, place, S, Q)
    BY <1>3 DEF Names
  <2> HIDE DEF S, L, Q, place
  <2>4. Each(L, sel) = [i \in 1..Len(sel) |-> place[sel[i]]] /\ Each(L, sel) \in Seq(Q)
    BY <1>8, <2>3, EachMapped
  <2> QED BY <2>2, <2>4
<1>11. x = Each(M, u)
  <2>1. Reads(L, S, Q)
    <3>1. \A t \in S : L[t] = <<place[t]>> /\ place[t] \in Q
      BY <1>3
    <3> HIDE DEF L, S, Q, place
    <3>2. \A t \in S : L[t] \in Seq(Q)
      <4> SUFFICES ASSUME NEW t \in S PROVE L[t] \in Seq(Q)
        OBVIOUS
      <4> DEFINE y == place[t]
      <4>1. L[t] = <<y>> /\ y \in Q
        BY <3>1
      <4> HIDE DEF y
      <4> QED BY ONLY <4>1
    <3> QED BY <3>2 DEF Reads
  <2>2. Composes(M, L, Keep(items), S)
    <3> SUFFICES ASSUME NEW t \in S PROVE M[t] = Each(L, Keep(items)[t])
      BY DEF Composes
    <3>1. M[t] = IF HasText(items[t[1]]) THEN L[t] ELSE <<>>
      BY <1>3
    <3> HIDE DEF M, L, S, Q
    <3>2. Each(L, <<>>) = <<>> /\ Each(L, <<t>>) = L[t]
      BY <2>1, EachFew
    <3> QED BY <1>5, <3>1, <3>2
  <2>0. Reads(Keep(items), S, S)
    BY <1>5 DEF Reads
  <2> HIDE DEF M, L, S, Q
  <2>3. Each(L, Each(Keep(items), u)) = Each(M, u)
    BY ONLY <1>2, <2>0, <2>1, <2>2, EachCompose
  <2> QED BY <1>2, <1>10, <2>3
<1>12. Each(P, x) = Each(H, u)
  <2>1. Reads(M, S, Q)
    <3> SUFFICES ASSUME NEW t \in S PROVE M[t] \in Seq(Q)
      BY DEF Reads
    <3>1. <<place[t]>> \in Seq(Q)
      <4>1. place[t] \in Q
        BY <1>3
      <4> HIDE DEF place, Q
      <4> QED BY <4>1
    <3>2. M[t] = IF HasText(items[t[1]]) THEN <<place[t]>> ELSE <<>>
      OBVIOUS
    <3> HIDE DEF M, Q, place
    <3> QED BY <1>4, <3>1, <3>2
  <2>2. Composes(H, P, M, S)
    <3> SUFFICES ASSUME NEW t \in S PROVE H[t] = Each(P, M[t])
      BY DEF Composes
    <3> DEFINE q == place[t]
    <3>1. q \in Q /\ P[q] = <<<<c, t[1]>>>>
      BY <1>3
    <3>2. H[t] = (IF HasText(items[t[1]]) THEN P[q] ELSE <<>>) /\ M[t] = IF HasText(items[t[1]]) THEN <<q>> ELSE <<>>
      BY <3>1
    <3>3. Reads(P, Q, Pair)
      BY <1>7 DEF Reads
    <3> HIDE DEF M, H, P, S, Q, q
    <3>4. Each(P, <<>>) = <<>> /\ Each(P, <<q>>) = P[q]
      BY ONLY <3>1, <3>3, EachFew
    <3> QED BY <3>2, <3>4
  <2>3. Reads(P, Q, Pair)
    BY <1>7 DEF Reads
  <2> HIDE DEF M, H, P, S, Q
  <2>4. Each(P, Each(M, u)) = Each(H, u)
    BY ONLY <1>2, <2>1, <2>2, <2>3, EachCompose
  <2> QED BY <1>11, <2>4
<1>13. Each(K, Each(F, u)) = Each(H, u)
  <2>1. \A t \in S : F[t] \in Seq(I) /\ F[t] = <<t[1]>>
    BY FirstTyped
  <2>0. Reads(F, S, I)
    BY <2>1 DEF Reads
  <2>2. Reads(K, I, Pair)
    <3> SUFFICES ASSUME NEW i \in I PROVE K[i] \in Seq(Pair)
      BY DEF Reads
    <3>1. K[i] = IF HasText(items[i]) THEN <<<<c, i>>>> ELSE <<>>
      OBVIOUS
    <3> HIDE DEF K
    <3> QED BY <1>4, <1>6, <3>1
  <2>3. Composes(H, K, F, S)
    <3> SUFFICES ASSUME NEW t \in S PROVE H[t] = Each(K, F[t])
      BY DEF Composes
    <3> DEFINE i == t[1]
    <3>1. i \in I /\ F[t] = <<i>> /\ H[t] = K[i]
      BY <1>3, <2>1
    <3> HIDE DEF K, H, F, S, I, i
    <3>2. Each(K, <<i>>) = K[i]
      BY ONLY <2>2, <3>1, EachFew
    <3> QED BY <3>1, <3>2
  <2> HIDE DEF K, H, F, S, I
  <2> QED BY ONLY <1>2, <2>0, <2>2, <2>3, EachCompose
<1>14. Each(K, FlattenSeq(ItemsRead(items))) = FlattenSeq(Readable(c, items)) /\ Readable(c, items) \in Seq(Seq(Pair)) /\ Len(Readable(c, items)) = n
  <2> DEFINE V == ItemsRead(items)
             W == Readable(c, items)
             SP == Seq(Pair)
             SI == Seq(I)
  <2>1. Reads(K, I, Pair)
    <3> SUFFICES ASSUME NEW i \in I PROVE K[i] \in Seq(Pair)
      BY DEF Reads
    <3>1. K[i] = IF HasText(items[i]) THEN <<<<c, i>>>> ELSE <<>>
      OBVIOUS
    <3> HIDE DEF K
    <3> QED BY <1>4, <1>6, <3>1
  <2>2. V \in Seq(SI) /\ Len(V) = n
    <3>1. V = [i \in 1..n |-> V[i]] /\ \A i \in 1..n : V[i] \in SI
      BY KeptTyped
    <3> HIDE DEF V, SI, n
    <3> QED BY ONLY <1>1, <3>1, TypedFunction
  <2>3. ASSUME NEW i \in 1..n PROVE W[i] = Each(K, V[i]) /\ W[i] \in SP
    <3>1. i \in I /\ W[i] = IF items[i].kind = "other" THEN <<>> ELSE K[i]
      BY <1>1 DEF Readable
    <3>2. V[i] = IF items[i].kind = "other" THEN <<>> ELSE <<i>>
      BY DEF ItemsRead
    <3>3. Each(K, <<>>) = <<>> /\ Each(K, <<i>>) = K[i]
      <4> HIDE DEF K, I
      <4> QED BY ONLY <2>1, <3>1, EachFew
    <3> HIDE DEF K, V, W
    <3> QED BY <1>4, <2>1, <3>1, <3>2, <3>3 DEF Reads
  <2>4. W = [i \in 1..n |-> W[i]]
    BY DEF Readable
  <2>5. W \in Seq(SP) /\ Len(W) = n
    <3> HIDE DEF W, SP, n
    <3> QED BY ONLY <1>1, <2>3, <2>4, TypedFunction
  <2>6. V \in Seq(Seq(I)) /\ W \in Seq(Seq(Pair)) /\ Parts(W, K, V)
    <3>1. \A i \in 1..n : W[i] = Each(K, V[i])
      BY <2>3
    <3> HIDE DEF K, V, W
    <3> QED BY <2>2, <2>5, <3>1 DEF Parts
  <2> HIDE DEF K, V, W, I
  <2>7. Each(K, FlattenSeq(V)) = FlattenSeq(W)
    BY ONLY <2>1, <2>6, EachFlatten
  <2> QED BY <2>5, <2>7 DEF V, W
<1>15. Each(PairOf, x) = Each(P, x)
  <2>1. \A i \in 1..Len(x) : x[i] \in Q
    <3> HIDE DEF Q
    <3> QED BY <1>10, ElementOfSeq
  <2>2. \A t \in Q : t \in AnyText
    BY DEF AnyText, ItemText, Styles
  <2>3. \A i \in 1..Len(x) : PairOf[x[i]] = P[x[i]]
    BY <2>1, <2>2 DEF PairOf
  <2>4. [i \in 1..Len(x) |-> PairOf[x[i]]] = [i \in 1..Len(x) |-> P[x[i]]]
    BY <2>3
  <2> QED BY <2>4 DEF Each
<1> QED BY <1>1, <1>2, <1>10, <1>12, <1>13, <1>14, <1>15 DEF x

-----------------------------------------------------------------------------
(* Pictures: where they are, and the rows made of them.                    *)

PictureAt == (Nat \X Nat) \cup (Nat \X Nat \X Nat)
Pending == [at : PictureAt, picture : PictureType]
Element == [of : Nat, element : Nat]

LEMMA SelectTyped ==
  ASSUME NEW T, NEW s \in Seq(T), NEW K, NEW r, r = FlattenSeq([i \in 1..Len(s) |-> IF s[i] \in K THEN <<s[i]>> ELSE <<>>])
  PROVE  r \in Seq(T)
<1> DEFINE n == Len(s)
           f == [i \in 1..n |-> IF s[i] \in K THEN <<s[i]>> ELSE <<>>]
           V == Seq(T)
<1>1. n \in Nat /\ \A i \in 1..n : s[i] \in T
  BY LenProperties, ElementOfSeq
<1>2. \A i \in 1..n : f[i] \in V
  <2>1. <<>> \in V
    BY EmptySeq
  <2> SUFFICES ASSUME NEW i \in 1..n PROVE f[i] \in V
    OBVIOUS
  <2>2. <<s[i]>> \in V
    BY <1>1
  <2> QED BY <2>1, <2>2
<1>3. f = [i \in 1..n |-> f[i]]
  OBVIOUS
<1>4. r = FlattenSeq(f)
  OBVIOUS
<1> HIDE DEF f, V, n
<1>5. f \in Seq(V)
  BY ONLY <1>1, <1>2, <1>3, TypedFunction
<1> QED BY <1>4, <1>5, FlattenTyped DEF V

\* What is joined from typed parts is typed.
LEMMA FlattenParts ==
  ASSUME NEW T, NEW n \in Nat, NEW f, f = [i \in 1..n |-> f[i]], \A i \in 1..n : f[i] \in Seq(T)
  PROVE  FlattenSeq(f) \in Seq(T)
<1> DEFINE V == Seq(T)
<1>1. \A i \in 1..n : f[i] \in V
  OBVIOUS
<1>2. n \in Nat /\ f = [i \in 1..n |-> f[i]]
  OBVIOUS
<1> HIDE DEF V
<1>3. f \in Seq(V)
  BY ONLY <1>1, <1>2, TypedFunction
<1> QED BY <1>3, FlattenTyped DEF V

LEMMA DetectionTyped ==
  ASSUME NEW pictures \in Seq(PictureType)
  PROVE  extract_page_elements_from_images(pictures) \in Seq(Element)
<1> DEFINE n == Len(pictures)
           m(i) == Len(pictures[i].detected)
           E(i, l, d) == IF pictures[i].detected[d] = <<"table", "chart">>[l] THEN <<[of |-> i, element |-> d]>> ELSE <<>>
           D(i, l) == [d \in 1..m(i) |-> E(i, l, d)]
           L(i) == [l \in 1..2 |-> FlattenSeq(D(i, l))]
           P == [i \in 1..n |-> FlattenSeq(L(i))]
<1>1. n \in Nat /\ \A i \in 1..n : pictures[i] \in PictureType
  BY LenProperties, ElementOfSeq
<1>2. \A i \in 1..n : m(i) \in Nat
  <2> SUFFICES ASSUME NEW i \in 1..n PROVE m(i) \in Nat
    OBVIOUS
  <2>1. pictures[i].detected \in Seq({"table", "chart", "other"})
    BY <1>1 DEF PictureType
  <2> QED BY <2>1, LenProperties
<1>3. ASSUME NEW i \in 1..n, NEW l \in 1..2, NEW d \in 1..m(i) PROVE E(i, l, d) \in Seq(Element)
  <2>1. [of |-> i, element |-> d] \in Element
    BY <1>1, <1>2 DEF Element
  <2> DEFINE e == [of |-> i, element |-> d]
  <2> HIDE DEF e
  <2>2. <<e>> \in Seq(Element) /\ <<>> \in Seq(Element)
    BY <2>1, EmptySeq DEF e
  <2> QED BY <2>2 DEF e
<1> HIDE DEF E
<1>4. ASSUME NEW i \in 1..n, NEW l \in 1..2 PROVE FlattenSeq(D(i, l)) \in Seq(Element)
  <2> DEFINE f == D(i, l)
             k == m(i)
  <2>1. k \in Nat /\ f = [d \in 1..k |-> f[d]] /\ \A d \in 1..k : f[d] \in Seq(Element)
    BY <1>2, <1>3
  <2> HIDE DEF f, k
  <2>2. FlattenSeq(f) \in Seq(Element)
    BY ONLY <2>1, FlattenParts
  <2> QED BY <2>2 DEF f
<1> HIDE DEF D
<1>5. ASSUME NEW i \in 1..n PROVE FlattenSeq(L(i)) \in Seq(Element)
  <2> DEFINE f == L(i)
  <2>1. 2 \in Nat /\ f = [l \in 1..2 |-> f[l]] /\ \A l \in 1..2 : f[l] \in Seq(Element)
    BY <1>4
  <2> HIDE DEF f
  <2>2. FlattenSeq(f) \in Seq(Element)
    BY ONLY <2>1, FlattenParts
  <2> QED BY <2>2 DEF f
<1> HIDE DEF L
<1>6. P = [i \in 1..n |-> P[i]] /\ \A i \in 1..n : P[i] \in Seq(Element)
  BY <1>5
<1>7. extract_page_elements_from_images(pictures) = FlattenSeq(P)
  BY DEF extract_page_elements_from_images, L, D, E
<1> HIDE DEF P, n
<1>8. FlattenSeq(P) \in Seq(Element)
  BY ONLY <1>1, <1>6, FlattenParts
<1> QED BY <1>7, <1>8

\* The rows of one picture.
PictureRow(place) == IF file.type = "pptx" THEN SlideImageRow(place) ELSE DocxImageRow(place)
RowOfElement(place, e) == PageElementRow(IF file.type = "pptx" THEN place[1] ELSE 0, Append(place, e))
FoundIn(i, detection) == Select(detection, LAMBDA d : d.of = i)
RowsOf(place, found) ==
  IF found = <<>> THEN PictureRow(place) ELSE FlattenSeq(Mapped(found, LAMBDA d : RowOfElement(place, d.element)))

LEMMA PictureRowsIs ==
  ASSUME NEW places, NEW detection
  PROVE  PictureRows(places, detection) = FlattenSeq([i \in 1..Len(places) |-> RowsOf(places[i], FoundIn(i, detection))])
BY DEF PictureRows, RowsOf, FoundIn, PictureRow, RowOfElement

LEMMA FoundTyped ==
  ASSUME NEW detection \in Seq(Element), NEW i
  PROVE  FoundIn(i, detection) \in Seq(Element)
<1> DEFINE K == {d \in Element : d.of = i}
           f == [k \in 1..Len(detection) |-> IF detection[k] \in K THEN <<detection[k]>> ELSE <<>>]
<1>1. \A k \in 1..Len(detection) : detection[k] \in Element
  BY ElementOfSeq
<1>2. \A k \in 1..Len(detection) : detection[k].of = i <=> detection[k] \in K
  BY <1>1
<1>3. FoundIn(i, detection) = FlattenSeq(f)
  <2>1. [k \in 1..Len(detection) |-> IF detection[k].of = i THEN <<detection[k]>> ELSE <<>>] = f
    BY <1>2
  <2> QED BY <2>1 DEF FoundIn, Select
<1> QED BY <1>3, SelectTyped

LEMMA RowsOfTyped ==
  ASSUME NEW place \in PictureAt, NEW found \in Seq(Element)
  PROVE  RowsOf(place, found) \in Seq(OtherRow)
<1>1. place[1] \in Nat /\ place[2] \in Nat /\ place \in Seq(Int)
  <2>1. CASE place \in Nat \X Nat
    <3>1. PICK a \in Nat, b \in Nat : place = <<a, b>>
      BY <2>1
    <3> QED BY <3>1
  <2>2. CASE place \in Nat \X Nat \X Nat
    <3>1. PICK a \in Nat, b \in Nat, c \in Nat : place = <<a, b, c>>
      BY <2>2
    <3> QED BY <3>1
  <2> QED BY <2>1, <2>2 DEF PictureAt
<1>2. PictureRow(place) \in Seq(OtherRow)
  <2> DEFINE p == <<place[1], place[2], -1, -1>>
             q == <<0, place[1], -1, -1>>
  <2>1. p \in Place /\ q \in Place
    BY <1>1 DEF Place
  <2> HIDE DEF p, q
  <2>2. [kind |-> "image", at |-> p, of |-> place] \in OtherRow /\ [kind |-> "image", at |-> q, of |-> place] \in OtherRow
    BY <1>1, <2>1 DEF OtherRow
  <2>3. SlideImageRow(place) = <<[kind |-> "image", at |-> p, of |-> place]>>
    BY DEF SlideImageRow, Row, p
  <2>4. DocxImageRow(place) = <<[kind |-> "image", at |-> q, of |-> place]>>
    BY DEF DocxImageRow, Row, q
  <2>5. SlideImageRow(place) \in Seq(OtherRow) /\ DocxImageRow(place) \in Seq(OtherRow)
    BY <2>2, <2>3, <2>4
  <2> QED BY <2>5 DEF PictureRow
<1>3. ASSUME NEW e \in Nat PROVE RowOfElement(place, e) \in Seq(OtherRow)
  <2> DEFINE a == IF file.type = "pptx" THEN place[1] ELSE 0
             p == <<a, -1, -1, -1>>
             o == Append(place, e)
  <2>1. p \in Place
    BY <1>1 DEF Place
  <2>2. o \in Seq(Int)
    BY <1>1, AppendProperties
  <2> HIDE DEF p, o
  <2>3. [kind |-> "structured", at |-> p, of |-> o] \in OtherRow
    BY <2>1, <2>2 DEF OtherRow
  <2>4. RowOfElement(place, e) = <<[kind |-> "structured", at |-> p, of |-> o]>>
    BY DEF RowOfElement, PageElementRow, Row, p, o
  <2> QED BY <2>3, <2>4
<1>4. FlattenSeq(Mapped(found, LAMBDA d : RowOfElement(place, d.element))) \in Seq(OtherRow)
  <2> DEFINE n == Len(found)
             f == [i \in 1..n |-> RowOfElement(place, found[i].element)]
  <2>1. n \in Nat /\ \A i \in 1..n : found[i] \in Element
    BY LenProperties, ElementOfSeq
  <2>2. f = [i \in 1..n |-> f[i]] /\ \A i \in 1..n : f[i] \in Seq(OtherRow)
    BY <1>3, <2>1 DEF Element
  <2>3. Mapped(found, LAMBDA d : RowOfElement(place, d.element)) = f
    BY DEF Mapped
  <2> HIDE DEF f, n
  <2>4. FlattenSeq(f) \in Seq(OtherRow)
    BY ONLY <2>1, <2>2, FlattenParts
  <2> QED BY <2>3, <2>4
<1> QED BY <1>2, <1>4 DEF RowsOf

LEMMA PictureRowsTyped ==
  ASSUME NEW places \in Seq(PictureAt), NEW detection \in Seq(Element)
  PROVE  PictureRows(places, detection) \in Seq(OtherRow)
<1> DEFINE n == Len(places)
           f == [i \in 1..n |-> RowsOf(places[i], FoundIn(i, detection))]
<1>1. n \in Nat /\ \A i \in 1..n : places[i] \in PictureAt
  BY LenProperties, ElementOfSeq
<1>2. \A i \in 1..n : RowsOf(places[i], FoundIn(i, detection)) \in Seq(OtherRow)
  <2> SUFFICES ASSUME NEW i \in 1..n PROVE RowsOf(places[i], FoundIn(i, detection)) \in Seq(OtherRow)
    OBVIOUS
  <2>1. FoundIn(i, detection) \in Seq(Element)
    BY FoundTyped
  <2> QED BY <1>1, <2>1, RowsOfTyped
<1>3. f = [i \in 1..n |-> f[i]] /\ \A i \in 1..n : f[i] \in Seq(OtherRow)
  BY <1>2
<1>4. PictureRows(places, detection) = FlattenSeq(f)
  BY PictureRowsIs
<1> HIDE DEF f, n
<1>5. FlattenSeq(f) \in Seq(OtherRow)
  BY ONLY <1>1, <1>3, FlattenParts
<1> QED BY <1>4, <1>5

LEMMA PicturesPendingTyped ==
  ASSUME pending_images \in Seq(Pending)
  PROVE  Arrays \in Seq(PictureType) /\ Contexts \in Seq(PictureAt)
<1> DEFINE K == {p \in Pending : p.picture.loads}
           n == Len(pending_images)
           f == [i \in 1..n |-> IF pending_images[i] \in K THEN <<pending_images[i]>> ELSE <<>>]
           s == FlattenSeq(f)
           a == [i \in 1..Len(s) |-> s[i].picture]
           c == [i \in 1..Len(s) |-> s[i].at]
<1>1. \A i \in 1..n : pending_images[i] \in Pending
  BY ElementOfSeq
<1>2. [i \in 1..n |-> IF pending_images[i].picture.loads THEN <<pending_images[i]>> ELSE <<>>] = f
  BY <1>1
<1>3. Select(pending_images, LAMBDA p : p.picture.loads) = s
  BY <1>2 DEF Select
<1>4. Arrays = a /\ Contexts = c
  BY <1>3 DEF Arrays, Contexts, Mapped
<1>5. s \in Seq(Pending)
  BY SelectTyped
<1> HIDE DEF s
<1>6. Len(s) \in Nat /\ \A i \in 1..Len(s) : s[i] \in Pending
  BY <1>5, LenProperties, ElementOfSeq
<1>7. \A i \in 1..Len(s) : s[i].picture \in PictureType /\ s[i].at \in PictureAt
  BY <1>6 DEF Pending
<1>8. a \in Seq(PictureType)
  BY <1>6, <1>7, TypedFunction
<1>9. c \in Seq(PictureAt)
  BY <1>6, <1>7, TypedFunction
<1> QED BY <1>4, <1>8, <1>9

LEMMA ParagraphPicturesTyped ==
  ASSUME NEW c \in Nat, NEW items \in Seq(ItemType)
  PROVE  ParagraphPictures(c, items) \in Seq(Pending)
<1> DEFINE n == Len(items)
           Seen(i) == [k \in 1..Len(items[i].pictures) |-> [at |-> <<c, i, k>>, picture |-> items[i].pictures[k]]]
           f == [i \in 1..n |-> IF items[i].kind = "run" THEN Seen(i) ELSE <<>>]
<1>1. n \in Nat /\ \A i \in 1..n : items[i] \in ItemType
  BY LenProperties, ElementOfSeq
<1>2. ASSUME NEW i \in 1..n PROVE Seen(i) \in Seq(Pending)
  <2> DEFINE p == items[i].pictures
             m == Len(p)
             o == [k \in 1..m |-> [at |-> <<c, i, k>>, picture |-> p[k]]]
  <2>1. p \in Seq(PictureType)
    BY <1>1 DEF ItemType
  <2> HIDE DEF p
  <2>2. m \in Nat /\ \A k \in 1..m : p[k] \in PictureType
    BY <2>1, LenProperties, ElementOfSeq
  <2>3. ASSUME NEW k \in 1..m PROVE o[k] \in Pending
    <3>1. <<c, i, k>> \in PictureAt
      BY <1>1, <2>2 DEF PictureAt
    <3> QED BY <2>2, <3>1 DEF Pending
  <2>4. o = [k \in 1..m |-> o[k]]
    OBVIOUS
  <2> HIDE DEF o, m
  <2>5. o \in Seq(Pending)
    BY ONLY <2>2, <2>3, <2>4, TypedFunction
  <2> QED BY <2>5 DEF o, m, p
<1> HIDE DEF Seen
<1>3. f = [i \in 1..n |-> f[i]] /\ \A i \in 1..n : f[i] \in Seq(Pending)
  <2>1. <<>> \in Seq(Pending)
    BY EmptySeq
  <2> QED BY <1>2, <2>1
<1>4. ParagraphPictures(c, items) = FlattenSeq(f)
  BY DEF ParagraphPictures, Seen
<1> HIDE DEF f, n
<1>5. FlattenSeq(f) \in Seq(Pending)
  BY ONLY <1>1, <1>3, FlattenParts
<1> QED BY <1>4, <1>5

-----------------------------------------------------------------------------
(* The invariant: what has been read is what comes before the place of the *)
(* loop.                                                                   *)

TextsOfShapes(s) == [h \in 1..Len(SlideShapes(s)) |-> TextsOf(s, h)]
Slides == [s \in 1..Len(file.body) |-> FlattenSeq(TextsOfShapes(s))]
TextsOfChild(c) ==
  IF file.body[c].kind = "table" THEN <<>> ELSE FlattenSeq(Readable(c, file.body[c].items))
Children == [c \in 1..Len(file.body) |-> TextsOfChild(c)]
ReadBefore(s, h) == UpTo(Slides, s - 1) \o (IF s <= Len(file.body) THEN UpTo(TextsOfShapes(s), h - 1) ELSE <<>>)

SlidePlace(s, h) ==
  /\ s \in 1..(Len(file.body) + 1) /\ h \in Nat /\ h >= 1
  /\ s <= Len(file.body) => h <= Len(SlideShapes(s)) + 1
  /\ s > Len(file.body) => h = 1
SlideSoFar(s, h) ==
  /\ Read(extracted_data) \o accumulated_text = ReadBefore(s, h)
  /\ file.depth \in {"span", "line", "block"} => accumulated_text = <<>>
  /\ file.depth = "page" =>
       /\ h = 1 => accumulated_text = <<>>
       /\ \A i \in 1..Len(accumulated_text) : accumulated_text[i][1] = s
SlidesInv ==
  /\ extracted_data \in Seq(GoodRow) /\ pending_images \in Seq(Pending) /\ accumulated_text \in Seq(SlideText)
  /\ progress \in {"read", "images", "done", "failed"}
  /\ part = <<part[1], part[2]>>
  /\ progress = "read" => /\ SlidePlace(part[1], part[2])
                          /\ "text" \in file.asks => SlideSoFar(part[1], part[2])
  /\ progress \in {"images", "done"} /\ "text" \in file.asks => Read(extracted_data) = AllTexts

InTextRows == "text" \in file.asks /\ file.depth \in {"block", "page", "document"}
Pairs(texts) == Each(PairOf, texts)
ChildrenInv ==
  /\ extracted_data \in Seq(GoodRow) /\ pending_images \in Seq(Pending) /\ accumulated_text \in Seq(ItemText)
  /\ progress \in {"read", "images", "done", "failed"}
  /\ part = <<part[1], part[2]>>
  /\ progress = "read" =>
       /\ part[1] \in 1..(Len(file.body) + 1)
       /\ InTextRows => /\ Pairs(Read(extracted_data) \o accumulated_text) = UpTo(Children, part[1] - 1)
                        /\ file.depth = "block" => accumulated_text = <<>>
                        /\ accumulated_text # <<>> => \E c \in DOMAIN file.body : file.body[c].kind = "paragraph"
  /\ progress \in {"images", "done"} /\ InTextRows => Pairs(Read(extracted_data)) = AllTexts

GivesNoTexts == file.type = "docx" /\ file.depth \in {"line", "span"}

OfficeInv ==
  /\ IsFile(file)
  /\ file.type = "pptx" => SlidesInv
  /\ file.type = "docx" => ChildrenInv
  /\ GivesNoTexts => extracted_data \in Seq(OtherRow)

LEMMA SlidesFact ==
  ASSUME IsFile(file), file.type = "pptx"
  PROVE  /\ Len(file.body) \in Nat /\ Grows(SlideText, Slides, Len(file.body)) /\ FlattenSeq(Slides) = AllTexts
         /\ \A s \in 1..Len(file.body) :
              /\ Len(SlideShapes(s)) \in Nat /\ Grows(SlideText, TextsOfShapes(s), Len(SlideShapes(s)))
              /\ Slides[s] = FlattenSeq(TextsOfShapes(s))
              /\ \A h \in 1..Len(SlideShapes(s)) : TextsOfShapes(s)[h] = TextsOf(s, h) /\ SlideShapes(s)[h] \in ShapeType
<1> DEFINE n == Len(file.body)
           m(s) == Len(SlideShapes(s))
<1>1. n \in Nat
  <2> DEFINE G == Seq(Seq(ShapeType))
  <2>1. file.body \in Seq(G)
    BY DEF IsFile
  <2> HIDE DEF G
  <2> QED BY <2>1, LenProperties
<1>2. ASSUME NEW s \in 1..n
      PROVE  m(s) \in Nat /\ \A h \in 1..m(s) : SlideShapes(s)[h] \in ShapeType
  <2>1. SlideShapes(s) \in Seq(ShapeType)
    BY SlideShapesFact
  <2> QED BY <2>1, LenProperties, ElementOfSeq
<1>3. ASSUME NEW s \in 1..n
      PROVE  Grows(SlideText, TextsOfShapes(s), m(s)) /\ \A h \in 1..m(s) : TextsOfShapes(s)[h] = TextsOf(s, h)
  <2> DEFINE f == TextsOfShapes(s)
             k == m(s)
  <2>1. k \in Nat /\ s \in Nat
    BY <1>1, <1>2
  <2>2. f = [h \in 1..k |-> f[h]] /\ \A h \in 1..k : f[h] = TextsOf(s, h)
    BY DEF TextsOfShapes
  <2>3. ASSUME NEW h \in 1..k PROVE TextsOf(s, h) \in Seq(SlideText)
    <3>1. h \in Nat /\ SlideShapes(s)[h] \in ShapeType
      BY <1>2, <2>1
    <3>2. TextsOf(s, h) \in Seq(TextsIn(s, h))
      BY <2>1, <3>1, TextsOfFact
    <3> QED BY <2>1, <3>1, <3>2, TextsInTyped
  <2>4. \A h \in 1..k : f[h] \in Seq(SlideText)
    BY <2>2, <2>3
  <2> HIDE DEF f, k
  <2>5. Grows(SlideText, f, k)
    BY ONLY <2>1, <2>2, <2>4, UpToFact
  <2> QED BY <2>2, <2>5 DEF f, k
<1>4. \A s \in 1..n : Slides[s] = FlattenSeq(TextsOfShapes(s))
  BY DEF Slides
<1>5. Grows(SlideText, Slides, n)
  <2> DEFINE f == Slides
  <2>1. f = [s \in 1..n |-> f[s]]
    BY DEF Slides
  <2>2. \A s \in 1..n : f[s] \in Seq(SlideText)
    <3> SUFFICES ASSUME NEW s \in 1..n PROVE f[s] \in Seq(SlideText)
      OBVIOUS
    <3>1. TextsOfShapes(s) \in Seq(Seq(SlideText))
      BY <1>3 DEF Grows
    <3> QED BY <1>4, <3>1, FlattenTyped
  <2> HIDE DEF f, n
  <2>3. Grows(SlideText, f, n)
    BY ONLY <1>1, <2>1, <2>2, UpToFact
  <2> QED BY <2>3 DEF f
<1>6. FlattenSeq(Slides) = AllTexts
  BY DEF AllTexts, Slides, TextsOfShapes
<1> QED BY <1>1, <1>2, <1>3, <1>4, <1>5, <1>6

LEMMA ChildrenFact ==
  ASSUME IsFile(file), file.type = "docx"
  PROVE  /\ Len(file.body) \in Nat /\ DOMAIN file.body = 1..Len(file.body)
         /\ Grows(Pair, Children, Len(file.body)) /\ FlattenSeq(Children) = AllTexts
         /\ \A c \in 1..Len(file.body) :
              /\ file.body[c] \in ChildType /\ file.body[c].items \in Seq(ItemType)
              /\ \/ file.body[c].kind = "paragraph" /\ Pairs(ParagraphTexts(c, file.body[c].items)) = Children[c]
                 \/ file.body[c].kind = "table" /\ Children[c] = <<>>
              /\ ParagraphTexts(c, file.body[c].items) \in Seq({c} \X Nat \X Styles)
<1> DEFINE n == Len(file.body)
           items(c) == file.body[c].items
<1>1. n \in Nat /\ DOMAIN file.body = 1..n /\ \A c \in 1..n : file.body[c] \in ChildType
  <2>1. file.body \in Seq(ChildType)
    BY DEF IsFile
  <2> QED BY <2>1, LenProperties, ElementOfSeq
<1>2. \A c \in 1..n : file.body[c].kind \in {"paragraph", "table"} /\ items(c) \in Seq(ItemType)
  BY <1>1 DEF ChildType
<1>4. \A c \in 1..n : Children[c] = TextsOfChild(c)
  BY DEF Children
<1>5. ASSUME NEW c \in 1..n
      PROVE  /\ Readable(c, items(c)) \in Seq(Seq(Pair))
             /\ Pairs(ParagraphTexts(c, items(c))) = FlattenSeq(Readable(c, items(c)))
             /\ ParagraphTexts(c, items(c)) \in Seq({c} \X Nat \X Styles)
  <2> DEFINE is == items(c)
  <2>1. c \in Nat /\ is \in Seq(ItemType)
    BY <1>1, <1>2
  <2> HIDE DEF is
  <2>2. /\ ParagraphTexts(c, is) \in Seq({c} \X Nat \X Styles)
        /\ Each(PairOf, ParagraphTexts(c, is)) = FlattenSeq(Readable(c, is))
        /\ Readable(c, is) \in Seq(Seq(Pair))
    BY <2>1, ParagraphTextsFact
  <2> QED BY <2>2 DEF Pairs, is
<1>6. ASSUME NEW c \in 1..n
      PROVE  \/ file.body[c].kind = "paragraph" /\ Pairs(ParagraphTexts(c, items(c))) = Children[c]
             \/ file.body[c].kind = "table" /\ Children[c] = <<>>
  <2>1. CASE file.body[c].kind = "table"
    BY <1>4, <2>1 DEF TextsOfChild
  <2>2. CASE file.body[c].kind = "paragraph"
    <3>1. file.body[c].kind # "table"
      BY <2>2
    <3>2. Children[c] = FlattenSeq(Readable(c, items(c)))
      BY <1>4, <3>1 DEF TextsOfChild
    <3> QED BY <1>5, <2>2, <3>2
  <2> QED BY <1>2, <2>1, <2>2
<1>7. Grows(Pair, Children, n)
  <2> DEFINE f == Children
  <2>1. f = [c \in 1..n |-> f[c]]
    BY DEF Children
  <2>2. \A c \in 1..n : f[c] \in Seq(Pair)
    <3> SUFFICES ASSUME NEW c \in 1..n PROVE f[c] \in Seq(Pair)
      OBVIOUS
    <3>1. Readable(c, items(c)) \in Seq(Seq(Pair))
      BY <1>5
    <3>2. FlattenSeq(Readable(c, items(c))) \in Seq(Pair)
      BY <3>1, FlattenTyped
    <3>3. <<>> \in Seq(Pair)
      BY EmptySeq
    <3> QED BY <1>4, <3>2, <3>3 DEF TextsOfChild
  <2> HIDE DEF f, n
  <2>3. Grows(Pair, f, n)
    BY ONLY <1>1, <2>1, <2>2, UpToFact
  <2> QED BY <2>3 DEF f
<1>8. FlattenSeq(Children) = AllTexts
  BY DEF AllTexts, Children, TextsOfChild, Readable
<1> QED BY <1>1, <1>2, <1>5, <1>6, <1>7, <1>8

\* What is said of the file stays said of it.
LEMMA FileKept ==
  ASSUME UNCHANGED file
  PROVE  /\ GoodRow' = GoodRow /\ Slides' = Slides /\ Children' = Children /\ AllTexts' = AllTexts
         /\ InTextRows' = InTextRows /\ \A s, h : ReadBefore(s, h)' = ReadBefore(s, h) /\ SlidePlace(s, h)' = SlidePlace(s, h)
<1>1. GoodRow' = GoodRow
  BY DEF GoodRow, Located, Within, Marked, Deep
<1>2. \A s : SlideShapes(s)' = SlideShapes(s)
  BY DEF SlideShapes
<1>3. \A s, h : TextsOf(s, h)' = TextsOf(s, h)
  BY <1>2 DEF TextsOf
<1>4. \A s : TextsOfShapes(s)' = TextsOfShapes(s)
  BY <1>2, <1>3 DEF TextsOfShapes
<1>5. Slides' = Slides /\ Children' = Children
  BY <1>4 DEF Slides, Children, TextsOfChild
<1>6. AllTexts' = AllTexts
  BY <1>2, <1>3 DEF AllTexts
<1>7. InTextRows' = InTextRows
  BY DEF InTextRows
<1>8. \A s, h : ReadBefore(s, h)' = ReadBefore(s, h)
  BY <1>4, <1>5 DEF ReadBefore
<1>9. \A s, h : SlidePlace(s, h)' = SlidePlace(s, h)
  BY <1>2 DEF SlidePlace
<1> QED BY <1>1, <1>5, <1>6, <1>7, <1>8, <1>9

-----------------------------------------------------------------------------
(* The steps.                                                              *)

LEMMA OfficeStart ==
  ASSUME OfficeInit
  PROVE  OfficeInv
<1>1. IsFile(file)
  BY OfficeAssumption DEF OfficeInit
<1>2. /\ extracted_data = <<>> /\ pending_images = <<>> /\ accumulated_text = <<>> /\ progress = "read" /\ part = <<1, 1>>
      /\ part[1] = 1 /\ part[2] = 1
  BY DEF OfficeInit
<1>3. <<>> \in Seq(GoodRow) /\ <<>> \in Seq(Pending) /\ <<>> \in Seq(SlideText) /\ <<>> \in Seq(ItemText) /\ Len(<<>>) = 0
  BY EmptySeq
<1>4. <<>> \o <<>> = <<>>
  OBVIOUS
<1>5. Read(extracted_data) \o accumulated_text = <<>>
  BY <1>2, <1>4, ReadNothing
<1>6. ASSUME file.type = "pptx" PROVE SlidesInv
  <2> DEFINE n == Len(file.body)
  <2>1. n \in Nat /\ UpTo(Slides, 0) = <<>> /\ \A s \in 1..n : Len(SlideShapes(s)) \in Nat /\ UpTo(TextsOfShapes(s), 0) = <<>>
    BY <1>1, <1>6, SlidesFact DEF Grows
  <2>2. ReadBefore(1, 1) = <<>>
    <3>1. 1 - 1 = 0
      OBVIOUS
    <3>2. 1 <= n => 1 \in 1..n
      BY <2>1
    <3> QED BY <1>4, <2>1, <3>1, <3>2 DEF ReadBefore
  <2>3. SlidePlace(1, 1)
    <3>1. 1 <= n => 1 <= Len(SlideShapes(1)) + 1
      <4>1. CASE 1 <= n
        <5>1. Len(SlideShapes(1)) \in Nat
          BY <2>1, <4>1
        <5> QED BY <5>1
      <4> QED BY <4>1
    <3> QED BY <2>1, <3>1 DEF SlidePlace
  <2>4. SlideSoFar(1, 1)
    BY <1>2, <1>3, <1>5, <2>2 DEF SlideSoFar
  <2> QED BY <1>2, <1>3, <2>3, <2>4 DEF SlidesInv
<1>7. ASSUME file.type = "docx" PROVE ChildrenInv
  <2> DEFINE n == Len(file.body)
  <2>1. n \in Nat /\ UpTo(Children, 0) = <<>>
    BY <1>1, <1>7, ChildrenFact DEF Grows
  <2>2. Pairs(<<>>) = <<>>
    <3>1. [i \in 1..Len(<<>>) |-> PairOf[<<>>[i]]] = <<>>
      BY EmptySeq
    <3> QED BY <3>1, FlattenEmpty DEF Pairs, Each
  <2>3. 1 - 1 = 0 /\ 1 \in 1..(n + 1)
    BY <2>1
  <2>4. Pairs(Read(extracted_data) \o accumulated_text) = UpTo(Children, part[1] - 1)
    BY <1>2, <1>5, <2>1, <2>2, <2>3
  <2> QED BY <1>2, <1>3, <2>3, <2>4 DEF ChildrenInv
<1>8. extracted_data \in Seq(OtherRow)
  BY <1>2, EmptySeq
<1> QED BY <1>1, <1>6, <1>7, <1>8 DEF OfficeInv

LEMMA OtherRows ==
  /\ \A s, h \in Nat : SlideTableRow(s, h) \in Seq(OtherRow)
  /\ \A c \in Nat : PageElementRow(0, <<c, 0, 0>>) \in Seq(OtherRow)
  /\ <<>> \in Seq(OtherRow)
<1>1. ASSUME NEW s \in Nat, NEW h \in Nat PROVE SlideTableRow(s, h) \in Seq(OtherRow)
  <2> DEFINE p == <<s, -1, -1, -1>>
             o == <<s, h, 0>>
  <2>1. p \in Place /\ o \in Seq(Int)
    BY DEF Place
  <2> HIDE DEF p, o
  <2>2. [kind |-> "structured", at |-> p, of |-> o] \in OtherRow
    BY <2>1 DEF OtherRow
  <2>3. SlideTableRow(s, h) = <<[kind |-> "structured", at |-> p, of |-> o]>>
    BY DEF SlideTableRow, Row, p, o
  <2> QED BY <2>2, <2>3
<1>2. ASSUME NEW c \in Nat PROVE PageElementRow(0, <<c, 0, 0>>) \in Seq(OtherRow)
  <2> DEFINE p == <<0, -1, -1, -1>>
             o == <<c, 0, 0>>
  <2>1. p \in Place /\ o \in Seq(Int)
    BY DEF Place
  <2> HIDE DEF p, o
  <2>2. [kind |-> "structured", at |-> p, of |-> o] \in OtherRow
    BY <2>1 DEF OtherRow
  <2>3. PageElementRow(0, <<c, 0, 0>>) = <<[kind |-> "structured", at |-> p, of |-> o]>>
    BY DEF PageElementRow, Row, p, o
  <2> DEFINE row == [kind |-> "structured", at |-> p, of |-> o]
             q == PageElementRow(0, <<c, 0, 0>>)
  <2>4. row \in OtherRow /\ q = <<row>>
    BY <2>2, <2>3
  <2> HIDE DEF row, q
  <2>5. q \in Seq(OtherRow)
    BY ONLY <2>4
  <2> QED BY <2>5 DEF q
<1> QED BY <1>1, <1>2, EmptySeq

\* Rows with and without texts at the end.
LEMMA ReadMore ==
  ASSUME NEW e \in Seq(GoodRow), NEW r \in Seq(GoodRow), NEW x \in Seq(OtherRow)
  PROVE  e \o r \o x \in Seq(GoodRow) /\ Read(e \o r \o x) = Read(e) \o Read(r)
<1>1. x \in Seq(GoodRow) /\ Read(x) = <<>>
  BY ReadOthers
<1>2. e \o r \in Seq(GoodRow) /\ Read(e \o r) = Read(e) \o Read(r) /\ Read(e \o r) \in Seq(AnyText)
  <2>1. e \o r \in Seq(GoodRow) /\ Read(e \o r) = Read(e) \o Read(r)
    BY ReadJoin
  <2> DEFINE er == e \o r
  <2> HIDE DEF er
  <2>2. er \in Seq(GoodRow)
    BY <2>1 DEF er
  <2>3. Read(er) \in Seq(AnyText)
    BY <2>2, ReadJoin
  <2> QED BY <2>1, <2>3 DEF er
<1> DEFINE er == e \o r
<1> HIDE DEF er
<1>3. er \in Seq(GoodRow) /\ Read(er) \in Seq(AnyText)
  BY <1>2 DEF er
<1>4. er \o x \in Seq(GoodRow) /\ Read(er \o x) = Read(er) \o Read(x)
  BY <1>1, <1>3, ReadJoin
<1>5. Read(er) \o <<>> = Read(er)
  BY <1>3, ConcatEmptySeq
<1> QED BY <1>1, <1>2, <1>4, <1>5 DEF er

LEMMA ShapeStep ==
  ASSUME IsFile(file), file.type = "pptx", SlidesInv, ReadShape, NEW s, s = part[1], NEW h, h = part[2]
  PROVE  SlidesInv'
<1> DEFINE n == Len(file.body)
           m == Len(SlideShapes(s))
           shape == SlideShapes(s)[h]
           t == TextsOf(s, h)
           r == ShapeRows(s, h)
           x == IF "table" \in file.asks /\ shape.table THEN SlideTableRow(s, h) ELSE <<>>
           e == extracted_data
           a == accumulated_text
           below == file.depth \in {"span", "line", "block"}
<1>1. /\ n \in Nat /\ s \in 1..n /\ s \in Nat /\ m \in Nat /\ h \in 1..m /\ h \in Nat /\ shape \in ShapeType
      /\ Grows(SlideText, Slides, n) /\ Grows(SlideText, TextsOfShapes(s), m) /\ TextsOfShapes(s)[h] = t
  <2>1. progress = "read" /\ s <= n /\ h <= m
    BY DEF ReadShape
  <2>2. s \in 1..(n + 1) /\ h \in Nat /\ h >= 1
    BY <2>1 DEF SlidesInv, SlidePlace
  <2>3. n \in Nat /\ s \in 1..n
    BY <2>1, <2>2, SlidesFact
  <2>4. m \in Nat /\ h \in 1..m
    BY <2>1, <2>2, <2>3, SlidesFact
  <2> QED BY <2>2, <2>3, <2>4, SlidesFact
<1>2. /\ progress = "read" /\ e \in Seq(GoodRow) /\ a \in Seq(SlideText) /\ pending_images \in Seq(Pending)
      /\ "text" \in file.asks => SlideSoFar(s, h)
  BY DEF SlidesInv, ReadShape
<1>3. ShapeTexts(s, h) = t /\ t \in Seq(TextsIn(s, h))
  BY <1>1, TextsOfFact
<1>4. t \in Seq(SlideText) /\ t \in Seq(AnyText) /\ Len(t) \in Nat /\ \A i \in 1..Len(t) : t[i][1] = s
  <2>1. t \in Seq(TextsIn(s, h)) /\ s \in Nat /\ h \in Nat
    BY <1>1, <1>3
  <2> HIDE DEF t
  <2>2. t \in Seq(AnyText) /\ t \in Seq(SlideText) /\ Len(t) \in Nat
    BY ONLY <2>1, TextsInTyped
  <2>3. \A i \in 1..Len(t) : t[i] \in TextsIn(s, h)
    BY ONLY <2>1, ElementOfSeq
  <2>4. \A y \in TextsIn(s, h) : y[1] = s
    BY DEF TextsIn
  <2> QED BY <2>2, <2>3, <2>4
<1>5. /\ r \in Seq(GoodRow) /\ ("text" \in file.asks /\ below => Read(r) = t)
      /\ ~("text" \in file.asks /\ below) => r = <<>>
  BY <1>1, <1>3, ShapeRowsFact
<1>6. x \in Seq(OtherRow)
  BY <1>1, OtherRows
<1>7. file.depth \in {"document", "page", "block", "line", "span"}
  BY DEF IsFile
<1>8. /\ accumulated_text' = IF "text" \in file.asks /\ file.depth \in {"page", "document"} THEN a \o t ELSE <<>>
      /\ extracted_data' = e \o r \o x
      /\ pending_images' = IF "image" \in file.asks /\ shape.pictures # <<>>
                           THEN Append(pending_images, [at |-> <<s, h>>, picture |-> shape.pictures[1]])
                           ELSE pending_images
      /\ part' = <<s, h + 1>> /\ UNCHANGED <<file, progress>>
  BY <1>3 DEF ReadShape
<1>9. ReadBefore(s, h + 1) = ReadBefore(s, h) \o t
  <2> DEFINE U == UpTo(Slides, s - 1)
             V == UpTo(TextsOfShapes(s), h - 1)
  <2>1. s - 1 \in 0..n /\ h - 1 \in 0..m /\ h - 1 < m /\ (h - 1) + 1 = h /\ (h + 1) - 1 = h /\ s <= n
    <3> HIDE DEF n, m
    <3>1. n \in Nat /\ m \in Nat /\ s \in 1..n /\ h \in 1..m
      BY ONLY <1>1
    <3> QED BY ONLY <3>1
  <2>2. U \in Seq(SlideText) /\ V \in Seq(SlideText)
    BY <1>1, <2>1 DEF Grows
  <2>3. UpTo(TextsOfShapes(s), h) = V \o t
    BY <1>1, <2>1 DEF Grows
  <2>4. ReadBefore(s, h) = U \o V /\ ReadBefore(s, h + 1) = U \o (V \o t)
    BY <2>1, <2>3 DEF ReadBefore
  <2> HIDE DEF U, V, t
  <2>5. (U \o V) \o t = U \o (V \o t) /\ U \o V \in Seq(SlideText)
    <3>1. t \in Seq(SlideText)
      BY ONLY <1>4
    <3> QED BY ONLY <2>2, <3>1, JoinThree
  <2> QED BY <2>4, <2>5
<1>10. pending_images' \in Seq(Pending)
  <2>1. CASE "image" \in file.asks /\ shape.pictures # <<>>
    <3> DEFINE p == [at |-> <<s, h>>, picture |-> shape.pictures[1]]
    <3>1. shape.pictures \in Seq(PictureType)
      BY <1>1 DEF ShapeType
    <3>2. shape.pictures[1] \in PictureType
      <4> DEFINE q == shape.pictures
      <4>1. q \in Seq(PictureType) /\ q # <<>>
        BY <2>1, <3>1
      <4> HIDE DEF q
      <4>2. 1 \in 1..Len(q)
        BY <4>1, EmptySeq, LenProperties
      <4>3. q[1] \in PictureType
        BY <4>1, <4>2, ElementOfSeq
      <4> QED BY <4>3 DEF q
    <3>3. p \in Pending
      BY <1>1, <3>2 DEF Pending, PictureAt
    <3> HIDE DEF p
    <3>4. Append(pending_images, p) \in Seq(Pending)
      BY <1>2, <3>3, AppendProperties
    <3> QED BY <1>8, <2>1, <3>4 DEF p
  <2>2. CASE ~("image" \in file.asks /\ shape.pictures # <<>>)
    BY <1>2, <1>8, <2>2
  <2> QED BY <2>1, <2>2
<1> HIDE DEF e, a, r, x, t, n, m, shape
<1>11. extracted_data' \in Seq(GoodRow) /\ Read(extracted_data') = Read(e) \o Read(r) /\ Read(e) \in Seq(AnyText)
  <2>1. e \o r \o x \in Seq(GoodRow) /\ Read(e \o r \o x) = Read(e) \o Read(r)
    BY <1>2, <1>5, <1>6, ReadMore
  <2>2. Read(e) \in Seq(AnyText)
    BY <1>2, ReadJoin
  <2> QED BY <1>8, <2>1, <2>2
<1>12. a \o t \in Seq(SlideText) /\ <<>> \in Seq(SlideText) /\ Len(<<>>) = 0
  BY <1>2, <1>4, ConcatProperties, EmptySeq
<1>13. accumulated_text' \in Seq(SlideText)
  BY <1>8, <1>12
<1>14. a \in Seq(AnyText)
  <2>1. SlideText \subseteq AnyText
    BY DEF AnyText
  <2> QED BY <1>2, <2>1, SeqMono
<1>15. ASSUME "text" \in file.asks
       PROVE  /\ Read(extracted_data') \o accumulated_text' = ReadBefore(s, h + 1)
              /\ below => accumulated_text' = <<>>
              /\ file.depth = "page" => \A i \in 1..Len(accumulated_text') : accumulated_text'[i][1] = s
  <2>1. /\ Read(e) \o a = ReadBefore(s, h) /\ (below => a = <<>>)
        /\ file.depth = "page" => \A i \in 1..Len(a) : a[i][1] = s
    BY <1>2, <1>15 DEF SlideSoFar, a, e
  <2>2. CASE below
    <3>1. accumulated_text' = <<>> /\ a = <<>> /\ Read(r) = t /\ file.depth # "page"
      BY <1>5, <1>8, <1>15, <2>1, <2>2
    <3>2. Read(e) \o <<>> = Read(e)
      BY <1>11, ConcatEmptySeq
    <3>3. (Read(e) \o t) \o <<>> = Read(e) \o t
      <4> DEFINE y == Read(e) \o t
      <4>1. y \in Seq(AnyText)
        BY <1>4, <1>11, ConcatProperties
      <4> HIDE DEF y
      <4>2. y \o <<>> = y
        BY <4>1, ConcatEmptySeq
      <4> QED BY <4>2 DEF y
    <3> QED BY <1>9, <1>11, <2>1, <3>1, <3>2, <3>3
  <2>3. CASE ~below
    <3>1. accumulated_text' = a \o t /\ r = <<>>
      BY <1>5, <1>7, <1>8, <1>15, <2>3
    <3>2. Read(e) \o <<>> = Read(e)
      BY <1>11, ConcatEmptySeq
    <3>3. Read(extracted_data') = Read(e)
      BY <1>11, <3>1, <3>2, ReadNothing
    <3>4. (Read(e) \o a) \o t = Read(e) \o (a \o t)
      <4> DEFINE y == Read(e)
      <4>1. y \in Seq(AnyText) /\ a \in Seq(AnyText) /\ t \in Seq(AnyText)
        BY <1>4, <1>11, <1>14
      <4> HIDE DEF y
      <4>2. (y \o a) \o t = y \o (a \o t)
        BY ONLY <4>1, JoinThree
      <4> QED BY <4>2 DEF y
    <3>5. file.depth = "page" => \A i \in 1..Len(a \o t) : (a \o t)[i][1] = s
      <4> SUFFICES ASSUME file.depth = "page", NEW i \in 1..Len(a \o t) PROVE (a \o t)[i][1] = s
        OBVIOUS
      <4>1. Len(a) \in Nat /\ Len(a \o t) = Len(a) + Len(t) /\ (a \o t)[i] = IF i <= Len(a) THEN a[i] ELSE t[i - Len(a)]
        BY <1>2, <1>4, ConcatProperties, LenProperties
      <4>2. CASE i <= Len(a)
        <5>1. i \in 1..Len(a)
          BY <4>1, <4>2
        <5> QED BY <2>1, <4>1, <4>2, <5>1
      <4>3. CASE ~(i <= Len(a))
        <5>1. i - Len(a) \in 1..Len(t)
          BY <1>4, <4>1, <4>3
        <5> QED BY <1>4, <4>1, <4>3, <5>1
      <4> QED BY <4>2, <4>3
    <3> QED BY <1>9, <2>1, <2>3, <3>1, <3>3, <3>4, <3>5
  <2> QED BY <2>2, <2>3
<1>16. /\ part'[1] = s /\ part'[2] = h + 1 /\ part' = <<part'[1], part'[2]>> /\ progress' = "read"
       /\ file' = file
  BY <1>2, <1>8
<1>17. SlidePlace(s, h + 1)
  BY <1>1 DEF SlidePlace, n, m
<1>18. GoodRow' = GoodRow /\ ReadBefore(s, h + 1)' = ReadBefore(s, h + 1) /\ SlidePlace(s, h + 1)' = SlidePlace(s, h + 1)
  BY <1>16, FileKept
<1>19. "text" \in file.asks => SlideSoFar(s, h + 1)'
  <2> SUFFICES ASSUME "text" \in file.asks PROVE SlideSoFar(s, h + 1)'
    OBVIOUS
  <2>1. h + 1 # 1
    BY <1>1
  <2> QED BY <1>15, <1>16, <1>18, <2>1 DEF SlideSoFar
<1> QED BY <1>10, <1>11, <1>13, <1>16, <1>17, <1>18, <1>19 DEF SlidesInv

LEMMA SlideStep ==
  ASSUME IsFile(file), file.type = "pptx", SlidesInv, FinishSlide, NEW s, s = part[1], NEW h, h = part[2]
  PROVE  SlidesInv'
<1> DEFINE n == Len(file.body)
           m == Len(SlideShapes(s))
           e == extracted_data
           a == accumulated_text
           row == "text" \in file.asks /\ file.depth = "page" /\ a # <<>>
           c == -1
           R == SlideTextRow(<<s, c, c, c>>, a)
<1>1. /\ n \in Nat /\ s \in 1..n /\ s \in Nat /\ m \in Nat /\ h = m + 1
      /\ Grows(SlideText, Slides, n) /\ Grows(SlideText, TextsOfShapes(s), m)
      /\ Slides[s] = FlattenSeq(TextsOfShapes(s))
  <2>1. progress = "read" /\ s <= n /\ h > m
    BY DEF FinishSlide
  <2>2. s \in 1..(n + 1) /\ h \in Nat /\ h >= 1 /\ h <= m + 1
    BY <2>1 DEF SlidesInv, SlidePlace
  <2>3. n \in Nat /\ s \in 1..n
    BY <2>1, <2>2, SlidesFact
  <2>4. m \in Nat
    BY <2>3, SlidesFact
  <2>5. h = m + 1
    BY <2>1, <2>2, <2>4
  <2> QED BY <2>3, <2>4, <2>5, SlidesFact
<1>2. /\ progress = "read" /\ e \in Seq(GoodRow) /\ a \in Seq(SlideText) /\ pending_images \in Seq(Pending)
      /\ "text" \in file.asks => SlideSoFar(s, h)
  BY DEF SlidesInv, FinishSlide
<1>3. /\ row => extracted_data' = e \o R /\ accumulated_text' = <<>>
      /\ ~row => extracted_data' = e /\ accumulated_text' = a
      /\ part' = <<s + 1, 1>> /\ UNCHANGED <<file, pending_images, progress>>
  BY DEF FinishSlide
<1>4. ReadBefore(s + 1, 1) = ReadBefore(s, h)
  <2> DEFINE U == UpTo(Slides, s - 1)
             V == UpTo(TextsOfShapes(s), h - 1)
             W == IF s + 1 <= n THEN UpTo(TextsOfShapes(s + 1), 0) ELSE <<>>
  <2>1. s - 1 \in 0..n /\ s - 1 < n /\ (s - 1) + 1 = s /\ (s + 1) - 1 = s /\ s \in 0..n /\ s <= n /\ h - 1 = m /\ 1 - 1 = 0
    BY <1>1
  <2>2. V = Slides[s] /\ UpTo(Slides, s) = U \o V /\ UpTo(Slides, s) \in Seq(SlideText)
    BY <1>1, <2>1 DEF Grows
  <2>3. W = <<>>
    <3>1. CASE s + 1 <= n
      <4>1. s + 1 \in 1..n
        BY <1>1, <3>1
      <4>2. Grows(SlideText, TextsOfShapes(s + 1), Len(SlideShapes(s + 1)))
        BY <4>1, SlidesFact
      <4> QED BY <4>2 DEF Grows
    <3> QED BY <3>1
  <2>4. ReadBefore(s, h) = U \o V /\ ReadBefore(s + 1, 1) = UpTo(Slides, s) \o W
    BY <2>1 DEF ReadBefore
  <2> HIDE DEF U, V, W
  <2>5. UpTo(Slides, s) \o <<>> = UpTo(Slides, s)
    BY <2>2, ConcatEmptySeq
  <2> QED BY <2>2, <2>3, <2>4, <2>5
<1>5. SlidePlace(s + 1, 1)
  <2>1. s + 1 <= n => 1 <= Len(SlideShapes(s + 1)) + 1
    <3>1. CASE s + 1 <= n
      <4>1. s + 1 \in 1..n
        BY <1>1, <3>1
      <4>2. Len(SlideShapes(s + 1)) \in Nat
        BY <4>1, SlidesFact
      <4> QED BY <4>2
    <3> QED BY <3>1
  <2> QED BY <1>1, <2>1 DEF SlidePlace
<1>6. /\ part'[1] = s + 1 /\ part'[2] = 1 /\ part' = <<part'[1], part'[2]>> /\ progress' = "read"
      /\ file' = file /\ pending_images' = pending_images
  BY <1>2, <1>3
<1>7. GoodRow' = GoodRow /\ ReadBefore(s + 1, 1)' = ReadBefore(s + 1, 1) /\ SlidePlace(s + 1, 1)' = SlidePlace(s + 1, 1)
  BY <1>6, FileKept
<1>8. a \in Seq(AnyText)
  <2>1. SlideText \subseteq AnyText
    BY DEF AnyText
  <2> QED BY <1>2, <2>1, SeqMono
<1>9. <<>> \in Seq(SlideText) /\ Len(<<>>) = 0
  BY EmptySeq
<1>10. CASE row
  <2>1. SlideSoFar(s, h) /\ file.depth = "page"
    BY <1>2, <1>10
  <2>2. AsDeep(s, c, c, c)
    <3>1. Deep(1) /\ ~Deep(2) /\ ~Deep(3) /\ ~Deep(4)
      BY <2>1, DeepFact
    <3> QED BY <1>1, <3>1 DEF AsDeep
  <2>3. AllAt(a, s, c, c, c)
    <3>1. \A i \in 1..Len(a) : a[i][1] = s
      BY <2>1 DEF SlideSoFar
    <3> QED BY <3>1 DEF AllAt
  <2>4. s \in Int /\ c \in Int /\ file.type = "pptx"
    BY <1>1
  <2> HIDE DEF c, e, a
  <2>5. R \in Seq(GoodRow) /\ Read(R) = a
    BY ONLY <1>8, <2>2, <2>3, <2>4, SlideRowFact
  <2> HIDE DEF R
  <2>6. e \o R \in Seq(GoodRow) /\ Read(e \o R) = Read(e) \o a
    BY <1>2, <2>5, ReadJoin
  <2>7. Read(e \o R) \o <<>> = Read(e \o R)
    <3>1. Read(e \o R) \in Seq(AnyText)
      BY <2>6, ReadJoin
    <3> QED BY <3>1, ConcatEmptySeq
  <2>8. Read(e) \o a = ReadBefore(s, h)
    BY <2>1 DEF SlideSoFar, e, a
  <2>9. extracted_data' = e \o R /\ accumulated_text' = <<>>
    BY <1>3, <1>10
  <2>10. SlideSoFar(s + 1, 1)'
    BY <1>4, <1>6, <1>7, <1>9, <2>6, <2>7, <2>8, <2>9 DEF SlideSoFar
  <2> QED BY <1>2, <1>5, <1>6, <1>7, <1>9, <2>6, <2>9, <2>10 DEF SlidesInv
<1>11. CASE ~row
  <2>1. extracted_data' = e /\ accumulated_text' = a
    BY <1>3, <1>11
  <2>2. "text" \in file.asks => SlideSoFar(s + 1, 1)'
    <3> SUFFICES ASSUME "text" \in file.asks PROVE SlideSoFar(s + 1, 1)'
      OBVIOUS
    <3>1. SlideSoFar(s, h)
      BY <1>2
    <3>2. file.depth = "page" => accumulated_text' = <<>>
      BY <1>11, <2>1
    <3> QED BY <1>4, <1>6, <1>7, <1>9, <2>1, <3>1, <3>2 DEF SlideSoFar
  <2> QED BY <1>2, <1>5, <1>6, <1>7, <2>1, <2>2 DEF SlidesInv
<1> QED BY <1>10, <1>11

LEMMA SlidesEnd ==
  ASSUME IsFile(file), file.type = "pptx", SlidesInv, FinishDocument, NEW s, s = part[1], NEW h, h = part[2]
  PROVE  SlidesInv'
<1> DEFINE n == Len(file.body)
           e == extracted_data
           a == accumulated_text
           row == "text" \in file.asks /\ file.depth = "document" /\ a # <<>>
           c == -1
           R == SlideTextRow(<<c, c, c, c>>, a)
<1>1. /\ n \in Nat /\ s = n + 1 /\ h = 1 /\ Grows(SlideText, Slides, n) /\ FlattenSeq(Slides) = AllTexts
  <2>1. progress = "read" /\ s > n
    BY DEF FinishDocument
  <2>2. s \in 1..(n + 1) /\ h = 1
    BY <2>1 DEF SlidesInv, SlidePlace
  <2> QED BY <2>1, <2>2, SlidesFact
<1>2. /\ progress = "read" /\ e \in Seq(GoodRow) /\ a \in Seq(SlideText) /\ pending_images \in Seq(Pending)
      /\ "text" \in file.asks => SlideSoFar(s, h)
      /\ part = <<part[1], part[2]>>
  BY DEF SlidesInv, FinishDocument
<1>3. /\ extracted_data' = IF row THEN e \o R ELSE e
      /\ progress' = "images" /\ UNCHANGED <<file, part, accumulated_text, pending_images>>
  BY DEF FinishDocument, Asks
<1>4. ReadBefore(s, h) = AllTexts
  <2>1. s - 1 = n /\ ~(s <= n)
    BY <1>1
  <2>2. UpTo(Slides, n) = AllTexts /\ UpTo(Slides, n) \in Seq(SlideText)
    BY <1>1 DEF Grows
  <2>3. ReadBefore(s, h) = UpTo(Slides, n) \o <<>>
    BY <2>1 DEF ReadBefore
  <2> QED BY <2>2, <2>3, ConcatEmptySeq
<1>5. GoodRow' = GoodRow /\ AllTexts' = AllTexts
  BY <1>3, FileKept
<1>6. a \in Seq(AnyText)
  <2>1. SlideText \subseteq AnyText
    BY DEF AnyText
  <2> QED BY <1>2, <2>1, SeqMono
<1>7. CASE row
  <2>1. SlideSoFar(s, h) /\ file.depth = "document"
    BY <1>2, <1>7
  <2>2. AsDeep(c, c, c, c)
    <3>1. ~Deep(1) /\ ~Deep(2) /\ ~Deep(3) /\ ~Deep(4)
      BY <2>1, DeepFact
    <3> QED BY <3>1 DEF AsDeep
  <2>3. AllAt(a, c, c, c, c)
    BY DEF AllAt
  <2>4. c \in Int /\ file.type = "pptx"
    OBVIOUS
  <2> HIDE DEF c, e, a
  <2>5. R \in Seq(GoodRow) /\ Read(R) = a
    BY ONLY <1>6, <2>2, <2>3, <2>4, SlideRowFact
  <2> HIDE DEF R
  <2>6. e \o R \in Seq(GoodRow) /\ Read(e \o R) = Read(e) \o a
    BY <1>2, <2>5, ReadJoin
  <2>7. Read(e) \o a = AllTexts
    BY <1>4, <2>1 DEF SlideSoFar, e, a
  <2>8. extracted_data' = e \o R
    BY <1>3, <1>7
  <2> QED BY <1>2, <1>3, <1>5, <2>6, <2>7, <2>8 DEF SlidesInv, a
<1>8. CASE ~row
  <2>1. extracted_data' = e
    BY <1>3, <1>8
  <2>2. "text" \in file.asks => Read(e) = AllTexts
    <3> SUFFICES ASSUME "text" \in file.asks PROVE Read(e) = AllTexts
      OBVIOUS
    <3>1. SlideSoFar(s, h)
      BY <1>2
    <3>2. a = <<>>
      BY <1>1, <1>8, <3>1 DEF SlideSoFar, IsFile
    <3>3. Read(e) \in Seq(AnyText)
      BY <1>2, ReadJoin
    <3>4. Read(e) \o <<>> = Read(e)
      BY <3>3, ConcatEmptySeq
    <3> QED BY <1>4, <3>1, <3>2, <3>4 DEF SlideSoFar
  <2> QED BY <1>2, <1>3, <1>5, <2>1, <2>2 DEF SlidesInv
<1> QED BY <1>7, <1>8

PairsInverse == [t \in AnyText |-> <<t[1], t[2]>>]

LEMMA PairsFact ==
  ASSUME NEW a \in Seq(AnyText), NEW b \in Seq(AnyText)
  PROVE  /\ Pairs(a \o b) = Pairs(a) \o Pairs(b) /\ Pairs(a) \in Seq(Pair)
         /\ Pairs(a) = [i \in 1..Len(a) |-> <<a[i][1], a[i][2]>>]
<1>1. \A t \in AnyText : PairsInverse[t] \in Pair /\ PairsInverse[t] = <<t[1], t[2]>> /\ PairOf[t] = <<PairsInverse[t]>>
  BY DEF AnyText, SlideText, ItemText, Pair, PairsInverse, PairOf
<1>2. Names(PairOf, PairsInverse, AnyText, Pair)
  <2>1. \A t \in AnyText : PairOf[t] = <<PairsInverse[t]>> /\ PairsInverse[t] \in Pair
    BY <1>1
  <2> QED BY <2>1 DEF Names
<1>3. Reads(PairOf, AnyText, Pair)
  <2> SUFFICES ASSUME NEW t \in AnyText PROVE PairOf[t] \in Seq(Pair)
    BY DEF Reads
  <2> DEFINE y == PairsInverse[t]
  <2>1. PairOf[t] = <<y>> /\ y \in Pair
    BY <1>1
  <2> HIDE DEF y
  <2> QED BY ONLY <2>1
<1>4. Each(PairOf, a \o b) = Each(PairOf, a) \o Each(PairOf, b) /\ Each(PairOf, a) \in Seq(Pair)
  BY <1>3, EachJoin
<1>5. Each(PairOf, a) = [i \in 1..Len(a) |-> PairsInverse[a[i]]] /\ Each(PairOf, a) \in Seq(Pair)
  BY <1>2, EachMapped
<1>6. \A i \in 1..Len(a) : a[i] \in AnyText
  BY ElementOfSeq
<1>7. [i \in 1..Len(a) |-> PairsInverse[a[i]]] = [i \in 1..Len(a) |-> <<a[i][1], a[i][2]>>]
  <2>1. \A i \in 1..Len(a) : PairsInverse[a[i]] = <<a[i][1], a[i][2]>>
    BY <1>1, <1>6
  <2> QED BY <2>1
<1> QED BY <1>4, <1>5, <1>7 DEF Pairs

\* A row of the texts of a document, or of one of its children.
LEMMA DocxRowFact ==
  ASSUME file.type = "docx", NEW c \in Int, NEW texts \in Seq(AnyText),
         c = -1 \/ \A i \in 1..Len(texts) : texts[i][1] = c
  PROVE  DocxTextRow(c, texts) \in Seq(GoodRow) /\ Read(DocxTextRow(c, texts)) = texts
<1> DEFINE at == <<IF file.depth = "page" THEN 0 ELSE -1, c, -1, -1>>
           row == [kind |-> "text", at |-> at, of |-> texts]
<1>1. at \in Place /\ at[2] = c
  BY DEF Place
<1> HIDE DEF at
<1>2. \A i \in 1..Len(texts) : Within(texts[i], at)
  BY <1>1 DEF Within
<1>3. Marked(row)
  BY DEF Marked
<1>4. <<row>> \in Seq(GoodRow) /\ Read(<<row>>) = texts
  BY <1>1, <1>2, <1>3, TextRowFact
<1>5. DocxTextRow(c, texts) = <<row>>
  BY DEF DocxTextRow, Row, at
<1> QED BY <1>4, <1>5

LEMMA ChildStep ==
  ASSUME IsFile(file), file.type = "docx", ChildrenInv, ReadChild, NEW c, c = part[1]
  PROVE  ChildrenInv'
<1> DEFINE n == Len(file.body)
           e == extracted_data
           a == accumulated_text
           child == file.body[c]
           t == ParagraphTexts(c, child.items)
           x == IF Asks({"table", "chart"}) THEN PageElementRow(0, <<c, 0, 0>>) ELSE <<>>
           R == DocxTextRow(c, t)
           asked == "text" \in file.asks
           block == file.depth = "block"
<1>1. /\ n \in Nat /\ c \in 1..n /\ c \in Nat /\ c \in Int /\ DOMAIN file.body = 1..n
      /\ Grows(Pair, Children, n) /\ child.items \in Seq(ItemType)
      /\ (child.kind = "paragraph" /\ Pairs(t) = Children[c]) \/ (child.kind = "table" /\ Children[c] = <<>>)
      /\ t \in Seq({c} \X Nat \X Styles)
  <2>1. progress = "read" /\ c <= n
    BY DEF ReadChild
  <2>2. c \in 1..(n + 1)
    BY <2>1 DEF ChildrenInv
  <2>3. n \in Nat /\ c \in 1..n
    BY <2>1, <2>2, ChildrenFact
  <2>4. DOMAIN file.body = 1..n /\ Grows(Pair, Children, n)
    BY ONLY IsFile(file), file.type = "docx", ChildrenFact
  <2>5. /\ file.body[c].items \in Seq(ItemType)
        /\ \/ file.body[c].kind = "paragraph" /\ Pairs(ParagraphTexts(c, file.body[c].items)) = Children[c]
           \/ file.body[c].kind = "table" /\ Children[c] = <<>>
        /\ ParagraphTexts(c, file.body[c].items) \in Seq({c} \X Nat \X Styles)
    BY ONLY IsFile(file), file.type = "docx", <2>3, ChildrenFact
  <2>6. c \in Nat /\ c \in Int
    BY ONLY <2>3
  <2> QED BY ONLY <2>3, <2>4, <2>5, <2>6
<1>2. /\ progress = "read" /\ e \in Seq(GoodRow) /\ a \in Seq(ItemText) /\ pending_images \in Seq(Pending)
      /\ InTextRows => /\ Pairs(Read(e) \o a) = UpTo(Children, c - 1)
                       /\ block => a = <<>>
      /\ InTextRows => (a # <<>> => \E d \in DOMAIN file.body : file.body[d].kind = "paragraph")
  BY DEF ChildrenInv, ReadChild
<1>3. t \in Seq(ItemText) /\ t \in Seq(AnyText) /\ \A i \in 1..Len(t) : t[i][1] = c
  <2> DEFINE Q == {c} \X Nat \X Styles
  <2>1. Q \subseteq ItemText /\ Q \subseteq AnyText /\ \A y \in Q : y[1] = c
    BY <1>1 DEF AnyText, ItemText, Styles
  <2>2. t \in Seq(Q)
    BY <1>1
  <2> HIDE DEF t, Q
  <2>3. t \in Seq(ItemText) /\ t \in Seq(AnyText)
    BY <2>1, <2>2, SeqMono
  <2>4. \A i \in 1..Len(t) : t[i] \in Q
    BY <2>2, ElementOfSeq
  <2> QED BY <2>1, <2>3, <2>4
<1>4. UpTo(Children, c) = UpTo(Children, c - 1) \o Children[c] /\ UpTo(Children, c - 1) \in Seq(Pair) /\ (c + 1) - 1 = c
  <2>1. c - 1 \in 0..n /\ c - 1 < n /\ (c - 1) + 1 = c
    BY <1>1
  <2> DEFINE m == c - 1
             f == Children
  <2>2. Grows(Pair, f, n) /\ m \in 0..n /\ m < n /\ m + 1 = c
    BY ONLY <1>1, <2>1
  <2> HIDE DEF m, f, n
  <2>3. UpTo(f, m) \in Seq(Pair) /\ UpTo(f, m + 1) = UpTo(f, m) \o f[m + 1]
    BY ONLY <2>2 DEF Grows
  <2>4. UpTo(f, c) = UpTo(f, m) \o f[c]
    BY ONLY <2>2, <2>3
  <2>5. (c + 1) - 1 = c
    BY ONLY <1>1
  <2> QED BY ONLY <2>3, <2>4, <2>5 DEF m, f
<1>5. part' = <<c + 1, 1>> /\ UNCHANGED <<file, progress>>
  BY DEF ReadChild
<1>6. /\ part'[1] = c + 1 /\ part' = <<part'[1], part'[2]>> /\ progress' = "read" /\ file' = file
      /\ c + 1 \in 1..(n + 1)
  <2>1. progress = "read"
    BY ONLY <1>2
  <2>2. n \in Nat /\ c \in 1..n
    BY ONLY <1>1
  <2> HIDE DEF n
  <2>3. c + 1 \in 1..(n + 1)
    BY ONLY <2>2
  <2> QED BY ONLY <1>5, <2>1, <2>3
<1>7. GoodRow' = GoodRow /\ Children' = Children /\ InTextRows' = InTextRows
  BY <1>6, FileKept
<1>8. a \in Seq(AnyText)
  <2>1. ItemText \subseteq AnyText
    BY DEF AnyText
  <2> QED BY <1>2, <2>1, SeqMono
<1>9. Read(e) \in Seq(AnyText) /\ Read(e) \o <<>> = Read(e) /\ <<>> \in Seq(ItemText)
  <2>1. Read(e) \in Seq(AnyText)
    BY <1>2, ReadJoin
  <2> QED BY <2>1, ConcatEmptySeq, EmptySeq
<1>10. CASE child.kind = "table"
  <2>1. extracted_data' = e \o x /\ accumulated_text' = a /\ pending_images' = pending_images
    BY <1>10 DEF ReadChild
  <2>2. x \in Seq(OtherRow)
    BY <1>1, OtherRows
  <2> HIDE DEF e, x, a
  <2>3. x \in Seq(GoodRow) /\ Read(x) = <<>>
    BY <2>2, ReadOthers
  <2>4. e \o x \in Seq(GoodRow) /\ Read(e \o x) = Read(e)
    BY <1>2, <1>9, <2>3, ReadJoin
  <2>5. UpTo(Children, c) = UpTo(Children, c - 1)
    <3>1. Children[c] = <<>>
      BY <1>1, <1>10
    <3> QED BY <1>4, <3>1, ConcatEmptySeq
  <2> QED BY <1>2, <1>4, <1>6, <1>7, <2>1, <2>4, <2>5 DEF ChildrenInv, a
<1>11. CASE child.kind = "paragraph"
  <2>1. /\ extracted_data' = e \o (IF asked /\ block THEN R ELSE <<>>)
        /\ accumulated_text' = IF asked /\ ~block THEN a \o t ELSE <<>>
        /\ pending_images' = IF Asks({"image", "table", "chart"})
                             THEN pending_images \o ParagraphPictures(c, child.items) ELSE pending_images
    BY <1>11 DEF ReadChild, Asks
  <2>2. pending_images' \in Seq(Pending)
    <3>1. ParagraphPictures(c, child.items) \in Seq(Pending)
      BY <1>1, ParagraphPicturesTyped
    <3> DEFINE q == ParagraphPictures(c, child.items)
    <3> HIDE DEF q
    <3>2. pending_images \o q \in Seq(Pending)
      BY <1>2, <3>1, ConcatProperties DEF q
    <3> QED BY <1>2, <2>1, <3>2 DEF q
  <2>3. (\E d \in DOMAIN file.body : file.body[d].kind = "paragraph") /\ Pairs(t) = Children[c]
    BY <1>1, <1>11
  <2> HIDE DEF child
  <2>4. R \in Seq(GoodRow) /\ Read(R) = t
    <3> HIDE DEF t
    <3>1. file.type = "docx"
      OBVIOUS
    <3> QED BY ONLY <1>1, <1>3, <3>1, DocxRowFact
  <2> HIDE DEF e, a, t, R
  <2>5. a \o t \in Seq(ItemText)
    BY <1>2, <1>3, ConcatProperties
  <2>6. CASE asked /\ block
    <3>1. extracted_data' = e \o R /\ accumulated_text' = <<>>
      BY <2>1, <2>6
    <3>2. e \o R \in Seq(GoodRow) /\ Read(e \o R) = Read(e) \o t
      BY <1>2, <2>4, ReadJoin
    <3>3. InTextRows
      BY <2>6 DEF InTextRows
    <3>4. Pairs(Read(e)) = UpTo(Children, c - 1)
      BY <1>2, <1>9, <2>6, <3>3
    <3>5. Pairs(Read(e) \o t) = UpTo(Children, c)
      <4>1. Pairs(Read(e) \o t) = Pairs(Read(e)) \o Pairs(t)
        BY <1>3, <1>9, PairsFact
      <4> QED BY <1>4, <2>3, <3>4, <4>1 DEF t
    <3>6. Read(e \o R) \o <<>> = Read(e \o R)
      <4>1. Read(e \o R) \in Seq(AnyText)
        BY <3>2, ReadJoin
      <4> QED BY <4>1, ConcatEmptySeq
    <3> QED BY <1>4, <1>6, <1>7, <1>9, <2>2, <3>1, <3>2, <3>5, <3>6 DEF ChildrenInv
  <2>7. CASE ~(asked /\ block)
    <3>1. extracted_data' = e \o <<>> /\ e \o <<>> = e
      BY <1>2, <2>1, <2>7, ConcatEmptySeq
    <3>2. accumulated_text' \in Seq(ItemText)
      BY <1>9, <2>1, <2>5
    <3>3. ASSUME InTextRows
          PROVE  Pairs(Read(e) \o accumulated_text') = UpTo(Children, c) /\ ~block
      <4>1. asked /\ ~block /\ accumulated_text' = a \o t
        BY <2>1, <2>7, <3>3 DEF InTextRows
      <4>2. (Read(e) \o a) \o t = Read(e) \o (a \o t) /\ Read(e) \o a \in Seq(AnyText)
        <5> DEFINE y == Read(e)
        <5>1. y \in Seq(AnyText) /\ a \in Seq(AnyText) /\ t \in Seq(AnyText)
          BY <1>3, <1>8, <1>9
        <5> HIDE DEF y
        <5>2. (y \o a) \o t = y \o (a \o t) /\ y \o a \in Seq(AnyText)
          BY ONLY <5>1, JoinThree
        <5> QED BY <5>2 DEF y
      <4>3. Pairs((Read(e) \o a) \o t) = Pairs(Read(e) \o a) \o Pairs(t)
        BY <1>3, <4>2, PairsFact
      <4>4. Pairs(Read(e) \o a) = UpTo(Children, c - 1)
        BY <1>2, <3>3
      <4> QED BY <1>4, <2>3, <4>1, <4>2, <4>3, <4>4 DEF t
    <3> QED BY <1>2, <1>4, <1>6, <1>7, <2>2, <2>3, <3>1, <3>2, <3>3 DEF ChildrenInv
  <2> QED BY <2>6, <2>7
<1> QED BY <1>1, <1>10, <1>11

LEMMA ChildrenEnd ==
  ASSUME IsFile(file), file.type = "docx", ChildrenInv, FinishDocument, NEW c, c = part[1]
  PROVE  ChildrenInv'
<1> DEFINE n == Len(file.body)
           e == extracted_data
           a == accumulated_text
           some == \E d \in DOMAIN file.body : file.body[d].kind = "paragraph"
           row == "text" \in file.asks /\ file.depth \in {"document", "page"} /\ some
           k == -1
           R == DocxTextRow(k, a)
<1>1. c = n + 1 /\ n \in Nat
  <2>1. progress = "read" /\ c > n
    BY DEF FinishDocument
  <2>2. c \in 1..(n + 1)
    BY <2>1 DEF ChildrenInv
  <2>3. n \in Nat
    BY ONLY IsFile(file), file.type = "docx", ChildrenFact
  <2> QED BY <2>1, <2>2, <2>3
<1>2. UpTo(Children, c - 1) = AllTexts
  <2> DEFINE f == Children
  <2>1. Grows(Pair, f, n) /\ FlattenSeq(f) = AllTexts
    BY ONLY IsFile(file), file.type = "docx", ChildrenFact
  <2> HIDE DEF f, n
  <2>2. UpTo(f, n) = AllTexts
    BY ONLY <2>1 DEF Grows
  <2>3. c - 1 = n
    BY ONLY <1>1
  <2> QED BY ONLY <2>2, <2>3 DEF f
<1>3. /\ progress = "read" /\ e \in Seq(GoodRow) /\ a \in Seq(ItemText) /\ pending_images \in Seq(Pending)
      /\ InTextRows => /\ Pairs(Read(e) \o a) = UpTo(Children, c - 1)
                       /\ file.depth = "block" => a = <<>>
                       /\ a # <<>> => some
      /\ part = <<part[1], part[2]>>
  BY DEF ChildrenInv, FinishDocument
<1>4. /\ extracted_data' = IF row THEN e \o R ELSE e
      /\ progress' = "images" /\ UNCHANGED <<file, part, accumulated_text, pending_images>>
  BY DEF FinishDocument, Asks
<1>5. GoodRow' = GoodRow /\ AllTexts' = AllTexts /\ InTextRows' = InTextRows
  BY <1>4, FileKept
<1>6. a \in Seq(AnyText)
  <2>1. ItemText \subseteq AnyText
    BY DEF AnyText
  <2> QED BY <1>3, <2>1, SeqMono
<1>7. Read(e) \in Seq(AnyText) /\ Read(e) \o <<>> = Read(e)
  <2>1. Read(e) \in Seq(AnyText)
    BY <1>3, ReadJoin
  <2> QED BY <2>1, ConcatEmptySeq
<1>8. extracted_data' \in Seq(GoodRow) /\ (InTextRows => Read(extracted_data') = Read(e) \o a)
  <2>1. CASE row
    <3>1. R \in Seq(GoodRow) /\ Read(R) = a
      <4> HIDE DEF a
      <4>1. k \in Int
        OBVIOUS
      <4> QED BY ONLY file.type = "docx", <1>6, <4>1, DocxRowFact DEF k
    <3> HIDE DEF e, a, R
    <3>2. e \o R \in Seq(GoodRow) /\ Read(e \o R) = Read(e) \o a
      BY <1>3, <3>1, ReadJoin
    <3> QED BY <1>4, <2>1, <3>2
  <2>2. CASE ~row
    <3>1. ASSUME InTextRows PROVE a = <<>>
      <4>1. CASE file.depth = "block"
        BY <1>3, <3>1, <4>1
      <4>2. CASE ~some
        BY <1>3, <3>1, <4>2
      <4> QED BY <2>2, <3>1, <4>1, <4>2 DEF InTextRows
    <3> QED BY <1>3, <1>4, <1>7, <2>2, <3>1
  <2> QED BY <2>1, <2>2
<1> QED BY <1>2, <1>3, <1>4, <1>5, <1>8 DEF ChildrenInv

\* The pictures add no text.
LEMMA FinalizeRows ==
  ASSUME IsFile(file), file.type # "image", pending_images \in Seq(Pending), NEW raised \in BOOLEAN
  PROVE  PictureRows(Contexts, IF Asks({"table", "chart"}) /\ ~raised
                               THEN extract_page_elements_from_images(Arrays) ELSE <<>>) \in Seq(OtherRow)
<1> DEFINE D == IF Asks({"table", "chart"}) /\ ~raised THEN extract_page_elements_from_images(Arrays) ELSE <<>>
<1>1. Contexts \in Seq(PictureAt) /\ Arrays \in Seq(PictureType)
  BY PicturesPendingTyped
<1>2. extract_page_elements_from_images(Arrays) \in Seq(Element)
  BY <1>1, DetectionTyped
<1>3. D \in Seq(Element)
  BY <1>2, EmptySeq
<1> HIDE DEF D
<1>4. PictureRows(Contexts, D) \in Seq(OtherRow)
  BY <1>1, <1>3, PictureRowsTyped
<1> QED BY <1>4 DEF D

LEMMA Finalized ==
  ASSUME IsFile(file), file.type # "image", FinalizeImages, pending_images \in Seq(Pending),
         extracted_data \in Seq(GoodRow)
  PROVE  /\ progress = "images" /\ progress' \in {"done", "failed"}
         /\ UNCHANGED <<file, part, accumulated_text, pending_images>>
         /\ extracted_data' \in Seq(GoodRow) /\ Read(extracted_data') = Read(extracted_data)
<1> DEFINE e == extracted_data
<1>1. progress = "images" /\ UNCHANGED <<file, part, accumulated_text, pending_images>>
  BY DEF FinalizeImages
<1>2. CASE progress' = "failed" /\ UNCHANGED extracted_data
  BY <1>1, <1>2
<1>3. CASE ~(progress' = "failed" /\ UNCHANGED extracted_data)
  <2>1. progress' = "done" /\ \E raised \in {FALSE, file.raises} :
               extracted_data' = extracted_data \o
                 PictureRows(Contexts, IF Asks({"table", "chart"}) /\ ~raised
                                       THEN extract_page_elements_from_images(Arrays) ELSE <<>>)
    BY <1>3 DEF FinalizeImages
  <2>2. PICK raised : extracted_data' = extracted_data \o
                 PictureRows(Contexts, IF Asks({"table", "chart"}) /\ ~raised
                                       THEN extract_page_elements_from_images(Arrays) ELSE <<>>)
    BY <2>1
  <2> DEFINE x == PictureRows(Contexts, IF Asks({"table", "chart"}) /\ ~raised
                                       THEN extract_page_elements_from_images(Arrays) ELSE <<>>)
  <2>3. x \in Seq(OtherRow)
    BY FinalizeRows
  <2>4. extracted_data' = e \o x
    BY <2>2
  <2> HIDE DEF x, e
  <2>5. x \in Seq(GoodRow) /\ Read(x) = <<>>
    BY <2>3, ReadOthers
  <2>6. e \in Seq(GoodRow)
    BY DEF e
  <2>7. e \o x \in Seq(GoodRow) /\ Read(e \o x) = Read(e) \o <<>> /\ Read(e) \in Seq(AnyText)
    BY <2>5, <2>6, ReadJoin
  <2>8. Read(e) \o <<>> = Read(e)
    BY <2>7, ConcatEmptySeq
  <2> QED BY <1>1, <2>1, <2>4, <2>7, <2>8 DEF e
<1> QED BY <1>2, <1>3

LEMMA FinalizeStep ==
  ASSUME IsFile(file), FinalizeImages
  PROVE  (file.type = "pptx" /\ SlidesInv => SlidesInv') /\ (file.type = "docx" /\ ChildrenInv => ChildrenInv')
<1>1. ASSUME file.type = "pptx", SlidesInv PROVE SlidesInv'
  <2>1. /\ extracted_data \in Seq(GoodRow) /\ pending_images \in Seq(Pending) /\ accumulated_text \in Seq(SlideText)
        /\ part = <<part[1], part[2]>>
    BY <1>1 DEF SlidesInv
  <2>2. file.type # "image"
    BY <1>1
  <2>3. /\ progress = "images" /\ progress' \in {"done", "failed"}
        /\ UNCHANGED <<file, part, accumulated_text, pending_images>>
        /\ extracted_data' \in Seq(GoodRow) /\ Read(extracted_data') = Read(extracted_data)
    BY <2>1, <2>2, Finalized
  <2>4. GoodRow' = GoodRow /\ AllTexts' = AllTexts
    BY <2>3, FileKept
  <2>5. "text" \in file.asks => Read(extracted_data) = AllTexts
    BY <1>1, <2>3 DEF SlidesInv
  <2> QED BY <2>1, <2>3, <2>4, <2>5 DEF SlidesInv
<1>2. ASSUME file.type = "docx", ChildrenInv PROVE ChildrenInv'
  <2>1. /\ extracted_data \in Seq(GoodRow) /\ pending_images \in Seq(Pending) /\ accumulated_text \in Seq(ItemText)
        /\ part = <<part[1], part[2]>>
    BY <1>2 DEF ChildrenInv
  <2>2. file.type # "image"
    BY <1>2
  <2>3. /\ progress = "images" /\ progress' \in {"done", "failed"}
        /\ UNCHANGED <<file, part, accumulated_text, pending_images>>
        /\ extracted_data' \in Seq(GoodRow) /\ Read(extracted_data') = Read(extracted_data)
    BY <2>1, <2>2, Finalized
  <2>4. GoodRow' = GoodRow /\ AllTexts' = AllTexts /\ InTextRows' = InTextRows
    BY <2>3, FileKept
  <2>5. InTextRows => Pairs(Read(extracted_data)) = AllTexts
    BY <1>2, <2>3 DEF ChildrenInv
  <2> QED BY <2>1, <2>3, <2>4, <2>5 DEF ChildrenInv
<1> QED BY <1>1, <1>2

LEMMA OfficeUnchanged ==
  ASSUME UNCHANGED officeVars
  PROVE  (SlidesInv => SlidesInv') /\ (ChildrenInv => ChildrenInv')
<1>1. UNCHANGED <<file, part, accumulated_text, pending_images, extracted_data, progress>>
  BY DEF officeVars
<1>2. /\ GoodRow' = GoodRow /\ Children' = Children /\ AllTexts' = AllTexts /\ InTextRows' = InTextRows
      /\ \A s, h : ReadBefore(s, h)' = ReadBefore(s, h) /\ SlidePlace(s, h)' = SlidePlace(s, h)
  BY <1>1, FileKept
<1>3. ASSUME SlidesInv PROVE SlidesInv'
  <2> DEFINE s == part[1]
             h == part[2]
  <2>1. ReadBefore(s, h)' = ReadBefore(s, h) /\ SlidePlace(s, h)' = SlidePlace(s, h)
    BY <1>1, <1>2
  <2>2. SlideSoFar(s, h)' = SlideSoFar(s, h)
    BY <1>1, <2>1 DEF SlideSoFar
  <2> QED BY <1>1, <1>2, <1>3, <2>1, <2>2 DEF SlidesInv
<1>4. ASSUME ChildrenInv PROVE ChildrenInv'
  BY <1>1, <1>2, <1>4 DEF ChildrenInv
<1> QED BY <1>3, <1>4

\* A document that gives no texts at its depth.
LEMMA NoTextsStep ==
  ASSUME IsFile(file), ChildrenInv, GivesNoTexts, extracted_data \in Seq(OtherRow), [OfficeNext]_officeVars
  PROVE  extracted_data' \in Seq(OtherRow)
<1> DEFINE e == extracted_data
           Joined(x) == e \o x
<1>1. /\ file.type = "docx" /\ file.depth # "block" /\ file.depth \notin {"document", "page"}
      /\ pending_images \in Seq(Pending) /\ file.type # "image" /\ file.type # "pptx"
  BY DEF GivesNoTexts, ChildrenInv
<1>2. ASSUME NEW x \in Seq(OtherRow) PROVE Joined(x) \in Seq(OtherRow)
  <2> HIDE DEF e
  <2>1. e \in Seq(OtherRow)
    BY DEF e
  <2> QED BY <2>1, ConcatProperties
<1>3. <<>> \in Seq(OtherRow)
  BY EmptySeq
<1>4. CASE ReadChild
  <2> DEFINE c == part[1]
             x == IF Asks({"table", "chart"}) THEN PageElementRow(0, <<c, 0, 0>>) ELSE <<>>
  <2>1. progress = "read" /\ (extracted_data' = Joined(x) \/ extracted_data' = Joined(<<>>))
    BY <1>1, <1>4 DEF ReadChild
  <2>2. c \in Nat
    <3>1. Len(file.body) \in Nat /\ c \in 1..(Len(file.body) + 1)
      BY <1>1, <2>1, ChildrenFact DEF ChildrenInv
    <3> QED BY <3>1
  <2> HIDE DEF c
  <2>3. x \in Seq(OtherRow)
    BY <2>2, OtherRows
  <2> QED BY <1>2, <1>3, <2>1, <2>3
<1>5. CASE FinalizeImages
  <2> DEFINE Found(raised) == PictureRows(Contexts, IF Asks({"table", "chart"}) /\ ~raised
                                                   THEN extract_page_elements_from_images(Arrays) ELSE <<>>)
  <2>1. extracted_data' = e \/ \E raised \in BOOLEAN : extracted_data' = Joined(Found(raised))
    <3>1. {FALSE, file.raises} \subseteq BOOLEAN
      BY DEF IsFile
    <3> QED BY <1>5, <3>1 DEF FinalizeImages
  <2>2. \A raised \in BOOLEAN : Found(raised) \in Seq(OtherRow)
    BY <1>1, FinalizeRows
  <2> HIDE DEF Found
  <2> QED BY <1>2, <2>1, <2>2
<1>6. CASE UNCHANGED extracted_data
  BY <1>6
<1>7. ReadChild \/ FinalizeImages \/ UNCHANGED extracted_data
  BY <1>1 DEF OfficeNext, officeVars, ReadShape, FinishSlide, FinishDocument, ReadImage
<1> QED BY <1>4, <1>5, <1>6, <1>7

LEMMA OfficeStep ==
  ASSUME OfficeInv, [OfficeNext]_officeVars
  PROVE  OfficeInv'
<1>1. IsFile(file) /\ (file.type = "pptx" => SlidesInv) /\ (file.type = "docx" => ChildrenInv)
  BY DEF OfficeInv
<1>2. UNCHANGED file
  BY DEF OfficeNext, officeVars, ReadShape, FinishSlide, ReadChild, FinishDocument, FinalizeImages, ReadImage
<1>3. IsFile(file)'
  BY <1>1, <1>2 DEF IsFile
<1>11. (GivesNoTexts => extracted_data \in Seq(OtherRow))'
  <2> SUFFICES ASSUME GivesNoTexts PROVE extracted_data' \in Seq(OtherRow)
    BY <1>2 DEF GivesNoTexts
  <2>1. extracted_data \in Seq(OtherRow) /\ ChildrenInv
    BY DEF OfficeInv, GivesNoTexts
  <2> QED BY <1>1, <2>1, NoTextsStep
<1>4. CASE UNCHANGED officeVars
  BY <1>1, <1>2, <1>3, <1>4, OfficeUnchanged, <1>11 DEF OfficeInv
<1>5. CASE ReadShape
  <2>1. file.type = "pptx"
    BY <1>5 DEF ReadShape
  <2>2. PICK s, h : s = part[1] /\ h = part[2]
    OBVIOUS
  <2>3. SlidesInv'
    BY <1>1, <1>5, <2>1, <2>2, ShapeStep
  <2> QED BY <1>2, <1>3, <2>1, <2>3, <1>11 DEF OfficeInv
<1>6. CASE FinishSlide
  <2>1. file.type = "pptx"
    BY <1>6 DEF FinishSlide
  <2>2. PICK s, h : s = part[1] /\ h = part[2]
    OBVIOUS
  <2>3. SlidesInv'
    BY <1>1, <1>6, <2>1, <2>2, SlideStep
  <2> QED BY <1>2, <1>3, <2>1, <2>3, <1>11 DEF OfficeInv
<1>7. CASE ReadChild
  <2>1. file.type = "docx"
    BY <1>7 DEF ReadChild
  <2>2. PICK c : c = part[1]
    OBVIOUS
  <2>3. ChildrenInv'
    BY <1>1, <1>7, <2>1, <2>2, ChildStep
  <2> QED BY <1>2, <1>3, <2>1, <2>3, <1>11 DEF OfficeInv
<1>8. CASE FinishDocument
  <2>1. PICK s, h : s = part[1] /\ h = part[2]
    OBVIOUS
  <2>2. file.type = "pptx" => SlidesInv'
    BY <1>1, <1>8, <2>1, SlidesEnd
  <2>3. file.type = "docx" => ChildrenInv'
    BY <1>1, <1>8, <2>1, ChildrenEnd
  <2> QED BY <1>2, <1>3, <2>2, <2>3, <1>11 DEF OfficeInv
<1>9. CASE FinalizeImages
  BY <1>1, <1>2, <1>3, <1>9, FinalizeStep, <1>11 DEF OfficeInv
<1>10. CASE ReadImage
  <2>1. file.type = "image"
    BY <1>10 DEF ReadImage
  <2> QED BY <1>2, <1>3, <2>1, <1>11 DEF OfficeInv
<1> QED BY <1>4, <1>5, <1>6, <1>7, <1>8, <1>9, <1>10 DEF OfficeNext

\* What python_pptx and DocxReader keep, for every file: the rows that have been
\* made and the texts that wait are, together, the texts of the shapes, or of the
\* children, before the place of the loop, in order and each once; every row says
\* where its texts are; and with a row for each paragraph, line or run nothing
\* waits, with a row for each slide only texts of this slide.
THEOREM OfficeInvariant == OfficeSpec => []OfficeInv
<1>1. OfficeInit => OfficeInv
  BY OfficeStart
<1>2. OfficeInv /\ [OfficeNext]_officeVars => OfficeInv'
  BY OfficeStep
<1> QED BY <1>1, <1>2, PTL DEF OfficeSpec

LEMMA MarkedIs ==
  ASSUME NEW r, Located(r)
  PROVE  /\ \A t \in ToSet(r.of) : Within(t, r.at)
         /\ file.type = "pptx" => \A i \in 1..4 : r.at[i] # -1 <=> \E d \in (i + 1)..5 : Depths[d] = file.depth
BY DEF Located, Marked, Deep

LEMMA OfficeMeans ==
  ASSUME OfficeInv
  PROVE  TextsReadOnce
<1> DEFINE e == extracted_data
           read == FlattenSeq([i \in 1..Len(e) |-> IF e[i].kind = "text" THEN e[i].of ELSE <<>>])
           AllShown == (IF file.type = "pptx" THEN read ELSE Mapped(read, LAMBDA t : <<t[1], t[2]>>)) = AllTexts
<1> SUFFICES ASSUME progress = "done", "text" \in file.asks, file.type # "image"
             PROVE  /\ IF GivesNoTexts THEN \A r \in ToSet(e) : r.kind # "text" ELSE AllShown
                    /\ \A r \in ToSet(e) : r.kind = "text" =>
                         /\ \A t \in ToSet(r.of) : Within(t, r.at)
                         /\ file.type = "pptx" =>
                              \A i \in 1..4 : r.at[i] # -1 <=> \E d \in (i + 1)..5 : Depths[d] = file.depth
  BY DEF TextsReadOnce, GivesNoTexts
<1>1. file.type \in {"pptx", "docx"} /\ (file.type = "pptx" => SlidesInv) /\ (file.type = "docx" => ChildrenInv)
  BY DEF OfficeInv, IsFile
<1>2. e \in Seq(GoodRow)
  BY <1>1 DEF SlidesInv, ChildrenInv
<1>3. read = Read(e) /\ Read(e) \in Seq(AnyText)
  BY <1>2, ReadIs, ReadJoin
<1>4. ASSUME ~GivesNoTexts PROVE AllShown
  <2> HIDE DEF read, e
  <2>1. CASE file.type = "pptx"
    <3>1. Read(extracted_data) = AllTexts
      BY <1>1, <2>1 DEF SlidesInv
    <3> QED BY <1>3, <2>1, <3>1 DEF e
  <2>2. CASE file.type = "docx"
    <3>0. InTextRows
      BY <1>4, <2>2 DEF OfficeInv, IsFile, GivesNoTexts, InTextRows
    <3>1. Pairs(read) = AllTexts
      BY <1>1, <1>3, <2>2, <3>0 DEF ChildrenInv, e
    <3>2. Pairs(read) = [i \in 1..Len(read) |-> <<read[i][1], read[i][2]>>]
      <4>1. read \in Seq(AnyText)
        BY <1>3
      <4> QED BY ONLY <4>1, PairsFact
    <3>3. Mapped(read, LAMBDA t : <<t[1], t[2]>>) = [i \in 1..Len(read) |-> <<read[i][1], read[i][2]>>]
      BY DEF Mapped
    <3> QED BY <2>2, <3>1, <3>2, <3>3
  <2> QED BY <1>1, <2>1, <2>2
<1>5. ASSUME NEW r \in ToSet(e), r.kind = "text" PROVE Located(r)
  <2>1. ToSet(e) = {e[i] : i \in 1..Len(e)}
    BY <1>2, LenProperties DEF ToSet
  <2>2. PICK i \in 1..Len(e) : r = e[i]
    BY <1>5, <2>1
  <2>3. r \in GoodRow
    BY <1>2, <2>2, ElementOfSeq
  <2> QED BY <1>5, <2>3 DEF GoodRow, OtherRow
<1>6. ASSUME GivesNoTexts, NEW r \in ToSet(e) PROVE r.kind # "text"
  <2>1. ToSet(e) = {e[i] : i \in 1..Len(e)} /\ e \in Seq(OtherRow)
    BY <1>2, <1>6, LenProperties DEF ToSet, OfficeInv
  <2>2. PICK i \in 1..Len(e) : r = e[i]
    BY <2>1
  <2>3. r \in OtherRow
    BY <2>1, <2>2, ElementOfSeq
  <2> QED BY <2>3 DEF OtherRow
<1> HIDE DEF AllShown
<1> QED BY <1>4, <1>5, <1>6, MarkedIs

\* python_pptx and DocxReader.extract_data: for every presentation at whichever
\* depth, and every document at the depths "block", "page" and "document", each
\* run or item of a paragraph that has text is in the text rows exactly once and
\* in the order of reading; a document at "line" or "span" has no text row; and
\* each text row says where its texts are.
THEOREM OfficeTextsReadOnce == OfficeSpec => []TextsReadOnce
<1>1. OfficeInv => TextsReadOnce
  BY OfficeMeans
<1> QED BY <1>1, OfficeInvariant, PTL

=============================================================================
